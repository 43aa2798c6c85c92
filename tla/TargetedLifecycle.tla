-------------------------- MODULE TargetedLifecycle ---------------------------
(***************************************************************************)
(* What a Targeted transfer promises the two users, with no calls, secrets *)
(* or processes: how the state each device shows may change, and what must *)
(* be true of the other device when it does.                               *)
(*                                                                         *)
(* "absent" is a transfer not registered yet, "gone" one whose             *)
(* registration was withdrawn before approval.                             *)
(***************************************************************************)
CONSTANT Transfers

VARIABLES
    sending,     \* [Transfers -> state shown by the sending device]
    receiving,   \* [Transfers -> state shown by the receiving device]
    consented    \* transfers the receiving user accepted

vars == <<sending, receiving, consented>>

BeforeApproval == {"preparing", "offering", "awaiting_approval"}
Runnable       == {"approved", "connecting", "transferring", "interrupted"}
Ended          == {"completed", "declined", "cancelled", "failed", "deleted"}
Shown          == BeforeApproval \cup Runnable \cup Ended \cup {"absent", "gone"}

Init ==
    /\ sending = [t \in Transfers |-> "absent"]
    /\ receiving = [t \in Transfers |-> "absent"]
    /\ consented = {}

\* Any transfer that has not ended may be cancelled or fail; any may be deleted.
Ends(from, to) ==
    \/ from \in BeforeApproval \cup Runnable /\ to \in {"cancelled", "failed"}
    \/ from \in (BeforeApproval \cup Runnable \cup Ended) \ {"deleted"} /\ to = "deleted"

\* The receiving user accepts an offer the sender is waiting for or gave up.
Accepts(t) == t \in consented' => t \in consented \/ sending[t] # "absent"

SendingMoves(t, from, to) ==
    \/ to = from
    \/ from = "absent" /\ to \in {"preparing", "gone"}
    \/ from = "preparing" /\ to = "offering"
    \/ from = "offering" /\ to = "awaiting_approval"
    \/ from \in BeforeApproval /\ to = "gone"
    \/ from = "awaiting_approval" /\ to = "declined"
    \* approval needs the receiving user's consent
    \/ from = "awaiting_approval" /\ to = "approved" /\ t \in consented
    \* completion is the receiver's to claim
    \/ from \in Runnable /\ to = "completed" /\ receiving[t] \in {"completed", "deleted"}
    \/ Ends(from, to)

ReceivingMoves(t, from, to) ==
    \/ to = from
    \* the receiver joins a transfer its user accepted and its sender approved
    \/ /\ from = "absent" /\ to = "approved"
       /\ t \in consented
       /\ sending[t] \notin BeforeApproval \cup {"absent", "gone", "declined"}
    \/ from \in {"approved", "interrupted"} /\ to = "connecting"
    \/ from = "connecting" /\ to = "transferring"
    \/ from \in {"connecting", "transferring"} /\ to = "interrupted"
    \/ from = "transferring" /\ to = "completed"
    \/ Ends(from, to)

\* Forgetting a peer and recovering from a crash move several transfers at once,
\* always on one device.
Next ==
    /\ sending' \in [Transfers -> Shown] /\ receiving' \in [Transfers -> Shown]
    /\ consented \subseteq consented' /\ consented' \subseteq Transfers
    /\ sending' = sending \/ receiving' = receiving
    /\ \A t \in Transfers :
          /\ Accepts(t)
          /\ SendingMoves(t, sending[t], sending'[t])
          /\ ReceivingMoves(t, receiving[t], receiving'[t])

Spec == Init /\ [][Next]_vars
==============================================================================
