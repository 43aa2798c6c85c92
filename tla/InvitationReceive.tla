-------------------------- MODULE InvitationReceive ---------------------------
(***************************************************************************)
(* The receiving device of an Invitation transfer: receive attempts, their *)
(* cancellation, the history row they share, and the task that delivers    *)
(* their receipts to the sender.                                           *)
(*                                                                         *)
(* All attempts for one ticket use one transfer id: one row, and one entry *)
(* in active_transfers.  An attempt whose entry is taken, replaced or      *)
(* removed sees its cancellation channel fire.                             *)
(***************************************************************************)
EXTENDS InvitationApproval

VARIABLES
    row,         \* status of the receive row
    active,      \* the attempt whose entry is in active_transfers
    run,         \* [Attempts -> step of receive_to_target]
    holding,     \* attempts that hold a receipt to report
    receipt,     \* [Attempts -> the receipt queued in SQLite]
    finished,    \* history: attempts that published their files and committed
    cancelling,  \* cancel_transfer has yet to update the row
    deleting,    \* delete_transfer has found no active transfer
    task,        \* step of the delivery task
    batch,       \* [Attempts -> the receipt the task has listed]
    sending,     \* the attempt whose receipt awaits the sender's answer
    ack,         \* the answer
    permit,      \* delivery_receipt_notify holds a permit
    wire         \* receipts on their way to the sender

runVars      == <<row, active, run, holding, receipt, finished>>
commandVars  == <<cancelling, deleting>>
deliveryVars == <<task, batch, sending, ack, wire>>
receiveVars  == <<runVars, commandVars, deliveryVars, permit>>

Rows     == {"absent", "receiving", "done", "failed", "cancelled"}
Ended    == {"done", "failed", "cancelled"}
RunSteps == {"idle", "started", "entered", "asking", "approved", "fetching", "exported",
             "committed", "finishing", "failing", "marking", "cancelled", "reporting", "ended"}
Receipts == {"success", "failure"}

ReceiveInit ==
    /\ row = "absent" /\ active = None
    /\ run = [a \in Attempts |-> "idle"]
    /\ holding = {} /\ receipt = [a \in Attempts |-> "none"] /\ finished = {}
    /\ cancelling = FALSE /\ deleting = FALSE
    /\ task = "listing" /\ batch = [a \in Attempts |-> "none"]
    /\ sending = None /\ ack = "none" /\ permit = FALSE /\ wire = {}

(***************************************************************************)
(* receive_to_target and receive_inner.  A step that has to wait for       *)
(* something new is taken only while the attempt's entry is in place; an   *)
(* answer it was waiting for may still win against its cancellation.       *)
(***************************************************************************)
RunMoves(a, from, to) == run[a] = from /\ run' = [run EXCEPT ![a] = to]

\* start_receive: one attempt at a time, by the row's status.
ReceiveStart(a) ==
    /\ RunMoves(a, "idle", "started")
    /\ status \in {"sharing", "stopped"}     \* there is a ticket
    /\ row # "receiving" /\ row' = "receiving"
    /\ UNCHANGED <<active, holding, receipt, finished, call>>

ReceiveEnter(a) ==
    /\ RunMoves(a, "started", "entered")
    /\ active' = a
    /\ UNCHANGED <<row, holding, receipt, finished, call>>

\* request_transfer_approval.
Ask(a) ==
    /\ active = a
    /\ RunMoves(a, "entered", "asking")
    /\ call' = [call EXCEPT ![a] = "sent"]
    /\ UNCHANGED <<row, active, holding, receipt, finished>>

AskApproved(a) ==
    /\ call[a] = "approved"
    /\ RunMoves(a, "asking", "approved")
    /\ holding' = holding \cup {a}
    /\ UNCHANGED <<row, active, receipt, finished, call>>

\* The request was denied, or the call failed.
AskFails(a) ==
    /\ call[a] # "approved"
    /\ RunMoves(a, "asking", "failing")
    /\ call' = [call EXCEPT ![a] = "none"]
    /\ UNCHANGED <<row, active, holding, receipt, finished>>

\* The provider authorizes a request when it starts.
Fetch(a) ==
    /\ active = a /\ Readable
    /\ RunMoves(a, "approved", "fetching")
    /\ UNCHANGED <<row, active, holding, receipt, finished, call>>

Export(a) ==
    /\ active = a
    /\ RunMoves(a, "fetching", "exported")
    /\ UNCHANGED <<row, active, holding, receipt, finished, call>>

\* Denied by the provider, disconnected, or the output could not be written.
FetchFails(a) ==
    /\ \/ RunMoves(a, "approved", "failing")
       \/ RunMoves(a, "fetching", "failing")
    /\ UNCHANGED <<row, active, holding, receipt, finished, call>>

\* Fault: the receipt is queued although the row was not Receiving.
CommitReceiptAlone(a) ==
    LET ok == row = "receiving" IN
    /\ RunMoves(a, "exported", IF ok THEN "committed" ELSE "failing")
    /\ row' = IF ok THEN "done" ELSE row
    /\ receipt' = [receipt EXCEPT ![a] = "success"]
    /\ finished' = IF ok THEN finished \cup {a} ELSE finished
    /\ UNCHANGED <<active, holding, call>>

\* complete_receive_with_pending_receipt: row and receipt in one transaction.
ReceiveCommit(a) ==
    LET ok == row = "receiving" IN
    /\ RunMoves(a, "exported", IF ok THEN "committed" ELSE "failing")
    /\ row' = IF ok THEN "done" ELSE row
    /\ receipt' = [receipt EXCEPT ![a] = IF ok THEN "success" ELSE @]
    /\ finished' = IF ok THEN finished \cup {a} ELSE finished
    /\ UNCHANGED <<active, holding, call>>

\* The pairing eligibility is activated between the commit and this step.
ReceiveFinish(a) ==
    /\ RunMoves(a, "committed", "finishing")
    /\ holding' = holding \ {a}
    /\ permit' = TRUE
    /\ UNCHANGED <<row, active, receipt, finished, call>>

\* The select takes the cancellation.
ReceiveCancelled(a) ==
    /\ active # a
    /\ run[a] \in {"entered", "asking", "approved", "fetching", "exported", "committed"}
    /\ run' = [run EXCEPT ![a] = "cancelled"]
    /\ call' = [call EXCEPT ![a] = "none"]
    /\ UNCHANGED <<row, active, holding, receipt, finished>>

\* The entry of the transfer id is removed, whichever attempt it belongs to.
ReceiveLeave(a) ==
    /\ \/ RunMoves(a, "finishing", "ended")
       \/ RunMoves(a, "failing", "marking")
       \/ RunMoves(a, "cancelled", "reporting")
    /\ active' = None
    /\ UNCHANGED <<row, holding, receipt, finished, call>>

ReceiveFailed(a) ==
    /\ RunMoves(a, "marking", "reporting")
    /\ row' = IF row = "receiving" THEN "failed" ELSE row
    /\ UNCHANGED <<active, holding, receipt, finished, call>>

\* queue_failed_delivery_receipt, when a receipt is held.
ReceiveReport(a) ==
    /\ RunMoves(a, "reporting", "ended")
    /\ receipt' = [receipt EXCEPT ![a] = IF a \in holding THEN "failure" ELSE @]
    /\ holding' = holding \ {a}
    /\ permit' = (permit \/ a \in holding)
    /\ UNCHANGED <<row, active, finished, call>>

RunStep(a) ==
    \/ /\ \/ ReceiveEnter(a) \/ Ask(a) \/ AskApproved(a) \/ AskFails(a)
          \/ Fetch(a) \/ Export(a) \/ FetchFails(a) \/ ReceiveCommit(a)
          \/ ReceiveCancelled(a) \/ ReceiveLeave(a) \/ ReceiveFailed(a)
       /\ UNCHANGED permit
    \/ ReceiveFinish(a) \/ ReceiveReport(a)

(***************************************************************************)
(* The receiving user: cancel_transfer takes the entry at once and updates *)
(* the row afterwards; delete_transfer checks for an entry and deletes the *)
(* row afterwards; delete_receive_history is one transaction.              *)
(***************************************************************************)
CancelReceive ==
    /\ "cancel_receive" \in Commands
    /\ active # None /\ active' = None
    /\ ~cancelling /\ cancelling' = TRUE
    /\ UNCHANGED <<row, run, holding, receipt, finished, deleting>>

MarkCancelled ==
    /\ cancelling /\ cancelling' = FALSE
    /\ row' = IF row = "receiving" THEN "cancelled" ELSE row
    /\ UNCHANGED <<active, run, holding, receipt, finished, deleting>>

DeleteReceiveCheck ==
    /\ "delete_receive" \in Commands
    /\ active = None /\ row # "absent"
    /\ ~deleting /\ deleting' = TRUE
    /\ UNCHANGED <<runVars, cancelling>>

DeleteReceiveRow ==
    /\ deleting /\ deleting' = FALSE
    /\ row' = "absent"
    /\ UNCHANGED <<active, run, holding, receipt, finished, cancelling>>

ClearHistory ==
    /\ "clear_history" \in Commands
    /\ row \in Ended /\ row' = "absent"
    /\ UNCHANGED <<active, run, holding, receipt, finished, commandVars>>

ReceiveCommand ==
    CancelReceive \/ MarkCancelled \/ DeleteReceiveCheck \/ DeleteReceiveRow \/ ClearHistory

(***************************************************************************)
(* The delivery task: it lists the queued receipts, sends them one by one, *)
(* and sleeps until it is notified or, if it had any, until a retry is due.*)
(***************************************************************************)
Empty == [a \in Attempts |-> "none"]

ListReceipts ==
    /\ task = "listing"
    /\ batch' = receipt
    /\ task' = IF receipt = Empty THEN "parked" ELSE "sending"
    /\ UNCHANGED <<sending, ack, wire, permit, receipt>>

SendReceipt(a) ==
    /\ task = "sending" /\ sending = None
    /\ batch[a] # "none"
    /\ sending' = a /\ ack' = "none"
    /\ wire' = wire \cup {<<a, batch[a]>>}
    /\ UNCHANGED <<task, batch, permit, receipt>>

\* Recorded and rejected receipts are both deleted, by request id.
ReceiptSettled(a) ==
    /\ sending = a /\ ack # "none"
    /\ receipt' = [receipt EXCEPT ![a] = "none"]
    /\ batch' = [batch EXCEPT ![a] = "none"]
    /\ sending' = None /\ ack' = "none"
    /\ UNCHANGED <<task, wire, permit>>

\* Fault: a receipt whose delivery failed is given up.
ReceiptDropped(a) ==
    /\ sending = a
    /\ receipt' = [receipt EXCEPT ![a] = "none"]
    /\ batch' = [batch EXCEPT ![a] = "none"]
    /\ sending' = None /\ ack' = "none"
    /\ UNCHANGED <<task, wire, permit>>

\* Five seconds have passed, or the call failed; the receipt stays queued.
ReceiptDeferred(a) ==
    /\ sending = a
    /\ batch' = [batch EXCEPT ![a] = "none"]
    /\ sending' = None /\ ack' = "none"
    /\ UNCHANGED <<task, wire, permit, receipt>>

BatchDone ==
    /\ task = "sending" /\ sending = None /\ batch = Empty
    /\ task' = "waiting"
    /\ UNCHANGED <<batch, sending, ack, wire, permit, receipt>>

\* Notify hands its permit to the waiting task, or keeps it for the next wait.
WakeUp ==
    /\ task \in {"waiting", "parked"}
    /\ permit \/ task = "waiting"
    /\ task' = "listing" /\ permit' = FALSE
    /\ UNCHANGED <<batch, sending, ack, wire, receipt>>

DeliveryStep(a) ==
    \/ SendReceipt(a) \/ ReceiptSettled(a) \/ ReceiptDeferred(a)

\* The sender's answer reaches the call that waits for it.
ReceiptArrives(m) ==
    /\ m \in wire /\ wire' = wire \ {m}
    /\ ReceiptRecorded(m[1], m[2])
    /\ ack' = IF sending = m[1] /\ batch[m[1]] = m[2]
              THEN IF RecordsReceipt(m[1], m[2]) THEN "recorded" ELSE "rejected"
              ELSE ack

ReceiptLost(m) == m \in wire /\ wire' = wire \ {m}

(***************************************************************************)
(* The receiving process dies and starts again: running attempts end, the  *)
(* row fails, and the delivery task begins with a listing.                 *)
(***************************************************************************)
RestartReceive ==
    /\ row' = IF row = "receiving" THEN "failed" ELSE row
    /\ active' = None /\ holding' = {}
    /\ run' = [a \in Attempts |-> IF run[a] = "idle" THEN "idle" ELSE "ended"]
    /\ call' = [a \in Attempts |-> "none"]
    /\ cancelling' = FALSE /\ deleting' = FALSE
    /\ task' = "listing" /\ batch' = Empty /\ sending' = None /\ ack' = "none"
    /\ permit' = FALSE
    /\ UNCHANGED <<receipt, finished, wire>>
==============================================================================
