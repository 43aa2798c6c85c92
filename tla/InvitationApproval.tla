-------------------------- MODULE InvitationApproval --------------------------
(***************************************************************************)
(* The approval service of the sending device: the handshake every receive *)
(* attempt begins with, the sending user's answer, and the delivery        *)
(* receipts that end an attempt.                                           *)
(*                                                                         *)
(* An attempt is one call of receive on the receiving device; it makes one *)
(* handshake call, so it also names the request the sender records.        *)
(***************************************************************************)
EXTENDS InvitationShare, Naturals, FiniteSets

CONSTANTS
    Attempts,     \* receive attempts
    None,         \* no attempt
    MaxPending    \* limit on requests that wait for an answer

ASSUME ApprovalAssumption == None \notin Attempts /\ MaxPending \in Nat

VARIABLES
    req,        \* [Attempts -> status of the request's row]
    token,      \* requests whose row holds a receipt token
    hs,         \* [Attempts -> step of request_transfer]
    waiter,     \* [Attempts -> who holds the request's decision channel]
    decision,   \* [Attempts -> what the channel carries]
    answer,     \* [Attempts -> the user's answer being recorded]
    todo,       \* pending requests a deletion has listed
    refusing,   \* the request a deletion is refusing
    call,       \* [Attempts -> the handshake call as the receiver sees it]
    accepted    \* history: requests the sending user accepted

requestVars  == <<req, token>>
decisionVars == <<waiter, decision, answer>>
refusalVars  == <<todo, refusing>>
approvalVars == <<requestVars, hs, decisionVars, refusalVars, call, accepted>>

Requests == {"none", "requested", "accepted", "refused", "expired", "completed", "failed", "gone"}
HsSteps  == {"idle", "arrived", "exists", "auto", "auto_requested", "auto_accepted", "queue",
             "queued", "waiting", "granting", "granted", "expiring", "done"}
Calls    == {"none", "sent", "approved", "denied"}

ApprovalInit ==
    /\ req = [a \in Attempts |-> "none"] /\ token = {}
    /\ hs = [a \in Attempts |-> "idle"]
    /\ waiter = [a \in Attempts |-> "none"] /\ decision = [a \in Attempts |-> "none"]
    /\ answer = [a \in Attempts |-> "none"]
    /\ todo = {} /\ refusing = None
    /\ call = [a \in Attempts |-> "none"]
    /\ accepted = {}

(***************************************************************************)
(* request_transfer.  The answer reaches a receiver that still waits.      *)
(***************************************************************************)
HsMoves(a, from, to) == hs[a] = from /\ hs' = [hs EXCEPT ![a] = to]

Answered(a, reply) ==
    call' = [call EXCEPT ![a] = IF @ = "sent" THEN reply ELSE @]

Denies(a, from) == HsMoves(a, from, "done") /\ Answered(a, "denied")

\* Fault: the update records its status over whatever the row says.
RecordAnyway(a, to) == req' = [req EXCEPT ![a] = to]

\* update_receiver_request_status is a compare-and-set on Requested.
Open(a)         == req[a] = "requested"
Record(a, to)   == req' = [req EXCEPT ![a] = IF Open(a) THEN to ELSE @]

HandshakeArrives(a) ==
    /\ call[a] = "sent"
    /\ HsMoves(a, "idle", "arrived")
    /\ UNCHANGED <<requestVars, decisionVars, refusalVars, call, accepted>>

\* The receiver is blocked, or its metadata too large.
HandshakeRefused(a) ==
    /\ Denies(a, "arrived")
    /\ UNCHANGED <<requestVars, decisionVars, refusalVars, accepted>>

\* send_exists.
HandshakeExists(a) ==
    /\ \/ status = "sharing" /\ HsMoves(a, "arrived", "exists") /\ UNCHANGED call
       \/ status # "sharing" /\ Denies(a, "arrived")
    /\ UNCHANGED <<requestVars, decisionVars, refusalVars, accepted>>

\* AccessPolicy::decide.
HandshakeDecides(a) ==
    /\ HsMoves(a, "exists", IF Decide THEN "auto" ELSE "queue")
    /\ UNCHANGED <<requestVars, decisionVars, refusalVars, call, accepted>>

\* allow_without_sender_decision: insert, accept, attach the token.
AutoInsert(a) ==
    /\ HsMoves(a, "auto", "auto_requested")
    /\ req' = [req EXCEPT ![a] = "requested"]
    /\ UNCHANGED <<token, decisionVars, refusalVars, call, accepted>>

AutoAccept(a) ==
    /\ \/ Open(a) /\ HsMoves(a, "auto_requested", "auto_accepted") /\ UNCHANGED call
       \/ ~Open(a) /\ Denies(a, "auto_requested")
    /\ Record(a, "accepted")
    /\ UNCHANGED <<token, decisionVars, refusalVars, accepted>>

\* set_receiver_receipt_token, then the reply.
AttachToken(a, from) ==
    LET ok == req[a] = "accepted" IN
    /\ HsMoves(a, from, "done")
    /\ token' = IF ok THEN token \cup {a} ELSE token
    /\ Answered(a, IF ok THEN "approved" ELSE "denied")
    /\ UNCHANGED <<req, decisionVars, refusalVars, accepted>>

AutoToken(a) == AttachToken(a, "auto_accepted")

\* wait_for_sender_decision: the channel is registered before the row.
Pending == {a \in Attempts : waiter[a] = "pending"}

Queue(a) ==
    LET full == Cardinality(Pending) >= MaxPending IN
    /\ \/ full /\ Denies(a, "queue")
       \/ ~full /\ HsMoves(a, "queue", "queued") /\ UNCHANGED call
    /\ waiter' = [waiter EXCEPT ![a] = IF full THEN @ ELSE "pending"]
    /\ UNCHANGED <<requestVars, decision, answer, refusalVars, accepted>>

QueueInsert(a) ==
    /\ HsMoves(a, "queued", "waiting")
    /\ req' = [req EXCEPT ![a] = "requested"]
    /\ UNCHANGED <<token, decisionVars, refusalVars, call, accepted>>

WaitAccepted(a) ==
    /\ decision[a] = "yes"
    /\ HsMoves(a, "waiting", "granting")
    /\ UNCHANGED <<requestVars, decisionVars, refusalVars, call, accepted>>

WaitRefused(a) ==
    /\ decision[a] = "no"
    /\ Denies(a, "waiting")
    /\ UNCHANGED <<requestVars, decisionVars, refusalVars, accepted>>

\* Two minutes have passed, or the channel was dropped.
WaitExpires(a) ==
    /\ decision[a] \in {"none", "dropped"}
    /\ HsMoves(a, "waiting", "expiring")
    /\ waiter' = [waiter EXCEPT ![a] = IF @ = "pending" THEN "none" ELSE @]
    /\ UNCHANGED <<requestVars, decision, answer, refusalVars, call, accepted>>

\* Fault: the expired request stays open in the database.
ExpireSilently(a) ==
    /\ Denies(a, "expiring")
    /\ UNCHANGED <<requestVars, decisionVars, refusalVars, accepted>>

\* Fault: a timeout is recorded with the status of a transfer.
ExpireAsCancelled(a) ==
    /\ Denies(a, "expiring")
    /\ Record(a, "cancelled")
    /\ UNCHANGED <<token, decisionVars, refusalVars, accepted>>

Expire(a) ==
    /\ Denies(a, "expiring")
    /\ Record(a, "expired")
    /\ UNCHANGED <<token, decisionVars, refusalVars, accepted>>

\* The session comes before the token.
Grant(a) ==
    /\ HsMoves(a, "granting", "granted")
    /\ UNCHANGED <<requestVars, decisionVars, refusalVars, call, accepted>>

GrantToken(a) == AttachToken(a, "granted")

(***************************************************************************)
(* respond: the channel is taken first, then the row updated, then the     *)
(* decision sent; if the update fails the channel is dropped.  The sending *)
(* user may answer a request it once saw, also one that has been settled.  *)
(***************************************************************************)
Take(a, who) == waiter' = [waiter EXCEPT ![a] = IF @ = "pending" THEN who ELSE @]

Settle(a, who, what) ==
    /\ Record(a, IF what = "yes" THEN "accepted" ELSE "refused")
    /\ decision' = [decision EXCEPT ![a] =
                      IF waiter[a] # who THEN @ ELSE IF Open(a) THEN what ELSE "dropped"]
    /\ waiter' = [waiter EXCEPT ![a] = IF @ = who THEN "none" ELSE @]

RespondTake(a, what) ==
    /\ req[a] # "none"
    /\ answer[a] = "none" /\ answer' = [answer EXCEPT ![a] = what]
    /\ Take(a, "user")
    /\ UNCHANGED <<requestVars, hs, decision, refusalVars, call, accepted>>

RespondCommit(a) ==
    /\ answer[a] # "none" /\ answer' = [answer EXCEPT ![a] = "none"]
    /\ Settle(a, "user", answer[a])
    /\ accepted' = IF Open(a) /\ answer[a] = "yes" THEN accepted \cup {a} ELSE accepted
    /\ UNCHANGED <<token, hs, refusalVars, call>>

(***************************************************************************)
(* delete_transfer refuses the requests it finds open, then deletes the    *)
(* rows of all requests with the transfer's.                               *)
(***************************************************************************)
ListRequests ==
    /\ todo' = {a \in Attempts : Open(a)}
    /\ UNCHANGED <<requestVars, hs, decisionVars, refusing, call, accepted>>

RefuseTake(a) ==
    /\ refusing = None /\ a \in todo
    /\ refusing' = a /\ todo' = todo \ {a}
    /\ Take(a, "delete")
    /\ UNCHANGED <<requestVars, hs, decision, answer, call, accepted>>

RefuseCommit(a) ==
    /\ refusing = a /\ refusing' = None
    /\ Settle(a, "delete", "no")
    /\ UNCHANGED <<token, hs, answer, todo, call, accepted>>

DeleteRequests ==
    /\ req' = [a \in Attempts |-> IF req[a] = "none" THEN "none" ELSE "gone"]
    /\ token' = {}
    /\ UNCHANGED <<hs, decisionVars, refusalVars, call, accepted>>

(***************************************************************************)
(* complete_delivery and fail_delivery: each records an accepted request   *)
(* once and answers a repetition of the same receipt as recorded.          *)
(***************************************************************************)
Ending(kind) == IF kind = "success" THEN "completed" ELSE "failed"

RecordsReceipt(a, kind) == a \in token /\ req[a] \in {"accepted", Ending(kind)}

ReceiptRecorded(a, kind) ==
    /\ req' = [req EXCEPT ![a] = IF RecordsReceipt(a, kind) THEN Ending(kind) ELSE @]
    /\ UNCHANGED <<token, hs, decisionVars, refusalVars, call, accepted>>

(***************************************************************************)
(* The sending process dies: handshakes and channels are lost, and startup *)
(* expires the requests left open.                                         *)
(***************************************************************************)
\* Fault: startup expires the accepted requests too.
RestartExpiresAccepted ==
    /\ req' = [a \in Attempts |-> IF req[a] \in {"requested", "accepted"} THEN "expired" ELSE req[a]]
    /\ hs' = [a \in Attempts |-> IF hs[a] = "idle" THEN "idle" ELSE "done"]
    /\ waiter' = [a \in Attempts |-> "none"] /\ decision' = [a \in Attempts |-> "none"]
    /\ answer' = [a \in Attempts |-> "none"]
    /\ todo' = {} /\ refusing' = None
    /\ UNCHANGED <<token, call, accepted>>

RestartApproval ==
    /\ req' = [a \in Attempts |-> IF Open(a) THEN "expired" ELSE req[a]]
    /\ hs' = [a \in Attempts |-> IF hs[a] = "idle" THEN "idle" ELSE "done"]
    /\ waiter' = [a \in Attempts |-> "none"] /\ decision' = [a \in Attempts |-> "none"]
    /\ answer' = [a \in Attempts |-> "none"]
    /\ todo' = {} /\ refusing' = None
    /\ UNCHANGED <<token, call, accepted>>

HandshakeStep(a) ==
    \/ HandshakeRefused(a) \/ HandshakeExists(a) \/ HandshakeDecides(a)
    \/ AutoInsert(a) \/ AutoAccept(a) \/ AutoToken(a)
    \/ Queue(a) \/ QueueInsert(a) \/ WaitAccepted(a) \/ WaitRefused(a) \/ WaitExpires(a)
    \/ Expire(a) \/ GrantToken(a)

ApprovalStep(a) ==
    \/ HandshakeArrives(a) \/ HandshakeStep(a)
    \/ (\E what \in {"yes", "no"} : RespondTake(a, what)) \/ RespondCommit(a)
==============================================================================
