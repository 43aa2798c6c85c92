---------------------------- MODULE InvitationShare ---------------------------
(***************************************************************************)
(* One Invitation share on the sending device: publication, cancellation,  *)
(* deletion, access mode, and recovery at startup.                         *)
(*                                                                         *)
(* Four things decide whether the blob provider serves the share's         *)
(* content, and each is changed under a lock of its own: the row in        *)
(* SQLite, the hash registrations, the access policy, and active_shares.   *)
(* Only active_shares' lock is held across several steps; it is a variable *)
(* here.  A step is the code between two awaits that matter.               *)
(***************************************************************************)
CONSTANTS
    Commands,      \* what the users do in this instance
    ModeCallers    \* concurrent calls of set_transfer_access_mode

UserCommands == {"stop", "delete", "delete_early", "mode", "approve",
                 "cancel_receive", "delete_receive", "clear_history"}

ASSUME ShareCommandsAssumption == Commands \subseteq UserCommands

VARIABLES
    status,     \* the row's status; "gone" once deleted
    stored,     \* the row's access mode
    tag,        \* the persistent blob tag keeps the payload
    hashes,     \* root and members are registered with the provider
    mode,       \* the access policy's mode
    session,    \* the access policy's session for the receiving endpoint
    share,      \* the transfer is in active_shares
    lock,       \* who holds the lock of active_shares
    entry,      \* the transfer is in active_transfers
    pub,        \* step of share_files
    asked,      \* the access mode the user asked for
    inflight,   \* a commit sent to SQLite by a publication that was dropped
    prep,       \* [Preparers -> step of cancel_share_preparation]
    stopping,   \* step of cancel_idle_or_share
    del, seen,  \* step of delete_transfer, and the status it read
    setting,    \* [ModeCallers -> mode being set, or "none"]
    approving   \* approve_endpoint_for_transfer has checked active_shares

accessVars == <<tag, hashes, mode, session, share>>
jobVars    == <<prep, stopping, del, seen, setting, approving>>
pubVars    == <<entry, pub, asked, inflight>>
shareVars  == <<status, stored, accessVars, lock, pubVars, jobVars>>

Modes     == {"approval", "public"}
Preparers == {"task", "user"}
Statuses  == {"absent", "importing", "sharing", "stopped", "cancelled", "failed", "gone"}
PubSteps  == {"idle", "inserted", "importing", "imported", "tagged", "locked", "committed",
              "hashed", "moded", "published", "failing", "marking", "dropped", "done"}
DelSteps  == {"none", "checked", "read", "listing", "refusing", "withdraw",
              "unregister", "release", "delete"}

\* Fault: a transfer without an access mode is readable.
DecideWithoutMode == mode # "approval" \/ session

\* authorize_hash: the provider serves a registered hash the policy allows.
Decide   == mode = "public" \/ (mode = "approval" /\ session)
Readable == hashes /\ Decide

\* AccessPolicy::remove_transfer and unregister_transfer_hashes.
Withdraw == hashes' = FALSE /\ mode' = "none" /\ session' = FALSE

ShareInit ==
    /\ status = "absent" /\ stored = "approval"
    /\ tag = FALSE /\ hashes = FALSE /\ mode = "none" /\ session = FALSE /\ share = FALSE
    /\ lock = "free"
    /\ entry = FALSE /\ pub = "idle" /\ asked = "approval" /\ inflight = FALSE
    /\ prep = [w \in Preparers |-> "idle"] /\ stopping = "none"
    /\ del = "none" /\ seen = "absent"
    /\ setting = [c \in ModeCallers |-> "none"] /\ approving = FALSE

(***************************************************************************)
(* share_files and share_files_inner.  The publication runs inside a       *)
(* select with its cancellation signal, which is the loss of its entry: a  *)
(* signalled publication is dropped where it stands, except that the       *)
(* answer to its commit may still carry it to its end.                     *)
(***************************************************************************)
Publishes(from, to) == pub = from /\ pub' = to

ShareInsert ==
    /\ Publishes("idle", "inserted")
    /\ status = "absent" /\ status' = "importing"
    /\ \E m \in Modes : asked' = m /\ stored' = m
    /\ UNCHANGED <<accessVars, lock, entry, inflight, jobVars>>

ShareEnter ==
    /\ Publishes("inserted", "importing")
    /\ entry' = TRUE
    /\ UNCHANGED <<status, stored, accessVars, lock, asked, inflight, jobVars>>

ImportFails ==
    /\ Publishes("importing", "failing")
    /\ UNCHANGED <<status, stored, accessVars, lock, entry, asked, inflight, jobVars>>

\* The import is followed by a look-up of the row's local id.
ImportDone ==
    /\ entry
    /\ Publishes("importing", IF status = "gone" THEN "failing" ELSE "imported")
    /\ UNCHANGED <<status, stored, accessVars, lock, entry, asked, inflight, jobVars>>

SetTag ==
    /\ entry
    /\ Publishes("imported", "tagged")
    /\ tag' = TRUE
    /\ UNCHANGED <<status, stored, hashes, mode, session, share, lock, entry, asked,
                   inflight, jobVars>>

LockShares ==
    /\ entry
    /\ Publishes("tagged", "locked")
    /\ lock = "free" /\ lock' = "publish"
    /\ UNCHANGED <<status, stored, accessVars, entry, asked, inflight, jobVars>>

\* complete_share_import, a compare-and-set on Importing.
Commit ==
    LET ok == status = "importing" IN
    /\ Publishes("locked", IF ok THEN "committed" ELSE "failing")
    /\ status' = IF ok THEN "sharing" ELSE status
    /\ stored' = IF ok THEN asked ELSE stored
    /\ tag' = (ok /\ tag)
    /\ lock' = IF ok THEN lock ELSE "free"
    /\ UNCHANGED <<hashes, mode, session, share, entry, asked, inflight, jobVars>>

RegisterHashes ==
    /\ Publishes("committed", "hashed")
    /\ hashes' = TRUE
    /\ UNCHANGED <<status, stored, tag, mode, session, share, lock, entry, asked,
                   inflight, jobVars>>

SetMode ==
    /\ Publishes("hashed", "moded")
    /\ mode' = asked
    /\ UNCHANGED <<status, stored, tag, hashes, session, share, lock, entry, asked,
                   inflight, jobVars>>

Publish ==
    /\ Publishes("moded", "published")
    /\ share' = TRUE /\ lock' = "free"
    /\ UNCHANGED <<status, stored, tag, hashes, mode, session, entry, asked,
                   inflight, jobVars>>

ShareLeave ==
    /\ \/ Publishes("published", "done")
       \/ Publishes("failing", "marking")
    /\ entry' = FALSE
    /\ UNCHANGED <<status, stored, accessVars, lock, asked, inflight, jobVars>>

ShareFailed ==
    /\ Publishes("marking", "done")
    /\ status' = IF status = "importing" THEN "failed" ELSE status
    /\ UNCHANGED <<stored, accessVars, lock, entry, asked, inflight, jobVars>>

\* The select takes the cancellation: the publication is dropped with its lock,
\* and a commit it was waiting for may still reach SQLite.
ShareDropped ==
    /\ pub \in {"importing", "imported", "tagged", "locked", "committed", "hashed", "moded"}
    /\ ~entry
    /\ pub' = "dropped"
    /\ lock' = IF pub \in {"locked", "committed", "hashed", "moded"} THEN "free" ELSE lock
    /\ inflight' \in {FALSE, pub = "locked"}
    /\ prep' = [prep EXCEPT !["task"] = "wanted"]
    /\ UNCHANGED <<status, stored, accessVars, entry, asked, stopping, del, seen, setting,
                   approving>>

CommitLands ==
    /\ inflight /\ inflight' = FALSE
    /\ status' = IF status = "importing" THEN "sharing" ELSE status
    /\ UNCHANGED <<stored, accessVars, lock, entry, pub, asked, jobVars>>

(***************************************************************************)
(* cancel_transfer: a transfer in active_transfers is signalled and its    *)
(* preparation cancelled, by this call and by share_files itself; an idle  *)
(* share is stopped.                                                       *)
(***************************************************************************)
CancelTransfer ==
    /\ "stop" \in Commands
    /\ status # "absent"
    /\ prep["user"] = "idle" /\ stopping = "none"
    /\ entry' = FALSE
    /\ prep' = [prep EXCEPT !["user"] = IF entry THEN "wanted" ELSE "idle"]
    /\ stopping' = IF entry THEN "none" ELSE "wanted"
    /\ UNCHANGED <<status, stored, accessVars, lock, pub, asked, inflight, del, seen,
                   setting, approving>>

PrepMoves(w, from, to) == prep[w] = from /\ prep' = [prep EXCEPT ![w] = to]

\* Fault: a share that was committed when its cancellation comes stays Sharing.
PrepDenyImporting(w) ==
    LET known == status \notin {"absent", "gone"} IN
    /\ PrepMoves(w, "wanted", IF known THEN "denied" ELSE "idle")
    /\ lock = "free" /\ lock' = IF known THEN w ELSE "free"
    /\ status' = IF status = "importing" THEN "cancelled" ELSE status
    /\ UNCHANGED <<stored, accessVars, pubVars, stopping, del, seen, setting, approving>>

\* cancel_share_preparation, with active_shares locked throughout.
PrepDeny(w) ==
    LET known == status \notin {"absent", "gone"} IN
    /\ PrepMoves(w, "wanted", IF known THEN "denied" ELSE "idle")
    /\ lock = "free" /\ lock' = IF known THEN w ELSE "free"
    /\ status' = CASE status = "importing" -> "cancelled"
                   [] status = "sharing"   -> "stopped"
                   [] OTHER                -> status
    /\ UNCHANGED <<stored, accessVars, pubVars, stopping, del, seen, setting, approving>>

\* Fault: the hash registrations and the access policy are forgotten.
PrepKeepsAccess(w) ==
    /\ PrepMoves(w, "denied", "withdrawn")
    /\ share' = FALSE
    /\ UNCHANGED <<status, stored, tag, hashes, mode, session, lock, pubVars, stopping, del,
                   seen, setting, approving>>

PrepWithdraw(w) ==
    /\ PrepMoves(w, "denied", "withdrawn")
    /\ share' = FALSE
    /\ Withdraw
    /\ UNCHANGED <<status, stored, tag, lock, pubVars, stopping, del, seen, setting, approving>>

\* The tag's name needs the row's local id.
PrepRelease(w) ==
    /\ PrepMoves(w, "withdrawn", "idle")
    /\ tag' = (tag /\ status = "gone")
    /\ lock' = "free"
    /\ UNCHANGED <<status, stored, hashes, mode, session, share, pubVars, stopping, del, seen,
                   setting, approving>>

StopMoves(from, to) == stopping = from /\ stopping' = to

\* cancel_idle_or_share.
StopDeny ==
    LET ok == share /\ status \in {"sharing", "stopped"} IN
    /\ StopMoves("wanted", IF ok THEN "unregister" ELSE "none")
    /\ lock = "free"
    /\ status' = IF ok THEN "stopped" ELSE status
    /\ share' = (share /\ ~ok)
    /\ UNCHANGED <<stored, tag, hashes, mode, session, lock, pubVars, prep, del, seen,
                   setting, approving>>

StopWithdraw ==
    /\ StopMoves("unregister", "release")
    /\ Withdraw
    /\ UNCHANGED <<status, stored, tag, share, lock, pubVars, prep, del, seen, setting, approving>>

\* Fault: the tag outlives the share.
StopKeepsTag ==
    /\ StopMoves("release", "none")
    /\ UNCHANGED <<status, stored, accessVars, lock, pubVars, prep, del, seen, setting, approving>>

StopRelease ==
    /\ StopMoves("release", "none")
    /\ tag' = FALSE
    /\ UNCHANGED <<status, stored, hashes, mode, session, share, lock, pubVars, prep, del,
                   seen, setting, approving>>

(***************************************************************************)
(* delete_transfer: it looks for an active transfer first, and refuses the *)
(* pending requests (RefuseTake and RefuseCommit in InvitationApproval)    *)
(* between "listing" and "withdraw".  Between the insertion of a row and   *)
(* that of its entry the transfer is not active yet: deleting it then is a *)
(* command of its own, delete_early.                                       *)
(***************************************************************************)
DelMoves(from, to) == del = from /\ del' = to

DeleteCheck ==
    /\ "delete" \in Commands
    /\ pub = "inserted" => "delete_early" \in Commands
    /\ ~entry
    /\ status # "absent"
    /\ DelMoves("none", "checked")
    /\ UNCHANGED <<status, stored, accessVars, lock, pubVars, prep, stopping, seen, setting,
                   approving>>

DeleteRead ==
    /\ DelMoves("checked", IF status = "gone" THEN "none" ELSE "read")
    /\ seen' = IF status = "gone" THEN "absent" ELSE status
    /\ UNCHANGED <<status, stored, accessVars, lock, pubVars, prep, stopping, setting, approving>>

DeleteStop ==
    LET ok == seen = "sharing" => status \in {"sharing", "stopped"} IN
    /\ DelMoves("read", IF ok THEN "listing" ELSE "none")
    /\ status' = IF ok /\ seen = "sharing" THEN "stopped" ELSE status
    /\ seen' = "absent"
    /\ UNCHANGED <<stored, accessVars, lock, pubVars, prep, stopping, setting, approving>>

DeleteList ==
    /\ DelMoves("listing", "refusing")
    /\ UNCHANGED <<status, stored, accessVars, lock, pubVars, prep, stopping, seen, setting,
                   approving>>

DeleteRefused ==
    /\ DelMoves("refusing", "withdraw")
    /\ UNCHANGED <<status, stored, accessVars, lock, pubVars, prep, stopping, seen, setting,
                   approving>>

DeleteShare ==
    /\ DelMoves("withdraw", "unregister")
    /\ lock = "free"
    /\ share' = FALSE
    /\ UNCHANGED <<status, stored, tag, hashes, mode, session, lock, pubVars, prep, stopping,
                   seen, setting, approving>>

DeleteWithdraw ==
    /\ DelMoves("unregister", "release")
    /\ Withdraw
    /\ UNCHANGED <<status, stored, tag, share, lock, pubVars, prep, stopping, seen, setting,
                   approving>>

DeleteRelease ==
    /\ DelMoves("release", "delete")
    /\ tag' = FALSE
    /\ UNCHANGED <<status, stored, hashes, mode, session, share, lock, pubVars, prep, stopping,
                   seen, setting, approving>>

DeleteRow ==
    /\ DelMoves("delete", "none")
    /\ status' = "gone"
    /\ UNCHANGED <<stored, accessVars, lock, pubVars, prep, stopping, seen, setting, approving>>

(***************************************************************************)
(* Access: set_transfer_access_mode, approve_endpoint_for_transfer and the *)
(* expiry of a session.                                                    *)
(***************************************************************************)
SetModeStored(c) ==
    /\ "mode" \in Commands
    /\ setting[c] = "none"
    /\ status = "sharing"
    /\ \E m \in Modes : stored' = m /\ setting' = [setting EXCEPT ![c] = m]
    /\ UNCHANGED <<status, accessVars, lock, pubVars, prep, stopping, del, seen, approving>>

SetModeActive(c) ==
    /\ setting[c] # "none"
    /\ mode' = setting[c] /\ setting' = [setting EXCEPT ![c] = "none"]
    /\ UNCHANGED <<status, stored, tag, hashes, session, share, lock, pubVars, prep, stopping,
                   del, seen, approving>>

ApproveCheck ==
    /\ "approve" \in Commands
    /\ lock = "free" /\ share
    /\ ~approving /\ approving' = TRUE
    /\ UNCHANGED <<status, stored, accessVars, lock, pubVars, prep, stopping, del, seen, setting>>

\* approve_endpoint_until, for the receiving endpoint.
GrantSession ==
    /\ session' = TRUE
    /\ UNCHANGED <<status, stored, tag, hashes, mode, share, lock, pubVars, prep, stopping,
                   del, seen, setting>>

ApproveGrant ==
    /\ approving /\ approving' = FALSE
    /\ GrantSession

SessionExpires ==
    /\ session /\ session' = FALSE
    /\ UNCHANGED <<status, stored, tag, hashes, mode, share, lock, pubVars, jobVars>>

(***************************************************************************)
(* The process dies and starts again.  Recovery runs before the router     *)
(* serves anything, so both are one step.  A share whose blobs are gone    *)
(* fails, one whose relay profile changed is stopped, any other is         *)
(* restored; tags of shares that are not are swept.                        *)
(***************************************************************************)
RestoredStatuses ==
    CASE status = "importing" -> {"failed"}
      [] status = "sharing"   -> {"sharing", "failed", "stopped"}
      [] OTHER                -> {status}

RestartShare ==
    /\ status' \in RestoredStatuses
    /\ LET restored == status' = "sharing" IN
          /\ tag' = restored /\ hashes' = restored /\ share' = restored
          /\ mode' = IF restored THEN stored ELSE "none"
    /\ session' = FALSE
    /\ lock' = "free" /\ entry' = FALSE /\ inflight' = FALSE
    /\ pub' = IF pub = "idle" THEN "idle" ELSE "done"
    /\ prep' = [w \in Preparers |-> "idle"] /\ stopping' = "none"
    /\ del' = "none" /\ seen' = "absent"
    /\ setting' = [c \in ModeCallers |-> "none"] /\ approving' = FALSE
    /\ UNCHANGED <<stored, asked>>

(***************************************************************************)
(* Next state.  In the share's own specification the approval service may  *)
(* grant a session to a receiver that holds a ticket at any time.          *)
(***************************************************************************)
RequestGranted ==
    /\ status \in {"sharing", "stopped", "gone"}
    /\ GrantSession
    /\ UNCHANGED approving

PublishStep ==
    \/ ShareEnter \/ ImportFails \/ ImportDone \/ SetTag \/ LockShares \/ Commit
    \/ RegisterHashes \/ SetMode \/ Publish \/ ShareLeave \/ ShareFailed \/ ShareDropped

PrepStep(w) == PrepDeny(w) \/ PrepWithdraw(w) \/ PrepRelease(w)
StopStep    == StopDeny \/ StopWithdraw \/ StopRelease

\* The steps of delete_transfer that touch the share alone.
DeleteStep  == DeleteRead \/ DeleteStop \/ DeleteShare \/ DeleteWithdraw \/ DeleteRelease

CallStep ==
    \/ ShareInsert \/ CancelTransfer \/ DeleteCheck
    \/ \E c \in ModeCallers : SetModeStored(c) \/ SetModeActive(c)
    \/ ApproveCheck \/ ApproveGrant \/ SessionExpires \/ CommitLands

ShareStep == PublishStep \/ (\E w \in Preparers : PrepStep(w)) \/ StopStep \/ DeleteStep \/ CallStep

ShareNext ==
    \/ ShareStep
    \/ DeleteList \/ DeleteRefused \/ DeleteRow
    \/ RequestGranted
    \/ RestartShare

ShareSpec == ShareInit /\ [][ShareNext]_shareVars

\* Tokio polls every task that can run, and its mutexes are granted in turn.
ShareFairness ==
    /\ WF_shareVars(PublishStep)
    /\ \A w \in Preparers : SF_shareVars(PrepDeny(w)) /\ WF_shareVars(PrepStep(w))
    /\ SF_shareVars(StopDeny) /\ WF_shareVars(StopStep)
    /\ SF_shareVars(DeleteShare)
    /\ WF_shareVars(DeleteStep \/ DeleteList \/ DeleteRefused \/ DeleteRow)

FairShareSpec == ShareSpec /\ ShareFairness

(***************************************************************************)
(* Properties.                                                             *)
(***************************************************************************)
\* Every variable has its type.
ShareTypeOK ==
    /\ status \in Statuses /\ stored \in Modes /\ asked \in Modes
    /\ tag \in BOOLEAN /\ hashes \in BOOLEAN /\ session \in BOOLEAN /\ share \in BOOLEAN
    /\ mode \in Modes \cup {"none"}
    /\ lock \in Preparers \cup {"free", "publish"}
    /\ entry \in BOOLEAN /\ pub \in PubSteps /\ inflight \in BOOLEAN
    /\ prep \in [Preparers -> {"idle", "wanted", "denied", "withdrawn"}]
    /\ stopping \in {"none", "wanted", "unregister", "release"}
    /\ del \in DelSteps /\ seen \in Statuses
    /\ setting \in [ModeCallers -> Modes \cup {"none"}]
    /\ approving \in BOOLEAN

\* A call that is on its way to withdrawing the share's access.
Withdrawing ==
    \/ \E w \in Preparers : prep[w] \in {"wanted", "denied"}
    \/ stopping = "unregister"
    \/ del \in {"listing", "refusing", "withdraw", "unregister"}

\* The provider serves content only for a share that is Sharing in the
\* database, or one a call in progress is about to withdraw ("Default-deny:
\* hash must belong to an active share the peer may read").
ServedOnlyWhileShared == hashes => status = "sharing" \/ Withdrawing

\* A share keeps its payload: the blob tag is there as long as the row says
\* Sharing, also when a cancellation meets the publication after its commit, so
\* that a restart finds what it restores; only a deletion that is about to
\* remove the row releases the tag before it.
SharingKeepsPayload == status = "sharing" => tag \/ del = "delete"

\* A share that has ended or was deleted lets go of its payload, of its hash
\* registrations and of its place among the active shares.
EndedShareIsReleased ==
    (status \in {"stopped", "cancelled", "failed", "gone"}) ~> (~tag /\ ~hashes /\ ~share)
==============================================================================
