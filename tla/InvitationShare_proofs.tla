----------------------- MODULE InvitationShare_proofs ------------------------
(***************************************************************************)
(* Proofs about InvitationShare: for any number of concurrent calls of     *)
(* set_transfer_access_mode and whatever the users do, a share is served   *)
(* only while its row says so or a withdrawal is on its way, and a row     *)
(* that says Sharing keeps its payload.  The one command left out of the   *)
(* last two is delete_early, which breaks them.                            *)
(***************************************************************************)
EXTENDS InvitationShare, TLAPS

-------------------------------------------------------------------------------
(* The inductive invariant.                                                *)

\* Steps at which share_files holds the lock of active_shares.
LockedSteps == {"locked", "committed", "hashed", "moded"}

\* Statuses of a row that no publication can bring back to Sharing.
EndedStatuses == {"stopped", "cancelled", "failed", "gone"}

\* Each holder of the lock of active_shares is at one of the steps it holds it.
LockInv ==
    /\ lock = "publish" <=> pub \in LockedSteps
    /\ \A w \in Preparers : lock = w <=> prep[w] \in {"denied", "withdrawn"}

\* A deletion past its check has seen no active transfer, and no transfer
\* becomes active again: its publication has been dropped, has failed, or is
\* finished, or its entry was taken by a cancellation.
DeletionInv ==
    /\ del # "none" \/ status = "gone" => ~entry /\ pub \notin {"idle", "inserted"}
    /\ pub \in LockedSteps =>
        del \notin {"unregister", "release", "delete"} /\ status # "gone"
    /\ del \in {"release", "delete"} \/ status = "gone" => ~hashes

\* Only a published share is in active_shares, so that a stop that found it
\* there runs after the publication and after the row has ended.
PublicationInv ==
    /\ pub = "idle" <=> status = "absent"
    /\ status = "absent" => ~hashes
    /\ share => pub \in {"published", "done"}
    /\ stopping \in {"unregister", "release"} =>
        pub \in {"published", "done"} /\ status \in EndedStatuses
    /\ \A w \in Preparers : prep[w] \in {"denied", "withdrawn"} => status \in EndedStatuses
    /\ status = "sharing" =>
        pub \in {"committed", "hashed", "moded", "published", "done", "dropped"}
    /\ inflight \/ prep["task"] # "idle" => pub = "dropped"

\* What the publication has registered, or is about to, is shared or will be
\* withdrawn.
ServedInv == hashes \/ pub = "committed" => status = "sharing" \/ Withdrawing

\* The tag is set before the commit that makes the row Sharing, also by the
\* commit of a publication that was dropped.
CommitAhead == status = "importing" /\ (pub \in {"tagged", "locked"} \/ inflight)

PayloadInv == status = "sharing" \/ CommitAhead => tag \/ del = "delete"

ShareInv ==
    /\ ShareTypeOK
    /\ LockInv
    /\ DeletionInv
    /\ PublicationInv
    /\ ServedInv
    /\ PayloadInv

-------------------------------------------------------------------------------
(* Every step keeps the types.                                             *)
LEMMA TypeKept ==
    ASSUME ShareTypeOK, [ShareNext]_shareVars
    PROVE  ShareTypeOK'
<1> DEFINE FlagsOK ==
            /\ tag \in BOOLEAN /\ hashes \in BOOLEAN /\ session \in BOOLEAN
            /\ share \in BOOLEAN /\ entry \in BOOLEAN /\ inflight \in BOOLEAN
            /\ approving \in BOOLEAN
           DataOK ==
            /\ status \in Statuses /\ stored \in Modes /\ asked \in Modes
            /\ mode \in Modes \cup {"none"}
            /\ lock \in Preparers \cup {"free", "publish"}
            /\ pub \in PubSteps
            /\ prep \in [Preparers -> {"idle", "wanted", "denied", "withdrawn"}]
            /\ stopping \in {"none", "wanted", "unregister", "release"}
            /\ del \in DelSteps /\ seen \in Statuses
            /\ setting \in [ModeCallers -> Modes \cup {"none"}]
<1> USE DEF ShareTypeOK, Modes, Preparers, Statuses, PubSteps, DelSteps
<1>1. CASE ShareInsert
  BY <1>1 DEF ShareInsert, Publishes, accessVars, jobVars
<1>2. CASE ShareEnter
  BY <1>2 DEF ShareEnter, Publishes, accessVars, jobVars
<1>3. CASE ImportFails
  BY <1>3 DEF ImportFails, Publishes, accessVars, jobVars
<1>4. CASE ImportDone
  BY <1>4 DEF ImportDone, Publishes, accessVars, jobVars
<1>5. CASE SetTag
  BY <1>5 DEF SetTag, Publishes, jobVars
<1>6. CASE LockShares
  BY <1>6 DEF LockShares, Publishes, accessVars, jobVars
<1>7. CASE Commit
  BY <1>7 DEF Commit, Publishes, jobVars
<1>8. CASE RegisterHashes
  BY <1>8 DEF RegisterHashes, Publishes, jobVars
<1>9. CASE SetMode
  BY <1>9 DEF SetMode, Publishes, jobVars
<1>10. CASE Publish
  BY <1>10 DEF Publish, Publishes, jobVars
<1>11. CASE ShareLeave
  <2>1. FlagsOK'
    BY <1>11 DEF ShareLeave, Publishes, accessVars, jobVars
  <2>2. DataOK'
    BY <1>11 DEF ShareLeave, Publishes, accessVars, jobVars
  <2> QED BY <2>1, <2>2
<1>12. CASE ShareFailed
  BY <1>12 DEF ShareFailed, Publishes, accessVars, jobVars
<1>13. CASE ShareDropped
  <2>1. FlagsOK'
    BY <1>13 DEF ShareDropped, accessVars
  <2>2. DataOK'
    BY <1>13 DEF ShareDropped, accessVars
  <2> QED BY <2>1, <2>2
<1>14. CASE CommitLands
  <2>1. FlagsOK'
    BY <1>14 DEF CommitLands, accessVars, jobVars
  <2>2. DataOK'
    BY <1>14 DEF CommitLands, accessVars, jobVars
  <2> QED BY <2>1, <2>2
<1>15. CASE CancelTransfer
  <2>1. FlagsOK'
    BY <1>15 DEF CancelTransfer, accessVars
  <2>2. DataOK'
    BY <1>15 DEF CancelTransfer, accessVars
  <2> QED BY <2>1, <2>2
<1>16. CASE StopDeny
  BY <1>16 DEF StopDeny, StopMoves, pubVars
<1>17. CASE StopWithdraw
  <2>1. FlagsOK'
    BY <1>17 DEF StopWithdraw, StopMoves, Withdraw, pubVars
  <2>2. DataOK'
    BY <1>17 DEF StopWithdraw, StopMoves, Withdraw, pubVars
  <2> QED BY <2>1, <2>2
<1>18. CASE StopRelease
  <2>1. FlagsOK'
    BY <1>18 DEF StopRelease, StopMoves, pubVars
  <2>2. DataOK'
    BY <1>18 DEF StopRelease, StopMoves, pubVars
  <2> QED BY <2>1, <2>2
<1>19. CASE DeleteCheck
  BY <1>19 DEF DeleteCheck, DelMoves, accessVars, pubVars
<1>20. CASE DeleteRead
  BY <1>20 DEF DeleteRead, DelMoves, accessVars, pubVars
<1>21. CASE DeleteStop
  BY <1>21 DEF DeleteStop, DelMoves, accessVars, pubVars
<1>22. CASE DeleteList
  BY <1>22 DEF DeleteList, DelMoves, accessVars, pubVars
<1>23. CASE DeleteRefused
  BY <1>23 DEF DeleteRefused, DelMoves, accessVars, pubVars
<1>24. CASE DeleteShare
  <2>1. FlagsOK'
    BY <1>24 DEF DeleteShare, DelMoves, pubVars
  <2>2. DataOK'
    BY <1>24 DEF DeleteShare, DelMoves, pubVars
  <2> QED BY <2>1, <2>2
<1>25. CASE DeleteWithdraw
  <2>1. FlagsOK'
    BY <1>25 DEF DeleteWithdraw, DelMoves, Withdraw, pubVars
  <2>2. DataOK'
    BY <1>25 DEF DeleteWithdraw, DelMoves, Withdraw, pubVars
  <2> QED BY <2>1, <2>2
<1>26. CASE DeleteRelease
  <2>1. FlagsOK'
    BY <1>26 DEF DeleteRelease, DelMoves, pubVars
  <2>2. DataOK'
    BY <1>26 DEF DeleteRelease, DelMoves, pubVars
  <2> QED BY <2>1, <2>2
<1>27. CASE DeleteRow
  BY <1>27 DEF DeleteRow, DelMoves, accessVars, pubVars
<1>28. CASE ApproveCheck
  BY <1>28 DEF ApproveCheck, accessVars, pubVars
<1>29. CASE ApproveGrant
  <2>1. FlagsOK'
    BY <1>29 DEF ApproveGrant, GrantSession, pubVars
  <2>2. DataOK'
    BY <1>29 DEF ApproveGrant, GrantSession, pubVars
  <2> QED BY <2>1, <2>2
<1>30. CASE SessionExpires
  <2>1. FlagsOK'
    BY <1>30 DEF SessionExpires, jobVars, pubVars
  <2>2. DataOK'
    BY <1>30 DEF SessionExpires, jobVars, pubVars
  <2> QED BY <2>1, <2>2
<1>31. CASE RequestGranted
  BY <1>31 DEF RequestGranted, GrantSession, pubVars
<1>32. CASE RestartShare
  BY <1>32 DEF RestartShare, RestoredStatuses
<1>33. ASSUME NEW w \in Preparers, PrepDeny(w) PROVE ShareTypeOK'
  BY <1>33 DEF PrepDeny, PrepMoves, accessVars, pubVars
<1>34. ASSUME NEW w \in Preparers, PrepWithdraw(w) PROVE ShareTypeOK'
  <2>1. FlagsOK'
    BY <1>34 DEF PrepWithdraw, PrepMoves, Withdraw, pubVars
  <2>2. DataOK'
    BY <1>34 DEF PrepWithdraw, PrepMoves, Withdraw, pubVars
  <2> QED BY <2>1, <2>2
<1>35. ASSUME NEW w \in Preparers, PrepRelease(w) PROVE ShareTypeOK'
  BY <1>35 DEF PrepRelease, PrepMoves, pubVars
<1>36. ASSUME NEW c \in ModeCallers, SetModeStored(c) PROVE ShareTypeOK'
  BY <1>36 DEF SetModeStored, accessVars, pubVars
<1>37. ASSUME NEW c \in ModeCallers, SetModeActive(c) PROVE ShareTypeOK'
  BY <1>37 DEF SetModeActive, pubVars
<1>38. CASE UNCHANGED shareVars
  BY <1>38 DEF shareVars, accessVars, pubVars, jobVars
<1> QED
  BY <1>1, <1>2, <1>3, <1>4, <1>5, <1>6, <1>7, <1>8, <1>9, <1>10, <1>11, <1>12, <1>13, <1>14, <1>15, <1>16, <1>17, <1>18, <1>19, <1>20, <1>21, <1>22, <1>23, <1>24, <1>25, <1>26, <1>27, <1>28, <1>29, <1>30, <1>31, <1>32, <1>33, <1>34, <1>35, <1>36, <1>37, <1>38
  DEF ShareNext, ShareStep, PublishStep, PrepStep, StopStep, DeleteStep, CallStep

-------------------------------------------------------------------------------
(* Every step keeps the rest of the invariant.                             *)

LEMMA InvKept ==
    ASSUME ShareInv, [ShareNext]_shareVars, "delete_early" \notin Commands
    PROVE  ShareInv'
<1>t. ShareTypeOK'
  BY TypeKept DEF ShareInv
<1> USE <1>t DEF ShareInv, LockInv, DeletionInv, PublicationInv, ServedInv, PayloadInv, CommitAhead, Withdrawing, LockedSteps, EndedStatuses, ShareTypeOK, Modes, Preparers, Statuses, PubSteps, DelSteps
<1>1. CASE ShareInsert
  BY <1>1 DEF ShareInsert, Publishes, accessVars, jobVars
<1>2. CASE ShareEnter
  BY <1>2 DEF ShareEnter, Publishes, accessVars, jobVars
<1>3. CASE ImportFails
  BY <1>3 DEF ImportFails, Publishes, accessVars, jobVars
<1>4. CASE ImportDone
  BY <1>4 DEF ImportDone, Publishes, accessVars, jobVars
<1>5. CASE SetTag
  BY <1>5 DEF SetTag, Publishes, jobVars
<1>6. CASE LockShares
  BY <1>6 DEF LockShares, Publishes, accessVars, jobVars
<1>7. CASE Commit
  BY <1>7 DEF Commit, Publishes, jobVars
<1>8. CASE RegisterHashes
  BY <1>8 DEF RegisterHashes, Publishes, jobVars
<1>9. CASE SetMode
  BY <1>9 DEF SetMode, Publishes, jobVars
<1>10. CASE Publish
  BY <1>10 DEF Publish, Publishes, jobVars
<1>11. CASE ShareLeave
  BY <1>11 DEF ShareLeave, Publishes, accessVars, jobVars
<1>12. CASE ShareFailed
  BY <1>12 DEF ShareFailed, Publishes, accessVars, jobVars
<1>13. CASE ShareDropped
  <2> USE DEF ShareDropped, accessVars
  <2>1. /\ ~entry /\ ~entry' /\ pub' = "dropped" /\ status' = status /\ del' = del
        /\ stopping' = stopping /\ (hashes' <=> hashes) /\ (tag' <=> tag) /\ (share' <=> share)
    BY <1>13
  <2>2. inflight' => pub = "locked"
    BY <1>13
  <2>3. /\ prep'["task"] = "wanted" /\ prep'["user"] = prep["user"]
        /\ lock' = IF pub \in LockedSteps THEN "free" ELSE lock
    BY <1>13
  <2>4. LockInv'
    BY <1>13, <2>1, <2>3
  <2>5. DeletionInv'
    BY <1>13, <2>1
  <2>6. PublicationInv'
    BY <1>13, <2>1, <2>2, <2>3
  <2>7. ServedInv'
    BY <2>3
  <2>8. PayloadInv'
    BY <1>13, <2>1, <2>2
  <2> QED BY <2>4, <2>5, <2>6, <2>7, <2>8
<1>14. CASE CommitLands
  BY <1>14 DEF CommitLands, accessVars, jobVars
<1>15. CASE CancelTransfer
  BY <1>15 DEF CancelTransfer, accessVars
<1>16. CASE StopDeny
  BY <1>16 DEF StopDeny, StopMoves, pubVars
<1>17. CASE StopWithdraw
  BY <1>17 DEF StopWithdraw, StopMoves, Withdraw, pubVars
<1>18. CASE StopRelease
  BY <1>18 DEF StopRelease, StopMoves, pubVars
<1>19. CASE DeleteCheck
  BY <1>19 DEF DeleteCheck, DelMoves, accessVars, pubVars
<1>20. CASE DeleteRead
  BY <1>20 DEF DeleteRead, DelMoves, accessVars, pubVars
<1>21. CASE DeleteStop
  BY <1>21 DEF DeleteStop, DelMoves, accessVars, pubVars
<1>22. CASE DeleteList
  BY <1>22 DEF DeleteList, DelMoves, accessVars, pubVars
<1>23. CASE DeleteRefused
  BY <1>23 DEF DeleteRefused, DelMoves, accessVars, pubVars
<1>24. CASE DeleteShare
  BY <1>24 DEF DeleteShare, DelMoves, pubVars
<1>25. CASE DeleteWithdraw
  BY <1>25 DEF DeleteWithdraw, DelMoves, Withdraw, pubVars
<1>26. CASE DeleteRelease
  BY <1>26 DEF DeleteRelease, DelMoves, pubVars
<1>27. CASE DeleteRow
  BY <1>27 DEF DeleteRow, DelMoves, accessVars, pubVars
<1>28. CASE ApproveCheck
  BY <1>28 DEF ApproveCheck, accessVars, pubVars
<1>29. CASE ApproveGrant
  BY <1>29 DEF ApproveGrant, GrantSession, pubVars
<1>30. CASE SessionExpires
  BY <1>30 DEF SessionExpires, jobVars, pubVars
<1>31. CASE RequestGranted
  BY <1>31 DEF RequestGranted, GrantSession, pubVars
<1>32. CASE RestartShare
  <2> USE DEF RestartShare, RestoredStatuses
  <2>1. /\ lock' = "free" /\ ~entry' /\ ~inflight' /\ stopping' = "none" /\ del' = "none"
        /\ pub' = IF pub = "idle" THEN "idle" ELSE "done"
        /\ \A w \in Preparers : prep'[w] = "idle"
    BY <1>32
  <2>2. /\ status' = "absent" <=> status = "absent"
        /\ status' = "gone" <=> status = "gone"
        /\ hashes' <=> status' = "sharing"
        /\ tag' <=> status' = "sharing"
        /\ share' <=> status' = "sharing"
        /\ status' # "importing"
    BY <1>32
  <2>3. LockInv' /\ DeletionInv'
    BY <2>1, <2>2
  <2>4. PublicationInv'
    BY <2>1, <2>2
  <2>5. ServedInv' /\ PayloadInv'
    BY <2>1, <2>2
  <2> QED BY <2>3, <2>4, <2>5
<1>33. ASSUME NEW w \in Preparers, PrepDeny(w) PROVE ShareInv'
  BY <1>33 DEF PrepDeny, PrepMoves, accessVars, pubVars
<1>34. ASSUME NEW w \in Preparers, PrepWithdraw(w) PROVE ShareInv'
  BY <1>34 DEF PrepWithdraw, PrepMoves, Withdraw, pubVars
<1>35. ASSUME NEW w \in Preparers, PrepRelease(w) PROVE ShareInv'
  BY <1>35 DEF PrepRelease, PrepMoves, pubVars
<1>36. ASSUME NEW c \in ModeCallers, SetModeStored(c) PROVE ShareInv'
  BY <1>36 DEF SetModeStored, accessVars, pubVars
<1>37. ASSUME NEW c \in ModeCallers, SetModeActive(c) PROVE ShareInv'
  BY <1>37 DEF SetModeActive, pubVars
<1>38. CASE UNCHANGED shareVars
  BY <1>38 DEF shareVars, accessVars, pubVars, jobVars
<1> QED
  BY <1>1, <1>2, <1>3, <1>4, <1>5, <1>6, <1>7, <1>8, <1>9, <1>10, <1>11, <1>12, <1>13, <1>14, <1>15, <1>16, <1>17, <1>18, <1>19, <1>20, <1>21, <1>22, <1>23, <1>24, <1>25, <1>26, <1>27, <1>28, <1>29, <1>30, <1>31, <1>32, <1>33, <1>34, <1>35, <1>36, <1>37, <1>38
  DEF ShareNext, ShareStep, PublishStep, PrepStep, StopStep, DeleteStep, CallStep

-------------------------------------------------------------------------------
(* The theorems.                                                           *)

LEMMA InitHolds == ShareInit => ShareInv
  BY DEF ShareInit, ShareInv, LockInv, DeletionInv, PublicationInv, ServedInv, PayloadInv,
         CommitAhead, Withdrawing, LockedSteps, EndedStatuses, ShareTypeOK, Modes, Preparers, Statuses, PubSteps, DelSteps

\* Every variable keeps its type, whatever the users do.
THEOREM ShareTypeCorrect == ShareSpec => []ShareTypeOK
<1>1. ShareInit => ShareTypeOK
  BY InitHolds DEF ShareInv
<1>2. ShareTypeOK /\ [ShareNext]_shareVars => ShareTypeOK'
  BY TypeKept
<1> QED BY <1>1, <1>2, PTL DEF ShareSpec

\* The invariant is inductive when no share is deleted between the insertion of
\* its row and that of its entry in active_transfers.
THEOREM ShareInductive ==
    ASSUME "delete_early" \notin Commands
    PROVE  ShareSpec => []ShareInv
<1>1. ShareInv /\ [ShareNext]_shareVars => ShareInv'
  BY InvKept
<1> QED BY InitHolds, <1>1, PTL DEF ShareSpec

\* ServedOnlyWhileShared: the provider never serves a share that has ended
\* with nobody on the way to withdraw its access.
THEOREM NeverServedAfterwards ==
    ASSUME "delete_early" \notin Commands
    PROVE  ShareSpec => []ServedOnlyWhileShared
<1>1. ShareInv => ServedOnlyWhileShared
  BY DEF ShareInv, ServedInv, ServedOnlyWhileShared
<1> QED BY ShareInductive, <1>1, PTL

\* SharingKeepsPayload: a row that says Sharing has its blobs, unless a deletion
\* is about to remove it.
THEOREM PayloadKept ==
    ASSUME "delete_early" \notin Commands
    PROVE  ShareSpec => []SharingKeepsPayload
<1>1. ShareInv => SharingKeepsPayload
  BY DEF ShareInv, PayloadInv, SharingKeepsPayload
<1> QED BY ShareInductive, <1>1, PTL
===============================================================================
