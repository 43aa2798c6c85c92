------------------------ MODULE TargetedAccess_proofs -------------------------
(***************************************************************************)
(* What the sending device serves, and what the receiving device still     *)
(* owes: the access policy never outlives the record that granted it,      *)
(* forgetting a peer denies everything that was under way, and a           *)
(* completed receive keeps what it needs to be acknowledged.               *)
(***************************************************************************)
EXTENDS TargetedRefinement_proofs

-------------------------------------------------------------------------------
(* Forgetting the receiver.                                                *)

\* The negotiation still ends by approving the transfer or withdrawing access.
Withdrawing == {"approving", "protected", "rollback", "teardown"}

ForgetJob(t) == job[Sender][t]["forget"]

\* Access was granted by a negotiation or by a row that was once approved, to
\* a running device; startup restores access only for a saved receiver.
GrantInv(t) ==
    /\ t \in granted => SenderState(t) \in PostApproval \/ neg[t] \in Withdrawing
    /\ t \in granted => up[Sender] \in {"restoring", "up"}
    /\ t \in restoring =>
          up[Sender] = "restoring" /\ saved[Sender] /\ SenderState(t) \in PostApproval
    /\ ForgetJob(t).step \in {"cleanup", "clear"} => ForgetJob(t).state # "absent"

\* The forget has denied the row of t, or had none to deny.
Swept(t) ==
    /\ ~saved[Sender]
    /\ up[Sender] \in {"restoring", "up"}
    /\ ForgetJob(t).step # "deny" \/ ForgetJob(t).state = "absent"

\* A denied row cannot be approved any more, and once the cleanup is through
\* only a negotiation about to withdraw it holds access.
SweptInv(t) ==
    Swept(t) =>
        /\ SenderState(t) \notin Resumable \cup {"awaiting_approval"}
        /\ ForgetJob(t).step # "cleanup" => (t \in granted => neg[t] \in Withdrawing)

ForgetInv == \A t \in Transfers : GrantInv(t) /\ SweptInv(t)

-------------------------------------------------------------------------------
(* Access of a transfer that may still run.                                *)

\* The record justifies access: it can run, or its payload is queued for release.
Justified(t) ==
    \/ SenderState(t) \in Resumable
    \/ SenderState(t) = "completed" /\ row[Sender][t].release

\* Access without a record that justifies it is about to be withdrawn by the
\* negotiation or by a cleanup that has not run yet.
LiveInv(t) ==
    /\ t \in granted =>
          \/ Justified(t)
          \/ neg[t] \in Withdrawing
          \/ \E w \in Workers : job[Sender][t][w].step = "cleanup"
    /\ t \in restoring => Justified(t)
    /\ \A w \in Workers :
          job[Sender][t][w].step = "clear" => t \notin granted \/ neg[t] \in Withdrawing
    /\ ForgetJob(t).step # "idle" => ~saved[Sender]
    /\ \A w \in {"local", "forget"} : job[Sender][t][w].step # "idle" => up[Sender] = "up"

\* No peer's cancellation is being answered while startup restores access.
RestoresUndisturbed ==
    \A t \in Transfers : up[Sender] = "restoring" => job[Sender][t]["wire"].step = "idle"

AccessInv == \A t \in Transfers : LiveInv(t)

-------------------------------------------------------------------------------
(* The acknowledgement a completed receive owes.                           *)

\* What CompletionStillOwed says of one transfer.
Owes(t) ==
    ReceiverState(t) = "completed" /\ SenderState(t) \in Resumable /\ saved[Receiver] =>
        row[Receiver][t].completion /\ row[Receiver][t].handle \in secrets[Receiver][t]

\* No stop in progress at the receiver cleans up a completed receive: a deletion
\* has deleted the row, a peer's cancellation has found it cancelled, a forget
\* has unsaved the sender.
StopsInv(t) ==
    LET local == job[Receiver][t]["local"]  wire == job[Receiver][t]["wire"] IN
    /\ local.step # "idle" => local.kind = "delete"
    /\ local.state = "deleted" => ReceiverState(t) = "deleted"
    /\ local.step \in {"cleanup", "clear"} => ReceiverState(t) = "deleted"
    /\ wire.state = "cancelled" => ReceiverState(t) \in {"cancelled", "deleted"}
    /\ wire.step \in {"cleanup", "clear"} => ReceiverState(t) \in {"cancelled", "deleted"}
    /\ job[Receiver][t]["forget"].step # "idle" => ~saved[Receiver]

\* An acknowledgement on its way is true.
OwedInv(t) ==
    /\ Recorded(t) \in net => SenderState(t) \in {"completed", "deleted"}
    /\ StopsInv(t)
    /\ Owes(t)

OwingInv == \A t \in Transfers : OwedInv(t)

\* Without a cancel or a delete at the receiver no cancellation reaches the sender.
QuietInv ==
    /\ \A m \in net : m.kind = "cancel" => m.to = Receiver
    /\ \A t \in Transfers :
          /\ job[Sender][t]["wire"].step = "idle"
          /\ job[Receiver][t]["local"].step = "idle"
          /\ job[Receiver][t]["wire"].kind \in {"none", "peer"}
          /\ job[Receiver][t]["forget"].kind \in {"none", "forget"}

-------------------------------------------------------------------------------
(* What a step leaves alone.                                               *)

\* Nothing the sender keeps about u changes.
Still(u) ==
    /\ up'[Sender] = up[Sender] /\ saved'[Sender] = saved[Sender]
    /\ row'[Sender][u] = row[Sender][u] /\ neg'[u] = neg[u]
    /\ job'[Sender][u] = job[Sender][u]
    /\ (u \in granted') = (u \in granted) /\ (u \in restoring') = (u \in restoring)

\* The part of the invariant about one transfer.
Held(u) == GrantInv(u) /\ SweptInv(u)

\* A transfer whose sender keeps everything keeps the invariant.
LEMMA StillHeld ==
    ASSUME NEW u \in Transfers, Still(u)
    PROVE  /\ Held(u) => Held(u)'
           /\ LiveInv(u) => LiveInv(u)'
<1>1. /\ SenderState(u)' = SenderState(u) /\ ForgetJob(u)' = ForgetJob(u)
      /\ Swept(u)' = Swept(u) /\ Justified(u)' = Justified(u)
  BY DEF Still, SenderState, ForgetJob, Swept, Justified
<1>2. GrantInv(u) => GrantInv(u)'
  BY <1>1 DEF Still, GrantInv
<1>3. SweptInv(u) => SweptInv(u)'
  BY <1>1 DEF Still, SweptInv
<1>4. LiveInv(u) => LiveInv(u)'
  BY <1>1 DEF Still, LiveInv
<1> QED BY <1>2, <1>3, <1>4 DEF Held

\* The invariant after a step, of access as far as restoring is undisturbed.
AccessKept ==
    /\ ForgetInv'
    /\ AccessInv /\ RestoresUndisturbed => AccessInv'

\* A step of one transfer: the others are left alone.
LEMMA OneTransfer ==
    ASSUME ForgetInv, NEW t \in Transfers, \A u \in Transfers \ {t} : Still(u),
           GrantInv(t)', SweptInv(t)', AccessInv /\ RestoresUndisturbed => LiveInv(t)'
    PROVE  AccessKept
  BY StillHeld DEF AccessKept, ForgetInv, AccessInv, Held

\* A step that leaves everything about the sender alone.
LEMMA NoTransfer ==
    ASSUME ForgetInv, \A u \in Transfers : Still(u)
    PROVE  AccessKept
  BY StillHeld DEF AccessKept, ForgetInv, AccessInv, Held

\* A step of a stop changes one job of one device.
LEMMA JobAt ==
    ASSUME TypeOK, NEW d \in Devices, NEW t \in Transfers, NEW w \in Workers, NEW j,
           SetJob(d, t, w, j)
    PROVE  /\ job'[d][t][w] = j
           /\ \A v \in Workers \ {w} : job'[d][t][v] = job[d][t][v]
           /\ \A e \in Devices, u \in Transfers : e # d \/ u # t => job'[e][u] = job[e][u]
  BY DEF SetJob, TypeOK

-------------------------------------------------------------------------------
(* The steps of the sending end.                                           *)

\* A negotiation step keeps the invariant if it holds access only on the way to
\* approval or withdrawal, and moves the row as a negotiation may.
LEMMA NegotiationAccess ==
    ASSUME TypeOK, TypeOK', InductiveInv, ForgetInv, NEW t \in Transfers, NEW from, NEW to, NEW r,
           Negotiate(t, from, to), from # "done", SetRow(Sender, t, r),
           \A u \in Transfers \ {t} : u \in granted' <=> u \in granted,
           \/ t \notin granted'
           \/ to \in Withdrawing
           \/ r.state \in Resumable
           \/ t \in granted /\ from \notin Withdrawing,
           SenderState(t) \in PostApproval => r.state \in PostApproval,
           r.state \in Resumable \cup {"awaiting_approval"} =>
              SenderState(t) \in Resumable \cup {"awaiting_approval"} \/ saved[Sender],
           SenderState(t) = "completed" => r = row[Sender][t],
           SenderState(t) \notin Preapproval \cup Resumable => r.state \notin Resumable
    PROVE  AccessKept
<1>1. \A u \in Transfers \ {t} : Still(u)
  BY RowAt DEF Negotiate, Still, Devices, TypeOK
<1>2. /\ up' = up /\ saved' = saved /\ job' = job /\ restoring' = restoring /\ up[Sender] = "up"
      /\ neg[t] = from /\ neg'[t] = to /\ SenderState(t)' = r.state /\ row'[Sender][t] = r
      /\ ForgetJob(t)' = ForgetJob(t)
  BY RowAt DEF Negotiate, Devices, Running, TypeOK, SenderState, ForgetJob
<1>3. /\ GrantInv(t) /\ SweptInv(t) /\ t \notin restoring /\ SenderState(t) \notin Resumable
      /\ Swept(t)' => Swept(t) /\ ~saved[Sender]
  BY <1>2 DEF ForgetInv, GrantInv, InductiveInv, NegotiationInv, Swept
<1>4. GrantInv(t)'
  BY <1>2, <1>3 DEF GrantInv, PostApproval
<1>5. SweptInv(t)'
  BY <1>2, <1>3 DEF SweptInv
<1>6. ASSUME LiveInv(t) PROVE LiveInv(t)'
  <2>1. \A w \in Workers : job[Sender][t][w].step = "clear" =>
              SenderState(t) \notin Preapproval \cup Resumable
    BY DEF InductiveInv, JobInv, Dead, SenderState, Devices
  <2>2. Justified(t) => Justified(t)'
    <3>1. Justified(t) => row'[Sender][t] = row[Sender][t]
      BY <1>2, <1>3 DEF Justified
    <3> QED BY <3>1 DEF Justified, SenderState
  <2> QED BY <1>2, <1>3, <1>6, <2>1, <2>2 DEF LiveInv, Justified
<1> QED BY <1>1, <1>4, <1>5, <1>6, OneTransfer DEF AccessInv

\* Leaving the rows alone is a transaction that changes nothing.
LEMMA SameRow ==
    ASSUME TypeOK, NEW d \in Devices, NEW t \in Transfers, row' = row
    PROVE  SetRow(d, t, row[d][t])
  BY DEF SetRow, TypeOK

\* The compare-and-set of a state, and the failure from any state.
LEMMA StateMoves ==
    ASSUME NEW r \in Records, NEW from, NEW to
    PROVE  /\ SetState(r, from, to) = r \/ (r.state = from /\ SetState(r, from, to).state = to)
           /\ \/ SetStateFromAny(r, "failed") = r
              \/ r.state \in Preapproval \cup Resumable /\ SetStateFromAny(r, "failed").state = "failed"
  BY DEF SetState, SetStateFromAny, CanSetState, ValidateTransition, Validated, Records,
         Preapproval, Resumable

\* Every negotiation step keeps the invariant of access.
LEMMA NegotiationsKeepAccess ==
    ASSUME TypeOK, TypeOK', InductiveInv, ForgetInv, NEW t \in Transfers,
           \/ Prepare(t) \/ StopBeforeRegistration(t) \/ RegisterInsert(t) \/ RegisterOffering(t)
           \/ ContactFails(t) \/ SubmitOffer(t) \/ OfferFails(t)
           \/ \E arg \in {"declined", "refused"} : OfferRejected(t, arg)
           \/ OfferAccepted(t) \/ ProtectAuthorization(t) \/ ProtectFails(t)
           \/ Finalize(t) \/ Rollback(t) \/ Teardown(t)
    PROVE  AccessKept
<1>0. Sender \in Devices /\ Receiver \in Devices /\ row[Sender][t] \in Records
  BY DEF Devices, TypeOK
<1>1. CASE Prepare(t)
  <2> DEFINE r == row[Sender][t]
  <2>1. Negotiate(t, "idle", "imported") /\ SetRow(Sender, t, r)
    BY <1>0, <1>1, SameRow DEF Prepare
  <2>2. /\ \A u \in Transfers \ {t} : u \in granted' <=> u \in granted
        /\ t \in granted' => t \in granted
    BY <1>1 DEF Prepare, TeardownPayload, Withdrawing, Negotiate
  <2>3. /\ SenderState(t) \in PostApproval => r.state \in PostApproval
        /\ r.state \in Resumable \cup {"awaiting_approval"} =>
              SenderState(t) \in Resumable \cup {"awaiting_approval"} \/ saved[Sender]
        /\ SenderState(t) = "completed" => r = row[Sender][t]
        /\ SenderState(t) \notin Preapproval \cup Resumable => r.state \notin Resumable
    BY <1>0, <1>1, StateMoves DEF SenderState, PostApproval, Resumable, Preapproval
  <2> QED
    BY <1>0, <2>1, <2>2, <2>3, NegotiationAccess DEF Withdrawing, SenderState
<1>2. CASE StopBeforeRegistration(t)
  <2> DEFINE r == row[Sender][t]
  <2>1. Negotiate(t, "imported", "done") /\ SetRow(Sender, t, r)
    BY <1>0, <1>2, SameRow DEF StopBeforeRegistration
  <2>2. /\ \A u \in Transfers \ {t} : u \in granted' <=> u \in granted
        /\ t \notin granted'
    BY <1>2 DEF StopBeforeRegistration, TeardownPayload, Withdrawing, Negotiate
  <2>3. /\ SenderState(t) \in PostApproval => r.state \in PostApproval
        /\ r.state \in Resumable \cup {"awaiting_approval"} =>
              SenderState(t) \in Resumable \cup {"awaiting_approval"} \/ saved[Sender]
        /\ SenderState(t) = "completed" => r = row[Sender][t]
        /\ SenderState(t) \notin Preapproval \cup Resumable => r.state \notin Resumable
    BY <1>0, <1>2, StateMoves DEF SenderState, PostApproval, Resumable, Preapproval
  <2> QED
    BY <1>0, <2>1, <2>2, <2>3, NegotiationAccess DEF Withdrawing, SenderState
<1>3. CASE RegisterInsert(t)
  <2> DEFINE r == Insert(row[Sender][t])
  <2>1. Negotiate(t, "imported", "registering") /\ SetRow(Sender, t, r)
    BY <1>0, <1>3, SameRow DEF RegisterInsert
  <2>2. /\ \A u \in Transfers \ {t} : u \in granted' <=> u \in granted
        /\ t \in granted' => t \in granted
    BY <1>3 DEF RegisterInsert, TeardownPayload, Withdrawing, Negotiate
  <2>4. SenderState(t) = "absent"
    BY <2>1 DEF Negotiate, InductiveInv, NegotiationInv
  <2>3. r.state = "preparing" /\ "preparing" \notin Resumable \cup {"awaiting_approval"}
        /\ SenderState(t) \notin PostApproval \cup {"completed"}
    BY <1>0, <2>4 DEF Insert, Records, PostApproval, Resumable
  <2> QED
    BY <1>0, <2>1, <2>2, <2>3, NegotiationAccess DEF Withdrawing, SenderState
<1>4. CASE RegisterOffering(t)
  <2> DEFINE r == SetState(row[Sender][t], "preparing", "offering")
  <2>1. Negotiate(t, "registering", (IF CanSetState(row[Sender][t], "preparing", "offering") THEN "registered" ELSE "teardown")) /\ SetRow(Sender, t, r)
    BY <1>0, <1>4, SameRow DEF RegisterOffering
  <2>2. /\ \A u \in Transfers \ {t} : u \in granted' <=> u \in granted
        /\ t \in granted' => t \in granted
    BY <1>4 DEF RegisterOffering, TeardownPayload, Withdrawing, Negotiate
  <2>3. /\ SenderState(t) \in PostApproval => r.state \in PostApproval
        /\ r.state \in Resumable \cup {"awaiting_approval"} =>
              SenderState(t) \in Resumable \cup {"awaiting_approval"} \/ saved[Sender]
        /\ SenderState(t) = "completed" => r = row[Sender][t]
        /\ SenderState(t) \notin Preapproval \cup Resumable => r.state \notin Resumable
    BY <1>0, <1>4, StateMoves DEF SenderState, PostApproval, Resumable, Preapproval
  <2> QED
    BY <1>0, <2>1, <2>2, <2>3, NegotiationAccess DEF Withdrawing, SenderState
<1>5. CASE ContactFails(t)
  <2> DEFINE r == SetState(row[Sender][t], "offering", "failed")
  <2>1. Negotiate(t, "registered", "teardown") /\ SetRow(Sender, t, r)
    BY <1>0, <1>5, SameRow DEF ContactFails
  <2>2. /\ \A u \in Transfers \ {t} : u \in granted' <=> u \in granted
        /\ t \in granted' => t \in granted
    BY <1>5 DEF ContactFails, TeardownPayload, Withdrawing, Negotiate
  <2>3. /\ SenderState(t) \in PostApproval => r.state \in PostApproval
        /\ r.state \in Resumable \cup {"awaiting_approval"} =>
              SenderState(t) \in Resumable \cup {"awaiting_approval"} \/ saved[Sender]
        /\ SenderState(t) = "completed" => r = row[Sender][t]
        /\ SenderState(t) \notin Preapproval \cup Resumable => r.state \notin Resumable
    BY <1>0, <1>5, StateMoves DEF SenderState, PostApproval, Resumable, Preapproval
  <2> QED
    BY <1>0, <2>1, <2>2, <2>3, NegotiationAccess DEF Withdrawing, SenderState
<1>6. CASE SubmitOffer(t)
  <2> DEFINE r == SetState(row[Sender][t], "offering", "awaiting_approval")
  <2>1. Negotiate(t, "registered", (IF CanSetState(row[Sender][t], "offering", "awaiting_approval") THEN "waiting" ELSE "teardown")) /\ SetRow(Sender, t, r)
    BY <1>0, <1>6, SameRow DEF SubmitOffer
  <2>2. /\ \A u \in Transfers \ {t} : u \in granted' <=> u \in granted
        /\ t \in granted' => t \in granted
    BY <1>6 DEF SubmitOffer, TeardownPayload, Withdrawing, Negotiate
  <2>4. saved[Sender]
    BY <1>6 DEF SubmitOffer
  <2>3. /\ SenderState(t) \in PostApproval => r.state \in PostApproval
        /\ r.state \in Resumable \cup {"awaiting_approval"} =>
              SenderState(t) \in Resumable \cup {"awaiting_approval"} \/ saved[Sender]
        /\ SenderState(t) = "completed" => r = row[Sender][t]
        /\ SenderState(t) \notin Preapproval \cup Resumable => r.state \notin Resumable
    BY <1>0, <2>4, StateMoves DEF SenderState, PostApproval, Resumable, Preapproval
  <2> QED
    BY <1>0, <2>1, <2>2, <2>3, NegotiationAccess DEF Withdrawing, SenderState
<1>7. CASE OfferFails(t)
  <2> DEFINE r == SetState(row[Sender][t], "awaiting_approval", "failed")
  <2>1. Negotiate(t, "waiting", "teardown") /\ SetRow(Sender, t, r)
    BY <1>0, <1>7, SameRow DEF OfferFails
  <2>2. /\ \A u \in Transfers \ {t} : u \in granted' <=> u \in granted
        /\ t \in granted' => t \in granted
    BY <1>7 DEF OfferFails, TeardownPayload, Withdrawing, Negotiate
  <2>3. /\ SenderState(t) \in PostApproval => r.state \in PostApproval
        /\ r.state \in Resumable \cup {"awaiting_approval"} =>
              SenderState(t) \in Resumable \cup {"awaiting_approval"} \/ saved[Sender]
        /\ SenderState(t) = "completed" => r = row[Sender][t]
        /\ SenderState(t) \notin Preapproval \cup Resumable => r.state \notin Resumable
    BY <1>0, <1>7, StateMoves DEF SenderState, PostApproval, Resumable, Preapproval
  <2> QED
    BY <1>0, <2>1, <2>2, <2>3, NegotiationAccess DEF Withdrawing, SenderState
<1>8. CASE \E arg \in {"declined", "refused"} : OfferRejected(t, arg)
  <2>0. PICK arg \in {"declined", "refused"} : OfferRejected(t, arg)
    BY <1>8
  <2> DEFINE to == IF arg = "declined" THEN "declined" ELSE "failed"
  <2> DEFINE r == SetState(row[Sender][t], "awaiting_approval", to)
  <2>1. Negotiate(t, "waiting", "teardown") /\ SetRow(Sender, t, r) /\ granted' = granted
    BY <2>0 DEF OfferRejected
  <2>3. /\ SenderState(t) \in PostApproval => r.state \in PostApproval
        /\ r.state \in Resumable \cup {"awaiting_approval"} =>
              SenderState(t) \in Resumable \cup {"awaiting_approval"} \/ saved[Sender]
        /\ SenderState(t) = "completed" => r = row[Sender][t]
        /\ SenderState(t) \notin Preapproval \cup Resumable => r.state \notin Resumable
    BY <1>0, StateMoves DEF SenderState, PostApproval, Resumable, Preapproval
  <2> QED
    BY <1>0, <2>1, <2>3, NegotiationAccess DEF Withdrawing, SenderState
<1>9. CASE OfferAccepted(t)
  <2> DEFINE r == row[Sender][t]
  <2>1. Negotiate(t, "waiting", "approving") /\ SetRow(Sender, t, r)
    BY <1>0, <1>9, SameRow DEF OfferAccepted
  <2>2. /\ \A u \in Transfers \ {t} : u \in granted' <=> u \in granted
        /\ TRUE
    BY <1>9 DEF OfferAccepted, TeardownPayload, Withdrawing, Negotiate
  <2>3. /\ SenderState(t) \in PostApproval => r.state \in PostApproval
        /\ r.state \in Resumable \cup {"awaiting_approval"} =>
              SenderState(t) \in Resumable \cup {"awaiting_approval"} \/ saved[Sender]
        /\ SenderState(t) = "completed" => r = row[Sender][t]
        /\ SenderState(t) \notin Preapproval \cup Resumable => r.state \notin Resumable
    BY <1>0, <1>9, StateMoves DEF SenderState, PostApproval, Resumable, Preapproval
  <2> QED
    BY <1>0, <2>1, <2>2, <2>3, NegotiationAccess DEF Withdrawing, SenderState
<1>10. CASE ProtectAuthorization(t)
  <2> DEFINE r == row[Sender][t]
  <2>1. Negotiate(t, "approving", "protected") /\ SetRow(Sender, t, r)
    BY <1>0, <1>10, SameRow DEF ProtectAuthorization
  <2>2. /\ \A u \in Transfers \ {t} : u \in granted' <=> u \in granted
        /\ t \in granted' => t \in granted
    BY <1>10 DEF ProtectAuthorization, TeardownPayload, Withdrawing, Negotiate
  <2>3. /\ SenderState(t) \in PostApproval => r.state \in PostApproval
        /\ r.state \in Resumable \cup {"awaiting_approval"} =>
              SenderState(t) \in Resumable \cup {"awaiting_approval"} \/ saved[Sender]
        /\ SenderState(t) = "completed" => r = row[Sender][t]
        /\ SenderState(t) \notin Preapproval \cup Resumable => r.state \notin Resumable
    BY <1>0, <1>10, StateMoves DEF SenderState, PostApproval, Resumable, Preapproval
  <2> QED
    BY <1>0, <2>1, <2>2, <2>3, NegotiationAccess DEF Withdrawing, SenderState
<1>11. CASE ProtectFails(t)
  <2> DEFINE r == SetStateFromAny(row[Sender][t], "failed")
  <2>1. Negotiate(t, "approving", "teardown") /\ SetRow(Sender, t, r)
    BY <1>0, <1>11, SameRow DEF ProtectFails
  <2>2. /\ \A u \in Transfers \ {t} : u \in granted' <=> u \in granted
        /\ t \in granted' => t \in granted
    BY <1>11 DEF ProtectFails, TeardownPayload, Withdrawing, Negotiate
  <2>3. /\ SenderState(t) \in PostApproval => r.state \in PostApproval
        /\ r.state \in Resumable \cup {"awaiting_approval"} =>
              SenderState(t) \in Resumable \cup {"awaiting_approval"} \/ saved[Sender]
        /\ SenderState(t) = "completed" => r = row[Sender][t]
        /\ SenderState(t) \notin Preapproval \cup Resumable => r.state \notin Resumable
    BY <1>0, <1>11, StateMoves DEF SenderState, PostApproval, Resumable, Preapproval
  <2> QED
    BY <1>0, <2>1, <2>2, <2>3, NegotiationAccess DEF Withdrawing, SenderState
<1>12. CASE Finalize(t)
  <2>0. PICK h \in secrets[Sender][t] : SetRow(Sender, t, FinalizeSender(row[Sender][t], h))
    BY <1>12 DEF Finalize
  <2> DEFINE r == FinalizeSender(row[Sender][t], h)
  <2> DEFINE to == IF row[Sender][t].state = "awaiting_approval" THEN "done" ELSE "rollback"
  <2>1. Negotiate(t, "protected", to) /\ granted' = granted
    BY <1>12 DEF Finalize
  <2>2. \/ r = row[Sender][t] /\ to = "rollback"
        \/ SenderState(t) = "awaiting_approval" /\ r.state = "approved"
    BY <1>0 DEF FinalizeSender, SenderState, Records
  <2> QED
    BY <1>0, <2>0, <2>1, <2>2, NegotiationAccess
    DEF Withdrawing, SenderState, PostApproval, Resumable, Preapproval
<1>13. CASE Rollback(t)
  <2> DEFINE r == SetStateFromAny(row[Sender][t], "failed")
  <2>1. Negotiate(t, "rollback", "teardown") /\ SetRow(Sender, t, r)
    BY <1>0, <1>13, SameRow DEF Rollback
  <2>2. /\ \A u \in Transfers \ {t} : u \in granted' <=> u \in granted
        /\ t \in granted' => t \in granted
    BY <1>13 DEF Rollback, TeardownPayload, Withdrawing, Negotiate
  <2>3. /\ SenderState(t) \in PostApproval => r.state \in PostApproval
        /\ r.state \in Resumable \cup {"awaiting_approval"} =>
              SenderState(t) \in Resumable \cup {"awaiting_approval"} \/ saved[Sender]
        /\ SenderState(t) = "completed" => r = row[Sender][t]
        /\ SenderState(t) \notin Preapproval \cup Resumable => r.state \notin Resumable
    BY <1>0, <1>13, StateMoves DEF SenderState, PostApproval, Resumable, Preapproval
  <2> QED
    BY <1>0, <2>1, <2>2, <2>3, NegotiationAccess DEF Withdrawing, SenderState
<1>14. CASE Teardown(t)
  <2> DEFINE r == row[Sender][t]
  <2>1. Negotiate(t, "teardown", "done") /\ SetRow(Sender, t, r)
    BY <1>0, <1>14, SameRow DEF Teardown
  <2>2. /\ \A u \in Transfers \ {t} : u \in granted' <=> u \in granted
        /\ t \notin granted'
    BY <1>14 DEF Teardown, TeardownPayload, Withdrawing, Negotiate
  <2>3. /\ SenderState(t) \in PostApproval => r.state \in PostApproval
        /\ r.state \in Resumable \cup {"awaiting_approval"} =>
              SenderState(t) \in Resumable \cup {"awaiting_approval"} \/ saved[Sender]
        /\ SenderState(t) = "completed" => r = row[Sender][t]
        /\ SenderState(t) \notin Preapproval \cup Resumable => r.state \notin Resumable
    BY <1>0, <1>14, StateMoves DEF SenderState, PostApproval, Resumable, Preapproval
  <2> QED
    BY <1>0, <2>1, <2>2, <2>3, NegotiationAccess DEF Withdrawing, SenderState
<1> QED
  BY <1>1, <1>2, <1>3, <1>4, <1>5, <1>6, <1>7, <1>8, <1>9, <1>10, <1>11, <1>12, <1>13, <1>14

\* The row and the queued release of record r justify access.
JustifiedBy(r) == r.state \in Resumable \/ (r.state = "completed" /\ r.release)

\* A step on the sender's row of t that starts and ends no stop.
LEMMA RowAccess ==
    ASSUME TypeOK, ForgetInv, NEW t \in Transfers, NEW r, SetRow(Sender, t, r),
           up' = up, saved' = saved, neg' = neg, job' = job,
           \A u \in Transfers \ {t} : u \in granted' <=> u \in granted,
           \A u \in Transfers \ {t} : u \in restoring' <=> u \in restoring,
           t \in granted' => t \in granted, t \in restoring' => t \in restoring,
           SenderState(t) \in PostApproval => r.state \in PostApproval,
           r.state \in Resumable \cup {"awaiting_approval"} =>
              SenderState(t) \in Resumable \cup {"awaiting_approval"},
           \/ JustifiedBy(row[Sender][t]) => JustifiedBy(r)
           \/ t \notin granted' /\ t \notin restoring'
    PROVE  AccessKept
<1>1. \A u \in Transfers \ {t} : Still(u)
  BY RowAt DEF Still, Devices
<1>2. row'[Sender][t] = r /\ SenderState(t)' = r.state /\ ForgetJob(t)' = ForgetJob(t)
  BY RowAt DEF Devices, SenderState, ForgetJob
<1>3. (Justified(t) <=> JustifiedBy(row[Sender][t])) /\ (Justified(t)' <=> JustifiedBy(r))
  BY <1>2 DEF Justified, JustifiedBy, SenderState
<1>4. GrantInv(t) /\ SweptInv(t)
  BY DEF ForgetInv
<1>5. GrantInv(t)'
  BY <1>2, <1>4 DEF GrantInv
<1>6. Swept(t)' <=> Swept(t)
  BY <1>2 DEF Swept
<1>7. SweptInv(t)'
  BY <1>2, <1>4, <1>6 DEF SweptInv
<1>8. ASSUME LiveInv(t) PROVE LiveInv(t)'
  BY <1>2, <1>3, <1>8 DEF LiveInv
<1> QED BY <1>1, <1>5, <1>7, <1>8, OneTransfer DEF AccessInv

\* A step of worker w on the sender's row of t: it starts, goes on or ends.
LEMMA StopAccess ==
    ASSUME TypeOK, ForgetInv, NEW t \in Transfers, NEW w \in Workers, NEW r, NEW j,
           SetRow(Sender, t, r), SetJob(Sender, t, w, j),
           up' = up, saved' = saved, neg' = neg, restoring' = restoring,
           granted' = granted \/ granted' = granted \ {t},
           SenderState(t) \in PostApproval => r.state \in PostApproval,
           r.state \in Resumable \cup {"awaiting_approval"} =>
              SenderState(t) \in Resumable \cup {"awaiting_approval"},
           \* the job of a forget only cleans up here
           w = "forget" => /\ job[Sender][t][w].step \in {"cleanup", "clear"}
                           /\ j.step \in {"idle", "clear"}
                           /\ j.step = "clear" => j.state = job[Sender][t][w].state,
           \* a cleanup withdraws access
           job[Sender][t][w].step = "cleanup" \/ j.step = "clear" => t \notin granted',
           \* access loses its record only to a cleanup, or after one
           \/ JustifiedBy(row[Sender][t]) => JustifiedBy(r)
           \/ j.step = "cleanup" \/ job[Sender][t][w].step = "clear" \/ t \notin granted',
           r = row[Sender][t] \/ job[Sender][t][w].step # "idle" \/ up[Sender] = "up",
           w = "wire" \/ up[Sender] = "up" \/ job[Sender][t][w].step # "idle"
    PROVE  AccessKept
<1>1. \A u \in Transfers \ {t} : Still(u)
  BY RowAt, JobAt DEF Still, Devices
<1>2. /\ row'[Sender][t] = r /\ SenderState(t)' = r.state
      /\ job'[Sender][t][w] = j
      /\ \A v \in Workers \ {w} : job'[Sender][t][v] = job[Sender][t][v]
  BY RowAt, JobAt DEF Devices, SenderState
<1>3. (Justified(t) <=> JustifiedBy(row[Sender][t])) /\ (Justified(t)' <=> JustifiedBy(r))
  BY <1>2 DEF Justified, JustifiedBy, SenderState
<1>4. GrantInv(t) /\ SweptInv(t)
  BY DEF ForgetInv
<1>5. w # "forget" => ForgetJob(t)' = ForgetJob(t)
  BY <1>2 DEF ForgetJob, Workers
<1>6. w = "forget" => ForgetJob(t)' = j /\ ForgetJob(t) = job[Sender][t][w]
  BY <1>2 DEF ForgetJob
<1>7. GrantInv(t)'
  BY <1>2, <1>4, <1>5, <1>6 DEF GrantInv
<1>8. Swept(t)' => Swept(t)
  BY <1>5, <1>6 DEF Swept
<1>9. SweptInv(t)'
  BY <1>2, <1>4, <1>5, <1>6, <1>8 DEF SweptInv
<1>10. ASSUME LiveInv(t), RestoresUndisturbed PROVE LiveInv(t)'
  <2>1. t \in restoring => up[Sender] = "restoring"
    BY <1>4 DEF GrantInv
  <2>2. job[Sender][t][w].step # "idle" => up[Sender] # "restoring"
    BY <1>10 DEF LiveInv, RestoresUndisturbed, Workers
  <2>3. t \in restoring' => Justified(t)'
    <3>1. r = row[Sender][t] \/ t \notin restoring
      BY <2>1, <2>2
    <3> QED BY <1>3, <1>10, <3>1 DEF LiveInv
  <2>4. t \in granted' => \/ Justified(t)'
                          \/ neg'[t] \in Withdrawing
                          \/ \E v \in Workers : job'[Sender][t][v].step = "cleanup"
    BY <1>2, <1>3, <1>10 DEF LiveInv
  <2>5. \A v \in Workers : job'[Sender][t][v].step = "clear" =>
              t \notin granted' \/ neg'[t] \in Withdrawing
    BY <1>2, <1>10 DEF LiveInv
  <2>6. ForgetJob(t)'.step # "idle" => ~saved'[Sender]
    BY <1>5, <1>6, <1>10 DEF LiveInv
  <2>7. \A v \in {"local", "forget"} : job'[Sender][t][v].step # "idle" => up'[Sender] = "up"
    BY <1>2, <1>10 DEF LiveInv, Workers
  <2> QED BY <2>3, <2>4, <2>5, <2>6, <2>7 DEF LiveInv
<1> QED BY <1>1, <1>7, <1>9, <1>10, OneTransfer DEF AccessInv

\* What the store's transactions do to a state and a queued release.
LEMMA DenyingOps ==
    ASSUME NEW r \in Records, NEW to \in {"cancelled", "deleted"}
    PROVE  /\ AbandonSenderPreapproval(r) = r \/ r.state \in Preapproval
           /\ AbandonSenderPreapproval(r).state \in {r.state, "absent"}
           /\ ClearIntent(r).state = r.state /\ ClearIntent(r).release = r.release
           /\ ClearAuthorization(r).state = r.state
           /\ \A clear \in BOOLEAN : TransitionTerminal(r, to, clear).state =
                 IF DeniedBy(r, to) THEN to ELSE r.state
           /\ TransitionTerminal(r, to, FALSE).release = r.release
           /\ CancelByPeer(r).state = IF DeniedBy(r, "cancelled") THEN "cancelled" ELSE r.state
           /\ CancelByPeer(r).release = r.release
           /\ FailResumable(r).state = IF r.state \in Resumable THEN "failed" ELSE r.state
<1> USE DEF Records
<1>1. /\ AbandonSenderPreapproval(r) = r \/ r.state \in Preapproval
      /\ AbandonSenderPreapproval(r).state \in {r.state, "absent"}
  BY DEF AbandonSenderPreapproval, NoRecord
<1>2. /\ ClearIntent(r).state = r.state /\ ClearIntent(r).release = r.release
      /\ ClearAuthorization(r).state = r.state
  BY DEF ClearIntent, ClearAuthorization
<1>3. /\ \A clear \in BOOLEAN : TransitionTerminal(r, to, clear).state =
            IF DeniedBy(r, to) THEN to ELSE r.state
      /\ TransitionTerminal(r, to, FALSE).release = r.release
  BY DEF TransitionTerminal
<1>4. /\ CancelByPeer(r).state = IF DeniedBy(r, "cancelled") THEN "cancelled" ELSE r.state
      /\ CancelByPeer(r).release = r.release
      /\ FailResumable(r).state = IF r.state \in Resumable THEN "failed" ELSE r.state
  BY DEF CancelByPeer, FailResumable
<1> QED BY <1>1, <1>2, <1>3, <1>4

\* A denied state was one that could be denied, and is one that has ended.
LEMMA DeniedStates ==
    ASSUME NEW r \in Records, NEW to \in {"cancelled", "deleted"}
    PROVE  /\ r.state \in PostApproval /\ DeniedBy(r, to) => to \in PostApproval
           /\ to \notin Resumable \cup {"awaiting_approval"}
           /\ r.state \in Resumable => DeniedBy(r, to)
           /\ DeniedBy(r, "cancelled") => r.state # "completed"
  BY DEF DeniedBy, PostApproval, Resumable, Preapproval

\* Every other step of the sending end keeps the invariant of access.
LEMMA SendersKeepAccess ==
    ASSUME TypeOK, TypeOK', InductiveInv, ForgetInv, NEW t \in Transfers,
           \/ StopStart(t) \/ StopAbandon(t)
           \/ DeliverAuthorization(t) \/ DeliveryStored(t) \/ DeliveryDeferred(t)
           \/ ReleasePayload(t) \/ HandleCompletion(t)
    PROVE  AccessKept
<1> USE DEF senderVars, inboxVars, receiverVars
<1>0. /\ Sender \in Devices /\ Receiver \in Devices /\ row[Sender][t] \in Records
      /\ "local" \in Workers
  BY DEF Devices, TypeOK, Workers
<1>1. CASE StopStart(t)
  <2> DEFINE j == Snapshot("stop", "abandon", Sender, t)
  <2>1. /\ SetJob(Sender, t, "local", j) /\ SetRow(Sender, t, row[Sender][t])
        /\ up' = up /\ saved' = saved /\ neg' = neg /\ restoring' = restoring /\ granted' = granted
        /\ up[Sender] = "up" /\ job[Sender][t]["local"].step = "idle"
    BY <1>0, <1>1, SameRow DEF StopStart, CommandStart, Running
  <2>2. j.step = "abandon"
    BY DEF Snapshot
  <2> HIDE DEF j
  <2> QED BY <1>0, <2>1, <2>2, StopAccess DEF SenderState
<1>2. CASE StopAbandon(t)
  <2> DEFINE r == AbandonSenderPreapproval(row[Sender][t])
  <2>0. PICK j : /\ SetJob(Sender, t, "local", j)
                 /\ j.step # "clear"
    <3>1. Snapshot("stop", "deny", Sender, t).step = "deny" /\ NoJob.step = "idle"
      BY DEF Snapshot, NoJob
    <3>2. [job[Sender][t]["local"] EXCEPT !.kind = "abandon", !.step = "cleanup"].step = "cleanup"
      BY <1>0 DEF TypeOK, Jobs
    <3> QED BY <1>2, <3>1, <3>2 DEF StopAbandon
  <2>1. /\ SetRow(Sender, t, r) /\ job[Sender][t]["local"].step = "abandon"
        /\ up' = up /\ saved' = saved /\ neg' = neg /\ restoring' = restoring /\ granted' = granted
    BY <1>2 DEF StopAbandon
  <2>2. /\ SenderState(t) \in PostApproval => r.state \in PostApproval
        /\ r.state \in Resumable \cup {"awaiting_approval"} =>
              SenderState(t) \in Resumable \cup {"awaiting_approval"}
        /\ JustifiedBy(row[Sender][t]) => JustifiedBy(r)
    BY <1>0, DenyingOps DEF SenderState, PostApproval, Resumable, Preapproval, JustifiedBy
  <2> HIDE DEF r
  <2> QED BY <1>0, <2>0, <2>1, <2>2, StopAccess
<1>3. CASE DeliverAuthorization(t)
  <2>1. \A u \in Transfers : Still(u)
    BY <1>3 DEF DeliverAuthorization, Reconcile, Still
  <2> QED BY <2>1, NoTransfer
<1>4. CASE DeliveryStored(t)
  <2> DEFINE r == [row[Sender][t] EXCEPT !.delivery = FALSE]
  <2>1. /\ SetRow(Sender, t, r) /\ up' = up /\ saved' = saved /\ neg' = neg /\ job' = job
        /\ restoring' = restoring /\ granted' = granted
    BY <1>4 DEF DeliveryStored, Reconcile
  <2>2. r.state = SenderState(t) /\ r.release = row[Sender][t].release
    BY <1>0 DEF SenderState, Records
  <2>3. JustifiedBy(row[Sender][t]) => JustifiedBy(r)
    BY <2>2 DEF SenderState, JustifiedBy
  <2> HIDE DEF r
  <2> QED BY <2>1, <2>2, <2>3, RowAccess
<1>5. CASE DeliveryDeferred(t)
  <2>1. \A u \in Transfers : Still(u)
    BY <1>5 DEF DeliveryDeferred, Reconcile, Still
  <2> QED BY <2>1, NoTransfer
<1>6. CASE ReleasePayload(t)
  <2> DEFINE r == [row[Sender][t] EXCEPT !.release = FALSE]
  <2>1. /\ SetRow(Sender, t, r) /\ up' = up /\ saved' = saved /\ neg' = neg /\ job' = job
        /\ restoring' = restoring /\ granted' = granted \ {t} /\ up[Sender] = "up"
    BY <1>6 DEF ReleasePayload, Reconcile, TeardownPayload, Running
  <2>2. r.state = SenderState(t)
    BY <1>0 DEF SenderState, Records
  <2>3. t \notin restoring
    BY <2>1 DEF ForgetInv, GrantInv
  <2> HIDE DEF r
  <2> QED BY <2>1, <2>2, <2>3, RowAccess
<1>7. CASE HandleCompletion(t)
  <2> DEFINE r == IF RecordsCompletion(row[Sender][t]) THEN MarkSenderCompleted(row[Sender][t])
                  ELSE row[Sender][t]
  <2>1. /\ SetRow(Sender, t, r) /\ up' = up /\ saved' = saved /\ neg' = neg /\ job' = job
        /\ restoring' = restoring /\ granted' = granted
    BY <1>7 DEF HandleCompletion, Reconcile
  <2>2. \/ r.state = SenderState(t) /\ r.release = row[Sender][t].release
        \/ SenderState(t) \in Resumable /\ r.state = "completed" /\ r.release
    BY <1>0 DEF SenderState, Records, MarkSenderCompleted
  <2>3. JustifiedBy(row[Sender][t]) => JustifiedBy(r)
    BY <2>2 DEF SenderState, JustifiedBy, Resumable
  <2> HIDE DEF r
  <2> QED BY <2>1, <2>2, <2>3, RowAccess DEF PostApproval, Resumable
<1> QED
  BY <1>1, <1>2, <1>3, <1>4, <1>5, <1>6, <1>7

-------------------------------------------------------------------------------
(* The steps of the receiving end leave the sender alone.                  *)

LEMMA ReceiversKeepAccess ==
    ASSUME TypeOK, ForgetInv, NEW t \in Transfers, ReceiverStep(t)
    PROVE  AccessKept
<1> USE DEF senderVars
<1>0. Sender \in Devices /\ Receiver \in Devices /\ Sender # Receiver
  BY DEF Devices, Sender, Receiver
<1> SUFFICES /\ up' = up /\ saved' = saved /\ job' = job /\ UNCHANGED senderVars
             /\ row' = row \/ \E r : SetRow(Receiver, t, r)
  <2>1. ASSUME up' = up, saved' = saved, job' = job, UNCHANGED senderVars,
               row' = row \/ \E r : SetRow(Receiver, t, r)
        PROVE  \A u \in Transfers : Still(u)
    BY <1>0, <2>1, RowAt DEF Still
  <2> QED BY <2>1, NoTransfer
<1>1. CASE OfferRefused(t)
  BY <1>1 DEF OfferRefused, InboxStep
<1>2. CASE OfferPending(t)
  BY <1>2 DEF OfferPending, InboxStep
<1>3. CASE OfferDecidedYes(t)
  BY <1>3 DEF OfferDecidedYes, InboxStep
<1>4. CASE OfferDecidedNo(t)
  BY <1>4 DEF OfferDecidedNo, InboxStep
<1>5. CASE OfferTimesOut(t)
  BY <1>5 DEF OfferTimesOut, InboxStep
<1>6. CASE RespondAccept(t)
  BY <1>6 DEF RespondAccept, InboxStep
<1>7. CASE PersistConsent(t)
  BY <1>7 DEF PersistConsent, InboxStep
<1>8. CASE AcceptLive(t)
  BY <1>8 DEF AcceptLive, InboxStep
<1>9. CASE RespondDecline(t)
  BY <1>9 DEF RespondDecline, InboxStep
<1>10. CASE AuthorizationReceived(t)
  BY <1>10 DEF AuthorizationReceived, InboxStep
<1>11. CASE AuthorizationTimesOut(t)
  BY <1>11 DEF AuthorizationTimesOut, InboxStep
<1>12. CASE AuthorizationKnown(t)
  BY <1>12 DEF AuthorizationKnown, AuthorizationStep
<1>13. CASE AuthorizationProtect(t)
  BY <1>13 DEF AuthorizationProtect, AuthorizationStep
<1>14. CASE \E h \in Handles : AuthorizationCommit(t, h) \/ AuthorizationRollback(t, h)
  BY <1>14 DEF AuthorizationCommit, AuthorizationRollback, AuthorizationStep
<1>15. CASE ReceiveStart(t)
  BY <1>15 DEF ReceiveStart, RunStep, ClearCompletion
<1>16. CASE ReceiveConnecting(t)
  BY <1>16 DEF ReceiveConnecting, RunStep, ClearCompletion
<1>17. CASE ReceiveTransferring(t)
  BY <1>17 DEF ReceiveTransferring, RunStep, ClearCompletion
<1>18. CASE PayloadArrives(t)
  BY <1>18 DEF PayloadArrives, RunStep, ClearCompletion
<1>19. CASE PayloadFails(t)
  BY <1>19 DEF PayloadFails, RunStep, ClearCompletion
<1>20. CASE ReceiveComplete(t)
  BY <1>20 DEF ReceiveComplete, RunStep, ClearCompletion
<1>21. CASE ReceiveAcknowledged(t)
  BY <1>21 DEF ReceiveAcknowledged, RunStep, ClearCompletion
<1>22. CASE ReceiveUnacknowledged(t)
  BY <1>22 DEF ReceiveUnacknowledged, RunStep, ClearCompletion
<1>23. CASE ReceiveEnd(t)
  BY <1>23 DEF ReceiveEnd, RunStep, ClearCompletion
<1>24. CASE RetryCompletion(t)
  BY <1>24 DEF RetryCompletion, RetryStep, ClearCompletion
<1>25. CASE RetryAcknowledged(t)
  BY <1>25 DEF RetryAcknowledged, RetryStep, ClearCompletion
<1>26. CASE RetryDeferred(t)
  BY <1>26 DEF RetryDeferred, RetryStep, ClearCompletion
<1>27. CASE \E arg \in {"withdrawn", "cancelled", "deleted"} : CancelPendingOffer(t, arg)
  BY <1>27 DEF CancelPendingOffer, CancelArrives
<1> QED
  BY <1>1, <1>2, <1>3, <1>4, <1>5, <1>6, <1>7, <1>8, <1>9, <1>10, <1>11, <1>12, <1>13, <1>14, <1>15, <1>16, <1>17, <1>18, <1>19, <1>20, <1>21, <1>22, <1>23, <1>24, <1>25, <1>26, <1>27 DEF ReceiverStep

-------------------------------------------------------------------------------
(* The steps both devices take.                                            *)

\* A stop at the receiving device leaves the sender alone.
LEMMA ReceivingStopsKeepAccess ==
    ASSUME TypeOK, ForgetInv, NEW t \in Transfers, DeviceStep(Receiver, t)
    PROVE  AccessKept
<1> USE DEF senderVars, receiverVars, inboxVars
<1>0. Sender \in Devices /\ Receiver \in Devices /\ Sender # Receiver
  BY DEF Devices, Sender, Receiver
<1> SUFFICES /\ up' = up /\ saved' = saved /\ granted' = granted /\ neg' = neg
             /\ restoring' = restoring
             /\ row' = row \/ \E r : SetRow(Receiver, t, r)
             /\ job' = job \/ \E w \in Workers : \E j : SetJob(Receiver, t, w, j)
  <2>1. ASSUME up' = up, saved' = saved, granted' = granted, neg' = neg, restoring' = restoring,
               row' = row \/ \E r : SetRow(Receiver, t, r),
               job' = job \/ \E w \in Workers : \E j : SetJob(Receiver, t, w, j)
        PROVE  \A u \in Transfers : Still(u)
    <3>1. \A u \in Transfers : row'[Sender][u] = row[Sender][u]
      BY <1>0, <2>1, RowAt
    <3>2. \A u \in Transfers : job'[Sender][u] = job[Sender][u]
      BY <1>0, <2>1, JobAt
    <3> QED BY <2>1, <3>1, <3>2 DEF Still
  <2> QED BY <2>1, NoTransfer
<1>w. "local" \in Workers /\ "wire" \in Workers
  BY DEF Workers
<1>1. CASE \E c \in {"cancel", "delete"} : TerminateUnknown(Receiver, t, c)
  BY <1>1 DEF TerminateUnknown, CommandStart
<1>2. CASE \E c \in {"cancel", "delete"} : TerminateAgain(Receiver, t, c)
  BY <1>2 DEF TerminateAgain, CommandStart
<1>3. CASE \E c \in {"cancel", "delete"} : TerminateStart(Receiver, t, c)
  BY <1>w, <1>3 DEF TerminateStart, CommandStart
<1>4. CASE Deny(Receiver, t)
  BY <1>w, <1>4 DEF Deny
<1>5. CASE CancelNothing(Receiver, t)
  BY <1>5 DEF CancelNothing, CancelArrives
<1>6. CASE \E arg \in {"cancelled", "deleted"} : CancelFromPeer(Receiver, t, arg)
  BY <1>w, <1>6 DEF CancelFromPeer, CancelArrives
<1>7. CASE DenyFromPeer(Receiver, t)
  BY <1>w, <1>7 DEF DenyFromPeer
<1>8. CASE \E w \in Workers : Cleanup(Receiver, t, w)
  BY <1>0, <1>8 DEF Cleanup, FinishJob
<1>9. CASE \E w \in Workers : CleanupClear(Receiver, t, w)
  BY <1>9 DEF CleanupClear, FinishJob
<1> QED
  BY <1>1, <1>2, <1>3, <1>4, <1>5, <1>6, <1>7, <1>8, <1>9 DEF DeviceStep

\* A stop at the sending device keeps the invariant of access.
LEMMA SendingStopsKeepAccess ==
    ASSUME TypeOK, ForgetInv, NEW t \in Transfers, DeviceStep(Sender, t)
    PROVE  AccessKept
<1> USE DEF senderVars, receiverVars, inboxVars
<1>0. /\ Sender \in Devices /\ row[Sender][t] \in Records
      /\ "local" \in Workers /\ "wire" \in Workers
      /\ \A w \in Workers : job[Sender][t][w] \in Jobs
  BY DEF Devices, TypeOK, Workers
<1>1. CASE \E c \in {"cancel", "delete"} : TerminateUnknown(Sender, t, c)
  <2> DEFINE r == ClearIntent(row[Sender][t])
  <2>1. /\ SetRow(Sender, t, r) /\ job' = job
        /\ up' = up /\ saved' = saved /\ neg' = neg /\ restoring' = restoring /\ granted' = granted
    BY <1>1 DEF TerminateUnknown, CommandStart
  <2>2. r.state = SenderState(t) /\ r.release = row[Sender][t].release
    BY <1>0 DEF SenderState, Records, ClearIntent
  <2>3. JustifiedBy(row[Sender][t]) => JustifiedBy(r)
    BY <2>2 DEF SenderState, JustifiedBy
  <2> HIDE DEF r
  <2> QED BY <2>1, <2>2, <2>3, RowAccess
<1>2. CASE \E c \in {"cancel", "delete"} : TerminateAgain(Sender, t, c)
  <2>1. \A u \in Transfers : Still(u)
    BY <1>2 DEF TerminateAgain, CommandStart, Still
  <2> QED BY <2>1, NoTransfer
<1>3. CASE \E c \in {"cancel", "delete"} : TerminateStart(Sender, t, c)
  <2>0. PICK c \in {"cancel", "delete"} : TerminateStart(Sender, t, c)
    BY <1>3
  <2> DEFINE j == Snapshot(c, "deny", Sender, t)
  <2>1. /\ SetJob(Sender, t, "local", j) /\ SetRow(Sender, t, row[Sender][t])
        /\ up' = up /\ saved' = saved /\ neg' = neg /\ restoring' = restoring /\ granted' = granted
        /\ up[Sender] = "up" /\ job[Sender][t]["local"].step = "idle"
    BY <1>0, <2>0, SameRow DEF TerminateStart, CommandStart, Running
  <2>2. j.step = "deny"
    BY DEF Snapshot
  <2> HIDE DEF j
  <2> QED BY <1>0, <2>1, <2>2, StopAccess DEF SenderState
<1>4. CASE Deny(Sender, t)
  <2> DEFINE k == job[Sender][t]["local"]
             to == Target(k.kind)
             r == IF k.kind # "stop" /\ k.state = to THEN row[Sender][t]
                  ELSE TransitionTerminal(row[Sender][t], to, TRUE)
  <2>0. PICK b \in BOOLEAN : SetJob(Sender, t, "local", [k EXCEPT !.step = "cleanup", !.changed = b])
    BY <1>4 DEF Deny, DeniedBy
  <2>1. /\ SetRow(Sender, t, r) /\ k.step = "deny"
        /\ up' = up /\ saved' = saved /\ neg' = neg /\ restoring' = restoring /\ granted' = granted
    BY <1>4 DEF Deny
  <2>2. [k EXCEPT !.step = "cleanup", !.changed = b].step = "cleanup"
    BY <1>0 DEF Jobs
  <2>4. to \in {"cancelled", "deleted"}
    BY DEF Target
  <2>3. /\ SenderState(t) \in PostApproval => r.state \in PostApproval
        /\ r.state \in Resumable \cup {"awaiting_approval"} =>
              SenderState(t) \in Resumable \cup {"awaiting_approval"}
    <3>1. r.state = SenderState(t) \/ r.state \in {"cancelled", "deleted"}
      <4>1. CASE r = row[Sender][t]
        BY <4>1 DEF SenderState
      <4>2. CASE r = TransitionTerminal(row[Sender][t], to, TRUE)
        <5> HIDE DEF to, r
        <5> QED BY <1>0, <2>4, <4>2, DenyingOps DEF SenderState
      <4> QED BY <4>1, <4>2
    <3> QED BY <3>1 DEF PostApproval, Resumable
  <2> HIDE DEF r, to
  <2> QED BY <1>0, <2>0, <2>1, <2>2, <2>3, StopAccess
<1>5. CASE CancelNothing(Sender, t)
  <2>1. \A u \in Transfers : Still(u)
    BY <1>5 DEF CancelNothing, CancelArrives, Still
  <2> QED BY <2>1, NoTransfer
<1>6. CASE \E arg \in {"cancelled", "deleted"} : CancelFromPeer(Sender, t, arg)
  <2> DEFINE j == Snapshot("peer", "deny", Sender, t)
  <2>1. /\ SetJob(Sender, t, "wire", j) /\ SetRow(Sender, t, row[Sender][t])
        /\ up' = up /\ saved' = saved /\ neg' = neg /\ restoring' = restoring /\ granted' = granted
        /\ job[Sender][t]["wire"].step = "idle"
    BY <1>0, <1>6, SameRow DEF CancelFromPeer, CancelArrives
  <2>2. j.step = "deny"
    BY DEF Snapshot
  <2> HIDE DEF j
  <2> QED BY <1>0, <2>1, <2>2, StopAccess DEF SenderState
<1>7. CASE DenyFromPeer(Sender, t)
  <2> DEFINE k == job[Sender][t]["wire"]
             live == k.state \in Preapproval \cup Resumable
             changed == live /\ DeniedBy(row[Sender][t], "cancelled")
             q == IF changed \/ k.state = "cancelled" THEN [k EXCEPT !.step = "cleanup"] ELSE NoJob
             r == CASE k.state = "absent" -> ClearIntent(row[Sender][t])
                    [] live -> TransitionTerminal(row[Sender][t], "cancelled", FALSE)
                    [] OTHER -> row[Sender][t]
  <2>1. /\ SetRow(Sender, t, r) /\ SetJob(Sender, t, "wire", q) /\ k.step = "deny"
        /\ up' = up /\ saved' = saved /\ neg' = neg /\ restoring' = restoring /\ granted' = granted
    BY <1>7 DEF DenyFromPeer
  <2>2. /\ q.step \in {"cleanup", "idle"}
        /\ changed => q.step = "cleanup"
    BY <1>0 DEF Jobs, NoJob
  <2>4. \/ r.state = SenderState(t) /\ r.release = row[Sender][t].release
        \/ r.state = "cancelled" /\ changed
    BY <1>0, DenyingOps DEF SenderState, Preapproval, Resumable
  <2>3. /\ SenderState(t) \in PostApproval => r.state \in PostApproval
        /\ r.state \in Resumable \cup {"awaiting_approval"} =>
              SenderState(t) \in Resumable \cup {"awaiting_approval"}
    BY <1>0, <2>4, DeniedStates DEF SenderState
  <2>5. JustifiedBy(row[Sender][t]) => JustifiedBy(r) \/ q.step = "cleanup"
    BY <2>2, <2>4 DEF SenderState, JustifiedBy
  <2> HIDE DEF r, q
  <2> QED BY <1>0, <2>1, <2>2, <2>3, <2>5, StopAccess
<1>8. CASE \E w \in Workers : Cleanup(Sender, t, w)
  <2>0. PICK w \in Workers : Cleanup(Sender, t, w)
    BY <1>8
  <2> DEFINE k == job[Sender][t][w]
             q == IF k.handle = None THEN NoJob ELSE [k EXCEPT !.step = "clear"]
  <2>1. /\ SetRow(Sender, t, row[Sender][t]) /\ SetJob(Sender, t, w, q) /\ k.step = "cleanup"
        /\ up' = up /\ saved' = saved /\ neg' = neg /\ restoring' = restoring
        /\ granted' = granted \ {t}
    BY <1>0, <2>0, SameRow DEF Cleanup, FinishJob, TeardownPayload
  <2>2. q.step \in {"idle", "clear"} /\ (q.step = "clear" => q.state = k.state)
    BY <1>0 DEF Jobs, NoJob
  <2> HIDE DEF q
  <2> QED BY <1>0, <2>1, <2>2, StopAccess DEF SenderState
<1>9. CASE \E w \in Workers : CleanupClear(Sender, t, w)
  <2>0. PICK w \in Workers : CleanupClear(Sender, t, w)
    BY <1>9
  <2> DEFINE r == ClearAuthorization(row[Sender][t])
  <2>1. /\ SetRow(Sender, t, r) /\ SetJob(Sender, t, w, NoJob)
        /\ job[Sender][t][w].step = "clear"
        /\ up' = up /\ saved' = saved /\ neg' = neg /\ restoring' = restoring /\ granted' = granted
    BY <2>0 DEF CleanupClear, FinishJob
  <2>2. NoJob.step = "idle"
    BY DEF NoJob
  <2>3. r.state = SenderState(t)
    BY <1>0, DenyingOps DEF SenderState
  <2> HIDE DEF r
  <2> QED BY <1>0, <2>1, <2>2, <2>3, StopAccess
<1> QED
  BY <1>1, <1>2, <1>3, <1>4, <1>5, <1>6, <1>7, <1>8, <1>9 DEF DeviceStep

-------------------------------------------------------------------------------
(* Forgetting, crashes and startup.                                        *)

\* Several transfers at once: what has to be shown of each.
LEMMA AllTransfers ==
    ASSUME \A u \in Transfers : GrantInv(u)' /\ SweptInv(u)',
           AccessInv /\ RestoresUndisturbed => \A u \in Transfers : LiveInv(u)'
    PROVE  AccessKept
  BY DEF AccessKept, ForgetInv, AccessInv

\* Startup recovery cancels what an unsaved peer could still run.
LEMMA RecoveredDenied ==
    ASSUME TypeOK, NEW r \in Records, ~saved[Sender]
    PROVE  Recovered(Sender, r).state \notin Resumable \cup {"awaiting_approval"}
<1> DEFINE i == RecoverInFlight(r)
           p == CancelByPeer(i)
<1>1. i \in Records /\ p \in Records
  BY StoreTypes
<1>2. p.state \notin Resumable \cup {"awaiting_approval"}
  <2>1. p.state = IF DeniedBy(i, "cancelled") THEN "cancelled" ELSE i.state
    BY <1>1, DenyingOps
  <2> HIDE DEF i, p
  <2> QED BY <2>1 DEF DeniedBy, Preapproval, Resumable
<1>3. Recovered(Sender, r) \in {p, ClearAuthorization(p)}
  BY DEF Recovered
<1>4. ClearAuthorization(p).state = p.state
  BY <1>1 DEF ClearAuthorization, Records
<1> QED BY <1>2, <1>3, <1>4

\* The runtime's steps keep the invariant of access.
LEMMA RuntimesKeepAccess ==
    ASSUME TypeOK, TypeOK', InductiveInv, ForgetInv,
           \/ \E t \in Transfers : RestoreAccess(t) \/ RestoreFails(t)
           \/ \E d \in Devices : Forget(d) \/ ForgetDeny(d) \/ Boot(d) \/ Recover(d)
           \/ CrashSender \/ CrashReceiver \/ Online
           \/ \E m \in net : Lose(m)
    PROVE  AccessKept
<1> USE DEF deviceVars, senderVars, inboxVars, receiverVars
<1>0. /\ Sender \in Devices /\ Receiver \in Devices /\ Sender # Receiver
      /\ \A u \in Transfers : GrantInv(u) /\ SweptInv(u) /\ row[Sender][u] \in Records
  BY DEF Devices, Sender, Receiver, ForgetInv, TypeOK
<1>1. ASSUME NEW t \in Transfers, RestoreAccess(t) PROVE AccessKept
  <2>1. \A u \in Transfers \ {t} : Still(u)
    BY <1>1 DEF RestoreAccess, Still
  <2>2. /\ up' = up /\ saved' = saved /\ row' = row /\ neg' = neg /\ job' = job
        /\ up[Sender] = "restoring" /\ t \in restoring /\ restoring' = restoring \ {t}
        /\ granted' = granted \cup {t}
    BY <1>1 DEF RestoreAccess
  <2>3. /\ SenderState(t)' = SenderState(t) /\ ForgetJob(t)' = ForgetJob(t)
        /\ Justified(t)' = Justified(t)
    BY <2>2 DEF SenderState, ForgetJob, Justified
  <2>4. saved[Sender] /\ SenderState(t) \in PostApproval /\ GrantInv(t)
    BY <1>0, <2>2 DEF GrantInv
  <2>5. GrantInv(t)'
    BY <2>2, <2>3, <2>4 DEF GrantInv
  <2>6. SweptInv(t)'
    BY <2>2, <2>4 DEF SweptInv, Swept
  <2>7. ASSUME AccessInv, RestoresUndisturbed PROVE LiveInv(t)'
    <3>1. LiveInv(t)
      BY <2>7 DEF AccessInv
    <3>2. \A w \in Workers : job[Sender][t][w].step = "idle"
      BY <2>2, <2>7, <3>1 DEF LiveInv, RestoresUndisturbed, Workers
    <3>3. Justified(t)
      BY <2>2, <3>1 DEF LiveInv
    <3> QED BY <2>2, <2>3, <3>2, <3>3 DEF LiveInv, ForgetJob, Workers
  <2> QED BY <2>1, <2>5, <2>6, <2>7, OneTransfer
<1>2. ASSUME NEW t \in Transfers, RestoreFails(t) PROVE AccessKept
  <2> DEFINE r == FailResumable(row[Sender][t])
  <2>1. /\ SetRow(Sender, t, r) /\ up' = up /\ saved' = saved /\ neg' = neg /\ job' = job
        /\ restoring' = restoring \ {t} /\ granted' = granted \ {t}
    BY <1>2 DEF RestoreFails, TeardownPayload
  <2>2. r.state = IF SenderState(t) \in Resumable THEN "failed" ELSE SenderState(t)
    BY <1>0, DenyingOps DEF SenderState
  <2> HIDE DEF r
  <2> QED BY <2>1, <2>2, RowAccess DEF PostApproval, Resumable
<1>3. CASE Forget(Sender)
  <2>1. /\ up' = up /\ row' = row /\ neg' = neg /\ granted' = granted /\ restoring' = restoring
        /\ up[Sender] = "up" /\ saved[Sender]
    BY <1>3 DEF Forget, Running
  <2>2. /\ ~saved'[Sender]
        /\ \A u \in Transfers :
              /\ ForgetJob(u)' = Snapshot("forget", "deny", Sender, u)
              /\ \A w \in {"local", "wire"} : job'[Sender][u][w] = job[Sender][u][w]
    BY <1>0, <1>3 DEF Forget, TypeOK, Workers, ForgetJob
  <2>3. ASSUME NEW u \in Transfers
        PROVE  GrantInv(u)' /\ SweptInv(u)' /\ (LiveInv(u) => LiveInv(u)')
    <3>1. ForgetJob(u)'.step = "deny" /\ ForgetJob(u)'.state = SenderState(u)
      BY <2>2 DEF Snapshot, SenderState
    <3>2. SenderState(u)' = SenderState(u) /\ Justified(u)' = Justified(u)
      BY <2>1 DEF SenderState, Justified
    <3>3. u \notin restoring /\ GrantInv(u)
      BY <1>0, <2>1 DEF GrantInv
    <3>4. GrantInv(u)'
      BY <2>1, <3>1, <3>2, <3>3 DEF GrantInv
    <3>5. SweptInv(u)'
      BY <2>1, <3>1, <3>2, <3>3 DEF SweptInv, Swept, GrantInv, PostApproval, Resumable
    <3>6. ASSUME LiveInv(u) PROVE LiveInv(u)'
      <4>1. ForgetJob(u).step = "idle"
        BY <2>1, <3>6 DEF LiveInv
      <4>2. \A w \in Workers : w \in {"local", "wire"} \/ w = "forget"
        BY DEF Workers
      <4>3. \A w \in Workers : job'[Sender][u][w].step = "clear" => job[Sender][u][w].step = "clear"
        BY <2>2, <3>1, <4>2 DEF ForgetJob
      <4>4. \A w \in Workers : job[Sender][u][w].step = "cleanup" => job'[Sender][u][w].step = "cleanup"
        BY <2>2, <4>1, <4>2 DEF ForgetJob
      <4> QED BY <2>1, <2>2, <3>2, <3>3, <3>6, <4>3, <4>4 DEF LiveInv
    <3> QED BY <3>4, <3>5, <3>6
  <2> QED BY <2>3, AllTransfers DEF AccessInv
<1>4. CASE Forget(Receiver)
  <2>1. \A u \in Transfers : Still(u)
    BY <1>0, <1>4 DEF Forget, Still, TypeOK
  <2> QED BY <2>1, NoTransfer
<1>5. CASE ForgetDeny(Sender)
  <2>1. /\ up' = up /\ saved' = saved /\ neg' = neg /\ granted' = granted
        /\ restoring' = restoring
    BY <1>5 DEF ForgetDeny
  <2>2. \A u \in Transfers :
           /\ row'[Sender][u] = CancelByPeer(row[Sender][u])
           /\ ForgetJob(u)' = ForgottenJob(ForgetJob(u))
           /\ \A w \in {"local", "wire"} : job'[Sender][u][w] = job[Sender][u][w]
    BY <1>0, <1>5 DEF ForgetDeny, TypeOK, Workers, ForgetJob
  <2>3. PICK v \in Transfers : ForgetJob(v).step = "deny"
    BY <1>5 DEF ForgetDeny, ForgetJob
  <2>4. ASSUME NEW u \in Transfers
        PROVE  /\ GrantInv(u)' /\ SweptInv(u)'
               /\ LiveInv(u) /\ LiveInv(v) => LiveInv(u)'
    <3>1. SenderState(u)' = IF DeniedBy(row[Sender][u], "cancelled") THEN "cancelled"
                            ELSE SenderState(u)
      BY <1>0, <2>2, DenyingOps DEF SenderState
    <3>2. /\ SenderState(u) \in PostApproval => SenderState(u)' \in PostApproval
          /\ SenderState(u)' \notin Resumable \cup {"awaiting_approval"}
      BY <3>1 DEF DeniedBy, PostApproval, Resumable, Preapproval, SenderState
    <3>3. /\ ForgetJob(u).state = "absent" => ForgetJob(u)'.step = "idle" /\ ForgetJob(u)'.state = "absent"
          /\ ForgetJob(u).state # "absent" => /\ ForgetJob(u)'.step = "cleanup"
                                              /\ ForgetJob(u)'.state # "absent"
      <4>1. ForgetJob(u) \in Jobs
        BY <1>0 DEF ForgetJob, TypeOK, Workers
      <4> QED BY <2>2, <4>1 DEF ForgottenJob, NoJob, Jobs
    <3>4. GrantInv(u) /\ SweptInv(u)
      BY <1>0
    <3>5. GrantInv(u)'
      BY <2>1, <3>2, <3>3, <3>4 DEF GrantInv
    <3>6. ForgetJob(u).state = "absent" => (Swept(u)' => Swept(u))
      BY <2>1 DEF Swept
    <3>7. SweptInv(u)'
      BY <2>1, <3>2, <3>3, <3>4, <3>6 DEF SweptInv, GrantInv
    <3>8. ASSUME LiveInv(u), LiveInv(v) PROVE LiveInv(u)'
      <4>1. ~saved[Sender] /\ up[Sender] = "up" /\ u \notin restoring
        BY <2>3, <3>4, <3>8 DEF LiveInv, GrantInv, ForgetJob
      <4>2. Justified(u) => Justified(u)' \/ ForgetJob(u)'.step = "cleanup"
        <5>1. CASE SenderState(u) \in Resumable
          <6>1. ~Swept(u)
            BY <3>4, <5>1 DEF SweptInv
          <6> QED BY <3>3, <4>1, <6>1 DEF Swept
        <5>2. CASE SenderState(u) = "completed" /\ row[Sender][u].release
          <6>1. SenderState(u)' = "completed"
            BY <3>1, <5>2 DEF DeniedBy, Preapproval, Resumable, SenderState
          <6>2. row'[Sender][u].release = row[Sender][u].release
            BY <1>0, <2>2, DenyingOps
          <6> QED BY <5>2, <6>1, <6>2 DEF Justified
        <5> QED BY <5>1, <5>2 DEF Justified
      <4>3. \A w \in Workers : w \in {"local", "wire"} \/ w = "forget"
        BY DEF Workers
      <4>4. \A w \in Workers : job'[Sender][u][w].step = "clear" => job[Sender][u][w].step = "clear"
        BY <2>2, <3>3, <4>3 DEF ForgetJob
      <4>5. \A w \in Workers : job[Sender][u][w].step = "cleanup" => job'[Sender][u][w].step = "cleanup"
        BY <2>2, <3>3, <3>4, <4>3 DEF ForgetJob, GrantInv
      <4>6. ForgetJob(u)'.step = "cleanup" => \E w \in Workers : job'[Sender][u][w].step = "cleanup"
        BY DEF ForgetJob, Workers
      <4> QED BY <2>1, <2>2, <3>8, <4>1, <4>2, <4>4, <4>5, <4>6 DEF LiveInv
    <3> QED BY <3>5, <3>7, <3>8
  <2> QED BY <2>4, AllTransfers DEF AccessInv
<1>6. CASE ForgetDeny(Receiver)
  <2>1. \A u \in Transfers : Still(u)
    BY <1>0, <1>6 DEF ForgetDeny, Still, TypeOK
  <2> QED BY <2>1, NoTransfer
<1>7. CASE Boot(Sender)
  <2>1. /\ row' = row /\ saved' = saved /\ neg' = neg /\ granted' = granted /\ job' = job
        /\ restoring' = restoring /\ up[Sender] = "down"
    BY <1>7 DEF Boot
  <2>2. up'[Sender] = "starting"
    BY <1>0, <1>7 DEF Boot, TypeOK
  <2>3. \A u \in Transfers : u \notin granted /\ u \notin restoring
    BY <1>0, <2>1 DEF GrantInv
  <2>4. \A u \in Transfers : GrantInv(u)' /\ SweptInv(u)'
    BY <1>0, <2>1, <2>2, <2>3 DEF GrantInv, SweptInv, Swept, ForgetJob
  <2>5. \A u \in Transfers : LiveInv(u) => LiveInv(u)'
    BY <2>1, <2>2, <2>3 DEF LiveInv, ForgetJob
  <2> QED BY <2>4, <2>5, AllTransfers DEF AccessInv
<1>8. CASE Boot(Receiver)
  <2>1. \A u \in Transfers : Still(u)
    BY <1>0, <1>8 DEF Boot, Still, TypeOK
  <2> QED BY <2>1, NoTransfer
<1>9. CASE Recover(Sender)
  <2>1. /\ saved' = saved /\ neg' = neg /\ granted' = granted /\ job' = job
        /\ up[Sender] = "starting"
    BY <1>9 DEF Recover
  <2>2. up'[Sender] = "restoring"
    BY <1>0, <1>9 DEF Recover, TypeOK
  <2>3. \A u \in Transfers : row'[Sender][u] = Recovered(Sender, row[Sender][u])
    BY <1>0, <1>9 DEF Recover, TypeOK
  <2>4. \A u \in Transfers : u \notin granted
    BY <1>0, <2>1 DEF GrantInv
  <2>5. \A u \in Transfers : u \in restoring' => SenderState(u)' \in Resumable
    BY <1>9, <2>3 DEF Recover, SenderState
  <2>6. ~saved[Sender] => \A u \in Transfers :
              SenderState(u)' \notin Resumable \cup {"awaiting_approval"}
    BY <1>0, <2>3, RecoveredDenied DEF SenderState
  <2>7. \A u \in Transfers : GrantInv(u)' /\ SweptInv(u)'
    BY <1>0, <2>1, <2>2, <2>4, <2>5, <2>6 DEF GrantInv, SweptInv, Swept, ForgetJob, PostApproval
  <2>8. \A u \in Transfers : LiveInv(u) => LiveInv(u)'
    BY <2>1, <2>2, <2>4, <2>5 DEF LiveInv, ForgetJob, Justified
  <2> QED BY <2>7, <2>8, AllTransfers DEF AccessInv
<1>10. CASE Recover(Receiver)
  <2>1. \A u \in Transfers : Still(u)
    BY <1>0, <1>10 DEF Recover, Still, TypeOK
  <2> QED BY <2>1, NoTransfer
<1>11. CASE CrashSender
  <2>1. /\ granted' = {} /\ restoring' = {}
        /\ \A u \in Transfers, w \in Workers : job'[Sender][u][w] = NoJob
    BY <1>0, <1>11 DEF CrashSender, Crash, TypeOK
  <2>2. up'[Sender] = "down"
    BY <1>0, <1>11 DEF CrashSender, Crash, TypeOK
  <2>3. NoJob.step = "idle"
    BY DEF NoJob
  <2>4. \A u \in Transfers : GrantInv(u)' /\ SweptInv(u)'
    BY <2>1, <2>2, <2>3 DEF GrantInv, SweptInv, Swept, ForgetJob, Workers
  <2>5. \A u \in Transfers : LiveInv(u)'
    BY <2>1, <2>2, <2>3 DEF LiveInv, ForgetJob, Workers
  <2> QED BY <2>4, <2>5, AllTransfers
<1>12. CASE CrashReceiver
  <2>1. \A u \in Transfers : Still(u)
    BY <1>0, <1>12 DEF CrashReceiver, Crash, Still, TypeOK
  <2> QED BY <2>1, NoTransfer
<1>13. CASE Online
  <2>1. /\ row' = row /\ saved' = saved /\ neg' = neg /\ granted' = granted /\ job' = job
        /\ restoring' = {} /\ up[Sender] = "restoring"
    BY <1>13 DEF Online
  <2>2. up'[Sender] = "up"
    BY <1>0, <1>13 DEF Online, TypeOK
  <2>3. \A u \in Transfers :
           /\ SenderState(u)' = SenderState(u) /\ ForgetJob(u)' = ForgetJob(u)
           /\ Justified(u)' = Justified(u)
           /\ Swept(u)' => Swept(u)
    BY <2>1, <2>2 DEF SenderState, ForgetJob, Justified, Swept
  <2>4. \A u \in Transfers : GrantInv(u)' /\ SweptInv(u)'
    BY <1>0, <2>1, <2>2, <2>3 DEF GrantInv, SweptInv
  <2>5. \A u \in Transfers : LiveInv(u) => LiveInv(u)'
    BY <2>1, <2>2, <2>3 DEF LiveInv
  <2> QED BY <2>4, <2>5, AllTransfers DEF AccessInv
<1>14. CASE \E m \in net : Lose(m)
  <2>1. \A u \in Transfers : Still(u)
    BY <1>14 DEF Lose, Still
  <2> QED BY <2>1, NoTransfer
<1> QED
  BY <1>1, <1>2, <1>3, <1>4, <1>5, <1>6, <1>7, <1>8, <1>9, <1>10, <1>11, <1>12, <1>13, <1>14 DEF Devices

\* Every step keeps the invariant of access.
LEMMA AccessInductive ==
    ASSUME TypeOK, TypeOK', InductiveInv, ForgetInv, [Next]_vars
    PROVE  AccessKept
<1>1. CASE UNCHANGED vars
  <2>1. \A u \in Transfers : Still(u)
    BY <1>1 DEF vars, deviceVars, senderVars, Still
  <2> QED BY <2>1, NoTransfer
<1>2. CASE Next
  <2>1. ASSUME NEW t \in Transfers, SenderStep(t) PROVE AccessKept
    BY <2>1, NegotiationsKeepAccess, SendersKeepAccess DEF SenderStep
  <2>2. ASSUME NEW t \in Transfers, NEW d \in Devices, DeviceStep(d, t) PROVE AccessKept
    BY <2>2, ReceivingStopsKeepAccess, SendingStopsKeepAccess DEF Devices
  <2> QED BY <1>2, <2>1, <2>2, ReceiversKeepAccess, RuntimesKeepAccess DEF Next
<1> QED BY <1>1, <1>2

LEMMA InitialAccess == Init => ForgetInv /\ AccessInv
  BY DEF Init, ForgetInv, AccessInv, GrantInv, SweptInv, Swept, LiveInv, ForgetJob, NoJob, Devices,
         Workers, SenderState, NoRecord, Resumable

\* The parts of the invariant of forgetting hold in every reachable state.
THEOREM ForgetInductive == Spec => []ForgetInv
<1>1. TypeOK /\ TypeOK' /\ InductiveInv /\ ForgetInv /\ [Next]_vars => ForgetInv'
  BY AccessInductive DEF AccessKept
<1> QED BY <1>1, InitialAccess, Inductive, PTL DEF Spec

(***************************************************************************)
(* A sender that forgot the receiver runs and serves none of its           *)
(* transfers, for any number of transfers, commands and crashes: also one  *)
(* that was being registered, offered, approved or restored when the user  *)
(* forgot the device.                                                      *)
(***************************************************************************)
THEOREM ForgottenReceiverHasNothing == Spec => []ForgottenReceiverIsDenied
<1>1. ForgetInv => ForgottenReceiverIsDenied
  BY DEF ForgetInv, SweptInv, Swept, ForgottenReceiverIsDenied, Forgotten, Running, ForgetJob,
         WithdrawalUnderway, Withdrawing
<1> QED BY <1>1, ForgetInductive, PTL

(***************************************************************************)
(* Access ends with the record that justifies it, as long as no peer's     *)
(* cancellation is answered while startup restores access: the one         *)
(* interleaving in which restore_targeted_transfer_access grants a         *)
(* transfer again that a cancellation has already cleaned up.              *)
(***************************************************************************)
THEOREM AccessEndsWithTransfer == Spec /\ []RestoresUndisturbed => []AccessOnlyWhileLive
<1>1. /\ TypeOK /\ TypeOK' /\ InductiveInv /\ ForgetInv /\ [Next]_vars
      /\ AccessInv /\ RestoresUndisturbed
      => AccessInv'
  BY AccessInductive DEF AccessKept
<1>2. TypeOK /\ AccessInv => AccessOnlyWhileLive
  BY DEF TypeOK, AccessInv, LiveInv, AccessOnlyWhileLive, Justified, WithdrawalUnderway, Withdrawing
<1> QED BY <1>1, <1>2, InitialAccess, ForgetInductive, Inductive, PTL DEF Spec

-------------------------------------------------------------------------------
(* Which messages and jobs a step adds.                                    *)

\* Nothing the receiver keeps about u changes.
ReceiverStill(u) ==
    /\ saved'[Receiver] = saved[Receiver] /\ row'[Receiver][u] = row[Receiver][u]
    /\ secrets'[Receiver][u] = secrets[Receiver][u] /\ job'[Receiver][u] = job[Receiver][u]

\* Only the receiver's stops cancel at the sender, and only a completion the
\* sender has recorded is acknowledged.
Honest(m) ==
    \/ m \in net
    \/ /\ m.kind = "cancel" => m.to = Receiver
       /\ m.kind = "completion_reply" /\ m.arg = "recorded" => SenderState(m.t)' = "completed"

\* The sender starts to answer a peer's cancellation only when one arrives.
CancelArriving == \E m \in net : m.kind = "cancel" /\ m.to = Sender
WireKept(u) ==
    \/ job'[Sender][u]["wire"].step = "idle"
    \/ job'[Sender][u]["wire"] = job[Sender][u]["wire"]
    \/ job[Sender][u]["wire"].step # "idle"
    \/ CancelArriving

\* A step of the sending end leaves the receiver alone.
SenderAlone ==
    /\ \A u \in Transfers : ReceiverStill(u)
    /\ \A m \in net' : Honest(m)
    /\ \A u \in Transfers : WireKept(u)

LEMMA NegotiationsAreHonest ==
    ASSUME TypeOK, NEW t \in Transfers,
           \/ Prepare(t) \/ StopBeforeRegistration(t) \/ RegisterInsert(t) \/ RegisterOffering(t)
           \/ ContactFails(t) \/ SubmitOffer(t) \/ OfferFails(t)
           \/ \E arg \in {"declined", "refused"} : OfferRejected(t, arg)
           \/ OfferAccepted(t) \/ ProtectAuthorization(t) \/ ProtectFails(t)
           \/ Finalize(t) \/ Rollback(t) \/ Teardown(t)
    PROVE  SenderAlone
<1>0. Sender \in Devices /\ Receiver \in Devices /\ Sender # Receiver
  BY DEF Devices, Sender, Receiver
<1> SUFFICES /\ \E from, to : Negotiate(t, from, to)
             /\ row' = row \/ \E r : SetRow(Sender, t, r)
             /\ \A u \in Transfers : secrets'[Receiver][u] = secrets[Receiver][u]
             /\ \A m \in net' : m \in net \/ m.kind = "offer"
  <2>1. ASSUME \E from, to : Negotiate(t, from, to), row' = row \/ \E r : SetRow(Sender, t, r),
               \A u \in Transfers : secrets'[Receiver][u] = secrets[Receiver][u],
               \A m \in net' : m \in net \/ m.kind = "offer"
        PROVE  SenderAlone
    <3>1. \A u \in Transfers : row'[Receiver][u] = row[Receiver][u]
      BY <1>0, <2>1, RowAt
    <3>2. saved' = saved /\ job' = job
      BY <2>1 DEF Negotiate
    <3>3. \A m \in net' : Honest(m)
      BY <2>1 DEF Honest
    <3> QED BY <2>1, <3>1, <3>2, <3>3 DEF SenderAlone, ReceiverStill, WireKept
  <2> QED BY <2>1
<1>1. CASE Prepare(t)
  BY <1>1 DEF Prepare
<1>2. CASE StopBeforeRegistration(t)
  BY <1>2 DEF StopBeforeRegistration
<1>3. CASE RegisterInsert(t)
  BY <1>3 DEF RegisterInsert
<1>4. CASE RegisterOffering(t)
  BY <1>4 DEF RegisterOffering
<1>5. CASE ContactFails(t)
  BY <1>5 DEF ContactFails
<1>6. CASE SubmitOffer(t)
  <2>1. \A m \in net' : m \in net \/ m.kind = "offer"
    <3>1. Msg("offer", Receiver, t, "").kind = "offer"
      BY DEF Msg
    <3> QED BY <1>6, <3>1 DEF SubmitOffer
  <2> QED BY <1>6, <2>1 DEF SubmitOffer
<1>7. CASE OfferFails(t)
  BY <1>7 DEF OfferFails, StaleReplies
<1>8. CASE \E arg \in {"declined", "refused"} : OfferRejected(t, arg)
  BY <1>8 DEF OfferRejected
<1>9. CASE OfferAccepted(t)
  BY <1>9 DEF OfferAccepted
<1>10. CASE ProtectAuthorization(t)
  <2>1. \A u \in Transfers : secrets'[Receiver][u] = secrets[Receiver][u]
    BY <1>0, <1>10 DEF ProtectAuthorization, TypeOK
  <2> QED BY <1>10, <2>1 DEF ProtectAuthorization
<1>11. CASE ProtectFails(t)
  BY <1>11 DEF ProtectFails
<1>12. CASE Finalize(t)
  BY <1>12 DEF Finalize
<1>13. CASE Rollback(t)
  <2>1. \A u \in Transfers : secrets'[Receiver][u] = secrets[Receiver][u]
    BY <1>0, <1>13 DEF Rollback, TypeOK
  <2> QED BY <1>13, <2>1 DEF Rollback
<1>14. CASE Teardown(t)
  BY <1>14 DEF Teardown
<1> QED
  BY <1>1, <1>2, <1>3, <1>4, <1>5, <1>6, <1>7, <1>8, <1>9, <1>10, <1>11, <1>12, <1>13, <1>14

\* Every step of the sending end leaves the receiver alone.
LEMMA SendersAreHonest ==
    ASSUME TypeOK, TypeOK', NEW t \in Transfers, SenderStep(t)
    PROVE  SenderAlone
<1> USE DEF senderVars, inboxVars, receiverVars
<1>0. /\ Sender \in Devices /\ Receiver \in Devices /\ Sender # Receiver
      /\ "local" \in Workers /\ "wire" \in Workers /\ row[Sender][t] \in Records
  BY DEF Devices, Sender, Receiver, Workers, TypeOK
<1>w. ASSUME \E j : SetJob(Sender, t, "local", j)
      PROVE  \A u \in Transfers : /\ job'[Receiver][u] = job[Receiver][u]
                                  /\ job'[Sender][u]["wire"] = job[Sender][u]["wire"]
  BY <1>0, <1>w, JobAt
<1>r. ASSUME row' = row \/ \E r : SetRow(Sender, t, r)
      PROVE  \A u \in Transfers : row'[Receiver][u] = row[Receiver][u]
  BY <1>0, <1>r, RowAt
<1>1. CASE \/ Prepare(t) \/ StopBeforeRegistration(t) \/ RegisterInsert(t) \/ RegisterOffering(t)
           \/ ContactFails(t) \/ SubmitOffer(t) \/ OfferFails(t)
           \/ \E arg \in {"declined", "refused"} : OfferRejected(t, arg)
           \/ OfferAccepted(t) \/ ProtectAuthorization(t) \/ ProtectFails(t)
           \/ Finalize(t) \/ Rollback(t) \/ Teardown(t)
  BY <1>1, NegotiationsAreHonest
<1>2. CASE StopStart(t)
  BY <1>2, <1>w DEF StopStart, CommandStart, SenderAlone, ReceiverStill, WireKept, Honest
<1>3. CASE StopAbandon(t)
  BY <1>3, <1>w, <1>r DEF StopAbandon, SenderAlone, ReceiverStill, WireKept, Honest
<1>4. CASE DeliverAuthorization(t)
  <2>1. \A m \in net' : Honest(m)
    <3>1. Msg("authorization", Receiver, t, "").kind = "authorization"
      BY DEF Msg
    <3> QED BY <1>4, <3>1 DEF DeliverAuthorization, StaleReplies, Honest
  <2> QED BY <1>4, <2>1 DEF DeliverAuthorization, Reconcile, SenderAlone, ReceiverStill, WireKept
<1>5. CASE DeliveryStored(t)
  BY <1>5, <1>r DEF DeliveryStored, Reconcile, SenderAlone, ReceiverStill, WireKept, Honest
<1>6. CASE DeliveryDeferred(t)
  BY <1>6 DEF DeliveryDeferred, Reconcile, SenderAlone, ReceiverStill, WireKept, Honest, StaleReplies
<1>7. CASE ReleasePayload(t)
  BY <1>7, <1>r DEF ReleasePayload, Reconcile, SenderAlone, ReceiverStill, WireKept, Honest
<1>8. CASE HandleCompletion(t)
  <2> DEFINE r == row[Sender][t]
  <2>1. RecordsCompletion(r) => SenderState(t)' = "completed"
    <3>1. RecordsCompletion(r) => MarkSenderCompleted(r).state = "completed"
      BY <1>0 DEF RecordsCompletion, MarkSenderCompleted, Records
    <3>2. SetRow(Sender, t, IF RecordsCompletion(r) THEN MarkSenderCompleted(r) ELSE r)
      BY <1>8 DEF HandleCompletion
    <3> QED BY <1>0, <3>1, <3>2, RowAt DEF SenderState
  <2>2. \A m \in net' :
           \/ m \in net
           \/ /\ m.kind = "completion_reply" /\ m.t = t
              /\ m.arg = IF RecordsCompletion(r) THEN "recorded" ELSE "rejected"
    <3> DEFINE arg == IF RecordsCompletion(r) THEN "recorded" ELSE "rejected"
    <3>1. LET m == Msg("completion_reply", Receiver, t, arg)
          IN  m.kind = "completion_reply" /\ m.t = t /\ m.arg = arg
      BY DEF Msg
    <3>2. \A m \in net' : m \in net \/ m = Msg("completion_reply", Receiver, t, arg)
      BY <1>8 DEF HandleCompletion, Reply
    <3> QED BY <3>1, <3>2
  <2>3. \A m \in net' : Honest(m)
    BY <2>1, <2>2 DEF Honest
  <2> QED BY <1>8, <1>r, <2>3 DEF HandleCompletion, Reconcile, SenderAlone, ReceiverStill, WireKept
<1> QED
  BY <1>1, <1>2, <1>3, <1>4, <1>5, <1>6, <1>7, <1>8 DEF SenderStep

\* A stop at the sending device leaves the receiver's state alone.
LEMMA SendingStopsAreHonest ==
    ASSUME TypeOK, NEW t \in Transfers, DeviceStep(Sender, t)
    PROVE  SenderAlone
<1> USE DEF senderVars, inboxVars, receiverVars
<1>0. /\ Sender \in Devices /\ Receiver \in Devices /\ Sender # Receiver
      /\ "local" \in Workers /\ "wire" \in Workers
  BY DEF Devices, Sender, Receiver, Workers
<1> SUFFICES /\ saved' = saved
             /\ row' = row \/ \E r : SetRow(Sender, t, r)
             /\ \A u \in Transfers : secrets'[Receiver][u] = secrets[Receiver][u]
             /\ \A m \in net' : m \in net \/ (m.kind = "cancel" /\ m.to = Receiver)
             /\ \/ job' = job
                \/ \E w \in Workers : \E j :
                      /\ SetJob(Sender, t, w, j)
                      /\ w # "wire" \/ job[Sender][t][w].step # "idle" \/ CancelArriving
  <2>1. ASSUME saved' = saved, row' = row \/ \E r : SetRow(Sender, t, r),
               \A u \in Transfers : secrets'[Receiver][u] = secrets[Receiver][u],
               \A m \in net' : m \in net \/ (m.kind = "cancel" /\ m.to = Receiver),
               \/ job' = job
               \/ \E w \in Workers : \E j :
                     /\ SetJob(Sender, t, w, j)
                     /\ w # "wire" \/ job[Sender][t][w].step # "idle" \/ CancelArriving
        PROVE  SenderAlone
    <3>1. \A u \in Transfers : row'[Receiver][u] = row[Receiver][u]
      BY <1>0, <2>1, RowAt
    <3>2. \A u \in Transfers : job'[Receiver][u] = job[Receiver][u] /\ WireKept(u)
      BY <1>0, <2>1, JobAt DEF WireKept
    <3>3. \A m \in net' : Honest(m)
      BY <2>1 DEF Honest
    <3> QED BY <2>1, <3>1, <3>2, <3>3 DEF SenderAlone, ReceiverStill
  <2> QED BY <2>1
<1>c. \A arg : Msg("cancel", Receiver, t, arg).kind = "cancel"
               /\ Msg("cancel", Receiver, t, arg).to = Receiver
  BY DEF Msg
<1>n. \A j : \A m \in Notices(Sender, t, j) : m.kind = "cancel" /\ m.to = Receiver
  BY <1>c DEF Notices, Peer
<1>1. CASE \E c \in {"cancel", "delete"} : TerminateUnknown(Sender, t, c)
  BY <1>1 DEF TerminateUnknown, CommandStart
<1>2. CASE \E c \in {"cancel", "delete"} : TerminateAgain(Sender, t, c)
  BY <1>c, <1>2 DEF TerminateAgain, CommandStart, Peer
<1>3. CASE \E c \in {"cancel", "delete"} : TerminateStart(Sender, t, c)
  BY <1>0, <1>3 DEF TerminateStart, CommandStart
<1>4. CASE Deny(Sender, t)
  BY <1>0, <1>4 DEF Deny
<1>5. CASE CancelNothing(Sender, t)
  BY <1>5 DEF CancelNothing, CancelArrives
<1>6. CASE \E arg \in {"cancelled", "deleted"} : CancelFromPeer(Sender, t, arg)
  <2>1. CancelArriving
    BY <1>6 DEF CancelFromPeer, CancelArrives, CancelArriving, Msg
  <2> QED BY <1>0, <1>6, <2>1 DEF CancelFromPeer, CancelArrives
<1>7. CASE DenyFromPeer(Sender, t)
  BY <1>0, <1>7 DEF DenyFromPeer
<1>8. CASE \E w \in Workers : Cleanup(Sender, t, w)
  <2>0. PICK w \in Workers : Cleanup(Sender, t, w)
    BY <1>8
  <2>1. \A u \in Transfers : secrets'[Receiver][u] = secrets[Receiver][u]
    BY <1>0, <2>0 DEF Cleanup, TypeOK
  <2>2. \A m \in net' : m \in net \/ (m.kind = "cancel" /\ m.to = Receiver)
    BY <1>n, <2>0 DEF Cleanup, FinishJob
  <2>3. \E j : SetJob(Sender, t, w, j) /\ job[Sender][t][w].step # "idle"
    BY <2>0 DEF Cleanup, FinishJob
  <2> QED BY <2>0, <2>1, <2>2, <2>3 DEF Cleanup
<1>9. CASE \E w \in Workers : CleanupClear(Sender, t, w)
  <2>0. PICK w \in Workers : CleanupClear(Sender, t, w)
    BY <1>9
  <2>1. \A m \in net' : m \in net \/ (m.kind = "cancel" /\ m.to = Receiver)
    BY <1>n, <2>0 DEF CleanupClear, FinishJob
  <2>2. \E j : SetJob(Sender, t, w, j) /\ job[Sender][t][w].step # "idle"
    BY <2>0 DEF CleanupClear, FinishJob
  <2> QED BY <2>0, <2>1, <2>2 DEF CleanupClear
<1> QED
  BY <1>1, <1>2, <1>3, <1>4, <1>5, <1>6, <1>7, <1>8, <1>9 DEF DeviceStep

\* The runtime's steps that leave the receiver alone.
LEMMA RuntimesAreHonest ==
    ASSUME TypeOK,
           \/ \E t \in Transfers : RestoreAccess(t) \/ RestoreFails(t)
           \/ Forget(Sender) \/ ForgetDeny(Sender) \/ Boot(Sender) \/ Recover(Sender)
           \/ CrashSender \/ Online \/ \E m \in net : Lose(m)
    PROVE  SenderAlone
<1> USE DEF deviceVars, senderVars, inboxVars, receiverVars, SenderAlone
<1>0. /\ Sender \in Devices /\ Receiver \in Devices /\ Sender # Receiver
      /\ "wire" \in Workers
  BY DEF Devices, Sender, Receiver, Workers
<1>1. CASE \E t \in Transfers : RestoreAccess(t)
  <2>1. \A u \in Transfers : ReceiverStill(u)
    BY <1>0, <1>1 DEF RestoreAccess, ReceiverStill, TypeOK
  <2>2. \A m \in net' : Honest(m)
    BY <1>1 DEF RestoreAccess, Honest
  <2>3. \A u \in Transfers : WireKept(u)
    BY <1>0, <1>1 DEF RestoreAccess, WireKept, TypeOK, NoJob
  <2> QED BY <2>1, <2>2, <2>3
<1>2. CASE \E t \in Transfers : RestoreFails(t)
  <2>1. \A u \in Transfers : ReceiverStill(u)
    BY <1>0, <1>2 DEF RestoreFails, SetRow, ReceiverStill, TypeOK
  <2>2. \A m \in net' : Honest(m)
    BY <1>2 DEF RestoreFails, SetRow, Honest
  <2>3. \A u \in Transfers : WireKept(u)
    BY <1>0, <1>2 DEF RestoreFails, SetRow, WireKept, TypeOK, NoJob
  <2> QED BY <2>1, <2>2, <2>3
<1>3. CASE Forget(Sender)
  <2>1. \A u \in Transfers : ReceiverStill(u)
    BY <1>0, <1>3 DEF Forget, ReceiverStill, TypeOK
  <2>2. \A m \in net' : Honest(m)
    BY <1>3 DEF Forget, Honest
  <2>3. \A u \in Transfers : WireKept(u)
    BY <1>0, <1>3 DEF Forget, WireKept, TypeOK, NoJob
  <2> QED BY <2>1, <2>2, <2>3
<1>4. CASE ForgetDeny(Sender)
  <2>1. \A u \in Transfers : ReceiverStill(u)
    BY <1>0, <1>4 DEF ForgetDeny, ReceiverStill, TypeOK
  <2>2. \A m \in net' : Honest(m)
    BY <1>4 DEF ForgetDeny, Honest
  <2>3. \A u \in Transfers : WireKept(u)
    BY <1>0, <1>4 DEF ForgetDeny, WireKept, TypeOK, NoJob
  <2> QED BY <2>1, <2>2, <2>3
<1>5. CASE Boot(Sender)
  <2>1. \A u \in Transfers : ReceiverStill(u)
    BY <1>0, <1>5 DEF Boot, ReceiverStill, TypeOK
  <2>2. \A m \in net' : Honest(m)
    BY <1>5 DEF Boot, Honest
  <2>3. \A u \in Transfers : WireKept(u)
    BY <1>0, <1>5 DEF Boot, WireKept, TypeOK, NoJob
  <2> QED BY <2>1, <2>2, <2>3
<1>6. CASE Recover(Sender)
  <2>1. \A u \in Transfers : ReceiverStill(u)
    BY <1>0, <1>6 DEF Recover, ReceiverStill, TypeOK
  <2>2. \A m \in net' : Honest(m)
    BY <1>6 DEF Recover, Honest
  <2>3. \A u \in Transfers : WireKept(u)
    BY <1>0, <1>6 DEF Recover, WireKept, TypeOK, NoJob
  <2> QED BY <2>1, <2>2, <2>3
<1>7. CASE CrashSender
  <2>1. \A u \in Transfers : ReceiverStill(u)
    BY <1>0, <1>7 DEF CrashSender, Crash, ReceiverStill, TypeOK
  <2>2. \A m \in net' : Honest(m)
    BY <1>7 DEF CrashSender, Crash, Honest
  <2>3. \A u \in Transfers : WireKept(u)
    BY <1>0, <1>7 DEF CrashSender, Crash, WireKept, TypeOK, NoJob
  <2> QED BY <2>1, <2>2, <2>3
<1>8. CASE Online
  <2>1. \A u \in Transfers : ReceiverStill(u)
    BY <1>0, <1>8 DEF Online, ReceiverStill, TypeOK
  <2>2. \A m \in net' : Honest(m)
    BY <1>8 DEF Online, Honest
  <2>3. \A u \in Transfers : WireKept(u)
    BY <1>0, <1>8 DEF Online, WireKept, TypeOK, NoJob
  <2> QED BY <2>1, <2>2, <2>3
<1>9. CASE \E m \in net : Lose(m)
  <2>1. \A u \in Transfers : ReceiverStill(u)
    BY <1>0, <1>9 DEF Lose, ReceiverStill, TypeOK
  <2>2. \A m \in net' : Honest(m)
    BY <1>9 DEF Lose, Honest
  <2>3. \A u \in Transfers : WireKept(u)
    BY <1>0, <1>9 DEF Lose, WireKept, TypeOK, NoJob
  <2> QED BY <2>1, <2>2, <2>3
<1> QED
  BY <1>1, <1>2, <1>3, <1>4, <1>5, <1>6, <1>7, <1>8, <1>9

-------------------------------------------------------------------------------
(* What a step may do to the acknowledgement that is owed.                 *)

\* How the states of the two records of u can never move, by the lifecycle.
EndsStay(u) ==
    /\ SenderState(u) \in {"completed", "deleted"} => SenderState(u)' \in {"completed", "deleted"}
    /\ ReceiverState(u) = "deleted" => ReceiverState(u)' = "deleted"
    /\ ReceiverState(u) \in {"cancelled", "deleted"} => ReceiverState(u)' \in {"cancelled", "deleted"}
    /\ ReceiverState(u)' = "completed" => ReceiverState(u) \in {"completed", "transferring"}
    /\ ReceiverState(u) # "absent" /\ SenderState(u)' \in Resumable => SenderState(u) \in Resumable

\* An ended record stays ended; a lifecycle step never resumes one.
LEMMA EndedStays ==
    ASSUME TypeOK, TypeOK', InductiveInv, ShownInv, [Next]_vars, NEW u \in Transfers
    PROVE  EndsStay(u)
<1>1. /\ Lifecycle!SendingMoves(u, SendingShown[u], SendingShown'[u])
      /\ Lifecycle!ReceivingMoves(u, ReceivingShown[u], ReceivingShown'[u])
  <2>1. [Lifecycle!Next]_(Lifecycle!vars)
    BY LifecycleStep
  <2>2. CASE Lifecycle!Next
    BY <2>2 DEF Lifecycle!Next
  <2>3. CASE UNCHANGED Lifecycle!vars
    BY <2>3 DEF Lifecycle!vars, Lifecycle!SendingMoves, Lifecycle!ReceivingMoves
  <2> QED BY <2>1, <2>2, <2>3
<1>2. /\ ReceivingShown[u] = ReceiverState(u) /\ ReceivingShown'[u] = ReceiverState(u)'
      /\ SendingShown[u] = IF SenderState(u) = "absent" /\ neg[u] \notin {"idle", "imported"}
                           THEN "gone" ELSE SenderState(u)
      /\ SendingShown'[u] = IF SenderState(u)' = "absent" /\ neg'[u] \notin {"idle", "imported"}
                            THEN "gone" ELSE SenderState(u)'
  BY DEF ReceivingShown, SendingShown
<1>3. ReceiverState(u) # "absent" => SenderState(u) \in PostApproval
  BY DEF InductiveInv, ApprovalInv
<1> USE DEF Lifecycle!Ends, Lifecycle!BeforeApproval, Lifecycle!Runnable, Lifecycle!Ended
<1>4. /\ ReceiverState(u) = "deleted" => ReceiverState(u)' = "deleted"
      /\ ReceiverState(u) \in {"cancelled", "deleted"} => ReceiverState(u)' \in {"cancelled", "deleted"}
      /\ ReceiverState(u)' = "completed" => ReceiverState(u) \in {"completed", "transferring"}
  BY <1>1, <1>2 DEF Lifecycle!ReceivingMoves
<1>5. SenderState(u) \in {"completed", "deleted"} => SenderState(u)' \in {"completed", "deleted"}
  BY <1>1, <1>2 DEF Lifecycle!SendingMoves
<1>6. SenderState(u) \in PostApproval /\ SenderState(u)' \in Resumable => SenderState(u) \in Resumable
  BY <1>1, <1>2 DEF Lifecycle!SendingMoves, PostApproval, Resumable
<1> QED BY <1>3, <1>4, <1>5, <1>6 DEF EndsStay

\* A receive that stays or becomes completed keeps what its acknowledgement
\* needs, unless the sender's record has ended or the sender was forgotten.
KeepsOwing(u) ==
    ReceiverState(u)' = "completed" /\ SenderState(u)' \in Resumable /\ saved'[Receiver] =>
        /\ saved[Receiver]
        /\ row'[Receiver][u].handle = row[Receiver][u].handle
        /\ \/ row'[Receiver][u].completion
           \/ /\ ReceiverState(u) = "completed"
              /\ row'[Receiver][u].completion = row[Receiver][u].completion
        /\ row[Receiver][u].handle \in secrets[Receiver][u] =>
              row'[Receiver][u].handle \in secrets'[Receiver][u]

LEMMA OwesStep ==
    ASSUME InductiveInv, NEW u \in Transfers, EndsStay(u), OwedInv(u), KeepsOwing(u)
    PROVE  Owes(u)'
<1> SUFFICES ASSUME ReceiverState(u)' = "completed", SenderState(u)' \in Resumable, saved'[Receiver]
             PROVE  /\ row'[Receiver][u].completion
                    /\ row'[Receiver][u].handle \in secrets'[Receiver][u]
  BY DEF Owes
<1>1. ReceiverState(u) \in {"completed", "transferring"} /\ SenderState(u) \in Resumable
  BY DEF EndsStay
<1>2. row[Receiver][u].handle \in secrets[Receiver][u]
  BY <1>1 DEF KeepsOwing, OwedInv, Owes, InductiveInv, CustodyInv, ReceiverState, Resumable, Devices
<1>3. ReceiverState(u) = "completed" => row[Receiver][u].completion
  BY <1>1 DEF KeepsOwing, OwedInv, Owes
<1> QED BY <1>2, <1>3 DEF KeepsOwing

\* A step that leaves the receiver's stops of u alone and acknowledges nothing.
LEMMA OwedStep ==
    ASSUME InductiveInv, NEW u \in Transfers, EndsStay(u), OwedInv(u), KeepsOwing(u),
           job'[Receiver][u] = job[Receiver][u], saved'[Receiver] = saved[Receiver],
           Recorded(u) \in net' => Recorded(u) \in net \/ SenderState(u)' = "completed"
    PROVE  OwedInv(u)'
<1>1. Owes(u)'
  BY OwesStep
<1>2. Recorded(u)' = Recorded(u)
  BY DEF Recorded, Msg
<1> QED BY <1>1, <1>2 DEF OwedInv, StopsInv, EndsStay

\* The same of a receive's record that a step leaves alone.
LEMMA StillOwing ==
    ASSUME NEW u \in Transfers, saved'[Receiver] = saved[Receiver],
           row'[Receiver][u] = row[Receiver][u],
           secrets'[Receiver][u] = secrets[Receiver][u]
    PROVE  KeepsOwing(u)
  BY DEF KeepsOwing, ReceiverState

\* No step of the sending device touches what is owed or cancels at itself.
LEMMA SenderAloneOwes ==
    ASSUME InductiveInv, SenderAlone
    PROVE  /\ (\A u \in Transfers : EndsStay(u)) /\ OwingInv => OwingInv'
           /\ QuietInv => QuietInv'
<1>1. ASSUME \A u \in Transfers : EndsStay(u), OwingInv, NEW u \in Transfers
      PROVE  OwedInv(u)'
  <2>1. Recorded(u) \in net' => Recorded(u) \in net \/ SenderState(u)' = "completed"
    <3>1. Recorded(u).kind = "completion_reply" /\ Recorded(u).arg = "recorded" /\ Recorded(u).t = u
      BY DEF Recorded, Msg
    <3> QED BY <3>1 DEF SenderAlone, Honest
  <2>2. KeepsOwing(u)
    BY StillOwing DEF SenderAlone, ReceiverStill
  <2> QED BY <1>1, <2>1, <2>2, OwedStep DEF SenderAlone, ReceiverStill, OwingInv
<1>2. ASSUME QuietInv PROVE QuietInv'
  <2>1. \A m \in net' : m.kind = "cancel" => m.to = Receiver
    BY <1>2 DEF QuietInv, SenderAlone, Honest
  <2>2. ~CancelArriving
    BY <1>2 DEF QuietInv, CancelArriving, Sender, Receiver
  <2> QED BY <1>2, <2>1, <2>2 DEF QuietInv, SenderAlone, ReceiverStill, WireKept
<1> QED BY <1>1, <1>2 DEF OwingInv

-------------------------------------------------------------------------------
(* The steps of the receiving end.                                         *)

\* A record that a transaction leaves completed still owes its acknowledgement.
StaysOwed(r, q) ==
    q.state = "completed" =>
        /\ q.handle = r.handle
        /\ q.completion \/ (r.state = "completed" /\ q.completion = r.completion)

LEMMA OwingOps ==
    ASSUME NEW r \in Records
    PROVE  /\ StaysOwed(r, PersistIntent(r)) /\ StaysOwed(r, ClearIntent(r))
           /\ \A from : \A to \in States \ {"completed"} : StaysOwed(r, SetState(r, from, to))
           /\ \A h \in Handles : StaysOwed(r, PersistReceiver(r, h))
           /\ StaysOwed(r, CompleteReceiver(r))
           /\ StaysOwed(r, TransitionTerminal(r, "cancelled", FALSE))
<1> USE DEF StaysOwed, Records
<1>1. StaysOwed(r, PersistIntent(r)) /\ StaysOwed(r, ClearIntent(r))
  BY DEF PersistIntent, ClearIntent
<1>2. \A from : \A to \in States \ {"completed"} : StaysOwed(r, SetState(r, from, to))
  BY DEF SetState
<1>3. \A h \in Handles : StaysOwed(r, PersistReceiver(r, h))
  BY DEF PersistReceiver
<1>4. StaysOwed(r, CompleteReceiver(r))
  BY DEF CompleteReceiver
<1>5. StaysOwed(r, TransitionTerminal(r, "cancelled", FALSE))
  BY DEF TransitionTerminal, DeniedBy
<1> HIDE DEF StaysOwed
<1> QED BY <1>1, <1>2, <1>3, <1>4, <1>5

\* A transaction on one of the receiver's rows.
LEMMA RowOwing ==
    ASSUME TypeOK, NEW t \in Transfers, NEW q, SetRow(Receiver, t, q),
           saved' = saved, secrets' = secrets,
           StaysOwed(row[Receiver][t], q) \/ SenderState(t)' \notin Resumable
    PROVE  \A u \in Transfers : KeepsOwing(u)
<1>1. \A u \in Transfers \ {t} : KeepsOwing(u)
  BY RowAt, StillOwing DEF Devices
<1>2. row'[Receiver][t] = q
  BY RowAt DEF Devices
<1>3. KeepsOwing(t)
  BY <1>2 DEF KeepsOwing, StaysOwed, ReceiverState
<1> QED BY <1>1, <1>3

\* The receiving end starts no stop, sends no cancellation and acknowledges
\* nothing, and it keeps what it owes.
ReceiverFair ==
    /\ saved' = saved /\ job' = job
    /\ \A m \in net' : m \in net \/ m.kind \notin {"cancel", "completion_reply"}
    /\ \A u \in Transfers : KeepsOwing(u)

\* Every step of the receiving end does so: an outbox entry is removed only on
\* an acknowledgement, which the sender sends only once it has completed, and
\* rolling back a delivery removes no secret a record names.
LEMMA ReceiversOwe ==
    ASSUME TypeOK, InductiveInv, OwingInv, NEW t \in Transfers, ReceiverStep(t)
    PROVE  ReceiverFair
<1> USE DEF senderVars, inboxVars
<1>0. /\ Sender \in Devices /\ Receiver \in Devices /\ Sender # Receiver
      /\ row[Receiver][t] \in Records
  BY DEF Devices, Sender, Receiver, TypeOK
<1>r. ASSUME NEW kind, NEW arg, NEW m \in Reply(kind, Sender, t, arg)
      PROVE  m.kind = kind
  BY <1>r DEF Reply, Msg
<1>c. CompletionMsg(t).kind = "completion"
  BY DEF CompletionMsg, Msg
<1>s. ASSUME saved' = saved, row' = row, secrets' = secrets
      PROVE  \A u \in Transfers : KeepsOwing(u)
  BY <1>s, StillOwing
<1>a. ASSUME Recorded(t) \in net, \E q : SetRow(Receiver, t, q)
      PROVE  SenderState(t)' \notin Resumable
  <2>1. SenderState(t)' = SenderState(t)
    BY <1>0, <1>a, RowAt DEF SenderState
  <2> QED BY <1>a, <2>1 DEF OwingInv, OwedInv, Resumable
<1>1. CASE OfferRefused(t)
  BY <1>r, <1>s, <1>1 DEF OfferRefused, InboxStep, Answer, ReceiverFair
<1>2. CASE OfferPending(t)
  BY <1>r, <1>s, <1>2 DEF OfferPending, InboxStep, ReceiverFair
<1>3. CASE OfferDecidedYes(t)
  BY <1>r, <1>s, <1>3 DEF OfferDecidedYes, InboxStep, ReceiverFair
<1>4. CASE OfferDecidedNo(t)
  BY <1>r, <1>s, <1>4 DEF OfferDecidedNo, InboxStep, ReceiverFair
<1>5. CASE OfferTimesOut(t)
  BY <1>r, <1>s, <1>5 DEF OfferTimesOut, InboxStep, ReceiverFair
<1>6. CASE RespondAccept(t)
  BY <1>r, <1>s, <1>6 DEF RespondAccept, InboxStep, ReceiverFair
<1>7. CASE PersistConsent(t)
  BY <1>0, <1>7, OwingOps, RowOwing DEF PersistConsent, InboxStep, ReceiverFair
<1>8. CASE AcceptLive(t)
  BY <1>r, <1>s, <1>8 DEF AcceptLive, InboxStep, ReceiverFair
<1>9. CASE RespondDecline(t)
  BY <1>0, <1>9, OwingOps, RowOwing DEF RespondDecline, InboxStep, ReceiverFair
<1>10. CASE AuthorizationReceived(t)
  BY <1>r, <1>s, <1>10 DEF AuthorizationReceived, InboxStep, ReceiverFair
<1>11. CASE AuthorizationTimesOut(t)
  BY <1>r, <1>s, <1>11 DEF AuthorizationTimesOut, InboxStep, ReceiverFair
<1>12. CASE AuthorizationKnown(t)
  <2>1. \E arg : net' = (net \ {AuthMsg(t)}) \cup Reply("authorization_reply", Sender, t, arg)
    BY <1>12 DEF AuthorizationKnown, Answer
  <2> QED BY <1>r, <1>s, <1>12, <2>1 DEF AuthorizationKnown, AuthorizationStep, ReceiverFair
<1>13. CASE AuthorizationProtect(t)
  <2>1. \A u \in Transfers : KeepsOwing(u)
    BY <1>0, <1>13 DEF AuthorizationProtect, AuthorizationStep, KeepsOwing, ReceiverState, TypeOK
  <2> QED BY <1>13, <2>1 DEF AuthorizationProtect, AuthorizationStep, ReceiverFair
<1>14. CASE \E h \in Handles : AuthorizationCommit(t, h)
  <2>0. PICK h \in Handles : AuthorizationCommit(t, h)
    BY <1>14
  <2>1. \A u \in Transfers : KeepsOwing(u)
    BY <1>0, <2>0, OwingOps, RowOwing DEF AuthorizationCommit, AuthorizationStep
  <2> QED BY <1>r, <2>0, <2>1 DEF AuthorizationCommit, AuthorizationStep, ReceiverFair
<1>15. CASE \E h \in Handles : AuthorizationRollback(t, h)
  <2>0. PICK h \in Handles : AuthorizationRollback(t, h)
    BY <1>15
  <2>1. row[Receiver][t].handle # h
    BY <2>0 DEF AuthorizationRollback, InductiveInv, CustodyInv
  <2>2. \A u \in Transfers : KeepsOwing(u)
    BY <1>0, <2>0, <2>1 DEF AuthorizationRollback, AuthorizationStep, KeepsOwing, ReceiverState, TypeOK
  <2> QED BY <1>r, <2>0, <2>2 DEF AuthorizationRollback, AuthorizationStep, ReceiverFair
<1>16. CASE ReceiveStart(t)
  BY <1>r, <1>s, <1>16 DEF ReceiveStart, RunStep, ReceiverFair
<1>17. CASE ReceiveConnecting(t)
  <2>1. PICK q : SetRow(Receiver, t, q) /\ StaysOwed(row[Receiver][t], q)
    <3>1. StaysOwed(row[Receiver][t], row[Receiver][t])
      BY DEF StaysOwed
    <3> QED BY <1>0, <1>17, <3>1, OwingOps DEF ReceiveConnecting, States, Resumable
  <2> QED BY <1>17, <2>1, RowOwing DEF ReceiveConnecting, RunStep, ReceiverFair
<1>18. CASE ReceiveTransferring(t)
  <2>1. PICK q : SetRow(Receiver, t, q) /\ StaysOwed(row[Receiver][t], q)
    BY <1>0, <1>18, OwingOps DEF ReceiveTransferring, States, Resumable
  <2> QED BY <1>18, <2>1, RowOwing DEF ReceiveTransferring, RunStep, ReceiverFair
<1>19. CASE PayloadArrives(t)
  BY <1>r, <1>s, <1>19 DEF PayloadArrives, RunStep, ReceiverFair
<1>20. CASE PayloadFails(t)
  <2>1. PICK q : SetRow(Receiver, t, q) /\ StaysOwed(row[Receiver][t], q)
    <3>1. StaysOwed(row[Receiver][t], row[Receiver][t])
      BY DEF StaysOwed
    <3> QED BY <1>0, <1>20, <3>1, OwingOps DEF PayloadFails, States, Resumable
  <2> QED BY <1>20, <2>1, RowOwing DEF PayloadFails, RunStep, ReceiverFair
<1>21. CASE ReceiveComplete(t)
  <2>1. \A u \in Transfers : KeepsOwing(u)
    BY <1>0, <1>21, OwingOps, RowOwing DEF ReceiveComplete, RunStep
  <2>2. \A m \in net' : m \in net \/ m = CompletionMsg(t)
    BY <1>21 DEF ReceiveComplete, CallCompletion, StaleReplies
  <2> QED BY <1>21, <1>c, <2>1, <2>2 DEF ReceiveComplete, RunStep, ReceiverFair
<1>22. CASE ReceiveAcknowledged(t)
  <2>1. \A u \in Transfers : KeepsOwing(u)
    BY <1>0, <1>a, <1>22, RowOwing DEF ReceiveAcknowledged, ClearCompletion, RunStep
  <2> QED BY <1>22, <2>1 DEF ReceiveAcknowledged, RunStep, ReceiverFair
<1>23. CASE ReceiveUnacknowledged(t)
  BY <1>r, <1>s, <1>23 DEF ReceiveUnacknowledged, RunStep, StaleReplies, ReceiverFair
<1>24. CASE ReceiveEnd(t)
  BY <1>r, <1>s, <1>24 DEF ReceiveEnd, RunStep, ReceiverFair
<1>25. CASE RetryCompletion(t)
  <2>1. \A m \in net' : m \in net \/ m = CompletionMsg(t)
    BY <1>25 DEF RetryCompletion, CallCompletion, StaleReplies
  <2> QED BY <1>c, <1>s, <1>25, <2>1 DEF RetryCompletion, RetryStep, ReceiverFair
<1>26. CASE RetryAcknowledged(t)
  <2>1. \A u \in Transfers : KeepsOwing(u)
    BY <1>0, <1>a, <1>26, RowOwing DEF RetryAcknowledged, ClearCompletion, RetryStep
  <2> QED BY <1>26, <2>1 DEF RetryAcknowledged, RetryStep, ReceiverFair
<1>27. CASE RetryDeferred(t)
  BY <1>r, <1>s, <1>27 DEF RetryDeferred, RetryStep, StaleReplies, ReceiverFair
<1>28. CASE \E arg \in {"withdrawn", "cancelled", "deleted"} : CancelPendingOffer(t, arg)
  BY <1>0, <1>28, OwingOps, RowOwing DEF CancelPendingOffer, CancelArrives, ReceiverFair
<1> QED
  BY <1>1, <1>2, <1>3, <1>4, <1>5, <1>6, <1>7, <1>8, <1>9, <1>10, <1>11, <1>12, <1>13, <1>14, <1>15, <1>16, <1>17, <1>18, <1>19, <1>20, <1>21, <1>22, <1>23, <1>24, <1>25, <1>26, <1>27, <1>28 DEF ReceiverStep

\* So the receiving end keeps both invariants.
LEMMA ReceiverFairOwes ==
    ASSUME InductiveInv, ReceiverFair
    PROVE  /\ (\A u \in Transfers : EndsStay(u)) /\ OwingInv => OwingInv'
           /\ QuietInv => QuietInv'
<1>1. ASSUME \A u \in Transfers : EndsStay(u), OwingInv, NEW u \in Transfers
      PROVE  OwedInv(u)'
  <2>1. Recorded(u).kind = "completion_reply"
    BY DEF Recorded, Msg
  <2> QED BY <1>1, <2>1, OwedStep DEF ReceiverFair, OwingInv
<1>2. ASSUME QuietInv PROVE QuietInv'
  BY <1>2 DEF QuietInv, ReceiverFair
<1> QED BY <1>1, <1>2 DEF OwingInv

-------------------------------------------------------------------------------
(* Stops at the receiving device.                                          *)

\* A step of a stop of t at the receiver leaves other transfers alone.
StopOf(t) ==
    /\ saved' = saved
    /\ row' = row \/ \E q : SetRow(Receiver, t, q)
    /\ job' = job \/ \E w \in Workers : \E j : SetJob(Receiver, t, w, j)
    /\ \A u \in Transfers \ {t} : secrets'[Receiver][u] = secrets[Receiver][u]
    /\ \A m \in net' : m \in net \/ m.kind = "cancel"

LEMMA StopOwes ==
    ASSUME TypeOK, InductiveInv, OwingInv, \A u \in Transfers : EndsStay(u),
           NEW t \in Transfers, StopOf(t), KeepsOwing(t), StopsInv(t)'
    PROVE  OwingInv'
<1>0. Receiver \in Devices
  BY DEF Devices
<1>1. \A u \in Transfers : Recorded(u)' = Recorded(u) /\ Recorded(u).kind = "completion_reply"
  BY DEF Recorded, Msg
<1>2. \A u \in Transfers : Recorded(u) \in net' => Recorded(u) \in net
  BY <1>1 DEF StopOf
<1>3. ASSUME NEW u \in Transfers, u # t PROVE OwedInv(u)'
  <2>1. row'[Receiver][u] = row[Receiver][u]
    BY <1>0, <1>3, RowAt DEF StopOf
  <2>2. job'[Receiver][u] = job[Receiver][u]
    BY <1>0, <1>3, JobAt DEF StopOf
  <2>3. KeepsOwing(u)
    BY <1>3, <2>1, StillOwing DEF StopOf
  <2> QED BY <1>2, <2>2, <2>3, OwedStep DEF StopOf, OwingInv
<1>4. OwedInv(t)'
  <2>1. Owes(t)'
    BY OwesStep DEF OwingInv
  <2> QED BY <1>1, <1>2, <2>1 DEF OwedInv, OwingInv, EndsStay
<1> QED BY <1>3, <1>4 DEF OwingInv

\* A user who may delete but not cancel a receive keeps what it owes through
\* every stop: only a cancel drops the acknowledgement of a completed receive.
LEMMA ReceivingStopsOwe ==
    ASSUME TypeOK, InductiveInv, OwingInv, \A u \in Transfers : EndsStay(u),
           <<Receiver, "cancel">> \notin Commands,
           NEW t \in Transfers, DeviceStep(Receiver, t)
    PROVE  OwingInv'
<1> USE DEF senderVars, receiverVars, inboxVars
<1> DEFINE r == row[Receiver][t]
<1>0. /\ Sender \in Devices /\ Receiver \in Devices /\ Sender # Receiver /\ r \in Records
      /\ "local" \in Workers /\ "wire" \in Workers /\ "forget" \in Workers
      /\ StopsInv(t)
  BY DEF Devices, Sender, Receiver, Workers, TypeOK, OwingInv, OwedInv
<1>n. \A j : \A m \in Notices(Receiver, t, j) : m.kind = "cancel"
  BY DEF Notices, Msg
<1>c. \A arg : Msg("cancel", Sender, t, arg).kind = "cancel"
  BY DEF Msg
<1>1. CASE \E c \in {"cancel", "delete"} : TerminateUnknown(Receiver, t, c)
  <2>1. SetRow(Receiver, t, ClearIntent(r)) /\ job' = job /\ StopOf(t) /\ secrets' = secrets
    BY <1>1 DEF TerminateUnknown, CommandStart, StopOf
  <2>2. KeepsOwing(t)
    BY <1>0, <2>1, OwingOps, RowOwing DEF StopOf
  <2>3. StopsInv(t)'
    BY <1>0, <2>1 DEF StopsInv, StopOf, EndsStay
  <2> QED BY <2>1, <2>2, <2>3, StopOwes
<1>2. CASE \E c \in {"cancel", "delete"} : TerminateAgain(Receiver, t, c)
  <2>1. row' = row /\ job' = job /\ StopOf(t) /\ secrets' = secrets
    BY <1>2, <1>c DEF TerminateAgain, CommandStart, StopOf, Peer
  <2>2. KeepsOwing(t)
    BY <2>1, StillOwing DEF StopOf
  <2>3. StopsInv(t)'
    BY <1>0, <2>1 DEF StopsInv, StopOf, EndsStay
  <2> QED BY <2>1, <2>2, <2>3, StopOwes
<1>3. CASE \E c \in {"cancel", "delete"} : TerminateStart(Receiver, t, c)
  <2>1. SetJob(Receiver, t, "local", Snapshot("delete", "deny", Receiver, t))
    BY <1>3 DEF TerminateStart, CommandStart
  <2>2. row' = row /\ StopOf(t) /\ secrets' = secrets
    BY <1>0, <1>3 DEF TerminateStart, CommandStart, StopOf
  <2>3. KeepsOwing(t)
    BY <2>2, StillOwing DEF StopOf
  <2>4. StopsInv(t)'
    <3>1. /\ job'[Receiver][t]["local"] = Snapshot("delete", "deny", Receiver, t)
          /\ job'[Receiver][t]["wire"] = job[Receiver][t]["wire"]
          /\ job'[Receiver][t]["forget"] = job[Receiver][t]["forget"]
      BY <1>0, <2>1, JobAt
    <3> QED BY <1>0, <2>2, <3>1 DEF StopsInv, StopOf, Snapshot, ReceiverState
  <2> QED BY <2>2, <2>3, <2>4, StopOwes
<1>4. CASE Deny(Receiver, t)
  <2> DEFINE j == job[Receiver][t]["local"]
  <2>1. j.step = "deny" /\ j.kind = "delete" /\ StopOf(t)
    BY <1>0, <1>4 DEF Deny, StopOf, StopsInv
  <2>2. r.state # "absent"
    BY <1>0, <2>1 DEF InductiveInv, JobInv, Known
  <2>3. ReceiverState(t)' = "deleted"
    <3>1. CASE j.state = "deleted"
      BY <1>0, <3>1 DEF StopsInv, EndsStay
    <3>2. CASE j.state # "deleted"
      <4> DEFINE q == TransitionTerminal(r, "deleted", TRUE)
      <4>1. SetRow(Receiver, t, q)
        BY <1>4, <2>1, <3>2 DEF Deny, Target
      <4>2. q.state = "deleted"
        BY <1>0, <2>2 DEF TransitionTerminal, DeniedBy, Records
      <4> HIDE DEF q
      <4>3. row'[Receiver][t] = q
        BY <1>0, <4>1, RowAt
      <4> QED BY <4>2, <4>3 DEF ReceiverState
    <3> QED BY <3>1, <3>2
  <2>4. KeepsOwing(t)
    BY <2>3 DEF KeepsOwing
  <2>5. StopsInv(t)'
    <3>1. PICK b : SetJob(Receiver, t, "local", [j EXCEPT !.step = "cleanup", !.changed = b])
      BY <1>4 DEF Deny
    <3>2. /\ job'[Receiver][t]["local"] = [j EXCEPT !.step = "cleanup", !.changed = b]
          /\ job'[Receiver][t]["wire"] = job[Receiver][t]["wire"]
          /\ job'[Receiver][t]["forget"] = job[Receiver][t]["forget"]
      BY <1>0, <3>1, JobAt
    <3>3. job'[Receiver][t]["local"].kind = "delete"
      BY <1>0, <2>1, <3>2 DEF TypeOK, Jobs
    <3> QED BY <1>0, <2>1, <2>3, <3>2, <3>3 DEF StopsInv, StopOf, EndsStay
  <2> QED BY <2>1, <2>4, <2>5, StopOwes
<1>5. CASE CancelNothing(Receiver, t)
  <2>1. row' = row /\ job' = job /\ StopOf(t) /\ secrets' = secrets
    BY <1>5 DEF CancelNothing, CancelArrives, StopOf
  <2>2. KeepsOwing(t)
    BY <2>1, StillOwing DEF StopOf
  <2>3. StopsInv(t)'
    BY <1>0, <2>1 DEF StopsInv, StopOf, EndsStay
  <2> QED BY <2>1, <2>2, <2>3, StopOwes
<1>6. CASE \E arg \in {"cancelled", "deleted"} : CancelFromPeer(Receiver, t, arg)
  <2>1. SetJob(Receiver, t, "wire", Snapshot("peer", "deny", Receiver, t))
    BY <1>6 DEF CancelFromPeer
  <2>2. row' = row /\ StopOf(t) /\ secrets' = secrets
    BY <1>0, <1>6 DEF CancelFromPeer, CancelArrives, StopOf
  <2>3. KeepsOwing(t)
    BY <2>2, StillOwing DEF StopOf
  <2>4. StopsInv(t)'
    <3>1. /\ job'[Receiver][t]["wire"] = Snapshot("peer", "deny", Receiver, t)
          /\ job'[Receiver][t]["local"] = job[Receiver][t]["local"]
          /\ job'[Receiver][t]["forget"] = job[Receiver][t]["forget"]
      BY <1>0, <2>1, JobAt
    <3> QED BY <1>0, <2>2, <3>1 DEF StopsInv, StopOf, Snapshot, ReceiverState
  <2> QED BY <2>2, <2>3, <2>4, StopOwes
<1>7. CASE DenyFromPeer(Receiver, t)
  <2> DEFINE j == job[Receiver][t]["wire"]
  <2> DEFINE live == j.state \in Preapproval \cup Resumable
  <2> DEFINE q == CASE j.state = "absent" -> ClearIntent(r)
                    [] live -> TransitionTerminal(r, "cancelled", FALSE)
                    [] OTHER -> r
  <2>1. SetRow(Receiver, t, q) /\ secrets' = secrets /\ StopOf(t)
    BY <1>0, <1>7 DEF DenyFromPeer, StopOf
  <2>2. KeepsOwing(t)
    <3>1. StaysOwed(r, r)
      BY DEF StaysOwed
    <3>2. StaysOwed(r, q)
      BY <1>0, <3>1, OwingOps
    <3> QED BY <2>1, <3>2, RowOwing DEF StopOf
  <2>3. \/ job'[Receiver][t]["wire"] = NoJob
        \/ /\ job'[Receiver][t]["wire"] = [j EXCEPT !.step = "cleanup"]
           /\ ReceiverState(t)' \in {"cancelled", "deleted"}
    <3>1. CASE live /\ DeniedBy(r, "cancelled")
      <4>1. q.state = "cancelled"
        <5>1. q = TransitionTerminal(r, "cancelled", FALSE)
          BY <3>1 DEF Preapproval, Resumable
        <5>2. TransitionTerminal(r, "cancelled", FALSE).state = "cancelled"
          BY <1>0, <3>1 DEF TransitionTerminal, Records
        <5> QED BY <5>1, <5>2
      <4>2. row'[Receiver][t] = q
        BY <1>0, <2>1, RowAt
      <4>3. SetJob(Receiver, t, "wire", [j EXCEPT !.step = "cleanup"])
        BY <1>7, <3>1 DEF DenyFromPeer
      <4>4. job'[Receiver][t]["wire"] = [j EXCEPT !.step = "cleanup"]
        BY <1>0, <4>3, JobAt
      <4> QED BY <4>1, <4>2, <4>4 DEF ReceiverState
    <3>2. CASE j.state = "cancelled"
      <4>1. ReceiverState(t)' \in {"cancelled", "deleted"}
        BY <1>0, <3>2 DEF StopsInv, EndsStay
      <4> QED BY <1>0, <1>7, <3>2, <4>1, JobAt DEF DenyFromPeer
    <3>3. CASE ~(live /\ DeniedBy(r, "cancelled")) /\ j.state # "cancelled"
      BY <1>0, <1>7, <3>3, JobAt DEF DenyFromPeer
    <3> QED BY <3>1, <3>2, <3>3
  <2>4. StopsInv(t)'
    <3>1. /\ job'[Receiver][t]["local"] = job[Receiver][t]["local"]
          /\ job'[Receiver][t]["forget"] = job[Receiver][t]["forget"]
      BY <1>0, <1>7, JobAt DEF DenyFromPeer
    <3> QED BY <1>0, <2>1, <2>3, <3>1 DEF StopsInv, StopOf, EndsStay, NoJob
  <2> QED BY <2>1, <2>2, <2>4, StopOwes
<1>8. ASSUME NEW w \in Workers, Cleanup(Receiver, t, w) \/ CleanupClear(Receiver, t, w)
      PROVE  OwingInv'
  <2> DEFINE j == job[Receiver][t][w]
  <2>1. j.step \in {"cleanup", "clear"} /\ StopOf(t)
    <3>1. \A m \in net' : m \in net \/ m.kind = "cancel"
      BY <1>8, <1>n DEF Cleanup, CleanupClear, FinishJob
    <3>2. \A u \in Transfers \ {t} : secrets'[Receiver][u] = secrets[Receiver][u]
      BY <1>0, <1>8 DEF Cleanup, CleanupClear, TypeOK
    <3>3. \E i : SetJob(Receiver, t, w, i)
      BY <1>8 DEF Cleanup, CleanupClear, FinishJob
    <3> QED BY <1>0, <1>8, <3>1, <3>2, <3>3 DEF Cleanup, CleanupClear, StopOf
  <2>2. w \in {"local", "wire"} => ReceiverState(t) \in {"cancelled", "deleted"}
    BY <1>0, <2>1 DEF StopsInv
  <2>3. w = "forget" => ~saved[Receiver]
    BY <1>0, <2>1 DEF StopsInv
  <2>4. KeepsOwing(t)
    BY <2>1, <2>2, <2>3 DEF KeepsOwing, EndsStay, StopOf, Workers
  <2>5. job'[Receiver][t][w] \in {NoJob, [j EXCEPT !.step = "clear"]}
    BY <1>0, <1>8, JobAt DEF Cleanup, CleanupClear, FinishJob
  <2>6. \A v \in Workers \ {w} : job'[Receiver][t][v] = job[Receiver][t][v]
    BY <1>0, <1>8, JobAt DEF Cleanup, CleanupClear, FinishJob
  <2>7. /\ job'[Receiver][t][w].step \in {"idle", "clear"}
        /\ job'[Receiver][t][w].state \in {"absent", j.state}
        /\ job'[Receiver][t][w].step # "idle" => job'[Receiver][t][w].kind = j.kind
    <3>1. j \in Jobs
      BY <1>0 DEF TypeOK
    <3>2. LET i == [j EXCEPT !.step = "clear"]
          IN  i.step = "clear" /\ i.state = j.state /\ i.kind = j.kind
      BY <3>1 DEF Jobs
    <3>3. NoJob.step = "idle" /\ NoJob.state = "absent"
      BY DEF NoJob
    <3> HIDE DEF j
    <3> QED BY <2>5, <3>2, <3>3
  <2>8. StopsInv(t)'
    BY <1>0, <2>1, <2>2, <2>3, <2>6, <2>7 DEF StopsInv, StopOf, EndsStay, Workers
  <2> QED BY <2>1, <2>4, <2>8, StopOwes
<1> QED BY <1>1, <1>2, <1>3, <1>4, <1>5, <1>6, <1>7, <1>8 DEF DeviceStep

\* Forgetting the sender, a restart and its recovery at the receiving device.
LEMMA ReceivingRuntimeOwes ==
    ASSUME TypeOK, InductiveInv, OwingInv, \A u \in Transfers : EndsStay(u),
           \/ Forget(Receiver) \/ ForgetDeny(Receiver)
           \/ Boot(Receiver) \/ Recover(Receiver) \/ CrashReceiver
    PROVE  OwingInv'
<1> USE DEF senderVars, receiverVars, inboxVars
<1>0. /\ Receiver \in Devices /\ Sender \in Devices /\ Sender # Receiver
      /\ "local" \in Workers /\ "wire" \in Workers /\ "forget" \in Workers
      /\ saved[Receiver] \in BOOLEAN
  BY DEF Devices, Sender, Receiver, Workers, TypeOK
<1> SUFFICES ASSUME NEW u \in Transfers
             PROVE  OwedInv(u)'
  BY DEF OwingInv
<1>u. OwedInv(u) /\ StopsInv(u) /\ EndsStay(u) /\ row[Receiver][u] \in Records
  BY <1>0 DEF OwingInv, OwedInv, TypeOK
<1>p. Recorded(u)' = Recorded(u)
  BY DEF Recorded, Msg
<1>1. CASE Forget(Receiver)
  <2>1. ~saved'[Receiver] /\ net' = net
    BY <1>0, <1>1 DEF Forget, TypeOK
  <2>2. /\ job'[Receiver][u]["local"] = job[Receiver][u]["local"]
        /\ job'[Receiver][u]["wire"] = job[Receiver][u]["wire"]
    BY <1>0, <1>1 DEF Forget, TypeOK
  <2>3. StopsInv(u)'
    BY <1>u, <2>1, <2>2 DEF StopsInv, EndsStay
  <2> QED BY <1>u, <1>p, <2>1, <2>3 DEF OwedInv, Owes, EndsStay
<1>2. CASE ForgetDeny(Receiver)
  <2>1. saved' = saved /\ ~saved[Receiver] /\ net' = net
    BY <1>2 DEF ForgetDeny, OwingInv, OwedInv, StopsInv
  <2>2. /\ job'[Receiver][u]["local"] = job[Receiver][u]["local"]
        /\ job'[Receiver][u]["wire"] = job[Receiver][u]["wire"]
    BY <1>0, <1>2 DEF ForgetDeny, TypeOK
  <2>3. StopsInv(u)'
    BY <1>u, <2>1, <2>2 DEF StopsInv, EndsStay
  <2> QED BY <1>u, <1>p, <2>1, <2>3 DEF OwedInv, Owes, EndsStay
<1>3. CASE Boot(Receiver)
  <2>1. secrets'[Receiver][u] = secrets[Receiver][u] \cap {row[Receiver][u].handle}
    BY <1>0, <1>3 DEF Boot, TypeOK
  <2>2. KeepsOwing(u)
    BY <1>3, <2>1 DEF Boot, KeepsOwing, ReceiverState
  <2> QED BY <1>3, <1>u, <2>2, OwedStep DEF Boot
<1>4. CASE Recover(Receiver)
  <2> DEFINE r == row[Receiver][u]
  <2>1. /\ row'[Receiver][u] = Recovered(Receiver, r)
        /\ secrets'[Receiver][u] = secrets[Receiver][u] \ ({r.handle} \ {Recovered(Receiver, r).handle})
    BY <1>0, <1>4 DEF Recover, TypeOK
  <2>2. saved[Receiver] /\ Recovered(Receiver, r).state = "completed" =>
           r.state = "completed" /\ Recovered(Receiver, r) = r
    <3>1. RecoverInFlight(r).state = "completed" => r.state = "completed" /\ RecoverInFlight(r) = r
      BY <1>u DEF RecoverInFlight, Records, Preapproval
    <3>2. ClearAuthorization(RecoverInFlight(r)).state = RecoverInFlight(r).state
      BY <1>u, RecoveredType, StoreTypes DEF ClearAuthorization, Records
    <3> QED BY <3>1, <3>2 DEF Recovered
  <2>3. KeepsOwing(u)
    BY <1>4, <2>1, <2>2 DEF Recover, KeepsOwing, ReceiverState
  <2> QED BY <1>4, <1>u, <2>3, OwedStep DEF Recover
<1>5. CASE CrashReceiver
  <2>1. row' = row /\ secrets' = secrets /\ saved' = saved /\ net' \subseteq net
    BY <1>5 DEF CrashReceiver, Crash
  <2>2. \A w \in Workers : job'[Receiver][u][w] = NoJob
    BY <1>0, <1>5 DEF CrashReceiver, Crash, TypeOK
  <2>3. StopsInv(u)'
    BY <1>0, <2>2 DEF StopsInv, NoJob
  <2>4. Owes(u)'
    BY <1>u, <2>1, StillOwing, OwesStep
  <2> QED BY <1>u, <1>p, <2>1, <2>3, <2>4 DEF OwedInv, EndsStay
<1> QED BY <1>1, <1>2, <1>3, <1>4, <1>5

\* Every step keeps what is owed.
LEMMA OwingStep ==
    ASSUME TypeOK, TypeOK', InductiveInv, ShownInv, OwingInv, [Next]_vars,
           <<Receiver, "cancel">> \notin Commands
    PROVE  OwingInv'
<1>0. \A u \in Transfers : EndsStay(u)
  BY EndedStays
<1>1. CASE UNCHANGED vars
  BY <1>1 DEF vars, deviceVars, OwingInv, OwedInv, StopsInv, Owes, Recorded, Msg, SenderState, ReceiverState
<1>2. ASSUME NEW t \in Transfers, SenderStep(t) \/ DeviceStep(Sender, t) PROVE OwingInv'
  BY <1>0, <1>2, SendersAreHonest, SendingStopsAreHonest, SenderAloneOwes
<1>3. ASSUME NEW t \in Transfers, ReceiverStep(t) PROVE OwingInv'
  BY <1>0, <1>3, ReceiversOwe, ReceiverFairOwes
<1>4. ASSUME NEW t \in Transfers, DeviceStep(Receiver, t) PROVE OwingInv'
  BY <1>0, <1>4, ReceivingStopsOwe
<1>5. CASE \/ \E t \in Transfers : RestoreAccess(t) \/ RestoreFails(t)
           \/ Forget(Sender) \/ ForgetDeny(Sender) \/ Boot(Sender) \/ Recover(Sender)
           \/ CrashSender \/ Online \/ \E m \in net : Lose(m)
  BY <1>0, <1>5, RuntimesAreHonest, SenderAloneOwes
<1>6. CASE \/ Forget(Receiver) \/ ForgetDeny(Receiver)
           \/ Boot(Receiver) \/ Recover(Receiver) \/ CrashReceiver
  BY <1>0, <1>6, ReceivingRuntimeOwes
<1> QED BY <1>1, <1>2, <1>3, <1>4, <1>5, <1>6 DEF Next, Devices

LEMMA InitialOwing == Init => OwingInv /\ QuietInv
<1>1. Sender \in Devices /\ Receiver \in Devices /\ {"local", "wire", "forget"} \subseteq Workers
  BY DEF Devices, Workers
<1>2. Init => OwingInv
  BY <1>1 DEF Init, OwingInv, OwedInv, StopsInv, Owes, NoRecord, NoJob, ReceiverState
<1>3. Init => QuietInv
  BY <1>1 DEF Init, QuietInv, NoJob
<1> QED BY <1>2, <1>3

(***************************************************************************)
(* A completed receive stays able to acknowledge itself until the sender   *)
(* knows: its outbox entry and its secret outlive lost replies, crashes of *)
(* either device, the sender's cancellations, stops and forgets, for any   *)
(* number of transfers.  The hypothesis is needed: transition_terminal     *)
(* with clear_authorization deletes the outbox entry of a completed row    *)
(* that a local cancel leaves completed (store_outbox.rs).                 *)
(***************************************************************************)
THEOREM CompletionStaysOwed ==
    ASSUME <<Receiver, "cancel">> \notin Commands
    PROVE  Spec => []CompletionStillOwed
<1>1. TypeOK /\ TypeOK' /\ InductiveInv /\ ShownInv /\ OwingInv /\ [Next]_vars => OwingInv'
  BY OwingStep
<1>2. OwingInv => CompletionStillOwed
  BY DEF OwingInv, OwedInv, Owes, CompletionStillOwed
<1> QED BY <1>1, <1>2, InitialOwing, ShownInductive, PTL DEF Spec

-------------------------------------------------------------------------------
(* Access without a hypothesis about the run.                              *)

\* A receiver whose user neither cancels nor deletes sends no cancellation.
LEMMA ReceivingStopsAreQuiet ==
    ASSUME TypeOK, QuietInv, NEW t \in Transfers, DeviceStep(Receiver, t),
           <<Receiver, "cancel">> \notin Commands, <<Receiver, "delete">> \notin Commands
    PROVE  QuietInv'
<1> USE DEF senderVars, receiverVars, inboxVars
<1>0. /\ Sender \in Devices /\ Receiver \in Devices /\ Sender # Receiver
      /\ "local" \in Workers /\ "wire" \in Workers /\ "forget" \in Workers
  BY DEF Devices, Sender, Receiver, Workers
<1>1. ASSUME net' \subseteq net, NEW w \in Workers \ {"local"}, NEW j,
             job' = job \/ SetJob(Receiver, t, w, j),
             j.kind \in {"none", IF w = "wire" THEN "peer" ELSE "forget"}
      PROVE  QuietInv'
  <2>1. \A u \in Transfers : /\ job'[Sender][u] = job[Sender][u]
                             /\ job'[Receiver][u]["local"] = job[Receiver][u]["local"]
    BY <1>0, <1>1, JobAt
  <2>2. \A u \in Transfers, v \in Workers :
           \/ job'[Receiver][u][v] = job[Receiver][u][v]
           \/ v = w /\ job'[Receiver][u][v] = j
    BY <1>0, <1>1, JobAt
  <2> QED BY <1>0, <1>1, <2>1, <2>2 DEF QuietInv, Workers
<1>2. ~ \E c \in {"cancel", "delete"} :
           TerminateUnknown(Receiver, t, c) \/ TerminateAgain(Receiver, t, c) \/ TerminateStart(Receiver, t, c)
  BY DEF TerminateUnknown, TerminateAgain, TerminateStart, CommandStart
<1>3. ~Deny(Receiver, t)
  BY DEF Deny, QuietInv
<1>4. CASE CancelNothing(Receiver, t)
  BY <1>4 DEF CancelNothing, CancelArrives, QuietInv
<1>5. CASE \E arg \in {"cancelled", "deleted"} : CancelFromPeer(Receiver, t, arg)
  <2> DEFINE j == Snapshot("peer", "deny", Receiver, t)
  <2>1. j.kind = "peer"
    BY DEF Snapshot
  <2>2. net' \subseteq net /\ SetJob(Receiver, t, "wire", j)
    BY <1>5 DEF CancelFromPeer, CancelArrives
  <2> HIDE DEF j
  <2> QED BY <1>0, <1>1, <2>1, <2>2
<1>6. CASE DenyFromPeer(Receiver, t)
  <2>1. PICK j : SetJob(Receiver, t, "wire", j) /\ j.kind \in {"none", "peer"}
    <3> DEFINE k == job[Receiver][t]["wire"]
    <3>1. k \in Jobs /\ k.kind \in {"none", "peer"}
      BY <1>0 DEF TypeOK, QuietInv
    <3>2. [k EXCEPT !.step = "cleanup"].kind = k.kind /\ NoJob.kind = "none"
      BY <3>1 DEF Jobs, NoJob
    <3> QED BY <1>6, <3>1, <3>2 DEF DenyFromPeer
  <2> QED BY <1>0, <1>1, <1>6, <2>1 DEF DenyFromPeer
<1>7. ASSUME NEW w \in Workers, Cleanup(Receiver, t, w) \/ CleanupClear(Receiver, t, w)
      PROVE  QuietInv'
  <2> DEFINE k == job[Receiver][t][w]
  <2>1. w # "local" /\ k \in Jobs /\ k.kind \in {"none", IF w = "wire" THEN "peer" ELSE "forget"}
    BY <1>0, <1>7 DEF Cleanup, CleanupClear, QuietInv, TypeOK, Workers
  <2>2. Notices(Receiver, t, k) = {}
    BY <2>1 DEF Notices
  <2>3. net' = net
    BY <1>7, <2>2 DEF Cleanup, CleanupClear, FinishJob
  <2>4. [k EXCEPT !.step = "clear"].kind = k.kind /\ NoJob.kind = "none"
    BY <2>1 DEF Jobs, NoJob
  <2>5. PICK j : SetJob(Receiver, t, w, j) /\ j.kind \in {"none", k.kind}
    BY <1>7, <2>4 DEF Cleanup, CleanupClear, FinishJob
  <2> QED BY <1>1, <2>1, <2>3, <2>5
<1> QED BY <1>2, <1>3, <1>4, <1>5, <1>6, <1>7 DEF DeviceStep

LEMMA ReceivingRuntimeIsQuiet ==
    ASSUME TypeOK, QuietInv,
           \/ Forget(Receiver) \/ ForgetDeny(Receiver)
           \/ Boot(Receiver) \/ Recover(Receiver) \/ CrashReceiver
    PROVE  QuietInv'
<1>0. /\ Receiver \in Devices /\ Sender \in Devices /\ Sender # Receiver
      /\ "local" \in Workers /\ "wire" \in Workers /\ "forget" \in Workers
  BY DEF Devices, Sender, Receiver, Workers
<1>1. CASE Boot(Receiver) \/ Recover(Receiver)
  BY <1>1 DEF Boot, Recover, QuietInv
<1>2. CASE CrashReceiver
  <2>1. \A u \in Transfers : job'[Sender][u] = job[Sender][u]
    BY <1>0, <1>2 DEF CrashReceiver, Crash, TypeOK
  <2>2. \A u \in Transfers, w \in Workers : job'[Receiver][u][w] = NoJob
    BY <1>0, <1>2 DEF CrashReceiver, Crash, TypeOK
  <2>3. net' \subseteq net
    BY <1>2 DEF CrashReceiver, Crash
  <2> QED BY <1>0, <2>1, <2>2, <2>3 DEF QuietInv, NoJob
<1>3. ASSUME net' = net, \A u \in Transfers :
                /\ job'[Sender][u] = job[Sender][u]
                /\ job'[Receiver][u]["local"] = job[Receiver][u]["local"]
                /\ job'[Receiver][u]["wire"] = job[Receiver][u]["wire"]
                /\ job'[Receiver][u]["forget"].kind \in {"none", "forget"}
      PROVE  QuietInv'
  BY <1>3 DEF QuietInv
<1>4. CASE Forget(Receiver)
  <2>1. \A u \in Transfers :
           /\ job'[Sender][u] = job[Sender][u]
           /\ job'[Receiver][u]["local"] = job[Receiver][u]["local"]
           /\ job'[Receiver][u]["wire"] = job[Receiver][u]["wire"]
           /\ job'[Receiver][u]["forget"] = Snapshot("forget", "deny", Receiver, u)
    BY <1>0, <1>4 DEF Forget, TypeOK
  <2>2. \A u \in Transfers : Snapshot("forget", "deny", Receiver, u).kind = "forget"
    BY DEF Snapshot
  <2> QED BY <1>3, <1>4, <2>1, <2>2 DEF Forget
<1>5. CASE ForgetDeny(Receiver)
  <2>1. \A u \in Transfers :
           /\ job'[Sender][u] = job[Sender][u]
           /\ job'[Receiver][u]["local"] = job[Receiver][u]["local"]
           /\ job'[Receiver][u]["wire"] = job[Receiver][u]["wire"]
           /\ job'[Receiver][u]["forget"] = ForgottenJob(job[Receiver][u]["forget"])
    BY <1>0, <1>5 DEF ForgetDeny, TypeOK
  <2>2. \A u \in Transfers : ForgottenJob(job[Receiver][u]["forget"]).kind \in {"none", "forget"}
    BY <1>0 DEF ForgottenJob, NoJob, QuietInv, TypeOK, Jobs
  <2> QED BY <1>3, <1>5, <2>1, <2>2 DEF ForgetDeny
<1> QED BY <1>1, <1>2, <1>3, <1>4, <1>5

LEMMA QuietStep ==
    ASSUME TypeOK, TypeOK', InductiveInv, QuietInv, OwingInv, [Next]_vars,
           <<Receiver, "cancel">> \notin Commands, <<Receiver, "delete">> \notin Commands
    PROVE  QuietInv'
<1>1. CASE UNCHANGED vars
  BY <1>1 DEF vars, deviceVars, QuietInv
<1>2. ASSUME NEW t \in Transfers, SenderStep(t) \/ DeviceStep(Sender, t) PROVE QuietInv'
  BY <1>2, SendersAreHonest, SendingStopsAreHonest, SenderAloneOwes
<1>3. ASSUME NEW t \in Transfers, ReceiverStep(t) PROVE QuietInv'
  BY <1>3, ReceiversOwe, ReceiverFairOwes
<1>4. ASSUME NEW t \in Transfers, DeviceStep(Receiver, t) PROVE QuietInv'
  BY <1>4, ReceivingStopsAreQuiet
<1>5. CASE \/ \E t \in Transfers : RestoreAccess(t) \/ RestoreFails(t)
           \/ Forget(Sender) \/ ForgetDeny(Sender) \/ Boot(Sender) \/ Recover(Sender)
           \/ CrashSender \/ Online \/ \E m \in net : Lose(m)
  BY <1>5, RuntimesAreHonest, SenderAloneOwes
<1>6. CASE \/ Forget(Receiver) \/ ForgetDeny(Receiver)
           \/ Boot(Receiver) \/ Recover(Receiver) \/ CrashReceiver
  BY <1>6, ReceivingRuntimeIsQuiet
<1> QED BY <1>1, <1>2, <1>3, <1>4, <1>5, <1>6 DEF Next, Devices

(***************************************************************************)
(* A sender serves content only for a transfer it may still run, through   *)
(* crashes and restarts, its own commands and forgets at either end, as    *)
(* long as no cancellation can come from the receiver: one that the router *)
(* answers while startup still restores access can be overtaken by it.     *)
(***************************************************************************)
THEOREM AccessEndsThroughRestarts ==
    ASSUME <<Receiver, "cancel">> \notin Commands, <<Receiver, "delete">> \notin Commands
    PROVE  Spec => []AccessOnlyWhileLive
<1>1. TypeOK /\ TypeOK' /\ InductiveInv /\ ShownInv /\ OwingInv /\ QuietInv /\ [Next]_vars
         => OwingInv' /\ QuietInv'
  BY OwingStep, QuietStep
<1>2. QuietInv => RestoresUndisturbed
  BY DEF QuietInv, RestoresUndisturbed
<1> QED BY <1>1, <1>2, InitialOwing, ShownInductive, AccessEndsWithTransfer, PTL DEF Spec

\* Only a crash takes a running device down.
LEMMA StaysUp ==
    ASSUME TypeOK, MaxCrashes = 0, \A d \in Devices : up[d] = "up", [Next]_vars
    PROVE  up' = up
<1> USE DEF deviceVars, senderVars, receiverVars, inboxVars
<1>1. ASSUME NEW t \in Transfers, SenderStep(t) PROVE up' = up
  BY <1>1 DEF SenderStep, Negotiate, Reconcile, CommandStart,
     Prepare, StopBeforeRegistration, RegisterInsert, RegisterOffering, ContactFails, SubmitOffer,
     OfferFails, OfferRejected, OfferAccepted, ProtectAuthorization, ProtectFails, Finalize,
     Rollback, Teardown, StopStart, StopAbandon, DeliverAuthorization, DeliveryStored,
     DeliveryDeferred, ReleasePayload, HandleCompletion
<1>2. ASSUME NEW t \in Transfers, ReceiverStep(t) PROVE up' = up
  BY <1>2 DEF ReceiverStep, InboxStep, AuthorizationStep, RunStep, RetryStep, CancelArrives,
     OfferRefused, OfferPending, OfferDecidedYes, OfferDecidedNo, OfferTimesOut, RespondAccept,
     PersistConsent, AcceptLive, RespondDecline, AuthorizationReceived, AuthorizationTimesOut,
     AuthorizationKnown, AuthorizationProtect, AuthorizationCommit, AuthorizationRollback,
     ReceiveStart, ReceiveConnecting, ReceiveTransferring, PayloadArrives, PayloadFails,
     ReceiveComplete, ReceiveAcknowledged, ReceiveUnacknowledged, ReceiveEnd, RetryCompletion,
     RetryAcknowledged, RetryDeferred, CancelPendingOffer
<1>3. ASSUME NEW t \in Transfers, NEW d \in Devices, DeviceStep(d, t) PROVE up' = up
  BY <1>3 DEF DeviceStep, CommandStart, CancelArrives, TerminateUnknown, TerminateAgain,
     TerminateStart, Deny, CancelNothing, CancelFromPeer, DenyFromPeer, Cleanup, CleanupClear
<1>4. ~CrashSender /\ ~CrashReceiver
  BY DEF CrashSender, CrashReceiver, Crash, TypeOK
<1>5. ~Online /\ \A d \in Devices : ~Boot(d) /\ ~Recover(d)
  BY DEF Online, Boot, Recover, Devices
<1>6. ASSUME NEW d \in Devices, Forget(d) \/ ForgetDeny(d) PROVE up' = up
  BY <1>6 DEF Forget, ForgetDeny
<1>7. ASSUME NEW m \in net, Lose(m) PROVE up' = up
  BY <1>7 DEF Lose
<1>8. \A t \in Transfers : ~RestoreAccess(t) /\ ~RestoreFails(t)
  BY DEF RestoreAccess, RestoreFails, Devices
<1>9. CASE UNCHANGED vars
  BY <1>9 DEF vars
<1> QED BY <1>1, <1>2, <1>3, <1>4, <1>5, <1>6, <1>7, <1>8, <1>9 DEF Next

(***************************************************************************)
(* As long as no process dies the same holds whatever the two users do.    *)
(***************************************************************************)
THEOREM AccessEndsWhileUp ==
    ASSUME MaxCrashes = 0
    PROVE  Spec => []AccessOnlyWhileLive
<1> DEFINE Up == \A d \in Devices : up[d] = "up"
<1>1. Init => Up
  BY DEF Init
<1>2. TypeOK /\ Up /\ [Next]_vars => Up'
  BY StaysUp
<1>3. Up => RestoresUndisturbed
  BY DEF RestoresUndisturbed, Devices
<1> HIDE DEF Up
<1> QED BY <1>1, <1>2, <1>3, TypeCorrect, AccessEndsWithTransfer, PTL DEF Spec
===============================================================================
