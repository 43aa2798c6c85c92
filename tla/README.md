# VniDrop core: TLA+ models and proofs

VniDrop sends files between devices over iroh (QUIC, content-addressed blobs).
All of its state and concurrency is in the Rust core, `src/crates/vnidrop/src/`;
the Android, Apple, Windows and Linux applications are user interfaces over its
facade. This directory models the core: what the two devices of a transfer keep
in SQLite, in secret custody and in memory, which tasks and calls change it, in
which order, and what a crash or a lost call leaves behind.

Paths below are relative to `src/crates/vnidrop/src/`.

## 1. Inventory

| Component | State it keeps | Operations | Interacts with |
|---|---|---|---|
| Targeted transfer store (`targeted_transfer/store.rs`, `store_outbox.rs`, `state.rs`) | one row per transfer: state, authorization handle, accepted-offer intent, outboxes for authorization, completion and payload release | guarded UPDATEs and transactions: insert, set state, finalize, persist receiver, complete, terminate, recover | called by every part below |
| Targeted module and protocol (`module.rs`, `protocol.rs`, `authorization_custody.rs`) | per-transfer locks, secrets in custody | handlers for offer, authorization, completion and cancel; local and peer termination; peer-wide termination | store, custody, inbox, the other device |
| Offer inbox (`inbox.rs`) | pending offers, decision channels, authorization waiters, replay cache, cooldowns | submit, decide, accept, wait for authorization, discard | module, user |
| Targeted runtime (`runtime/targeted*.rs`) | blob tags, hash registrations, access policy, active receives | prepare, negotiate, respond, receive, stop, reconcile every two seconds, restore at startup | all of the above |
| Preparation gate (`runtime/targeted_preparation.rs`) | a phase behind a mutex and a condition variable | send, stop | UI threads, targeted runtime |
| Invitation share (`runtime/share.rs`, `runtime/lifecycle.rs`) | send row, blob tag, hash registrations, access mode, `active_shares`, `active_transfers` | share, cancel, delete, set access mode, approve an endpoint, restore | approval, provider |
| Approval and access (`approval.rs`, `access_policy.rs`, `runtime/provider.rs`) | request rows, receipt tokens, decision channels, sessions | handshake, answer, receipts, authorize a blob request | share, the receiving device |
| Invitation receive and receipts (`runtime/receive.rs`, `runtime/delivery.rs`, `invitation/mod.rs`) | receive row, `active_transfers`, pending receipts, delivery task | receive, cancel, delete, clear history, deliver receipts | approval of the sending device |
| Device relationships (`device_relationship/`, `runtime/saved_devices.rs`, `blocked_devices.rs`) | one row per peer: state, generation, session, issued and held grant; tombstones of revoked generations; the deny list; a lock per peer | request, accept, decline, merge of simultaneous requests, forget, block, unblock, rotate, expiry, remote revocation | eligibility, custody, targeted module, the other device |
| Pairing eligibility (`pairing_eligibility/`) | sessions that allow a request, with a secret each | activate after a completed transfer, take, consume, dismiss, expire, reconcile | invitation transfers, custody |
| Secret custody (`secure_secret.rs`) | items of the platform's store, `protected_secret_refs`, the legacy key file | protect, load, remove, reconcile, migrate or create the endpoint identity | platform stores, every owner of a secret |
| Identity recovery (`identity_recovery.rs`, `runtime/identity_recovery.rs`) | none of its own | explicit reset of an identity that cannot be read | custody, all tables bound to the identity |
| Event hub (`event_hub.rs`) | revision counter, bounded persistence queue | emit, flush | sinks of the UI |
| Filesystem publication (`filesystem.rs`) | temporary and final files | publish without overwriting | receive |

What is hard here. A transfer's truth is spread over two SQLite databases, two
secret stores and several in-memory maps, each changed under its own lock;
between any two of them the code awaits, and a stop, a cancellation by the peer,
a timeout, a deletion, a forget or the end of the process can come in. Calls and
replies get lost and are retried. Startup answers calls before it has restored
everything. What makes the components correct is, in short:

* store, module, runtime: no authority without the receiving user's consent; no
  record of one device contradicts the other's; an ended transfer stays ended and
  is not served; nothing durable is lost in a crash; outboxes get through;
* preparation gate: stops agree, are final and return, and whoever ended a stopped
  transfer releases its payload;
* share, access: only a share that is Sharing is served, only with consent; an
  ended share lets go of its content;
* approval, receive, receipts: every request and every receipt is settled, what
  the sender shows of a receive is true, and a receive row has an attempt behind
  it;
* relationships: a device honours a peer's proof only while its own user takes part
  in the present relationship, what was revoked stays revoked, and a relationship
  both users agreed to works in both directions;
* custody: the endpoint key is never lost by the code nor replaced silently, a row
  that survives a start can load its secret, and starts complete.

`PROJECT.json` lists the hazards at their lines, with the properties that watch
them, the instances in which they fail, or the reason why there is none.

## 2. Modules

### Targeted transfers

`TargetedStore` has the row of a transfer as a record and every statement of the
store as an operator from record to record: the compare-and-set transitions, the
transactions that also touch the outboxes, and recovery. `TargetedDevice` declares
the variables of both devices and the wire and has the operations any device runs:
stop, cancel, delete, a peer's cancellation, forget and block, and the cleanup they
end with (a `job`, whose steps are abandon, deny, cleanup, clear, and which keeps
the row it has read, as the code does). `TargetedSender` has preparation,
negotiation, approval, the authorization outbox and payload release;
`TargetedReceiver` the inbox, the response, authorization custody, the receive and
the completion outbox. `TargetedTransfer` composes them with crashes, startup and
message loss, and states the properties. `TargetedLifecycle` is the abstract
specification: the states the two users see and what may follow what.
`MCTargetedTransfer` holds the command sets of the instances and the symmetry of
handles. The theorems are in `TargetedTransfer_proofs`, `TargetedRefinement_proofs` and
`TargetedAccess_proofs`, each of which extends the one before.

A step is the code between two awaits that matter: one transaction, one update
under a lock, one custody call, one message. A message sits in the set `net` until
it is handled or lost; a reply is lost when its caller has given up. A crash keeps
rows, secrets and tags, and drops everything else with the messages addressed to
the device. `Boot`, `Recover`, `RestoreAccess` and `Online` are the stages of
`CoreInner::start`; from `Boot` on calls are answered.

### Preparation gate

`PreparationGate` models `TargetedTransferPreparation`: phases, sleeping stops
(`parked`), spurious wakeups, and the registered transfer as far as a stop tells it
apart (`transfer`, `payload`). Ending a transfer is two steps everywhere: first the row
changes, later the payload goes, or its tag stays when the deletion fails. `talk` is
the negotiation (`continue_targeted_transfer`), which approves, or fails and then tears
down; it goes on after a stop has removed or ended its row, and then tears down what
the stop's cleanup may have released already. `ender` is everybody else: a cancel, a
deletion, a forget or the peer's cancel owes a cleanup, a completion a release that
reconciliation tries until it succeeds. So a stop may come between the failure of a row
and its teardown and answers `AlreadyTerminal` while the payload is still there. The
conditional delete of a stop and its cancel are a step each; the reads before them are
merged with them, since a row that has ended does not come back. The messages and the
approval session of the negotiation are in `TargetedSender`.

### Invitation transfers

`InvitationShare` has one share of the sending device: publication step by step
(`pub`), the lock of `active_shares`, cancellation of a preparation by the user's
call and by the dropped publication itself (`prep`), stop, deletion, access mode,
sessions, and recovery. It is a specification of its own, in which the approval
service may grant a session at any time. `InvitationApproval` adds the handshake,
the user's answer, the refusals of a deletion and the recording of receipts.
`InvitationReceive` adds the attempts of one receiving device, their common row and
entry in `active_transfers`, its user's commands, and the delivery task.
`Invitation` composes them with deaths of either process; `MCInvitation` adds the
symmetry of attempts.

The publication and the receive run inside `select!` with their cancellation
signal. A signal is the loss of the entry: steps that begin new waiting need the
entry, the drop needs its absence, and an answer that was being awaited may still
be taken. A publication dropped while its commit is under way may have sent it, and
it lands later (`inflight`, `CommitLands`), which is the case the lock of
`active_shares` is there for.

### Device relationships

`RelationshipStore` has the row a device keeps about its peer and every statement of
`device_relationship/store.rs` as an operator from row to row; most are UPDATEs by
endpoint id, which change whatever row they find. `Pairing` has two devices. A task is
one run of `request_pairing`, `respond_to_pairing`, forget or block, or of
`complete_simultaneous_merge`, with the step it has reached; `rpcs` are the calls
between the devices, with the stage of their handler and the answer. The peer lock is
held in exactly the steps in which the code holds its guard (`Locked`), so the handlers
of consents and acknowledgements, which take none, interleave with everything. A caller
may give up while its message is lost or still handled (`GiveUp`), and a process may
restart (`Restart`), which loses tasks, locks and the calls it served. `consent` is a
history variable: how often the user agreed to the present relationship, zero once the
row goes. The theorems are in `Pairing_proofs`. A grant is its issuer and a number; a proof of possession is the grant
itself, because only its holder can compute the keyed hash.

### Secret custody

`SecretCustody` has one profile: the platform's store (`item`), `protected_secret_refs`
(`meta`), the legacy key file, the handle columns of eligibility, relationship and
targeted transfer (`row`), and a start as a sequence of phases in the order of
`CoreInner::start`. `protect` is four steps (put, stage, activate, then the owner's
row), shared by the start and by requests (`job`); `remove` disables, then deletes, and
may fail after either. `Crash` stops the process between any two steps, which is also
what an error of a locked store does to a start; `Lose` makes the platform lose or
damage an item. `known` remembers the identity of the profile since its last explicit
reset, `lost` the handles whose item the platform lost: both are history.

## 3. Runs

| Run | Instance | Shows |
|---|---|---|
| `TargetedSenderStops` | one transfer, two handles, stop and cancel at the sender | the receiver's row implies a durable approval, a live row has its secret, only live transfers are served |
| `TargetedReceiverStops` | one transfer, cancel and delete at the receiver | consent before authority, Completed is true, both devices implement `TargetedLifecycle` |
| `TargetedCrashes` | one transfer, stop at the sender, one crash, fairness | payloads are released, negotiations end, the authorization arrives, the completion is acknowledged and stays owed until then |
| `TargetedForget` | one transfer, forget at either end, one crash | a sender that forgot its receiver runs and serves nothing; the inductive invariant of the proofs |
| `PreparationStops` | two sends, three stops, the negotiation, other ends of the transfer, fairness | assertions, agreement, finality, no stop sleeps for ever, a payload still held when a stop answers is released, the inductive invariant |
| `InvitationShares` | one share; stop, delete, access mode, approval by hand; any number of deaths; fairness | only what is Sharing is served, it keeps its payload, ended shares are released |
| `InvitationDelivers` | one attempt, history deletion, one death, fairness of attempts and delivery | receipts are genuine and true, and each ends its request |
| `InvitationWithdraws` | one attempt, deletion by the sender, cancellation by the receiver, fairness of attempts and handshakes | content needs consent, receipts can be matched although a deletion may fall between session and receipt token, requests are settled |
| `PairingRaces` | two devices, two sessions, three tasks, any three commands, one call given up, one restart | authority needs the issuer's present consent, revoked generations stay revoked, agreed relationships work both ways, no standstill |
| `CustodyRestarts` | three handles, two keys, four requests, two stops, one loss, one reset; requests after the start; fairness of the start | the key is recoverable and never replaced, a start leaves every row backed, starts complete |

Two runs show a disagreement between the code and its documentation, each in one
property; `findings` in `PROJECT.json` has the lines.

| Run | What happens |
|---|---|
| `PairingRetry` | an acknowledgement is lost or late and the user accepts again: the retry replaces the issued grant, the peer answers that it has saved already, and both show a relationship in which the peer's proofs are refused |
| `InvitationStuckReceive` | an attempt that has committed removes the entry of the next attempt for the same ticket, which ends as cancelled; its row stays Receiving and refuses every further attempt until a restart |

### Known divergences without a run

The properties below hold in the passing instances and fail when the constants are
changed as said (`ForgottenSenderIsDenied`, the counterpart of `ForgottenReceiverIsDenied`,
is in no passing run). Each counterexample is an order of steps the code allows; the
first three also contradict a document. A hazard whose only property is one of these
lists none, because no run would catch it; the others say in their note what is not
covered.

| Property | Change | What happens |
|---|---|---|
| `CompletionStillOwed` | `Commands <- ReceiverCancels`, `MaxCrashes = 0` in an instance of `MCTargetedTransfer` | a cancel of the receiving user that read the row before the receive completed deletes the queued acknowledgement without changing the state (`store_outbox.rs:246`): the receiver shows Completed and the sender is never told, against `CORE_FLOW.md:61-62` ("acknowledged to the sender with idempotent retry") |
| `AccessOnlyWhileLive` | the same with `MaxCrashes = 1` | a peer's cancellation answered while startup restores access from its list (`runtime/targeted.rs:118`): the cancelled transfer is served again, against `doc/architecture/persistence.md:56-57` ("restart cannot revive access that was already revoked") |
| `ServedOnlyWhileShared` | `Commands = {"delete", "delete_early"}` in an instance of `InvitationShare` | a deletion between the insertion of a share's row and of its entry withdraws hashes that the publication registers afterwards (`runtime/share.rs:92`): the hashes of a deleted share stay registered, against `CORE_FLOW.md:15-16` ("only hashes registered for an active share") |
| `ForgottenSenderIsDenied` | `Commands <- ReceiverForgets` in an instance of `MCTargetedTransfer` | a response or a delivery that passed its checks before a forget creates a runnable transfer of the forgotten sender (`runtime/targeted.rs:364`) |
| `AuthorityNeedsConsent` | `MaxCommands = 4` | a consent checked before a forget writes its grants onto the row of a later incoming request (`device_relationship/service.rs:645-713`, which take no lock) |
| `RevokedStaysRevoked` | `MaxReceipts = 2` | a repeated receipt makes a spent session eligible again, and an answer of the earlier attempt is adopted without a look at the tombstones (`service.rs:610`) |
| `SavedGrantsMatch` | a second request of one device (`<<1, "request", 2>>` in the commands) | the peer accepts the first request while the second, of another session and given up by its caller, is still on its way with the same generation: it replaces the row whose grants the acceptance has just exchanged, and the acknowledgement saves the replacement (`service.rs:565`) |
| `StartBacksRows` | `Arrivals <- DuringStart` | the router accepts peers before the services reconcile: a secret protected between the list of rows and the list of active handles is removed as unused, and its row written afterwards (`service.rs:155-175`) |

`PairingRaces` is therefore a statement about behaviours of at most three commands in
which receipts are not repeated, and `CustodyRestarts` about requests that come once
the start is over. In the same way `AccessOnlyWhileLive` is shown without a restart,
`CompletionStillOwed` without a cancel of the receiver and `ServedOnlyWhileShared` without
`delete_early`. `ReceivingIsLive` fails with two attempts (`InvitationStuckReceive`) and is
proved for one (`ReceivingRowIsLive`).

Deadlock is not checked: a device whose users ask for nothing rests.

### Bounds

Targeted transfers do not interact with each other except through forget and
recovery, which treat each row alike, so one transfer shows the races of one
transfer; the theorems hold for any number. Two handles let two deliveries of one
authorization overlap. One crash is enough to interrupt every step, on either
device, and to be followed by the whole of recovery. In the gate, two sends give a
second `start` and three stops a worker, a sleeper and a late one; the negotiation and
the other ends of the transfer interleave with all of them. One attempt
reaches every step of handshake, receive and delivery against every step of
publication and deletion; the second attempt of `InvitationStuckReceive` is what
that race needs, and also reaches the limit on pending requests (`MaxPending`).
Three commands and three tasks let a request, an answer and a forget (or block,
rotation, dismissal) overlap in every order, and let both devices request at once
while a third operation comes in; two sessions let an old attempt meet a new one;
four generations and three grants per device are never exhausted by three commands.
In custody, three handles hold the identity and two other secrets; two stops interrupt
a start that repairs what the first stop left, one loss takes any item at any time, and
the reset needs a third key only if two are in use, so with two keys every behaviour
that generates at most one new key is explored.
Commands are split over runs because their product is too large, so races between,
say, a deletion by the sender and a deletion by the receiver are explored only as
far as a run has both.

### Fairness

Weak fairness of a task's steps: Tokio polls what can run, timers fire, the
reconciliation tick and the receipt retry recur, a dead process is started again.
Strong fairness is assumed in two places: of the handling of a call that is made
again and again (an authorization, a completion, a receipt), which is the
assumption that the network does not fail for ever, and of taking the lock of
`active_shares`, since Tokio's mutex is granted in turn. A start of the process is one
sequential task: `StartCompletes` assumes weak fairness of its steps, and stops end
because their number is bounded. Nothing is assumed of
users: offers and requests may stay unanswered, and end by their timeouts. In the gate
the negotiation is weakly fair because each of its waits has a timeout, a cleanup
because its caller awaits it, a release because reconciliation repeats it; nobody owes
an end of the transfer.

## 4. Proofs

TLAPS checks them for all values of the constants (transfers, handles, commands,
number of crashes; sends and stops; attempts and calls of the access mode; handles, keys
and bounds of the custody; tasks, sessions, commands and bounds of pairing). The assumptions are those of the modules: which commands
there are, that bounds are natural numbers, that `None` is no handle, no task, no
attempt, no grant and no row; in the custody, that no key is one of the markers, that the legacy file holds a
key or nothing, and that requests arrive no earlier than the router does. A theorem that
needs more states it as a hypothesis on the commands or the bounds of the instance, and
section 3 has the counterexample that shows it is needed.

`TargetedTransfer_proofs`. `TypeCorrect` is type correctness. `Inductive` proves
`[](TypeOK /\ InductiveInv)`; from it follow

* `ConsentSafety`: `ConsentBeforeAuthority`;
* `ApprovalSafety`: `ReceiverFollowsApproval`;
* `CompletionSafety`: `CompletedTruthfully`;
* `CustodySafety`: `LiveAuthorizationUsable`.

None of the four is inductive: each speaks of the durable rows alone, while the
steps that change a row act on what a message, a task or a snapshot said earlier.
`InductiveInv` adds that: `ConsentInv`, that every acceptance in flight stems from the
user's; `ApprovalInv`, that an authorization on its way or about to commit follows the
sender's durable approval; `NegotiationInv`, that registration is first and approval
last; `CompletionInv`, that a completion on the wire is true; `JobInv`, that what a stop
in progress has read still holds, so that a transfer it saw ended is still ended when it
cleans up; and `CustodyInv`, that no cleanup or rollback holds the handle a live row or
another delivery needs. The argument is by "aging": every operator of the store moves
a row forward only (`AgingOps`), and each part of the invariant is preserved by steps
that let rows age (`CalmStep` and the frame lemmas), so only the steps that create
messages, jobs or rows need an argument of their own. There is one lemma per module
(`SenderInductive`, `ReceiverInductive`, `DeviceInductive`, `RuntimeInductive`) with
one step per action.

`TargetedRefinement_proofs`. `ShowsLifecycle` is the refinement: `TargetedTransfer`
implements `TargetedLifecycle`. Each action is shown to move the two states it shows by
a step of the lifecycle or not at all (`LifecycleStep`). Beyond `InductiveInv` this needs
`ShownInv`: an offer is known to the receiver only once its sender has registered it
(`OfferInv`), and only the receiver's row follows the download.

`TargetedAccess_proofs`: what the sender serves and what the receiver still owes.

* `ForgottenReceiverHasNothing` (`ForgottenReceiverIsDenied`), without hypothesis. The
  property looks at the moment the forget has ended; `ForgetInv` describes the way there:
  who may hold access (`GrantInv`), and that a row the forget has denied cannot be approved
  again, with only a negotiation that is about to withdraw still holding access (`SweptInv`).
* `AccessEndsWithTransfer` (`AccessOnlyWhileLive`) in every behaviour in which no
  cancellation of the peer is being answered while a start restores access
  (`RestoresUndisturbed`), the one order that breaks it (`runtime/targeted.rs:118`). The
  invariant is `AccessInv`: access without a record that justifies it has a negotiation or
  a cleanup ahead that withdraws it. Two theorems discharge the hypothesis:
  `AccessEndsWhileUp` when no process dies, and `AccessEndsThroughRestarts` for any number
  of crashes when the receiver neither cancels nor deletes, since then no cancellation
  reaches the sender (`QuietInv`).
* `CompletionStaysOwed` (`CompletionStillOwed`) when the receiver's user does not cancel
  (`store_outbox.rs:246` is the counterexample otherwise). `OwingInv` says that no stop in
  progress cleans up a completed receive (`StopsInv`) and that an acknowledgement on its
  way is true, so the queued completion goes only once the sender has recorded it.

`PreparationGate_proofs`. `TypeCorrect`, then `GateSafety` for
`GateInv`, and from it `AssertionSafety`, `StopAgreement` and `StopFinality`. `SendInv` and
`StopInv` say which phases each step of a call can meet, that one stop at most owns the
transfer, and how far the negotiation can be by then. `OwnerInv` says who still has a
payload to release: a transfer that can run, the send that imported it, the negotiation
between the failure of the row and its teardown, another end between the row and its
cleanup or release, or a stop about to clean up. `StopFinality` needs it for the stop that
finds a row that has ended: the payload may still be held when it answers, but never
without one of these ahead (`StopIsFinal`); that they get there is the liveness property
`StoppedPayloadGoes`, which is model-checked. The steps of the negotiation and of the
other ends leave the gate alone and have one lemma (`EndsKeepGate`).

`SecretCustody_proofs`. `CustodyCorrect` proves `[]CustodyInv`, and from it `TypeCorrect`,
`KeyIsRecoverable` (`KeyRecoverable`) and `IdentityIsKept` (`IdentityNeverReplaced`), for
requests that arrive during a start as well. `KeyRecoverable` is not inductive: whether
a step may delete an item depends on which entries are identities and on what the start
has listed. `CustodyInv` adds `PhaseInv`, what holds in each phase (no requests before the
router, the lists of reconcile name only known and only unknown handles, a reset leaves
no entry); `AdoptInv`, that while an identity is adopted there is no other, the legacy file
stays, and from staging on its entry and item hold the key; `TaskInv` and `RowInv`, that
neither a request nor a row ever holds the handle of an identity, so every removal
spares it (`RemoveTrims`). There is one lemma per action.

`StartBacksEveryRow` proves `StartBacksRows` when requests arrive only once the start is
over (`Arrivals \subseteq {"running"}`; section 3 has the order that breaks it otherwise).
The property looks at the last step of a start, and its invariant `StartInv` at the way
there: every column names a handle of its own kind (`KindInv`), so that reconciling
relationships cannot take the eligibility's secret for an unused one; nobody is served
meanwhile (`QuietInv`); and what a phase has reconciled is still backed in the next, because
its handles are in the list of those that `RemoveUnused` spares (`LateInv`).

`InvitationShare_proofs`. `ShareTypeCorrect`; and, for every set of commands without
`delete_early` (section 3), `NeverServedAfterwards` (`ServedOnlyWhileShared`) and `PayloadKept`
(`SharingKeepsPayload`), from `ShareInv`: which step holds the lock of `active_shares`
(`LockInv`), that a deletion past its check meets no publication that could still register
hashes (`DeletionInv`), where the publication is when the row says Sharing, a stop runs or
a dropped commit is in flight (`PublicationInv`), and that the tag precedes the commit
(`PayloadInv`).

`Invitation_proofs`, for any number of attempts and deaths. `InvitationImplementsShare` shows
that the composition implements `InvitationShare`, so the theorems above hold of it
(`InvitationServesOnlyShared`). `InvitationInductive` proves `InvitationInv`, and from it
`InvitationTypeCorrect`, `CompletionIsTrue` (`CompletedTruthfully`) and `ReceiptsAreGenuine`
(`ReceiptIsGenuine`). Both properties speak of a recorded receipt, which is made from what
the wire, the outbox and the attempt said; `SuccessInv` and `TokenInv` say that of each of
these, `HandshakeInv` and `HoldingInv` that an attempt has a token only between the end of
its handshake and its own end, so that no handshake replaces the request it belongs to.
`NoContentWithoutConsent` (`ContentNeedsConsent`) is for instances without the commands by
which the sending user opens the share or approves an endpoint by hand, which are consent
the property does not count; its invariant is `PolicyInv` and `ConsentInv`.
`ReceivingRowIsLive` (`ReceivingIsLive`) is for a single attempt: `InvitationStuckReceive`
shows that two attempts break it.

`Pairing_proofs`. `PairingTypeCorrect` is type correctness; it needs `Shape`, that a running
task belongs to a device, that what is about to write a row knows its session, and that
no grant is around before it is minted. `AuthorityIsConsented` proves `AuthorityNeedsConsent`
in every behaviour in which a step that ends a relationship on a device (a forget, a
decline, a revocation, an expiry, a restart) leaves no initiation, acceptance, merge or
handler of a consent of that device at work (`EndsAtRest`); the order excluded is the one of
section 3, and excluding it is what taking the peer lock in these handlers would do. The
property compares two saved rows, but a grant is handed out long before both are saved:
`ConsentInv` says that whoever is on the way to hand out a grant, and whose row is an
initiative of its own or names a grant that some call or row of the peer may hold, has
the user's consent. Every action is shown to be a step of one device with the same
profile (`StepOf`: what it may do to row, mint, consent, tasks and calls), and one lemma
(`ProfileKeeps`) shows that the profile keeps the invariant. When no user forgets, blocks
or declines the hypothesis holds by itself (`AuthorityIsConsentedUndisturbed`), with
rotations, expiries, lost calls and any number of restarts.

`RevokedIsFinal` proves `RevokedStaysRevoked` for `MaxReceipts <= 1` (section 3 has the
counterexample with a repeated receipt) in every behaviour in which a revocation that has
written its tombstone also removes the row (`RevocationsComplete`). Comparing a row with the
tombstones is not inductive, because generations reach a row from elsewhere: from a task or
a handler that chose one under the lock and writes it later, and from the answer to a request,
which is adopted without the lock. `RevokedInv` says of each where its generation stands.
`LockedInv`: what is about to be written under the lock is above the tombstones, which only
grow outside the lock. `LiveInv`: so is a row, unless its removal is next. `AnswerInv`: so is
the answer a task awaits while the row of its session is there, with the generation being
removed as the one exception. `SessionInv` and `CallerInv` make that enough: a session that
has been asked for is not eligible again, so one task of a device at most asks for it and at
most one answer about it can be adopted. Each action is shown to do one of six things to a
row (`RowCase`) and to move, answer, orphan or start calls (`CallsStep`); `RevokedKept` does
the rest. Only a restart can break the hypothesis, so it holds by itself for `MaxCrashes = 0`
(`RevokedIsFinalUncrashed`). With a restart in between the invariant is false, because the
tombstoned row stays and may adopt another generation first; that the property
survives it is shown by `PairingRaces` for three commands and one restart, and not proved.

`SavedGrantsAlwaysMatch` proves `SavedGrantsMatch` for two devices that share one session
whose receipt is not repeated, with any number of tasks, commands, lost calls and restarts
(with several sessions and a second request it fails, section 3). The property compares two
rows at the end of an exchange whose messages may be lost, late or served without their
caller; its invariant `MatchInv` speaks of the behaviours in which the users have only
asked and accepted (`Agreeing`).

* `AgreedInv`: nothing is declined or revoked, there are no tombstones, and whoever agreed has
  spent the session (`SpentInv`). Every step is shown to take rows, locks and consent in one
  of a few ways (`Settles`), so that this lasts.
* `Lost`: a user has agreed twice, or a device has spent its session and has neither row nor
  lock. Both last, since a session cannot be spent twice, and neither meets the property.
* `OnceInv`, until then. `SilentInv`: as long as one user has not agreed there is no grant, and
  that device is not asking. `AskInv`: a device asks once, with generation one, and no answer
  makes it adopt another. `OneGrant`: each device mints once, its row keeps that grant, the
  second grant is minted in the generation of the first, and at most one consent that carries
  a grant is on its way. `FormedInv` says whose grant a call or a row carries.

Most actions are shown to go on (`GoesOn`): rows keep generation and grants, calls and tasks
continue ones there were, and `OnceKept` does the rest. Accepting, requesting and the two
steps that mint have a lemma each (`AcceptOnce`, `UpsertOnce`, `MintOnce`, `StoreOnce`). The
election of a leader (`d < Peer(d)`) and the check that the leader has not issued a grant yet
are what keeps the second minting of a merge out.

Of `NoStandstill`, which speaks of ENABLED, the part that is not local to one lock is proved:
`MergeAnswersItsHandler` says that a handler that waits for its merge waits for a running task
of its own device (`LeadInv`), whatever is given up or restarted.

Only model-checked: liveness, and `NoStandstill` (the prover has no fairness or ENABLED);
`SavedGrantsMatch` for two sessions; `RevokedStaysRevoked` across a restart in the middle of a
revocation.

## 5. Abstractions

* Database and custody errors are not modelled, except a failing teardown, cleanup or
  release in `PreparationGate`, which withdraws hashes and access and may leave the tag
  behind, and the statements whose guard does not match.
* Targeted: progress counters are left out; the checks that make an inbox refuse an
  offer are one nondeterministic refusal, with limits, cooldown and replay cache; one
  receive run, one local command and one response per transfer are in progress at a
  time; a read followed by a compare-and-set on what was read is one step where no
  other statement can tell; the revocation message a forget sends to the peer is left
  out.
* Gate: the registered transfer is a fate. Of the two statements of `register_sender`
  a failing insertion leaves no row, and the second fails only when somebody has ended
  the row in between. A further end of a transfer that has ended releases its payload
  again and is left out, except that it takes over a queued release. A restart is in
  `TargetedTransfer` only, since the gate does not survive one.
* Invitation: one receiving endpoint, one share; an attempt is also its request; the
  death of a process and its recovery are one step, because recovery precedes the
  router; a blob request is authorized once and its streaming is one step; refusals of
  blocked receivers and oversized metadata are one outcome; the activation of pairing
  eligibility between a commit and its notification is the wait between two steps.
  Deleting a transfer in the moment between the insertion of its row and of its entry
  is a command of its own, `delete_early`, which no instance uses: with it
  `ServedOnlyWhileShared` does not hold (section 3), since the publication registers its hashes
  after the deletion has withdrawn them.

* Pairing: two devices, so one row each, and equal protocol versions; names, labels,
  timestamps, the acknowledgement columns (written and never read) and the limit on
  saved devices are left out; which of several sessions a request takes is open;
  protecting a grant and writing its handle is one step (the steps are in
  `SecretCustody`), and so are a rotation and the handling of a remote revocation, which
  hold the lock throughout; a pending row and an eligibility expire only when no call is
  under way, since their half hour and their day are far longer than a call's timeout.
* Custody: one peer; requests are served one at a time; the order in which pairing moves
  a row is open, and "AlreadySaved" may save it without grants; a legacy file that cannot
  be parsed is not modelled; database errors are those the code compensates for.

Facts about pairing that no property states: a block writes the deny record before it
revokes the relationship, so a stop in between leaves a saved row that an unblock
brings back (`runtime/saved_devices.rs:94-133`); a rotated grant is never delivered to
the peer, whose proofs fail from then on (`device_relationship/lifecycle.rs:76-122`); the
answer `AlreadySaved` saves the requester's row without grants, which the next start
removes (`service.rs:326`); two peers may together pass the limit on saved devices,
because the lock is per peer (`service.rs:92-105`).

Two facts the Invitation model shows and no run states: an answer that has taken the
decision channel when the two minutes end leaves a request accepted whose handshake
is denied (`approval.rs:434`), and a cancellation between the commit of a receive and
its end reports a failure for a receive that is Done (`runtime/receive.rs:427`).

## 6. Not modelled

The user interfaces; the platform keystores behind the interface of the store; ticket
and grant encoding and the cryptography, which the models take as perfect; the event
hub, whose events no decision of the core reads (its own risks are that revisions are
assigned under a lock released before the sink is called, `event_hub.rs:242`, and that a
full queue drops a write, `:267`); filesystem publication, which is validation of paths
and renames; the inbox's replay cache, limits and cooldown; overlapping receive runs of
one targeted transfer and its `verified_bytes`; wiring, diagnostics service, packaging.

## 7. Plan

1. Proofs: `SavedGrantsMatch` for several sessions when each user asks once;
   `RevokedStaysRevoked` across a restart in the middle of a revocation.
2. `TargetedInbox`: duplicates, replays, limits and cooldown.
3. `TargetedReceive`: overlapping runs of one transfer and verified bytes.
4. An abstract specification of mutual pairing that `Pairing` implements.
5. Invitation with two overlapping attempts under a smaller share model, and two
   receiving endpoints.
