----------------------------- MODULE SecretCustody -----------------------------
(***************************************************************************)
(* Protected secrets of one profile: the credential store of the platform,  *)
(* the table protected_secret_refs that says what each stored item is, the  *)
(* rows that refer to items by handle, and the legacy key file.             *)
(*                                                                         *)
(* The store and the database fail independently and no transaction spans   *)
(* them, so a secret is written store first (put, stage, activate, then the *)
(* row of its owner) and removed metadata first (disable, delete, then the  *)
(* row).  The process may stop between any two of these steps, or end the   *)
(* start with an error because the store is locked, which leaves the same   *)
(* state.  Every start reconciles.  The profile lock admits one process.    *)
(*                                                                         *)
(* There is one peer: one pairing eligibility, one relationship with an     *)
(* issued and a held grant, and one targeted transfer.  An error of the     *)
(* database other than the ones the code compensates for is not modelled.   *)
(***************************************************************************)
EXTENDS Naturals, FiniteSets

CONSTANTS
    Handles,        \* handles that may be in use at a time
    Keys,           \* endpoint keys
    Absent,         \* no item, no handle, no file, no key
    LegacyFiles,    \* what the legacy key file may hold at first
    Arrivals,       \* the phases in which requests of peers and users arrive
    MaxRequests,    \* bound on these requests
    MaxLost,        \* bound on items lost at a time
    MaxResets,      \* bound on explicit identity resets
    MaxCrashes      \* bound on stops of the process

Slots == {"eligibility", "issued", "held", "authorization"}

\* SecretKind of the secret that a column refers to.
Kind(slot) == IF slot \in {"issued", "held"} THEN "grant" ELSE slot

\* What a start has reached.  The router accepts peers from "eligibility" on.
Phases == {"down", "reset", "reconcile", "identity", "adopt", "authorizations",
           "eligibility", "unused eligibility", "grant", "unused grant", "running"}

\* What the store keeps, and the rows of protected_secret_refs.
Materials == Keys \cup {Absent, "bad", "token"}
Entries == [kind : {"none", "identity", "eligibility", "grant", "authorization"},
            state : {"none", "staged", "active", "disabled"},
            expected : Keys \cup {Absent, "token"}]

ASSUME AbsentAssumption ==
    /\ Absent \notin Handles \cup Keys \cup {"bad", "token"}
    /\ Keys \cap {"bad", "token"} = {}

ASSUME EnvironmentAssumption ==
    /\ LegacyFiles \subseteq Keys \cup {Absent}
    /\ Arrivals \subseteq {"eligibility", "unused eligibility", "grant",
                           "unused grant", "running"}

ASSUME BoundsAssumption ==
    MaxRequests \in Nat /\ MaxLost \in Nat /\ MaxResets \in Nat /\ MaxCrashes \in Nat

VARIABLES
    item,       \* the credential store: the material kept under each handle
    meta,       \* protected_secret_refs
    legacy,     \* the plaintext key file of earlier versions
    row,        \* the handles in the rows of their owners
    relation,   \* the state of the relationship row
    phase,
    job,        \* the secret that the start or the task is protecting
    work, seen, \* handles that the current loop has to visit, or has listed
    task,       \* the request being served
    current,    \* the key the endpoint runs with
    known,      \* history: the identity of the profile since its last reset
    lost,       \* history: handles whose item the platform lost or damaged
    requests, resets, crashes

durable == <<item, meta, legacy, row, relation>>
bounds == <<requests, resets, crashes>>
vars == <<item, meta, legacy, row, relation, phase, job, work, seen, task,
          current, known, lost, requests, resets, crashes>>

-------------------------------------------------------------------------------
(* Metadata and material.                                                   *)

\* Fault: the metadata does not record which endpoint the key belongs to.
EntryOfAnyKey(kind, state, key) == [kind |-> kind, state |-> state, expected |-> "token"]

Entry(kind, state, key) == [kind |-> kind, state |-> state, expected |-> key]

\* set_state: the entry of a handle in another state.
Marked(h, state) == [kind |-> meta[h].kind, state |-> state, expected |-> meta[h].expected]

NoEntry == Entry("none", "none", Absent)
Known(h) == meta[h].state # "none"

\* The entries that the unique index counts.
Identity(h) == meta[h].kind = "identity" /\ meta[h].state # "disabled"

\* The store returns an item and it is what the metadata expects.
validate_material(h) == item[h] = meta[h].expected

load(h) == meta[h].state = "active" /\ validate_material(h)

ActiveHandles(kind) == {h \in Handles : meta[h].kind = kind /\ meta[h].state = "active"}

Referenced == {row[slot] : slot \in Slots} \ {Absent}

\* A handle is random: a new one is any that nothing uses or remembers.
Free(h) == /\ item[h] = Absent /\ ~Known(h) /\ h \notin Referenced
           /\ h \notin work \cup seen \cup {job[p].handle : p \in {"start", "task"}}
NewHandle == CHOOSE h \in Handles : Free(h)

Used(k) == k \in {legacy, known} \/ \E h \in Handles : item[h] = k
NewKey == CHOOSE k \in Keys : ~Used(k)

\* The key to protect when there is none: the legacy one or a new one.
IdentityKey == IF legacy = Absent THEN NewKey ELSE legacy

\* How far protect is, for the start or for a request.
Job(pc, kind, key, handle) == [pc |-> pc, kind |-> kind, key |-> key, handle |-> handle]
NoJob == Job("idle", "none", Absent, Absent)
NoTask == [pc |-> "idle", slot |-> "none"]

\* Removing secrets: the metadata is disabled, then the item deleted.  The
\* store may refuse the second step, and an error may precede the first: the
\* callers that clean up ignore either.
remove(hs) ==
    \E disabled \in SUBSET {h \in hs : Known(h)} : \E deleted \in SUBSET hs :
        /\ {h \in deleted : Known(h)} \subseteq disabled
        /\ meta' = [h \in Handles |-> IF h \in disabled THEN Marked(h, "disabled") ELSE meta[h]]
        /\ item' = [h \in Handles |-> IF h \in deleted THEN Absent ELSE item[h]]

-------------------------------------------------------------------------------
(* protect: shared by the start, for the identity, and by requests.         *)

\* The item is put and read back.
Put(p) ==
    /\ job[p].pc = "put"
    /\ \E h \in Handles : Free(h)
    /\ item' = [item EXCEPT ![NewHandle] = job[p].key]
    /\ job' = [job EXCEPT ![p] = Job("stage", job[p].kind, job[p].key, NewHandle)]
    /\ lost' = lost \ {NewHandle}
    /\ UNCHANGED <<meta, legacy, row, relation, phase, work, seen, task, current,
                   known, bounds>>

\* The index admits one identity that is not disabled.
Stage(p) ==
    /\ job[p].pc = "stage"
    /\ job[p].kind = "identity" => \A h \in Handles : ~Identity(h)
    /\ meta' = [meta EXCEPT ![job[p].handle] = Entry(job[p].kind, "staged", job[p].key)]
    /\ job' = [job EXCEPT ![p] = Job("activate", job[p].kind, job[p].key, job[p].handle)]
    /\ UNCHANGED <<item, legacy, row, relation, phase, work, seen, task, current,
                   known, lost, bounds>>

\* The insertion fails: the item is deleted again and the request ends.
StageFails ==
    /\ job["task"].pc = "stage"
    /\ remove({job["task"].handle})
    /\ job' = [job EXCEPT !["task"] = NoJob]
    /\ task' = NoTask
    /\ UNCHANGED <<legacy, row, relation, phase, work, seen, current, known, lost, bounds>>

Activate(p) ==
    /\ job[p].pc = "activate"
    /\ meta' = [meta EXCEPT ![job[p].handle] = Marked(job[p].handle, "active")]
    /\ job' = [job EXCEPT ![p] = Job("protected", job[p].kind, job[p].key, job[p].handle)]
    /\ UNCHANGED <<item, legacy, row, relation, phase, work, seen, task, current,
                   known, lost, bounds>>

-------------------------------------------------------------------------------
(* A start: reconciliation of the store with the metadata.                  *)

Goto(next) == phase' = next
StartOnly == UNCHANGED <<legacy, row, relation, job, task, current, known, lost, bounds>>

\* Both lists are read before the first change.
Boot ==
    /\ phase = "down" \/ (phase = "reset" /\ work = {})
    /\ Goto("reconcile")
    /\ work' = {h \in Handles : Known(h)}
    /\ seen' = {h \in Handles : item[h] # Absent /\ ~Known(h)}
    /\ UNCHANGED <<item, meta>> /\ StartOnly

\* Fault: an identity that cannot be read is forgotten and the start goes on.
ForgetLostIdentity(h) ==
    /\ phase = "reconcile" /\ h \in work
    /\ IF meta[h].state # "disabled" /\ validate_material(h)
       THEN meta' = [meta EXCEPT ![h] = Marked(h, "active")] /\ UNCHANGED item
       ELSE /\ meta' = [meta EXCEPT ![h] = IF meta[h].kind = "identity" THEN NoEntry
                                          ELSE Marked(h, "disabled")]
            /\ item' = [item EXCEPT ![h] = Absent]
    /\ work' = work \ {h}
    /\ UNCHANGED <<phase, seen>> /\ StartOnly

\* Fault: a secret whose protection was interrupted stays staged.
LeaveStaged(h) ==
    /\ phase = "reconcile" /\ h \in work
    /\ meta[h].state # "disabled" /\ validate_material(h)
    /\ work' = work \ {h}
    /\ UNCHANGED <<item, meta, phase, seen>> /\ StartOnly

\* An entry whose item is gone or wrong is disabled and its item deleted, but
\* never the entry of the identity, which ends the start instead.
ReconcileEntry(h) ==
    /\ phase = "reconcile" /\ h \in work
    /\ \/ /\ meta[h].state = "disabled"
          /\ item' = [item EXCEPT ![h] = Absent]
          /\ work' = work \ {h}
          /\ UNCHANGED <<meta, phase, seen>>
       \/ /\ meta[h].state # "disabled" /\ validate_material(h)
          /\ meta' = [meta EXCEPT ![h] = Marked(h, "active")]
          /\ work' = work \ {h}
          /\ UNCHANGED <<item, phase, seen>>
       \/ /\ meta[h].state # "disabled" /\ ~validate_material(h)
          /\ meta[h].kind # "identity"
          /\ meta' = [meta EXCEPT ![h] = Marked(h, "disabled")]
          /\ UNCHANGED <<item, phase, work, seen>>
       \/ /\ meta[h].state # "disabled" /\ ~validate_material(h)
          /\ meta[h].kind = "identity"
          /\ Goto("down")
          /\ work' = {} /\ seen' = {}
          /\ UNCHANGED <<item, meta>>
    /\ StartOnly

DeleteUnknown(h) ==
    /\ phase = "reconcile" /\ work = {} /\ h \in seen
    /\ item' = [item EXCEPT ![h] = Absent]
    /\ seen' = seen \ {h}
    /\ UNCHANGED <<meta, phase, work>> /\ StartOnly

Reconciled ==
    /\ phase = "reconcile" /\ work = {} /\ seen = {}
    /\ Goto("identity")
    /\ UNCHANGED <<item, meta, work, seen>> /\ StartOnly

-------------------------------------------------------------------------------
(* A start: the endpoint identity.                                          *)

\* The endpoint runs with the key; the history remembers the first one.
RunsWith(key) ==
    /\ current' = key
    /\ known' = IF known = Absent THEN key ELSE known
    /\ Goto("authorizations")

\* A legacy file may be left over from a migration that did not finish; one
\* with another key ends the start.
migrate_legacy_endpoint_identity ==
    /\ phase = "identity"
    /\ \E h \in ActiveHandles("identity") :
        \/ /\ load(h) /\ legacy \in {Absent, meta[h].expected}
           /\ legacy' = Absent
           /\ RunsWith(meta[h].expected)
        \/ /\ ~(load(h) /\ legacy \in {Absent, meta[h].expected})
           /\ Goto("down")
           /\ UNCHANGED <<legacy, current, known>>
    /\ UNCHANGED <<item, meta, row, relation, job, work, seen, task, lost, bounds>>

\* Fault: the legacy file is deleted before its key is protected.
MoveLegacyKey ==
    /\ phase = "identity"
    /\ ~\E h \in Handles : meta[h].kind = "identity"
    /\ job' = [job EXCEPT !["start"] = Job("put", "identity", IdentityKey, Absent)]
    /\ legacy' = Absent
    /\ Goto("adopt")
    /\ UNCHANGED <<item, meta, row, relation, work, seen, task, current, known,
                   lost, bounds>>

\* No entry of an identity exists: the legacy key, or a new one, is protected.
\* An entry that is not active within a second ends the start.
initialize_endpoint_identity ==
    /\ phase = "identity" /\ ActiveHandles("identity") = {}
    /\ IF \E h \in Handles : meta[h].kind = "identity"
       THEN Goto("down") /\ UNCHANGED job
       ELSE /\ \E k \in Keys : ~Used(k)
            /\ job' = [job EXCEPT !["start"] = Job("put", "identity", IdentityKey, Absent)]
            /\ Goto("adopt")
    /\ UNCHANGED <<durable, work, seen, task, current, known, lost, bounds>>

\* The protected key is active: the legacy file is removed durably.
remove_legacy_identity_durably ==
    /\ phase = "adopt" /\ job["start"].pc = "protected"
    /\ legacy' = Absent
    /\ RunsWith(job["start"].key)
    /\ job' = [job EXCEPT !["start"] = NoJob]
    /\ UNCHANGED <<item, meta, row, relation, work, seen, task, lost, bounds>>

-------------------------------------------------------------------------------
(* A start: secrets that no row refers to, and rows without their secret.   *)

\* Before the router accepts anyone; an error of the store ends the start (one
\* before the first change is a Crash).
remove_orphaned_targeted_authorizations ==
    /\ phase = "authorizations"
    /\ LET orphans == ActiveHandles("authorization") \ {row["authorization"]}
       IN  \/ /\ orphans = {}
              /\ Goto("eligibility")
              /\ UNCHANGED <<item, meta, current>>
           \/ \E h \in orphans :
                /\ remove({h})
                /\ meta'[h].state = "disabled"
                /\ IF item'[h] = Absent
                   THEN UNCHANGED <<phase, current>>
                   ELSE Goto("down") /\ current' = Absent
    /\ UNCHANGED <<legacy, row, relation, job, work, seen, task, known, lost, bounds>>

\* PairingEligibilityService::reconcile lists its rows and drops those whose
\* secret cannot be loaded.
ReconcileEligibility ==
    /\ phase = "eligibility"
    /\ seen' = {row["eligibility"]} \ {Absent}
    /\ \/ /\ \A h \in seen' : load(h)
          /\ UNCHANGED <<item, meta, row>>
       \/ /\ \E h \in seen' : ~load(h) /\ remove({h})
          /\ row' = [row EXCEPT !["eligibility"] = Absent]
    /\ Goto("unused eligibility")
    /\ work' = {}
    /\ UNCHANGED <<legacy, relation, job, task, current, known, lost, bounds>>

\* Fault: a saved relationship is kept whatever became of its issued grant.
KeepEveryRelationship ==
    /\ phase = "grant"
    /\ seen' = {row["issued"], row["held"]} \ {Absent}
    /\ Goto("unused grant")
    /\ work' = {}
    /\ UNCHANGED <<durable, job, task, current, known, lost, bounds>>

\* DeviceRelationships::reconcile lists its rows and drops a saved one whose
\* issued grant is missing.
ReconcileGrants ==
    /\ phase = "grant"
    /\ seen' = {row["issued"], row["held"]} \ {Absent}
    /\ LET dropped == relation = "saved" /\ ~(row["issued"] # Absent /\ load(row["issued"]))
       IN  /\ IF dropped THEN remove(seen') ELSE UNCHANGED <<item, meta>>
           /\ row' = IF dropped THEN [row EXCEPT !["issued"] = Absent, !["held"] = Absent]
                                ELSE row
           /\ relation' = IF dropped THEN "none" ELSE relation
    /\ Goto("unused grant")
    /\ work' = {}
    /\ UNCHANGED <<legacy, job, task, current, known, lost, bounds>>

\* Then either service lists the active secrets of its kind and removes those
\* that the rows it has listed do not name; errors are ignored.
RemoveUnused ==
    /\ phase \in {"unused eligibility", "unused grant"}
    /\ LET kind == IF phase = "unused grant" THEN "grant" ELSE "eligibility"
       IN  remove(ActiveHandles(kind) \ seen)
    /\ Goto(IF phase = "unused grant" THEN "running" ELSE "grant")
    /\ seen' = {}
    /\ UNCHANGED <<legacy, row, relation, job, work, task, current, known, lost, bounds>>

-------------------------------------------------------------------------------
(* Requests of peers and of the user, one at a time.                        *)

Serve(pc, slot) ==
    /\ phase \in Arrivals /\ task.pc = "idle" /\ requests < MaxRequests
    /\ requests' = requests + 1
    /\ task' = [pc |-> pc, slot |-> slot]

\* When a secret for a column is made.  A grant replaces the one in the row,
\* whose secret is left to the next start.
Wanted(slot) ==
    \/ slot = "eligibility" /\ row[slot] = Absent /\ relation # "saved"
    \/ slot \in {"issued", "held"} /\ relation = "pending"
    \/ slot = "authorization" /\ row[slot] = Absent /\ relation = "saved"

NewSecret(slot) == Job("put", Kind(slot), "token", Absent)

Protect(slot) ==
    /\ Wanted(slot)
    /\ Serve("protect", slot)
    /\ job' = [job EXCEPT !["task"] = NewSecret(slot)]
    /\ UNCHANGED <<durable, phase, work, seen, current, known, lost, resets, crashes>>

\* The secret is active: its handle is written to the row.
WriteRow ==
    /\ task.pc = "protect" /\ job["task"].pc = "protected"
    /\ row' = [row EXCEPT ![task.slot] = job["task"].handle]
    /\ job' = [job EXCEPT !["task"] = NoJob]
    /\ task' = NoTask
    /\ UNCHANGED <<item, meta, legacy, relation, phase, work, seen, current, known,
                   lost, bounds>>

\* The write fails: a secret that is not a grant is removed again.
WriteRowFails ==
    /\ task.pc = "protect" /\ job["task"].pc = "protected"
    /\ IF Kind(task.slot) = "grant" THEN UNCHANGED <<item, meta>>
                                    ELSE remove({job["task"].handle})
    /\ job' = [job EXCEPT !["task"] = NoJob]
    /\ task' = NoTask
    /\ UNCHANGED <<legacy, row, relation, phase, work, seen, current, known, lost, bounds>>

\* The store fails during protect: the request ends where it is.
ProtectFails ==
    /\ job["task"].pc \in {"put", "stage", "activate"}
    /\ job' = [job EXCEPT !["task"] = NoJob]
    /\ task' = NoTask
    /\ UNCHANGED <<durable, phase, work, seen, current, known, lost, bounds>>

\* Pairing moves the row; "AlreadySaved" saves it whatever grants it has.
Relate ==
    /\ \/ relation = "none" /\ relation' = "pending"
       \/ relation = "pending" /\ relation' = "saved"
    /\ phase \in Arrivals /\ task.pc = "idle" /\ requests < MaxRequests
    /\ requests' = requests + 1
    /\ UNCHANGED <<item, meta, legacy, row, phase, job, work, seen, task, current,
                   known, lost, resets, crashes>>

Columns(slot) == IF Kind(slot) = "grant" THEN {"issued", "held"} ELSE {slot}

\* Ending an eligibility, a relationship or a transfer, and rotating a grant:
\* the secrets are removed before the row changes.
RemoveSecrets(slot) ==
    /\ \/ slot \in {"eligibility", "authorization"} /\ row[slot] # Absent
       \/ slot = "issued" /\ relation # "none"
    /\ \/ Serve("drop", slot)
       \/ slot = "issued" /\ relation = "saved" /\ Serve("rotate", slot)
    /\ remove({row[c] : c \in Columns(slot)} \ {Absent})
    /\ UNCHANGED <<legacy, row, relation, phase, job, work, seen, current, known,
                   lost, resets, crashes>>

\* The row is deleted, or its columns cleared and a new grant minted.
ChangeRow ==
    /\ task.pc \in {"drop", "rotate"}
    /\ row' = [s \in Slots |-> IF s \in Columns(task.slot) THEN Absent ELSE row[s]]
    /\ relation' = IF task.pc = "drop" /\ Kind(task.slot) = "grant" THEN "none" ELSE relation
    /\ IF task.pc = "drop"
       THEN task' = NoTask /\ UNCHANGED job
       ELSE /\ task' = [pc |-> "protect", slot |-> task.slot]
            /\ job' = [job EXCEPT !["task"] = NewSecret(task.slot)]
    /\ UNCHANGED <<item, meta, legacy, phase, work, seen, current, known, lost, bounds>>

-------------------------------------------------------------------------------
(* Faults and the explicit reset.                                           *)

\* The platform loses or damages an item.
Lose(h) ==
    /\ item[h] \notin {Absent, "bad"}
    /\ Cardinality(lost \cup {h}) <= MaxLost
    /\ \E remains \in {Absent, "bad"} : item' = [item EXCEPT ![h] = remains]
    /\ lost' = lost \cup {h}
    /\ UNCHANGED <<meta, legacy, row, relation, phase, job, work, seen, task, current,
                   known, bounds>>

\* The process stops, or the start ends because the store is locked.
Crash ==
    /\ phase # "down" /\ crashes < MaxCrashes
    /\ crashes' = crashes + 1
    /\ Goto("down")
    /\ job' = [p \in {"start", "task"} |-> NoJob]
    /\ work' = {} /\ seen' = {}
    /\ task' = NoTask
    /\ current' = Absent
    /\ UNCHANGED <<durable, known, lost, requests, resets>>

\* Refused while the identity can be read.
require_unrecoverable_endpoint_identity ==
    \A h \in Handles : Identity(h) => ~validate_material(h)

\* One transaction ends every trust bound to the identity and returns the
\* handles whose items are to be deleted.
reset_identity_bound_state ==
    /\ work' = {h \in Handles : Known(h)}
    /\ meta' = [h \in Handles |-> NoEntry]
    /\ row' = [slot \in Slots |-> Absent]
    /\ relation' = "none"

\* The user's explicit reset, before a start: the items are deleted next, and
\* the start follows.
reset_unrecoverable_identity ==
    /\ phase = "down" /\ resets < MaxResets
    /\ require_unrecoverable_endpoint_identity
    /\ reset_identity_bound_state
    /\ resets' = resets + 1
    /\ known' = Absent
    /\ Goto("reset")
    /\ UNCHANGED <<item, legacy, job, seen, task, current, lost, requests, crashes>>

delete_reset_handles(h) ==
    /\ phase = "reset" /\ h \in work
    /\ item' = [item EXCEPT ![h] = Absent]
    /\ work' = work \ {h}
    /\ UNCHANGED <<meta, phase, seen>> /\ StartOnly

-------------------------------------------------------------------------------

Init ==
    /\ item = [h \in Handles |-> Absent]
    /\ meta = [h \in Handles |-> NoEntry]
    /\ legacy \in LegacyFiles
    /\ row = [slot \in Slots |-> Absent]
    /\ relation = "none"
    /\ phase = "down"
    /\ job = [p \in {"start", "task"} |-> NoJob]
    /\ work = {} /\ seen = {}
    /\ task = NoTask
    /\ current = Absent
    /\ known = legacy
    /\ lost = {}
    /\ requests = 0 /\ resets = 0 /\ crashes = 0

\* Everything a start does once the application is opened.
StartStep ==
    \/ Boot \/ Reconciled
    \/ \E h \in Handles : ReconcileEntry(h) \/ DeleteUnknown(h) \/ delete_reset_handles(h)
    \/ migrate_legacy_endpoint_identity
    \/ initialize_endpoint_identity
    \/ Put("start") \/ Stage("start") \/ Activate("start")
    \/ remove_legacy_identity_durably
    \/ remove_orphaned_targeted_authorizations
    \/ ReconcileEligibility \/ ReconcileGrants \/ RemoveUnused

RequestStep ==
    \/ \E slot \in Slots : Protect(slot) \/ RemoveSecrets(slot)
    \/ Put("task") \/ Stage("task") \/ StageFails \/ Activate("task")
    \/ WriteRow \/ WriteRowFails \/ ProtectFails \/ Relate \/ ChangeRow

Next ==
    \/ StartStep
    \/ RequestStep
    \/ \E h \in Handles : Lose(h)
    \/ Crash
    \/ reset_unrecoverable_identity

Spec == Init /\ [][Next]_vars /\ WF_vars(StartStep)

-------------------------------------------------------------------------------

Jobs == [pc : {"idle", "put", "stage", "activate", "protected"},
         kind : {"none", "identity", "eligibility", "grant", "authorization"},
         key : Materials, handle : Handles \cup {Absent}]

VariableTypes ==
    /\ item \in [Handles -> Materials]
    /\ meta \in [Handles -> Entries]
    /\ legacy \in Keys \cup {Absent}
    /\ row \in [Slots -> Handles \cup {Absent}]
    /\ relation \in {"none", "pending", "saved"}
    /\ phase \in Phases
    /\ job \in [{"start", "task"} -> Jobs]
    /\ work \in SUBSET Handles /\ seen \in SUBSET Handles /\ lost \in SUBSET Handles
    /\ task \in [pc : {"idle", "protect", "drop", "rotate"}, slot : Slots \cup {"none"}]
    /\ current \in Keys \cup {Absent} /\ known \in Keys \cup {Absent}

BoundTypes ==
    requests \in 0..MaxRequests /\ resets \in 0..MaxResets /\ crashes \in 0..MaxCrashes

\* An entry expects a key exactly when it is an identity, and the index keeps
\* at most one identity that is not disabled.
MetadataOK ==
    /\ \A h \in Handles : meta[h].kind = "identity" <=> meta[h].expected \in Keys
    /\ \A h \in Handles : meta[h].kind = "none" <=> meta[h].state = "none"
    /\ \A g, h \in Handles : Identity(g) /\ Identity(h) => g = h

\* Every variable has its type, and the metadata describe at most one identity,
\* with the endpoint it belongs to.
TypeOK == VariableTypes /\ BoundTypes /\ MetadataOK

\* The endpoint never runs with another key than the one the profile had, in
\* its legacy file or from its first start, unless the user asked for a reset:
\* a lost or damaged identity ends the start and is never replaced silently.
IdentityNeverReplaced == current \in {Absent, known}

\* Wherever the process stops, the key of the profile is still in the legacy
\* file or in an item that the next start will use, or it was the platform
\* that lost that item: no step of the code destroys the last copy.
KeyRecoverable ==
    known # Absent =>
        \/ legacy = known
        \/ \E h \in Handles : /\ Identity(h) /\ meta[h].expected = known
                              /\ (item[h] = known \/ h \in lost)

\* An eligibility, and the issued grant of a saved relationship, can be loaded
\* unless the platform lost the item.
Backed ==
    /\ row["eligibility"] # Absent => load(row["eligibility"]) \/ row["eligibility"] \in lost
    /\ relation = "saved" =>
        row["issued"] # Absent /\ (load(row["issued"]) \/ row["issued"] \in lost)

\* A start ends with every row backed, however the removal, the rotation or the
\* write that an earlier stop cut off had left the rows, the metadata and the
\* store: reconciliation drops the rows and keeps the secrets it should.
StartBacksRows == [][phase # "running" /\ phase' = "running" => Backed']_vars

\* The identity is there and cannot be read.
Unrecoverable == \E h \in Handles : Identity(h) /\ ~validate_material(h)

\* Once the process stops no more, a start completes, unless the identity was
\* lost: no sequence of stops, losses and resets leaves a profile that fails
\* every start.
StartCompletes == <>[](phase = "running" \/ Unrecoverable)
===============================================================================
