------------------------- MODULE SecretCustody_proofs -------------------------
(***************************************************************************)
(* Proofs about SecretCustody: for every set of handles and keys, every     *)
(* number of requests, losses, resets and stops, and whenever requests      *)
(* arrive, no step of the code destroys the last copy of the endpoint key   *)
(* and the endpoint never runs with another key.  When requests wait for   *)
(* the start, it ends with the secret of every row in its place.           *)
(***************************************************************************)
EXTENDS SecretCustody, TLAPS

-------------------------------------------------------------------------------
(* The inductive invariant.                                                 *)

\* Before the router accepts anyone no request is served, and outside the
\* adoption of an identity the start protects nothing.
PhaseInv ==
    /\ phase \in {"down", "reset", "reconcile", "identity", "adopt", "authorizations"} =>
        job["task"] = NoJob /\ task = NoTask
    /\ phase \in {"down", "reset", "reconcile", "identity", "adopt"} => current = Absent
    /\ phase # "adopt" => job["start"] = NoJob
    /\ phase = "adopt" => job["start"].pc # "idle" /\ job["start"].kind = "identity"
    /\ phase = "reconcile" => \A h \in seen : ~Known(h)
    /\ phase = "reconcile" => \A h \in work : Known(h)
    /\ phase = "reset" => known = Absent /\ \A h \in Handles : ~Known(h)

\* While an identity is adopted its key is the profile's, and once its entry is
\* staged that entry holds the key.
AdoptInv ==
    phase = "adopt" =>
        /\ job["start"].key \in Keys
        /\ known \in {Absent, job["start"].key}
        /\ job["start"].pc \in {"put", "stage"} =>
            (\A h \in Handles : ~Identity(h)) /\ (known # Absent => legacy = known)
        /\ job["start"].pc = "stage" =>
            /\ job["start"].handle \in Handles /\ ~Known(job["start"].handle)
            /\ item[job["start"].handle] = job["start"].key \/ job["start"].handle \in lost
        /\ job["start"].pc \in {"activate", "protected"} =>
            /\ job["start"].handle \in Handles /\ Identity(job["start"].handle)
            /\ meta[job["start"].handle].expected = job["start"].key
            /\ item[job["start"].handle] = job["start"].key \/ job["start"].handle \in lost

\* A request never holds the handle of an identity.
TaskInv ==
    /\ job["task"].pc # "idle" => job["task"].kind \notin {"identity", "none"} /\ job["task"].key = "token"
    /\ job["task"].pc = "stage" => job["task"].handle \in Handles /\ ~Known(job["task"].handle)
    /\ job["task"].pc \in {"activate", "protected"} =>
        /\ job["task"].handle \in Handles
        /\ Known(job["task"].handle) /\ meta[job["task"].handle].kind # "identity"
    /\ task.pc # "idle" => task.slot # "none"

\* Neither does a row.
RowInv ==
    \A slot \in Slots : row[slot] # Absent =>
        Known(row[slot]) /\ meta[row[slot]].kind # "identity"

CustodyInv ==
    /\ TypeOK
    /\ KeyRecoverable
    /\ IdentityNeverReplaced
    /\ PhaseInv
    /\ AdoptInv
    /\ TaskInv
    /\ RowInv

-------------------------------------------------------------------------------
(* Facts used for several actions.                                          *)

\* A removal leaves the entries outside the set alone and changes nothing of
\* an entry but its state.
LEMMA RemoveFacts ==
    ASSUME TypeOK, NEW hs \in SUBSET Handles, remove(hs)
    PROVE  /\ meta' \in [Handles -> Entries]
           /\ item' \in [Handles -> Materials]
           /\ \A h \in Handles : meta'[h].kind = meta[h].kind
           /\ \A h \in Handles : meta'[h].expected = meta[h].expected
           /\ \A h \in Handles : Known(h)' <=> Known(h)
           /\ \A h \in Handles \ hs : meta'[h] = meta[h] /\ item'[h] = item[h]
<1>1. PICK disabled \in SUBSET {h \in hs : Known(h)}, deleted \in SUBSET hs :
        /\ meta' = [h \in Handles |-> IF h \in disabled THEN Marked(h, "disabled") ELSE meta[h]]
        /\ item' = [h \in Handles |-> IF h \in deleted THEN Absent ELSE item[h]]
  BY DEF remove
<1>2. item' \in [Handles -> Materials]
  BY <1>1 DEF TypeOK, VariableTypes, Materials
<1>3. \A h \in Handles : meta'[h] = IF h \in disabled THEN Marked(h, "disabled") ELSE meta[h]
  BY <1>1
<1>4. \A h \in Handles : meta[h] \in Entries
  BY DEF TypeOK, VariableTypes
<1>5. \A h \in Handles : Marked(h, "disabled") \in Entries
  BY <1>4 DEF Marked, Entries
<1>6. meta' \in [Handles -> Entries]
  BY <1>1, <1>3, <1>4, <1>5
<1>a. \A h \in Handles : /\ Marked(h, "disabled").kind = meta[h].kind
                         /\ Marked(h, "disabled").expected = meta[h].expected
  BY DEF Marked
<1>7. \A h \in Handles : meta'[h].kind = meta[h].kind
  BY <1>3, <1>a
<1>10. \A h \in Handles : meta'[h].expected = meta[h].expected
  BY <1>3, <1>a
<1>9. \A h \in Handles : Known(h)' <=> Known(h)
  BY <1>1, <1>3, <1>4 DEF Marked, Known
<1>8. \A h \in Handles \ hs : meta'[h] = meta[h] /\ item'[h] = item[h]
  BY <1>1, <1>3
<1> QED BY <1>2, <1>6, <1>7, <1>8, <1>9, <1>10

\* The key stays recoverable when every identity keeps its entry and its item.
LEMMA KeyKept ==
    ASSUME KeyRecoverable, legacy' = legacy, known' = known,
           \A h \in Handles : Identity(h) =>
                /\ Identity(h)' /\ meta'[h].expected = meta[h].expected
                /\ item'[h] = item[h] \/ h \in lost'
                /\ h \in lost => h \in lost'
    PROVE  KeyRecoverable'
  BY DEF KeyRecoverable

\* What a step that removes no identity leaves.
Trimmed ==
    /\ meta' \in [Handles -> Entries]
    /\ item' \in [Handles -> Materials]
    /\ \A h \in Handles : Known(h)' <=> Known(h)
    /\ \A h \in Handles : meta'[h].kind = meta[h].kind
    /\ MetadataOK'
    /\ KeyRecoverable'

\* A removal that spares identities.
LEMMA RemoveTrims ==
    ASSUME CustodyInv, NEW hs \in SUBSET Handles, remove(hs),
           \A h \in hs : meta[h].kind # "identity",
           legacy' = legacy, known' = known, lost' = lost
    PROVE  Trimmed
<1>1. /\ meta' \in [Handles -> Entries]
      /\ item' \in [Handles -> Materials]
  BY RemoveFacts DEF CustodyInv
<1>2. \A h \in Handles : meta'[h].kind = meta[h].kind
  BY RemoveFacts DEF CustodyInv
<1>3. \A h \in Handles : meta'[h].expected = meta[h].expected
  BY RemoveFacts DEF CustodyInv
<1>4. \A h \in Handles : Known(h)' <=> Known(h)
  BY RemoveFacts DEF CustodyInv
<1>5. \A h \in Handles \ hs : meta'[h] = meta[h] /\ item'[h] = item[h]
  BY RemoveFacts DEF CustodyInv
<1>6. \A h \in Handles : Identity(h)' <=> Identity(h)
  BY <1>2, <1>5 DEF Identity
<1>7. MetadataOK'
  <2>1. \A h \in Handles : meta'[h].kind = "identity" <=> meta'[h].expected \in Keys
    BY <1>2, <1>3 DEF CustodyInv, TypeOK, MetadataOK
  <2>2. \A h \in Handles : meta'[h].kind = "none" <=> meta'[h].state = "none"
    BY <1>2, <1>4 DEF CustodyInv, TypeOK, MetadataOK, Known
  <2>3. \A g, h \in Handles : Identity(g)' /\ Identity(h)' => g = h
    BY <1>6 DEF CustodyInv, TypeOK, MetadataOK
  <2> QED BY <2>1, <2>2, <2>3 DEF MetadataOK
<1>8. KeyRecoverable'
  <2>1. \A h \in Handles : Identity(h) => h \notin hs
    BY DEF Identity
  <2> QED BY <1>3, <1>5, <1>6, <2>1, KeyKept DEF CustodyInv
<1> QED BY <1>1, <1>2, <1>4, <1>7, <1>8 DEF Trimmed

\* A step that changes neither the metadata nor the store.
LEMMA UnchangedTrims ==
    ASSUME CustodyInv, UNCHANGED <<item, meta, legacy, known, lost>>
    PROVE  Trimmed
<1>1. MetadataOK'
  BY DEF CustodyInv, TypeOK, MetadataOK, Identity
<1>2. KeyRecoverable'
  BY DEF CustodyInv, KeyRecoverable, Identity
<1> QED BY <1>1, <1>2 DEF Trimmed, Known, CustodyInv, TypeOK, VariableTypes

-------------------------------------------------------------------------------
(* One lemma per action: it keeps the invariant.                           *)

\* put stores the item under a handle that nothing uses.
LEMMA PutKeeps ==
    ASSUME CustodyInv, NEW p \in {"start", "task"}, Put(p) PROVE CustodyInv'
<1>a. PICK n \in Handles : n = NewHandle /\ Free(n)
  BY DEF Put, NewHandle
<1>b. item[n] = Absent /\ ~Known(n)
  BY <1>a DEF Free
<1>c. job[p] \in Jobs
  BY DEF CustodyInv, TypeOK, VariableTypes
<1>d. item' = [item EXCEPT ![n] = job[p].key]
  BY <1>a DEF Put
<1>e. job' = [job EXCEPT ![p] = Job("stage", job[p].kind, job[p].key, n)]
  BY <1>a DEF Put
<1>f. ~Identity(n)
  BY <1>a, <1>b DEF Identity, CustodyInv, TypeOK, MetadataOK, Known
<1>1. VariableTypes'
  <2>1. item' \in [Handles -> Materials]
    BY <1>a, <1>c, <1>d DEF CustodyInv, TypeOK, VariableTypes, Jobs
  <2>2. job' \in [{"start", "task"} -> Jobs]
    BY <1>a, <1>c, <1>e DEF CustodyInv, TypeOK, VariableTypes, Jobs, Job
  <2>3. lost' \in SUBSET Handles
    BY DEF CustodyInv, TypeOK, VariableTypes, Put
  <2> QED BY <2>1, <2>2, <2>3 DEF CustodyInv, TypeOK, VariableTypes, Put
<1>2. BoundTypes'
  BY DEF CustodyInv, TypeOK, BoundTypes, bounds, Put
<1>3. MetadataOK'
  BY DEF CustodyInv, TypeOK, MetadataOK, Identity, Put, bounds
<1>4. KeyRecoverable'
  <2>1. \A h \in Handles : Identity(h) =>
            h # n /\ item'[h] = item[h] /\ Identity(h)' /\ meta'[h] = meta[h]
    BY <1>d, <1>f DEF CustodyInv, TypeOK, VariableTypes, Put, Identity
  <2>2. lost' = lost \ {n}
    BY <1>a DEF Put
  <2> QED BY <2>1, <2>2 DEF CustodyInv, KeyRecoverable, Put
<1>5. IdentityNeverReplaced'
  BY DEF CustodyInv, IdentityNeverReplaced, Put, bounds
<1>6. PhaseInv'
  BY AbsentAssumption DEF CustodyInv, PhaseInv, TypeOK, VariableTypes, Known, Jobs, Job,
     NoJob, NoTask, Put, bounds
<1>7. AdoptInv'
  <2>1. SUFFICES ASSUME phase' = "adopt" PROVE AdoptInv'
    BY DEF AdoptInv
  <2>2. p = "start" /\ phase = "adopt"
    BY <2>1 DEF CustodyInv, PhaseInv, Put, NoJob, Job
  <2>3. job'["start"] = Job("stage", job["start"].kind, job["start"].key, n)
    BY <1>e, <2>2 DEF CustodyInv, TypeOK, VariableTypes
  <2>4. item'[n] = job["start"].key
    BY <1>a, <1>d, <2>2 DEF CustodyInv, TypeOK, VariableTypes
  <2>5. \A h \in Handles : ~Identity(h)'
    BY <2>2 DEF CustodyInv, AdoptInv, Put, Identity
  <2>6. ~Known(n)'
    BY <1>b DEF Known, Put
  <2>7. known' = known /\ legacy' = legacy
    BY DEF Put
  <2>8. job["start"].pc = "put"
    BY <2>2 DEF Put
  <2>9. /\ job'["start"].pc = "stage" /\ job'["start"].handle = n
        /\ job'["start"].key = job["start"].key
    BY <2>3 DEF Job
  <2> QED BY <1>a, <2>9, <2>2, <2>4, <2>5, <2>6, <2>7, <2>8 DEF CustodyInv, AdoptInv
<1>8. TaskInv'
  BY <1>a, <1>b, <1>c, <1>e DEF CustodyInv, TypeOK, VariableTypes, TaskInv, Put, Job, Known
<1>9. RowInv'
  BY DEF CustodyInv, RowInv, Known, Put, bounds
<1> QED BY <1>1, <1>2, <1>3, <1>4, <1>5, <1>6, <1>7, <1>8, <1>9 DEF CustodyInv, TypeOK

\* The entry is staged: an identity only if there is no other.
LEMMA StageKeeps ==
    ASSUME CustodyInv, NEW p \in {"start", "task"}, Stage(p) PROVE CustodyInv'
<1>a. /\ job[p] \in Jobs
      /\ job[p].handle \in Handles /\ ~Known(job[p].handle)
      /\ job[p].key \in Keys \cup {"token"}
      /\ job[p].kind # "none"
  BY DEF CustodyInv, TypeOK, VariableTypes, PhaseInv, AdoptInv, TaskInv, Stage, NoJob, Job
<1>b. /\ meta' = [meta EXCEPT ![job[p].handle] = Entry(job[p].kind, "staged", job[p].key)]
      /\ job' = [job EXCEPT ![p] = Job("activate", job[p].kind, job[p].key, job[p].handle)]
  BY DEF Stage
<1>c. \A h \in Handles : meta'[h] = IF h = job[p].handle
                                    THEN Entry(job[p].kind, "staged", job[p].key) ELSE meta[h]
  BY <1>a, <1>b DEF CustodyInv, TypeOK, VariableTypes
<1>d. ~Identity(job[p].handle)
  BY <1>a DEF Identity, CustodyInv, TypeOK, MetadataOK, Known
<1>1. VariableTypes'
  <2>1. Entry(job[p].kind, "staged", job[p].key) \in Entries
    BY <1>a DEF Entry, Entries, Jobs
  <2>2. meta' \in [Handles -> Entries]
    BY <1>a, <1>b, <2>1 DEF CustodyInv, TypeOK, VariableTypes
  <2>3. job' \in [{"start", "task"} -> Jobs]
    BY <1>a, <1>b DEF CustodyInv, TypeOK, VariableTypes, Jobs, Job
  <2> QED BY <2>2, <2>3 DEF CustodyInv, TypeOK, VariableTypes, Stage
<1>2. BoundTypes'
  BY DEF CustodyInv, TypeOK, BoundTypes, bounds, Stage
<1>3. MetadataOK'
  <2>1. job[p].kind = "identity" <=> job[p].key \in Keys
    BY AbsentAssumption DEF CustodyInv, PhaseInv, AdoptInv, TaskInv, Stage, NoJob, Job
  <2>2. \A h \in Handles : meta'[h].kind = "identity" <=> meta'[h].expected \in Keys
    BY <1>c, <2>1 DEF CustodyInv, TypeOK, MetadataOK, Entry
  <2>3. \A h \in Handles : meta'[h].kind = "none" <=> meta'[h].state = "none"
    BY <1>a, <1>c DEF CustodyInv, TypeOK, MetadataOK, Entry
  <2>4. \A g, h \in Handles : Identity(g)' /\ Identity(h)' => g = h
    BY <1>c DEF CustodyInv, TypeOK, MetadataOK, Entry, Identity, Stage
  <2> QED BY <2>2, <2>3, <2>4 DEF MetadataOK
<1>4. KeyRecoverable'
  <2>1. \A h \in Handles : Identity(h) => Identity(h)' /\ meta'[h] = meta[h]
    BY <1>c, <1>d DEF Identity
  <2> QED BY <2>1 DEF CustodyInv, KeyRecoverable, Stage
<1>5. IdentityNeverReplaced'
  BY DEF CustodyInv, IdentityNeverReplaced, Stage, bounds
<1>6. PhaseInv'
  BY AbsentAssumption DEF CustodyInv, PhaseInv, TypeOK, VariableTypes, Known, Jobs, Job,
     NoJob, NoTask, Stage, bounds, Entry
<1>7. AdoptInv'
  BY AbsentAssumption DEF CustodyInv, AdoptInv, TypeOK, VariableTypes, PhaseInv, Identity,
     Known, NoJob, Job, Stage, bounds, Entry
<1>8. TaskInv'
  BY AbsentAssumption DEF CustodyInv, TaskInv, TypeOK, VariableTypes, PhaseInv, Known, NoJob,
     Job, NoTask, Slots, Stage, bounds, Entry
<1>9. RowInv'
  <2>1. \A slot \in Slots : row[slot] # Absent => row[slot] # job[p].handle /\ row[slot] \in Handles
    BY <1>a DEF CustodyInv, RowInv, TypeOK, VariableTypes
  <2> QED BY <1>c, <2>1 DEF CustodyInv, RowInv, Stage, Known
<1> QED BY <1>1, <1>2, <1>3, <1>4, <1>5, <1>6, <1>7, <1>8, <1>9 DEF CustodyInv, TypeOK

\* A failed insertion deletes the item of a request, never the identity.
LEMMA StageFailsKeeps ==
    ASSUME CustodyInv, StageFails PROVE CustodyInv'
<1>0. Trimmed
  <2>1. /\ job["task"].handle \in Handles
        /\ meta[job["task"].handle].kind # "identity"
    BY DEF CustodyInv, TaskInv, StageFails, TypeOK, MetadataOK, Known
  <2> QED BY <2>1, RemoveTrims DEF StageFails
<1>1. VariableTypes'
  BY <1>0, AbsentAssumption DEF Trimmed, CustodyInv, TypeOK, VariableTypes, Jobs, Materials,
     Slots, Phases, StageFails, NoJob, Job, NoTask
<1>2. BoundTypes'
  BY BoundsAssumption DEF CustodyInv, TypeOK, BoundTypes, StageFails, bounds
<1>3. MetadataOK'
  BY <1>0 DEF Trimmed
<1>4. KeyRecoverable'
  BY <1>0 DEF Trimmed
<1>5. IdentityNeverReplaced'
  BY DEF CustodyInv, IdentityNeverReplaced, StageFails, bounds
<1>6. PhaseInv'
  BY EnvironmentAssumption, <1>0 DEF Trimmed, CustodyInv, TypeOK, VariableTypes, PhaseInv,
     NoJob, Job, NoTask, bounds, StageFails
<1>7. AdoptInv'
  BY AbsentAssumption DEF CustodyInv, AdoptInv, TypeOK, VariableTypes, PhaseInv, Identity,
     Known, NoJob, Job, StageFails, bounds
<1>8. TaskInv'
  BY <1>0 DEF Trimmed, CustodyInv, TypeOK, VariableTypes, TaskInv, PhaseInv, NoJob, Job,
     NoTask, Slots, StageFails
<1>9. RowInv'
  BY <1>0 DEF Trimmed, CustodyInv, TypeOK, VariableTypes, RowInv, StageFails
<1> QED BY <1>1, <1>2, <1>3, <1>4, <1>5, <1>6, <1>7, <1>8, <1>9 DEF CustodyInv, TypeOK

\* Activation changes the state of one entry and nothing else of it.
LEMMA ActivateKeeps ==
    ASSUME CustodyInv, NEW p \in {"start", "task"}, Activate(p) PROVE CustodyInv'
<1>a. /\ job[p] \in Jobs /\ job[p].handle \in Handles
      /\ Known(job[p].handle) /\ meta[job[p].handle] \in Entries
  BY DEF CustodyInv, TypeOK, VariableTypes, PhaseInv, AdoptInv, TaskInv, Activate, NoJob,
     Job, MetadataOK, Identity, Known
<1>b. /\ meta' = [meta EXCEPT ![job[p].handle] = Marked(job[p].handle, "active")]
      /\ job' = [job EXCEPT ![p] = Job("protected", job[p].kind, job[p].key, job[p].handle)]
  BY DEF Activate
<1>c. \A h \in Handles : meta'[h] = IF h = job[p].handle
                                    THEN Marked(job[p].handle, "active") ELSE meta[h]
  BY <1>a, <1>b DEF CustodyInv, TypeOK, VariableTypes
<1>d. p = "start" => Identity(job[p].handle)
  BY DEF CustodyInv, PhaseInv, AdoptInv, Activate, NoJob, Job
<1>e. p = "task" => meta[job[p].handle].kind # "identity"
  BY DEF CustodyInv, TaskInv, Activate
<1>1. VariableTypes'
  <2>1. Marked(job[p].handle, "active") \in Entries
    BY <1>a DEF Marked, Entries
  <2>2. meta' \in [Handles -> Entries]
    BY <1>a, <1>b, <2>1 DEF CustodyInv, TypeOK, VariableTypes
  <2>3. job' \in [{"start", "task"} -> Jobs]
    BY <1>a, <1>b DEF CustodyInv, TypeOK, VariableTypes, Jobs, Job
  <2> QED BY <2>2, <2>3 DEF CustodyInv, TypeOK, VariableTypes, Activate
<1>2. BoundTypes'
  BY DEF CustodyInv, TypeOK, BoundTypes, bounds, Activate
<1>3. MetadataOK'
  <2>1. \A h \in Handles : /\ meta'[h].kind = meta[h].kind
                             /\ meta'[h].expected = meta[h].expected
    BY <1>c DEF Marked
  <2>2. \A h \in Handles : meta'[h].state = "none" <=> meta[h].state = "none"
    BY <1>a, <1>c DEF Marked, Known
  <2>3. \A h \in Handles : Identity(h)' <=> Identity(h)
    BY <1>c, <1>d, <1>e DEF Marked, Identity
  <2> QED BY <2>1, <2>2, <2>3 DEF CustodyInv, TypeOK, MetadataOK
<1>4. KeyRecoverable'
  BY AbsentAssumption DEF CustodyInv, KeyRecoverable, Identity, Known, TypeOK, VariableTypes,
     PhaseInv, MetadataOK, Activate, bounds, Job, Marked
<1>5. IdentityNeverReplaced'
  BY DEF CustodyInv, IdentityNeverReplaced, Activate, bounds
<1>6. PhaseInv'
  BY AbsentAssumption DEF CustodyInv, PhaseInv, TypeOK, VariableTypes, Known, Jobs, Job,
     NoJob, NoTask, Activate, bounds, Marked
<1>7. AdoptInv'
  BY AbsentAssumption DEF CustodyInv, AdoptInv, TypeOK, VariableTypes, PhaseInv, Identity,
     Known, NoJob, Job, Activate, bounds, Marked
<1>8. TaskInv'
  BY AbsentAssumption DEF CustodyInv, TaskInv, TypeOK, VariableTypes, PhaseInv, Known, NoJob,
     Job, NoTask, Slots, Activate, bounds, Marked
<1>9. RowInv'
  BY AbsentAssumption DEF CustodyInv, RowInv, Known, TypeOK, VariableTypes, Slots, Activate,
     bounds, Job, Marked
<1> QED BY <1>1, <1>2, <1>3, <1>4, <1>5, <1>6, <1>7, <1>8, <1>9 DEF CustodyInv, TypeOK

\* A start reads both lists before it changes anything.
LEMMA BootKeeps ==
    ASSUME CustodyInv, Boot PROVE CustodyInv'
<1>1. VariableTypes'
  BY AbsentAssumption DEF CustodyInv, TypeOK, VariableTypes, Entries, Materials, Jobs, Slots,
     Phases, Boot, StartOnly, Goto, bounds
<1>2. BoundTypes'
  BY BoundsAssumption DEF CustodyInv, TypeOK, BoundTypes, Boot, StartOnly, bounds
<1>3. MetadataOK'
  BY DEF CustodyInv, TypeOK, MetadataOK, Identity, Boot, StartOnly, bounds
<1>4. KeyRecoverable'
  BY DEF CustodyInv, KeyRecoverable, Identity, Boot, StartOnly, bounds
<1>5. IdentityNeverReplaced'
  BY DEF CustodyInv, IdentityNeverReplaced, Boot, StartOnly, bounds
<1>6. PhaseInv'
  BY DEF CustodyInv, PhaseInv, Known, Boot, StartOnly, bounds, Goto
<1>7. AdoptInv'
  BY DEF CustodyInv, AdoptInv, Identity, Known, PhaseInv, Boot, StartOnly, bounds, Goto
<1>8. TaskInv'
  BY DEF CustodyInv, TaskInv, Known, Boot, StartOnly, bounds
<1>9. RowInv'
  BY DEF CustodyInv, RowInv, Known, Boot, StartOnly, bounds
<1> QED BY <1>1, <1>2, <1>3, <1>4, <1>5, <1>6, <1>7, <1>8, <1>9 DEF CustodyInv, TypeOK

\* reconcile never disables the entry of an identity that is not disabled.
LEMMA ReconcileEntryKeeps ==
    ASSUME CustodyInv, NEW h \in Handles, ReconcileEntry(h) PROVE CustodyInv'
<1>a. \A state \in {"active", "disabled"} : Marked(h, state) \in Entries
  BY DEF CustodyInv, TypeOK, VariableTypes, Marked, Entries
<1>b. /\ item' \in [Handles -> Materials] /\ meta' \in [Handles -> Entries]
      /\ meta' = meta \/ \E state \in {"active", "disabled"} : meta' = [meta EXCEPT ![h] = Marked(h, state)]
  BY <1>a DEF CustodyInv, TypeOK, VariableTypes, ReconcileEntry, Materials
<1>1. VariableTypes'
  <2>1. work' \in SUBSET Handles /\ seen' \in SUBSET Handles /\ phase' \in Phases
    BY DEF CustodyInv, TypeOK, VariableTypes, ReconcileEntry, Goto, Phases
  <2> QED BY <1>b, <2>1 DEF CustodyInv, TypeOK, VariableTypes, ReconcileEntry, StartOnly
<1>2. BoundTypes'
  BY DEF CustodyInv, TypeOK, BoundTypes, bounds, ReconcileEntry, StartOnly
<1>3. MetadataOK'
  <2>1. \A g \in Handles : meta'[g].kind = meta[g].kind /\ meta'[g].expected = meta[g].expected
    BY <1>b DEF CustodyInv, TypeOK, VariableTypes, Marked
  <2>2. Known(h) /\ (meta' # meta /\ Identity(h) => meta' = [meta EXCEPT ![h] = Marked(h, "active")])
    BY DEF CustodyInv, PhaseInv, ReconcileEntry, Identity
  <2>3. \A g \in Handles : meta'[g].state = "none" <=> meta[g].state = "none"
    BY <1>b, <2>2 DEF CustodyInv, TypeOK, VariableTypes, Marked, Known
  <2>4. \A g \in Handles : Identity(g)' <=> Identity(g)
    BY DEF CustodyInv, TypeOK, VariableTypes, Marked, Identity, ReconcileEntry
  <2> QED BY <2>1, <2>3, <2>4 DEF CustodyInv, TypeOK, MetadataOK
<1>4. KeyRecoverable'
  BY AbsentAssumption DEF CustodyInv, KeyRecoverable, Identity, Known, TypeOK, VariableTypes,
     PhaseInv, MetadataOK, ReconcileEntry, StartOnly, bounds, Marked, validate_material
<1>5. IdentityNeverReplaced'
  BY DEF CustodyInv, IdentityNeverReplaced, ReconcileEntry, StartOnly, bounds
<1>6. PhaseInv'
  BY AbsentAssumption DEF CustodyInv, PhaseInv, TypeOK, VariableTypes, Known, Jobs, Job,
     NoJob, NoTask, ReconcileEntry, StartOnly, Goto, bounds, Marked, validate_material
<1>7. AdoptInv'
  BY DEF CustodyInv, AdoptInv, Identity, Known, PhaseInv, ReconcileEntry, StartOnly, bounds,
     Goto
<1>8. TaskInv'
  BY AbsentAssumption DEF CustodyInv, TaskInv, TypeOK, VariableTypes, PhaseInv, Known, NoJob,
     Job, NoTask, Slots, ReconcileEntry, StartOnly, bounds, Marked, validate_material
<1>9. RowInv'
  BY AbsentAssumption DEF CustodyInv, RowInv, Known, TypeOK, VariableTypes, Slots,
     ReconcileEntry, StartOnly, bounds, Marked, validate_material
<1> QED BY <1>1, <1>2, <1>3, <1>4, <1>5, <1>6, <1>7, <1>8, <1>9 DEF CustodyInv, TypeOK

\* Items that no entry knows are no identity.
LEMMA DeleteUnknownKeeps ==
    ASSUME CustodyInv, NEW h \in Handles, DeleteUnknown(h) PROVE CustodyInv'
<1>1. VariableTypes'
  BY AbsentAssumption DEF CustodyInv, TypeOK, VariableTypes, Entries, Materials, Jobs, Slots,
     Phases, DeleteUnknown, StartOnly, bounds
<1>2. BoundTypes'
  BY BoundsAssumption DEF CustodyInv, TypeOK, BoundTypes, DeleteUnknown, StartOnly, bounds
<1>3. MetadataOK'
  BY DEF CustodyInv, TypeOK, MetadataOK, Identity, DeleteUnknown, StartOnly, bounds
<1>4. KeyRecoverable'
  BY AbsentAssumption DEF CustodyInv, KeyRecoverable, Identity, Known, TypeOK, VariableTypes,
     PhaseInv, MetadataOK, DeleteUnknown, StartOnly, bounds
<1>5. IdentityNeverReplaced'
  BY DEF CustodyInv, IdentityNeverReplaced, DeleteUnknown, StartOnly, bounds
<1>6. PhaseInv'
  BY DEF CustodyInv, PhaseInv, Known, DeleteUnknown, StartOnly, bounds
<1>7. AdoptInv'
  BY DEF CustodyInv, AdoptInv, Identity, Known, PhaseInv, DeleteUnknown, StartOnly, bounds
<1>8. TaskInv'
  BY DEF CustodyInv, TaskInv, Known, DeleteUnknown, StartOnly, bounds
<1>9. RowInv'
  BY DEF CustodyInv, RowInv, Known, DeleteUnknown, StartOnly, bounds
<1> QED BY <1>1, <1>2, <1>3, <1>4, <1>5, <1>6, <1>7, <1>8, <1>9 DEF CustodyInv, TypeOK

\* The end of reconciliation changes the phase only.
LEMMA ReconciledKeeps ==
    ASSUME CustodyInv, Reconciled PROVE CustodyInv'
<1>1. VariableTypes'
  BY AbsentAssumption DEF CustodyInv, TypeOK, VariableTypes, Entries, Materials, Jobs, Slots,
     Phases, Reconciled, StartOnly, Goto, bounds
<1>2. BoundTypes'
  BY BoundsAssumption DEF CustodyInv, TypeOK, BoundTypes, Reconciled, StartOnly, bounds
<1>3. MetadataOK'
  BY DEF CustodyInv, TypeOK, MetadataOK, Identity, Reconciled, StartOnly, bounds
<1>4. KeyRecoverable'
  BY DEF CustodyInv, KeyRecoverable, Identity, Reconciled, StartOnly, bounds
<1>5. IdentityNeverReplaced'
  BY DEF CustodyInv, IdentityNeverReplaced, Reconciled, StartOnly, bounds
<1>6. PhaseInv'
  BY DEF CustodyInv, PhaseInv, Known, Reconciled, StartOnly, bounds, Goto
<1>7. AdoptInv'
  BY DEF CustodyInv, AdoptInv, Identity, Known, PhaseInv, Reconciled, StartOnly, bounds, Goto
<1>8. TaskInv'
  BY DEF CustodyInv, TaskInv, Known, Reconciled, StartOnly, bounds
<1>9. RowInv'
  BY DEF CustodyInv, RowInv, Known, Reconciled, StartOnly, bounds
<1> QED BY <1>1, <1>2, <1>3, <1>4, <1>5, <1>6, <1>7, <1>8, <1>9 DEF CustodyInv, TypeOK

\* The legacy file goes only once the protected key was read.
LEMMA migrate_legacy_endpoint_identityKeeps ==
    ASSUME CustodyInv, migrate_legacy_endpoint_identity PROVE CustodyInv'
<1>a. PICK h \in ActiveHandles("identity") :
        \/ /\ load(h) /\ legacy \in {Absent, meta[h].expected}
           /\ legacy' = Absent
           /\ RunsWith(meta[h].expected)
        \/ /\ Goto("down")
           /\ UNCHANGED <<legacy, current, known>>
  BY DEF migrate_legacy_endpoint_identity
<1>b. /\ h \in Handles /\ Identity(h)
      /\ meta[h].expected \in Keys
  BY DEF ActiveHandles, Identity, CustodyInv, TypeOK, MetadataOK
<1>1. VariableTypes'
  <2>1. /\ legacy' \in Keys \cup {Absent} /\ current' \in Keys \cup {Absent}
        /\ known' \in Keys \cup {Absent} /\ phase' \in Phases
    BY <1>a, <1>b DEF CustodyInv, TypeOK, VariableTypes, RunsWith, Goto, Phases
  <2> QED BY <2>1 DEF CustodyInv, TypeOK, VariableTypes, migrate_legacy_endpoint_identity
<1>2. BoundTypes'
  BY DEF CustodyInv, TypeOK, BoundTypes, bounds, migrate_legacy_endpoint_identity
<1>3. MetadataOK'
  BY DEF CustodyInv, TypeOK, MetadataOK, Identity, migrate_legacy_endpoint_identity, bounds
<1>4. KeyRecoverable'
  BY AbsentAssumption DEF CustodyInv, KeyRecoverable, Identity, Known, TypeOK, VariableTypes,
     PhaseInv, MetadataOK, migrate_legacy_endpoint_identity, bounds, RunsWith, load,
     validate_material, ActiveHandles
<1>5. IdentityNeverReplaced'
  <2>1. CASE UNCHANGED <<legacy, current, known>>
    BY <2>1 DEF CustodyInv, IdentityNeverReplaced
  <2>2. CASE legacy \in {Absent, meta[h].expected} /\ RunsWith(meta[h].expected)
    <3>1. known \in {Absent, meta[h].expected}
      <4>1. ASSUME known # Absent, legacy # known PROVE known = meta[h].expected
        <5>1. PICK g \in Handles : Identity(g) /\ meta[g].expected = known
          BY <4>1 DEF CustodyInv, KeyRecoverable
        <5>2. g = h
          BY <1>b, <5>1 DEF CustodyInv, TypeOK, MetadataOK
        <5> QED BY <5>1, <5>2
      <4> QED BY <2>2, <4>1
    <3> QED BY <2>2, <3>1 DEF RunsWith, IdentityNeverReplaced
  <2> QED BY <1>a, <2>1, <2>2
<1>6. PhaseInv'
  BY AbsentAssumption DEF CustodyInv, PhaseInv, TypeOK, VariableTypes, Known, Jobs, Job,
     NoJob, NoTask, migrate_legacy_endpoint_identity, Goto, bounds, RunsWith, load,
     validate_material, ActiveHandles
<1>7. AdoptInv'
  BY AbsentAssumption DEF CustodyInv, AdoptInv, TypeOK, VariableTypes, PhaseInv, Identity,
     Known, NoJob, Job, migrate_legacy_endpoint_identity, Goto, bounds, RunsWith, load,
     validate_material, ActiveHandles
<1>8. TaskInv'
  BY DEF CustodyInv, TaskInv, Known, migrate_legacy_endpoint_identity, bounds
<1>9. RowInv'
  BY DEF CustodyInv, RowInv, Known, migrate_legacy_endpoint_identity, bounds
<1> QED BY <1>1, <1>2, <1>3, <1>4, <1>5, <1>6, <1>7, <1>8, <1>9 DEF CustodyInv, TypeOK

\* A key is made or adopted only when there is no identity.
LEMMA initialize_endpoint_identityKeeps ==
    ASSUME CustodyInv, initialize_endpoint_identity PROVE CustodyInv'
<1>a. phase' = "adopt" => \A h \in Handles : ~Identity(h)
  BY DEF initialize_endpoint_identity, ActiveHandles, Identity, CustodyInv, PhaseInv, Goto
<1>b. phase' = "adopt" => IdentityKey \in Keys
  <2>1. (\E k \in Keys : ~Used(k)) => NewKey \in Keys
    BY DEF NewKey
   <2> QED BY <2>1 DEF initialize_endpoint_identity, IdentityKey, Goto, CustodyInv, TypeOK,
     VariableTypes
<1>c. phase' = "adopt" /\ known # Absent => legacy = known
  BY <1>a DEF CustodyInv, KeyRecoverable
<1>d. \/ phase' = "down" /\ job' = job
      \/ phase' = "adopt" /\ job' = [job EXCEPT !["start"] = Job("put", "identity", IdentityKey, Absent)]
  BY DEF initialize_endpoint_identity, Goto
<1>1. VariableTypes'
  <2>1. phase' = "adopt" => Job("put", "identity", IdentityKey, Absent) \in Jobs
    BY <1>b DEF Jobs, Job, Materials
  <2>2. job' \in [{"start", "task"} -> Jobs]
    BY <1>d, <2>1 DEF CustodyInv, TypeOK, VariableTypes
  <2>3. phase' \in Phases
    BY <1>d DEF Phases
   <2> QED BY <2>2, <2>3 DEF CustodyInv, TypeOK, VariableTypes, initialize_endpoint_identity,
     durable
<1>2. BoundTypes'
  BY DEF CustodyInv, TypeOK, BoundTypes, bounds, initialize_endpoint_identity, durable
<1>3. MetadataOK'
  BY DEF CustodyInv, TypeOK, MetadataOK, Identity, initialize_endpoint_identity, durable, bounds
<1>4. KeyRecoverable'
  BY DEF CustodyInv, KeyRecoverable, Identity, initialize_endpoint_identity, durable, bounds
<1>5. IdentityNeverReplaced'
  BY DEF CustodyInv, IdentityNeverReplaced, initialize_endpoint_identity, durable, bounds
<1>6. PhaseInv'
  BY AbsentAssumption DEF CustodyInv, PhaseInv, TypeOK, VariableTypes, Known, Jobs, Job,
     NoJob, NoTask, initialize_endpoint_identity, Goto, bounds, durable, IdentityKey,
     ActiveHandles
<1>7. AdoptInv'
  <2>1. SUFFICES ASSUME phase' = "adopt" PROVE AdoptInv'
    BY DEF AdoptInv
  <2>2. /\ job'["start"].pc = "put" /\ job'["start"].key = IdentityKey
    BY <1>d, <2>1 DEF CustodyInv, TypeOK, VariableTypes, Job
  <2>3. known \in {Absent, IdentityKey}
    BY <1>c, <2>1 DEF IdentityKey
  <2>4. \A h \in Handles : ~Identity(h)'
    BY <1>a, <2>1 DEF initialize_endpoint_identity, durable, Identity
  <2>5. known' = known /\ legacy' = legacy
    BY DEF initialize_endpoint_identity, durable
  <2> QED BY <1>b, <1>c, <2>1, <2>2, <2>3, <2>4, <2>5 DEF AdoptInv
<1>8. TaskInv'
  BY AbsentAssumption DEF CustodyInv, TaskInv, TypeOK, VariableTypes, PhaseInv, Known, NoJob,
     Job, NoTask, Slots, initialize_endpoint_identity, bounds, durable, IdentityKey,
     ActiveHandles
<1>9. RowInv'
  BY DEF CustodyInv, RowInv, Known, initialize_endpoint_identity, durable, bounds
<1> QED BY <1>1, <1>2, <1>3, <1>4, <1>5, <1>6, <1>7, <1>8, <1>9 DEF CustodyInv, TypeOK

\* The legacy file goes only once its key is protected.
LEMMA remove_legacy_identity_durablyKeeps ==
    ASSUME CustodyInv, remove_legacy_identity_durably PROVE CustodyInv'
<1>a. /\ job["start"].handle \in Handles /\ Identity(job["start"].handle)
      /\ meta[job["start"].handle].expected = job["start"].key
      /\ item[job["start"].handle] = job["start"].key \/ job["start"].handle \in lost
      /\ job["start"].key \in Keys
      /\ known \in {Absent, job["start"].key}
  BY DEF remove_legacy_identity_durably, CustodyInv, AdoptInv
<1>b. /\ legacy' = Absent /\ current' = job["start"].key /\ known' = job["start"].key
      /\ phase' = "authorizations" /\ job' = [job EXCEPT !["start"] = NoJob]
      /\ UNCHANGED <<item, meta, row, relation, work, seen, task, lost, bounds>>
  BY <1>a DEF remove_legacy_identity_durably, RunsWith, Goto
<1>1. VariableTypes'
  <2>1. job' \in [{"start", "task"} -> Jobs]
    BY <1>b DEF CustodyInv, TypeOK, VariableTypes, NoJob, Job, Jobs, Materials
  <2> QED BY <1>a, <1>b, <2>1 DEF CustodyInv, TypeOK, VariableTypes, Phases
<1>2. BoundTypes'
  BY DEF CustodyInv, TypeOK, BoundTypes, bounds, remove_legacy_identity_durably
<1>3. MetadataOK'
  BY DEF CustodyInv, TypeOK, MetadataOK, Identity, remove_legacy_identity_durably, bounds
<1>4. KeyRecoverable'
  <2>1. \E h \in Handles : /\ Identity(h)' /\ meta'[h].expected = known'
                             /\ (item'[h] = known' \/ h \in lost')
    BY <1>a, <1>b DEF Identity
  <2> QED BY <2>1 DEF KeyRecoverable
<1>5. IdentityNeverReplaced'
  BY <1>b DEF IdentityNeverReplaced
<1>6. PhaseInv'
  BY AbsentAssumption DEF CustodyInv, PhaseInv, TypeOK, VariableTypes, Known, Jobs, Job,
     NoJob, NoTask, remove_legacy_identity_durably, Goto, bounds, RunsWith
<1>7. AdoptInv'
  BY AbsentAssumption DEF CustodyInv, AdoptInv, TypeOK, VariableTypes, PhaseInv, Identity,
     Known, NoJob, Job, remove_legacy_identity_durably, Goto, bounds, RunsWith
<1>8. TaskInv'
  BY DEF CustodyInv, TaskInv, Known, remove_legacy_identity_durably, bounds
<1>9. RowInv'
  BY DEF CustodyInv, RowInv, Known, remove_legacy_identity_durably, bounds
<1> QED BY <1>1, <1>2, <1>3, <1>4, <1>5, <1>6, <1>7, <1>8, <1>9 DEF CustodyInv, TypeOK

\* Orphaned authorizations are no identities.
LEMMA remove_orphaned_targeted_authorizationsKeeps ==
    ASSUME CustodyInv, remove_orphaned_targeted_authorizations PROVE CustodyInv'
<1>0. Trimmed
  <2>1. CASE UNCHANGED <<item, meta>>
    BY <2>1, UnchangedTrims DEF remove_orphaned_targeted_authorizations
  <2>2. CASE \E h \in ActiveHandles("authorization") : remove({h})
    <3>1. PICK h \in ActiveHandles("authorization") : remove({h})
      BY <2>2
    <3>2. h \in Handles /\ meta[h].kind # "identity"
      BY DEF ActiveHandles
    <3> QED BY <3>1, <3>2, RemoveTrims DEF remove_orphaned_targeted_authorizations
  <2> QED BY <2>1, <2>2 DEF remove_orphaned_targeted_authorizations
<1>1. VariableTypes'
  BY <1>0, AbsentAssumption DEF Trimmed, CustodyInv, TypeOK, VariableTypes, Jobs, Materials,
     Slots, Phases, remove_orphaned_targeted_authorizations, Goto
<1>2. BoundTypes'
  BY DEF CustodyInv, TypeOK, BoundTypes, bounds, remove_orphaned_targeted_authorizations
<1>3. MetadataOK'
  BY <1>0 DEF Trimmed
<1>4. KeyRecoverable'
  BY <1>0 DEF Trimmed
<1>5. IdentityNeverReplaced'
  BY DEF CustodyInv, IdentityNeverReplaced, remove_orphaned_targeted_authorizations, bounds
<1>6. PhaseInv'
  <2>1. phase' \in {"authorizations", "eligibility"} \/ (phase' = "down" /\ current' = Absent)
    BY DEF remove_orphaned_targeted_authorizations, Goto
  <2> QED BY <2>1 DEF CustodyInv, PhaseInv, remove_orphaned_targeted_authorizations, NoJob, Job
<1>7. AdoptInv'
  BY DEF CustodyInv, AdoptInv, Identity, Known, PhaseInv,
     remove_orphaned_targeted_authorizations, bounds, Goto
<1>8. TaskInv'
  BY <1>0 DEF Trimmed, CustodyInv, TypeOK, VariableTypes, TaskInv, PhaseInv, NoJob, Job,
     NoTask, Slots, remove_orphaned_targeted_authorizations
<1>9. RowInv'
  BY <1>0 DEF Trimmed, CustodyInv, TypeOK, VariableTypes, RowInv,
     remove_orphaned_targeted_authorizations
<1> QED BY <1>1, <1>2, <1>3, <1>4, <1>5, <1>6, <1>7, <1>8, <1>9 DEF CustodyInv, TypeOK

\* The secret of an eligibility is no identity.
LEMMA ReconcileEligibilityKeeps ==
    ASSUME CustodyInv, ReconcileEligibility PROVE CustodyInv'
<1>0. Trimmed
  <2>1. CASE UNCHANGED <<item, meta>>
    BY <2>1, UnchangedTrims DEF ReconcileEligibility
  <2>2. CASE \E h \in {row["eligibility"]} \ {Absent} : remove({h})
    <3>1. PICK h \in {row["eligibility"]} \ {Absent} : remove({h})
      BY <2>2
    <3>2. h \in Handles /\ meta[h].kind # "identity"
      BY DEF CustodyInv, RowInv, Slots, TypeOK, VariableTypes
    <3> QED BY <3>1, <3>2, RemoveTrims DEF ReconcileEligibility
  <2> QED BY <2>1, <2>2 DEF ReconcileEligibility
<1>1. VariableTypes'
  <2>1. row' \in [Slots -> Handles \cup {Absent}] /\ seen' \in SUBSET Handles
    BY DEF CustodyInv, TypeOK, VariableTypes, ReconcileEligibility, Slots
   <2> QED BY <1>0, <2>1 DEF Trimmed, CustodyInv, TypeOK, VariableTypes, ReconcileEligibility,
     Goto, Phases
<1>2. BoundTypes'
  BY BoundsAssumption DEF CustodyInv, TypeOK, BoundTypes, ReconcileEligibility, bounds
<1>3. MetadataOK'
  BY <1>0 DEF Trimmed
<1>4. KeyRecoverable'
  BY <1>0 DEF Trimmed
<1>5. IdentityNeverReplaced'
  BY DEF CustodyInv, IdentityNeverReplaced, ReconcileEligibility, bounds
<1>6. PhaseInv'
  BY EnvironmentAssumption, <1>0 DEF Trimmed, CustodyInv, TypeOK, VariableTypes, PhaseInv,
     NoJob, Job, NoTask, bounds, ReconcileEligibility, Goto, Phases
<1>7. AdoptInv'
  BY DEF CustodyInv, AdoptInv, Identity, Known, PhaseInv, ReconcileEligibility, bounds, Goto
<1>8. TaskInv'
  BY <1>0 DEF Trimmed, CustodyInv, TypeOK, VariableTypes, TaskInv, PhaseInv, NoJob, Job,
     NoTask, Slots, ReconcileEligibility
<1>9. RowInv'
  BY <1>0 DEF Trimmed, CustodyInv, TypeOK, VariableTypes, RowInv, ReconcileEligibility
<1> QED BY <1>1, <1>2, <1>3, <1>4, <1>5, <1>6, <1>7, <1>8, <1>9 DEF CustodyInv, TypeOK

\* Nor is a grant.
LEMMA ReconcileGrantsKeeps ==
    ASSUME CustodyInv, ReconcileGrants PROVE CustodyInv'
<1>0. Trimmed
  <2>1. CASE UNCHANGED <<item, meta>>
    BY <2>1, UnchangedTrims DEF ReconcileGrants
  <2>2. CASE remove({row["issued"], row["held"]} \ {Absent})
    <3>1. \A h \in {row["issued"], row["held"]} \ {Absent} :
            h \in Handles /\ meta[h].kind # "identity"
      BY DEF CustodyInv, RowInv, Slots, TypeOK, VariableTypes
    <3> QED BY <2>2, <3>1, RemoveTrims DEF ReconcileGrants
  <2> QED BY <2>1, <2>2 DEF ReconcileGrants
<1>1. VariableTypes'
  <2>1. row' \in [Slots -> Handles \cup {Absent}] /\ relation' \in {"none", "pending", "saved"}
    BY DEF CustodyInv, TypeOK, VariableTypes, ReconcileGrants, Slots
  <2>2. seen' \in SUBSET Handles /\ work' \in SUBSET Handles /\ phase' \in Phases
    BY DEF CustodyInv, TypeOK, VariableTypes, ReconcileGrants, Slots, Goto, Phases
  <2> QED BY <1>0, <2>1, <2>2 DEF Trimmed, CustodyInv, TypeOK, VariableTypes, ReconcileGrants
<1>2. BoundTypes'
  BY BoundsAssumption DEF CustodyInv, TypeOK, BoundTypes, ReconcileGrants, bounds
<1>3. MetadataOK'
  BY <1>0 DEF Trimmed
<1>4. KeyRecoverable'
  BY <1>0 DEF Trimmed
<1>5. IdentityNeverReplaced'
  BY DEF CustodyInv, IdentityNeverReplaced, ReconcileGrants, bounds
<1>6. PhaseInv'
  BY EnvironmentAssumption, <1>0 DEF Trimmed, CustodyInv, TypeOK, VariableTypes, PhaseInv,
     NoJob, Job, NoTask, bounds, ReconcileGrants, Goto, Phases
<1>7. AdoptInv'
  BY DEF CustodyInv, AdoptInv, Identity, Known, PhaseInv, ReconcileGrants, bounds, Goto
<1>8. TaskInv'
  BY <1>0 DEF Trimmed, CustodyInv, TypeOK, VariableTypes, TaskInv, PhaseInv, NoJob, Job,
     NoTask, Slots, ReconcileGrants
<1>9. RowInv'
  BY <1>0 DEF Trimmed, CustodyInv, TypeOK, VariableTypes, RowInv, ReconcileGrants
<1> QED BY <1>1, <1>2, <1>3, <1>4, <1>5, <1>6, <1>7, <1>8, <1>9 DEF CustodyInv, TypeOK

\* Nor is a secret that the services find unused.
LEMMA RemoveUnusedKeeps ==
    ASSUME CustodyInv, RemoveUnused PROVE CustodyInv'
<1>0. Trimmed
  <2>1. PICK kind \in {"grant", "eligibility"} : remove(ActiveHandles(kind) \ seen)
    BY DEF RemoveUnused
  <2>2. \A h \in ActiveHandles(kind) \ seen : h \in Handles /\ meta[h].kind # "identity"
    BY DEF ActiveHandles
  <2> QED BY <2>1, <2>2, RemoveTrims DEF RemoveUnused
<1>1. VariableTypes'
  BY <1>0, AbsentAssumption DEF Trimmed, CustodyInv, TypeOK, VariableTypes, Jobs, Materials,
     Slots, Phases, RemoveUnused, Goto
<1>2. BoundTypes'
  BY DEF CustodyInv, TypeOK, BoundTypes, bounds, RemoveUnused
<1>3. MetadataOK'
  BY <1>0 DEF Trimmed
<1>4. KeyRecoverable'
  BY <1>0 DEF Trimmed
<1>5. IdentityNeverReplaced'
  BY DEF CustodyInv, IdentityNeverReplaced, RemoveUnused, bounds
<1>6. PhaseInv'
  BY EnvironmentAssumption, <1>0 DEF Trimmed, CustodyInv, TypeOK, VariableTypes, PhaseInv,
     NoJob, Job, NoTask, bounds, RemoveUnused, Goto, Phases
<1>7. AdoptInv'
  BY DEF CustodyInv, AdoptInv, Identity, Known, PhaseInv, RemoveUnused, bounds, Goto
<1>8. TaskInv'
  BY <1>0 DEF Trimmed, CustodyInv, TypeOK, VariableTypes, TaskInv, PhaseInv, NoJob, Job,
     NoTask, Slots, RemoveUnused
<1>9. RowInv'
  BY <1>0 DEF Trimmed, CustodyInv, TypeOK, VariableTypes, RowInv, RemoveUnused
<1> QED BY <1>1, <1>2, <1>3, <1>4, <1>5, <1>6, <1>7, <1>8, <1>9 DEF CustodyInv, TypeOK

\* A request protects a secret of another kind than the identity.
LEMMA ProtectKeeps ==
    ASSUME CustodyInv, NEW slot \in Slots, Protect(slot) PROVE CustodyInv'
<1>1. VariableTypes'
  BY AbsentAssumption DEF CustodyInv, TypeOK, VariableTypes, Entries, Materials, Jobs, Job,
     Slots, Phases, Protect, durable, Serve, NewSecret, Kind
<1>2. BoundTypes'
  BY BoundsAssumption DEF CustodyInv, TypeOK, BoundTypes, Serve, Protect, durable, NewSecret,
     Job, Kind
<1>3. MetadataOK'
  BY DEF CustodyInv, TypeOK, MetadataOK, Identity, Protect, durable, Serve
<1>4. KeyRecoverable'
  BY DEF CustodyInv, KeyRecoverable, Identity, Protect, durable, Serve
<1>5. IdentityNeverReplaced'
  BY DEF CustodyInv, IdentityNeverReplaced, Protect, durable, Serve
<1>6. PhaseInv'
  BY EnvironmentAssumption DEF CustodyInv, TypeOK, VariableTypes, PhaseInv, Protect, Serve,
     durable, Known
<1>7. AdoptInv'
  BY DEF CustodyInv, AdoptInv, Identity, Known, PhaseInv, Protect, durable, Serve
<1>8. TaskInv'
  BY DEF CustodyInv, TypeOK, VariableTypes, TaskInv, Protect, Serve, NewSecret, Job, Kind,
     Slots, durable, Known
<1>9. RowInv'
  BY DEF CustodyInv, RowInv, Known, Protect, durable, Serve
<1> QED BY <1>1, <1>2, <1>3, <1>4, <1>5, <1>6, <1>7, <1>8, <1>9 DEF CustodyInv, TypeOK

\* The row it writes names that secret.
LEMMA WriteRowKeeps ==
    ASSUME CustodyInv, WriteRow PROVE CustodyInv'
<1>1. VariableTypes'
  BY AbsentAssumption DEF CustodyInv, TypeOK, VariableTypes, Entries, Materials, Jobs, Job,
     NoJob, NoTask, Slots, Phases, WriteRow, bounds
<1>2. BoundTypes'
  BY BoundsAssumption DEF CustodyInv, TypeOK, BoundTypes, WriteRow, bounds
<1>3. MetadataOK'
  BY DEF CustodyInv, TypeOK, MetadataOK, Identity, WriteRow, bounds
<1>4. KeyRecoverable'
  BY DEF CustodyInv, KeyRecoverable, Identity, WriteRow, bounds
<1>5. IdentityNeverReplaced'
  BY DEF CustodyInv, IdentityNeverReplaced, WriteRow, bounds
<1>6. PhaseInv'
  BY DEF CustodyInv, PhaseInv, Known, WriteRow, bounds
<1>7. AdoptInv'
  BY DEF CustodyInv, AdoptInv, Identity, Known, PhaseInv, WriteRow, bounds
<1>8. TaskInv'
  BY AbsentAssumption DEF CustodyInv, TaskInv, TypeOK, VariableTypes, PhaseInv, Known, NoJob,
     Job, NoTask, Slots, WriteRow, bounds
<1>9. RowInv'
  BY DEF CustodyInv, TypeOK, VariableTypes, RowInv, TaskInv, WriteRow, Known
<1> QED BY <1>1, <1>2, <1>3, <1>4, <1>5, <1>6, <1>7, <1>8, <1>9 DEF CustodyInv, TypeOK

\* The compensation removes the secret of the request.
LEMMA WriteRowFailsKeeps ==
    ASSUME CustodyInv, WriteRowFails PROVE CustodyInv'
<1>0. Trimmed
  <2>1. /\ job["task"].handle \in Handles
        /\ meta[job["task"].handle].kind # "identity"
    BY DEF CustodyInv, TaskInv, WriteRowFails
  <2> QED BY <2>1, RemoveTrims, UnchangedTrims DEF WriteRowFails
<1>1. VariableTypes'
  BY <1>0, AbsentAssumption DEF Trimmed, CustodyInv, TypeOK, VariableTypes, Jobs, Materials,
     Slots, Phases, WriteRowFails, NoJob, Job, NoTask
<1>2. BoundTypes'
  BY DEF CustodyInv, TypeOK, BoundTypes, bounds, WriteRowFails
<1>3. MetadataOK'
  BY <1>0 DEF Trimmed
<1>4. KeyRecoverable'
  BY <1>0 DEF Trimmed
<1>5. IdentityNeverReplaced'
  BY DEF CustodyInv, IdentityNeverReplaced, WriteRowFails, bounds
<1>6. PhaseInv'
  BY EnvironmentAssumption, <1>0 DEF Trimmed, CustodyInv, TypeOK, VariableTypes, PhaseInv,
     NoJob, Job, NoTask, bounds, WriteRowFails
<1>7. AdoptInv'
  BY AbsentAssumption DEF CustodyInv, AdoptInv, TypeOK, VariableTypes, PhaseInv, Identity,
     Known, NoJob, Job, WriteRowFails, bounds, Kind
<1>8. TaskInv'
  BY <1>0 DEF Trimmed, CustodyInv, TypeOK, VariableTypes, TaskInv, PhaseInv, NoJob, Job,
     NoTask, Slots, WriteRowFails
<1>9. RowInv'
  BY <1>0 DEF Trimmed, CustodyInv, TypeOK, VariableTypes, RowInv, WriteRowFails
<1> QED BY <1>1, <1>2, <1>3, <1>4, <1>5, <1>6, <1>7, <1>8, <1>9 DEF CustodyInv, TypeOK

\* A failed request leaves the store as it is.
LEMMA ProtectFailsKeeps ==
    ASSUME CustodyInv, ProtectFails PROVE CustodyInv'
<1>1. VariableTypes'
  BY AbsentAssumption DEF CustodyInv, TypeOK, VariableTypes, Entries, Materials, Jobs, Job,
     NoJob, NoTask, Slots, Phases, ProtectFails, bounds, durable
<1>2. BoundTypes'
  BY BoundsAssumption DEF CustodyInv, TypeOK, BoundTypes, ProtectFails, bounds, durable
<1>3. MetadataOK'
  BY DEF CustodyInv, TypeOK, MetadataOK, Identity, ProtectFails, durable, bounds
<1>4. KeyRecoverable'
  BY DEF CustodyInv, KeyRecoverable, Identity, ProtectFails, durable, bounds
<1>5. IdentityNeverReplaced'
  BY DEF CustodyInv, IdentityNeverReplaced, ProtectFails, durable, bounds
<1>6. PhaseInv'
  BY DEF CustodyInv, PhaseInv, Known, ProtectFails, durable, bounds
<1>7. AdoptInv'
  BY DEF CustodyInv, AdoptInv, Identity, Known, PhaseInv, ProtectFails, durable, bounds
<1>8. TaskInv'
  BY AbsentAssumption DEF CustodyInv, TaskInv, TypeOK, VariableTypes, PhaseInv, Known, NoJob,
     Job, NoTask, Slots, ProtectFails, bounds, durable
<1>9. RowInv'
  BY DEF CustodyInv, RowInv, Known, ProtectFails, durable, bounds
<1> QED BY <1>1, <1>2, <1>3, <1>4, <1>5, <1>6, <1>7, <1>8, <1>9 DEF CustodyInv, TypeOK

\* Pairing changes the relationship only.
LEMMA RelateKeeps ==
    ASSUME CustodyInv, Relate PROVE CustodyInv'
<1>1. VariableTypes'
  BY AbsentAssumption DEF CustodyInv, TypeOK, VariableTypes, Entries, Materials, Jobs, Slots,
     Phases, Relate
<1>2. BoundTypes'
  BY BoundsAssumption DEF CustodyInv, TypeOK, BoundTypes, Relate
<1>3. MetadataOK'
  BY DEF CustodyInv, TypeOK, MetadataOK, Identity, Relate
<1>4. KeyRecoverable'
  BY DEF CustodyInv, KeyRecoverable, Identity, Relate
<1>5. IdentityNeverReplaced'
  BY DEF CustodyInv, IdentityNeverReplaced, Relate
<1>6. PhaseInv'
  BY DEF CustodyInv, PhaseInv, Known, Relate
<1>7. AdoptInv'
  BY DEF CustodyInv, AdoptInv, Identity, Known, PhaseInv, Relate
<1>8. TaskInv'
  BY DEF CustodyInv, TaskInv, Known, Relate
<1>9. RowInv'
  BY DEF CustodyInv, RowInv, Known, Relate
<1> QED BY <1>1, <1>2, <1>3, <1>4, <1>5, <1>6, <1>7, <1>8, <1>9 DEF CustodyInv, TypeOK

\* A removal takes the handles from rows, which never name an identity.
LEMMA RemoveSecretsKeeps ==
    ASSUME CustodyInv, NEW slot \in Slots, RemoveSecrets(slot) PROVE CustodyInv'
<1>0. Trimmed
  <2>1. \A h \in {row[c] : c \in Columns(slot)} \ {Absent} :
            h \in Handles /\ meta[h].kind # "identity"
    BY DEF CustodyInv, RowInv, Slots, TypeOK, VariableTypes, Columns
  <2> QED BY <2>1, RemoveTrims DEF RemoveSecrets
<1>1. VariableTypes'
  <2>1. task' \in [pc : {"idle", "protect", "drop", "rotate"}, slot : Slots \cup {"none"}]
    BY DEF RemoveSecrets, Serve
  <2> QED BY <1>0, <2>1 DEF Trimmed, CustodyInv, TypeOK, VariableTypes, RemoveSecrets
<1>2. BoundTypes'
  BY BoundsAssumption DEF CustodyInv, TypeOK, BoundTypes, Serve, RemoveSecrets, Columns, Kind
<1>3. MetadataOK'
  BY <1>0 DEF Trimmed
<1>4. KeyRecoverable'
  BY <1>0 DEF Trimmed
<1>5. IdentityNeverReplaced'
  BY DEF CustodyInv, IdentityNeverReplaced, RemoveSecrets, Serve
<1>6. PhaseInv'
  BY EnvironmentAssumption, <1>0 DEF Trimmed, CustodyInv, TypeOK, VariableTypes, PhaseInv,
     NoJob, Job, NoTask, RemoveSecrets, Serve
<1>7. AdoptInv'
  BY EnvironmentAssumption DEF CustodyInv, AdoptInv, RemoveSecrets, Serve
<1>8. TaskInv'
  BY <1>0 DEF Trimmed, CustodyInv, TypeOK, VariableTypes, TaskInv, PhaseInv, NoJob, Job,
     NoTask, Slots, RemoveSecrets, Serve
<1>9. RowInv'
  BY <1>0 DEF Trimmed, CustodyInv, TypeOK, VariableTypes, RowInv, RemoveSecrets
<1> QED BY <1>1, <1>2, <1>3, <1>4, <1>5, <1>6, <1>7, <1>8, <1>9 DEF CustodyInv, TypeOK

\* The row changes after its secrets were removed.
LEMMA ChangeRowKeeps ==
    ASSUME CustodyInv, ChangeRow PROVE CustodyInv'
<1>1. VariableTypes'
  <2>1. row' \in [Slots -> Handles \cup {Absent}] /\ relation' \in {"none", "pending", "saved"}
    BY DEF CustodyInv, TypeOK, VariableTypes, ChangeRow
  <2>2. task' \in [pc : {"idle", "protect", "drop", "rotate"}, slot : Slots \cup {"none"}]
    BY DEF CustodyInv, TypeOK, VariableTypes, ChangeRow, NoTask
  <2>3. job' \in [{"start", "task"} -> Jobs]
    <3>1. Kind(task.slot) \in {"eligibility", "grant", "authorization", "none"}
      BY DEF CustodyInv, TypeOK, VariableTypes, Kind, Slots
    <3>2. NewSecret(task.slot) \in Jobs
      BY <3>1 DEF NewSecret, Job, Jobs, Materials
    <3> QED BY <3>2 DEF CustodyInv, TypeOK, VariableTypes, ChangeRow
  <2> QED BY <2>1, <2>2, <2>3 DEF CustodyInv, TypeOK, VariableTypes, ChangeRow
<1>2. BoundTypes'
  BY DEF CustodyInv, TypeOK, BoundTypes, bounds, ChangeRow
<1>3. MetadataOK'
  BY DEF CustodyInv, TypeOK, MetadataOK, Identity, ChangeRow, bounds
<1>4. KeyRecoverable'
  BY DEF CustodyInv, KeyRecoverable, Identity, ChangeRow, bounds
<1>5. IdentityNeverReplaced'
  BY DEF CustodyInv, IdentityNeverReplaced, ChangeRow, bounds
<1>6. PhaseInv'
  BY AbsentAssumption DEF CustodyInv, PhaseInv, TypeOK, VariableTypes, Known, Jobs, Job,
     NoJob, NoTask, ChangeRow, bounds, NewSecret, Columns, Kind
<1>7. AdoptInv'
  BY AbsentAssumption DEF CustodyInv, AdoptInv, TypeOK, VariableTypes, PhaseInv, Identity,
     Known, NoJob, Job, ChangeRow, bounds, NewSecret, Columns, Kind
<1>8. TaskInv'
  <2>1. CASE task.pc = "drop"
    BY <2>1 DEF CustodyInv, TaskInv, ChangeRow, Known, NoTask
  <2>2. CASE task.pc = "rotate"
    <3>1. job'["task"] = NewSecret(task.slot)
      BY <2>2 DEF CustodyInv, TypeOK, VariableTypes, ChangeRow
    <3>2. Kind(task.slot) \notin {"identity", "none"}
      BY <2>2 DEF CustodyInv, TypeOK, VariableTypes, TaskInv, Kind, Slots
    <3>3. task'.slot = task.slot /\ task.slot # "none"
      BY <2>2 DEF CustodyInv, TaskInv, ChangeRow
    <3> QED BY <3>1, <3>2, <3>3 DEF NewSecret, Job, TaskInv
  <2> QED BY <2>1, <2>2 DEF ChangeRow
<1>9. RowInv'
  BY DEF CustodyInv, RowInv, Known, ChangeRow, bounds
<1> QED BY <1>1, <1>2, <1>3, <1>4, <1>5, <1>6, <1>7, <1>8, <1>9 DEF CustodyInv, TypeOK

\* A loss is remembered.
LEMMA LoseKeeps ==
    ASSUME CustodyInv, NEW h \in Handles, Lose(h) PROVE CustodyInv'
<1>1. VariableTypes'
  <2>1. item' \in [Handles -> Materials]
    BY DEF CustodyInv, TypeOK, VariableTypes, Lose, Materials
  <2>2. lost' \in SUBSET Handles
    BY DEF CustodyInv, TypeOK, VariableTypes, Lose
  <2> QED BY <2>1, <2>2 DEF CustodyInv, TypeOK, VariableTypes, Lose
<1>2. BoundTypes'
  BY BoundsAssumption DEF CustodyInv, TypeOK, BoundTypes, Lose, bounds
<1>3. MetadataOK'
  BY DEF CustodyInv, TypeOK, MetadataOK, Identity, Lose, bounds
<1>4. KeyRecoverable'
  BY DEF CustodyInv, KeyRecoverable, Identity, Lose, bounds
<1>5. IdentityNeverReplaced'
  BY DEF CustodyInv, IdentityNeverReplaced, Lose, bounds
<1>6. PhaseInv'
  BY DEF CustodyInv, PhaseInv, Known, Lose, bounds
<1>7. AdoptInv'
  BY DEF CustodyInv, AdoptInv, Identity, Known, PhaseInv, Lose, bounds
<1>8. TaskInv'
  BY DEF CustodyInv, TaskInv, Known, Lose, bounds
<1>9. RowInv'
  BY DEF CustodyInv, RowInv, Known, Lose, bounds
<1> QED BY <1>1, <1>2, <1>3, <1>4, <1>5, <1>6, <1>7, <1>8, <1>9 DEF CustodyInv, TypeOK

\* A stop loses no durable state.
LEMMA CrashKeeps ==
    ASSUME CustodyInv, Crash PROVE CustodyInv'
<1>1. VariableTypes'
  BY AbsentAssumption DEF CustodyInv, TypeOK, VariableTypes, Entries, Materials, Jobs, Job,
     NoJob, NoTask, Slots, Phases, Crash, Goto, durable
<1>2. BoundTypes'
  BY BoundsAssumption DEF CustodyInv, TypeOK, BoundTypes, Crash, durable
<1>3. MetadataOK'
  BY DEF CustodyInv, TypeOK, MetadataOK, Identity, Crash, durable
<1>4. KeyRecoverable'
  BY DEF CustodyInv, KeyRecoverable, Identity, Crash, durable
<1>5. IdentityNeverReplaced'
  BY DEF CustodyInv, IdentityNeverReplaced, Crash, durable
<1>6. PhaseInv'
  BY DEF CustodyInv, PhaseInv, Known, Crash, durable, Goto
<1>7. AdoptInv'
  BY DEF CustodyInv, AdoptInv, Identity, Known, PhaseInv, Crash, durable, Goto
<1>8. TaskInv'
  BY AbsentAssumption DEF CustodyInv, TaskInv, TypeOK, VariableTypes, PhaseInv, Known, NoJob,
     Job, NoTask, Slots, Crash, durable
<1>9. RowInv'
  BY DEF CustodyInv, RowInv, Known, Crash, durable
<1> QED BY <1>1, <1>2, <1>3, <1>4, <1>5, <1>6, <1>7, <1>8, <1>9 DEF CustodyInv, TypeOK

\* A reset ends the identity that it proved unrecoverable.
LEMMA reset_unrecoverable_identityKeeps ==
    ASSUME CustodyInv, reset_unrecoverable_identity PROVE CustodyInv'
<1>1. VariableTypes'
  BY AbsentAssumption DEF CustodyInv, TypeOK, VariableTypes, Entries, Materials, Jobs, Slots,
     Phases, reset_unrecoverable_identity,
     reset_identity_bound_state, Goto, NoEntry, Entry
<1>2. BoundTypes'
  BY BoundsAssumption DEF CustodyInv, TypeOK, BoundTypes, reset_unrecoverable_identity,
     reset_identity_bound_state,
     NoEntry, Entry
<1>3. MetadataOK'
  BY AbsentAssumption DEF CustodyInv, TypeOK, MetadataOK, Identity, Known, VariableTypes,
     Entries, reset_unrecoverable_identity,
     reset_identity_bound_state, NoEntry, Entry
<1>4. KeyRecoverable'
  BY DEF CustodyInv, KeyRecoverable, Identity, reset_unrecoverable_identity,
     reset_identity_bound_state
<1>5. IdentityNeverReplaced'
  BY AbsentAssumption DEF CustodyInv, IdentityNeverReplaced, PhaseInv,
     reset_unrecoverable_identity,
     reset_identity_bound_state, NoEntry, Entry
<1>6. PhaseInv'
  BY AbsentAssumption DEF CustodyInv, PhaseInv, TypeOK, VariableTypes, Known, Jobs, Job,
     NoJob, NoTask, reset_unrecoverable_identity,
     reset_identity_bound_state, Goto, NoEntry, Entry
<1>7. AdoptInv'
  BY DEF CustodyInv, AdoptInv, Identity, Known, PhaseInv, reset_unrecoverable_identity,
     reset_identity_bound_state, Goto
<1>8. TaskInv'
  BY AbsentAssumption DEF CustodyInv, TaskInv, TypeOK, VariableTypes, PhaseInv, Known, NoJob,
     Job, NoTask, Slots, reset_unrecoverable_identity,
     reset_identity_bound_state, NoEntry, Entry
<1>9. RowInv'
  BY DEF CustodyInv, RowInv, Known, reset_unrecoverable_identity,
     reset_identity_bound_state
<1> QED BY <1>1, <1>2, <1>3, <1>4, <1>5, <1>6, <1>7, <1>8, <1>9 DEF CustodyInv, TypeOK

\* The items of a reset profile go afterwards.
LEMMA delete_reset_handlesKeeps ==
    ASSUME CustodyInv, NEW h \in Handles, delete_reset_handles(h) PROVE CustodyInv'
<1>1. VariableTypes'
  BY AbsentAssumption DEF CustodyInv, TypeOK, VariableTypes, Entries, Materials, Jobs, Slots,
     Phases, delete_reset_handles, StartOnly, bounds
<1>2. BoundTypes'
  BY BoundsAssumption DEF CustodyInv, TypeOK, BoundTypes, delete_reset_handles, StartOnly,
     bounds
<1>3. MetadataOK'
  BY DEF CustodyInv, TypeOK, MetadataOK, Identity, delete_reset_handles, StartOnly, bounds
<1>4. KeyRecoverable'
  BY AbsentAssumption DEF CustodyInv, KeyRecoverable, Identity, Known, TypeOK, VariableTypes,
     PhaseInv, MetadataOK, delete_reset_handles, StartOnly, bounds
<1>5. IdentityNeverReplaced'
  BY DEF CustodyInv, IdentityNeverReplaced, delete_reset_handles, StartOnly, bounds
<1>6. PhaseInv'
  BY DEF CustodyInv, PhaseInv, Known, delete_reset_handles, StartOnly, bounds
<1>7. AdoptInv'
  BY DEF CustodyInv, AdoptInv, Identity, Known, PhaseInv, delete_reset_handles, StartOnly,
     bounds
<1>8. TaskInv'
  BY DEF CustodyInv, TaskInv, Known, delete_reset_handles, StartOnly, bounds
<1>9. RowInv'
  BY DEF CustodyInv, RowInv, Known, delete_reset_handles, StartOnly, bounds
<1> QED BY <1>1, <1>2, <1>3, <1>4, <1>5, <1>6, <1>7, <1>8, <1>9 DEF CustodyInv, TypeOK

-------------------------------------------------------------------------------
(* The invariant and what follows from it.                                  *)

\* A first start, with or without a legacy key file.
LEMMA InitKeeps == Init => CustodyInv
<1> SUFFICES ASSUME Init PROVE CustodyInv
  OBVIOUS
<1>a. /\ item = [h \in Handles |-> Absent] /\ meta = [h \in Handles |-> NoEntry]
      /\ row = [slot \in Slots |-> Absent] /\ phase = "down"
      /\ job = [p \in {"start", "task"} |-> NoJob] /\ task = NoTask
      /\ current = Absent /\ known = legacy
  BY DEF Init
<1>b. legacy \in Keys \cup {Absent}
  BY EnvironmentAssumption DEF Init
<1>1. VariableTypes
  <2>1. NoEntry \in Entries
    BY DEF NoEntry, Entry, Entries
  <2>2. NoJob \in Jobs
    BY DEF NoJob, Job, Jobs, Materials
  <2>3. item \in [Handles -> Materials] /\ meta \in [Handles -> Entries]
    BY <1>a, <2>1 DEF Materials
  <2>4. job \in [{"start", "task"} -> Jobs] /\ row \in [Slots -> Handles \cup {Absent}]
    BY <1>a, <2>2
  <2>5. task \in [pc : {"idle", "protect", "drop", "rotate"}, slot : Slots \cup {"none"}]
    BY <1>a DEF NoTask
  <2> QED BY <1>a, <1>b, <2>3, <2>4, <2>5 DEF VariableTypes, Init, Phases
<1>2. BoundTypes
  BY BoundsAssumption DEF Init, BoundTypes
<1>3. \A h \in Handles : meta[h].kind = "none" /\ meta[h].state = "none" /\ meta[h].expected = Absent
  BY <1>a DEF NoEntry, Entry
<1>4. MetadataOK
  BY <1>3, AbsentAssumption DEF MetadataOK, Identity
<1>5. KeyRecoverable /\ IdentityNeverReplaced /\ AdoptInv /\ RowInv
  BY <1>a DEF KeyRecoverable, IdentityNeverReplaced, AdoptInv, RowInv
<1>6. PhaseInv /\ TaskInv
  BY <1>a DEF PhaseInv, TaskInv, NoJob, Job, NoTask
<1> QED BY <1>1, <1>2, <1>4, <1>5, <1>6 DEF CustodyInv, TypeOK

\* All steps together.
LEMMA NextKeeps == CustodyInv /\ [Next]_vars => CustodyInv'
<1> SUFFICES ASSUME CustodyInv, [Next]_vars PROVE CustodyInv'
  OBVIOUS
<1>1. CASE StartStep
  <2>1. CASE Boot \/ Reconciled
    BY <2>1, BootKeeps, ReconciledKeeps
  <2>2. CASE \E h \in Handles : ReconcileEntry(h) \/ DeleteUnknown(h) \/ delete_reset_handles(h)
    BY <2>2, ReconcileEntryKeeps, DeleteUnknownKeeps, delete_reset_handlesKeeps
  <2>3. CASE migrate_legacy_endpoint_identity \/ initialize_endpoint_identity
    BY <2>3, migrate_legacy_endpoint_identityKeeps, initialize_endpoint_identityKeeps
  <2>4. CASE Put("start") \/ Stage("start") \/ Activate("start")
    BY <2>4, PutKeeps, StageKeeps, ActivateKeeps
  <2>5. CASE remove_legacy_identity_durably \/ remove_orphaned_targeted_authorizations
    BY <2>5, remove_legacy_identity_durablyKeeps, remove_orphaned_targeted_authorizationsKeeps
  <2>6. CASE ReconcileEligibility \/ ReconcileGrants \/ RemoveUnused
    BY <2>6, ReconcileEligibilityKeeps, ReconcileGrantsKeeps, RemoveUnusedKeeps
  <2> QED BY <1>1, <2>1, <2>2, <2>3, <2>4, <2>5, <2>6 DEF StartStep
<1>2. CASE RequestStep
  <2>1. CASE \E slot \in Slots : Protect(slot) \/ RemoveSecrets(slot)
    BY <2>1, ProtectKeeps, RemoveSecretsKeeps
  <2>2. CASE Put("task") \/ Stage("task") \/ StageFails \/ Activate("task")
    BY <2>2, PutKeeps, StageKeeps, StageFailsKeeps, ActivateKeeps
  <2>3. CASE WriteRow \/ WriteRowFails \/ ProtectFails \/ Relate \/ ChangeRow
    BY <2>3, WriteRowKeeps, WriteRowFailsKeeps, ProtectFailsKeeps, RelateKeeps, ChangeRowKeeps
  <2> QED BY <1>2, <2>1, <2>2, <2>3 DEF RequestStep
<1>3. CASE \E h \in Handles : Lose(h)
  BY <1>3, LoseKeeps
<1>4. CASE Crash \/ reset_unrecoverable_identity
  BY <1>4, CrashKeeps, reset_unrecoverable_identityKeeps
<1>5. CASE UNCHANGED vars
  <2>1. TypeOK'
    BY <1>5 DEF vars, CustodyInv, TypeOK, VariableTypes, BoundTypes, MetadataOK, Identity
  <2>2. KeyRecoverable' /\ IdentityNeverReplaced' /\ RowInv'
    BY <1>5 DEF vars, CustodyInv, KeyRecoverable, IdentityNeverReplaced, RowInv, Identity, Known
  <2>3. PhaseInv' /\ TaskInv' /\ AdoptInv'
    BY <1>5 DEF vars, CustodyInv, PhaseInv, TaskInv, AdoptInv, Identity, Known
  <2> QED BY <2>1, <2>2, <2>3 DEF CustodyInv
<1> QED BY <1>1, <1>2, <1>3, <1>4, <1>5 DEF Next

\* Every start, request, loss, stop and reset of the custody keeps CustodyInv.
THEOREM CustodyCorrect == Spec => []CustodyInv
  BY InitKeeps, NextKeeps, PTL DEF Spec

\* The stores, the metadata and the control state are well formed throughout;
\* in particular there is never a second identity that is not disabled.
THEOREM TypeCorrect == Spec => []TypeOK
  BY CustodyCorrect, PTL DEF CustodyInv

\* No step of protect, reconcile, migration, removal or reset destroys the last
\* copy of the endpoint key, wherever the process stops.
THEOREM KeyIsRecoverable == Spec => []KeyRecoverable
  BY CustodyCorrect, PTL DEF CustodyInv

\* The endpoint never runs with another key than the profile's.
THEOREM IdentityIsKept == Spec => []IdentityNeverReplaced
  BY CustodyCorrect, PTL DEF CustodyInv

-------------------------------------------------------------------------------
(* Rows that a start leaves backed, when requests arrive after it.          *)

\* The handle in a column is of a secret of the column's kind, and so is the one
\* a request is about to write there.
KindInv ==
    /\ \A slot \in Slots : row[slot] # Absent => meta[row[slot]].kind = Kind(slot)
    /\ job["task"].pc # "idle" => task.pc = "protect" /\ job["task"].kind = Kind(task.slot)
    /\ job["task"].pc \in {"activate", "protected"} =>
        meta[job["task"].handle].kind = job["task"].kind

\* Nobody is served during a start.
QuietInv == phase # "running" => job["task"] = NoJob /\ task = NoTask

EligibilityBacked ==
    row["eligibility"] # Absent => load(row["eligibility"]) \/ row["eligibility"] \in lost

IssuedBacked ==
    relation = "saved" =>
        row["issued"] # Absent /\ (load(row["issued"]) \/ row["issued"] \in lost)

\* The phases in which the eligibility has been reconciled.
Late == {"unused eligibility", "grant", "unused grant"}

\* What has been reconciled stays so until the start is over: the services know
\* the rows whose secrets they must not remove as unused.
LateInv ==
    /\ phase \in Late => EligibilityBacked
    /\ phase = "unused eligibility" => row["eligibility"] \in seen \cup {Absent}
    /\ phase = "unused grant" =>
        IssuedBacked /\ row["issued"] \in seen \cup {Absent} /\ row["held"] \in seen \cup {Absent}

StartInv == KindInv /\ QuietInv /\ LateInv

\* Metadata keep their kinds while neither rows nor the request change.
LEMMA KindsKept ==
    ASSUME CustodyInv, KindInv,
           \A h \in Handles : Known(h) => meta'[h].kind = meta[h].kind,
           \A slot \in Slots : row'[slot] \in {Absent, row[slot]},
           \/ UNCHANGED <<job, task>>
           \/ job'["task"].pc = "idle"
           \/ job'["task"] = job["task"] /\ UNCHANGED task
    PROVE  KindInv'
<1>1. ASSUME NEW slot \in Slots, row'[slot] # Absent PROVE meta'[row'[slot]].kind = Kind(slot)
  <2>1. row'[slot] = row[slot] /\ row[slot] \in Handles /\ Known(row[slot])
    BY <1>1 DEF CustodyInv, RowInv, TypeOK, VariableTypes
  <2> QED BY <1>1, <2>1 DEF KindInv
<1>2. CASE job'["task"].pc = "idle"
  BY <1>1, <1>2 DEF KindInv
<1>3. CASE job'["task"] = job["task"] /\ UNCHANGED task
  <2>1. job["task"].pc \in {"activate", "protected"} => job["task"].handle \in Handles /\ Known(job["task"].handle)
    BY DEF CustodyInv, TaskInv
  <2> QED BY <1>1, <1>3, <2>1 DEF KindInv
<1> QED BY <1>2, <1>3

\* Every removal does.
LEMMA RemoveKinds ==
    ASSUME CustodyInv, NEW hs \in SUBSET Handles, remove(hs)
    PROVE  \A h \in Handles : meta'[h].kind = meta[h].kind
  BY RemoveFacts DEF CustodyInv

\* Rows refer to handles.
LEMMA RowHandles ==
    ASSUME CustodyInv
    PROVE  \A slot \in Slots : row[slot] # Absent => row[slot] \in Handles
  BY DEF CustodyInv, TypeOK, VariableTypes

\* The steps of a start that change neither kinds, rows nor the request.
LEMMA StartKinds ==
    ASSUME CustodyInv, KindInv, StartStep, ~Stage("start")
    PROVE  KindInv'
<1>1. CASE Boot \/ Reconciled \/ (\E h \in Handles : DeleteUnknown(h) \/ delete_reset_handles(h))
           \/ migrate_legacy_endpoint_identity
  BY <1>1, KindsKept DEF Boot, Reconciled, DeleteUnknown, delete_reset_handles,
     migrate_legacy_endpoint_identity, StartOnly
<1>2. ASSUME NEW h \in Handles, ReconcileEntry(h) PROVE KindInv'
  <2>1. UNCHANGED <<row, job, task>>
    BY <1>2 DEF ReconcileEntry, StartOnly
  <2>2. \A g \in Handles : meta'[g].kind = meta[g].kind
    BY <1>2 DEF ReconcileEntry, Marked, CustodyInv, TypeOK, VariableTypes
  <2> QED BY <2>1, <2>2, KindsKept
<1>3. CASE initialize_endpoint_identity \/ remove_legacy_identity_durably \/ Put("start")
  <2>1. UNCHANGED <<row, meta, task>> /\ job'["task"] = job["task"]
    BY <1>3 DEF initialize_endpoint_identity, remove_legacy_identity_durably, Put, durable,
       CustodyInv, TypeOK, VariableTypes
  <2> QED BY <2>1, KindsKept
<1>4. CASE Activate("start")
  <2>1. UNCHANGED <<row, task>> /\ job'["task"] = job["task"]
    BY <1>4 DEF Activate, CustodyInv, TypeOK, VariableTypes
  <2>2. \A g \in Handles : meta'[g].kind = meta[g].kind
    BY <1>4 DEF Activate, Marked, CustodyInv, TypeOK, VariableTypes
  <2> QED BY <2>1, <2>2, KindsKept
<1>5. CASE remove_orphaned_targeted_authorizations
  <2>1. UNCHANGED <<row, job, task>>
    BY <1>5 DEF remove_orphaned_targeted_authorizations
  <2>2. UNCHANGED meta \/ \E h \in Handles : remove({h})
    BY <1>5 DEF remove_orphaned_targeted_authorizations, ActiveHandles
  <2> QED BY <2>1, <2>2, RemoveKinds, KindsKept
<1>6. CASE ReconcileEligibility \/ ReconcileGrants \/ RemoveUnused
  <2>1. UNCHANGED <<job, task>>
    BY <1>6 DEF ReconcileEligibility, ReconcileGrants, RemoveUnused
  <2>2. \A slot \in Slots : row'[slot] \in {Absent, row[slot]}
    BY <1>6 DEF ReconcileEligibility, ReconcileGrants, RemoveUnused, CustodyInv, TypeOK, VariableTypes
  <2>3. UNCHANGED meta \/ \E hs \in SUBSET Handles : remove(hs)
    <3>1. CASE ReconcileEligibility
      BY <3>1, RowHandles DEF ReconcileEligibility, Slots
    <3>2. CASE ReconcileGrants
      BY <3>2, RowHandles DEF ReconcileGrants, Slots
    <3>3. CASE RemoveUnused
      BY <3>3 DEF RemoveUnused, ActiveHandles
    <3> QED BY <1>6, <3>1, <3>2, <3>3
  <2> QED BY <2>1, <2>2, <2>3, RemoveKinds, KindsKept
<1> QED BY <1>1, <1>2, <1>3, <1>4, <1>5, <1>6 DEF StartStep

\* A new entry is for a handle that neither a row nor the other job has.
LEMMA StageKinds ==
    ASSUME CustodyInv, KindInv, NEW p \in {"start", "task"}, Stage(p)
    PROVE  KindInv'
<1> DEFINE h == job[p].handle
<1>1. h \in Handles /\ ~Known(h)
  <2>1. p = "start" => phase = "adopt"
    BY DEF CustodyInv, PhaseInv, Stage, NoJob, Job
  <2> QED BY <2>1 DEF CustodyInv, AdoptInv, TaskInv, Stage
<1>2. /\ UNCHANGED <<row, task>>
      /\ meta'[h].kind = job[p].kind /\ \A g \in Handles \ {h} : meta'[g] = meta[g]
  BY <1>1 DEF Stage, Entry, CustodyInv, TypeOK, VariableTypes
<1>3. \A g \in Handles : Known(g) => meta'[g].kind = meta[g].kind
  BY <1>1, <1>2
<1>4. CASE p = "start"
  <2>1. job'["task"] = job["task"]
    BY <1>4 DEF Stage, CustodyInv, TypeOK, VariableTypes
  <2> QED BY <1>2, <1>3, <2>1, KindsKept
<1>5. CASE p = "task"
  <2>1. /\ job'["task"].pc = "activate" /\ job'["task"].handle = h
        /\ job'["task"].kind = job["task"].kind /\ job["task"].pc = "stage"
    BY <1>5 DEF Stage, Job, CustodyInv, TypeOK, VariableTypes
  <2>2. ASSUME NEW slot \in Slots, row'[slot] # Absent PROVE meta'[row'[slot]].kind = Kind(slot)
    <3>1. row[slot] \in Handles /\ Known(row[slot])
      BY <1>2, <2>2 DEF CustodyInv, RowInv, TypeOK, VariableTypes
    <3> QED BY <1>2, <1>3, <2>2, <3>1 DEF KindInv
  <2> QED BY <1>2, <1>5, <2>1, <2>2 DEF KindInv
<1> QED BY <1>4, <1>5

LEMMA RequestKinds ==
    ASSUME CustodyInv, KindInv, RequestStep, ~Stage("task")
    PROVE  KindInv'
<1>1. ASSUME NEW slot \in Slots, Protect(slot) PROVE KindInv'
  <2>1. UNCHANGED <<row, meta>> /\ task'.pc = "protect" /\ task'.slot = slot
    BY <1>1 DEF Protect, Serve, durable
  <2>2. job'["task"].pc = "put" /\ job'["task"].kind = Kind(slot)
    BY <1>1 DEF Protect, NewSecret, Job, CustodyInv, TypeOK, VariableTypes
  <2> QED BY <2>1, <2>2 DEF KindInv
<1>2. ASSUME NEW slot \in Slots, RemoveSecrets(slot) PROVE KindInv'
  <2>1. UNCHANGED <<row, job>> /\ \E hs \in SUBSET Handles : remove(hs)
    BY <1>2, RowHandles DEF RemoveSecrets, Columns, Slots
  <2>2. job["task"].pc = "idle"
    BY <1>2 DEF RemoveSecrets, Serve, KindInv
  <2> QED BY <2>1, <2>2, RemoveKinds, KindsKept
<1>3. CASE Put("task")
  <2>1. UNCHANGED <<row, meta, task>>
    BY <1>3 DEF Put
  <2>2. /\ job'["task"].pc = "stage" /\ job'["task"].kind = job["task"].kind
        /\ job["task"].pc = "put"
    BY <1>3 DEF Put, Job, CustodyInv, TypeOK, VariableTypes
  <2> QED BY <2>1, <2>2 DEF KindInv
<1>4. CASE Activate("task")
  <2>1. UNCHANGED <<row, task>>
    BY <1>4 DEF Activate
  <2>2. \A g \in Handles : meta'[g].kind = meta[g].kind
    BY <1>4 DEF Activate, Marked, CustodyInv, TypeOK, VariableTypes
  <2>3. /\ job'["task"].pc = "protected" /\ job'["task"].kind = job["task"].kind
        /\ job'["task"].handle = job["task"].handle /\ job["task"].pc = "activate"
    BY <1>4 DEF Activate, Job, CustodyInv, TypeOK, VariableTypes
  <2>4. job["task"].handle \in Handles
    BY <2>3 DEF CustodyInv, TaskInv
  <2>5. \A slot \in Slots : row[slot] # Absent => row[slot] \in Handles
    BY RowHandles
  <2> QED BY <2>1, <2>2, <2>3, <2>4, <2>5 DEF KindInv
<1>5. CASE StageFails \/ WriteRowFails \/ ProtectFails
  <2>1. UNCHANGED row /\ job'["task"].pc = "idle"
    BY <1>5 DEF StageFails, WriteRowFails, ProtectFails, durable, NoJob, Job, CustodyInv, TypeOK, VariableTypes
  <2>2. job["task"].pc \in {"stage", "protected"} => job["task"].handle \in Handles
    BY DEF CustodyInv, TaskInv
  <2>3. UNCHANGED meta \/ \E hs \in SUBSET Handles : remove(hs)
    BY <1>5, <2>2 DEF StageFails, WriteRowFails, ProtectFails, durable
  <2> QED BY <2>1, <2>3, RemoveKinds, KindsKept
<1>6. CASE WriteRow
  <2>1. /\ UNCHANGED meta /\ job'["task"].pc = "idle"
        /\ task.slot \in Slots
        /\ row'[task.slot] = job["task"].handle
        /\ \A slot \in Slots \ {task.slot} : row'[slot] = row[slot]
    BY <1>6 DEF WriteRow, NoJob, Job, CustodyInv, TaskInv, TypeOK, VariableTypes
  <2>2. meta[job["task"].handle].kind = Kind(task.slot)
    BY <1>6 DEF WriteRow, KindInv
  <2> QED BY <2>1, <2>2 DEF KindInv
<1>7. CASE Relate
  BY <1>7, KindsKept DEF Relate
<1>8. CASE ChangeRow
  <2>1. UNCHANGED meta /\ \A slot \in Slots : row'[slot] \in {Absent, row[slot]}
    BY <1>8 DEF ChangeRow
  <2>2. job["task"].pc = "idle"
    BY <1>8 DEF ChangeRow, KindInv
  <2>3. CASE task.pc = "drop"
    <3>1. UNCHANGED job
      BY <1>8, <2>3 DEF ChangeRow
    <3> QED BY <2>1, <2>2, <3>1, KindsKept
  <2>4. CASE task.pc = "rotate"
    <3>1. /\ task'.pc = "protect" /\ task'.slot = task.slot
          /\ job'["task"].pc = "put" /\ job'["task"].kind = Kind(task.slot)
      BY <1>8, <2>4 DEF ChangeRow, NewSecret, Job, CustodyInv, TypeOK, VariableTypes
    <3> QED BY <2>1, <3>1 DEF KindInv
  <2> QED BY <1>8, <2>3, <2>4 DEF ChangeRow
<1> QED BY <1>1, <1>2, <1>3, <1>4, <1>5, <1>6, <1>7, <1>8 DEF RequestStep

LEMMA KindsKeep ==
    ASSUME CustodyInv, KindInv, [Next]_vars
    PROVE  KindInv'
<1>1. CASE StartStep \/ RequestStep
  BY <1>1, StartKinds, RequestKinds, StageKinds
<1>2. ASSUME NEW h \in Handles, Lose(h) PROVE KindInv'
  BY <1>2, KindsKept DEF Lose
<1>3. CASE Crash
  <2>1. UNCHANGED <<meta, row>> /\ job'["task"].pc = "idle"
    BY <1>3 DEF Crash, durable, NoJob, Job
  <2> QED BY <2>1, KindsKept
<1>4. CASE reset_unrecoverable_identity
  <2>1. UNCHANGED job /\ job["task"].pc = "idle" /\ \A slot \in Slots : row'[slot] = Absent
    BY <1>4 DEF reset_unrecoverable_identity, reset_identity_bound_state, CustodyInv, PhaseInv, NoJob, Job
  <2> QED BY <2>1 DEF KindInv
<1>5. CASE UNCHANGED vars
  BY <1>5, KindsKept DEF vars
<1> QED BY <1>1, <1>2, <1>3, <1>4, <1>5 DEF Next

\* What a start does once the eligibility is being reconciled, or right before.
LEMMA LateSteps ==
    ASSUME Arrivals \subseteq {"running"}, CustodyInv, QuietInv, [Next]_vars,
           phase # "running", phase' \in Late \cup {"running"}
    PROVE  \/ ReconcileEligibility \/ ReconcileGrants \/ RemoveUnused
           \/ \E h \in Handles : Lose(h) /\ phase \in Late
           \/ UNCHANGED vars
<1>a. job["task"] = NoJob /\ task = NoTask /\ phase \notin Arrivals
  BY DEF QuietInv
<1>0. job["task"].pc = "idle" /\ task.pc = "idle" /\ phase \notin Arrivals
  BY <1>a DEF NoJob, Job, NoTask
<1>1. CASE RequestStep
  BY <1>0, <1>1 DEF RequestStep, Protect, RemoveSecrets, Serve, Put, Stage, StageFails, Activate,
     WriteRow, WriteRowFails, ProtectFails, Relate, ChangeRow
<1>2. CASE StartStep
  <2>1. ~(Boot \/ Reconciled \/ migrate_legacy_endpoint_identity \/ initialize_endpoint_identity)
    BY DEF Boot, Reconciled, migrate_legacy_endpoint_identity, initialize_endpoint_identity,
       RunsWith, Goto, Late
  <2>2. ~\E h \in Handles : ReconcileEntry(h) \/ DeleteUnknown(h) \/ delete_reset_handles(h)
    BY DEF ReconcileEntry, DeleteUnknown, delete_reset_handles, Goto, Late
  <2>3. ~(remove_legacy_identity_durably \/ remove_orphaned_targeted_authorizations)
    BY DEF remove_legacy_identity_durably, remove_orphaned_targeted_authorizations, RunsWith,
       Goto, Late
  <2>4. ~(Put("start") \/ Stage("start") \/ Activate("start"))
    <3>1. job["start"] = NoJob => job["start"].pc = "idle"
      BY DEF NoJob, Job
    <3> QED BY <3>1 DEF Put, Stage, Activate, CustodyInv, PhaseInv, Late
  <2> QED BY <1>2, <2>1, <2>2, <2>3, <2>4 DEF StartStep
<1>3. CASE Crash \/ reset_unrecoverable_identity
  BY <1>3 DEF Crash, reset_unrecoverable_identity, Goto, Late
<1>4. ASSUME NEW h \in Handles, Lose(h) PROVE phase \in Late
  BY <1>4 DEF Lose
<1> QED BY <1>1, <1>2, <1>3, <1>4 DEF Next

\* A start serves nobody until it is over.
LEMMA QuietKeeps ==
    ASSUME Arrivals \subseteq {"running"}, CustodyInv, QuietInv, [Next]_vars
    PROVE  QuietInv'
<1>1. CASE phase = "running"
  <2>1. CASE StartStep
    BY <1>1, <2>1 DEF StartStep, Boot, Reconciled, ReconcileEntry, DeleteUnknown, delete_reset_handles,
       migrate_legacy_endpoint_identity, initialize_endpoint_identity, Put, Stage, Activate,
       remove_legacy_identity_durably, remove_orphaned_targeted_authorizations,
       ReconcileEligibility, ReconcileGrants, RemoveUnused, CustodyInv, PhaseInv, NoJob, Job
  <2>2. CASE RequestStep
    <3>1. phase' = phase
      BY <2>2 DEF RequestStep, Protect, RemoveSecrets, Put, Stage, StageFails, Activate,
         WriteRow, WriteRowFails, ProtectFails, Relate, ChangeRow
    <3> QED BY <1>1, <3>1 DEF QuietInv
  <2>3. CASE (\E h \in Handles : Lose(h)) \/ UNCHANGED vars
    BY <1>1, <2>3 DEF Lose, vars, QuietInv
  <2>4. CASE Crash
    BY <2>4 DEF Crash, QuietInv
  <2>5. CASE reset_unrecoverable_identity
    BY <1>1, <2>5 DEF reset_unrecoverable_identity
  <2> QED BY <2>1, <2>2, <2>3, <2>4, <2>5 DEF Next
<1>2. CASE phase # "running"
  <2>a. job["task"] = NoJob /\ task = NoTask /\ phase \notin Arrivals
    BY <1>2 DEF QuietInv
  <2>0. /\ job["task"] = NoJob /\ task = NoTask /\ phase \notin Arrivals
        /\ job["task"].pc = "idle" /\ task.pc = "idle"
    BY <2>a DEF NoJob, Job, NoTask
  <2>1. CASE StartStep
    <3>1. task' = task
      BY <2>1 DEF StartStep, Boot, Reconciled, ReconcileEntry, DeleteUnknown, delete_reset_handles,
         migrate_legacy_endpoint_identity, initialize_endpoint_identity, Put, Stage, Activate,
         remove_legacy_identity_durably, remove_orphaned_targeted_authorizations,
         ReconcileEligibility, ReconcileGrants, RemoveUnused, StartOnly
    <3>2. job'["task"] = job["task"]
      BY <2>1 DEF StartStep, Boot, Reconciled, ReconcileEntry, DeleteUnknown, delete_reset_handles,
         migrate_legacy_endpoint_identity, initialize_endpoint_identity, Put, Stage, Activate,
         remove_legacy_identity_durably, remove_orphaned_targeted_authorizations,
         ReconcileEligibility, ReconcileGrants, RemoveUnused, StartOnly,
         CustodyInv, TypeOK, VariableTypes
    <3> QED BY <2>0, <3>1, <3>2 DEF QuietInv
  <2>2. CASE RequestStep
    BY <2>0, <2>2 DEF RequestStep, Protect, RemoveSecrets, Serve, Put, Stage, StageFails, Activate,
       WriteRow, WriteRowFails, ProtectFails, Relate, ChangeRow
  <2>3. CASE (\E h \in Handles : Lose(h)) \/ UNCHANGED vars \/ reset_unrecoverable_identity
    BY <2>0, <2>3 DEF Lose, vars, reset_unrecoverable_identity, QuietInv
  <2>4. CASE Crash
    BY <2>4 DEF Crash, QuietInv
  <2> QED BY <2>1, <2>2, <2>3, <2>4 DEF Next
<1> QED BY <1>1, <1>2

\* Reconciling the eligibility keeps its row only with its secret.
LEMMA ReconcileEligibilityLate ==
    ASSUME CustodyInv, ReconcileEligibility PROVE LateInv'
<1>1. phase' = "unused eligibility"
  BY DEF ReconcileEligibility, Goto
<1>2. CASE /\ \A h \in seen' : load(h)
           /\ UNCHANGED <<item, meta, row>>
  <2>1. row["eligibility"] # Absent => row["eligibility"] \in seen' /\ load(row["eligibility"])
    BY <1>2 DEF ReconcileEligibility
  <2>2. row'["eligibility"] # Absent => load(row["eligibility"])'
    BY <1>2, <2>1 DEF load, validate_material
  <2> QED BY <1>1, <1>2, <2>1, <2>2 DEF LateInv, EligibilityBacked
<1>3. CASE row' = [row EXCEPT !["eligibility"] = Absent]
  <2>1. row'["eligibility"] = Absent
    BY <1>3 DEF CustodyInv, TypeOK, VariableTypes, Slots
  <2> QED BY <1>1, <2>1 DEF LateInv, EligibilityBacked
<1> QED BY <1>2, <1>3 DEF ReconcileEligibility

\* Reconciling the grants leaves the secret of the eligibility alone.
LEMMA ReconcileGrantsLate ==
    ASSUME CustodyInv, KindInv, LateInv, ReconcileGrants PROVE LateInv'
<1> DEFINE dropped == relation = "saved" /\ ~(row["issued"] # Absent /\ load(row["issued"]))
<1>1. phase = "grant" /\ phase' = "unused grant" /\ lost' = lost
      /\ seen' = {row["issued"], row["held"]} \ {Absent}
  BY DEF ReconcileGrants, Goto
<1>2. EligibilityBacked
  BY <1>1 DEF LateInv, Late
<1>3. \A slot \in Slots : row[slot] # Absent => row[slot] \in Handles
  BY RowHandles
<1>4. CASE dropped
  <2>1. /\ remove(seen') /\ relation' = "none"
        /\ row' = [row EXCEPT !["issued"] = Absent, !["held"] = Absent]
    BY <1>4 DEF ReconcileGrants
  <2>2. /\ row'["eligibility"] = row["eligibility"]
        /\ row'["issued"] = Absent /\ row'["held"] = Absent
    BY <2>1 DEF CustodyInv, TypeOK, VariableTypes, Slots
  <2>3. ASSUME row["eligibility"] # Absent, load(row["eligibility"])
        PROVE  load(row["eligibility"])'
    <3> DEFINE hs == {row["issued"], row["held"]} \ {Absent}
               e == row["eligibility"]
    <3>1. hs \in SUBSET Handles /\ e \in Handles
      BY <1>3, <2>3 DEF Slots
    <3>2. \A h \in hs : meta[h].kind = "grant"
      BY DEF KindInv, Slots, Kind
    <3>3. meta[e].kind = "eligibility"
      BY <2>3 DEF KindInv, Slots, Kind
    <3>4. e \in Handles \ hs /\ remove(hs)
      BY <1>1, <2>1, <3>1, <3>2, <3>3
    <3>a. row'["eligibility"] = e /\ load(e)
      BY <2>2, <2>3
    <3> HIDE DEF hs, e
    <3>5. meta'[e] = meta[e] /\ item'[e] = item[e]
      BY <3>1, <3>4, RemoveFacts DEF CustodyInv
    <3> QED BY <3>a, <3>5 DEF load, validate_material
  <2>4. EligibilityBacked'
    BY <1>1, <1>2, <2>2, <2>3 DEF EligibilityBacked
  <2>5. IssuedBacked'
    BY <2>1 DEF IssuedBacked
  <2> QED BY <1>1, <2>2, <2>4, <2>5 DEF LateInv
<1>5. CASE ~dropped
  <2>1. UNCHANGED <<item, meta, row, relation>>
    BY <1>5 DEF ReconcileGrants
  <2>2. EligibilityBacked'
    BY <1>1, <1>2, <2>1 DEF EligibilityBacked, load, validate_material
  <2>3. IssuedBacked'
    BY <1>1, <1>5, <2>1 DEF IssuedBacked, load, validate_material
  <2> QED BY <1>1, <2>1, <2>2, <2>3 DEF LateInv
<1> QED BY <1>4, <1>5

\* Secrets removed as unused are of one kind and not in the rows that were
\* listed, so neither pass takes the secret of a row.
LEMMA RemoveUnusedLate ==
    ASSUME CustodyInv, KindInv, LateInv, RemoveUnused
    PROVE  /\ EligibilityBacked'
           /\ phase = "unused grant" => IssuedBacked'
           /\ phase' = IF phase = "unused grant" THEN "running" ELSE "grant"
<1> DEFINE kind == IF phase = "unused grant" THEN "grant" ELSE "eligibility"
           hs == ActiveHandles(kind) \ seen
           e == row["eligibility"]
           i == row["issued"]
<1>1. /\ phase \in {"unused eligibility", "unused grant"} /\ UNCHANGED <<row, relation, lost>>
      /\ remove(hs) /\ phase' = IF phase = "unused grant" THEN "running" ELSE "grant"
  BY DEF RemoveUnused, Goto
<1>2. hs \in SUBSET Handles /\ \A h \in hs : meta[h].kind = kind /\ h \notin seen
  BY DEF ActiveHandles
<1>3. e # Absent => e \in Handles \ hs
  <2>1. e # Absent => e \in Handles /\ meta[e].kind = "eligibility"
    BY RowHandles DEF KindInv, Slots, Kind
  <2>2. phase = "unused eligibility" => e \in seen \cup {Absent}
    BY DEF LateInv
  <2> QED BY <1>1, <1>2, <2>1, <2>2
<1>4. phase = "unused grant" /\ i # Absent => i \in Handles \ hs
  <2>1. i # Absent => i \in Handles
    BY RowHandles DEF Slots
  <2> QED BY <1>2, <2>1 DEF LateInv
<1>5. EligibilityBacked /\ (phase = "unused grant" => IssuedBacked)
  BY <1>1 DEF LateInv, Late
<1>a. row'["eligibility"] = e /\ row'["issued"] = i
  BY <1>1
<1> HIDE DEF hs
<1>b. \A h \in Handles \ hs : meta'[h] = meta[h] /\ item'[h] = item[h]
  BY <1>1, <1>2, RemoveFacts DEF CustodyInv
<1>6. EligibilityBacked'
  BY <1>1, <1>3, <1>5, <1>b DEF EligibilityBacked, load, validate_material
<1>7. phase = "unused grant" => IssuedBacked'
  BY <1>1, <1>4, <1>5, <1>b DEF IssuedBacked, load, validate_material
<1> QED BY <1>1, <1>6, <1>7

\* A start keeps what it has reconciled.
LEMMA LateKeeps ==
    ASSUME Arrivals \subseteq {"running"}, CustodyInv, StartInv, [Next]_vars
    PROVE  LateInv'
<1>0. SUFFICES ASSUME phase' \in Late PROVE LateInv'
  BY DEF LateInv, Late
<1>1. CASE phase = "running"
  <2>1. phase' \in {"running", "down"}
    <3>1. CASE StartStep
      BY <1>1, <3>1 DEF StartStep, Boot, Reconciled, ReconcileEntry, DeleteUnknown,
         delete_reset_handles, migrate_legacy_endpoint_identity, initialize_endpoint_identity,
         Put, Stage, Activate, remove_legacy_identity_durably,
         remove_orphaned_targeted_authorizations, ReconcileEligibility, ReconcileGrants,
         RemoveUnused
    <3>2. CASE RequestStep
      BY <1>1, <3>2 DEF RequestStep, Protect, RemoveSecrets, Put, Stage, StageFails, Activate,
         WriteRow, WriteRowFails, ProtectFails, Relate, ChangeRow
    <3>3. CASE (\E h \in Handles : Lose(h)) \/ Crash \/ UNCHANGED vars \/ reset_unrecoverable_identity
      BY <1>1, <3>3 DEF Lose, Crash, vars, reset_unrecoverable_identity, Goto
    <3> QED BY <3>1, <3>2, <3>3 DEF Next
  <2> QED BY <1>0, <2>1 DEF Late
<1>2. CASE phase # "running"
  <2>0. KindInv /\ QuietInv /\ LateInv
    BY DEF StartInv
  <2>1. CASE ReconcileEligibility
    BY <2>1, ReconcileEligibilityLate
  <2>2. CASE ReconcileGrants
    BY <2>0, <2>2, ReconcileGrantsLate
  <2>3. CASE RemoveUnused
    BY <1>0, <2>0, <2>3, RemoveUnusedLate DEF LateInv, Late
  <2>4. ASSUME NEW h \in Handles, Lose(h), phase \in Late PROVE LateInv'
    <3>1. /\ UNCHANGED <<meta, row, relation, phase, seen>> /\ lost' = lost \cup {h}
          /\ \A g \in Handles \ {h} : item'[g] = item[g]
      BY <2>4 DEF Lose, CustodyInv, TypeOK, VariableTypes
    <3>2. \A g \in Handles : load(g) \/ g \in lost => load(g)' \/ g \in lost'
      BY <3>1 DEF load, validate_material
    <3>3. \A slot \in Slots : row[slot] # Absent => row[slot] \in Handles
      BY RowHandles
    <3>4. EligibilityBacked'
      <4>1. EligibilityBacked
        BY <2>0, <2>4 DEF LateInv
      <4>2. row["eligibility"] # Absent =>
                load(row["eligibility"])' \/ row["eligibility"] \in lost'
        BY <3>1, <3>2, <3>3, <4>1 DEF EligibilityBacked, Slots, load, validate_material
      <4> QED BY <3>1, <4>2 DEF EligibilityBacked
    <3>5. phase = "unused grant" => IssuedBacked'
      <4>1. phase = "unused grant" => IssuedBacked
        BY <2>0 DEF LateInv
      <4>2. phase = "unused grant" /\ relation = "saved" =>
                row["issued"] # Absent /\ (load(row["issued"])' \/ row["issued"] \in lost')
        BY <3>1, <3>2, <3>3, <4>1 DEF IssuedBacked, Slots, load, validate_material
      <4> QED BY <3>1, <4>2 DEF IssuedBacked
    <3> QED BY <2>0, <3>1, <3>4, <3>5 DEF LateInv
  <2>5. CASE UNCHANGED vars
    BY <2>0, <2>5 DEF vars, LateInv, EligibilityBacked, IssuedBacked, load, validate_material
  <2> QED BY <1>0, <1>2, <2>0, <2>1, <2>2, <2>3, <2>4, <2>5, LateSteps
<1> QED BY <1>1, <1>2

\* The step that ends a start is the removal of unused grants.
LEMMA StartEnds ==
    ASSUME Arrivals \subseteq {"running"}, CustodyInv, StartInv, [Next]_vars,
           phase # "running", phase' = "running"
    PROVE  Backed'
<1>0. KindInv /\ QuietInv /\ LateInv
  BY DEF StartInv
<1>1. RemoveUnused /\ phase = "unused grant"
  <2>1. ~(ReconcileEligibility \/ ReconcileGrants \/ UNCHANGED vars \/ \E h \in Handles : Lose(h))
    BY DEF ReconcileEligibility, ReconcileGrants, Goto, vars, Lose
  <2>2. RemoveUnused
    BY <1>0, <2>1, LateSteps
  <2> QED BY <2>2 DEF RemoveUnused, Goto
<1>2. EligibilityBacked' /\ IssuedBacked'
  BY <1>0, <1>1, RemoveUnusedLate
<1> QED BY <1>2 DEF Backed, EligibilityBacked, IssuedBacked

LEMMA StartInit == Init => StartInv
  BY DEF Init, StartInv, KindInv, QuietInv, LateInv, Late, NoJob, Job, NoTask

\* When requests arrive only after a start, it ends with every row backed: no
\* interrupted removal, rotation or write, and no loss on the way, leaves an
\* eligibility or a saved relationship without the secret it names, unless the
\* platform lost that secret.
THEOREM StartBacksEveryRow ==
    ASSUME Arrivals \subseteq {"running"}
    PROVE  Spec => StartBacksRows
<1>1. StartInv /\ CustodyInv /\ [Next]_vars => StartInv'
  BY KindsKeep, QuietKeeps, LateKeeps DEF StartInv
<1>2. StartInv /\ CustodyInv /\ [Next]_vars =>
        [phase # "running" /\ phase' = "running" => Backed']_vars
  BY StartEnds
<1> QED BY <1>1, <1>2, StartInit, CustodyCorrect, PTL DEF Spec, StartBacksRows
===============================================================================
