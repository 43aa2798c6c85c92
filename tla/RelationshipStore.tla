--------------------------- MODULE RelationshipStore ---------------------------
(***************************************************************************)
(* The durable side of device relationships: the row a device keeps about   *)
(* its peer (device_relationships), the tombstones of the generations it    *)
(* revoked, and the grants both refer to.  Every operator below is one SQL  *)
(* statement of device_relationship/store.rs applied to the row; most of    *)
(* them are UPDATEs by endpoint id only, which change whatever row they     *)
(* find and nothing when the row is gone.                                   *)
(*                                                                         *)
(* Two devices are modelled, so a device has at most one row.  Names,       *)
(* labels and timestamps are left out, and so are the two acknowledgement   *)
(* columns, which are written and never read.  Both devices speak the same  *)
(* protocol version.                                                        *)
(***************************************************************************)
EXTENDS Integers, FiniteSets

CONSTANTS
    Sessions,       \* completed invitation transfers the two devices share
    MaxGeneration,  \* bound on relationship generations
    MaxGrants,      \* bound on the grants a device mints
    None

ASSUME StoreBounds == MaxGeneration \in Nat /\ MaxGrants \in Nat

\* Endpoint ids are compared to elect the leader of a merge: 1 < 2.
Devices == {1, 2}
Peer(d) == 3 - d

Generations == 0 .. MaxGeneration
Grants == [issuer : Devices, n : 1 .. MaxGrants]

ASSUME NoneIsNoGrant == None \notin Grants

Pending == {"pending_outgoing", "pending_incoming"}
States == Pending \cup {"saved"}

Rows == [state : States, generation : Generations, session : Sessions,
         issued : Grants \cup {None}, held : Grants \cup {None}]

ASSUME NoneIsNoRow == None \notin Rows

IsSaved(r)    == r # None /\ r.state = "saved"
IsPending(r)  == r # None /\ r.state \in Pending
IsIncoming(r) == r # None /\ r.state = "pending_incoming"
IsOutgoing(r) == r # None /\ r.state = "pending_outgoing"

NewRow(state, g, s) ==
    [state |-> state, generation |-> g, session |-> s, issued |-> None, held |-> None]

\* INSERT ... ON CONFLICT: the grants survive only in an unchanged generation.
upsert(r, state, g, s) ==
    IF r # None /\ r.generation = g
    THEN [r EXCEPT !.state = state, !.session = s]
    ELSE NewRow(state, g, s)

\* The only guarded UPDATE: same session and still pending.
PendingIn(r, s) == IsPending(r) /\ r.session = s

set_pending_generation(r, s, g) ==
    IF PendingIn(r, s) THEN upsert(r, r.state, g, s) ELSE r

set_issued_grant(r, g) == IF r = None THEN None ELSE [r EXCEPT !.issued = g]
set_held_grant(r, g)   == IF r = None THEN None ELSE [r EXCEPT !.held = g]
set_state(r, state)    == IF r = None THEN None ELSE [r EXCEPT !.state = state]

begin_grant_rotation(r, g) == NewRow(r.state, g, r.session)

\* The largest generation the device has a row or a tombstone for.
generation_floor(r, tombs) ==
    LET known == {0} \cup tombs \cup (IF r = None THEN {} ELSE {r.generation})
    IN CHOOSE g \in known : \A h \in known : h <= g

\* Fault: the tombstones are not consulted.
NextOfRow(r, tombs) == generation_floor(r, {}) + 1

next_generation(r, tombs) == generation_floor(r, tombs) + 1
===============================================================================
