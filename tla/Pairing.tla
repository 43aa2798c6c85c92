-------------------------------- MODULE Pairing --------------------------------
(***************************************************************************)
(* Device relationships between two devices: pairing by mutual consent,     *)
(* simultaneous initiation, forgetting, blocking and grant rotation.        *)
(*                                                                         *)
(* A task is one run of request_pairing, respond_to_pairing, forget or      *)
(* block on its device, or of complete_simultaneous_merge inside the        *)
(* handler of a request.  A task awaits the answer of at most one RPC.  The *)
(* peer's handler runs whether or not its caller still waits: an RPC whose  *)
(* caller gave up has caller None.  A per-peer lock covers request_pairing  *)
(* up to its first RPC, the handler of a request, the start of a merge,     *)
(* forget, block, rotation and remote revocation; respond_to_pairing and    *)
(* the handlers of consents and acknowledgements run without it.  A read of *)
(* the row and the write that relies on it are separate steps.              *)
(***************************************************************************)
EXTENDS RelationshipStore

CONSTANTS
    Tasks,          \* concurrent tasks of both devices
    Commands,       \* <<device, command, n>>: what users may ask for the n-th time
    Sharer,         \* the device that shared the files of every session
    MaxCommands,    \* bound on the commands of a behaviour
    MaxReceipts,    \* how often the sharer may see the receipt of a session
    MaxTimeouts,    \* bound on calls given up, their message lost or late
    MaxCrashes      \* bound on restarts

ASSUME PairingAssumption ==
    /\ Commands \subseteq Devices \X {"request", "accept", "decline", "forget",
                                      "block", "unblock", "rotate", "dismiss"} \X Nat
    /\ Sharer \in Devices
    /\ None \notin Tasks
    /\ {MaxCommands, MaxReceipts, MaxTimeouts, MaxCrashes} \subseteq Nat

VARIABLES
    row,        \* device_relationships: the row of each device about its peer
    tombstones, \* relationship_generation_tombstones
    eligible,   \* pairing_eligibilities: sessions usable by each device
    blocked,    \* blocked_endpoints: does the device deny its peer
    minted,     \* how many grants each device has minted
    task,
    rpcs,
    receipts,   \* how often each device saw a session complete
    consent,    \* history: how often the user agreed to the present relationship
    commands,   \* what the users have asked for
    timeouts, crashes

store == <<row, tombstones, eligible, blocked, minted>>
bounds == <<commands, timeouts, crashes>>
vars == <<row, tombstones, eligible, blocked, minted, task, rpcs, receipts,
          consent, commands, timeouts, crashes>>

-------------------------------------------------------------------------------
(* Tasks and calls.                                                         *)

Idle == [pc |-> "idle", on |-> 0, session |-> None, generation |-> 0]

Kinds == {"request", "consent", "ack", "revoke"}
Answers == {"awaiting", "merged", "saved", "rejected", "completed", "acknowledged"}

TaskRecords ==
    [pc : {"idle", "reserve", "upsert", "request", "merge", "mint", "consent",
           "ack", "forget", "delete"},
     on : Devices \cup {0}, session : Sessions \cup {None}, generation : Generations]

\* A call: the message, how far its handler is, and the answer once there is
\* one.  grant is what a consent or a completed answer hands over, proof the
\* grant whose possession the message or the answer proves.
Call(kind, t, to, s, g, grant, proof) ==
    [kind |-> kind, caller |-> t, to |-> to, stage |-> "sent", session |-> s,
     generation |-> g, grant |-> grant, proof |-> proof, answer |-> None, lead |-> None]

\* The answer has reached the caller.
Read == {"replied", "verified"}

RpcRecords ==
    [kind : Kinds, caller : Tasks \cup {None}, to : Devices,
     stage : {"sent", "admitted", "serving", "merging", "replied", "verified"},
     session : Sessions \cup {None}, generation : Generations,
     grant : Grants \cup {None}, proof : Grants \cup {None},
     answer : Answers \cup {None}, lead : Tasks \cup {None}]

\* The calls R once m is answered; nobody reads the answer of an orphan.
Reply(R, m, answer, g, grant, proof) ==
    (R \ {m}) \cup
    (IF m.caller = None THEN {}
     ELSE {[m EXCEPT !.stage = "replied", !.answer = answer, !.generation = g,
                     !.grant = grant, !.proof = proof, !.lead = None]})

Reject(m) == Reply(rpcs, m, "rejected", m.generation, None, None)

\* The task ends; the handler that waited for its merge answers its caller.
Done(R, t) ==
    {IF m.lead = t THEN [m EXCEPT !.stage = "replied", !.answer = "merged", !.lead = None]
     ELSE m : m \in {x \in R : ~(x.lead = t /\ x.caller = None)}}

End(t, R) ==
    /\ task' = [task EXCEPT ![t] = Idle]
    /\ rpcs' = Done(R, t)

Goto(t, pc) == task' = [task EXCEPT ![t].pc = pc]

\* Fault: request_pairing keeps the lock while it waits for the peer's answer.
LockedOverCall(d) ==
    \/ \E t \in Tasks : task[t].on = d /\ task[t].pc \in {"upsert", "delete", "request"}
    \/ \E m \in rpcs : m.to = d /\ m.kind = "request" /\ m.stage = "serving"

\* Who holds the peer lock of device d.
Locked(d) ==
    \/ \E t \in Tasks : task[t].on = d /\ task[t].pc \in {"upsert", "delete"}
    \/ \E m \in rpcs : m.to = d /\ m.kind = "request" /\ m.stage = "serving"

\* No call is under way.
Quiet == rpcs = {} /\ \A t \in Tasks : task[t] = Idle

Answered(t, m) == m.caller = t /\ m.stage = "replied"

\* Commands of the users, within the bound on their number.
Command(d, c) ==
    /\ Cardinality(commands) < MaxCommands
    /\ \E n \in 1 .. MaxCommands :
          /\ <<d, c, n>> \in Commands \ commands
          /\ n = 1 \/ <<d, c, n - 1>> \in commands
          /\ commands' = commands \cup {<<d, c, n>>}
    /\ UNCHANGED <<timeouts, crashes>>

Begin(t, d, pc, s, g) ==
    /\ task[t] = Idle
    /\ task' = [task EXCEPT ![t] = [pc |-> pc, on |-> d, session |-> s, generation |-> g]]

\* The user of d takes part in the relationship; it ends with the row.
Agree(d) == consent' = [consent EXCEPT ![d] = @ + 1]
Disagree(d) == consent' = [consent EXCEPT ![d] = 0]

Max2(a, b) == IF a < b THEN b ELSE a

\* A generation may be presented while it is the active one and not revoked.
reject_replayed_generation(d, g) ==
    g \in tombstones[d] \/ row[d] = None \/ row[d].generation # g

\* A proof is a keyed hash: only who holds the grant can compute it.
verify_relationship_grant(issued, proof) == issued # None /\ issued = proof

verify_issued_possession(d, proof, g) ==
    ~reject_replayed_generation(d, g) /\ verify_relationship_grant(row[d].issued, proof)

\* A consent is answered, and a consent's answer acknowledged, with the proof of
\* the grant it handed over.
prove_held_possession(grant) == grant

\* The next grant of device d, within the bound.
MayMint(d) == minted[d] < MaxGrants
NewGrant(d) == [issuer |-> d, n |-> minted[d] + 1]
CountMint(d) == minted' = [minted EXCEPT ![d] = @ + 1]

-------------------------------------------------------------------------------
(* Eligibility.                                                             *)

\* The request presents a capability that only the two ends of a session know.
validate_presented_capability(d, s) == s \in eligible[d]

consume_session(d, s) == eligible' = [eligible EXCEPT ![d] = @ \ {s}]
remove_for_peer(d) == eligible' = [eligible EXCEPT ![d] = {}]

\* A session completed on this device: the receiver learns of it once, the
\* sharer whenever a receipt, possibly a repeated one, arrives.
activate_after_completed_transfer(d, s) ==
    /\ receipts[d][s] < (IF d = Sharer THEN MaxReceipts ELSE 1)
    /\ receipts' = [receipts EXCEPT ![d][s] = @ + 1]
    /\ eligible' = [eligible EXCEPT ![d] = IF IsSaved(row[d]) THEN {} ELSE @ \cup {s}]
    /\ UNCHANGED <<row, tombstones, blocked, minted, task, rpcs, consent, bounds>>

\* The user dismisses the offer to pair.
DeclineEligibility(d) ==
    /\ Command(d, "dismiss")
    /\ remove_for_peer(d)
    /\ UNCHANGED <<row, tombstones, blocked, minted, task, rpcs, receipts, consent>>

\* An eligibility lasts a day, far longer than any call.
expire_due(d, s) ==
    /\ s \in eligible[d]
    /\ Quiet
    /\ consume_session(d, s)
    /\ UNCHANGED <<row, tombstones, blocked, minted, task, rpcs, receipts, consent, bounds>>

-------------------------------------------------------------------------------
(* Requesting a relationship.                                               *)

\* The deny list is read before the lock is taken.
request_pairing(t, d) ==
    /\ Command(d, "request")
    /\ ~blocked[d]
    /\ Begin(t, d, "reserve", None, 0)
    /\ UNCHANGED <<store, rpcs, receipts, consent>>

\* Under the lock: nothing to do, or an eligibility is consumed.
ReserveRequest(t) ==
    LET d == task[t].on IN
    /\ task[t].pc = "reserve"
    /\ ~Locked(d)
    /\ \/ /\ IsSaved(row[d]) \/ eligible[d] = {}
          /\ End(t, rpcs)
          /\ UNCHANGED eligible
       \/ /\ ~IsSaved(row[d])
          /\ next_generation(row[d], tombstones[d]) <= MaxGeneration
          /\ \E s \in eligible[d] :
                /\ consume_session(d, s)
                /\ task' = [task EXCEPT ![t].pc = "upsert", ![t].session = s,
                              ![t].generation = next_generation(row[d], tombstones[d])]
          /\ UNCHANGED rpcs
    /\ UNCHANGED <<row, tombstones, blocked, minted, receipts, consent, bounds>>

\* Still under the lock: the row becomes outgoing.  A request of the peer for
\* the same session turns this one into a merge.
UpsertRequest(t) ==
    LET d == task[t].on
        s == task[t].session
        g == task[t].generation
        merging == IsIncoming(row[d]) /\ row[d].session = s
    IN
    /\ task[t].pc = "upsert"
    /\ row' = [row EXCEPT ![d] = upsert(@, "pending_outgoing", g, s)]
    /\ Goto(t, IF merging THEN "merge" ELSE "request")
    /\ rpcs' = IF merging THEN rpcs
               ELSE rpcs \cup {Call("request", t, Peer(d), s, g, None, None)}
    /\ Agree(d)
    /\ UNCHANGED <<tombstones, eligible, blocked, minted, receipts, bounds>>

\* Fault: the state is written under a name no reader knows.
ActivateUnknown(d) == row' = [row EXCEPT ![d] = set_state(@, "active")]

activate_saved(d) == row' = [row EXCEPT ![d] = set_state(@, "saved")]

adopt_pending_generation(d, s, g) ==
    row' = [row EXCEPT ![d] = set_pending_generation(@, s, g)]

\* What request_pairing does with the peer's answer.
RequestAnswered(t) ==
    LET d == task[t].on
        s == task[t].session
        Matches(g) == PendingIn(row[d], s) \/ (IsSaved(row[d]) /\ row[d].generation = g)
    IN
    /\ task[t].pc = "request"
    /\ \E m \in rpcs :
        /\ Answered(t, m)
        /\ CASE m.answer = "awaiting" ->
                    adopt_pending_generation(d, s, m.generation) /\ End(t, rpcs \ {m})
             [] m.answer = "merged" /\ Matches(m.generation) ->
                    /\ adopt_pending_generation(d, s, m.generation)
                    /\ task' = [task EXCEPT ![t].pc = "merge", ![t].generation = m.generation]
                    /\ rpcs' = rpcs \ {m}
             [] m.answer = "saved" -> activate_saved(d) /\ End(t, rpcs \ {m})
             [] OTHER -> UNCHANGED row /\ End(t, rpcs \ {m})
    /\ UNCHANGED <<tombstones, eligible, blocked, minted, receipts, consent, bounds>>

\* mint_and_store_issued_grant, and the consent that carries the grant.
MintAndConsent(t) ==
    LET d == task[t].on IN
    /\ MayMint(d)
    /\ CountMint(d)
    /\ row' = [row EXCEPT ![d] = set_issued_grant(@, NewGrant(d))]
    /\ Goto(t, "consent")
    /\ rpcs' = rpcs \cup {Call("consent", t, Peer(d), None, task[t].generation,
                               NewGrant(d), None)}

\* Fault: no role is elected and both devices lead the exchange.
BothLead(t) ==
    LET d == task[t].on IN
    /\ task[t].pc = "merge"
    /\ ~Locked(d)
    /\ IF IsSaved(row[d])
       THEN End(t, rpcs) /\ UNCHANGED <<row, minted>>
       ELSE MintAndConsent(t)
    /\ UNCHANGED <<tombstones, eligible, blocked, receipts, consent, bounds>>

\* The smaller endpoint id leads the exchange, once.
complete_simultaneous_merge(t) ==
    LET d == task[t].on IN
    /\ task[t].pc = "merge"
    /\ ~Locked(d)
    /\ IF IsSaved(row[d]) \/ (row[d] # None /\ row[d].issued # None) \/ d >= Peer(d)
       THEN End(t, rpcs) /\ UNCHANGED <<row, minted>>
       ELSE MintAndConsent(t)
    /\ UNCHANGED <<tombstones, eligible, blocked, receipts, consent, bounds>>

-------------------------------------------------------------------------------
(* Answering a request: respond_to_pairing takes no lock.                   *)

\* The accepted session's eligibility is spent first.
Accept(t, d) ==
    /\ Command(d, "accept")
    /\ ~blocked[d]
    /\ IsIncoming(row[d])
    /\ Begin(t, d, "mint", None, row[d].generation)
    /\ consume_session(d, row[d].session)
    /\ Agree(d)
    /\ UNCHANGED <<row, tombstones, blocked, minted, rpcs, receipts>>

\* Then our grant is minted onto whatever row there is.
MintGrant(t) ==
    /\ task[t].pc = "mint"
    /\ MintAndConsent(t)
    /\ UNCHANGED <<tombstones, eligible, blocked, receipts, consent, bounds>>

\* A declining consent carries no grant; its answer is not looked at.
Decline(d) ==
    /\ Command(d, "decline")
    /\ ~blocked[d]
    /\ IsIncoming(row[d])
    /\ consume_session(d, row[d].session)
    /\ row' = [row EXCEPT ![d] = None]
    /\ rpcs' = rpcs \cup {Call("consent", None, Peer(d), None, row[d].generation, None, None)}
    /\ Disagree(d)
    /\ UNCHANGED <<tombstones, blocked, minted, task, receipts>>

\* A completed exchange counts once the peer proved that it holds our grant.
ConsentAnswered(t) ==
    LET d == task[t].on IN
    /\ task[t].pc = "consent"
    /\ \E m \in rpcs :
        /\ Answered(t, m)
        /\ CASE m.answer = "completed"
                  /\ verify_issued_possession(d, m.proof, task[t].generation) ->
                    /\ rpcs' = (rpcs \ {m}) \cup {[m EXCEPT !.stage = "verified"]}
                    /\ UNCHANGED <<row, task>>
             [] m.answer = "saved" -> activate_saved(d) /\ End(t, rpcs \ {m})
             [] OTHER -> UNCHANGED row /\ End(t, rpcs \ {m})
    /\ UNCHANGED <<tombstones, eligible, blocked, minted, receipts, consent, bounds>>

\* Then the peer's grant is kept and its possession acknowledged, unless the
\* row has gone meanwhile.
store_held_grant(t) ==
    LET d == task[t].on IN
    /\ task[t].pc = "consent"
    /\ \E m \in rpcs :
        /\ m.caller = t /\ m.stage = "verified"
        /\ row' = [row EXCEPT ![d] = set_held_grant(@, m.grant)]
        /\ IF row[d] = None
           THEN End(t, rpcs \ {m})
           ELSE /\ Goto(t, "ack")
                /\ rpcs' = (rpcs \ {m}) \cup
                           {Call("ack", t, Peer(d), None, task[t].generation, None,
                                 prove_held_possession(m.grant))}
    /\ UNCHANGED <<tombstones, eligible, blocked, minted, receipts, consent, bounds>>

\* The row becomes saved once the peer has it saved.
AckAnswered(t) ==
    /\ task[t].pc = "ack"
    /\ \E m \in rpcs :
        /\ Answered(t, m)
        /\ IF m.answer \in {"acknowledged", "saved"}
           THEN activate_saved(task[t].on) ELSE UNCHANGED row
        /\ End(t, rpcs \ {m})
    /\ UNCHANGED <<tombstones, eligible, blocked, minted, receipts, consent, bounds>>

-------------------------------------------------------------------------------
(* Handlers of the peer's messages.                                         *)

\* The deny list is read before the lock is taken.
AdmitRequest(m) ==
    /\ m.kind = "request" /\ m.stage = "sent"
    /\ rpcs' = IF blocked[m.to] THEN Reject(m)
               ELSE (rpcs \ {m}) \cup {[m EXCEPT !.stage = "admitted"]}
    /\ UNCHANGED <<store, task, receipts, consent, bounds>>

\* Our own pending row of the same session takes the larger generation.
JoinPending(m) ==
    LET d == m.to
        g == Max2(row[d].generation, m.generation)
    IN
    /\ PendingIn(row[d], m.session)
    /\ row' = [row EXCEPT ![d] = set_pending_generation(@, m.session, g)]
    /\ \/ /\ IsIncoming(row[d])
          /\ rpcs' = Reply(rpcs, m, "awaiting", g, None, None)
          /\ UNCHANGED task
       \/ /\ IsOutgoing(row[d])
          /\ d >= Peer(d)
          /\ rpcs' = Reply(rpcs, m, "merged", g, None, None)
          /\ UNCHANGED task
       \/ /\ IsOutgoing(row[d])
          /\ d < Peer(d)
          /\ \E t \in Tasks :
                /\ Begin(t, d, "merge", m.session, g)
                /\ rpcs' = (rpcs \ {m}) \cup
                           {[m EXCEPT !.stage = "merging", !.generation = g, !.lead = t]}

\* Under the lock: the row decides; a first request needs our own eligibility
\* for the session, which only the user's answer consumes.
ServeRequest(m) ==
    LET d == m.to
        g == Max2(m.generation, next_generation(row[d], tombstones[d]))
    IN
    /\ m.kind = "request" /\ m.stage = "admitted"
    /\ ~Locked(d)
    /\ \/ /\ IsSaved(row[d])
          /\ rpcs' = Reply(rpcs, m, "saved", 0, None, None)
          /\ UNCHANGED <<row, task>>
       \/ JoinPending(m)
       \/ /\ ~IsSaved(row[d]) /\ ~PendingIn(row[d], m.session)
          /\ ~validate_presented_capability(d, m.session)
          /\ rpcs' = Reject(m)
          /\ UNCHANGED <<row, task>>
       \/ /\ ~IsSaved(row[d]) /\ ~PendingIn(row[d], m.session)
          /\ validate_presented_capability(d, m.session)
          /\ g <= MaxGeneration
          /\ rpcs' = (rpcs \ {m}) \cup {[m EXCEPT !.stage = "serving", !.generation = g]}
          /\ UNCHANGED <<row, task>>
    /\ UNCHANGED <<tombstones, eligible, blocked, minted, receipts, consent, bounds>>

\* Fault: the peer's request counts as a simultaneous initiation of ours.
UpsertAsMerge(m) ==
    /\ m.kind = "request" /\ m.stage = "serving"
    /\ row' = [row EXCEPT ![m.to] = upsert(@, "pending_outgoing", m.generation, m.session)]
    /\ rpcs' = Reply(rpcs, m, "merged", m.generation, None, None)
    /\ UNCHANGED <<tombstones, eligible, blocked, minted, task, receipts, consent, bounds>>

\* The user is asked: the row waits for the answer.
UpsertIncoming(m) ==
    /\ m.kind = "request" /\ m.stage = "serving"
    /\ row' = [row EXCEPT ![m.to] = upsert(@, "pending_incoming", m.generation, m.session)]
    /\ rpcs' = Reply(rpcs, m, "awaiting", m.generation, None, None)
    /\ UNCHANGED <<tombstones, eligible, blocked, minted, task, receipts, consent, bounds>>

\* The checks of handle_pairing_consent.  A declining consent ends our row.
CheckConsent(m) ==
    LET d == m.to
        fits == ~blocked[d] /\ IsOutgoing(row[d]) /\ row[d].generation = m.generation
        answer == IF ~blocked[d] /\ IsSaved(row[d]) THEN "saved" ELSE "rejected"
    IN
    /\ m.kind = "consent" /\ m.stage = "sent"
    /\ \/ /\ ~fits
          /\ rpcs' = Reply(rpcs, m, answer, m.generation, None, None)
          /\ UNCHANGED <<row, consent>>
       \/ /\ fits /\ m.grant = None
          /\ rpcs' = Reject(m)
          /\ row' = [row EXCEPT ![d] = None]
          /\ Disagree(d)
       \/ /\ fits /\ m.grant # None
          /\ rpcs' = (rpcs \ {m}) \cup {[m EXCEPT !.stage = "serving"]}
          /\ UNCHANGED <<row, consent>>
    /\ UNCHANGED <<tombstones, eligible, blocked, minted, task, receipts, bounds>>

\* Its writes: the peer's grant is kept, ours minted, possession proved, unless
\* the row has gone meanwhile.
StoreConsent(m) ==
    LET d == m.to
        ours == NewGrant(d)
    IN
    /\ m.kind = "consent" /\ m.stage = "serving"
    /\ MayMint(d)
    /\ CountMint(d)
    /\ row' = [row EXCEPT ![d] = set_issued_grant(set_held_grant(@, m.grant), ours)]
    /\ rpcs' = IF row[d] = None THEN Reject(m)
               ELSE Reply(rpcs, m, "completed", m.generation, ours, prove_held_possession(m.grant))
    /\ UNCHANGED <<tombstones, eligible, blocked, task, receipts, consent, bounds>>

\* An acknowledgement activates the row if it proves that the peer holds the
\* grant the row issued.
CheckAck(m) ==
    LET d == m.to
        answer == IF ~blocked[d] /\ IsSaved(row[d]) THEN "saved" ELSE "rejected"
        good == ~blocked[d] /\ IsPending(row[d])
                  /\ verify_issued_possession(d, m.proof, m.generation)
    IN
    /\ m.kind = "ack" /\ m.stage = "sent"
    /\ rpcs' = IF good THEN (rpcs \ {m}) \cup {[m EXCEPT !.stage = "serving"]}
               ELSE Reply(rpcs, m, answer, 0, None, None)
    /\ UNCHANGED <<store, task, receipts, consent, bounds>>

\* Its write: whatever row there is becomes saved.
ApplyAck(m) ==
    /\ m.kind = "ack" /\ m.stage = "serving"
    /\ activate_saved(m.to)
    /\ rpcs' = Reply(rpcs, m, "acknowledged", 0, None, None)
    /\ UNCHANGED <<tombstones, eligible, blocked, minted, task, receipts, consent, bounds>>

-------------------------------------------------------------------------------
(* Ending a relationship.                                                   *)

\* forget_saved_device; the targeted transfers it ends are TargetedTransfer's.
ForgetDevice(t, d) ==
    /\ Command(d, "forget")
    /\ Begin(t, d, "forget", None, 0)
    /\ UNCHANGED <<store, rpcs, receipts, consent>>

\* The deny record is durable before the relationship is revoked.
BlockDevice(t, d) ==
    /\ Command(d, "block")
    /\ blocked' = [blocked EXCEPT ![d] = TRUE]
    /\ Begin(t, d, "forget", None, 0)
    /\ UNCHANGED <<row, tombstones, eligible, minted, rpcs, receipts, consent>>

\* Only the deny record goes.
UnblockDevice(d) ==
    /\ Command(d, "unblock")
    /\ blocked[d]
    /\ blocked' = [blocked EXCEPT ![d] = FALSE]
    /\ UNCHANGED <<row, tombstones, eligible, minted, task, rpcs, receipts, consent>>

tombstone_generation(d) ==
    tombstones' = [tombstones EXCEPT ![d] = @ \cup {row[d].generation}]

\* forget and revoke_for_block under the lock: tombstone first, ...
RevokeRow(t) ==
    LET d == task[t].on IN
    /\ task[t].pc = "forget"
    /\ ~Locked(d)
    /\ IF row[d] = None
       THEN /\ remove_for_peer(d)
            /\ End(t, rpcs)
            /\ UNCHANGED tombstones
       ELSE /\ tombstone_generation(d)
            /\ task' = [task EXCEPT ![t].pc = "delete", ![t].generation = row[d].generation]
            /\ UNCHANGED <<eligible, rpcs>>
    /\ UNCHANGED <<row, blocked, minted, receipts, consent, bounds>>

\* ... then the row and the eligibilities; the peer is told, once and unawaited.
DeleteRow(t) ==
    LET d == task[t].on IN
    /\ task[t].pc = "delete"
    /\ row' = [row EXCEPT ![d] = None]
    /\ remove_for_peer(d)
    /\ Disagree(d)
    /\ task' = [task EXCEPT ![t] = Idle]
    /\ rpcs' = rpcs \cup {Call("revoke", None, Peer(d), None, task[t].generation, None, None)}
    /\ UNCHANGED <<tombstones, blocked, minted, receipts, bounds>>

\* A notice ends the row unless it is about a generation we revoked before.
handle_remote_revoke(m) ==
    LET d == m.to
        stale == row[d] # None /\ row[d].generation # m.generation
                   /\ m.generation \in tombstones[d]
    IN
    /\ m.kind = "revoke"
    /\ ~Locked(d)
    /\ rpcs' = rpcs \ {m}
    /\ IF row[d] = None \/ stale
       THEN UNCHANGED <<row, tombstones, eligible, consent>>
       ELSE /\ tombstone_generation(d)
            /\ row' = [row EXCEPT ![d] = None]
            /\ remove_for_peer(d)
            /\ Disagree(d)
    /\ UNCHANGED <<blocked, minted, task, receipts, bounds>>

\* A new generation with a new issued grant; the peer is not told.
rotate_relationship_grant(d) ==
    LET g == row[d].generation + 1 IN
    /\ Command(d, "rotate")
    /\ ~Locked(d)
    /\ IsSaved(row[d])
    /\ g <= MaxGeneration
    /\ MayMint(d)
    /\ tombstone_generation(d)
    /\ row' = [row EXCEPT ![d] = set_issued_grant(begin_grant_rotation(@, g), NewGrant(d))]
    /\ CountMint(d)
    /\ UNCHANGED <<eligible, blocked, task, rpcs, receipts, consent>>

\* A pending row expires half an hour after its last write, long after every
\* call about it has ended.
ExpirePending(d) ==
    /\ IsPending(row[d])
    /\ Quiet
    /\ row' = [row EXCEPT ![d] = None]
    /\ Disagree(d)
    /\ UNCHANGED <<tombstones, eligible, blocked, minted, task, rpcs, receipts, bounds>>

-------------------------------------------------------------------------------
(* Faults.                                                                  *)

\* The caller gives up: its message is lost, or handled without it.
GiveUp(t) ==
    /\ task[t].pc \in {"request", "consent", "ack"}
    /\ timeouts < MaxTimeouts
    /\ timeouts' = timeouts + 1
    /\ \E m \in rpcs :
        /\ m.caller = t
        /\ \/ m.stage \in {"sent", "replied"} /\ End(t, rpcs \ {m})
           \/ m.stage \notin Read /\ End(t, (rpcs \ {m}) \cup {[m EXCEPT !.caller = None]})
    /\ UNCHANGED <<store, receipts, consent, commands, crashes>>

\* The peer's process died while it served the call.
Disconnected(t) ==
    /\ task[t].pc \in {"request", "consent", "ack"}
    /\ \A m \in rpcs : m.caller # t
    /\ End(t, rpcs)
    /\ UNCHANGED <<store, receipts, consent, bounds>>

\* The process of d dies and starts again.  The lock and the tasks are gone,
\* the calls it served are lost, and reconcile drops a saved row that lost its
\* issued grant.
Restart(d) ==
    LET dead == {t \in Tasks : task[t].on = d}
        served == {m \in rpcs : m.to = d /\ m.stage \in {"admitted", "serving", "merging"}}
        orphans == {m \in rpcs : m.caller \in dead}
    IN
    /\ crashes < MaxCrashes
    /\ crashes' = crashes + 1
    /\ task' = [t \in Tasks |-> IF t \in dead THEN Idle ELSE task[t]]
    /\ rpcs' = (rpcs \ (served \cup orphans)) \cup
               {[m EXCEPT !.caller = None] :
                   m \in {x \in orphans \ served : x.stage \notin Read}}
    /\ row' = [row EXCEPT ![d] = IF IsSaved(@) /\ @.issued = None THEN None ELSE @]
    /\ consent' = [consent EXCEPT ![d] = IF row'[d] = None THEN 0 ELSE @]
    /\ UNCHANGED <<tombstones, eligible, blocked, minted, receipts,
                   commands, timeouts>>

-------------------------------------------------------------------------------
Init ==
    /\ row = [d \in Devices |-> None]
    /\ tombstones = [d \in Devices |-> {}]
    /\ eligible = [d \in Devices |-> {}]
    /\ blocked = [d \in Devices |-> FALSE]
    /\ minted = [d \in Devices |-> 0]
    /\ task = [t \in Tasks |-> Idle]
    /\ rpcs = {}
    /\ receipts = [d \in Devices |-> [s \in Sessions |-> 0]]
    /\ consent = [d \in Devices |-> 0]
    /\ commands = {}
    /\ timeouts = 0 /\ crashes = 0

\* Steps that the running processes take on their own.
TaskStep(t) ==
    \/ ReserveRequest(t) \/ UpsertRequest(t) \/ RequestAnswered(t)
    \/ complete_simultaneous_merge(t)
    \/ MintGrant(t) \/ ConsentAnswered(t) \/ store_held_grant(t) \/ AckAnswered(t)
    \/ RevokeRow(t) \/ DeleteRow(t) \/ Disconnected(t)

Handle(m) ==
    \/ AdmitRequest(m) \/ ServeRequest(m) \/ UpsertIncoming(m)
    \/ CheckConsent(m) \/ StoreConsent(m)
    \/ CheckAck(m) \/ ApplyAck(m)
    \/ handle_remote_revoke(m)

UserStep(d) ==
    \/ \E t \in Tasks : request_pairing(t, d) \/ Accept(t, d)
                          \/ ForgetDevice(t, d) \/ BlockDevice(t, d)
    \/ Decline(d) \/ DeclineEligibility(d) \/ UnblockDevice(d) \/ rotate_relationship_grant(d)

Next ==
    \/ \E d \in Devices, s \in Sessions :
          activate_after_completed_transfer(d, s) \/ expire_due(d, s)
    \/ \E d \in Devices : UserStep(d) \/ ExpirePending(d) \/ Restart(d)
    \/ \E t \in Tasks : TaskStep(t) \/ GiveUp(t)
    \/ \E m \in rpcs : Handle(m)

Spec == Init /\ [][Next]_vars

-------------------------------------------------------------------------------
(* Properties.                                                              *)

\* Rows, tasks and calls stay within the states that state_as_str, the wire
\* enums and the handlers know.
TypeOK ==
    /\ row \in [Devices -> Rows \cup {None}]
    /\ tombstones \in [Devices -> SUBSET Generations]
    /\ eligible \in [Devices -> SUBSET Sessions]
    /\ blocked \in [Devices -> BOOLEAN]
    /\ minted \in [Devices -> 0 .. MaxGrants]
    /\ task \in [Tasks -> TaskRecords]
    /\ rpcs \subseteq RpcRecords
    /\ receipts \in [Devices -> [Sessions -> Nat]]
    /\ consent \in [Devices -> Nat]
    /\ commands \subseteq Commands
    /\ timeouts \in 0 .. MaxTimeouts
    /\ crashes \in 0 .. MaxCrashes

\* prove_saved_possession on h, verify_saved_possession on i: may device h act
\* towards device i as its saved peer.
CanProve(h, i) ==
    /\ IsSaved(row[h]) /\ IsSaved(row[i])
    /\ row[h].generation = row[i].generation
    /\ row[h].held # None
    /\ verify_issued_possession(i, prove_held_possession(row[h].held), row[h].generation)

\* A device honours its peer's proof only while its own user takes part in the
\* present relationship: an accept, a merge, a late answer or a late handler of
\* an earlier attempt never revives what the user, the peer or the expiry ended.
AuthorityNeedsConsent ==
    \A i \in Devices : CanProve(Peer(i), i) => consent[i] > 0

\* No step brings a row to a generation that was revoked before: forget, block,
\* remote revocation and rotation are final however late requests, answers and
\* receipts come (next_generation, adopt_pending_generation).
RevokedStaysRevoked ==
    [][\A d \in Devices :
          (row'[d] # None /\ row'[d].generation \in tombstones[d])
             => (row[d] # None /\ row[d].generation = row'[d].generation)]_vars

\* Each user asked for the relationship or accepted it, once, and nothing else.
OnlyAgreed ==
    /\ \A d \in Devices : consent[d] = 1
    /\ \A c \in commands : c[2] \in {"request", "accept"}

\* Two devices whose users only agreed, that are saved with a grant of the peer
\* and have no call under way, can prove themselves to each other both ways,
\* whoever initiated, simultaneously or not, and whatever call was lost.
SavedGrantsMatch ==
    Quiet /\ OnlyAgreed /\ (\A d \in Devices : IsSaved(row[d]) /\ row[d].held # None)
        => CanProve(1, 2) /\ CanProve(2, 1)

\* While a call is under way some task or handler can move: the peer locks of
\* two devices that call each other, and the merge a handler waits for, never
\* hold everyone up until the timeouts.
NoStandstill ==
    ~Quiet => ENABLED ((\E t \in Tasks : TaskStep(t)) \/ (\E m \in rpcs : Handle(m)))

\* The same without the exceptions: two saved devices with no call under way can
\* prove themselves to each other, as the recovery of a lost acknowledgement in
\* respond_to_pairing assumes.
SavedIsUsable ==
    Quiet /\ (\A d \in Devices : IsSaved(row[d])) => CanProve(1, 2) /\ CanProve(2, 1)
===============================================================================
