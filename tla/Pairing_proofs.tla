----------------------------- MODULE Pairing_proofs ----------------------------
(***************************************************************************)
(* Theorems about Pairing, for any number of tasks, sessions, commands,    *)
(* receipts, timeouts and restarts: type correctness, consent, the end of  *)
(* revoked generations, and, for one session, that the grants of two       *)
(* devices whose users agree match.                                        *)
(***************************************************************************)
EXTENDS Pairing, TLAPS, WellFoundedInduction

-------------------------------------------------------------------------------
(* The shape of tasks and calls, and whose grants they carry.              *)

\* A task that runs belongs to a device, and one that is about to write its row
\* knows the session.
TaskShape(t) ==
    /\ task[t].pc # "idle" => task[t].on \in Devices
    /\ task[t].pc = "upsert" => task[t].session \in Sessions

\* A row issues grants of its own device, and no grant is around before it is minted.
GrantInv(d) ==
    row[d] # None =>
        /\ row[d].issued # None => row[d].issued.issuer = d /\ row[d].issued.n <= minted[d]
        /\ row[d].held # None => row[d].held.n <= minted[row[d].held.issuer]

CallShape(m) ==
    /\ m.kind = "request" => m.session \in Sessions
    /\ m.grant # None => m.grant.n <= minted[m.grant.issuer]

Shape ==
    /\ TypeOK
    /\ \A t \in Tasks : TaskShape(t)
    /\ \A d \in Devices : GrantInv(d)
    /\ \A m \in rpcs : CallShape(m)

-------------------------------------------------------------------------------
(* Consent.                                                                *)

\* Something at device d is on its way to hand out a grant: an initiation that
\* may turn into a merge, a merge, an acceptance, or the handler of a consent
\* between its checks and its writes.
WorkSteps == {"request", "merge", "mint"}
Working(d) ==
    \/ \E t \in Tasks : task[t].on = d /\ task[t].pc \in WorkSteps
    \/ \E m \in rpcs : m.to = d /\ m.kind = "consent" /\ m.stage = "serving"

\* A grant the peer has, or may come to have.
Shared(g) ==
    \/ \E m \in rpcs : m.grant = g
    \/ \E e \in Devices : row[e] # None /\ row[e].held = g

\* The row of d is its own initiative, or names a grant the peer may prove.
Involved(d) ==
    /\ row[d] # None
    /\ \/ row[d].state = "pending_outgoing"
       \/ row[d].issued # None /\ Shared(row[d].issued)

ConsentInv == \A d \in Devices : Working(d) \/ Involved(d) => consent[d] > 0

\* A step that ends the relationship of d leaves nothing of it at work on d.
EndsAtRest == \A d \in Devices : consent[d] > 0 /\ consent'[d] = 0 => ~Working(d)'

-------------------------------------------------------------------------------
(* The store's operators.                                                  *)

\* A bounded set of numbers has a largest one.
LEMMA Largest ==
    ASSUME NEW n \in Nat, NEW S \in SUBSET (0 .. n), S # {}
    PROVE  \E g \in S : \A h \in S : h <= g
<1> DEFINE T == {n - g : g \in S}
<1>1. T \subseteq Nat
  BY \A g \in S : n - g \in Nat
<1>2. T # {}
  BY \E g \in S : n - g \in T
<1>3. PICK x \in T : \A y \in T : <<y, x>> \notin OpToRel(<, Nat)
  <2> HIDE DEF T
  <2> QED BY <1>1, <1>2, NatLessThanWellFounded, WFMin
<1>4. PICK g \in S : x = n - g
  BY <1>3
<1>5. ASSUME NEW h \in S PROVE h <= g
  <2>1. n - h \in T /\ n - h \in Nat /\ n - g \in Nat
    OBVIOUS
  <2>2. <<n - h, n - g>> \notin OpToRel(<, Nat)
    BY <1>3, <1>4, <2>1
  <2>3. ~(n - h < n - g)
    BY <2>1, <2>2 DEF OpToRel
  <2> QED BY <2>3
<1> QED BY <1>5

\* So the next generation is a number above every one the device knows.
LEMMA NextGeneration ==
    ASSUME NEW r \in Rows \cup {None}, NEW tombs \in SUBSET Generations
    PROVE  /\ next_generation(r, tombs) \in Nat
           /\ \A g \in tombs : g < next_generation(r, tombs)
           /\ r # None => r.generation < next_generation(r, tombs)
<1> DEFINE known == {0} \cup tombs \cup (IF r = None THEN {} ELSE {r.generation})
<1>1. known \in SUBSET (0 .. MaxGeneration) /\ known # {} /\ MaxGeneration \in Nat
  <2>1. r # None => r.generation \in 0 .. MaxGeneration
    BY DEF Generations, Rows
  <2>2. tombs \subseteq 0 .. MaxGeneration /\ MaxGeneration \in Nat
    BY StoreBounds DEF Generations
  <2>3. {0} \subseteq 0 .. MaxGeneration /\ 0 \in known
    BY <2>2
  <2>4. known \subseteq 0 .. MaxGeneration
    BY <2>1, <2>2, <2>3
  <2> QED BY <2>2, <2>3, <2>4
<1>2. PICK g \in known : \A h \in known : h <= g
  <2> HIDE DEF known
  <2> QED BY <1>1, Largest
<1>3. generation_floor(r, tombs) = CHOOSE h \in known : \A k \in known : k <= h
  BY DEF generation_floor
<1>4. generation_floor(r, tombs) \in known /\ \A k \in known : k <= generation_floor(r, tombs)
  <2> HIDE DEF known
  <2> QED BY <1>2, <1>3
<1> QED BY <1>1, <1>4 DEF next_generation, Generations, Rows

\* The statements map rows to rows.
LEMMA RowTypes ==
    ASSUME NEW r \in Rows \cup {None}, NEW g \in Generations, NEW s \in Sessions
    PROVE  /\ \A state \in States : upsert(r, state, g, s) \in Rows
           /\ set_pending_generation(r, s, g) \in Rows \cup {None}
           /\ \A k \in Grants \cup {None} : set_issued_grant(r, k) \in Rows \cup {None}
           /\ \A k \in Grants \cup {None} : set_held_grant(r, k) \in Rows \cup {None}
           /\ \A state \in States : set_state(r, state) \in Rows \cup {None}
           /\ r # None => begin_grant_rotation(r, g) \in Rows
<1> USE DEF Rows
<1>1. ASSUME NEW state \in States PROVE upsert(r, state, g, s) \in Rows
  BY DEF upsert, NewRow
<1>2. set_pending_generation(r, s, g) \in Rows \cup {None}
  BY <1>1 DEF set_pending_generation, PendingIn, IsPending
<1>3. \A k \in Grants \cup {None} : set_issued_grant(r, k) \in Rows \cup {None}
  BY DEF set_issued_grant
<1>4. \A k \in Grants \cup {None} : set_held_grant(r, k) \in Rows \cup {None}
  BY DEF set_held_grant
<1>5. \A state \in States : set_state(r, state) \in Rows \cup {None}
  BY DEF set_state
<1>6. r # None => begin_grant_rotation(r, g) \in Rows
  BY DEF begin_grant_rotation, NewRow
<1> HIDE DEF Rows
<1> QED BY <1>1, <1>2, <1>3, <1>4, <1>5, <1>6

-------------------------------------------------------------------------------
(* What a step on device d may do.                                         *)

\* The row of d: a grant it issues was issued before or is new, one it holds
\* was held before or came in a call, and it is outgoing by our user's doing.
RowKept(d) ==
    /\ row' \in [Devices -> Rows \cup {None}]
    /\ \A e \in Devices \ {d} : row'[e] = row[e]
    /\ row'[d] # None =>
          /\ \/ row'[d].issued = None
             \/ row[d] # None /\ row'[d].issued = row[d].issued
             \/ row'[d].issued = NewGrant(d) /\ minted'[d] = minted[d] + 1
          /\ \/ row'[d].held = None
             \/ row[d] # None /\ row'[d].held = row[d].held
             \/ \E m \in rpcs : m.grant = row'[d].held
          /\ row'[d].state = "pending_outgoing" =>
                consent'[d] > 0 \/ (row[d] # None /\ row[d].state = "pending_outgoing")

MintKept(d) ==
    /\ minted' \in [Devices -> 0 .. MaxGrants]
    /\ \A e \in Devices \ {d} : minted'[e] = minted[e]
    /\ minted'[d] \in {minted[d], minted[d] + 1}

ConsentKept(d) ==
    /\ consent' \in [Devices -> Nat]
    /\ \A e \in Devices \ {d} : consent'[e] = consent[e]
    /\ consent'[d] > 0 \/ consent'[d] = consent[d] \/ row'[d] = None

\* Work starts only where work was, or at d by its user's doing.
TasksKept(d) ==
    /\ task' \in [Tasks -> TaskRecords]
    /\ \A t \in Tasks : TaskShape(t)'
    /\ \A t \in Tasks : task'[t].pc \in WorkSteps =>
          \/ \E u \in Tasks : task[u].on = task'[t].on /\ task[u].pc \in WorkSteps
          \/ task'[t].on = d /\ (consent'[d] > 0 \/ Involved(d))

\* A call hands over a grant of an earlier call, or a new one of work at d.
FineCall(d, x) ==
    /\ x \in RpcRecords
    /\ x.kind = "request" => x.session \in Sessions
    /\ \/ x.grant = None
       \/ \E y \in rpcs : y.grant = x.grant
       \/ x.grant = NewGrant(d) /\ Working(d) /\ minted'[d] = minted[d] + 1
    /\ x.kind = "consent" /\ x.stage = "serving" =>
          \/ \E y \in rpcs : y.to = x.to /\ y.kind = "consent" /\ y.stage = "serving"
          \/ x.to = d /\ Involved(d)

CallsKept(d) == \A x \in rpcs' : FineCall(d, x)

OthersKept ==
    /\ tombstones' \in [Devices -> SUBSET Generations]
    /\ eligible' \in [Devices -> SUBSET Sessions]
    /\ blocked' \in [Devices -> BOOLEAN]
    /\ receipts' \in [Devices -> [Sessions -> Nat]]
    /\ commands' \subseteq Commands
    /\ timeouts' \in 0 .. MaxTimeouts
    /\ crashes' \in 0 .. MaxCrashes

StepOf(d) ==
    RowKept(d) /\ MintKept(d) /\ ConsentKept(d) /\ TasksKept(d) /\ CallsKept(d) /\ OthersKept

\* A new grant differs from every grant that is around.
LEMMA NewIsUnknown ==
    ASSUME Shape, NEW d \in Devices
    PROVE  /\ \A m \in rpcs : m.grant # None => m.grant # NewGrant(d)
           /\ \A e \in Devices : row[e] # None =>
                 /\ row[e].held # None => row[e].held # NewGrant(d)
                 /\ row[e].issued # None => row[e].issued # NewGrant(d)
           /\ NewGrant(d).issuer = d /\ NewGrant(d).n = minted[d] + 1
<1>1. minted[d] \in Nat /\ \A e \in Devices : minted[e] \in Nat
  BY StoreBounds DEF Shape, TypeOK
<1>2. NewGrant(d).issuer = d /\ NewGrant(d).n = minted[d] + 1
  BY DEF NewGrant
<1>3. ASSUME NEW k \in Grants, k.n <= minted[k.issuer] PROVE k # NewGrant(d)
  BY <1>1, <1>2, <1>3 DEF Grants
<1>4. \A m \in rpcs : m.grant # None => m.grant # NewGrant(d)
  BY <1>3 DEF Shape, CallShape, TypeOK, RpcRecords
<1>5. ASSUME NEW e \in Devices, row[e] # None
      PROVE  /\ row[e].held # None => row[e].held # NewGrant(d)
             /\ row[e].issued # None => row[e].issued # NewGrant(d)
  BY <1>3, <1>5 DEF Shape, GrantInv, TypeOK, Rows
<1> QED BY <1>2, <1>4, <1>5

\* A step of one device keeps the shape, and keeps the invariant of consent if
\* what it ends is at rest.
LEMMA ProfileKeeps ==
    ASSUME Shape, NEW d \in Devices, StepOf(d)
    PROVE  Shape' /\ (ConsentInv /\ EndsAtRest => ConsentInv')
<1> USE DEF StepOf
<1>1. TypeOK'
  BY DEF TypeOK, RowKept, MintKept, ConsentKept, TasksKept, CallsKept, FineCall, OthersKept
<1>2. \A t \in Tasks : TaskShape(t)'
  BY DEF TasksKept
<1>3. \A e \in Devices : minted[e] \in Nat /\ minted'[e] \in Nat /\ minted[e] <= minted'[e]
  <2>1. \A e \in Devices : minted[e] \in 0 .. MaxGrants /\ minted'[e] \in 0 .. MaxGrants
    BY DEF Shape, TypeOK, MintKept
  <2>2. \A e \in Devices : minted'[e] = minted[e] \/ minted'[e] = minted[e] + 1
    BY DEF MintKept
  <2> QED BY <2>1, <2>2, StoreBounds
<1>4. ASSUME NEW e \in Devices PROVE GrantInv(e)'
  <2> SUFFICES ASSUME row'[e] # None
               PROVE  /\ row'[e].issued # None => row'[e].issued.issuer = e /\ row'[e].issued.n <= minted'[e]
                      /\ row'[e].held # None => row'[e].held.n <= minted'[row'[e].held.issuer]
    BY DEF GrantInv
  <2>1. \A k \in Grants : k.issuer \in Devices /\ k.n \in Nat
    BY StoreBounds DEF Grants
  <2>2. CASE e # d
    BY <1>3, <2>1, <2>2 DEF RowKept, Shape, GrantInv, TypeOK, Rows
  <2>3. CASE e = d
    <3>1. row'[d] \in Rows /\ (row[d] # None => row[d] \in Rows)
      BY <2>3 DEF RowKept, Shape, TypeOK
    <3>2. row'[d].issued # None => row'[d].issued.issuer = d /\ row'[d].issued.n <= minted'[d]
      BY <1>3, <2>1, <2>3, <3>1, NewIsUnknown DEF RowKept, Shape, GrantInv, Rows
    <3>3. \A m \in rpcs : m.grant # None => m.grant \in Grants /\ m.grant.n <= minted[m.grant.issuer]
      BY DEF Shape, CallShape, TypeOK, RpcRecords
    <3>4. row'[d].held # None => row'[d].held.n <= minted'[row'[d].held.issuer]
      BY <1>3, <2>1, <2>3, <3>1, <3>3 DEF RowKept, Shape, GrantInv, Rows
    <3> QED BY <2>3, <3>2, <3>4
  <2> QED BY <2>2, <2>3
<1>5. ASSUME NEW x \in rpcs' PROVE CallShape(x)'
  <2>1. FineCall(d, x)
    BY DEF CallsKept
  <2>2. \A k \in Grants : k.issuer \in Devices /\ k.n \in Nat
    BY StoreBounds DEF Grants
  <2>3. \A m \in rpcs : m.grant # None => m.grant \in Grants /\ m.grant.n <= minted[m.grant.issuer]
    BY DEF Shape, CallShape, TypeOK, RpcRecords
  <2>4. x.grant # None => x.grant.n <= minted'[x.grant.issuer]
    BY <1>3, <2>1, <2>2, <2>3, NewIsUnknown DEF FineCall
  <2> QED BY <2>1, <2>4 DEF CallShape, FineCall
<1>6. ASSUME ConsentInv, EndsAtRest, NEW e \in Devices, Working(e)' PROVE consent'[e] > 0
  <2>1. consent[e] \in Nat /\ consent'[e] \in Nat
    BY DEF Shape, TypeOK, ConsentKept
  <2>2. Working(e) \/ Involved(e) \/ consent'[e] > 0
    <3>1. ASSUME NEW t \in Tasks, task'[t].on = e, task'[t].pc \in WorkSteps
          PROVE  Working(e) \/ Involved(e) \/ consent'[e] > 0
      BY <3>1 DEF TasksKept, Working
    <3>2. ASSUME NEW x \in rpcs', x.to = e, x.kind = "consent", x.stage = "serving"
          PROVE  Working(e) \/ Involved(e)
      BY <3>2 DEF CallsKept, FineCall, Working
    <3> QED BY <1>6, <3>1, <3>2 DEF Working
  <2>3. consent[e] > 0 \/ consent'[e] > 0
    BY <1>6, <2>2 DEF ConsentInv
  <2> QED BY <1>6, <2>1, <2>3 DEF EndsAtRest
<1>7. ASSUME ConsentInv, EndsAtRest, NEW e \in Devices, Involved(e)' PROVE consent'[e] > 0
  <2>1. consent[e] \in Nat /\ consent'[e] \in Nat
    BY DEF Shape, TypeOK, ConsentKept
  <2>2. row'[e] # None
    BY <1>7 DEF Involved
  <2>3. consent'[e] > 0 \/ consent'[e] = consent[e]
    BY <2>2 DEF ConsentKept
  <2>4. SUFFICES Working(e) \/ Involved(e) \/ consent'[e] > 0
    BY <1>7, <2>1, <2>3 DEF ConsentInv
  <2>5. CASE row'[e].state = "pending_outgoing"
    BY <2>2, <2>5 DEF RowKept, Involved
  <2>6. CASE row'[e].issued # None /\ Shared(row[e].issued)'
    <3> DEFINE k == row'[e].issued
    <3>1. ASSUME k # NewGrant(d) PROVE Shared(k)
      <4>1. ASSUME NEW x \in rpcs', x.grant = k PROVE Shared(k)
        BY <2>6, <3>1, <4>1 DEF CallsKept, FineCall, Shared
      <4>2. ASSUME NEW f \in Devices, row'[f] # None, row'[f].held = k PROVE Shared(k)
        BY <2>6, <4>2 DEF RowKept, Shared
      <4> QED BY <2>6, <4>1, <4>2 DEF Shared
    <3>2. CASE row[e] # None /\ k = row[e].issued
      BY <2>6, <3>1, <3>2, NewIsUnknown DEF Involved
    <3>3. CASE e = d /\ k = NewGrant(d)
      <4>1. ASSUME NEW x \in rpcs', x.grant = k PROVE Working(d)
        BY <2>6, <3>3, <4>1, NewIsUnknown DEF CallsKept, FineCall
      <4>2. ASSUME NEW f \in Devices, row'[f] # None, row'[f].held = k PROVE FALSE
        BY <2>6, <3>3, <4>2, NewIsUnknown DEF RowKept
      <4> QED BY <2>6, <3>3, <4>1, <4>2 DEF Shared
    <3> QED BY <2>2, <2>6, <3>2, <3>3 DEF RowKept
  <2> QED BY <1>7, <2>5, <2>6 DEF Involved
<1> QED BY <1>1, <1>2, <1>4, <1>5, <1>6, <1>7 DEF Shape, ConsentInv

-------------------------------------------------------------------------------
(* What every action is made of.                                           *)

\* What a step leaves alone it keeps.
LEMMA Frames ==
    ASSUME Shape, NEW d \in Devices
    PROVE  /\ row' = row => RowKept(d)
           /\ minted' = minted => MintKept(d)
           /\ consent' = consent => ConsentKept(d)
           /\ task' = task => TasksKept(d)
           /\ UNCHANGED <<tombstones, eligible, blocked, receipts, bounds>> => OthersKept
<1> USE DEF Shape, TypeOK
<1>1. row' = row => RowKept(d)
  BY DEF RowKept
<1>2. minted' = minted => MintKept(d)
  BY DEF MintKept
<1>3. consent' = consent => ConsentKept(d)
  BY DEF ConsentKept
<1>4. task' = task => TasksKept(d)
  BY DEF TasksKept, TaskShape
<1>5. UNCHANGED <<tombstones, eligible, blocked, receipts, bounds>> => OthersKept
  BY DEF OthersKept, bounds
<1> QED BY <1>1, <1>2, <1>3, <1>4, <1>5

\* A row may go, and may be changed in what RowKept allows.
LEMMA RowSet ==
    ASSUME Shape, NEW d \in Devices, NEW r \in Rows \cup {None}, row' = [row EXCEPT ![d] = r],
           r # None =>
               /\ \/ r.issued = None
                  \/ row[d] # None /\ r.issued = row[d].issued
                  \/ r.issued = NewGrant(d) /\ minted'[d] = minted[d] + 1
               /\ \/ r.held = None
                  \/ row[d] # None /\ r.held = row[d].held
                  \/ \E m \in rpcs : m.grant = r.held
               /\ r.state = "pending_outgoing" =>
                     consent'[d] > 0 \/ (row[d] # None /\ row[d].state = "pending_outgoing")
    PROVE  RowKept(d)
<1>1. row' \in [Devices -> Rows \cup {None}] /\ row'[d] = r /\ \A e \in Devices \ {d} : row'[e] = row[e]
  BY DEF Shape, TypeOK
<1> QED BY <1>1 DEF RowKept

LEMMA ConsentSet ==
    ASSUME Shape, NEW d \in Devices
    PROVE  /\ Agree(d) => ConsentKept(d) /\ consent'[d] > 0
           /\ Disagree(d) /\ row'[d] = None => ConsentKept(d)
<1>1. consent \in [Devices -> Nat]
  BY DEF Shape, TypeOK
<1>2. ASSUME Agree(d) PROVE ConsentKept(d) /\ consent'[d] > 0
  BY <1>1, <1>2 DEF Agree, ConsentKept
<1>3. ASSUME Disagree(d), row'[d] = None PROVE ConsentKept(d)
  BY <1>1, <1>3 DEF Disagree, ConsentKept
<1> QED BY <1>2, <1>3

LEMMA Minting ==
    ASSUME Shape, NEW d \in Devices, MayMint(d)
    PROVE  /\ NewGrant(d) \in Grants
           /\ CountMint(d) => MintKept(d) /\ minted'[d] = minted[d] + 1
<1>1. minted \in [Devices -> 0 .. MaxGrants] /\ MaxGrants \in Nat /\ minted[d] < MaxGrants
  BY StoreBounds DEF Shape, TypeOK, MayMint
<1>2. minted[d] + 1 \in 1 .. MaxGrants
  BY <1>1
<1> QED BY <1>1, <1>2 DEF NewGrant, Grants, CountMint, MintKept

\* A task that ends, moves on or begins.
LEMMA TaskSet ==
    ASSUME Shape, NEW d \in Devices, NEW t \in Tasks, NEW r \in TaskRecords,
           task' = [task EXCEPT ![t] = r],
           r.pc # "idle" => r.on \in Devices,
           r.pc = "upsert" => r.session \in Sessions,
           r.pc \in WorkSteps =>
               \/ task[t].pc \in WorkSteps /\ r.on = task[t].on
               \/ r.on = d /\ (consent'[d] > 0 \/ Involved(d))
    PROVE  TasksKept(d)
<1>1. task' \in [Tasks -> TaskRecords] /\ task'[t] = r /\ \A u \in Tasks \ {t} : task'[u] = task[u]
  BY DEF Shape, TypeOK
<1> QED BY <1>1 DEF TasksKept, TaskShape, Shape

LEMMA TaskIdle ==
    ASSUME Shape, NEW d \in Devices, NEW t \in Tasks, task' = [task EXCEPT ![t] = Idle]
    PROVE  TasksKept(d)
<1>1. Idle \in TaskRecords /\ Idle.pc = "idle"
  BY StoreBounds DEF Idle, TaskRecords, Generations
<1> QED BY <1>1, TaskSet DEF WorkSteps

LEMMA TaskMoves ==
    ASSUME Shape, NEW d \in Devices, NEW t \in Tasks, task[t].pc # "idle", task[t].on = d,
           NEW pc \in {"request", "merge", "consent", "ack"}, Goto(t, pc),
           pc \in {"request", "merge"} => consent'[d] > 0
    PROVE  TasksKept(d)
<1> DEFINE r == [task[t] EXCEPT !.pc = pc]
<1>1. r \in TaskRecords /\ r.pc = pc /\ r.on = d
  BY DEF Shape, TypeOK, TaskRecords
<1>2. task' = [task EXCEPT ![t] = r]
  BY DEF Goto, Shape, TypeOK
<1> HIDE DEF r
<1> QED BY <1>1, <1>2, TaskSet DEF WorkSteps

-------------------------------------------------------------------------------
(* Calls.                                                                  *)

LEMMA OldCalls ==
    ASSUME Shape, NEW d \in Devices, NEW x \in rpcs
    PROVE  FineCall(d, x)
  BY DEF Shape, TypeOK, CallShape, FineCall

\* A call that keeps its message and stays outside a consent's writes.
LEMMA CallChanges ==
    ASSUME Shape, NEW d \in Devices, NEW m \in rpcs, NEW x \in RpcRecords,
           x.kind = m.kind, x.session = m.session, x.to = m.to,
           \/ x.grant = m.grant
           \/ x.grant = None
           \/ x.grant = NewGrant(d) /\ Working(d) /\ minted'[d] = minted[d] + 1,
           \/ x.stage = m.stage
           \/ ~(x.kind = "consent" /\ x.stage = "serving")
           \/ x.to = d /\ Involved(d)
    PROVE  FineCall(d, x)
  BY DEF Shape, CallShape, FineCall

LEMMA Replies ==
    ASSUME Shape, NEW d \in Devices, NEW m \in rpcs, NEW answer \in Answers,
           NEW g \in Generations, NEW grant \in Grants \cup {None},
           NEW proof \in Grants \cup {None},
           \/ grant = None
           \/ grant = NewGrant(d) /\ Working(d) /\ minted'[d] = minted[d] + 1,
           rpcs' = Reply(rpcs, m, answer, g, grant, proof)
    PROVE  CallsKept(d)
<1> DEFINE x == [m EXCEPT !.stage = "replied", !.answer = answer, !.generation = g,
                          !.grant = grant, !.proof = proof, !.lead = None]
<1>1. m \in RpcRecords
  BY DEF Shape, TypeOK
<1>2. x \in RpcRecords /\ x.kind = m.kind /\ x.session = m.session /\ x.to = m.to
       /\ x.grant = grant /\ x.stage = "replied"
  BY <1>1 DEF RpcRecords
<1>3. rpcs' \subseteq rpcs \cup {x}
  BY DEF Reply
<1> HIDE DEF x
<1>4. FineCall(d, x)
  BY <1>2, CallChanges
<1> QED BY <1>3, <1>4, OldCalls DEF CallsKept

\* Calls of which one has moved on.
LEMMA OneMoves ==
    ASSUME Shape, NEW d \in Devices, NEW x, FineCall(d, x), rpcs' \subseteq rpcs \cup {x}
    PROVE  CallsKept(d)
  BY OldCalls DEF CallsKept

LEMMA StageMoves ==
    ASSUME NEW m \in RpcRecords, NEW stage \in {"admitted", "serving", "verified"}
    PROVE  LET x == [m EXCEPT !.stage = stage] IN
           /\ x \in RpcRecords
           /\ x.kind = m.kind /\ x.session = m.session /\ x.to = m.to
           /\ x.grant = m.grant /\ x.stage = stage
  BY DEF RpcRecords

LEMMA Orphaned ==
    ASSUME Shape, NEW d \in Devices, NEW m \in rpcs
    PROVE  FineCall(d, [m EXCEPT !.caller = None])
<1> DEFINE x == [m EXCEPT !.caller = None]
<1>1. m \in RpcRecords
  BY DEF Shape, TypeOK
<1>2. x \in RpcRecords /\ x.kind = m.kind /\ x.session = m.session /\ x.to = m.to
       /\ x.grant = m.grant /\ x.stage = m.stage
  BY <1>1 DEF RpcRecords
<1> HIDE DEF x
<1>3. FineCall(d, x)
  BY <1>2, CallChanges
<1> QED BY <1>3 DEF x

\* The end of a task answers the handler that waited for it.
LEMMA Ends ==
    ASSUME Shape, NEW d \in Devices, NEW t \in Tasks, NEW R,
           \A y \in R : FineCall(d, y), End(t, R)
    PROVE  TasksKept(d) /\ CallsKept(d)
<1>1. TasksKept(d)
  BY TaskIdle DEF End
<1>2. ASSUME NEW x \in rpcs' PROVE FineCall(d, x)
  <2>1. PICK y \in R : x = IF y.lead = t
                           THEN [y EXCEPT !.stage = "replied", !.answer = "merged", !.lead = None]
                           ELSE y
    BY DEF End, Done
  <2>2. FineCall(d, y) /\ y \in RpcRecords
    BY DEF FineCall
  <2>3. CASE x = y
    BY <2>2, <2>3
  <2>4. CASE x = [y EXCEPT !.stage = "replied", !.answer = "merged", !.lead = None]
    <3>1. x \in RpcRecords /\ x.kind = y.kind /\ x.session = y.session /\ x.to = y.to
           /\ x.grant = y.grant /\ x.stage = "replied"
      BY <2>2, <2>4 DEF RpcRecords, Answers
    <3> QED BY <2>2, <3>1 DEF FineCall
  <2> QED BY <2>1, <2>3, <2>4
<1> QED BY <1>1, <1>2 DEF CallsKept

LEMMA EndsOwn ==
    ASSUME Shape, NEW d \in Devices, NEW t \in Tasks, NEW R \in SUBSET rpcs, End(t, R)
    PROVE  TasksKept(d) /\ CallsKept(d)
<1>1. \A y \in R : FineCall(d, y)
  BY OldCalls
<1> QED BY <1>1, Ends

LEMMA NewCall ==
    ASSUME Shape, NEW d \in Devices, NEW kind \in Kinds, NEW t \in Tasks \cup {None},
           NEW s \in Sessions \cup {None}, NEW g \in Generations,
           NEW grant \in Grants \cup {None}, NEW proof \in Grants \cup {None},
           kind = "request" => s \in Sessions,
           \/ grant = None
           \/ grant = NewGrant(d) /\ Working(d) /\ minted'[d] = minted[d] + 1,
           rpcs' \subseteq rpcs \cup {Call(kind, t, Peer(d), s, g, grant, proof)}
    PROVE  CallsKept(d)
<1> DEFINE x == Call(kind, t, Peer(d), s, g, grant, proof)
<1>1. Peer(d) \in Devices
  BY DEF Devices, Peer
<1>2. x \in RpcRecords /\ x.kind = kind /\ x.session = s /\ x.grant = grant /\ x.stage = "sent"
  BY <1>1 DEF Call, RpcRecords
<1> HIDE DEF x
<1>3. FineCall(d, x)
  BY <1>2 DEF FineCall
<1> QED BY <1>3, OldCalls DEF CallsKept, x

-------------------------------------------------------------------------------
(* The actions, device by device.                                          *)

LEMMA UserSteps ==
    ASSUME Shape, NEW d \in Devices, UserStep(d)
    PROVE  StepOf(d)
<1> USE DEF Shape, TypeOK
<1>0. ASSUME NEW c, Command(d, c)
      PROVE  commands' \subseteq Commands /\ timeouts' = timeouts /\ crashes' = crashes
  BY <1>0 DEF Command
<1>1. ASSUME NEW t \in Tasks, NEW pc \in {"reserve", "mint", "forget"}, NEW g \in Generations,
             Begin(t, d, pc, None, g), pc = "mint" => consent'[d] > 0
      PROVE  TasksKept(d)
  <2> DEFINE r == [pc |-> pc, on |-> d, session |-> None, generation |-> g]
  <2>1. r \in TaskRecords /\ r.pc = pc /\ r.on = d
    BY DEF TaskRecords
  <2>2. task' = [task EXCEPT ![t] = r]
    BY <1>1 DEF Begin
  <2> HIDE DEF r
  <2> QED BY <1>1, <2>1, <2>2, TaskSet DEF WorkSteps
<1>2. 0 \in Generations
  BY StoreBounds DEF Generations
<1>3. ASSUME NEW t \in Tasks, request_pairing(t, d) PROVE StepOf(d)
  <2>1. TasksKept(d)
    BY <1>1, <1>2, <1>3 DEF request_pairing
  <2>2. OthersKept
    BY <1>0, <1>3 DEF request_pairing, OthersKept, store
  <2>3. RowKept(d) /\ MintKept(d) /\ ConsentKept(d) /\ CallsKept(d)
    BY <1>3, Frames, OldCalls DEF request_pairing, store, CallsKept
  <2> QED BY <2>1, <2>2, <2>3 DEF StepOf
<1>4. ASSUME NEW t \in Tasks, Accept(t, d) PROVE StepOf(d)
  <2>1. ConsentKept(d) /\ consent'[d] > 0
    BY <1>4, ConsentSet DEF Accept
  <2>2. row[d].generation \in Generations
    BY <1>4 DEF Accept, IsIncoming, Rows
  <2>3. TasksKept(d)
    BY <1>1, <1>4, <2>1, <2>2 DEF Accept
  <2>4. OthersKept
    BY <1>0, <1>4 DEF Accept, OthersKept, consume_session
  <2>5. RowKept(d) /\ MintKept(d) /\ CallsKept(d)
    BY <1>4, Frames, OldCalls DEF Accept, CallsKept
  <2> QED BY <2>1, <2>3, <2>4, <2>5 DEF StepOf
<1>5. ASSUME NEW t \in Tasks, ForgetDevice(t, d) PROVE StepOf(d)
  <2>1. TasksKept(d)
    BY <1>1, <1>2, <1>5 DEF ForgetDevice
  <2>2. OthersKept
    BY <1>0, <1>5 DEF ForgetDevice, OthersKept, store
  <2>3. RowKept(d) /\ MintKept(d) /\ ConsentKept(d) /\ CallsKept(d)
    BY <1>5, Frames, OldCalls DEF ForgetDevice, store, CallsKept
  <2> QED BY <2>1, <2>2, <2>3 DEF StepOf
<1>6. ASSUME NEW t \in Tasks, BlockDevice(t, d) PROVE StepOf(d)
  <2>1. TasksKept(d)
    BY <1>1, <1>2, <1>6 DEF BlockDevice
  <2>2. OthersKept
    BY <1>0, <1>6 DEF BlockDevice, OthersKept
  <2>3. RowKept(d) /\ MintKept(d) /\ ConsentKept(d) /\ CallsKept(d)
    BY <1>6, Frames, OldCalls DEF BlockDevice, CallsKept
  <2> QED BY <2>1, <2>2, <2>3 DEF StepOf
<1>7. CASE Decline(d)
  <2>1. RowKept(d) /\ row'[d] = None
    BY <1>7, RowSet DEF Decline
  <2>2. ConsentKept(d)
    BY <1>7, <2>1, ConsentSet DEF Decline
  <2>3. row[d].generation \in Generations
    BY <1>7 DEF Decline, IsIncoming, Rows
  <2>4. CallsKept(d)
    BY <1>7, <2>3, NewCall DEF Decline, Kinds
  <2>5. OthersKept
    BY <1>0, <1>7 DEF Decline, OthersKept, consume_session
  <2>6. MintKept(d) /\ TasksKept(d)
    BY <1>7, Frames DEF Decline
  <2> QED BY <2>1, <2>2, <2>4, <2>5, <2>6 DEF StepOf
<1>8. CASE DeclineEligibility(d)
  <2>1. OthersKept
    BY <1>0, <1>8 DEF DeclineEligibility, OthersKept, remove_for_peer
  <2>2. RowKept(d) /\ MintKept(d) /\ ConsentKept(d) /\ TasksKept(d) /\ CallsKept(d)
    BY <1>8, Frames, OldCalls DEF DeclineEligibility, CallsKept
  <2> QED BY <2>1, <2>2 DEF StepOf
<1>9. CASE UnblockDevice(d)
  <2>1. OthersKept
    BY <1>0, <1>9 DEF UnblockDevice, OthersKept
  <2>2. RowKept(d) /\ MintKept(d) /\ ConsentKept(d) /\ TasksKept(d) /\ CallsKept(d)
    BY <1>9, Frames, OldCalls DEF UnblockDevice, CallsKept
  <2> QED BY <2>1, <2>2 DEF StepOf
<1>10. CASE rotate_relationship_grant(d)
  <2> DEFINE g == row[d].generation + 1
             b == begin_grant_rotation(row[d], g)
             r == set_issued_grant(b, NewGrant(d))
  <2>1. row[d] \in Rows /\ row[d].state = "saved" /\ g \in Generations /\ row[d].generation \in Generations
    BY <1>10, StoreBounds DEF rotate_relationship_grant, IsSaved, Rows, Generations
  <2>2. MintKept(d) /\ minted'[d] = minted[d] + 1 /\ NewGrant(d) \in Grants
    BY <1>10, Minting DEF rotate_relationship_grant
  <2>3. b \in Rows /\ b.held = None /\ b.state = "saved"
    BY <2>1 DEF begin_grant_rotation, NewRow, Rows
  <2>4. row' = [row EXCEPT ![d] = r]
    BY <1>10 DEF rotate_relationship_grant
  <2>5. r \in Rows \cup {None} /\ (r # None => r.issued = NewGrant(d) /\ r.held = None /\ r.state = "saved")
    <3> HIDE DEF b
    <3> QED BY <2>2, <2>3 DEF set_issued_grant, Rows
  <2>6. RowKept(d)
    <3> HIDE DEF r
    <3> QED BY <2>2, <2>4, <2>5, RowSet
  <2>7. OthersKept
    BY <1>0, <1>10, <2>1 DEF rotate_relationship_grant, OthersKept, tombstone_generation
  <2>8. ConsentKept(d) /\ TasksKept(d) /\ CallsKept(d)
    BY <1>10, Frames, OldCalls DEF rotate_relationship_grant, CallsKept
  <2> QED BY <2>2, <2>6, <2>7, <2>8 DEF StepOf
<1> HIDE DEF Shape, TypeOK
<1> QED BY <1>3, <1>4, <1>5, <1>6, <1>7, <1>8, <1>9, <1>10 DEF UserStep

LEMMA ClockSteps ==
    ASSUME Shape, NEW d \in Devices,
           \/ \E s \in Sessions : activate_after_completed_transfer(d, s) \/ expire_due(d, s)
           \/ ExpirePending(d)
           \/ Restart(d)
    PROVE  StepOf(d)
<1> USE DEF Shape, TypeOK
<1>1. ASSUME NEW s \in Sessions, activate_after_completed_transfer(d, s) PROVE StepOf(d)
  <2>1. OthersKept
    BY <1>1 DEF activate_after_completed_transfer, OthersKept, bounds
  <2>2. RowKept(d) /\ MintKept(d) /\ ConsentKept(d) /\ TasksKept(d) /\ CallsKept(d)
    BY <1>1, Frames, OldCalls DEF activate_after_completed_transfer, CallsKept
  <2> QED BY <2>1, <2>2 DEF StepOf
<1>2. ASSUME NEW s \in Sessions, expire_due(d, s) PROVE StepOf(d)
  <2>1. OthersKept
    BY <1>2 DEF expire_due, consume_session, OthersKept, bounds
  <2>2. RowKept(d) /\ MintKept(d) /\ ConsentKept(d) /\ TasksKept(d) /\ CallsKept(d)
    BY <1>2, Frames, OldCalls DEF expire_due, CallsKept
  <2> QED BY <2>1, <2>2 DEF StepOf
<1>3. CASE ExpirePending(d)
  <2>1. RowKept(d) /\ row'[d] = None
    BY <1>3, RowSet DEF ExpirePending
  <2>2. ConsentKept(d)
    BY <1>3, <2>1, ConsentSet DEF ExpirePending
  <2>3. OthersKept /\ MintKept(d) /\ TasksKept(d) /\ CallsKept(d)
    BY <1>3, Frames, OldCalls DEF ExpirePending, CallsKept
  <2> QED BY <2>1, <2>2, <2>3 DEF StepOf
<1>4. CASE Restart(d)
  <2>1. row'[d] = None \/ row'[d] = row[d]
    BY <1>4 DEF Restart
  <2>2. RowKept(d)
    BY <1>4, <2>1 DEF Restart, RowKept
  <2>3. ConsentKept(d)
    BY <1>4 DEF Restart, ConsentKept
  <2>4. Idle \in TaskRecords /\ Idle.pc = "idle"
    BY StoreBounds DEF Idle, TaskRecords, Generations
  <2>5. TasksKept(d)
    BY <1>4, <2>4 DEF Restart, TasksKept, TaskShape, WorkSteps
  <2>6. CallsKept(d)
    BY <1>4, Orphaned, OldCalls DEF Restart, CallsKept
  <2>7. OthersKept
    BY <1>4, PairingAssumption DEF Restart, OthersKept
  <2>8. MintKept(d)
    BY <1>4, Frames DEF Restart
  <2> QED BY <2>2, <2>3, <2>5, <2>6, <2>7, <2>8 DEF StepOf
<1> HIDE DEF Shape, TypeOK
<1> QED BY <1>1, <1>2, <1>3, <1>4

\* Our grant is minted onto whatever row there is, and offered to the peer.
LEMMA MintStep ==
    ASSUME Shape, NEW d \in Devices, NEW t \in Tasks, task[t].on = d, task[t].pc \in WorkSteps,
           MintAndConsent(t),
           UNCHANGED <<tombstones, eligible, blocked, receipts, consent, bounds>>
    PROVE  StepOf(d)
<1> USE DEF Shape, TypeOK
<1> DEFINE r == set_issued_grant(row[d], NewGrant(d))
<1>1. MintKept(d) /\ minted'[d] = minted[d] + 1 /\ NewGrant(d) \in Grants
  BY Minting DEF MintAndConsent
<1>2. /\ row' = [row EXCEPT ![d] = r] /\ r \in Rows \cup {None}
      /\ r # None =>
            row[d] # None /\ r.issued = NewGrant(d) /\ r.held = row[d].held /\ r.state = row[d].state
  <2>1. row' = [row EXCEPT ![d] = r]
    BY DEF MintAndConsent
  <2>2. row[d] \in Rows \cup {None}
    OBVIOUS
  <2> HIDE DEF Shape, TypeOK
  <2> QED BY <1>1, <2>1, <2>2 DEF set_issued_grant, Rows
<1>3. RowKept(d)
  <2> HIDE DEF r
  <2> QED BY <1>1, <1>2, RowSet
<1>4. Working(d) /\ task[t].generation \in Generations
  BY DEF Working, TaskRecords
<1>5. CallsKept(d)
  BY <1>1, <1>4, NewCall DEF MintAndConsent, Kinds
<1>6. TasksKept(d)
  BY TaskMoves DEF MintAndConsent, WorkSteps
<1>7. ConsentKept(d) /\ OthersKept
  BY Frames
<1> QED BY <1>1, <1>3, <1>5, <1>6, <1>7 DEF StepOf

\* A row that is there becomes saved, or adopts a generation.
LEMMA RowMoves ==
    ASSUME Shape, NEW d \in Devices,
           \/ activate_saved(d)
           \/ \E s \in Sessions, g \in Generations : adopt_pending_generation(d, s, g)
    PROVE  RowKept(d)
<1>0. row[d] \in Rows \cup {None}
  BY DEF Shape, TypeOK
<1>1. CASE activate_saved(d)
  <2> DEFINE r == set_state(row[d], "saved")
  <2>1. /\ row' = [row EXCEPT ![d] = r] /\ r \in Rows \cup {None}
        /\ r # None => row[d] # None /\ r.issued = row[d].issued /\ r.held = row[d].held /\ r.state = "saved"
    BY <1>0, <1>1 DEF activate_saved, set_state, Rows, States
  <2> HIDE DEF r
  <2> QED BY <2>1, RowSet
<1>2. ASSUME NEW s \in Sessions, NEW g \in Generations, adopt_pending_generation(d, s, g)
      PROVE  RowKept(d)
  <2> DEFINE r == set_pending_generation(row[d], s, g)
  <2>1. row' = [row EXCEPT ![d] = r] /\ r \in Rows \cup {None}
    BY <1>0, <1>2, RowTypes DEF adopt_pending_generation
  <2>2. r # None =>
            /\ row[d] # None /\ r.state = row[d].state
            /\ r.issued = row[d].issued \/ r.issued = None
            /\ r.held = row[d].held \/ r.held = None
    BY <1>0 DEF set_pending_generation, upsert, NewRow, Rows, PendingIn, IsPending
  <2> HIDE DEF r
  <2> QED BY <2>1, <2>2, RowSet
<1> QED BY <1>1, <1>2

LEMMA Upserts ==
    ASSUME Shape, NEW d \in Devices, NEW state \in Pending, NEW g \in Generations, NEW s \in Sessions,
           row' = [row EXCEPT ![d] = upsert(@, state, g, s)],
           state = "pending_outgoing" => consent'[d] > 0
    PROVE  RowKept(d)
<1> DEFINE r == upsert(row[d], state, g, s)
<1>1. row[d] \in Rows \cup {None}
  BY DEF Shape, TypeOK
<1>2. row' = [row EXCEPT ![d] = r] /\ r \in Rows
  BY <1>1, RowTypes DEF States
<1>3. /\ r.state = state
      /\ r.issued = None \/ (row[d] # None /\ r.issued = row[d].issued)
      /\ r.held = None \/ (row[d] # None /\ r.held = row[d].held)
  BY <1>1 DEF upsert, NewRow, Rows
<1> HIDE DEF r
<1> QED BY <1>2, <1>3, RowSet

LEMMA TaskSteps ==
    ASSUME Shape, NEW t \in Tasks, TaskStep(t) \/ GiveUp(t)
    PROVE  \E d \in Devices : StepOf(d)
<1> DEFINE d == task[t].on
<1>0. task[t] \in TaskRecords /\ (task[t].pc # "idle" => d \in Devices)
  BY DEF Shape, TypeOK, TaskShape
<1>1. CASE ReserveRequest(t)
  <2>1. d \in Devices
    BY <1>0, <1>1 DEF ReserveRequest
  <2>2. RowKept(d) /\ MintKept(d) /\ ConsentKept(d)
    BY <1>1, <2>1, Frames DEF ReserveRequest
  <2>3. OthersKept
    <3>1. eligible' \in [Devices -> SUBSET Sessions]
      <4>1. \A s : consume_session(d, s) => eligible' \in [Devices -> SUBSET Sessions]
        BY <2>1 DEF consume_session, Shape, TypeOK
      <4>2. UNCHANGED eligible \/ \E s : consume_session(d, s)
        BY <1>1 DEF ReserveRequest
      <4> QED BY <4>1, <4>2 DEF Shape, TypeOK
    <3> QED BY <1>1, <3>1 DEF ReserveRequest, OthersKept, bounds, Shape, TypeOK
  <2>4. CASE End(t, rpcs)
    BY <2>1, <2>2, <2>3, <2>4, EndsOwn DEF StepOf
  <2>5. ASSUME NEW s \in eligible[d], next_generation(row[d], tombstones[d]) <= MaxGeneration,
               task' = [task EXCEPT ![t].pc = "upsert", ![t].session = s,
                              ![t].generation = next_generation(row[d], tombstones[d])],
               UNCHANGED rpcs
        PROVE  StepOf(d)
    <3> DEFINE g == next_generation(row[d], tombstones[d])
               r == [task[t] EXCEPT !.pc = "upsert", !.session = s, !.generation = g]
    <3>1. row[d] \in Rows \cup {None} /\ tombstones[d] \in SUBSET Generations /\ s \in Sessions
      BY <2>1 DEF Shape, TypeOK
    <3>2. g \in Nat
      BY <3>1, NextGeneration
    <3>3. g \in Generations
      BY <2>5, <3>2, StoreBounds DEF Generations
    <3> HIDE DEF g
    <3>4. r \in TaskRecords /\ r.pc = "upsert" /\ r.on = d /\ r.session = s
      BY <1>0, <3>1, <3>3 DEF TaskRecords
    <3>5. task' = [task EXCEPT ![t] = r]
      BY <2>5 DEF g, Shape, TypeOK
    <3> HIDE DEF r
    <3>6. TasksKept(d)
      BY <2>1, <3>1, <3>4, <3>5, TaskSet DEF WorkSteps
    <3> QED BY <2>1, <2>2, <2>3, <2>5, <3>6, OldCalls DEF StepOf, CallsKept
  <2> QED BY <1>1, <2>1, <2>4, <2>5 DEF ReserveRequest
<1>2. CASE UpsertRequest(t)
  <2>1. d \in Devices /\ task[t].session \in Sessions /\ task[t].generation \in Generations
    BY <1>0, <1>2 DEF UpsertRequest, Shape, TaskShape, TaskRecords
  <2>2. ConsentKept(d) /\ consent'[d] > 0
    BY <1>2, <2>1, ConsentSet DEF UpsertRequest
  <2>3. RowKept(d)
    BY <1>2, <2>1, <2>2, Upserts DEF UpsertRequest, Pending
  <2>4. TasksKept(d)
    BY <1>2, <2>1, <2>2, TaskMoves DEF UpsertRequest
  <2>5. rpcs' \subseteq rpcs \cup {Call("request", t, Peer(d), task[t].session, task[t].generation, None, None)}
    BY <1>2 DEF UpsertRequest
  <2>6. CallsKept(d)
    BY <2>1, <2>5, NewCall DEF Kinds
  <2>7. MintKept(d) /\ OthersKept
    BY <1>2, <2>1, Frames DEF UpsertRequest
  <2> QED BY <2>1, <2>2, <2>3, <2>4, <2>6, <2>7 DEF StepOf
<1>3. CASE RequestAnswered(t)
  <2>1. d \in Devices
    BY <1>0, <1>3 DEF RequestAnswered
  <2>2. PICK m \in rpcs :
          /\ Answered(t, m)
          /\ \/ adopt_pending_generation(d, task[t].session, m.generation) /\ End(t, rpcs \ {m})
             \/ /\ adopt_pending_generation(d, task[t].session, m.generation)
                /\ task' = [task EXCEPT ![t].pc = "merge", ![t].generation = m.generation]
                /\ rpcs' = rpcs \ {m}
             \/ activate_saved(d) /\ End(t, rpcs \ {m})
             \/ UNCHANGED row /\ End(t, rpcs \ {m})
    BY <1>3 DEF RequestAnswered
  <2>3. m.generation \in Generations
    BY DEF Shape, TypeOK, RpcRecords
  <2>4. RowKept(d)
    <3>1. ASSUME adopt_pending_generation(d, task[t].session, m.generation) PROVE RowKept(d)
      <4>1. CASE task[t].session \in Sessions
        BY <2>1, <2>3, <3>1, <4>1, RowMoves
      <4>2. CASE task[t].session \notin Sessions
        <5>1. ~PendingIn(row[d], task[t].session)
          BY <2>1, <4>2 DEF PendingIn, IsPending, Shape, TypeOK, Rows
        <5>2. row' = row
          BY <2>1, <3>1, <5>1 DEF adopt_pending_generation, set_pending_generation, Shape, TypeOK
        <5> QED BY <2>1, <5>2, Frames
      <4> QED BY <4>1, <4>2
    <3> QED BY <2>1, <2>2, <3>1, RowMoves, Frames
  <2>5. TasksKept(d) /\ CallsKept(d)
    <3>1. CASE End(t, rpcs \ {m})
      BY <2>1, <3>1, EndsOwn
    <3>2. CASE /\ task' = [task EXCEPT ![t].pc = "merge", ![t].generation = m.generation]
               /\ rpcs' = rpcs \ {m}
      <4> DEFINE r == [task[t] EXCEPT !.pc = "merge", !.generation = m.generation]
      <4>1. r \in TaskRecords /\ r.pc = "merge" /\ r.on = d
        BY <1>0, <2>3 DEF TaskRecords
      <4>2. task' = [task EXCEPT ![t] = r]
        BY <3>2 DEF Shape, TypeOK
      <4> HIDE DEF r
      <4>3. task[t].pc \in WorkSteps
        BY <1>3 DEF RequestAnswered, WorkSteps
      <4>4. TasksKept(d)
        BY <2>1, <4>1, <4>2, <4>3, TaskSet
      <4> QED BY <2>1, <3>2, <4>4, OldCalls DEF CallsKept
    <3> QED BY <2>2, <3>1, <3>2
  <2>6. MintKept(d) /\ ConsentKept(d) /\ OthersKept
    BY <1>3, <2>1, Frames DEF RequestAnswered
  <2> QED BY <2>1, <2>4, <2>5, <2>6 DEF StepOf
<1>4. CASE complete_simultaneous_merge(t)
  <2>1. d \in Devices /\ task[t].pc \in WorkSteps
    BY <1>0, <1>4 DEF complete_simultaneous_merge, WorkSteps
  <2>2. CASE MintAndConsent(t)
    BY <1>4, <2>1, <2>2, MintStep DEF complete_simultaneous_merge
  <2>3. CASE End(t, rpcs) /\ UNCHANGED <<row, minted>>
    BY <1>4, <2>1, <2>3, EndsOwn, Frames DEF complete_simultaneous_merge, StepOf
  <2> QED BY <1>4, <2>1, <2>2, <2>3 DEF complete_simultaneous_merge
<1>5. CASE MintGrant(t)
  <2>1. d \in Devices /\ task[t].pc \in WorkSteps
    BY <1>0, <1>5 DEF MintGrant, WorkSteps
  <2> QED BY <1>5, <2>1, MintStep DEF MintGrant
<1>6. CASE ConsentAnswered(t)
  <2>1. d \in Devices
    BY <1>0, <1>6 DEF ConsentAnswered
  <2>2. PICK m \in rpcs :
          \/ rpcs' = (rpcs \ {m}) \cup {[m EXCEPT !.stage = "verified"]} /\ UNCHANGED <<row, task>>
          \/ activate_saved(d) /\ End(t, rpcs \ {m})
          \/ UNCHANGED row /\ End(t, rpcs \ {m})
    BY <1>6 DEF ConsentAnswered
  <2>3. RowKept(d)
    BY <2>1, <2>2, RowMoves, Frames
  <2>4. TasksKept(d) /\ CallsKept(d)
    <3>1. CASE End(t, rpcs \ {m})
      BY <2>1, <3>1, EndsOwn
    <3>2. CASE rpcs' = (rpcs \ {m}) \cup {[m EXCEPT !.stage = "verified"]} /\ UNCHANGED task
      <4> DEFINE x == [m EXCEPT !.stage = "verified"]
      <4>1. m \in RpcRecords
        BY DEF Shape, TypeOK
      <4>2. x \in RpcRecords /\ x.kind = m.kind /\ x.session = m.session /\ x.to = m.to
             /\ x.grant = m.grant /\ x.stage = "verified"
        BY <4>1, StageMoves
      <4>3. rpcs' \subseteq rpcs \cup {x}
        BY <3>2
      <4> HIDE DEF x
      <4>4. FineCall(d, x)
        BY <2>1, <4>2, CallChanges
      <4> QED BY <2>1, <3>2, <4>3, <4>4, OneMoves, Frames
    <3> QED BY <2>2, <3>1, <3>2
  <2>5. MintKept(d) /\ ConsentKept(d) /\ OthersKept
    BY <1>6, <2>1, Frames DEF ConsentAnswered
  <2> QED BY <2>1, <2>3, <2>4, <2>5 DEF StepOf
<1>7. CASE store_held_grant(t)
  <2>1. d \in Devices
    BY <1>0, <1>7 DEF store_held_grant
  <2>2. PICK m \in rpcs :
          /\ row' = [row EXCEPT ![d] = set_held_grant(@, m.grant)]
          /\ \/ End(t, rpcs \ {m})
             \/ /\ Goto(t, "ack")
                /\ rpcs' = (rpcs \ {m}) \cup
                           {Call("ack", t, Peer(d), None, task[t].generation, None,
                                 prove_held_possession(m.grant))}
    BY <1>7 DEF store_held_grant
  <2>3. m.grant \in Grants \cup {None} /\ row[d] \in Rows \cup {None}
    BY <2>1 DEF Shape, TypeOK, RpcRecords
  <2> DEFINE r == set_held_grant(row[d], m.grant)
  <2>4. /\ row' = [row EXCEPT ![d] = r] /\ r \in Rows \cup {None}
        /\ r # None =>
              row[d] # None /\ r.issued = row[d].issued /\ r.held = m.grant /\ r.state = row[d].state
    BY <2>2, <2>3 DEF set_held_grant, Rows
  <2>5. RowKept(d)
    <3> HIDE DEF r
    <3> QED BY <2>1, <2>4, RowSet
  <2>6. TasksKept(d) /\ CallsKept(d)
    <3>1. CASE End(t, rpcs \ {m})
      BY <2>1, <3>1, EndsOwn
    <3>2. CASE /\ Goto(t, "ack")
               /\ rpcs' = (rpcs \ {m}) \cup
                           {Call("ack", t, Peer(d), None, task[t].generation, None,
                                 prove_held_possession(m.grant))}
      <4>1. TasksKept(d)
        BY <1>7, <2>1, <3>2, TaskMoves DEF store_held_grant
      <4>2. task[t].generation \in Generations
        BY <1>0 DEF TaskRecords
      <4>3. CallsKept(d)
        BY <2>1, <2>3, <3>2, <4>2, NewCall DEF Kinds, prove_held_possession
      <4> QED BY <4>1, <4>3
    <3> QED BY <2>2, <3>1, <3>2
  <2>7. MintKept(d) /\ ConsentKept(d) /\ OthersKept
    BY <1>7, <2>1, Frames DEF store_held_grant
  <2> QED BY <2>1, <2>5, <2>6, <2>7 DEF StepOf
<1>8. CASE AckAnswered(t)
  <2>1. d \in Devices
    BY <1>0, <1>8 DEF AckAnswered
  <2>2. PICK m \in rpcs : (activate_saved(d) \/ UNCHANGED row) /\ End(t, rpcs \ {m})
    BY <1>8 DEF AckAnswered
  <2>3. RowKept(d)
    BY <2>1, <2>2, RowMoves, Frames
  <2> QED BY <1>8, <2>1, <2>2, <2>3, EndsOwn, Frames DEF AckAnswered, StepOf
<1>9. CASE RevokeRow(t)
  <2>1. d \in Devices
    BY <1>0, <1>9 DEF RevokeRow
  <2>2. RowKept(d) /\ MintKept(d) /\ ConsentKept(d)
    BY <1>9, <2>1, Frames DEF RevokeRow
  <2>3. row[d] # None => row[d].generation \in Generations
    BY <2>1 DEF Shape, TypeOK, Rows
  <2>4. OthersKept
    <3>1. eligible' \in [Devices -> SUBSET Sessions]
      BY <1>9 DEF RevokeRow, remove_for_peer, Shape, TypeOK
    <3>2. tombstones' \in [Devices -> SUBSET Generations]
      <4>1. row[d] # None /\ tombstone_generation(d) => tombstones' \in [Devices -> SUBSET Generations]
        BY <2>1, <2>3 DEF tombstone_generation, Shape, TypeOK
      <4>2. UNCHANGED tombstones \/ (row[d] # None /\ tombstone_generation(d))
        BY <1>9 DEF RevokeRow
      <4> QED BY <4>1, <4>2 DEF Shape, TypeOK
    <3> QED BY <1>9, <3>1, <3>2 DEF RevokeRow, OthersKept, bounds, Shape, TypeOK
  <2>5. CASE End(t, rpcs)
    BY <2>1, <2>2, <2>4, <2>5, EndsOwn DEF StepOf
  <2>6. CASE /\ row[d] # None
             /\ task' = [task EXCEPT ![t].pc = "delete", ![t].generation = row[d].generation]
             /\ UNCHANGED rpcs
    <3> DEFINE r == [task[t] EXCEPT !.pc = "delete", !.generation = row[d].generation]
    <3>1. r \in TaskRecords /\ r.pc = "delete" /\ r.on = d
      BY <1>0, <2>3, <2>6 DEF TaskRecords
    <3>2. task' = [task EXCEPT ![t] = r]
      BY <2>6 DEF Shape, TypeOK
    <3> HIDE DEF r
    <3>3. TasksKept(d)
      BY <2>1, <3>1, <3>2, TaskSet DEF WorkSteps
    <3> QED BY <2>1, <2>2, <2>4, <2>6, <3>3, OldCalls DEF StepOf, CallsKept
  <2> QED BY <1>9, <2>1, <2>5, <2>6 DEF RevokeRow
<1>10. CASE DeleteRow(t)
  <2>1. d \in Devices /\ task[t].generation \in Generations
    BY <1>0, <1>10 DEF DeleteRow, TaskRecords
  <2>2. row' = [row EXCEPT ![d] = None]
    BY <1>10 DEF DeleteRow
  <2>3. RowKept(d) /\ row'[d] = None
    BY <2>1, <2>2, RowSet DEF Shape, TypeOK
  <2>4. ConsentKept(d)
    BY <1>10, <2>1, <2>3, ConsentSet DEF DeleteRow
  <2>5. TasksKept(d)
    BY <1>10, <2>1, TaskIdle DEF DeleteRow
  <2>6. CallsKept(d)
    BY <1>10, <2>1, NewCall DEF DeleteRow, Kinds
  <2>7. OthersKept
    BY <1>10, <2>1 DEF DeleteRow, remove_for_peer, OthersKept, bounds, Shape, TypeOK
  <2>8. MintKept(d)
    BY <1>10, <2>1, Frames DEF DeleteRow
  <2> QED BY <2>1, <2>3, <2>4, <2>5, <2>6, <2>7, <2>8 DEF StepOf
<1>11. CASE Disconnected(t)
  <2>1. d \in Devices
    BY <1>0, <1>11 DEF Disconnected
  <2> QED BY <1>11, <2>1, EndsOwn, Frames DEF Disconnected, StepOf, store
<1>12. CASE GiveUp(t)
  <2>1. d \in Devices
    BY <1>0, <1>12 DEF GiveUp
  <2>2. PICK m \in rpcs : \/ End(t, rpcs \ {m})
                          \/ End(t, (rpcs \ {m}) \cup {[m EXCEPT !.caller = None]})
    BY <1>12 DEF GiveUp
  <2>3. TasksKept(d) /\ CallsKept(d)
    <3>1. CASE End(t, rpcs \ {m})
      BY <2>1, <3>1, EndsOwn
    <3>2. CASE End(t, (rpcs \ {m}) \cup {[m EXCEPT !.caller = None]})
      <4>1. \A y \in (rpcs \ {m}) \cup {[m EXCEPT !.caller = None]} : FineCall(d, y)
        BY <2>1, OldCalls, Orphaned
      <4> QED BY <2>1, <3>2, <4>1, Ends
    <3> QED BY <2>2, <3>1, <3>2
  <2>4. OthersKept
    BY <1>12, PairingAssumption DEF GiveUp, OthersKept, store, Shape, TypeOK
  <2>5. RowKept(d) /\ MintKept(d) /\ ConsentKept(d)
    BY <1>12, <2>1, Frames DEF GiveUp, store
  <2> QED BY <2>1, <2>3, <2>4, <2>5 DEF StepOf
<1> QED
  BY <1>1, <1>2, <1>3, <1>4, <1>5, <1>6, <1>7, <1>8, <1>9, <1>10, <1>11, <1>12 DEF TaskStep

\* A handler that answers and leaves the row alone.
LEMMA AnswerStep ==
    ASSUME Shape, NEW m \in rpcs, NEW answer \in Answers, NEW g \in Generations,
           rpcs' = Reply(rpcs, m, answer, g, None, None),
           UNCHANGED <<store, task, receipts, consent, bounds>>
    PROVE  StepOf(m.to)
<1>1. m.to \in Devices
  BY DEF Shape, TypeOK, RpcRecords
<1>2. CallsKept(m.to)
  BY <1>1, Replies
<1> QED BY <1>1, <1>2, Frames DEF StepOf, store

\* A handler that moves to its next step.
LEMMA StageStep ==
    ASSUME Shape, NEW m \in rpcs, NEW stage \in {"admitted", "serving"}, NEW g \in Generations,
           \/ rpcs' = (rpcs \ {m}) \cup {[m EXCEPT !.stage = stage]}
           \/ rpcs' = (rpcs \ {m}) \cup {[m EXCEPT !.stage = stage, !.generation = g]},
           m.kind = "consent" /\ stage = "serving" => Involved(m.to),
           UNCHANGED <<store, task, receipts, consent, bounds>>
    PROVE  StepOf(m.to)
<1>1. m.to \in Devices /\ m \in RpcRecords
  BY DEF Shape, TypeOK, RpcRecords
<1>2. PICK x \in RpcRecords :
        /\ x.kind = m.kind /\ x.session = m.session /\ x.to = m.to
        /\ x.grant = m.grant /\ x.stage = stage
        /\ rpcs' = (rpcs \ {m}) \cup {x}
  <2>1. CASE rpcs' = (rpcs \ {m}) \cup {[m EXCEPT !.stage = stage]}
    <3> DEFINE x == [m EXCEPT !.stage = stage]
    <3>1. /\ x \in RpcRecords
          /\ x.kind = m.kind /\ x.session = m.session /\ x.to = m.to
          /\ x.grant = m.grant /\ x.stage = stage
      BY <1>1 DEF RpcRecords
    <3> HIDE DEF x
    <3> QED BY <2>1, <3>1 DEF x
  <2>2. CASE rpcs' = (rpcs \ {m}) \cup {[m EXCEPT !.stage = stage, !.generation = g]}
    <3> DEFINE x == [m EXCEPT !.stage = stage, !.generation = g]
    <3>1. /\ x \in RpcRecords
          /\ x.kind = m.kind /\ x.session = m.session /\ x.to = m.to
          /\ x.grant = m.grant /\ x.stage = stage
      BY <1>1 DEF RpcRecords
    <3> HIDE DEF x
    <3> QED BY <2>2, <3>1 DEF x
  <2> QED BY <2>1, <2>2
<1>3. FineCall(m.to, x)
  BY <1>1, <1>2, CallChanges
<1>4. CallsKept(m.to)
  BY <1>1, <1>2, <1>3, OneMoves
<1> QED BY <1>1, <1>4, Frames DEF StepOf, store

LEMMA Joins ==
    ASSUME Shape, NEW m \in rpcs, JoinPending(m),
           UNCHANGED <<tombstones, eligible, blocked, minted, receipts, consent, bounds>>
    PROVE  StepOf(m.to)
<1> DEFINE d == m.to
           g == Max2(row[d].generation, m.generation)
<1>1. d \in Devices /\ m \in RpcRecords /\ m.generation \in Generations
  BY DEF Shape, TypeOK, RpcRecords
<1>2. row[d] \in Rows /\ row[d].session = m.session /\ m.session \in Sessions
  BY <1>1 DEF JoinPending, PendingIn, IsPending, Shape, TypeOK, Rows
<1>3. g \in Generations
  BY <1>1, <1>2 DEF Max2, Rows
<1>4. RowKept(d)
  BY <1>1, <1>2, <1>3, RowMoves DEF JoinPending, adopt_pending_generation
<1>5. MintKept(d) /\ ConsentKept(d) /\ OthersKept
  BY <1>1, Frames
<1>6. CASE \E answer \in {"awaiting", "merged"} :
              rpcs' = Reply(rpcs, m, answer, g, None, None) /\ UNCHANGED task
  <2> HIDE DEF g
  <2>1. CallsKept(d)
    BY <1>1, <1>3, <1>6, Replies DEF Answers
  <2> QED BY <1>1, <1>4, <1>5, <1>6, <2>1, Frames DEF StepOf
<1>7. ASSUME IsOutgoing(row[d]), NEW t \in Tasks, Begin(t, d, "merge", m.session, g),
             rpcs' = (rpcs \ {m}) \cup
                        {[m EXCEPT !.stage = "merging", !.generation = g, !.lead = t]}
      PROVE  StepOf(d)
  <2> HIDE DEF g
  <2> DEFINE r == [pc |-> "merge", on |-> d, session |-> m.session, generation |-> g]
             x == [m EXCEPT !.stage = "merging", !.generation = g, !.lead = t]
  <2>1. r \in TaskRecords /\ r.pc = "merge" /\ r.on = d /\ task' = [task EXCEPT ![t] = r]
    BY <1>1, <1>2, <1>3, <1>7 DEF TaskRecords, Begin
  <2>2. Involved(d)
    BY <1>7 DEF IsOutgoing, Involved
  <2>3. TasksKept(d)
    <3> HIDE DEF r
    <3> QED BY <1>1, <2>1, <2>2, TaskSet
  <2>4. /\ x \in RpcRecords
        /\ x.kind = m.kind /\ x.session = m.session /\ x.to = m.to
        /\ x.grant = m.grant /\ x.stage = "merging"
    BY <1>1, <1>3 DEF RpcRecords
  <2>5. rpcs' \subseteq rpcs \cup {x}
    BY <1>7
  <2> HIDE DEF x, r
  <2>6. FineCall(d, x)
    BY <1>1, <2>4, CallChanges
  <2> QED BY <1>1, <1>4, <1>5, <2>3, <2>5, <2>6, OneMoves DEF StepOf
<1> QED BY <1>6, <1>7 DEF JoinPending

LEMMA HandlerSteps ==
    ASSUME Shape, NEW m \in rpcs, Handle(m)
    PROVE  StepOf(m.to)
<1> DEFINE d == m.to
<1>0. /\ d \in Devices /\ m \in RpcRecords /\ m.generation \in Generations /\ 0 \in Generations
      /\ m.grant \in Grants \cup {None}
      /\ row[d] \in Rows \cup {None} /\ tombstones[d] \in SUBSET Generations
      /\ m.kind = "request" => m.session \in Sessions
  BY StoreBounds DEF Shape, TypeOK, RpcRecords, Generations, CallShape
<1>1. CASE AdmitRequest(m)
  BY <1>0, <1>1, AnswerStep, StageStep DEF AdmitRequest, Reject, Answers
<1>2. CASE ServeRequest(m)
  <2> DEFINE next == next_generation(row[d], tombstones[d])
             g == Max2(m.generation, next)
  <2>1. next \in Nat
    BY <1>0, NextGeneration
  <2>2. g <= MaxGeneration => g \in Generations
    <3> HIDE DEF next
    <3> QED BY <1>0, <2>1, StoreBounds DEF Max2, Generations
  <2>3. CASE rpcs' = Reply(rpcs, m, "saved", 0, None, None) /\ UNCHANGED <<row, task>>
    BY <1>0, <1>2, <2>3, AnswerStep DEF ServeRequest, Answers, store
  <2>4. CASE JoinPending(m)
    BY <1>2, <2>4, Joins DEF ServeRequest
  <2>5. CASE rpcs' = Reject(m) /\ UNCHANGED <<row, task>>
    BY <1>0, <1>2, <2>5, AnswerStep DEF ServeRequest, Answers, Reject, store
  <2>6. CASE /\ g <= MaxGeneration
             /\ rpcs' = (rpcs \ {m}) \cup {[m EXCEPT !.stage = "serving", !.generation = g]}
             /\ UNCHANGED <<row, task>>
    <3> HIDE DEF g
    <3>1. m.kind # "consent"
      BY <1>2 DEF ServeRequest
    <3> QED BY <1>0, <1>2, <2>2, <2>6, <3>1, StageStep DEF ServeRequest, store
  <2> QED BY <1>2, <2>3, <2>4, <2>5, <2>6 DEF ServeRequest
<1>3. CASE UpsertIncoming(m)
  <2>1. RowKept(d)
    BY <1>0, <1>3, Upserts DEF UpsertIncoming, Pending
  <2>2. CallsKept(d)
    BY <1>0, <1>3, Replies DEF UpsertIncoming, Answers
  <2> QED BY <1>0, <1>3, <2>1, <2>2, Frames DEF UpsertIncoming, StepOf
<1>4. CASE CheckConsent(m)
  <2>1. ASSUME NEW answer \in Answers, rpcs' = Reply(rpcs, m, answer, m.generation, None, None),
               UNCHANGED <<row, consent>>
        PROVE  StepOf(d)
    BY <1>0, <1>4, <2>1, AnswerStep DEF CheckConsent, store
  <2>2. CASE rpcs' = Reject(m) /\ row' = [row EXCEPT ![d] = None] /\ Disagree(d)
    <3>1. RowKept(d) /\ row'[d] = None
      BY <1>0, <2>2, RowSet DEF Shape, TypeOK
    <3>2. ConsentKept(d)
      BY <1>0, <2>2, <3>1, ConsentSet
    <3>3. CallsKept(d)
      BY <1>0, <2>2, Replies DEF Reject, Answers
    <3> QED BY <1>0, <1>4, <3>1, <3>2, <3>3, Frames DEF CheckConsent, StepOf
  <2>3. CASE /\ IsOutgoing(row[d])
             /\ rpcs' = (rpcs \ {m}) \cup {[m EXCEPT !.stage = "serving"]}
             /\ UNCHANGED <<row, consent>>
    <3>1. Involved(d)
      BY <2>3 DEF IsOutgoing, Involved
    <3> QED BY <1>0, <1>4, <2>3, <3>1, StageStep DEF CheckConsent, store
  <2> QED BY <1>4, <2>1, <2>2, <2>3 DEF CheckConsent, Answers
<1>5. CASE StoreConsent(m)
  <2> DEFINE h == set_held_grant(row[d], m.grant)
             r == set_issued_grant(h, NewGrant(d))
  <2>1. MintKept(d) /\ minted'[d] = minted[d] + 1 /\ NewGrant(d) \in Grants
    BY <1>0, <1>5, Minting DEF StoreConsent
  <2>2. /\ h \in Rows \cup {None}
        /\ h # None => h.held = m.grant /\ h.state = row[d].state /\ row[d] # None
    BY <1>0 DEF set_held_grant, Rows
  <2>3. /\ r \in Rows \cup {None}
        /\ r # None => /\ r.issued = NewGrant(d) /\ r.held = m.grant
                       /\ r.state = row[d].state /\ row[d] # None
    <3> HIDE DEF h
    <3> QED BY <2>1, <2>2 DEF set_issued_grant, Rows
  <2>4. row' = [row EXCEPT ![d] = r]
    BY <1>5 DEF StoreConsent
  <2>5. RowKept(d)
    <3> HIDE DEF r
    <3> QED BY <1>0, <2>1, <2>3, <2>4, RowSet
  <2>6. Working(d)
    BY <1>5 DEF StoreConsent, Working
  <2>7. CallsKept(d)
    <3>1. CASE rpcs' = Reject(m)
      BY <1>0, <3>1, Replies DEF Reject, Answers
    <3>2. CASE rpcs' = Reply(rpcs, m, "completed", m.generation, NewGrant(d), m.grant)
      BY <1>0, <2>1, <2>6, <3>2, Replies DEF Answers
    <3> QED BY <1>5, <3>1, <3>2 DEF StoreConsent, prove_held_possession
  <2>8. ConsentKept(d) /\ TasksKept(d) /\ OthersKept
    BY <1>0, <1>5, Frames DEF StoreConsent
  <2> QED BY <2>1, <2>5, <2>7, <2>8 DEF StepOf
<1>6. CASE CheckAck(m)
  <2>1. m.kind # "consent"
    BY <1>6 DEF CheckAck
  <2> QED BY <1>0, <1>6, <2>1, AnswerStep, StageStep DEF CheckAck, Answers
<1>7. CASE ApplyAck(m)
  <2>1. RowKept(d)
    BY <1>0, <1>7, RowMoves DEF ApplyAck
  <2>2. CallsKept(d)
    BY <1>0, <1>7, Replies DEF ApplyAck, Answers
  <2> QED BY <1>0, <1>7, <2>1, <2>2, Frames DEF ApplyAck, StepOf
<1>8. CASE handle_remote_revoke(m)
  <2>1. MintKept(d) /\ TasksKept(d) /\ CallsKept(d)
    BY <1>0, <1>8, Frames, OldCalls DEF handle_remote_revoke, CallsKept
  <2>2. CASE UNCHANGED <<row, tombstones, eligible, consent>>
    BY <1>0, <1>8, <2>1, <2>2, Frames DEF handle_remote_revoke, StepOf
  <2>3. CASE /\ row[d] # None /\ tombstone_generation(d) /\ row' = [row EXCEPT ![d] = None]
             /\ remove_for_peer(d) /\ Disagree(d)
    <3>1. RowKept(d) /\ row'[d] = None
      BY <1>0, <2>3, RowSet DEF Shape, TypeOK
    <3>2. ConsentKept(d)
      BY <1>0, <2>3, <3>1, ConsentSet
    <3>3. row[d].generation \in Generations
      BY <1>0, <2>3 DEF Rows
    <3>4. tombstones' \in [Devices -> SUBSET Generations] /\ eligible' \in [Devices -> SUBSET Sessions]
      BY <1>0, <2>3, <3>3 DEF tombstone_generation, remove_for_peer, Shape, TypeOK
    <3>5. OthersKept
      BY <1>8, <3>4 DEF handle_remote_revoke, OthersKept, bounds, Shape, TypeOK
    <3> QED BY <2>1, <3>1, <3>2, <3>5 DEF StepOf
  <2> QED BY <1>8, <2>2, <2>3 DEF handle_remote_revoke
<1> QED BY <1>1, <1>2, <1>3, <1>4, <1>5, <1>6, <1>7, <1>8 DEF Handle

-------------------------------------------------------------------------------
(* The theorems.                                                           *)

LEMMA InitHolds == Init => Shape /\ ConsentInv
<1> SUFFICES ASSUME Init PROVE Shape /\ ConsentInv
  OBVIOUS
<1>1. Idle \in TaskRecords /\ Idle.pc = "idle"
  BY StoreBounds DEF Idle, TaskRecords, Generations
<1>2. TypeOK
  BY <1>1, StoreBounds, PairingAssumption DEF Init, TypeOK, Generations
<1>3. Shape
  BY <1>1, <1>2 DEF Init, Shape, TaskShape, GrantInv, CallShape
<1>4. ConsentInv
  BY <1>1 DEF Init, ConsentInv, Working, Involved, WorkSteps
<1> QED BY <1>3, <1>4

\* Every step is a step of one device.
LEMMA StepKeeps ==
    ASSUME Shape, [Next]_vars
    PROVE  Shape' /\ (ConsentInv /\ EndsAtRest => ConsentInv')
<1>1. ASSUME Next PROVE \E d \in Devices : StepOf(d)
  <2>1. ASSUME NEW m \in rpcs, Handle(m) PROVE \E d \in Devices : StepOf(d)
    <3>1. m.to \in Devices
      BY DEF Shape, TypeOK, RpcRecords
    <3> QED BY <2>1, <3>1, HandlerSteps
  <2> QED BY <1>1, <2>1, UserSteps, ClockSteps, TaskSteps DEF Next
<1>2. CASE UNCHANGED vars
  <2>1. 1 \in Devices
    BY DEF Devices
  <2>2. StepOf(1)
    BY <1>2, <2>1, Frames, OldCalls DEF vars, bounds, StepOf, CallsKept
  <2> QED BY <2>1, <2>2, ProfileKeeps
<1> QED BY <1>1, <1>2, ProfileKeeps

\* Rows, tasks and calls stay within what the store, the wire enums and the
\* handlers know: generations never pass what next_generation and the larger of
\* two known ones give, and no grant is around that nobody minted.
THEOREM PairingTypeCorrect == Spec => []TypeOK
<1>1. Shape => TypeOK
  BY DEF Shape
<1> QED BY <1>1, InitHolds, StepKeeps, PTL DEF Spec

\* Whatever is lost, late, repeated, merged or restarted, a device honours its
\* peer's proof only while its own user takes part, in every behaviour in which
\* what ends a relationship on a device leaves no initiation, acceptance, merge
\* or consent's handler of that device at work (service.rs:645-713 take no lock).
THEOREM AuthorityIsConsented == Spec /\ [][EndsAtRest]_vars => []AuthorityNeedsConsent
<1>1. Shape /\ ConsentInv => AuthorityNeedsConsent
  <2> SUFFICES ASSUME Shape, ConsentInv, NEW i \in Devices, CanProve(Peer(i), i)
               PROVE  consent[i] > 0
    BY DEF AuthorityNeedsConsent
  <2>1. Peer(i) \in Devices
    BY DEF Peer, Devices
  <2>2. row[i] # None /\ row[i].issued # None /\ row[Peer(i)] # None /\ row[Peer(i)].held = row[i].issued
    BY DEF CanProve, IsSaved, verify_issued_possession, verify_relationship_grant, prove_held_possession
  <2> QED BY <2>1, <2>2 DEF ConsentInv, Involved, Shared
<1>2. Shape /\ ConsentInv /\ [Next]_vars /\ [EndsAtRest]_vars => Shape' /\ ConsentInv'
  <2>1. CASE UNCHANGED vars
    <3> SUFFICES ASSUME Shape, ConsentInv PROVE Shape' /\ ConsentInv'
      BY <2>1
    <3>1. EndsAtRest
      BY <2>1 DEF EndsAtRest, vars, Shape, TypeOK
    <3> QED BY <2>1, <3>1, StepKeeps
  <2> QED BY <2>1, StepKeeps
<1> QED BY <1>1, <1>2, InitHolds, PTL DEF Spec

-------------------------------------------------------------------------------
(* Without forget, block and decline only expiry and a restart end a         *)
(* relationship, and both leave the device at rest.                         *)

\* These calls tell nobody that a relationship has ended.
Harmless(R) ==
    \A x \in R : x.kind # "revoke" /\ (x.kind = "consent" /\ x.stage = "sent" => x.grant # None)

Undisturbed ==
    /\ \A t \in Tasks : task[t].pc \notin {"forget", "delete"}
    /\ Harmless(rpcs)

EndingCommands == {"forget", "block", "decline"}

\* Answers, handlers that move on and orphans are about calls there were before.
LEMMA HarmlessCalls ==
    ASSUME NEW R \in SUBSET RpcRecords, Harmless(R)
    PROVE  /\ \A m \in R : \A answer, g, grant, proof : Harmless(Reply(R, m, answer, g, grant, proof))
           /\ \A t : Harmless(Done(R, t))
           /\ \A m \in R : \A stage : stage # "sent" => Harmless({[m EXCEPT !.stage = stage]})
           /\ \A m \in R : Harmless({[m EXCEPT !.caller = None]})
           /\ \A m \in R : [m EXCEPT !.caller = None] \in RpcRecords
<1>1. ASSUME NEW m \in R, NEW answer, NEW g, NEW grant, NEW proof
      PROVE  Harmless(Reply(R, m, answer, g, grant, proof))
  BY DEF Harmless, Reply, RpcRecords
<1>2. ASSUME NEW t PROVE Harmless(Done(R, t))
  <2> SUFFICES ASSUME NEW y \in R,
                      NEW x, x = IF y.lead = t
                                 THEN [y EXCEPT !.stage = "replied", !.answer = "merged", !.lead = None]
                                 ELSE y
               PROVE  x.kind # "revoke" /\ (x.kind = "consent" /\ x.stage = "sent" => x.grant # None)
    BY DEF Harmless, Done
  <2> QED BY DEF Harmless, RpcRecords
<1>3. ASSUME NEW m \in R, NEW stage, stage # "sent" PROVE Harmless({[m EXCEPT !.stage = stage]})
  BY <1>3 DEF Harmless, RpcRecords
<1>4. ASSUME NEW m \in R PROVE Harmless({[m EXCEPT !.caller = None]}) /\ [m EXCEPT !.caller = None] \in RpcRecords
  BY DEF Harmless, RpcRecords
<1> QED BY <1>1, <1>2, <1>3, <1>4

LEMMA EndsUndisturbed ==
    ASSUME Shape, Undisturbed, NEW t \in Tasks, NEW R \in SUBSET RpcRecords, Harmless(R), End(t, R)
    PROVE  Undisturbed'
<1>1. Harmless(rpcs')
  BY HarmlessCalls DEF End
<1>2. \A u \in Tasks : task'[u].pc \notin {"forget", "delete"}
  BY DEF End, Idle, Undisturbed, Shape, TypeOK
<1> QED BY <1>1, <1>2 DEF Undisturbed, Harmless

\* A call under way that ends nothing, added to those there are.
LEMMA OneMore ==
    ASSUME Undisturbed, NEW x, Harmless({x}), rpcs' \subseteq rpcs \cup {x}
    PROVE  Harmless(rpcs)'
  BY DEF Undisturbed, Harmless

LEMMA RestKept ==
    ASSUME Shape, NEW d \in Devices
    PROVE  /\ consent' = consent => EndsAtRest
           /\ Agree(d) => EndsAtRest
  BY DEF Shape, TypeOK, EndsAtRest, Agree

LEMMA UserUndisturbed ==
    ASSUME \A c \in Commands : c[2] \notin EndingCommands,
           Shape, Undisturbed, NEW d \in Devices, UserStep(d)
    PROVE  Undisturbed' /\ EndsAtRest
<1>1. ASSUME NEW c \in EndingCommands, Command(d, c) PROVE FALSE
  BY <1>1 DEF Command
<1>2. ASSUME NEW t \in Tasks, request_pairing(t, d) \/ Accept(t, d) PROVE Undisturbed' /\ EndsAtRest
  <2>1. Undisturbed'
    BY <1>2 DEF request_pairing, Accept, Begin, Undisturbed, Harmless, Shape, TypeOK
  <2>2. consent' = consent \/ Agree(d)
    BY <1>2 DEF request_pairing, Accept
  <2> QED BY <2>1, <2>2, RestKept
<1>3. CASE DeclineEligibility(d) \/ UnblockDevice(d) \/ rotate_relationship_grant(d)
  <2>1. UNCHANGED <<task, rpcs, consent>>
    BY <1>3 DEF DeclineEligibility, UnblockDevice, rotate_relationship_grant
  <2> QED BY <2>1, RestKept DEF Undisturbed, Harmless
<1>4. ASSUME NEW t \in Tasks, ForgetDevice(t, d) \/ BlockDevice(t, d) PROVE FALSE
  BY <1>1, <1>4 DEF ForgetDevice, BlockDevice, EndingCommands
<1>5. ~Decline(d)
  BY <1>1 DEF Decline, EndingCommands
<1> QED BY <1>2, <1>3, <1>4, <1>5 DEF UserStep

LEMMA ClockUndisturbed ==
    ASSUME Shape, Undisturbed, NEW d \in Devices,
           \/ \E s \in Sessions : activate_after_completed_transfer(d, s) \/ expire_due(d, s)
           \/ ExpirePending(d)
           \/ Restart(d)
    PROVE  Undisturbed' /\ EndsAtRest
<1>1. ASSUME NEW s \in Sessions, activate_after_completed_transfer(d, s) \/ expire_due(d, s)
      PROVE  Undisturbed' /\ EndsAtRest
  <2>1. UNCHANGED <<task, rpcs, consent>>
    BY <1>1 DEF activate_after_completed_transfer, expire_due
  <2> QED BY <2>1, RestKept DEF Undisturbed, Harmless
<1>2. CASE ExpirePending(d)
  <2>1. UNCHANGED <<task, rpcs>> /\ rpcs = {} /\ \A t \in Tasks : task[t].pc = "idle"
    BY <1>2 DEF ExpirePending, Quiet, Idle
  <2>2. \A e \in Devices : ~Working(e)'
    BY <2>1 DEF Working, WorkSteps
  <2> QED BY <2>1, <2>2 DEF Undisturbed, Harmless, EndsAtRest
<1>3. CASE Restart(d)
  <2>1. \A t \in Tasks : (task'[t] = Idle /\ task[t].on = d) \/ (task'[t] = task[t] /\ task[t].on # d)
    BY <1>3 DEF Restart
  <2>2. \A x \in rpcs' : \/ x \in rpcs /\ ~(x.to = d /\ x.stage = "serving")
                         \/ \E m \in rpcs : /\ x = [m EXCEPT !.caller = None]
                                            /\ ~(m.to = d /\ m.stage = "serving")
    BY <1>3 DEF Restart
  <2>3. ASSUME NEW m \in rpcs, NEW x, x = [m EXCEPT !.caller = None]
        PROVE  x.to = m.to /\ x.stage = m.stage /\ x.kind = m.kind /\ x.grant = m.grant
    BY <2>3 DEF Shape, TypeOK, RpcRecords
  <2>4. Undisturbed'
    BY <2>1, <2>2, <2>3 DEF Undisturbed, Harmless, Idle
  <2>5. ~Working(d)'
    <3>1. \A t \in Tasks : ~(task'[t].on = d /\ task'[t].pc \in WorkSteps)
      BY <2>1 DEF Idle, WorkSteps
    <3>2. \A x \in rpcs' : ~(x.to = d /\ x.stage = "serving")
      BY <2>2, <2>3
    <3> QED BY <3>1, <3>2 DEF Working
  <2>6. \A e \in Devices \ {d} : consent'[e] = consent[e]
    BY <1>3 DEF Restart, Shape, TypeOK
  <2> QED BY <2>4, <2>5, <2>6 DEF EndsAtRest, Shape, TypeOK
<1> QED BY <1>1, <1>2, <1>3

LEMMA TaskUndisturbed ==
    ASSUME Shape, Undisturbed, NEW t \in Tasks, TaskStep(t) \/ GiveUp(t)
    PROVE  Undisturbed' /\ EndsAtRest
<1> DEFINE d == task[t].on
<1>0. /\ task[t].pc # "idle" => d \in Devices
      /\ rpcs \subseteq RpcRecords /\ Harmless(rpcs)
      /\ \A m \in rpcs : Harmless(rpcs \ {m})
      /\ 1 \in Devices
  BY DEF Shape, TypeOK, TaskShape, Undisturbed, Harmless, Devices
<1>1. EndsAtRest
  <2>1. consent' = consent \/ (UpsertRequest(t) /\ Agree(d))
    BY DEF TaskStep, ReserveRequest, UpsertRequest, RequestAnswered, complete_simultaneous_merge,
           MintGrant, ConsentAnswered, store_held_grant, AckAnswered, RevokeRow, DeleteRow,
           Disconnected, GiveUp, Undisturbed
  <2>2. UpsertRequest(t) => d \in Devices
    BY <1>0 DEF UpsertRequest
  <2> QED BY <1>0, <2>1, <2>2, RestKept
<1> SUFFICES Undisturbed'
  BY <1>1
<1>2. ASSUME NEW pc \in {"upsert", "request", "merge", "consent", "ack"},
             task'[t].pc = pc, \A u \in Tasks \ {t} : task'[u] = task[u], Harmless(rpcs)'
      PROVE  Undisturbed'
  BY <1>2 DEF Undisturbed
<1>3. ASSUME NEW R \in SUBSET rpcs, End(t, R) PROVE Undisturbed'
  <2>1. Harmless(R) /\ R \in SUBSET RpcRecords
    BY <1>0 DEF Harmless
  <2> QED BY <1>3, <2>1, EndsUndisturbed
<1>4. ASSUME MintAndConsent(t), d \in Devices PROVE Undisturbed'
  <2>1. NewGrant(d) \in Grants
    BY <1>4, Minting DEF MintAndConsent
  <2>2. NewGrant(d) # None
    BY <2>1, NoneIsNoGrant
  <2> DEFINE x == Call("consent", t, Peer(d), None, task[t].generation, NewGrant(d), None)
  <2>3. Harmless({x})
    BY <2>2 DEF Harmless, Call
  <2>4. rpcs' = rpcs \cup {x} /\ Goto(t, "consent")
    BY <1>4 DEF MintAndConsent
  <2> HIDE DEF x
  <2>5. Harmless(rpcs)'
    BY <2>3, <2>4, OneMore
  <2>6. task'[t].pc = "consent" /\ \A u \in Tasks \ {t} : task'[u] = task[u]
    BY <2>4 DEF Goto, Shape, TypeOK, TaskRecords
  <2> QED BY <1>2, <2>5, <2>6
<1>5. CASE ReserveRequest(t)
  <2>1. CASE End(t, rpcs)
    BY <1>3, <2>1
  <2>2. CASE UNCHANGED rpcs /\ \E s \in eligible[d], g \in Nat :
                 task' = [task EXCEPT ![t].pc = "upsert", ![t].session = s, ![t].generation = g]
    <3>1. task'[t].pc = "upsert" /\ \A u \in Tasks \ {t} : task'[u] = task[u]
      BY <2>2 DEF Shape, TypeOK, TaskRecords
    <3> QED BY <1>0, <1>2, <2>2, <3>1 DEF Harmless
  <2>3. d \in Devices
    BY <1>0, <1>5 DEF ReserveRequest
  <2>4. next_generation(row[d], tombstones[d]) \in Nat
    BY <2>3, NextGeneration DEF Shape, TypeOK
  <2> QED BY <1>5, <2>1, <2>2, <2>4 DEF ReserveRequest
<1>6. CASE UpsertRequest(t)
  <2> DEFINE x == Call("request", t, Peer(d), task[t].session, task[t].generation, None, None)
  <2>1. rpcs' \subseteq rpcs \cup {x} /\ Harmless({x})
    BY <1>6 DEF UpsertRequest, Call, Harmless
  <2> HIDE DEF x
  <2>2. Harmless(rpcs)'
    BY <2>1, OneMore
  <2>3. task'[t].pc \in {"request", "merge"} /\ \A u \in Tasks \ {t} : task'[u] = task[u]
    BY <1>6 DEF UpsertRequest, Goto, Shape, TypeOK, TaskRecords
  <2> QED BY <1>2, <2>2, <2>3
<1>7. CASE RequestAnswered(t)
  <2>1. PICK m \in rpcs :
          \/ End(t, rpcs \ {m})
          \/ /\ task' = [task EXCEPT ![t].pc = "merge", ![t].generation = m.generation]
             /\ rpcs' = rpcs \ {m}
    BY <1>7 DEF RequestAnswered
  <2>2. CASE End(t, rpcs \ {m})
    BY <1>3, <2>2
  <2>3. CASE /\ task' = [task EXCEPT ![t].pc = "merge", ![t].generation = m.generation]
             /\ rpcs' = rpcs \ {m}
    <3>1. task'[t].pc = "merge" /\ \A u \in Tasks \ {t} : task'[u] = task[u]
      BY <2>3 DEF Shape, TypeOK, TaskRecords
    <3> QED BY <1>0, <1>2, <2>3, <3>1 DEF Harmless
  <2> QED BY <2>1, <2>2, <2>3
<1>8. CASE complete_simultaneous_merge(t) \/ MintGrant(t)
  <2>1. End(t, rpcs) \/ MintAndConsent(t)
    BY <1>8 DEF complete_simultaneous_merge, MintGrant
  <2>2. d \in Devices
    BY <1>0, <1>8 DEF complete_simultaneous_merge, MintGrant
  <2> QED BY <1>3, <1>4, <2>1, <2>2
<1>9. CASE ConsentAnswered(t)
  <2>1. PICK m \in rpcs :
          \/ rpcs' = (rpcs \ {m}) \cup {[m EXCEPT !.stage = "verified"]} /\ UNCHANGED task
          \/ End(t, rpcs \ {m})
    BY <1>9 DEF ConsentAnswered
  <2>2. CASE rpcs' = (rpcs \ {m}) \cup {[m EXCEPT !.stage = "verified"]} /\ UNCHANGED task
    <3>1. Harmless({[m EXCEPT !.stage = "verified"]})
      BY <1>0, HarmlessCalls
    <3> QED BY <2>2, <3>1 DEF Undisturbed, Harmless
  <2> QED BY <1>3, <2>1, <2>2
<1>10. CASE store_held_grant(t)
  <2>1. PICK m \in rpcs :
          \/ End(t, rpcs \ {m})
          \/ /\ Goto(t, "ack")
             /\ rpcs' = (rpcs \ {m}) \cup
                        {Call("ack", t, Peer(d), None, task[t].generation, None,
                              prove_held_possession(m.grant))}
    BY <1>10 DEF store_held_grant
  <2>2. CASE /\ Goto(t, "ack")
             /\ rpcs' = (rpcs \ {m}) \cup
                        {Call("ack", t, Peer(d), None, task[t].generation, None,
                              prove_held_possession(m.grant))}
    <3>1. Harmless(rpcs)'
      BY <1>0, <2>2 DEF Harmless, Call
    <3>2. task'[t].pc = "ack" /\ \A u \in Tasks \ {t} : task'[u] = task[u]
      BY <2>2 DEF Goto, Shape, TypeOK, TaskRecords
    <3> QED BY <1>2, <3>1, <3>2
  <2> QED BY <1>3, <2>1, <2>2
<1>11. CASE AckAnswered(t) \/ Disconnected(t)
  <2>1. \E R \in SUBSET rpcs : End(t, R)
    BY <1>11 DEF AckAnswered, Disconnected
  <2> QED BY <1>3, <2>1
<1>12. ~RevokeRow(t) /\ ~DeleteRow(t)
  BY DEF RevokeRow, DeleteRow, Undisturbed
<1>13. CASE GiveUp(t)
  <2>1. PICK m \in rpcs : \/ End(t, rpcs \ {m})
                          \/ End(t, (rpcs \ {m}) \cup {[m EXCEPT !.caller = None]})
    BY <1>13 DEF GiveUp
  <2>2. CASE End(t, (rpcs \ {m}) \cup {[m EXCEPT !.caller = None]})
    <3> DEFINE x == [m EXCEPT !.caller = None]
    <3>1. Harmless({x}) /\ x \in RpcRecords
      BY <1>0, HarmlessCalls
    <3> HIDE DEF x
    <3>2. (rpcs \ {m}) \cup {x} \in SUBSET RpcRecords /\ Harmless((rpcs \ {m}) \cup {x})
      BY <1>0, <3>1 DEF Harmless
    <3> QED BY <2>2, <3>2, EndsUndisturbed DEF x
  <2> QED BY <1>3, <2>1, <2>2
<1> QED
  BY <1>5, <1>6, <1>7, <1>8, <1>9, <1>10, <1>11, <1>12, <1>13 DEF TaskStep

LEMMA HandlerUndisturbed ==
    ASSUME Shape, Undisturbed, NEW m \in rpcs, Handle(m)
    PROVE  Undisturbed' /\ EndsAtRest
<1> DEFINE d == m.to
<1>0. /\ d \in Devices /\ rpcs \subseteq RpcRecords /\ Harmless(rpcs)
      /\ \A u \in Tasks : task[u].pc \notin {"forget", "delete"}
  BY DEF Shape, TypeOK, RpcRecords, Undisturbed
<1>1. m.kind # "revoke" /\ ~(m.kind = "consent" /\ m.stage = "sent" /\ m.grant = None)
  BY DEF Undisturbed, Harmless
<1>2. consent' = consent
  BY <1>1 DEF Handle, AdmitRequest, ServeRequest, UpsertIncoming, CheckConsent, StoreConsent,
              CheckAck, ApplyAck, handle_remote_revoke
<1> SUFFICES Undisturbed'
  BY <1>0, <1>2, RestKept
<1>3. \A answer, g, grant, proof : Harmless(Reply(rpcs, m, answer, g, grant, proof))
  BY <1>0, HarmlessCalls
<1>4. ASSUME \/ \E answer, g, grant, proof : rpcs' = Reply(rpcs, m, answer, g, grant, proof)
             \/ \E x : Harmless({x}) /\ rpcs' = (rpcs \ {m}) \cup {x},
             task' = task
      PROVE  Undisturbed'
  BY <1>0, <1>3, <1>4 DEF Undisturbed, Harmless
<1>5. \A stage : stage # "sent" => Harmless({[m EXCEPT !.stage = stage]})
  BY <1>0, HarmlessCalls
<1>6. \A g : Harmless({[m EXCEPT !.stage = "serving", !.generation = g]})
  BY <1>0, <1>1 DEF Harmless, RpcRecords
<1>7. CASE AdmitRequest(m)
  BY <1>4, <1>5, <1>7 DEF AdmitRequest, Reject
<1>8. CASE ServeRequest(m)
  <2> DEFINE g == Max2(row[d].generation, m.generation)
  <2>1. ASSUME NEW t \in Tasks, Begin(t, d, "merge", m.session, g),
               rpcs' = (rpcs \ {m}) \cup
                       {[m EXCEPT !.stage = "merging", !.generation = g, !.lead = t]}
        PROVE  Undisturbed'
    <3>2. Harmless({[m EXCEPT !.stage = "merging", !.generation = g, !.lead = t]})
      BY <1>0, <1>1 DEF Harmless, RpcRecords
    <3>3. Harmless(rpcs)'
      BY <1>0, <2>1, <3>2 DEF Harmless
    <3>4. \A u \in Tasks : task'[u].pc \notin {"forget", "delete"}
      BY <1>0, <2>1 DEF Begin, Shape, TypeOK
    <3> QED BY <3>3, <3>4 DEF Undisturbed
  <2>2. CASE JoinPending(m)
    BY <1>4, <2>1, <2>2 DEF JoinPending
  <2>3. CASE UNCHANGED task
    BY <1>4, <1>6, <1>8, <2>2, <2>3 DEF ServeRequest, Reject
  <2> QED BY <1>8, <2>2, <2>3 DEF ServeRequest
<1>9. CASE UpsertIncoming(m)
  BY <1>4, <1>9 DEF UpsertIncoming
<1>10. CASE CheckConsent(m)
  <2>1. \/ \E answer : rpcs' = Reply(rpcs, m, answer, m.generation, None, None)
        \/ rpcs' = (rpcs \ {m}) \cup {[m EXCEPT !.stage = "serving"]}
    BY <1>10 DEF CheckConsent, Reject
  <2>2. task' = task
    BY <1>10 DEF CheckConsent
  <2>3. Harmless({[m EXCEPT !.stage = "serving"]})
    BY <1>5
  <2> QED BY <1>4, <2>1, <2>2, <2>3
<1>11. CASE StoreConsent(m)
  BY <1>4, <1>11 DEF StoreConsent, Reject
<1>12. CASE CheckAck(m)
  BY <1>4, <1>5, <1>12 DEF CheckAck
<1>13. CASE ApplyAck(m)
  BY <1>4, <1>13 DEF ApplyAck
<1> QED
  BY <1>1, <1>7, <1>8, <1>9, <1>10, <1>11, <1>12, <1>13 DEF Handle, handle_remote_revoke

\* So it holds of every behaviour in which the users request, accept, rotate,
\* dismiss and unblock as they like, rows expire and processes restart.
THEOREM AuthorityIsConsentedUndisturbed ==
    ASSUME \A c \in Commands : c[2] \notin EndingCommands
    PROVE  Spec => []AuthorityNeedsConsent
<1>1. Init => Undisturbed
  BY DEF Init, Undisturbed, Harmless, Idle
<1>2. Shape /\ Undisturbed /\ [Next]_vars => Undisturbed' /\ [EndsAtRest]_vars
  <2>1. ASSUME Shape, Undisturbed, Next PROVE Undisturbed' /\ EndsAtRest
    BY <2>1, UserUndisturbed, ClockUndisturbed, TaskUndisturbed, HandlerUndisturbed DEF Next
  <2>2. ASSUME Undisturbed, UNCHANGED vars PROVE Undisturbed'
    BY <2>2 DEF vars, Undisturbed, Harmless
  <2> QED BY <2>1, <2>2
<1>3. Shape /\ [Next]_vars => Shape'
  BY StepKeeps
<1> QED BY <1>1, <1>2, <1>3, InitHolds, AuthorityIsConsented, PTL DEF Spec

-------------------------------------------------------------------------------
(* Revoked generations, when receipts are not repeated.                    *)

\* The initiation of a task is ahead of it or awaits its answer.
Asking == {"upsert", "request"}

\* A session becomes eligible once, and whoever asks for it has spent it, so no
\* two tasks of a device ask for the same one.
SessionInv ==
    /\ \A d \in Devices, s \in Sessions : s \in eligible[d] => receipts[d][s] > 0
    /\ \A t \in Tasks : task[t].pc \in Asking =>
          /\ task[t].session \in Sessions
          /\ task[t].session \notin eligible[task[t].on]
          /\ receipts[task[t].on][task[t].session] > 0
    /\ \A t, u \in Tasks :
          /\ task[t].pc \in Asking /\ task[u].pc \in Asking
          /\ task[t].on = task[u].on /\ task[t].session = task[u].session
          => t = u

\* A call whose caller waits is the one call its caller waits for.
CallerInv ==
    /\ \A m \in rpcs : m.caller # None =>
          /\ task[m.caller].pc = m.kind
          /\ m.kind = "request" => m.session = task[m.caller].session
    /\ \A m, n \in rpcs : m.caller # None /\ m.caller = n.caller => m = n
    /\ \A m \in rpcs : m.stage # "merging" => m.lead = None

\* The generation is above every one the device has revoked.
Above(d, g) == \A h \in tombstones[d] : h < g

\* A revocation of d has written its tombstone, and removes the row next.
Dying(d) == \E t \in Tasks : task[t].on = d /\ task[t].pc = "delete"

\* What is written under the lock was chosen above the tombstones, and the
\* request being served is for a session that no task of the device asks for.
LockedInv ==
    /\ \A t \in Tasks : task[t].pc = "upsert" => Above(task[t].on, task[t].generation)
    /\ \A m \in rpcs : m.kind = "request" /\ m.stage = "serving" =>
          /\ Above(m.to, m.generation)
          /\ \A t \in Tasks : task[t].pc \in Asking /\ task[t].on = m.to => task[t].session # m.session

\* A row is above the tombstones, or is about to go.
LiveInv == \A d \in Devices : row[d] # None => Dying(d) \/ Above(d, row[d].generation)

\* The answer "saved" carries no generation.
SaysSaved(m) == m.stage \in Read /\ m.answer = "saved"

\* The generation a task will adopt is above the tombstones as well, as long as
\* the row of its session is there.
AnswerInv ==
    \A m \in rpcs : \A d \in Devices :
        /\ m.kind = "request" /\ m.caller # None /\ ~SaysSaved(m)
        /\ task[m.caller].on = d /\ PendingIn(row[d], m.session)
        => \A h \in tombstones[d] : h < m.generation \/ (Dying(d) /\ h = row[d].generation)

RevokedInv == SessionInv /\ CallerInv /\ LockedInv /\ LiveInv /\ AnswerInv

\* A revocation that has written its tombstone also removes the row: no restart
\* comes in between.
RevocationsComplete ==
    \A t \in Tasks : task[t].pc = "delete" /\ task'[t] # task[t] => row'[task[t].on] = None

-------------------------------------------------------------------------------
(* What a step may do to the row of e, as far as generations go.           *)

\* Only grants and state change, and the row does not become pending.
Same(e) ==
    /\ tombstones'[e] = tombstones[e] /\ row[e] # None
    /\ row'[e].generation = row[e].generation /\ row'[e].session = row[e].session
    /\ IsPending(row'[e]) => IsPending(row[e])

\* The row's tombstone is written and its removal is next.
Marked(e) ==
    /\ row'[e] = row[e] /\ tombstones'[e] = tombstones[e] \cup {row[e].generation}
    /\ Dying(e)'

Rotated(e) ==
    /\ ~IsPending(row'[e]) /\ tombstones[e] \subseteq tombstones'[e]
    /\ Above(e, row[e].generation)'

\* A pending row of a session takes a larger generation.
Raised(e) ==
    /\ tombstones'[e] = tombstones[e] /\ ~Dying(e)
    /\ PendingIn(row[e], row'[e].session)
    /\ Above(e, row[e].generation)'

\* The row is written or adopts an answer, and no other answer awaits adoption.
Written(e) ==
    /\ tombstones'[e] = tombstones[e]
    /\ \A h \in tombstones[e] :
          h < row'[e].generation \/ (Dying(e) /\ row[e] # None /\ h = row[e].generation)
    /\ \A x \in rpcs' :
          /\ x.kind = "request" /\ x.caller # None /\ task'[x.caller].on = e
          /\ x.session = row'[e].session
          => Above(e, x.generation)

RowCase(e) ==
    row'[e] = None \/ Same(e) \/ Marked(e) \/ Rotated(e) \/ Raised(e) \/ Written(e)

\* What is written under a lock stays above the tombstones: they grow outside it.
TombsCase(e) == tombstones'[e] = tombstones[e] \/ ~Locked(e)

\* No task starts to ask, and no session becomes eligible.
AskKept ==
    /\ \A t \in Tasks : task'[t].pc \in Asking =>
          /\ task[t].pc \in Asking
          /\ task'[t].on = task[t].on /\ task'[t].session = task[t].session
          /\ task'[t].pc = "upsert" => task'[t] = task[t]
    /\ \A d \in Devices : eligible'[d] \subseteq eligible[d]
    /\ receipts' = receipts

\* A request that is served from now on, with a generation above the tombstones.
Served(x) ==
    /\ tombstones'[x.to] = tombstones[x.to] /\ Above(x.to, x.generation)
    /\ x.session \in eligible[x.to]

\* A call that has moved on, got its answer or lost its caller.
Derived(x, y) ==
    /\ x.kind = y.kind /\ x.session = y.session /\ x.to = y.to
    /\ x.caller \in {y.caller, None}
    /\ x.stage # "merging" => x.lead = None
    /\ x.kind = "request" =>
          /\ ~SaysSaved(x) => ~SaysSaved(y) /\ y.generation <= x.generation
          /\ x.stage = "serving" =>
                (y.stage = "serving" /\ x.generation = y.generation) \/ Served(x)

Follows(x) ==
    /\ \E y \in rpcs : Derived(x, y)
    /\ x.caller # None => task'[x.caller] = task[x.caller]

\* A new call: its caller has begun to wait for it.
Starts(x) ==
    /\ x.stage = "sent" /\ x.lead = None
    /\ x.caller # None => task'[x.caller].pc = x.kind
    /\ x.kind = "request" =>
          /\ x.caller # None
          /\ x.session = task'[x.caller].session
          /\ \A e \in Devices : task'[x.caller].on = e =>
                tombstones'[e] = tombstones[e] /\ Above(e, x.generation)

Unique(R) == \A m, n \in R : m.caller # None /\ m.caller = n.caller => m = n

CallsStep == Unique(rpcs') /\ \A x \in rpcs' : Follows(x) \/ Starts(x)

\* What RevokedStaysRevoked says of a step.
StaysRevoked ==
    \A d \in Devices :
          (row'[d] # None /\ row'[d].generation \in tombstones[d])
             => (row[d] # None /\ row[d].generation = row'[d].generation)

LEMMA SessionKept ==
    ASSUME Shape, SessionInv, AskKept
    PROVE  SessionInv'
  BY DEF SessionInv, AskKept, Shape, TypeOK, TaskShape, Asking

LEMMA CallerKept ==
    ASSUME CallerInv, CallsStep
    PROVE  CallerInv'
<1>1. ASSUME NEW x \in rpcs', x.caller # None
      PROVE  /\ task'[x.caller].pc = x.kind
             /\ x.kind = "request" => x.session = task'[x.caller].session
  BY <1>1 DEF CallsStep, Follows, Starts, Derived, CallerInv
<1>2. ASSUME NEW x \in rpcs', x.stage # "merging" PROVE x.lead = None
  BY <1>2 DEF CallsStep, Follows, Starts, Derived
<1>3. \A x, y \in rpcs' : x.caller # None /\ x.caller = y.caller => x = y
  BY DEF CallsStep, Unique
<1> QED BY <1>1, <1>2, <1>3 DEF CallerInv

LEMMA LockedKept ==
    ASSUME Shape, SessionInv, LockedInv, AskKept, CallsStep, \A e \in Devices : TombsCase(e)
    PROVE  LockedInv'
<1>1. ASSUME NEW t \in Tasks, task'[t].pc = "upsert"
      PROVE  Above(task[t].on, task[t].generation)'
  <2>1. task'[t] = task[t] /\ task[t].on \in Devices
    BY <1>1 DEF AskKept, Asking, Shape, TaskShape
  <2>2. Locked(task[t].on)
    BY <1>1, <2>1 DEF Locked
  <2> QED BY <1>1, <2>1, <2>2 DEF TombsCase, LockedInv, Above
<1>2. ASSUME NEW x \in rpcs', x.kind = "request", x.stage = "serving"
      PROVE  /\ Above(x.to, x.generation)'
             /\ \A t \in Tasks : task'[t].pc \in Asking /\ task'[t].on = x.to => task'[t].session # x.session
  <2>1. PICK y \in rpcs : Derived(x, y)
    BY <1>2 DEF CallsStep, Follows, Starts
  <2>2. y.kind = "request" /\ x.to = y.to /\ x.session = y.session /\ y.to \in Devices
    BY <1>2, <2>1 DEF Derived, Shape, TypeOK, RpcRecords
  <2>3. CASE y.stage = "serving" /\ x.generation = y.generation
    <3>1. Locked(y.to)
      BY <2>2, <2>3 DEF Locked
    <3>2. Above(x.to, x.generation)'
      BY <2>2, <2>3, <3>1 DEF TombsCase, LockedInv, Above
    <3>3. ASSUME NEW t \in Tasks, task'[t].pc \in Asking, task'[t].on = x.to
          PROVE  task'[t].session # x.session
      BY <2>2, <2>3, <3>3 DEF AskKept, LockedInv
    <3> QED BY <3>2, <3>3
  <2>4. CASE Served(x)
    <3>1. Above(x.to, x.generation)'
      BY <2>4 DEF Served, Above
    <3>2. ASSUME NEW t \in Tasks, task'[t].pc \in Asking, task'[t].on = x.to
          PROVE  task'[t].session # x.session
      BY <2>4, <3>2 DEF Served, AskKept, SessionInv
    <3> QED BY <3>1, <3>2
  <2> QED BY <1>2, <2>1, <2>3, <2>4 DEF Derived
<1> QED BY <1>1, <1>2 DEF LockedInv

LEMMA DyingStays ==
    ASSUME RevocationsComplete, NEW e \in Devices, Dying(e), row'[e] # None
    PROVE  Dying(e)'
  BY DEF RevocationsComplete, Dying

LEMMA LiveKept ==
    ASSUME Shape, LiveInv, RevocationsComplete, \A e \in Devices : RowCase(e)
    PROVE  LiveInv' /\ StaysRevoked
<1> SUFFICES ASSUME NEW e \in Devices, row'[e] # None
             PROVE  /\ Dying(e)' \/ Above(e, row[e].generation)'
                    /\ row'[e].generation \in tombstones[e]
                         => row[e] # None /\ row[e].generation = row'[e].generation
  BY DEF LiveInv, StaysRevoked
<1>0. \A h \in tombstones[e] : h \in Int
  BY StoreBounds DEF Shape, TypeOK, Generations
<1>1. Dying(e) => Dying(e)'
  BY DyingStays
<1>2. CASE Same(e)
  BY <1>1, <1>2 DEF Same, LiveInv, Above
<1>3. CASE Marked(e)
  BY <1>3 DEF Marked
<1>4. CASE Rotated(e)
  BY <1>0, <1>4 DEF Rotated, Above
<1>5. CASE Raised(e)
  BY <1>0, <1>5 DEF Raised, Above
<1>6. CASE Written(e)
  BY <1>0, <1>1, <1>6 DEF Written, Above
<1> QED BY <1>2, <1>3, <1>4, <1>5, <1>6 DEF RowCase

LEMMA AnswerKept ==
    ASSUME Shape, Shape', CallerInv, AnswerInv, RevocationsComplete, CallsStep,
           \A e \in Devices : RowCase(e)
    PROVE  AnswerInv'
<1> SUFFICES ASSUME NEW x \in rpcs', NEW e \in Devices,
                    x.kind = "request", x.caller # None, ~SaysSaved(x),
                    task'[x.caller].on = e, PendingIn(row'[e], x.session),
                    NEW h \in tombstones'[e]
             PROVE  h < x.generation \/ (Dying(e)' /\ h = row'[e].generation)
  BY DEF AnswerInv, SaysSaved
<1>1. row'[e] # None /\ IsPending(row'[e]) /\ row'[e].session = x.session
  BY DEF PendingIn, IsPending
<1>2. CASE Starts(x)
  BY <1>2 DEF Starts, Above
<1>3. CASE Follows(x)
  <2>1. PICK y \in rpcs : Derived(x, y)
    BY <1>3 DEF Follows
  <2>2. /\ y.kind = "request" /\ y.caller = x.caller /\ y.session = x.session
        /\ ~SaysSaved(y) /\ y.generation <= x.generation
        /\ task[y.caller].on = e
    BY <1>3, <2>1 DEF Derived, Follows
  <2>3. x.generation \in Int /\ y.generation \in Int /\ \A k \in tombstones[e] : k \in Int
    <3>1. x \in RpcRecords /\ y \in RpcRecords
      BY DEF Shape, TypeOK
    <3> QED BY <3>1, StoreBounds DEF Shape, TypeOK, RpcRecords, Generations
  <2>4. ASSUME PendingIn(row[e], x.session), h \in tombstones[e]
        PROVE  h < x.generation \/ (Dying(e) /\ h = row[e].generation)
    <3>1. h < y.generation \/ (Dying(e) /\ h = row[e].generation)
      BY <2>2, <2>4 DEF AnswerInv
    <3> QED BY <2>2, <2>3, <2>4, <3>1
  <2>5. Dying(e) => Dying(e)'
    BY <1>1, DyingStays
  <2>6. CASE Same(e)
    BY <1>1, <2>4, <2>5, <2>6 DEF Same, PendingIn
  <2>7. CASE Marked(e)
    BY <1>1, <2>4, <2>5, <2>7 DEF Marked, PendingIn
  <2>8. CASE Rotated(e)
    BY <1>1, <2>8 DEF Rotated
  <2>9. CASE Raised(e)
    BY <1>1, <2>4, <2>9 DEF Raised
  <2>10. CASE Written(e)
    BY <1>1, <2>10 DEF Written, Above
  <2> QED BY <1>1, <2>6, <2>7, <2>8, <2>9, <2>10 DEF RowCase
<1> QED BY <1>2, <1>3 DEF CallsStep

\* Together.
RevokedStep == AskKept /\ CallsStep /\ \A e \in Devices : RowCase(e) /\ TombsCase(e)

LEMMA RevokedKept ==
    ASSUME Shape, Shape', RevokedInv, RevocationsComplete, RevokedStep
    PROVE  RevokedInv' /\ StaysRevoked
  BY SessionKept, CallerKept, LockedKept, LiveKept, AnswerKept DEF RevokedInv, RevokedStep

-------------------------------------------------------------------------------
(* The parts of a step.                                                    *)

LEMMA StillRow ==
    ASSUME Shape, UNCHANGED <<row, tombstones>>, NEW e \in Devices
    PROVE  RowCase(e) /\ TombsCase(e)
  BY DEF RowCase, TombsCase, Same

LEMMA OneRow ==
    ASSUME Shape, NEW d \in Devices, NEW r, row' = [row EXCEPT ![d] = r], UNCHANGED tombstones,
           NEW e \in Devices, e = d => RowCase(d)
    PROVE  RowCase(e) /\ TombsCase(e)
<1>1. CASE e = d
  BY <1>1 DEF TombsCase
<1>2. CASE e # d
  <2>1. row'[e] = row[e]
    BY <1>2 DEF Shape, TypeOK
  <2> QED BY <2>1 DEF RowCase, TombsCase, Same
<1> QED BY <1>1, <1>2

\* The statements that change grants and state only.
LEMMA SameRow ==
    ASSUME Shape, NEW d \in Devices, UNCHANGED tombstones,
           \/ row' = [row EXCEPT ![d] = None]
           \/ activate_saved(d)
           \/ \E k : row' = [row EXCEPT ![d] = set_issued_grant(@, k)]
           \/ \E k : row' = [row EXCEPT ![d] = set_held_grant(@, k)]
           \/ \E k, l : row' = [row EXCEPT ![d] = set_issued_grant(set_held_grant(@, k), l)]
    PROVE  \A e \in Devices : RowCase(e) /\ TombsCase(e)
<1> DEFINE Calm(r) == \/ r = None
                      \/ /\ row[d] # None /\ r.generation = row[d].generation
                         /\ r.session = row[d].session /\ (IsPending(r) => IsPending(row[d]))
<1>0. row[d] # None => row[d] \in Rows
  BY DEF Shape, TypeOK
<1>1. Calm(set_state(row[d], "saved"))
  BY <1>0 DEF set_state, IsPending, Pending, Rows
<1>2. ASSUME NEW k
      PROVE  /\ Calm(set_issued_grant(row[d], k)) /\ Calm(set_held_grant(row[d], k))
             /\ \A l : Calm(set_issued_grant(set_held_grant(row[d], k), l))
  BY <1>0 DEF set_issued_grant, set_held_grant, IsPending, Rows
<1>3. ASSUME NEW r, row' = [row EXCEPT ![d] = r], Calm(r)
      PROVE  \A e \in Devices : RowCase(e) /\ TombsCase(e)
  <2>1. row'[d] = r
    BY <1>3 DEF Shape, TypeOK
  <2>2. RowCase(d)
    BY <1>3, <2>1 DEF RowCase, Same
  <2> QED BY <1>3, <2>2, OneRow
<1>4. Calm(None)
  OBVIOUS
<1> HIDE DEF Calm
<1>5. CASE activate_saved(d)
  BY <1>1, <1>3, <1>5 DEF activate_saved
<1> QED BY <1>2, <1>3, <1>4, <1>5

LEMMA StillAsk ==
    ASSUME Shape, UNCHANGED <<task, receipts>>, \A d \in Devices : eligible'[d] \subseteq eligible[d]
    PROVE  AskKept
  BY DEF AskKept

LEMMA OneTask ==
    ASSUME Shape, NEW t \in Tasks, NEW r, task' = [task EXCEPT ![t] = r],
           r.pc \notin Asking \/ (r.pc = "request" /\ task[t].pc \in Asking
                                  /\ r.on = task[t].on /\ r.session = task[t].session),
           \A d \in Devices : eligible'[d] \subseteq eligible[d], UNCHANGED receipts
    PROVE  AskKept
<1>1. task'[t] = r /\ \A u \in Tasks \ {t} : task'[u] = task[u]
  BY DEF Shape, TypeOK
<1> QED BY <1>1 DEF AskKept, Asking

\* A task that waits for no call has none.
LEMMA Alone ==
    ASSUME Shape, CallerInv, NEW t \in Tasks, task[t].pc \notin {"request", "consent", "ack"}
    PROVE  \A m \in rpcs : m.caller # t
<1> SUFFICES ASSUME NEW m \in rpcs, m.caller = t PROVE FALSE
  OBVIOUS
<1>1. m.kind \in Kinds /\ task[t].pc # "revoke" /\ t # None
  BY PairingAssumption DEF Shape, TypeOK, RpcRecords, TaskRecords
<1> QED BY <1>1 DEF CallerInv, Kinds

LEMMA OldDerived ==
    ASSUME Shape, CallerInv, NEW x \in rpcs
    PROVE  Derived(x, x)
<1>1. x.generation \in Int
  BY StoreBounds DEF Shape, TypeOK, RpcRecords, Generations
<1> QED BY <1>1 DEF Derived, CallerInv

\* Fewer calls, of which at most one, m, has become x.
LEMMA CallMoves ==
    ASSUME Shape, CallerInv, NEW m \in rpcs, NEW x, Derived(x, m),
           rpcs' \subseteq (rpcs \ {m}) \cup {x},
           \A y \in rpcs' : y.caller # None => task'[y.caller] = task[y.caller]
    PROVE  CallsStep
<1>1. \A y \in rpcs' : Follows(y)
  BY OldDerived DEF Follows
<1>2. Unique(rpcs')
  BY DEF Unique, CallerInv, Derived
<1> QED BY <1>1, <1>2 DEF CallsStep

LEMMA FewerCalls ==
    ASSUME Shape, CallerInv, rpcs' \subseteq rpcs,
           \A y \in rpcs' : y.caller # None => task'[y.caller] = task[y.caller]
    PROVE  CallsStep
<1>1. \A y \in rpcs' : Follows(y)
  BY OldDerived DEF Follows
<1>2. Unique(rpcs')
  BY DEF Unique, CallerInv
<1> QED BY <1>1, <1>2 DEF CallsStep

LEMMA CallStarts ==
    ASSUME Shape, CallerInv, NEW R \in SUBSET rpcs, NEW z, Starts(z), rpcs' \subseteq R \cup {z},
           \A y \in R : y.caller # None => y.caller # z.caller /\ task'[y.caller] = task[y.caller]
    PROVE  CallsStep
<1>1. \A y \in R : Follows(y)
  BY OldDerived DEF Follows
<1>2. Unique(rpcs')
  BY DEF Unique, CallerInv
<1> QED BY <1>1, <1>2 DEF CallsStep

\* An answer.
LEMMA Answers1 ==
    ASSUME Shape, CallerInv, NEW m \in rpcs, m.stage \notin Read,
           NEW answer, NEW g, NEW grant, NEW proof,
           rpcs' = Reply(rpcs, m, answer, g, grant, proof),
           m.kind = "request" => answer = "saved" \/ m.generation <= g,
           UNCHANGED task
    PROVE  CallsStep
<1> DEFINE x == [m EXCEPT !.stage = "replied", !.answer = answer, !.generation = g,
                          !.grant = grant, !.proof = proof, !.lead = None]
<1>1. m \in RpcRecords
  BY DEF Shape, TypeOK
<1>2. /\ x.kind = m.kind /\ x.session = m.session /\ x.to = m.to /\ x.caller = m.caller
      /\ x.lead = None /\ x.stage = "replied" /\ x.answer = answer /\ x.generation = g
  BY <1>1 DEF RpcRecords
<1>3. rpcs' \subseteq (rpcs \ {m}) \cup {x}
  BY DEF Reply
<1> HIDE DEF x
<1>4. Derived(x, m)
  BY <1>2 DEF Derived, SaysSaved, Read
<1> QED BY <1>3, <1>4, CallMoves

\* The next stage of a handler or of its caller.
LEMMA StageDerived ==
    ASSUME Shape, CallerInv, NEW m \in rpcs, m.stage # "merging",
           NEW stage \in {"admitted", "serving", "verified"},
           m.kind = "request" => stage = "admitted" /\ m.stage \notin Read
    PROVE  Derived([m EXCEPT !.stage = stage], m)
<1> DEFINE x == [m EXCEPT !.stage = stage]
<1>1. m \in RpcRecords /\ m.generation \in Int
  BY StoreBounds DEF Shape, TypeOK, RpcRecords, Generations
<1>2. /\ x.kind = m.kind /\ x.session = m.session /\ x.to = m.to /\ x.caller = m.caller
      /\ x.lead = m.lead /\ x.stage = stage /\ x.answer = m.answer /\ x.generation = m.generation
  BY <1>1 DEF RpcRecords
<1> HIDE DEF x
<1>3. Derived(x, m)
  BY <1>1, <1>2 DEF Derived, SaysSaved, Read, CallerInv
<1> QED BY <1>3 DEF x

LEMMA OrphanDerived ==
    ASSUME Shape, CallerInv, NEW m \in rpcs
    PROVE  Derived([m EXCEPT !.caller = None], m) /\ [m EXCEPT !.caller = None].caller = None
<1> DEFINE x == [m EXCEPT !.caller = None]
<1>1. m \in RpcRecords /\ m.generation \in Int
  BY StoreBounds DEF Shape, TypeOK, RpcRecords, Generations
<1>2. /\ x.kind = m.kind /\ x.session = m.session /\ x.to = m.to /\ x.caller = None
      /\ x.lead = m.lead /\ x.stage = m.stage /\ x.answer = m.answer /\ x.generation = m.generation
  BY <1>1 DEF RpcRecords
<1> HIDE DEF x
<1>3. Derived(x, m)
  BY <1>1, <1>2 DEF Derived, SaysSaved, CallerInv
<1> QED BY <1>2, <1>3 DEF x

\* The end of a task, whose calls are over.
LEMMA EndStep ==
    ASSUME Shape, CallerInv, NEW t \in Tasks, NEW R \in SUBSET RpcRecords, End(t, R), Unique(R),
           \A x \in R : x.caller # t /\ \E y \in rpcs : Derived(x, y),
           \A d \in Devices : eligible'[d] \subseteq eligible[d], UNCHANGED receipts
    PROVE  AskKept /\ CallsStep
<1>1. task' = [task EXCEPT ![t] = Idle] /\ Idle.pc \notin Asking
  BY DEF End, Idle, Asking
<1>2. AskKept
  BY <1>1, OneTask
<1>3. \A u \in Tasks \ {t} : task'[u] = task[u]
  BY <1>1 DEF Shape, TypeOK
<1>4. ASSUME NEW x \in rpcs'
      PROVE  \E r \in R : x.caller = r.caller /\ \A y \in rpcs : Derived(r, y) => Derived(x, y)
  <2>1. PICK r \in R : x = IF r.lead = t
                           THEN [r EXCEPT !.stage = "replied", !.answer = "merged", !.lead = None]
                           ELSE r
    BY DEF End, Done
  <2>2. CASE r.lead # t
    BY <2>1, <2>2
  <2>3. CASE r.lead = t
    <3>1. /\ x.kind = r.kind /\ x.session = r.session /\ x.to = r.to /\ x.caller = r.caller
          /\ x.lead = None /\ x.stage = "replied" /\ x.answer = "merged" /\ x.generation = r.generation
      BY <2>1, <2>3 DEF RpcRecords
    <3>2. t # None
      BY PairingAssumption
    <3>3. \A y \in rpcs : Derived(r, y) => Derived(x, y)
      BY <2>3, <3>1, <3>2 DEF Derived, SaysSaved, Read
    <3> QED BY <2>1, <2>3, <3>1, <3>2, <3>3
  <2> QED BY <2>2, <2>3
<1>5. ASSUME NEW x \in rpcs' PROVE Follows(x)
  <2>1. PICK r \in R : x.caller = r.caller /\ \A y \in rpcs : Derived(r, y) => Derived(x, y)
    BY <1>4
  <2>2. r.caller # None => r.caller \in Tasks \ {t}
    BY DEF RpcRecords
  <2> QED BY <1>3, <2>1, <2>2 DEF Follows
<1>6. Unique(rpcs')
  <2> SUFFICES ASSUME NEW x \in rpcs', NEW y \in rpcs', x.caller # None, x.caller = y.caller
               PROVE  x = y
    BY DEF Unique
  <2>1. PICK r \in R : x = (IF r.lead = t
                            THEN [r EXCEPT !.stage = "replied", !.answer = "merged", !.lead = None]
                            ELSE r) /\ x.caller = r.caller
    BY DEF End, Done, RpcRecords
  <2>2. PICK q \in R : y = (IF q.lead = t
                            THEN [q EXCEPT !.stage = "replied", !.answer = "merged", !.lead = None]
                            ELSE q) /\ y.caller = q.caller
    BY DEF End, Done, RpcRecords
  <2>3. r = q
    BY <2>1, <2>2 DEF Unique
  <2> QED BY <2>1, <2>2, <2>3
<1> QED BY <1>2, <1>5, <1>6 DEF CallsStep

LEMMA EndsPlain ==
    ASSUME Shape, CallerInv, NEW t \in Tasks, NEW R \in SUBSET rpcs, End(t, R),
           \A x \in R : x.caller # t,
           \A d \in Devices : eligible'[d] \subseteq eligible[d], UNCHANGED receipts
    PROVE  AskKept /\ CallsStep
<1>1. R \in SUBSET RpcRecords /\ Unique(R) /\ \A x \in R : \E y \in rpcs : Derived(x, y)
  BY OldDerived DEF Shape, TypeOK, CallerInv, Unique
<1> QED BY <1>1, EndStep

-------------------------------------------------------------------------------
(* The actions.                                                            *)

LEMMA UserRevoked ==
    ASSUME Shape, RevokedInv, NEW d \in Devices, UserStep(d)
    PROVE  RevokedStep
<1>0. CallerInv /\ LiveInv
  BY DEF RevokedInv
<1>1. ASSUME NEW t \in Tasks, NEW pc \in {"reserve", "mint", "forget"}, NEW g, Begin(t, d, pc, None, g),
             UNCHANGED <<row, tombstones, rpcs, receipts>>,
             \A e \in Devices : eligible'[e] \subseteq eligible[e]
      PROVE  RevokedStep
  <2> DEFINE r == [pc |-> pc, on |-> d, session |-> None, generation |-> g]
  <2>1. task' = [task EXCEPT ![t] = r] /\ r.pc \notin Asking /\ task[t].pc = "idle"
    BY <1>1 DEF Begin, Asking, Idle
  <2> HIDE DEF r
  <2>2. AskKept
    BY <1>1, <2>1, OneTask
  <2>3. \A u \in Tasks \ {t} : task'[u] = task[u]
    BY <2>1 DEF Shape, TypeOK
  <2>4. \A m \in rpcs : m.caller # t /\ (m.caller # None => m.caller \in Tasks)
    BY <1>0, <2>1, Alone DEF Shape, TypeOK, RpcRecords
  <2>5. CallsStep
    BY <1>0, <1>1, <2>3, <2>4, FewerCalls
  <2> QED BY <1>1, <2>2, <2>5, StillRow DEF RevokedStep
<1>2. ASSUME NEW t \in Tasks,
             request_pairing(t, d) \/ Accept(t, d) \/ ForgetDevice(t, d) \/ BlockDevice(t, d)
      PROVE  RevokedStep
  <2>1. UNCHANGED <<row, tombstones, rpcs, receipts>>
    BY <1>2 DEF request_pairing, Accept, ForgetDevice, BlockDevice, store
  <2>2. \A e \in Devices : eligible'[e] \subseteq eligible[e]
    BY <1>2 DEF request_pairing, Accept, ForgetDevice, BlockDevice, store, consume_session, Shape, TypeOK
  <2>3. \E pc \in {"reserve", "mint", "forget"} : \E g : Begin(t, d, pc, None, g)
    BY <1>2 DEF request_pairing, Accept, ForgetDevice, BlockDevice
  <2> QED BY <1>1, <2>1, <2>2, <2>3
<1>3. CASE Decline(d)
  <2> DEFINE z == Call("consent", None, Peer(d), None, row[d].generation, None, None)
  <2>1. rpcs' = rpcs \cup {z} /\ Starts(z) /\ z.caller = None
    BY <1>3 DEF Decline, Call, Starts
  <2> HIDE DEF z
  <2>2. UNCHANGED <<task, receipts, tombstones>> /\ row' = [row EXCEPT ![d] = None]
    BY <1>3 DEF Decline
  <2>3. CallsStep
    BY <1>0, <2>1, <2>2, CallStarts
  <2>4. AskKept
    BY <1>3, <2>2, StillAsk DEF Decline, consume_session, Shape, TypeOK
  <2>5. \A e \in Devices : RowCase(e) /\ TombsCase(e)
    BY <2>2, SameRow
  <2> QED BY <2>3, <2>4, <2>5 DEF RevokedStep
<1>4. CASE DeclineEligibility(d) \/ UnblockDevice(d)
  <2>1. UNCHANGED <<row, tombstones, task, rpcs, receipts>>
    BY <1>4 DEF DeclineEligibility, UnblockDevice
  <2>2. \A e \in Devices : eligible'[e] \subseteq eligible[e]
    BY <1>4 DEF DeclineEligibility, UnblockDevice, remove_for_peer, Shape, TypeOK
  <2> QED BY <1>0, <2>1, <2>2, StillRow, StillAsk, FewerCalls DEF RevokedStep
<1>5. CASE rotate_relationship_grant(d)
  <2> DEFINE g == row[d].generation + 1
             b == begin_grant_rotation(row[d], g)
             r == set_issued_grant(b, NewGrant(d))
  <2>1. UNCHANGED <<task, rpcs, receipts, eligible>> /\ ~Locked(d) /\ tombstone_generation(d)
    BY <1>5 DEF rotate_relationship_grant
  <2>2. row[d] \in Rows /\ row[d] # None /\ row[d].state = "saved" /\ row' = [row EXCEPT ![d] = r]
    BY <1>5 DEF rotate_relationship_grant, IsSaved, Shape, TypeOK
  <2>3. r = None \/ (r.generation = g /\ r.state = "saved")
    BY <2>2 DEF set_issued_grant, begin_grant_rotation, NewRow
  <2>4. row[d].generation \in Int /\ \A h \in tombstones[d] : h \in Int
    BY <2>2, StoreBounds DEF Rows, Shape, TypeOK, Generations
  <2>5. Above(d, row[d].generation)
    BY <1>0, <2>1, <2>2 DEF LiveInv, Dying, Locked
  <2>6. /\ tombstones'[d] = tombstones[d] \cup {row[d].generation}
        /\ \A e \in Devices \ {d} : tombstones'[e] = tombstones[e]
    BY <2>1 DEF tombstone_generation, Shape, TypeOK
  <2>7. row'[d] = r /\ \A e \in Devices \ {d} : row'[e] = row[e]
    BY <2>2 DEF Shape, TypeOK
  <2>8. row'[d] = None \/ Rotated(d)
    <3> HIDE DEF r
    <3> QED BY <2>3, <2>4, <2>5, <2>6, <2>7 DEF Rotated, Above, IsPending, Pending
  <2>9. \A e \in Devices : RowCase(e) /\ TombsCase(e)
    <3> HIDE DEF r
    <3> QED BY <2>1, <2>6, <2>7, <2>8 DEF RowCase, TombsCase, Same
  <2> QED BY <1>0, <2>1, <2>9, StillAsk, FewerCalls DEF RevokedStep
<1> QED BY <1>2, <1>3, <1>4, <1>5 DEF UserStep

LEMMA ClockRevoked ==
    ASSUME Shape, RevokedInv, NEW d \in Devices,
           (\E s \in Sessions : expire_due(d, s)) \/ ExpirePending(d) \/ Restart(d)
    PROVE  RevokedStep
<1>0. CallerInv
  BY DEF RevokedInv
<1>1. ASSUME NEW s \in Sessions, expire_due(d, s) PROVE RevokedStep
  <2>1. UNCHANGED <<row, tombstones, task, rpcs, receipts>>
    BY <1>1 DEF expire_due
  <2>2. \A e \in Devices : eligible'[e] \subseteq eligible[e]
    BY <1>1 DEF expire_due, consume_session, Shape, TypeOK
  <2> QED BY <1>0, <2>1, <2>2, StillRow, StillAsk, FewerCalls DEF RevokedStep
<1>2. CASE ExpirePending(d)
  <2>1. UNCHANGED <<tombstones, task, rpcs, receipts, eligible>> /\ row' = [row EXCEPT ![d] = None]
    BY <1>2 DEF ExpirePending
  <2> QED BY <1>0, <2>1, SameRow, StillAsk, FewerCalls DEF RevokedStep
<1>3. CASE Restart(d)
  <2>1. UNCHANGED <<tombstones, receipts, eligible>>
    BY <1>3 DEF Restart
  <2>2. \A t \in Tasks : task'[t] = IF task[t].on = d THEN Idle ELSE task[t]
    BY <1>3 DEF Restart
  <2>3. AskKept
    BY <2>1, <2>2 DEF AskKept, Idle, Asking
  <2>4. (row'[d] = None \/ row'[d] = row[d]) /\ \A e \in Devices \ {d} : row'[e] = row[e]
    BY <1>3 DEF Restart, Shape, TypeOK
  <2>5. \A e \in Devices : RowCase(e) /\ TombsCase(e)
    BY <2>1, <2>4 DEF RowCase, TombsCase, Same
  <2>6. \A x \in rpcs' : \/ x \in rpcs /\ ~(x.caller \in Tasks /\ task[x.caller].on = d)
                         \/ \E m \in rpcs : x = [m EXCEPT !.caller = None]
    BY <1>3 DEF Restart
  <2>7. ASSUME NEW x \in rpcs'
        PROVE  Follows(x) /\ (x.caller # None => x \in rpcs)
    <3>1. CASE x \in rpcs /\ ~(x.caller \in Tasks /\ task[x.caller].on = d)
      <4>1. x.caller # None => x.caller \in Tasks
        BY <3>1 DEF Shape, TypeOK, RpcRecords
      <4> QED BY <1>0, <2>2, <3>1, <4>1, OldDerived DEF Follows
    <3>2. ASSUME NEW m \in rpcs, x = [m EXCEPT !.caller = None]
          PROVE  Follows(x) /\ (x.caller # None => x \in rpcs)
      BY <1>0, <3>2, OrphanDerived DEF Follows
    <3> QED BY <2>6, <3>1, <3>2
  <2>8. CallsStep
    BY <1>0, <2>7 DEF CallsStep, Unique, CallerInv
  <2> QED BY <2>3, <2>5, <2>8 DEF RevokedStep
<1> QED BY <1>1, <1>2, <1>3

\* A session becomes eligible that no task has spent yet.
LEMMA ActivationRevoked ==
    ASSUME MaxReceipts <= 1, Shape, RevokedInv, NEW d \in Devices, NEW s \in Sessions,
           activate_after_completed_transfer(d, s)
    PROVE  RevokedInv' /\ StaysRevoked
<1>1. UNCHANGED <<row, tombstones, task, rpcs>>
  BY DEF activate_after_completed_transfer
<1>2. CallerInv' /\ LockedInv' /\ LiveInv' /\ AnswerInv' /\ StaysRevoked
  BY <1>1 DEF RevokedInv, CallerInv, LockedInv, LiveInv, AnswerInv, StaysRevoked, Above, Dying, SaysSaved
<1>3. receipts[d][s] \in Nat /\ receipts[d][s] < 1 /\ receipts \in [Devices -> [Sessions -> Nat]]
  BY PairingAssumption DEF activate_after_completed_transfer, Shape, TypeOK
<1>4. receipts[d][s] = 0
  BY <1>3
<1>5. /\ receipts'[d][s] > 0
      /\ \A e \in Devices, r \in Sessions : e # d \/ r # s => receipts'[e][r] = receipts[e][r]
  BY <1>3, <1>4 DEF activate_after_completed_transfer
<1>6. /\ eligible'[d] \subseteq eligible[d] \cup {s}
      /\ \A e \in Devices \ {d} : eligible'[e] = eligible[e]
  BY DEF activate_after_completed_transfer, Shape, TypeOK
<1>7. SessionInv'
  <2>1. ASSUME NEW e \in Devices, NEW r \in Sessions, r \in eligible'[e] PROVE receipts'[e][r] > 0
    BY <1>5, <1>6, <2>1 DEF RevokedInv, SessionInv
  <2>2. ASSUME NEW t \in Tasks, task[t].pc \in Asking
        PROVE  /\ task[t].session \in Sessions
               /\ task[t].session \notin eligible'[task[t].on]
               /\ receipts'[task[t].on][task[t].session] > 0
    <3>1. task[t].on \in Devices /\ task[t].session \in Sessions /\ receipts[task[t].on][task[t].session] > 0
           /\ task[t].session \notin eligible[task[t].on]
      BY <2>2 DEF RevokedInv, SessionInv, Shape, TaskShape, Asking
    <3>2. task[t].on # d \/ task[t].session # s
      BY <1>4, <3>1
    <3> QED BY <1>5, <1>6, <3>1, <3>2
  <2> QED BY <1>1, <2>1, <2>2 DEF RevokedInv, SessionInv
<1> QED BY <1>2, <1>7 DEF RevokedInv

\* The fields of a written row.
LEMMA RowFields ==
    ASSUME NEW r \in Rows \cup {None}, NEW state, NEW g, NEW s
    PROVE  /\ upsert(r, state, g, s).generation = g /\ upsert(r, state, g, s).session = s
           /\ PendingIn(r, s) => /\ set_pending_generation(r, s, g).generation = g
                                 /\ set_pending_generation(r, s, g).session = s
           /\ ~PendingIn(r, s) => set_pending_generation(r, s, g) = r
<1>1. ASSUME NEW st PROVE upsert(r, st, g, s).generation = g /\ upsert(r, st, g, s).session = s
  BY DEF upsert, NewRow, Rows
<1> QED BY <1>1 DEF set_pending_generation

\* Whoever asks for a session is alone in it, so once it moves on no answer about
\* the session awaits adoption.
LEMMA OnlyAsker ==
    ASSUME Shape, SessionInv, CallerInv, CallsStep,
           NEW t \in Tasks, task[t].pc \in Asking, task'[t] # task[t],
           NEW x \in rpcs', x.kind = "request", x.caller # None,
           task'[x.caller].on = task[t].on, x.session = task[t].session
    PROVE  Above(task[t].on, x.generation)
<1>0. task[t].on \in Devices
  BY DEF Shape, TaskShape, Asking
<1>1. CASE Starts(x)
  BY <1>0, <1>1 DEF Starts
<1>2. CASE Follows(x)
  <2>1. PICK y \in rpcs : Derived(x, y)
    BY <1>2 DEF Follows
  <2>2. y.kind = "request" /\ y.caller = x.caller /\ task'[y.caller] = task[y.caller] /\ y.session = x.session
    BY <1>2, <2>1 DEF Follows, Derived
  <2>3. y.caller \in Tasks /\ task[y.caller].pc = "request" /\ task[y.caller].session = y.session
    BY <2>2 DEF CallerInv, Shape, TypeOK, RpcRecords
  <2>4. y.caller = t
    BY <2>2, <2>3 DEF SessionInv, Asking
  <2> QED BY <2>2, <2>4
<1> QED BY <1>1, <1>2 DEF CallsStep

\* The answer is the one call of its caller.
LEMMA OwnCall ==
    ASSUME Shape, CallerInv, NEW t \in Tasks, NEW m \in rpcs, m.caller = t
    PROVE  /\ task[t].pc = m.kind /\ (m.kind = "request" => m.session = task[t].session)
           /\ \A x \in rpcs \ {m} : x.caller # t
<1>1. t # None
  BY PairingAssumption
<1> QED BY <1>1 DEF CallerInv

\* A task moves on without touching session and device.
LEMMA TaskGoes ==
    ASSUME Shape, NEW t \in Tasks, NEW r, task' = [task EXCEPT ![t] = r], r.pc \notin Asking,
           UNCHANGED <<eligible, receipts>>
    PROVE  AskKept
<1>1. \A d \in Devices : eligible'[d] \subseteq eligible[d]
  OBVIOUS
<1> QED BY <1>1, OneTask

LEMMA MintRevoked ==
    ASSUME Shape, CallerInv, NEW t \in Tasks, task[t].pc \in {"merge", "mint"}, task[t].on \in Devices,
           MintAndConsent(t), UNCHANGED <<tombstones, eligible, receipts>>
    PROVE  RevokedStep
<1> DEFINE d == task[t].on
           r == [task[t] EXCEPT !.pc = "consent"]
           z == Call("consent", t, Peer(d), None, task[t].generation, NewGrant(d), None)
<1>1. task' = [task EXCEPT ![t] = r] /\ r.pc = "consent"
  BY DEF MintAndConsent, Goto, Shape, TypeOK, TaskRecords
<1>2. rpcs' = rpcs \cup {z}
  BY DEF MintAndConsent
<1>3. task'[t] = r /\ \A u \in Tasks \ {t} : task'[u] = task[u]
  BY <1>1 DEF Shape, TypeOK
<1>4. z.kind = "consent" /\ z.caller = t /\ z.stage = "sent" /\ z.lead = None
  BY DEF Call
<1> HIDE DEF r, z
<1>5. Starts(z)
  BY <1>1, <1>3, <1>4 DEF Starts
<1>6. AskKept
  BY <1>1, TaskGoes DEF Asking
<1>7. \A m \in rpcs : m.caller # t /\ (m.caller # None => m.caller \in Tasks)
  BY Alone DEF Shape, TypeOK, RpcRecords
<1>8. CallsStep
  BY <1>2, <1>3, <1>4, <1>5, <1>7, CallStarts
<1>9. \A e \in Devices : RowCase(e) /\ TombsCase(e)
  <2>1. row' = [row EXCEPT ![d] = set_issued_grant(@, NewGrant(d))]
    BY DEF MintAndConsent
  <2> QED BY <2>1, SameRow
<1> QED BY <1>6, <1>8, <1>9 DEF RevokedStep

\* A pending row of the task's session takes the generation of the answer.
LEMMA AdoptRevoked ==
    ASSUME Shape, RevokedInv, CallsStep, NEW t \in Tasks, NEW m \in rpcs, m.caller = t,
           task[t].pc = "request", task[t].on \in Devices, task'[t] # task[t], m.answer # "saved",
           adopt_pending_generation(task[t].on, task[t].session, m.generation), UNCHANGED tombstones
    PROVE  \A e \in Devices : RowCase(e) /\ TombsCase(e)
<1> DEFINE d == task[t].on
           s == task[t].session
           r == set_pending_generation(row[d], s, m.generation)
<1>0. SessionInv /\ CallerInv /\ AnswerInv /\ t # None
  BY PairingAssumption DEF RevokedInv
<1>1. row' = [row EXCEPT ![d] = r] /\ row'[d] = r /\ row[d] \in Rows \cup {None}
  BY DEF adopt_pending_generation, Shape, TypeOK
<1>2. CASE ~PendingIn(row[d], s)
  <2>1. r = row[d]
    BY <1>1, <1>2, RowFields
  <2>2. row' = row
    <3> HIDE DEF r
    <3> QED BY <1>1, <2>1 DEF Shape, TypeOK
  <2> QED BY <2>2, StillRow
<1>3. CASE PendingIn(row[d], s)
  <2>1. row'[d].generation = m.generation /\ row'[d].session = s
    BY <1>1, <1>3, RowFields
  <2>2. m.kind = "request" /\ m.session = s
    BY <1>0, OwnCall
  <2>3. \A h \in tombstones[d] : h < m.generation \/ (Dying(d) /\ h = row[d].generation)
    BY <1>0, <1>3, <2>2 DEF AnswerInv, SaysSaved
  <2>4. row[d] # None
    BY <1>3 DEF PendingIn, IsPending
  <2>5. Written(d)
    BY <1>0, <2>1, <2>3, <2>4, OnlyAsker DEF Written, Asking
  <2> QED BY <1>1, <2>5, OneRow DEF RowCase
<1> QED BY <1>2, <1>3

\* Every step of a task but the one that starts to ask for a session.
LEMMA TaskRevoked ==
    ASSUME Shape, RevokedInv, NEW t \in Tasks, TaskStep(t) \/ GiveUp(t),
           ReserveRequest(t) => End(t, rpcs) /\ UNCHANGED eligible
    PROVE  RevokedStep
<1> DEFINE d == task[t].on
<1>0. /\ SessionInv /\ CallerInv /\ LockedInv /\ LiveInv /\ AnswerInv /\ t # None
      /\ task[t].pc # "idle" => d \in Devices
      /\ \A m \in rpcs : m.caller # None => m.caller \in Tasks
  BY PairingAssumption DEF RevokedInv, Shape, TaskShape, TypeOK, RpcRecords
<1>1. ASSUME NEW R \in SUBSET rpcs, End(t, R), \A x \in R : x.caller # t, UNCHANGED <<eligible, receipts>>
      PROVE  AskKept /\ CallsStep /\ task'[t] = Idle
  <2>1. \A e \in Devices : eligible'[e] \subseteq eligible[e]
    BY <1>1
  <2>2. task'[t] = Idle
    BY <1>1 DEF End, Shape, TypeOK
  <2> QED BY <1>0, <1>1, <2>1, <2>2, EndsPlain
<1>2. ASSUME NEW m \in rpcs, m.caller = t, End(t, rpcs \ {m}), UNCHANGED <<eligible, receipts>>
      PROVE  AskKept /\ CallsStep /\ task'[t] = Idle
  BY <1>0, <1>1, <1>2, OwnCall
<1>3. CASE ReserveRequest(t)
  <2>1. End(t, rpcs) /\ UNCHANGED <<row, tombstones, eligible, receipts>> /\ task[t].pc = "reserve"
    BY <1>3 DEF ReserveRequest
  <2>2. \A m \in rpcs : m.caller # t
    BY <1>0, <2>1, Alone
  <2> QED BY <1>1, <2>1, <2>2, StillRow DEF RevokedStep
<1>4. CASE UpsertRequest(t)
  <2> DEFINE s == task[t].session
             g == task[t].generation
             merging == IsIncoming(row[d]) /\ row[d].session = s
             r == [task[t] EXCEPT !.pc = IF merging THEN "merge" ELSE "request"]
             z == Call("request", t, Peer(d), s, g, None, None)
             w == upsert(row[d], "pending_outgoing", g, s)
  <2>1. /\ task[t].pc = "upsert" /\ row' = [row EXCEPT ![d] = w]
        /\ task' = [task EXCEPT ![t] = r]
        /\ rpcs' = IF merging THEN rpcs ELSE rpcs \cup {z}
        /\ UNCHANGED <<tombstones, eligible, receipts>>
    BY <1>4 DEF UpsertRequest, Goto
  <2>2. d \in Devices /\ Above(d, g)
    BY <1>0, <2>1 DEF LockedInv
  <2>3. /\ r.pc = IF merging THEN "merge" ELSE "request"
        /\ r.on = d /\ r.session = s
    BY DEF Shape, TypeOK, TaskRecords
  <2>4. z.kind = "request" /\ z.caller = t /\ z.stage = "sent" /\ z.lead = None /\ z.session = s /\ z.generation = g
    BY DEF Call
  <2>5. w.generation = g /\ w.session = s
    <3>1. row[d] \in Rows \cup {None}
      BY <2>2 DEF Shape, TypeOK
    <3> QED BY <3>1, RowFields
  <2> HIDE DEF r, z, w, merging
  <2>6. task'[t] = r /\ row'[d] = w /\ \A u \in Tasks \ {t} : task'[u] = task[u]
    BY <2>1, <2>2 DEF Shape, TypeOK
  <2>7. \A e \in Devices : eligible'[e] \subseteq eligible[e]
    BY <2>1
  <2>8. AskKept
    BY <2>1, <2>3, <2>7, OneTask DEF Asking
  <2>9. \A m \in rpcs : m.caller # t
    BY <1>0, <2>1, Alone
  <2>10. CallsStep
    <3>1. CASE merging
      BY <1>0, <2>1, <2>6, <2>9, <3>1, FewerCalls
    <3>2. CASE ~merging
      <4>1. Starts(z)
        BY <1>0, <2>1, <2>2, <2>3, <2>4, <2>6, <3>2 DEF Starts
      <4> QED BY <1>0, <2>1, <2>4, <2>6, <2>9, <3>2, <4>1, CallStarts
    <3> QED BY <3>1, <3>2
  <2>11. task'[t] # task[t]
    BY <2>1, <2>3, <2>6
  <2>12. Written(d)
    BY <1>0, <2>1, <2>2, <2>5, <2>6, <2>10, <2>11, OnlyAsker DEF Written, Asking, Above
  <2> QED BY <2>1, <2>2, <2>8, <2>10, <2>12, OneRow DEF RevokedStep, RowCase
<1>5. CASE RequestAnswered(t)
  <2>1. UNCHANGED <<tombstones, eligible, receipts>> /\ task[t].pc = "request" /\ d \in Devices
    BY <1>0, <1>5 DEF RequestAnswered
  <2>2. PICK m \in rpcs :
          /\ m.caller = t
          /\ \/ /\ m.answer # "saved" /\ adopt_pending_generation(d, task[t].session, m.generation)
                /\ \/ End(t, rpcs \ {m})
                   \/ /\ task' = [task EXCEPT ![t].pc = "merge", ![t].generation = m.generation]
                      /\ rpcs' = rpcs \ {m}
             \/ activate_saved(d) /\ End(t, rpcs \ {m})
             \/ UNCHANGED row /\ End(t, rpcs \ {m})
    BY <1>5 DEF RequestAnswered, Answered
  <2>3. CASE End(t, rpcs \ {m})
    <3>1. AskKept /\ CallsStep /\ task'[t] # task[t]
      BY <1>2, <2>1, <2>2, <2>3 DEF Idle
    <3>2. \A e \in Devices : RowCase(e) /\ TombsCase(e)
      BY <2>1, <2>2, <3>1, AdoptRevoked, SameRow, StillRow
    <3> QED BY <3>1, <3>2 DEF RevokedStep
  <2>4. CASE /\ m.answer # "saved" /\ adopt_pending_generation(d, task[t].session, m.generation)
             /\ task' = [task EXCEPT ![t].pc = "merge", ![t].generation = m.generation]
             /\ rpcs' = rpcs \ {m}
    <3> DEFINE r == [task[t] EXCEPT !.pc = "merge", !.generation = m.generation]
    <3>1. task' = [task EXCEPT ![t] = r] /\ r.pc = "merge"
      BY <2>4 DEF Shape, TypeOK, TaskRecords
    <3> HIDE DEF r
    <3>2. task'[t] # task[t] /\ \A u \in Tasks \ {t} : task'[u] = task[u]
      BY <2>1, <3>1 DEF Shape, TypeOK
    <3>3. AskKept
      BY <2>1, <3>1, TaskGoes DEF Asking
    <3>4. \A x \in rpcs \ {m} : x.caller # t
      BY <1>0, <2>2, OwnCall
    <3>5. CallsStep
      BY <1>0, <2>4, <3>2, <3>4, FewerCalls
    <3>6. \A e \in Devices : RowCase(e) /\ TombsCase(e)
      BY <2>1, <2>2, <2>4, <3>2, <3>5, AdoptRevoked
    <3> QED BY <3>3, <3>5, <3>6 DEF RevokedStep
  <2> QED BY <2>2, <2>3, <2>4
<1>6. CASE complete_simultaneous_merge(t) \/ MintGrant(t)
  <2>1. UNCHANGED <<tombstones, eligible, receipts>> /\ task[t].pc \in {"merge", "mint"} /\ d \in Devices
    BY <1>0, <1>6 DEF complete_simultaneous_merge, MintGrant
  <2>2. (End(t, rpcs) /\ UNCHANGED row) \/ MintAndConsent(t)
    BY <1>6 DEF complete_simultaneous_merge, MintGrant
  <2>3. CASE MintAndConsent(t)
    BY <1>0, <2>1, <2>3, MintRevoked
  <2>4. CASE End(t, rpcs) /\ UNCHANGED row
    <3>1. \A m \in rpcs : m.caller # t
      BY <1>0, <2>1, Alone
    <3> QED BY <1>1, <2>1, <2>4, <3>1, StillRow DEF RevokedStep
  <2> QED BY <2>2, <2>3, <2>4
<1>7. CASE ConsentAnswered(t)
  <2>1. UNCHANGED <<tombstones, eligible, receipts>> /\ task[t].pc = "consent" /\ d \in Devices
    BY <1>0, <1>7 DEF ConsentAnswered
  <2>2. PICK m \in rpcs :
          /\ m.caller = t /\ m.stage = "replied"
          /\ \/ /\ rpcs' = (rpcs \ {m}) \cup {[m EXCEPT !.stage = "verified"]}
                /\ UNCHANGED <<row, task>>
             \/ activate_saved(d) /\ End(t, rpcs \ {m})
             \/ UNCHANGED row /\ End(t, rpcs \ {m})
    BY <1>7 DEF ConsentAnswered, Answered
  <2>3. CASE /\ rpcs' = (rpcs \ {m}) \cup {[m EXCEPT !.stage = "verified"]}
             /\ UNCHANGED <<row, task>>
    <3>1. m.kind = "consent"
      BY <1>0, <2>1, <2>2, OwnCall
    <3>2. Derived([m EXCEPT !.stage = "verified"], m)
      BY <1>0, <2>2, <3>1, StageDerived
    <3>3. CallsStep
      BY <1>0, <2>3, <3>2, CallMoves
    <3>4. AskKept
      BY <2>1, <2>3, StillAsk
    <3> QED BY <2>1, <2>3, <3>3, <3>4, StillRow DEF RevokedStep
  <2>4. CASE End(t, rpcs \ {m}) /\ (activate_saved(d) \/ UNCHANGED row)
    <3>1. AskKept /\ CallsStep
      BY <1>2, <2>1, <2>2, <2>4
    <3>2. \A e \in Devices : RowCase(e) /\ TombsCase(e)
      BY <2>1, <2>4, SameRow, StillRow
    <3> QED BY <3>1, <3>2 DEF RevokedStep
  <2> QED BY <2>2, <2>3, <2>4
<1>8. CASE store_held_grant(t)
  <2>1. UNCHANGED <<tombstones, eligible, receipts>> /\ task[t].pc = "consent" /\ d \in Devices
    BY <1>0, <1>8 DEF store_held_grant
  <2>2. PICK m \in rpcs :
          /\ m.caller = t
          /\ row' = [row EXCEPT ![d] = set_held_grant(@, m.grant)]
          /\ \/ End(t, rpcs \ {m})
             \/ /\ Goto(t, "ack")
                /\ rpcs' = (rpcs \ {m}) \cup
                           {Call("ack", t, Peer(d), None, task[t].generation, None,
                                 prove_held_possession(m.grant))}
    BY <1>8 DEF store_held_grant
  <2>3. \A e \in Devices : RowCase(e) /\ TombsCase(e)
    BY <2>1, <2>2, SameRow
  <2>4. CASE End(t, rpcs \ {m})
    BY <1>2, <2>1, <2>2, <2>3, <2>4 DEF RevokedStep
  <2>5. CASE /\ Goto(t, "ack")
             /\ rpcs' = (rpcs \ {m}) \cup
                        {Call("ack", t, Peer(d), None, task[t].generation, None,
                              prove_held_possession(m.grant))}
    <3> DEFINE r == [task[t] EXCEPT !.pc = "ack"]
               z == Call("ack", t, Peer(d), None, task[t].generation, None,
                         prove_held_possession(m.grant))
    <3>1. task' = [task EXCEPT ![t] = r] /\ r.pc = "ack"
      BY <2>5 DEF Goto, Shape, TypeOK, TaskRecords
    <3>2. z.kind = "ack" /\ z.caller = t /\ z.stage = "sent" /\ z.lead = None
      BY DEF Call
    <3>3. rpcs' = (rpcs \ {m}) \cup {z}
      BY <2>5
    <3> HIDE DEF r, z
    <3>4. task'[t] = r /\ \A u \in Tasks \ {t} : task'[u] = task[u]
      BY <3>1 DEF Shape, TypeOK
    <3>5. Starts(z)
      BY <3>1, <3>2, <3>4 DEF Starts
    <3>6. \A x \in rpcs \ {m} : x.caller # t
      BY <1>0, <2>2, OwnCall
    <3>7. CallsStep
      BY <1>0, <3>2, <3>3, <3>4, <3>5, <3>6, CallStarts
    <3>8. AskKept
      BY <2>1, <3>1, TaskGoes DEF Asking
    <3> QED BY <2>3, <3>7, <3>8 DEF RevokedStep
  <2> QED BY <2>2, <2>4, <2>5
<1>9. CASE AckAnswered(t)
  <2>1. UNCHANGED <<tombstones, eligible, receipts>> /\ d \in Devices
    BY <1>0, <1>9 DEF AckAnswered
  <2>2. PICK m \in rpcs : m.caller = t /\ End(t, rpcs \ {m}) /\ (activate_saved(d) \/ UNCHANGED row)
    BY <1>9 DEF AckAnswered, Answered
  <2>3. \A e \in Devices : RowCase(e) /\ TombsCase(e)
    BY <2>1, <2>2, SameRow, StillRow
  <2> QED BY <1>2, <2>1, <2>2, <2>3 DEF RevokedStep
<1>10. CASE RevokeRow(t)
  <2>1. UNCHANGED <<row, receipts>> /\ task[t].pc = "forget" /\ ~Locked(d) /\ d \in Devices
    BY <1>0, <1>10 DEF RevokeRow
  <2>2. \A m \in rpcs : m.caller # t
    BY <1>0, <2>1, Alone
  <2>3. CASE row[d] = None
    <3>1. remove_for_peer(d) /\ End(t, rpcs) /\ UNCHANGED tombstones
      BY <1>10, <2>3 DEF RevokeRow
    <3>2. \A e \in Devices : eligible'[e] \subseteq eligible[e]
      BY <3>1 DEF remove_for_peer, Shape, TypeOK
    <3> QED BY <1>0, <2>1, <2>2, <3>1, <3>2, EndsPlain, StillRow DEF RevokedStep
  <2>4. CASE row[d] # None
    <3> DEFINE r == [task[t] EXCEPT !.pc = "delete", !.generation = row[d].generation]
    <3>1. task' = [task EXCEPT ![t] = r] /\ tombstone_generation(d) /\ UNCHANGED <<eligible, rpcs>>
      BY <1>10, <2>4 DEF RevokeRow, Shape, TypeOK, TaskRecords
    <3>2. r.pc = "delete" /\ r.on = d
      BY DEF Shape, TypeOK, TaskRecords
    <3> HIDE DEF r
    <3>3. task'[t] = r /\ \A u \in Tasks \ {t} : task'[u] = task[u]
      BY <3>1 DEF Shape, TypeOK
    <3>4. AskKept
      BY <2>1, <3>1, <3>2, TaskGoes DEF Asking
    <3>5. CallsStep
      BY <1>0, <2>2, <3>1, <3>3, FewerCalls
    <3>6. Dying(d)'
      BY <3>2, <3>3 DEF Dying
    <3>7. /\ tombstones'[d] = tombstones[d] \cup {row[d].generation}
          /\ \A e \in Devices \ {d} : tombstones'[e] = tombstones[e]
      BY <2>1, <3>1 DEF tombstone_generation, Shape, TypeOK
    <3>8. \A e \in Devices : RowCase(e) /\ TombsCase(e)
      <4>1. RowCase(d) /\ TombsCase(d)
        BY <2>1, <3>6, <3>7 DEF RowCase, Marked, TombsCase
      <4>2. ASSUME NEW e \in Devices \ {d} PROVE RowCase(e) /\ TombsCase(e)
        BY <2>1, <3>7, <4>2 DEF RowCase, Same, TombsCase
      <4> QED BY <4>1, <4>2
    <3> QED BY <3>4, <3>5, <3>8 DEF RevokedStep
  <2> QED BY <2>3, <2>4
<1>11. CASE DeleteRow(t)
  <2> DEFINE z == Call("revoke", None, Peer(d), None, task[t].generation, None, None)
  <2>1. /\ UNCHANGED <<tombstones, receipts>> /\ task[t].pc = "delete" /\ d \in Devices
        /\ row' = [row EXCEPT ![d] = None] /\ task' = [task EXCEPT ![t] = Idle]
        /\ rpcs' = rpcs \cup {z}
    BY <1>0, <1>11 DEF DeleteRow
  <2>2. Starts(z) /\ z.caller = None
    BY DEF Starts, Call
  <2> HIDE DEF z
  <2>3. \A e \in Devices : eligible'[e] \subseteq eligible[e]
    BY <1>11 DEF DeleteRow, remove_for_peer, Shape, TypeOK
  <2>4. AskKept
    BY <2>1, <2>3, OneTask DEF Idle, Asking
  <2>5. \A u \in Tasks \ {t} : task'[u] = task[u]
    BY <2>1 DEF Shape, TypeOK
  <2>6. \A m \in rpcs : m.caller # t
    BY <1>0, <2>1, Alone
  <2>7. CallsStep
    BY <1>0, <2>1, <2>2, <2>5, <2>6, CallStarts
  <2> QED BY <2>1, <2>4, <2>7, SameRow DEF RevokedStep
<1>12. CASE Disconnected(t)
  BY <1>1, <1>12, StillRow DEF Disconnected, store, RevokedStep
<1>13. CASE GiveUp(t)
  <2>1. UNCHANGED <<row, tombstones, eligible, receipts>>
    BY <1>13 DEF GiveUp, store
  <2>2. PICK m \in rpcs : /\ m.caller = t
                          /\ \/ End(t, rpcs \ {m})
                             \/ End(t, (rpcs \ {m}) \cup {[m EXCEPT !.caller = None]})
    BY <1>13 DEF GiveUp
  <2>3. CASE End(t, rpcs \ {m})
    BY <1>2, <2>1, <2>2, <2>3, StillRow DEF RevokedStep
  <2>4. CASE End(t, (rpcs \ {m}) \cup {[m EXCEPT !.caller = None]})
    <3> DEFINE x == [m EXCEPT !.caller = None]
               R == (rpcs \ {m}) \cup {x}
    <3>1. Derived(x, m) /\ x.caller = None /\ x \in RpcRecords
      <4>1. m \in RpcRecords
        BY DEF Shape, TypeOK
      <4> QED BY <1>0, <4>1, OrphanDerived DEF RpcRecords
    <3> HIDE DEF x
    <3>2. R \in SUBSET RpcRecords
      BY <3>1 DEF Shape, TypeOK
    <3>3. Unique(R)
      BY <1>0, <3>1 DEF Unique, CallerInv
    <3>4. \A y \in R : y.caller # t /\ \E n \in rpcs : Derived(y, n)
      BY <1>0, <2>2, <3>1, OwnCall, OldDerived
    <3>5. \A e \in Devices : eligible'[e] \subseteq eligible[e]
      BY <2>1
    <3>6. End(t, R)
      BY <2>4 DEF x
    <3> HIDE DEF R
    <3>7. AskKept /\ CallsStep
      BY <1>0, <2>1, <3>2, <3>3, <3>4, <3>5, <3>6, EndStep
    <3> QED BY <2>1, <3>7, StillRow DEF RevokedStep
  <2> QED BY <2>2, <2>3, <2>4
<1> QED
  BY <1>3, <1>4, <1>5, <1>6, <1>7, <1>8, <1>9, <1>10, <1>11, <1>12, <1>13 DEF TaskStep

\* A request reserves a session that nobody asks for, above the tombstones.
LEMMA ReserveRevoked ==
    ASSUME Shape, RevokedInv, NEW t \in Tasks, ReserveRequest(t), ~(End(t, rpcs) /\ UNCHANGED eligible),
           RevocationsComplete
    PROVE  RevokedInv' /\ StaysRevoked
<1> DEFINE d == task[t].on
           g == next_generation(row[d], tombstones[d])
<1>0. /\ SessionInv /\ CallerInv /\ LockedInv /\ LiveInv /\ AnswerInv
      /\ \A m \in rpcs : m.caller # None => m.caller \in Tasks
  BY DEF RevokedInv, Shape, TypeOK, RpcRecords
<1>1. PICK s \in eligible[d] :
        /\ consume_session(d, s) /\ UNCHANGED <<row, tombstones, rpcs, receipts>>
        /\ task' = [task EXCEPT ![t].pc = "upsert", ![t].session = s, ![t].generation = g]
  BY DEF ReserveRequest
<1>2. task[t].pc = "reserve" /\ d \in Devices /\ ~Locked(d) /\ s \in Sessions
  BY DEF ReserveRequest, Shape, TaskShape, TypeOK
<1>3. /\ task'[t].pc = "upsert" /\ task'[t].on = d /\ task'[t].session = s /\ task'[t].generation = g
      /\ \A u \in Tasks \ {t} : task'[u] = task[u]
  BY <1>1 DEF Shape, TypeOK, TaskRecords
<1>4. eligible'[d] = eligible[d] \ {s} /\ \A e \in Devices \ {d} : eligible'[e] = eligible[e]
  BY <1>1, <1>2 DEF consume_session, Shape, TypeOK
<1>5. Above(d, g)
  <2>1. row[d] \in Rows \cup {None} /\ tombstones[d] \in SUBSET Generations
    BY <1>2 DEF Shape, TypeOK
  <2> QED BY <2>1, NextGeneration DEF Above
<1> HIDE DEF g
<1>6. SessionInv'
  <2>1. \A e \in Devices, r \in Sessions : r \in eligible'[e] => receipts'[e][r] > 0
    BY <1>0, <1>1, <1>4 DEF SessionInv
  <2>2. ASSUME NEW u \in Tasks, task'[u].pc \in Asking
        PROVE  /\ task'[u].session \in Sessions
               /\ task'[u].session \notin eligible'[task'[u].on]
               /\ receipts'[task'[u].on][task'[u].session] > 0
    <3>1. CASE u = t
      BY <1>0, <1>1, <1>2, <1>3, <1>4, <3>1 DEF SessionInv
    <3>2. CASE u # t
      <4>1. task'[u] = task[u] /\ task[u].on \in Devices
        BY <1>3, <2>2, <3>2 DEF Shape, TaskShape, Asking
      <4> QED BY <1>0, <1>1, <1>4, <2>2, <4>1 DEF SessionInv
    <3> QED BY <3>1, <3>2
  <2>3. ASSUME NEW u \in Tasks, NEW v \in Tasks, task'[u].pc \in Asking, task'[v].pc \in Asking,
               task'[u].on = task'[v].on, task'[u].session = task'[v].session
        PROVE  u = v
    <3>1. ASSUME NEW w \in Tasks \ {t}, task'[w].pc \in Asking, task'[w].on = d PROVE task'[w].session # s
      BY <1>0, <1>1, <1>3, <3>1 DEF SessionInv
    <3>2. CASE u = t \/ v = t
      BY <1>3, <2>3, <3>1, <3>2
    <3>3. CASE u # t /\ v # t
      BY <1>0, <1>3, <2>3, <3>3 DEF SessionInv
    <3> QED BY <3>2, <3>3
  <2> QED BY <2>1, <2>2, <2>3 DEF SessionInv
<1>7. CallsStep
  <2>1. \A m \in rpcs : m.caller # t
    BY <1>0, <1>2, Alone
  <2> QED BY <1>0, <1>1, <1>3, <2>1, FewerCalls
<1>8. \A e \in Devices : RowCase(e) /\ TombsCase(e)
  BY <1>1, StillRow
<1>9. LockedInv'
  <2>1. \A u \in Tasks : task'[u].pc = "upsert" => Above(task[u].on, task[u].generation)'
    BY <1>0, <1>1, <1>3, <1>5 DEF LockedInv, Above
  <2>2. ASSUME NEW m \in rpcs, m.kind = "request", m.stage = "serving"
        PROVE  /\ Above(m.to, m.generation)'
               /\ \A u \in Tasks : task'[u].pc \in Asking /\ task'[u].on = m.to => task'[u].session # m.session
    <3>1. m.to # d
      BY <1>2, <2>2 DEF Locked
    <3>2. Above(m.to, m.generation)'
      BY <1>0, <1>1, <2>2 DEF LockedInv, Above
    <3>3. ASSUME NEW u \in Tasks, task'[u].pc \in Asking, task'[u].on = m.to
          PROVE  task'[u].session # m.session
      <4>1. task'[u] = task[u]
        BY <1>3, <3>1, <3>3
      <4> QED BY <1>0, <2>2, <3>3, <4>1 DEF LockedInv
    <3> QED BY <3>2, <3>3
  <2> QED BY <1>1, <2>1, <2>2 DEF LockedInv
<1>10. Shape'
  <2>1. [Next]_vars
    BY DEF Next, TaskStep
  <2> QED BY <2>1, StepKeeps
<1> QED BY <1>0, <1>6, <1>7, <1>8, <1>9, <1>10, CallerKept, LiveKept, AnswerKept DEF RevokedInv

LEMMA MaxOfTwo ==
    ASSUME NEW a \in Int, NEW b \in Int
    PROVE  Max2(a, b) \in Int /\ a <= Max2(a, b) /\ b <= Max2(a, b)
  BY DEF Max2

LEMMA HandlerRevoked ==
    ASSUME Shape, RevokedInv, NEW m \in rpcs, Handle(m)
    PROVE  RevokedStep
<1> DEFINE d == m.to
<1>0. /\ SessionInv /\ CallerInv /\ LockedInv /\ LiveInv /\ AnswerInv
      /\ d \in Devices /\ row[d] \in Rows \cup {None} /\ tombstones[d] \in SUBSET Generations
      /\ m.generation \in Int /\ \A h \in tombstones[d] : h \in Int
      /\ row[d] # None => row[d].generation \in Int
  BY StoreBounds DEF RevokedInv, Shape, TypeOK, RpcRecords, Rows, Generations
<1>1. ASSUME UNCHANGED task, m.stage \notin Read, m.stage # "merging",
             \/ \E answer, g, grant, proof :
                   /\ rpcs' = Reply(rpcs, m, answer, g, grant, proof)
                   /\ m.kind = "request" => answer = "saved" \/ m.generation <= g
             \/ \E stage \in {"admitted", "serving", "verified"} :
                   /\ rpcs' = (rpcs \ {m}) \cup {[m EXCEPT !.stage = stage]}
                   /\ m.kind = "request" => stage = "admitted"
             \/ rpcs' = rpcs \ {m}
      PROVE  CallsStep
  <2>1. ASSUME NEW answer, NEW g, NEW grant, NEW proof,
               rpcs' = Reply(rpcs, m, answer, g, grant, proof),
               m.kind = "request" => answer = "saved" \/ m.generation <= g
        PROVE  CallsStep
    BY <1>0, <1>1, <2>1, Answers1
  <2>2. ASSUME NEW stage \in {"admitted", "serving", "verified"},
               rpcs' = (rpcs \ {m}) \cup {[m EXCEPT !.stage = stage]},
               m.kind = "request" => stage = "admitted"
        PROVE  CallsStep
    <3>1. Derived([m EXCEPT !.stage = stage], m)
      BY <1>0, <1>1, <2>2, StageDerived
    <3> QED BY <1>0, <1>1, <2>2, <3>1, CallMoves
  <2>3. CASE rpcs' = rpcs \ {m}
    BY <1>0, <1>1, <2>3, FewerCalls
  <2> QED BY <1>1, <2>1, <2>2, <2>3
<1>2. ASSUME UNCHANGED <<row, tombstones, eligible, receipts, task>>, CallsStep PROVE RevokedStep
  BY <1>2, StillRow, StillAsk DEF RevokedStep
<1>3. CASE AdmitRequest(m)
  <2>1. UNCHANGED <<row, tombstones, eligible, receipts, task>> /\ m.stage = "sent"
    BY <1>3 DEF AdmitRequest, store
  <2>2. \/ rpcs' = Reply(rpcs, m, "rejected", m.generation, None, None)
        \/ rpcs' = (rpcs \ {m}) \cup {[m EXCEPT !.stage = "admitted"]}
    BY <1>3 DEF AdmitRequest, Reject
  <2>3. m.generation <= m.generation /\ m.stage \notin Read
    BY <1>0, <2>1 DEF Read
  <2>4. CallsStep
    BY <1>1, <2>1, <2>2, <2>3
  <2> QED BY <1>2, <2>1, <2>4
<1>4. CASE ServeRequest(m)
  <2>1. /\ UNCHANGED <<tombstones, eligible, receipts>> /\ ~Locked(d)
        /\ m.kind = "request" /\ m.stage = "admitted" /\ m.stage \notin Read
    BY <1>4 DEF ServeRequest, Read
  <2>2. CASE JoinPending(m)
    <3> DEFINE g == Max2(row[d].generation, m.generation)
               r == set_pending_generation(row[d], m.session, g)
    <3>1. PendingIn(row[d], m.session) /\ row' = [row EXCEPT ![d] = r]
      BY <2>2 DEF JoinPending
    <3>2. row[d] # None /\ r.generation = g /\ r.session = m.session
      BY <1>0, <3>1, RowFields DEF PendingIn, IsPending
    <3>3. row[d].generation <= g /\ m.generation <= g /\ g \in Int
      BY <1>0, <3>2, MaxOfTwo
    <3>4. ~Dying(d)
      BY <2>1 DEF Dying, Locked
    <3>5. \/ \E t \in Tasks :
                /\ Begin(t, d, "merge", m.session, g)
                /\ rpcs' = (rpcs \ {m}) \cup
                           {[m EXCEPT !.stage = "merging", !.generation = g, !.lead = t]}
          \/ \E answer : rpcs' = Reply(rpcs, m, answer, g, None, None) /\ UNCHANGED task
      BY <2>2 DEF JoinPending
    <3> HIDE DEF r
    <3>6. row'[d] = r
      BY <1>0, <3>1 DEF Shape, TypeOK
    <3>7. Above(d, g)
      BY <1>0, <3>2, <3>3, <3>4 DEF LiveInv, Above
    <3>8. Raised(d)
      BY <2>1, <3>1, <3>2, <3>4, <3>6, <3>7 DEF Raised, Above
    <3>9. \A e \in Devices : RowCase(e) /\ TombsCase(e)
      BY <1>0, <2>1, <3>1, <3>8, OneRow DEF RowCase
    <3>10. ASSUME NEW t \in Tasks, Begin(t, d, "merge", m.session, g),
                  rpcs' = (rpcs \ {m}) \cup
                          {[m EXCEPT !.stage = "merging", !.generation = g, !.lead = t]}
           PROVE  AskKept /\ CallsStep
      <4> DEFINE x == [m EXCEPT !.stage = "merging", !.generation = g, !.lead = t]
                 q == [pc |-> "merge", on |-> d, session |-> m.session, generation |-> g]
      <4>1. m \in RpcRecords
        BY DEF Shape, TypeOK
      <4>2. /\ x.kind = m.kind /\ x.session = m.session /\ x.to = m.to /\ x.caller = m.caller
            /\ x.stage = "merging" /\ x.generation = g
        BY <4>1 DEF RpcRecords
      <4>3. task' = [task EXCEPT ![t] = q] /\ q.pc \notin Asking /\ task[t].pc = "idle"
        BY <3>10 DEF Begin, Asking, Idle
      <4>4. rpcs' = (rpcs \ {m}) \cup {x}
        BY <3>10
      <4> HIDE DEF x, q
      <4>5. Derived(x, m)
        BY <2>1, <3>3, <4>2 DEF Derived, SaysSaved
      <4>6. \A y \in rpcs : y.caller # t /\ (y.caller # None => y.caller \in Tasks)
        BY <1>0, <4>3, Alone DEF Shape, TypeOK, RpcRecords
      <4>7. \A u \in Tasks \ {t} : task'[u] = task[u]
        BY <4>3 DEF Shape, TypeOK
      <4>8. CallsStep
        BY <1>0, <4>2, <4>4, <4>5, <4>6, <4>7, CallMoves
      <4> QED BY <2>1, <4>3, <4>8, TaskGoes
    <3>11. ASSUME NEW answer, rpcs' = Reply(rpcs, m, answer, g, None, None), UNCHANGED task
           PROVE  AskKept /\ CallsStep
      <4> HIDE DEF g
      <4>1. AskKept
        BY <2>1, <3>11, StillAsk
      <4> QED BY <1>0, <2>1, <3>3, <3>11, <4>1, Answers1
    <3> QED BY <3>5, <3>9, <3>10, <3>11 DEF RevokedStep
  <2>3. CASE rpcs' = Reply(rpcs, m, "saved", 0, None, None) /\ UNCHANGED <<row, task>>
    <3>1. CallsStep
      BY <1>0, <2>1, <2>3, Answers1
    <3> QED BY <1>2, <2>1, <2>3, <3>1
  <2>4. CASE rpcs' = Reject(m) /\ UNCHANGED <<row, task>>
    <3>1. m.generation <= m.generation
      BY <1>0
    <3>2. CallsStep
      BY <1>0, <2>1, <2>4, <3>1, Answers1 DEF Reject
    <3> QED BY <1>2, <2>1, <2>4, <3>2
  <2>5. CASE /\ validate_presented_capability(d, m.session) /\ UNCHANGED <<row, task>>
             /\ rpcs' = (rpcs \ {m}) \cup
                  {[m EXCEPT !.stage = "serving",
                             !.generation = Max2(m.generation, next_generation(row[d], tombstones[d]))]}
    <3> DEFINE n == next_generation(row[d], tombstones[d])
               g == Max2(m.generation, n)
               x == [m EXCEPT !.stage = "serving", !.generation = g]
    <3>1. m \in RpcRecords
      BY DEF Shape, TypeOK
    <3>2. /\ x.kind = m.kind /\ x.session = m.session /\ x.to = m.to /\ x.caller = m.caller
          /\ x.stage = "serving" /\ x.generation = g /\ x.lead = m.lead
      BY <3>1 DEF RpcRecords
    <3>3. n \in Int /\ \A h \in tombstones[d] : h < n
      BY <1>0, NextGeneration
    <3> HIDE DEF n
    <3>4. m.generation <= g /\ n <= g /\ g \in Int
      BY <1>0, <3>3, MaxOfTwo
    <3>5. rpcs' = (rpcs \ {m}) \cup {x}
      BY <2>5 DEF n
    <3> HIDE DEF g, x
    <3>6. Above(d, g)
      BY <1>0, <3>3, <3>4 DEF Above
    <3>7. Served(x)
      BY <2>1, <2>5, <3>2, <3>6 DEF Served, validate_presented_capability
    <3>8. m.lead = None
      BY <1>0, <2>1 DEF CallerInv
    <3>9. Derived(x, m)
      BY <2>1, <3>2, <3>4, <3>7, <3>8 DEF Derived, SaysSaved
    <3>10. CallsStep
      BY <1>0, <2>5, <3>5, <3>9, CallMoves
    <3> QED BY <1>2, <2>1, <2>5, <3>10
  <2> QED BY <1>4, <2>2, <2>3, <2>4, <2>5 DEF ServeRequest
<1>5. CASE UpsertIncoming(m)
  <2> DEFINE r == upsert(row[d], "pending_incoming", m.generation, m.session)
  <2>1. /\ UNCHANGED <<tombstones, eligible, receipts, task>> /\ row' = [row EXCEPT ![d] = r]
        /\ m.kind = "request" /\ m.stage = "serving" /\ m.stage \notin Read
        /\ rpcs' = Reply(rpcs, m, "awaiting", m.generation, None, None)
    BY <1>5 DEF UpsertIncoming, Read
  <2>2. r.generation = m.generation /\ r.session = m.session
    BY <1>0, RowFields
  <2> HIDE DEF r
  <2>3. row'[d] = r
    BY <1>0, <2>1 DEF Shape, TypeOK
  <2>4. m.generation <= m.generation
    BY <1>0
  <2>5. CallsStep
    BY <1>0, <2>1, <2>4, Answers1
  <2>6. AskKept
    BY <2>1, StillAsk
  <2>7. ASSUME NEW x \in rpcs', x.kind = "request", x.caller # None, task'[x.caller].on = d,
               x.session = m.session
        PROVE  Above(d, x.generation)
    <3>1. CASE Starts(x)
      BY <1>0, <2>7, <3>1 DEF Starts
    <3>2. CASE Follows(x)
      <4>1. PICK y \in rpcs : Derived(x, y)
        BY <3>2 DEF Follows
      <4>2. y.kind = "request" /\ y.caller = x.caller /\ task[y.caller].on = d /\ y.session = m.session
        BY <2>1, <2>7, <4>1 DEF Derived
      <4>3. y.caller \in Tasks /\ task[y.caller].pc = "request" /\ task[y.caller].session = y.session
        BY <1>0, <2>7, <4>2 DEF CallerInv, Shape, TypeOK, RpcRecords
      <4> QED BY <1>0, <2>1, <4>2, <4>3 DEF LockedInv, Asking
    <3> QED BY <2>5, <3>1, <3>2 DEF CallsStep
  <2>8. Written(d)
    BY <1>0, <2>1, <2>2, <2>3, <2>7 DEF Written, LockedInv, Above
  <2>9. \A e \in Devices : RowCase(e) /\ TombsCase(e)
    BY <1>0, <2>1, <2>8, OneRow DEF RowCase
  <2> QED BY <2>5, <2>6, <2>9 DEF RevokedStep
<1>6. CASE CheckConsent(m) \/ CheckAck(m)
  <2>1. /\ UNCHANGED <<tombstones, eligible, receipts, task>>
        /\ m.kind # "request" /\ m.stage = "sent" /\ m.stage \notin Read
    BY <1>6 DEF CheckConsent, CheckAck, store, Read
  <2>2. \/ \E answer, g : rpcs' = Reply(rpcs, m, answer, g, None, None)
        \/ rpcs' = (rpcs \ {m}) \cup {[m EXCEPT !.stage = "serving"]}
    BY <1>6 DEF CheckConsent, CheckAck, Reject
  <2>3. row' = row \/ row' = [row EXCEPT ![d] = None]
    BY <1>6 DEF CheckConsent, CheckAck, store
  <2>4. CallsStep
    BY <1>1, <2>1, <2>2
  <2>5. \A e \in Devices : RowCase(e) /\ TombsCase(e)
    BY <1>0, <2>1, <2>3, SameRow, StillRow
  <2> QED BY <2>1, <2>4, <2>5, StillAsk DEF RevokedStep
<1>7. CASE StoreConsent(m) \/ ApplyAck(m)
  <2>1. /\ UNCHANGED <<tombstones, eligible, receipts, task>>
        /\ m.kind # "request" /\ m.stage = "serving" /\ m.stage \notin Read
    BY <1>7 DEF StoreConsent, ApplyAck, Read
  <2>2. \E answer, g, grant, proof : rpcs' = Reply(rpcs, m, answer, g, grant, proof)
    BY <1>7 DEF StoreConsent, ApplyAck, Reject
  <2>3. \/ \E k, l : row' = [row EXCEPT ![d] = set_issued_grant(set_held_grant(@, k), l)]
        \/ activate_saved(d)
    BY <1>7 DEF StoreConsent, ApplyAck
  <2>4. CallsStep
    BY <1>1, <2>1, <2>2
  <2>5. \A e \in Devices : RowCase(e) /\ TombsCase(e)
    BY <1>0, <2>1, <2>3, SameRow
  <2> QED BY <2>1, <2>4, <2>5, StillAsk DEF RevokedStep
<1>8. CASE handle_remote_revoke(m)
  <2>1. UNCHANGED <<receipts, task>> /\ rpcs' = rpcs \ {m} /\ ~Locked(d)
    BY <1>8 DEF handle_remote_revoke
  <2>2. \/ UNCHANGED <<row, tombstones, eligible>>
        \/ tombstone_generation(d) /\ row' = [row EXCEPT ![d] = None] /\ remove_for_peer(d)
    BY <1>8 DEF handle_remote_revoke
  <2>3. CallsStep
    BY <1>0, <2>1, FewerCalls
  <2>4. AskKept
    <3>1. \A e \in Devices : eligible'[e] \subseteq eligible[e]
      BY <2>2 DEF remove_for_peer, Shape, TypeOK
    <3> QED BY <2>1, <3>1, StillAsk
  <2>5. \A e \in Devices : RowCase(e) /\ TombsCase(e)
    <3>1. CASE UNCHANGED <<row, tombstones, eligible>>
      BY <3>1, StillRow
    <3>2. CASE tombstone_generation(d) /\ row' = [row EXCEPT ![d] = None]
      <4>1. row'[d] = None
        BY <1>0, <3>2 DEF Shape, TypeOK
      <4>2. \A e \in Devices \ {d} : row'[e] = row[e] /\ tombstones'[e] = tombstones[e]
        BY <3>2 DEF tombstone_generation, Shape, TypeOK
      <4>3. RowCase(d) /\ TombsCase(d)
        BY <2>1, <4>1 DEF RowCase, TombsCase
      <4>4. ASSUME NEW e \in Devices \ {d} PROVE RowCase(e) /\ TombsCase(e)
        BY <4>2, <4>4 DEF RowCase, TombsCase, Same
      <4> QED BY <4>3, <4>4
    <3> QED BY <2>2, <3>1, <3>2
  <2> QED BY <2>3, <2>4, <2>5 DEF RevokedStep
<1> QED
  BY <1>3, <1>4, <1>5, <1>6, <1>7, <1>8 DEF Handle

LEMMA NextRevoked ==
    ASSUME MaxReceipts <= 1, Shape, RevokedInv, [Next]_vars, [RevocationsComplete]_vars
    PROVE  RevokedInv' /\ [StaysRevoked]_vars
<1>0. Shape'
  BY StepKeeps
<1>1. CASE UNCHANGED vars
  BY <1>1 DEF vars, RevokedInv, SessionInv, CallerInv, LockedInv, LiveInv, AnswerInv, Above, Dying, SaysSaved
<1>2. ASSUME Next, RevocationsComplete PROVE RevokedInv' /\ StaysRevoked
  <2>1. ASSUME RevokedStep PROVE RevokedInv' /\ StaysRevoked
    BY <1>0, <1>2, <2>1, RevokedKept
  <2>2. ASSUME NEW t \in Tasks, TaskStep(t) \/ GiveUp(t) PROVE RevokedInv' /\ StaysRevoked
    <3>1. CASE ReserveRequest(t) /\ ~(End(t, rpcs) /\ UNCHANGED eligible)
      BY <1>2, <3>1, ReserveRevoked
    <3>2. CASE ReserveRequest(t) => End(t, rpcs) /\ UNCHANGED eligible
      BY <2>1, <2>2, <3>2, TaskRevoked
    <3> QED BY <3>1, <3>2
  <2> QED BY <1>2, <2>1, <2>2, ActivationRevoked, UserRevoked, ClockRevoked, HandlerRevoked DEF Next
<1> QED BY <1>1, <1>2

\* No step brings a row to a generation the device has revoked, in every
\* behaviour in which the sharer sees the receipt of a session at most once and
\* no restart comes between a revocation's tombstone and the removal of its row.
\* Rows, requests under way and answers to come are all above the tombstones:
\* next_generation chose them so under the peer lock, a tombstone is only written
\* while nobody holds the lock, and adopt_pending_generation finds the row of its
\* session or nothing.
THEOREM RevokedIsFinal ==
    ASSUME MaxReceipts <= 1
    PROVE  Spec /\ [][RevocationsComplete]_vars => RevokedStaysRevoked
<1>1. Init => RevokedInv
  BY DEF Init, RevokedInv, SessionInv, CallerInv, LockedInv, LiveInv, AnswerInv, Asking, Idle
<1>2. Shape /\ RevokedInv /\ [Next]_vars /\ [RevocationsComplete]_vars => RevokedInv' /\ [StaysRevoked]_vars
  BY NextRevoked
<1>3. Shape /\ [Next]_vars => Shape'
  BY StepKeeps
<1> QED BY <1>1, <1>2, <1>3, InitHolds, PTL DEF Spec, RevokedStaysRevoked, StaysRevoked

\* Only the removal itself or a restart ends a revocation.
LEMMA CompleteWithoutCrash ==
    ASSUME MaxCrashes = 0, Shape, [Next]_vars
    PROVE  [RevocationsComplete]_vars
<1> SUFFICES ASSUME Next, NEW t \in Tasks, task[t].pc = "delete", task'[t] # task[t]
             PROVE  row'[task[t].on] = None
  BY DEF RevocationsComplete
<1>0. task[t] # Idle
  BY DEF Idle
<1>1. ASSUME NEW u \in Tasks, TaskStep(u) \/ GiveUp(u) PROVE row'[task[t].on] = None
  <2>1. task[t].on \in Devices
    BY DEF Shape, TaskShape
  <2>2. CASE u = t
    <3>1. DeleteRow(t)
      BY <1>1, <2>2 DEF TaskStep, ReserveRequest, UpsertRequest, RequestAnswered, complete_simultaneous_merge,
         MintGrant, ConsentAnswered, store_held_grant, AckAnswered, RevokeRow, Disconnected, GiveUp
    <3> QED BY <2>1, <3>1 DEF DeleteRow, Shape, TypeOK
  <2>3. CASE u # t
    <3>1. task' = task \/ \E r : task' = [task EXCEPT ![u] = r]
      BY <1>1 DEF TaskStep, ReserveRequest, UpsertRequest, RequestAnswered, complete_simultaneous_merge,
         MintGrant, MintAndConsent, ConsentAnswered, store_held_grant, AckAnswered, RevokeRow, DeleteRow,
         Disconnected, GiveUp, End, Goto
    <3> QED BY <2>3, <3>1 DEF Shape, TypeOK
  <2> QED BY <2>2, <2>3
<1>2. ASSUME NEW u \in Tasks, NEW d, NEW pc, NEW s, NEW g, Begin(u, d, pc, s, g) PROVE FALSE
  BY <1>0, <1>2 DEF Begin, Shape, TypeOK
<1>3. ASSUME NEW d \in Devices, UserStep(d) PROVE FALSE
  <2>1. task' = task \/ \E u \in Tasks : \E pc, s, g : Begin(u, d, pc, s, g)
    BY <1>3 DEF UserStep, request_pairing, Accept, ForgetDevice, BlockDevice, Decline, DeclineEligibility,
       UnblockDevice, rotate_relationship_grant
  <2> QED BY <1>2, <2>1
<1>4. ASSUME NEW d \in Devices, ExpirePending(d) \/ Restart(d) PROVE FALSE
  BY <1>4 DEF ExpirePending, Restart, Shape, TypeOK
<1>5. ASSUME NEW d \in Devices, NEW s \in Sessions, activate_after_completed_transfer(d, s) \/ expire_due(d, s)
      PROVE  FALSE
  BY <1>5 DEF activate_after_completed_transfer, expire_due
<1>6. ASSUME NEW m \in rpcs, Handle(m) PROVE FALSE
  <2>1. task' = task \/ \E u \in Tasks : \E d, pc, s, g : Begin(u, d, pc, s, g)
    BY <1>6 DEF Handle, AdmitRequest, ServeRequest, JoinPending, UpsertIncoming, CheckConsent, StoreConsent,
       CheckAck, ApplyAck, handle_remote_revoke
  <2> QED BY <1>2, <2>1
<1> QED BY <1>1, <1>3, <1>4, <1>5, <1>6 DEF Next

\* So a revocation is final as long as the processes do not restart.
THEOREM RevokedIsFinalUncrashed ==
    ASSUME MaxReceipts <= 1, MaxCrashes = 0
    PROVE  Spec => RevokedStaysRevoked
<1>1. Shape /\ [Next]_vars => Shape' /\ [RevocationsComplete]_vars
  BY StepKeeps, CompleteWithoutCrash
<1> QED BY <1>1, InitHolds, RevokedIsFinal, PTL DEF Spec

-------------------------------------------------------------------------------
(* Two users who only agree, and the one session their devices share.      *)

\* The users have asked for relationships and accepted them, and nothing else.
Agreeing == \A c \in commands : c[2] \in {"request", "accept"}

\* The session was completed on d, and has been spent there.
Known(d) == \A s \in Sessions : receipts[d][s] > 0
Spent(d) == Known(d) /\ eligible[d] = {}

\* No relationship will ever come about on d again.
Dead(d) == Spent(d) /\ row[d] = None /\ ~Locked(d)

\* A user has agreed twice, or a device has had its relationship.
Lost == \E d \in Devices : consent[d] > 1 \/ Dead(d)

\* Whoever agrees spends the session, and every row is about it.
SpentInv ==
    /\ \A d \in Devices : consent[d] > 0 => row[d] # None /\ Spent(d)
    /\ \A d \in Devices : row[d] # None => Known(d)
    /\ \A m \in rpcs : m.kind = "request" /\ m.stage = "serving" => Known(m.to)

\* Nothing is declined or revoked.
AgreedInv ==
    /\ Undisturbed
    /\ \A d \in Devices : tombstones[d] = {}
    /\ RevokedInv
    /\ SpentInv

\* A consent on its way to be stored, what a call answers, and a request that
\* becomes a merge.
Handing(m) == m.kind = "consent" /\ m.stage \in {"sent", "serving"}
Says(m, answer) == m.stage \in Read /\ m.answer = answer
Wedding(m) == m.stage = "merging" \/ Says(m, "merged")

\* Whom a call is for and whose grant it carries.
Formed(m) ==
    /\ m.caller # None => m.to = Peer(task[m.caller].on)
    /\ m.stage = "verified" => m.answer = "completed"
    /\ Handing(m) /\ m.grant # None => m.grant.issuer = Peer(m.to)
    /\ Says(m, "completed") => m.grant # None /\ m.grant.issuer = m.to

FormedInv ==
    /\ \A m \in rpcs : Formed(m)
    /\ \A d \in Devices : row[d] # None /\ row[d].held # None => row[d].held.issuer = Peer(d)

\* Device d has not asked its peer.
Unasked(d) ==
    /\ ~IsOutgoing(row[d]) /\ ~IsIncoming(row[Peer(d)])
    /\ \A m \in rpcs : m.kind = "request" => m.to = d /\ ~Wedding(m)
    /\ \A t \in Tasks : /\ task[t].on = d => task[t].pc \notin {"request", "merge"}
                        /\ task[t].on = Peer(d) => task[t].pc # "merge"

\* The user of d has not agreed: no grant is on its way, and d has nothing to do
\* with its peer but, perhaps, a request of the peer's.
SilentInv ==
    \A d \in Devices : consent[d] = 0 =>
        /\ Unasked(d)
        /\ \A e \in Devices : minted[e] = 0
        /\ row[Peer(d)] # None => row[Peer(d)].generation = 1
        /\ \A t \in Tasks : task[t].pc \notin {"mint", "consent", "ack"}
        /\ \A t \in Tasks : task[t].on = d /\ task[t].pc = "upsert" =>
              (row[d] = None /\ task[t].generation = 1) \/ IsIncoming(row[d])

\* The call has made, or may come to make, its caller adopt the generation.
Adopts(m) == m.stage \in Read => m.answer \in {"awaiting", "merged"}

\* A device asks once, with the first generation, and nothing makes it adopt
\* another.
AskInv ==
    /\ \A m, n \in rpcs : m.kind = "request" /\ n.kind = "request" /\ m.to = n.to => m = n
    /\ \A m \in rpcs : m.kind = "request" =>
          /\ row[Peer(m.to)] # None => row[Peer(m.to)].generation = 1
          /\ Adopts(m) => m.generation = 1
          /\ m.stage \notin Read /\ row[m.to] # None =>
                row[m.to].generation = 1 /\ ~IsIncoming(row[m.to])
          /\ m.stage = "serving" => row[m.to] = None
    /\ \A t \in Tasks : task[t].pc \in {"merge", "mint"} /\ row[task[t].on] # None =>
          task[t].generation = row[task[t].on].generation

\* Each device mints one grant, which its row keeps, and the second of the two
\* in the generation of the first.
OneGrant ==
    /\ \A d \in Devices : minted[d] \in {0, 1}
    /\ \A d \in Devices : minted[d] = 1 => row[d] # None /\ row[d].issued # None
    /\ \A t \in Tasks : task[t].pc = "mint" =>
          Unasked(task[t].on) /\ \A e \in Devices : minted[e] = 0
    /\ \A t, u \in Tasks : task[t].pc = "mint" /\ task[u].pc = "mint" => t = u
    /\ \A m \in rpcs : Handing(m) =>
          /\ minted[m.to] = 0 /\ minted[Peer(m.to)] = 1
          /\ row[Peer(m.to)].generation = m.generation
          /\ m.stage = "serving" => row[m.to] # None /\ row[m.to].generation = m.generation
    /\ \A m, n \in rpcs : Handing(m) /\ Handing(n) => m = n
    /\ minted[2] = 1 /\ minted[1] = 0 => Unasked(2)
    /\ minted[1] = 1 /\ minted[2] = 1 => row[1].generation = row[2].generation
    /\ \A m \in rpcs : m.kind = "ack" \/ Says(m, "completed") => \A e \in Devices : minted[e] = 1

OnceInv == FormedInv /\ SilentInv /\ AskInv /\ OneGrant

MatchInv == Agreeing => AgreedInv /\ (Lost \/ OnceInv)

-------------------------------------------------------------------------------
(* What a step does on which nobody agrees and no grant is minted.         *)

LEMMA Peers ==
    ASSUME NEW d \in Devices
    PROVE  /\ Peer(d) \in Devices /\ Peer(d) # d /\ Peer(Peer(d)) = d
           /\ \A e \in Devices : e = d \/ e = Peer(d)
           /\ d = 1 \/ d = 2
           /\ Peer(1) = 2 /\ Peer(2) = 1
  BY DEF Devices, Peer

\* The row keeps its generation, goes before anybody agreed, or is a request of
\* the peer that has been answered.
RowGoesOn(e) ==
    /\ row'[e] # None /\ row'[e].held # None => row'[e].held.issuer = Peer(e)
    /\ \/ row'[e] = row[e]
       \/ /\ row[e] # None /\ row'[e] # None /\ row'[e].generation = row[e].generation
          /\ IsOutgoing(row'[e]) => IsOutgoing(row[e])
          /\ IsIncoming(row'[e]) => IsIncoming(row[e])
          /\ IsIncoming(row[e]) => IsIncoming(row'[e]) \/ consent[e] # 0
          /\ row[e].issued # None => row'[e].issued # None
       \/ /\ row'[e] = None /\ consent[e] = 0
          /\ \A t \in Tasks : ~(task'[t].on = e /\ task'[t].pc = "upsert")
       \/ /\ row[e] = None /\ row'[e] # None /\ IsIncoming(row'[e]) /\ row'[e].generation = 1
          /\ ~Unasked(Peer(e))
          /\ \A m \in rpcs' : m.kind = "request" /\ m.to = e => m.stage \in Read

\* The task stays, ends, starts to reserve, acknowledges, asks for the session, or
\* merges two requests.
TaskGoesOn(t) ==
    \/ task'[t] = task[t]
    \/ task'[t].pc \in {"idle", "reserve"}
    \/ task[t].pc = "consent" /\ task'[t].pc = "ack"
    \/ /\ task'[t].pc = "upsert" /\ row' = row
       /\ \A d \in Devices : task'[t].on = d /\ consent[d] = 0 =>
             (row[d] = None /\ task'[t].generation = 1) \/ IsIncoming(row[d])
    \/ /\ task'[t].pc = "merge" /\ ~Unasked(1) /\ ~Unasked(2)
       /\ row'[task'[t].on] # None => task'[t].generation = row'[task'[t].on].generation

\* The call y has become x.
Continues(x, y) ==
    /\ x.kind = y.kind /\ x.to = y.to
    /\ x.caller # None => x.caller = y.caller /\ task'[x.caller].on = task[y.caller].on
    /\ x.stage \notin Read => y.stage \notin Read
    /\ x.stage = "verified" => x.answer = "completed"
    /\ Says(x, "completed") => Says(y, "completed") /\ x.grant = y.grant
    /\ Handing(x) =>
          /\ Handing(y) /\ x.grant = y.grant /\ x.generation = y.generation
          /\ x.stage = "serving" =>
                y.stage = "serving" \/ (row[x.to] # None /\ row[x.to].generation = x.generation)
    /\ x.kind = "request" =>
          /\ Adopts(x) => Adopts(y) /\ x.generation = y.generation
          /\ x.stage = "serving" => y.stage = "serving" \/ row'[x.to] = None
          /\ Wedding(x) => Wedding(y) \/ ~Unasked(x.to)

\* An acknowledgement that both grants have been minted.
NewAck(x) ==
    /\ x.kind = "ack" /\ x.stage = "sent"
    /\ x.caller # None => x.to = Peer(task'[x.caller].on)
    /\ \A e \in Devices : minted[e] = 1

CallsGoOn ==
    \E R \in SUBSET rpcs : \E F :
        /\ \A x \in rpcs' : NewAck(x) \/ \E y \in R : x = F[y]
        /\ \A y \in R : Continues(F[y], y)

GoesOn ==
    /\ UNCHANGED <<consent, minted>>
    /\ \A e \in Devices : RowGoesOn(e)
    /\ \A t \in Tasks : TaskGoesOn(t)
    /\ CallsGoOn

\* There is an old call for every call but a new acknowledgement.
LEMMA Origins ==
    ASSUME CallsGoOn
    PROVE  /\ \A x \in rpcs' : NewAck(x) \/ \E y \in rpcs : Continues(x, y)
           /\ \A x, z \in rpcs' : x.kind # "ack" /\ z.kind # "ack" =>
                \E y, w \in rpcs : Continues(x, y) /\ Continues(z, w) /\ (y = w => x = z)
<1>1. PICK R \in SUBSET rpcs : \E F :
        /\ \A x \in rpcs' : NewAck(x) \/ \E y \in R : x = F[y]
        /\ \A y \in R : Continues(F[y], y)
  BY DEF CallsGoOn
<1>2. PICK F : \A x \in rpcs' : NewAck(x) \/ \E y \in rpcs : x = F[y] /\ Continues(x, y)
  BY <1>1
<1>3. \A x \in rpcs' : NewAck(x) => x.kind = "ack"
  BY DEF NewAck
<1> QED BY <1>2, <1>3

LEMMA UnaskedStays ==
    ASSUME GoesOn, NEW d \in Devices, Unasked(d)
    PROVE  Unasked(d)'
<1>0. Peer(d) \in Devices /\ Peer(Peer(d)) = d /\ (d = 1 \/ d = 2)
  BY Peers DEF Devices
<1>1. ~IsOutgoing(row'[d])
  BY DEF GoesOn, RowGoesOn, Unasked, IsOutgoing, IsIncoming
<1>2. ~IsIncoming(row'[Peer(d)])
  BY <1>0 DEF GoesOn, RowGoesOn, Unasked, IsIncoming
<1>3. ASSUME NEW x \in rpcs', x.kind = "request" PROVE x.to = d /\ ~Wedding(x)
  <2>1. PICK y \in rpcs : Continues(x, y)
    BY <1>3, Origins DEF GoesOn, NewAck
  <2> QED BY <1>3, <2>1 DEF Continues, Unasked
<1>4. ASSUME NEW t \in Tasks
      PROVE  /\ task'[t].on = d => task'[t].pc \notin {"request", "merge"}
             /\ task'[t].on = Peer(d) => task'[t].pc # "merge"
  BY <1>0 DEF GoesOn, TaskGoesOn, Unasked
<1> QED BY <1>1, <1>2, <1>3, <1>4 DEF Unasked, Wedding, Says

LEMMA FormedKept ==
    ASSUME Shape, FormedInv, GoesOn
    PROVE  FormedInv'
<1>1. ASSUME NEW x \in rpcs' PROVE Formed(x)'
  <2>1. CASE NewAck(x)
    BY <2>1 DEF NewAck, Formed, Handing, Says, Read
  <2>2. CASE \E y \in rpcs : Continues(x, y)
    <3>1. PICK y \in rpcs : Continues(x, y)
      BY <2>2
    <3>2. Formed(y)
      BY DEF FormedInv
    <3> QED BY <3>1, <3>2 DEF Formed, Continues, Handing, Says
  <2> QED BY <2>1, <2>2, Origins DEF GoesOn
<1>2. \A d \in Devices : row'[d] # None /\ row'[d].held # None => row'[d].held.issuer = Peer(d)
  BY DEF GoesOn, RowGoesOn
<1> QED BY <1>1, <1>2 DEF FormedInv, Formed, Handing, Says

LEMMA SilentKept ==
    ASSUME Shape, SilentInv, GoesOn
    PROVE  SilentInv'
<1> SUFFICES ASSUME NEW d \in Devices, consent'[d] = 0
             PROVE  /\ Unasked(d)'
                    /\ \A e \in Devices : minted'[e] = 0
                    /\ row'[Peer(d)] # None => row'[Peer(d)].generation = 1
                    /\ \A t \in Tasks : task'[t].pc \notin {"mint", "consent", "ack"}
                    /\ \A t \in Tasks : task'[t].on = d /\ task'[t].pc = "upsert" =>
                          (row'[d] = None /\ task'[t].generation = 1) \/ IsIncoming(row'[d])
  BY DEF SilentInv, Unasked
<1>0. /\ consent[d] = 0 /\ Peer(d) \in Devices /\ Unasked(d) /\ (d = 1 \/ d = 2)
      /\ \A e \in Devices : minted[e] = 0
      /\ row[Peer(d)] # None => row[Peer(d)].generation = 1
      /\ \A t \in Tasks : task[t].pc \notin {"mint", "consent", "ack"}
      /\ \A t \in Tasks : task[t].on = d /\ task[t].pc = "upsert" =>
              (row[d] = None /\ task[t].generation = 1) \/ IsIncoming(row[d])
  BY Peers DEF SilentInv, GoesOn
<1>1. Unasked(d)'
  BY <1>0, UnaskedStays
<1>2. \A e \in Devices : minted'[e] = 0
  BY <1>0 DEF GoesOn
<1>3. row'[Peer(d)] # None => row'[Peer(d)].generation = 1
  BY <1>0 DEF GoesOn, RowGoesOn
<1>4. \A t \in Tasks : task'[t].pc \notin {"mint", "consent", "ack"}
  BY <1>0 DEF GoesOn, TaskGoesOn
<1>5. ASSUME NEW t \in Tasks, task'[t].on = d, task'[t].pc = "upsert"
      PROVE  (row'[d] = None /\ task'[t].generation = 1) \/ IsIncoming(row'[d])
  <2>1. CASE task'[t] = task[t]
    BY <1>0, <1>5, <2>1 DEF GoesOn, RowGoesOn
  <2>2. CASE task'[t] # task[t]
    BY <1>0, <1>5, <2>2 DEF GoesOn, TaskGoesOn
  <2> QED BY <2>1, <2>2
<1> QED BY <1>1, <1>2, <1>3, <1>4, <1>5

LEMMA AskedKept ==
    ASSUME Shape, Shape', SpentInv, SilentInv, AskInv, GoesOn
    PROVE  AskInv'
<1>1. ASSUME NEW x \in rpcs', NEW z \in rpcs', x.kind = "request", z.kind = "request", x.to = z.to
      PROVE  x = z
  <2>1. PICK y \in rpcs, w \in rpcs : Continues(x, y) /\ Continues(z, w) /\ (y = w => x = z)
    BY <1>1, Origins DEF GoesOn
  <2> QED BY <1>1, <2>1 DEF Continues, AskInv
<1>2. ASSUME NEW x \in rpcs', x.kind = "request"
      PROVE  /\ row'[Peer(x.to)] # None => row'[Peer(x.to)].generation = 1
             /\ Adopts(x) => x.generation = 1
             /\ x.stage \notin Read /\ row'[x.to] # None =>
                   row'[x.to].generation = 1 /\ ~IsIncoming(row'[x.to])
             /\ x.stage = "serving" => row'[x.to] = None
  <2>1. PICK y \in rpcs : Continues(x, y)
    BY <1>2, Origins DEF GoesOn, NewAck
  <2>2. /\ y.kind = "request" /\ x.to = y.to /\ x.to \in Devices /\ Peer(x.to) \in Devices
    BY <1>2, <2>1, Peers DEF Continues, Shape, TypeOK, RpcRecords
  <2>3. row'[Peer(x.to)] # None => row'[Peer(x.to)].generation = 1
    BY <2>2 DEF AskInv, GoesOn, RowGoesOn
  <2>4. Adopts(x) => x.generation = 1
    BY <1>2, <2>1, <2>2 DEF AskInv, Continues
  <2>5. x.stage \notin Read /\ row'[x.to] # None =>
                   row'[x.to].generation = 1 /\ ~IsIncoming(row'[x.to])
    BY <1>2, <2>1, <2>2 DEF AskInv, Continues, GoesOn, RowGoesOn
  <2>6. ASSUME x.stage = "serving" PROVE row'[x.to] = None
    <3>1. x.stage \notin Read
      BY <2>6 DEF Read
    <3> QED BY <1>2, <2>1, <2>2, <2>6, <3>1 DEF AskInv, Continues, GoesOn, RowGoesOn
  <2> QED BY <2>3, <2>4, <2>5, <2>6
<1>3. ASSUME NEW t \in Tasks, task'[t].pc \in {"merge", "mint"}, row'[task'[t].on] # None
      PROVE  task'[t].generation = row'[task'[t].on].generation
  <2>1. CASE task'[t] # task[t]
    BY <1>3, <2>1 DEF GoesOn, TaskGoesOn
  <2>2. CASE task'[t] = task[t]
    <3> DEFINE d == task[t].on
    <3>1. d \in Devices
      BY <1>3, <2>2 DEF Shape, TaskShape
    <3>2. consent[d] # 0
      BY <1>3, <2>2, <3>1 DEF SilentInv, Unasked
    <3>3. row[d] # None
      BY <3>1, <3>2 DEF SpentInv, Shape, TypeOK
    <3> QED BY <1>3, <2>2, <3>1, <3>2, <3>3 DEF AskInv, GoesOn, RowGoesOn
  <2> QED BY <2>1, <2>2
<1> QED BY <1>1, <1>2, <1>3 DEF AskInv, Adopts

LEMMA OneGrantKept ==
    ASSUME Shape, SilentInv, OneGrant, GoesOn
    PROVE  OneGrant'
<1>0. /\ minted' = minted /\ consent' = consent /\ 1 \in Devices /\ 2 \in Devices
      /\ \A x \in rpcs' : NewAck(x) \/ \E y \in rpcs : Continues(x, y)
  BY Origins DEF GoesOn, Devices
<1>1. \A d \in Devices : minted'[d] \in {0, 1}
  BY <1>0 DEF OneGrant
<1>2. ASSUME NEW d \in Devices, minted[d] = 1
      PROVE  row[d] # None /\ row'[d] # None /\ row'[d].issued # None /\ row'[d].generation = row[d].generation
  <2>1. consent[d] # 0 /\ row[d] # None /\ row[d].issued # None
    BY <1>2 DEF SilentInv, OneGrant
  <2> QED BY <2>1 DEF GoesOn, RowGoesOn
<1>3. ASSUME NEW t \in Tasks, task'[t].pc = "mint"
      PROVE  task'[t] = task[t] /\ Unasked(task[t].on)' /\ \A e \in Devices : minted'[e] = 0
  <2>1. task'[t] = task[t]
    BY <1>3 DEF GoesOn, TaskGoesOn
  <2>2. task[t].on \in Devices /\ Unasked(task[t].on) /\ \A e \in Devices : minted[e] = 0
    BY <1>3, <2>1 DEF Shape, TaskShape, OneGrant
  <2>3. Unasked(task[t].on)'
    <3> DEFINE d == task[t].on
    <3>1. \A e \in Devices : Unasked(e) => Unasked(e)'
      BY UnaskedStays
    <3>2. task'[t].on = task[t].on
      BY <2>1
    <3> QED BY <2>2, <3>1, <3>2
  <2> QED BY <1>0, <2>1, <2>2, <2>3
<1>4. ASSUME NEW t \in Tasks, NEW u \in Tasks, task'[t].pc = "mint", task'[u].pc = "mint" PROVE t = u
  BY <1>3, <1>4 DEF OneGrant
<1>5. ASSUME NEW x \in rpcs', Handing(x)
      PROVE  /\ minted'[x.to] = 0 /\ minted'[Peer(x.to)] = 1
             /\ row'[Peer(x.to)].generation = x.generation
             /\ x.stage = "serving" => row'[x.to] # None /\ row'[x.to].generation = x.generation
  <2>1. PICK y \in rpcs : Continues(x, y)
    BY <1>0, <1>5 DEF NewAck, Handing
  <2>2. Handing(y) /\ x.to = y.to /\ x.generation = y.generation /\ x.to \in Devices /\ Peer(x.to) \in Devices
    BY <1>5, <2>1, Peers DEF Continues, Shape, TypeOK, RpcRecords
  <2>3. /\ minted[x.to] = 0 /\ minted[Peer(x.to)] = 1 /\ row[Peer(x.to)].generation = x.generation
        /\ y.stage = "serving" => row[x.to] # None /\ row[x.to].generation = x.generation
    BY <2>2 DEF OneGrant
  <2>4. consent[x.to] # 0
    BY <2>2, <2>3 DEF SilentInv
  <2>5. x.stage = "serving" => row[x.to] # None /\ row[x.to].generation = x.generation
    BY <1>5, <2>1, <2>3 DEF Continues
  <2>6. x.stage = "serving" => row'[x.to] # None /\ row'[x.to].generation = x.generation
    BY <2>2, <2>4, <2>5 DEF GoesOn, RowGoesOn
  <2> QED BY <1>0, <1>2, <2>2, <2>3, <2>6
<1>6. ASSUME NEW x \in rpcs', NEW z \in rpcs', Handing(x), Handing(z) PROVE x = z
  <2>1. PICK y \in rpcs, w \in rpcs : Continues(x, y) /\ Continues(z, w) /\ (y = w => x = z)
    BY <1>6, Origins DEF GoesOn, Handing
  <2> QED BY <1>6, <2>1 DEF Continues, OneGrant
<1>7. minted'[2] = 1 /\ minted'[1] = 0 => Unasked(2)'
  BY <1>0, UnaskedStays DEF OneGrant
<1>8. minted'[1] = 1 /\ minted'[2] = 1 => row'[1].generation = row'[2].generation
  BY <1>0, <1>2 DEF OneGrant
<1>9. ASSUME NEW x \in rpcs', x.kind = "ack" \/ Says(x, "completed") PROVE \A e \in Devices : minted'[e] = 1
  BY <1>0, <1>9 DEF NewAck, Continues, OneGrant
<1>10. \A d \in Devices : minted'[d] = 1 => row'[d] # None /\ row'[d].issued # None
  BY <1>0, <1>2
<1> QED BY <1>1, <1>10, <1>3, <1>4, <1>5, <1>6, <1>7, <1>8, <1>9 DEF OneGrant, Handing, Says

LEMMA OnceKept ==
    ASSUME Shape, Shape', SpentInv, OnceInv, GoesOn
    PROVE  OnceInv'
  BY FormedKept, SilentKept, AskedKept, OneGrantKept DEF OnceInv

-------------------------------------------------------------------------------
(* Calls that go on.                                                       *)

\* The caller of a call that waits stays on its device.
CallerStays(x) == x.caller # None => task'[x.caller].on = task[x.caller].on

LEMMA Unmoved ==
    ASSUME FormedInv, NEW y \in rpcs, CallerStays(y)
    PROVE  Continues(y, y)
  BY DEF FormedInv, Formed, Continues, CallerStays

\* At most one call moves.
LEMMA CallBecomes ==
    ASSUME FormedInv, NEW m \in rpcs, NEW x, Continues(x, m),
           \A y \in rpcs' : y = x \/ NewAck(y) \/ (y \in rpcs \ {m} /\ CallerStays(y))
    PROVE  CallsGoOn
<1> DEFINE F == [y \in rpcs |-> IF y = m THEN x ELSE y]
           R == {m} \cup {y \in rpcs \ {m} : CallerStays(y)}
<1>1. F[m] = x /\ \A y \in rpcs \ {m} : F[y] = y
  OBVIOUS
<1>2. R \in SUBSET rpcs
  OBVIOUS
<1> HIDE DEF F
<1>3. \A z \in rpcs' : NewAck(z) \/ \E y \in R : z = F[y]
  BY <1>1
<1>4. \A y \in R : Continues(F[y], y)
  BY <1>1, Unmoved
<1> QED BY <1>2, <1>3, <1>4 DEF CallsGoOn

LEMMA CallsStay ==
    ASSUME FormedInv, \A y \in rpcs' : NewAck(y) \/ (y \in rpcs /\ CallerStays(y))
    PROVE  CallsGoOn
<1> DEFINE F == [y \in rpcs |-> y]
           R == {y \in rpcs : CallerStays(y)}
<1>1. \A y \in rpcs : F[y] = y
  OBVIOUS
<1>2. R \in SUBSET rpcs
  OBVIOUS
<1> HIDE DEF F
<1>3. \A z \in rpcs' : NewAck(z) \/ \E y \in R : z = F[y]
  BY <1>1
<1>4. \A y \in R : Continues(F[y], y)
  BY <1>1, Unmoved
<1> QED BY <1>2, <1>3, <1>4 DEF CallsGoOn

\* A call whose caller is gone.
LEMMA OrphanGoesOn ==
    ASSUME Shape, FormedInv, NEW m \in rpcs
    PROVE  Continues([m EXCEPT !.caller = None], m)
<1> DEFINE x == [m EXCEPT !.caller = None]
<1>1. /\ x.kind = m.kind /\ x.to = m.to /\ x.caller = None /\ x.stage = m.stage /\ x.answer = m.answer
      /\ x.generation = m.generation /\ x.grant = m.grant
  BY DEF Shape, TypeOK, RpcRecords
<1> HIDE DEF x
<1>2. Continues(x, m)
  BY <1>1 DEF Continues, Handing, Says, Wedding, Adopts, FormedInv, Formed
<1> QED BY <1>2 DEF x

\* A task ends; calls of its own are over, or go on without it.
LEMMA EndGoesOn ==
    ASSUME Shape, CallerInv, FormedInv, NEW t \in Tasks, NEW R, End(t, R),
           NEW D \in SUBSET rpcs,
           R \subseteq (rpcs \ D) \cup {[m EXCEPT !.caller = None] : m \in D},
           \A x \in rpcs \ D : x \in R => x.caller # t
    PROVE  CallsGoOn
<1> DEFINE O(y) == IF y \in D THEN [y EXCEPT !.caller = None] ELSE y
           G(y) == IF y.lead = t THEN [O(y) EXCEPT !.stage = "replied", !.answer = "merged", !.lead = None]
                   ELSE O(y)
           F == [y \in rpcs |-> G(y)]
           S == {y \in rpcs : y \in D \/ y \in R}
<1>1. ASSUME NEW x \in rpcs' PROVE \E y \in S : x = F[y]
  <2>1. PICK r \in R : x = IF r.lead = t
                           THEN [r EXCEPT !.stage = "replied", !.answer = "merged", !.lead = None]
                           ELSE r
    BY DEF End, Done
  <2>2. CASE r \in rpcs \ D
    BY <2>1, <2>2
  <2>3. CASE r \notin rpcs \ D
    <3>1. PICK m \in D : r = [m EXCEPT !.caller = None]
      BY <2>3
    <3>2. r.lead = m.lead /\ m \in S
      BY <3>1 DEF Shape, TypeOK, RpcRecords
    <3>3. F[m] = x
      BY <2>1, <3>1, <3>2
    <3> QED BY <3>2, <3>3
  <2> QED BY <2>2, <2>3
<1>2. ASSUME NEW y \in S PROVE Continues(F[y], y)
  <2> DEFINE x == F[y]
  <2>0. y \in rpcs /\ y \in RpcRecords /\ Formed(y)
    BY DEF Shape, TypeOK, FormedInv
  <2>1. /\ x.kind = y.kind /\ x.to = y.to /\ x.caller = (IF y \in D THEN None ELSE y.caller)
        /\ x.generation = y.generation /\ x.grant = y.grant
        /\ y.lead = t => x.stage = "replied" /\ x.answer = "merged"
        /\ y.lead # t => x.stage = y.stage /\ x.answer = y.answer
    BY <2>0 DEF RpcRecords
  <2>2. y.lead = t => y.stage = "merging"
    BY <2>0, PairingAssumption DEF CallerInv
  <2>3. x.caller # None => x.caller = y.caller /\ task'[x.caller].on = task[y.caller].on
    <3>1. y.caller # None /\ y \notin D => y.caller \in Tasks \ {t}
      BY <2>0 DEF RpcRecords
    <3>2. \A u \in Tasks \ {t} : task'[u] = task[u]
      BY DEF End, Shape, TypeOK
    <3> HIDE DEF x
    <3> QED BY <2>1, <3>1, <3>2
  <2> HIDE DEF x
  <2>4. Continues(x, y)
    <3>1. CASE y.lead # t
      BY <2>0, <2>1, <2>3, <3>1 DEF Continues, Handing, Says, Wedding, Adopts, Formed
    <3>2. CASE y.lead = t
      BY <2>0, <2>1, <2>2, <2>3, <3>2 DEF Continues, Handing, Says, Wedding, Adopts, Formed, Read
    <3> QED BY <3>1, <3>2
  <2> QED BY <2>4 DEF x
<1>3. S \in SUBSET rpcs
  OBVIOUS
<1> HIDE DEF F, S
<1> QED BY <1>1, <1>2, <1>3 DEF CallsGoOn

\* An answer other than a completed exchange.
LEMMA ReplyGoesOn ==
    ASSUME Shape, FormedInv, UNCHANGED task, NEW m \in rpcs, m.stage \notin Read,
           NEW answer, NEW g, NEW grant, NEW proof, rpcs' = Reply(rpcs, m, answer, g, grant, proof),
           answer # "completed",
           m.kind = "request" /\ answer \in {"awaiting", "merged"} => g = m.generation,
           m.kind = "request" /\ answer = "merged" => ~Unasked(m.to)
    PROVE  CallsGoOn
<1> DEFINE x == [m EXCEPT !.stage = "replied", !.answer = answer, !.generation = g,
                          !.grant = grant, !.proof = proof, !.lead = None]
<1>1. /\ x.kind = m.kind /\ x.to = m.to /\ x.caller = m.caller
      /\ x.stage = "replied" /\ x.answer = answer /\ x.generation = g
  BY DEF Shape, TypeOK, RpcRecords
<1>2. rpcs' \subseteq (rpcs \ {m}) \cup {x}
  BY DEF Reply
<1> HIDE DEF x
<1>3. Continues(x, m)
  BY <1>1 DEF Continues, Handing, Says, Wedding, Adopts, Read
<1>4. \A y \in rpcs : CallerStays(y)
  BY DEF CallerStays
<1> QED BY <1>2, <1>3, <1>4, CallBecomes

\* The handler moves on.
LEMMA StageGoesOn ==
    ASSUME Shape, FormedInv, UNCHANGED task, NEW m \in rpcs, m.stage \notin Read,
           NEW stage \in {"admitted", "serving"}, rpcs' = (rpcs \ {m}) \cup {[m EXCEPT !.stage = stage]},
           m.kind = "request" => stage = "admitted",
           m.kind = "consent" => /\ m.stage = "sent"
                                 /\ row[m.to] # None /\ row[m.to].generation = m.generation
    PROVE  CallsGoOn
<1> DEFINE x == [m EXCEPT !.stage = stage]
<1>1. /\ x.kind = m.kind /\ x.to = m.to /\ x.caller = m.caller /\ x.grant = m.grant
      /\ x.stage = stage /\ x.answer = m.answer /\ x.generation = m.generation
  BY DEF Shape, TypeOK, RpcRecords
<1>2. rpcs' \subseteq (rpcs \ {m}) \cup {x}
  OBVIOUS
<1> HIDE DEF x
<1>3. Continues(x, m)
  BY <1>1 DEF Continues, Handing, Says, Wedding, Adopts, Read
<1>4. \A y \in rpcs : CallerStays(y)
  BY DEF CallerStays
<1> QED BY <1>2, <1>3, <1>4, CallBecomes

-------------------------------------------------------------------------------
(* Rows and tasks that go on.                                              *)

LEMMA RowsStay ==
    ASSUME FormedInv, UNCHANGED row
    PROVE  \A e \in Devices : RowGoesOn(e)
  BY DEF FormedInv, RowGoesOn

LEMMA RowChanges ==
    ASSUME Shape, FormedInv, NEW d \in Devices, NEW r, row' = [row EXCEPT ![d] = r], RowGoesOn(d)
    PROVE  \A e \in Devices : RowGoesOn(e)
<1>1. \A e \in Devices \ {d} : row'[e] = row[e]
  BY DEF Shape, TypeOK
<1>2. \A e \in Devices \ {d} : RowGoesOn(e)
  BY <1>1 DEF FormedInv, RowGoesOn
<1> QED BY <1>2

\* The row keeps its generation and its grants, or is given one of the peer.
LEMMA KeptGoesOn ==
    ASSUME Shape, FormedInv, NEW d \in Devices, NEW r, row' = [row EXCEPT ![d] = r],
           row[d] = None => r = None,
           row[d] # None =>
              /\ r # None /\ r.generation = row[d].generation
              /\ r.state = row[d].state \/ (r.state = "saved" /\ consent[d] # 0)
              /\ r.issued = row[d].issued
              /\ r.held = row[d].held \/ r.held.issuer = Peer(d)
    PROVE  \A e \in Devices : RowGoesOn(e)
<1>1. row'[d] = r
  BY DEF Shape, TypeOK
<1>2. CASE row[d] = None
  BY <1>1, <1>2, RowChanges DEF RowGoesOn
<1>3. CASE row[d] # None
  <2>1. r.held # None => r.held.issuer = Peer(d)
    BY <1>3 DEF FormedInv
  <2>2. /\ IsOutgoing(r) => IsOutgoing(row[d])
        /\ IsIncoming(r) => IsIncoming(row[d])
        /\ IsIncoming(row[d]) => IsIncoming(r) \/ consent[d] # 0
    BY <1>3 DEF IsOutgoing, IsIncoming
  <2>3. RowGoesOn(d)
    BY <1>1, <1>3, <2>1, <2>2 DEF RowGoesOn
  <2> QED BY <2>3, RowChanges
<1> QED BY <1>2, <1>3

LEMMA SavedGoesOn ==
    ASSUME Shape, FormedInv, NEW d \in Devices, activate_saved(d), consent[d] # 0
    PROVE  \A e \in Devices : RowGoesOn(e)
<1> DEFINE r == set_state(row[d], "saved")
<1>1. row' = [row EXCEPT ![d] = r]
  BY DEF activate_saved
<1>2. /\ row[d] = None => r = None
      /\ row[d] # None => r = [row[d] EXCEPT !.state = "saved"] /\ row[d] \in Rows
  BY DEF set_state, Shape, TypeOK
<1>3. row[d] # None => /\ r.generation = row[d].generation /\ r.state = "saved"
                       /\ r.issued = row[d].issued /\ r.held = row[d].held
  BY <1>2 DEF Rows
<1>4. row[d] # None => r # None
  <2>1. row[d] # None => r \in Rows
    BY <1>2 DEF Rows, States
  <2> QED BY <2>1, NoneIsNoRow
<1> HIDE DEF r
<1> QED BY <1>1, <1>2, <1>3, <1>4, KeptGoesOn

\* A pending row that takes the generation it has.
LEMMA AdoptGoesOn ==
    ASSUME Shape, FormedInv, NEW d \in Devices, NEW s \in Sessions, NEW g \in Generations,
           row' = [row EXCEPT ![d] = set_pending_generation(@, s, g)],
           row[d] # None => row[d].generation = g
    PROVE  \A e \in Devices : RowGoesOn(e)
<1> DEFINE r == set_pending_generation(row[d], s, g)
<1>1. row' = [row EXCEPT ![d] = r] /\ row[d] \in Rows \cup {None}
  BY DEF Shape, TypeOK
<1>2. CASE ~PendingIn(row[d], s)
  <2>1. r = row[d]
    BY <1>2 DEF set_pending_generation
  <2> HIDE DEF r
  <2> QED BY <1>1, <2>1, KeptGoesOn
<1>3. CASE PendingIn(row[d], s)
  <2>1. row[d] # None /\ row[d] \in Rows
    BY <1>1, <1>3 DEF PendingIn, IsPending
  <2>2. r = [row[d] EXCEPT !.state = row[d].state, !.session = s]
    BY <1>3, <2>1 DEF set_pending_generation, upsert
  <2>3. /\ r.generation = row[d].generation /\ r.state = row[d].state
        /\ r.issued = row[d].issued /\ r.held = row[d].held
    BY <2>1, <2>2 DEF Rows
  <2>4. r # None
    <3>1. r \in Rows
      BY <2>1, <2>2 DEF Rows
    <3> QED BY <3>1, NoneIsNoRow
  <2> HIDE DEF r
  <2> QED BY <1>1, <2>1, <2>3, <2>4, KeptGoesOn
<1> QED BY <1>2, <1>3

LEMMA TaskChanges ==
    ASSUME Shape, NEW t \in Tasks, NEW r, task' = [task EXCEPT ![t] = r], TaskGoesOn(t)
    PROVE  \A u \in Tasks : TaskGoesOn(u)
<1>1. \A u \in Tasks \ {t} : task'[u] = task[u]
  BY DEF Shape, TypeOK
<1> QED BY <1>1 DEF TaskGoesOn

LEMMA TaskEnds ==
    ASSUME Shape, NEW t \in Tasks, NEW R, End(t, R)
    PROVE  \A u \in Tasks : TaskGoesOn(u)
<1>1. task' = [task EXCEPT ![t] = Idle] /\ task'[t] = Idle
  BY DEF End, Shape, TypeOK
<1>2. TaskGoesOn(t)
  BY <1>1 DEF TaskGoesOn, Idle
<1> QED BY <1>1, <1>2, TaskChanges

LEMMA TasksStay ==
    ASSUME UNCHANGED task
    PROVE  \A u \in Tasks : TaskGoesOn(u)
  BY DEF TaskGoesOn

-------------------------------------------------------------------------------
(* The steps on which nobody agrees and no grant is minted.                *)

LEMMA FirstGeneration == next_generation(None, {}) = 1
<1>1. generation_floor(None, {}) = 0
  <2> DEFINE known == {0} \cup {} \cup (IF None = None THEN {} ELSE {None.generation})
  <2>1. known = {0}
    OBVIOUS
  <2>2. generation_floor(None, {}) = CHOOSE g \in known : \A h \in known : h <= g
    BY DEF generation_floor
  <2> HIDE DEF known
  <2> QED BY <2>1, <2>2
<1> QED BY <1>1 DEF next_generation

\* A task that waits for an answer, merges or exchanges grants does so for a user
\* who has agreed, and both have once grants are exchanged.
LEMMA Agreed ==
    ASSUME Shape, SpentInv, SilentInv
    PROVE  /\ \A t \in Tasks : task[t].pc \in {"request", "merge"} =>
                 consent[task[t].on] # 0 /\ row[task[t].on] # None
           /\ \A t \in Tasks : task[t].pc \in {"mint", "consent", "ack", "merge"} =>
                 \A e \in Devices : consent[e] # 0 /\ row[e] # None
           /\ \A d, e \in Devices : minted[d] # 0 => consent[e] # 0 /\ row[e] # None
<1>1. \A e \in Devices : consent[e] # 0 => row[e] # None
  BY DEF SpentInv, Shape, TypeOK
<1>2. ASSUME NEW t \in Tasks, task[t].pc \in {"request", "merge"} PROVE consent[task[t].on] # 0 /\ task[t].on \in Devices
  BY <1>2 DEF Shape, TaskShape, SilentInv, Unasked
<1>3. ASSUME NEW t \in Tasks, task[t].pc = "merge", NEW e \in Devices PROVE consent[e] # 0
  <2>1. task[t].on \in Devices
    BY <1>3 DEF Shape, TaskShape
  <2>2. task[t].on = e \/ task[t].on = Peer(e)
    BY <2>1, Peers
  <2> QED BY <1>3, <2>2 DEF SilentInv, Unasked
<1>4. ASSUME NEW t \in Tasks, task[t].pc \in {"mint", "consent", "ack"}, NEW e \in Devices PROVE consent[e] # 0
  BY <1>4 DEF SilentInv
<1>5. \A d, e \in Devices : minted[d] # 0 => consent[e] # 0
  BY DEF SilentInv
<1> QED BY <1>1, <1>2, <1>3, <1>4, <1>5

LEMMA TaskOnce ==
    ASSUME Shape, AgreedInv, OnceInv, NEW t \in Tasks,
           \/ ReserveRequest(t) \/ RequestAnswered(t)
           \/ complete_simultaneous_merge(t) /\ ~MintAndConsent(t)
           \/ ConsentAnswered(t) \/ store_held_grant(t) \/ AckAnswered(t)
           \/ Disconnected(t) \/ GiveUp(t)
    PROVE  GoesOn
<1> DEFINE d == task[t].on
<1>0. /\ CallerInv /\ SpentInv /\ FormedInv /\ SilentInv /\ AskInv /\ OneGrant
      /\ task[t].pc # "idle" => d \in Devices
      /\ \A m \in rpcs : m \in RpcRecords
      /\ t # None
  BY PairingAssumption DEF AgreedInv, RevokedInv, OnceInv, Shape, TaskShape, TypeOK
<1>1. ASSUME NEW R \in SUBSET rpcs, End(t, R), \A x \in R : x.caller # t,
             UNCHANGED <<consent, minted>>, \A e \in Devices : RowGoesOn(e)
      PROVE  GoesOn
  <2>1. CallsGoOn
    <3> DEFINE D == {}
    <3>1. /\ R \subseteq (rpcs \ D) \cup {[m EXCEPT !.caller = None] : m \in D}
          /\ D \in SUBSET rpcs
      BY <1>1
    <3> HIDE DEF D
    <3> QED BY <1>0, <1>1, <3>1, EndGoesOn
  <2> QED BY <1>1, <2>1, TaskEnds DEF GoesOn
<1>2. ASSUME NEW m \in rpcs, m.caller = t, End(t, rpcs \ {m}),
             UNCHANGED <<consent, minted>>, \A e \in Devices : RowGoesOn(e)
      PROVE  GoesOn
  <2>1. \A x \in rpcs \ {m} : x.caller # t
    BY <1>0, <1>2, OwnCall
  <2> QED BY <1>1, <1>2, <2>1
<1>3. CASE ReserveRequest(t)
  <2>1. UNCHANGED <<row, consent, minted>> /\ task[t].pc = "reserve" /\ d \in Devices /\ row[d] \in Rows \cup {None}
    BY <1>0, <1>3 DEF ReserveRequest, Shape, TypeOK
  <2>2. \A m \in rpcs : m.caller # t
    BY <1>0, <2>1, Alone
  <2>3. CASE End(t, rpcs)
    BY <1>0, <1>1, <2>1, <2>2, <2>3, RowsStay
  <2>4. CASE ~End(t, rpcs)
    <3>1. PICK s \in eligible[d] :
            /\ task' = [task EXCEPT ![t].pc = "upsert", ![t].session = s,
                           ![t].generation = next_generation(row[d], tombstones[d])]
            /\ UNCHANGED rpcs /\ ~IsSaved(row[d])
      BY <1>3, <2>4 DEF ReserveRequest
    <3> DEFINE g == next_generation(row[d], tombstones[d])
               r == [task[t] EXCEPT !.pc = "upsert", !.session = s, !.generation = g]
    <3>2. task' = [task EXCEPT ![t] = r] /\ r.pc = "upsert" /\ r.on = d /\ r.generation = g
      BY <3>1 DEF Shape, TypeOK, TaskRecords
    <3>3. tombstones[d] = {}
      BY <2>1 DEF AgreedInv
    <3>4. row[d] = None => g = 1
      BY <3>3, FirstGeneration
    <3>5. consent[d] = 0 => row[d] = None \/ IsIncoming(row[d])
      BY <1>0, <2>1, <3>1 DEF SilentInv, Unasked, IsOutgoing, IsIncoming, IsSaved, Rows, States, Pending
    <3> HIDE DEF g, r
    <3>6. task'[t] = r /\ \A u \in Tasks \ {t} : task'[u] = task[u]
      BY <3>2 DEF Shape, TypeOK
    <3>7. TaskGoesOn(t)
      BY <2>1, <3>2, <3>4, <3>5, <3>6 DEF TaskGoesOn
    <3>8. CallsGoOn
      BY <1>0, <2>2, <3>1, <3>6, CallsStay DEF CallerStays, RpcRecords
    <3> QED BY <1>0, <2>1, <3>2, <3>7, <3>8, TaskChanges, RowsStay DEF GoesOn
  <2> QED BY <2>3, <2>4
<1>4. CASE RequestAnswered(t)
  <2>1. UNCHANGED <<consent, minted>> /\ task[t].pc = "request" /\ d \in Devices
    BY <1>0, <1>4 DEF RequestAnswered
  <2>2. PICK m \in rpcs :
          /\ Answered(t, m)
          /\ \/ /\ m.answer = "awaiting"
                /\ adopt_pending_generation(d, task[t].session, m.generation) /\ End(t, rpcs \ {m})
             \/ /\ m.answer = "merged"
                /\ adopt_pending_generation(d, task[t].session, m.generation)
                /\ task' = [task EXCEPT ![t].pc = "merge", ![t].generation = m.generation]
                /\ rpcs' = rpcs \ {m}
             \/ activate_saved(d) /\ End(t, rpcs \ {m})
             \/ UNCHANGED row /\ End(t, rpcs \ {m})
    BY <1>4 DEF RequestAnswered
  <2>3. /\ m.caller = t /\ m.stage \in Read /\ m.kind = "request" /\ m.to = Peer(d) /\ m.session = task[t].session
        /\ Peer(m.to) = d /\ m.session \in Sessions /\ m.generation \in Generations /\ m.to \in Devices
    <3>1. m.caller = t /\ m.stage \in Read
      BY <2>2 DEF Answered, Read
    <3>2. m.kind = "request" /\ m.session = task[t].session
      BY <1>0, <2>1, <3>1, OwnCall
    <3>3. m.to = Peer(d)
      BY <1>0, <3>1 DEF FormedInv, Formed
    <3>4. m.session \in Sessions /\ m.generation \in Generations
      BY <1>0, <3>2 DEF Shape, CallShape, RpcRecords
    <3> QED BY <2>1, <3>1, <3>2, <3>3, <3>4, Peers
  <2>4. consent[d] # 0 /\ row[d] # None /\ row[d].generation = 1
    BY <1>0, <2>1, <2>3, Agreed DEF AskInv
  <2>5. ASSUME m.answer \in {"awaiting", "merged"}, adopt_pending_generation(d, task[t].session, m.generation)
        PROVE  m.generation = 1 /\ \A e \in Devices : RowGoesOn(e)
    <3>1. m.generation = 1
      BY <1>0, <2>3, <2>5 DEF AskInv, Adopts
    <3>2. row' = [row EXCEPT ![d] = set_pending_generation(@, m.session, m.generation)]
      BY <2>3, <2>5 DEF adopt_pending_generation
    <3> QED BY <1>0, <2>1, <2>3, <2>4, <3>1, <3>2, AdoptGoesOn
  <2>6. CASE End(t, rpcs \ {m})
    <3>1. \A e \in Devices : RowGoesOn(e)
      BY <1>0, <2>1, <2>2, <2>4, <2>5, SavedGoesOn, RowsStay
    <3> QED BY <1>2, <2>1, <2>3, <2>6, <3>1
  <2>7. CASE /\ m.answer = "merged"
             /\ adopt_pending_generation(d, task[t].session, m.generation)
             /\ task' = [task EXCEPT ![t].pc = "merge", ![t].generation = m.generation]
             /\ rpcs' = rpcs \ {m}
    <3> DEFINE r == [task[t] EXCEPT !.pc = "merge", !.generation = m.generation]
    <3>1. task' = [task EXCEPT ![t] = r] /\ r.pc = "merge" /\ r.on = d /\ r.generation = m.generation
      BY <2>7 DEF Shape, TypeOK, TaskRecords
    <3> HIDE DEF r
    <3>2. task'[t] = r /\ \A u \in Tasks \ {t} : task'[u] = task[u]
      BY <3>1 DEF Shape, TypeOK
    <3>3. \A x \in rpcs \ {m} : x.caller # t
      BY <1>0, <2>3, OwnCall
    <3>4. CallsGoOn
      BY <1>0, <2>7, <3>2, <3>3, CallsStay DEF CallerStays, RpcRecords
    <3>5. m.generation = 1 /\ \A e \in Devices : RowGoesOn(e)
      BY <2>5, <2>7
    <3>6. row'[d] # None => row'[d].generation = 1
      BY <2>1, <2>4, <3>5 DEF RowGoesOn
    <3>7. ~Unasked(d) /\ ~Unasked(Peer(d))
      <4>1. Wedding(m)
        BY <2>3, <2>7 DEF Wedding, Says
      <4>2. m.to # d
        BY <2>1, <2>3, Peers
      <4> QED BY <2>3, <4>1, <4>2 DEF Unasked
    <3>8. ~Unasked(1) /\ ~Unasked(2)
      BY <2>1, <3>7, Peers
    <3>9. TaskGoesOn(t)
      BY <3>1, <3>2, <3>5, <3>6, <3>8 DEF TaskGoesOn
    <3> QED BY <2>1, <3>1, <3>4, <3>5, <3>9, TaskChanges DEF GoesOn
  <2> QED BY <2>2, <2>6, <2>7
<1>5. CASE complete_simultaneous_merge(t) /\ ~MintAndConsent(t)
  <2>1. UNCHANGED <<row, consent, minted>> /\ task[t].pc = "merge" /\ End(t, rpcs)
    BY <1>5 DEF complete_simultaneous_merge
  <2>2. \A m \in rpcs : m.caller # t
    BY <1>0, <2>1, Alone
  <2> QED BY <1>0, <1>1, <2>1, <2>2, RowsStay
<1>6. CASE ConsentAnswered(t)
  <2>1. UNCHANGED <<consent, minted>> /\ task[t].pc = "consent" /\ d \in Devices
    BY <1>0, <1>6 DEF ConsentAnswered
  <2>2. PICK m \in rpcs :
          /\ Answered(t, m)
          /\ \/ /\ m.answer = "completed"
                /\ rpcs' = (rpcs \ {m}) \cup {[m EXCEPT !.stage = "verified"]}
                /\ UNCHANGED <<row, task>>
             \/ activate_saved(d) /\ End(t, rpcs \ {m})
             \/ UNCHANGED row /\ End(t, rpcs \ {m})
    BY <1>6 DEF ConsentAnswered
  <2>3. m.caller = t /\ m.stage = "replied" /\ m.kind = "consent" /\ consent[d] # 0
    BY <1>0, <2>1, <2>2, OwnCall, Agreed DEF Answered
  <2>4. CASE End(t, rpcs \ {m})
    <3>1. \A e \in Devices : RowGoesOn(e)
      BY <1>0, <2>1, <2>2, <2>3, <2>4, SavedGoesOn, RowsStay
    <3> QED BY <1>2, <2>1, <2>3, <2>4, <3>1
  <2>5. CASE /\ m.answer = "completed"
             /\ rpcs' = (rpcs \ {m}) \cup {[m EXCEPT !.stage = "verified"]}
             /\ UNCHANGED <<row, task>>
    <3> DEFINE x == [m EXCEPT !.stage = "verified"]
    <3>1. /\ x.kind = m.kind /\ x.to = m.to /\ x.caller = m.caller /\ x.grant = m.grant
          /\ x.stage = "verified" /\ x.answer = m.answer /\ x.generation = m.generation
      BY <1>0 DEF RpcRecords
    <3>2. rpcs' = (rpcs \ {m}) \cup {x}
      BY <2>5
    <3> HIDE DEF x
    <3>3. Continues(x, m)
      BY <2>3, <2>5, <3>1 DEF Continues, Handing, Says, Read
    <3>4. \A y \in rpcs : CallerStays(y)
      BY <2>5 DEF CallerStays
    <3>5. CallsGoOn
      BY <1>0, <3>2, <3>3, <3>4, CallBecomes
    <3> QED BY <1>0, <2>1, <2>5, <3>5, RowsStay, TasksStay DEF GoesOn
  <2> QED BY <2>2, <2>4, <2>5
<1>7. CASE store_held_grant(t)
  <2>1. UNCHANGED <<consent, minted>> /\ task[t].pc = "consent" /\ d \in Devices
    BY <1>0, <1>7 DEF store_held_grant
  <2>2. PICK m \in rpcs :
          /\ m.caller = t /\ m.stage = "verified"
          /\ row' = [row EXCEPT ![d] = set_held_grant(@, m.grant)]
          /\ row[d] # None =>
                /\ Goto(t, "ack")
                /\ rpcs' = (rpcs \ {m}) \cup
                           {Call("ack", t, Peer(d), None, task[t].generation, None,
                                 prove_held_possession(m.grant))}
    BY <1>7 DEF store_held_grant
  <2>3. Says(m, "completed") /\ m.to = Peer(d) /\ row[d] # None /\ row[d] \in Rows
    BY <1>0, <2>1, <2>2, Agreed DEF Says, Read, FormedInv, Formed, Shape, TypeOK
  <2>4. m.grant # None /\ m.grant.issuer = Peer(d) /\ \A e \in Devices : minted[e] = 1
    BY <1>0, <2>3 DEF FormedInv, Formed, OneGrant
  <2>5. \A e \in Devices : RowGoesOn(e)
    <3> DEFINE r == set_held_grant(row[d], m.grant)
    <3>1. r = [row[d] EXCEPT !.held = m.grant] /\ row' = [row EXCEPT ![d] = r]
      BY <2>2, <2>3 DEF set_held_grant
    <3>2. /\ r.generation = row[d].generation /\ r.state = row[d].state /\ r.issued = row[d].issued
          /\ r.held = m.grant
      BY <2>3, <3>1 DEF Rows
    <3>3. r # None
      <4>1. m.grant \in Grants \cup {None}
        BY <1>0 DEF RpcRecords
      <4>2. r \in Rows
        BY <2>3, <3>1, <4>1 DEF Rows
      <4> QED BY <4>2, NoneIsNoRow
    <3> HIDE DEF r
    <3> QED BY <1>0, <2>1, <2>3, <2>4, <3>1, <3>2, <3>3, KeptGoesOn
  <2> DEFINE r == [task[t] EXCEPT !.pc = "ack"]
             z == Call("ack", t, Peer(d), None, task[t].generation, None,
                       prove_held_possession(m.grant))
  <2>6. task' = [task EXCEPT ![t] = r] /\ r.pc = "ack" /\ r.on = d
    BY <2>2, <2>3 DEF Goto, Shape, TypeOK, TaskRecords
  <2>7. z.kind = "ack" /\ z.caller = t /\ z.stage = "sent" /\ z.to = Peer(d)
    BY DEF Call
  <2>8. rpcs' = (rpcs \ {m}) \cup {z}
    BY <2>2, <2>3
  <2> HIDE DEF r, z
  <2>9. task'[t] = r /\ \A u \in Tasks \ {t} : task'[u] = task[u]
    BY <2>6 DEF Shape, TypeOK
  <2>10. NewAck(z)
    BY <2>4, <2>6, <2>7, <2>9 DEF NewAck
  <2>11. \A x \in rpcs \ {m} : x.caller # t
    BY <1>0, <2>2, OwnCall
  <2>12. CallsGoOn
    BY <1>0, <2>8, <2>9, <2>10, <2>11, CallsStay DEF CallerStays, RpcRecords
  <2>13. TaskGoesOn(t)
    BY <2>1, <2>6, <2>9 DEF TaskGoesOn
  <2> QED BY <2>1, <2>5, <2>6, <2>12, <2>13, TaskChanges DEF GoesOn
<1>8. CASE AckAnswered(t)
  <2>1. UNCHANGED <<consent, minted>> /\ task[t].pc = "ack" /\ d \in Devices
    BY <1>0, <1>8 DEF AckAnswered
  <2>2. PICK m \in rpcs : m.caller = t /\ End(t, rpcs \ {m}) /\ (activate_saved(d) \/ UNCHANGED row)
    BY <1>8 DEF AckAnswered, Answered
  <2>3. \A e \in Devices : RowGoesOn(e)
    BY <1>0, <2>1, <2>2, Agreed, SavedGoesOn, RowsStay
  <2> QED BY <1>2, <2>1, <2>2, <2>3
<1>9. CASE Disconnected(t)
  BY <1>0, <1>1, <1>9, RowsStay DEF Disconnected, store
<1>10. CASE GiveUp(t)
  <2>1. UNCHANGED <<row, consent, minted>>
    BY <1>10 DEF GiveUp, store
  <2>2. PICK m \in rpcs : /\ m.caller = t
                          /\ \/ End(t, rpcs \ {m})
                             \/ End(t, (rpcs \ {m}) \cup {[m EXCEPT !.caller = None]})
    BY <1>10 DEF GiveUp
  <2>3. CASE End(t, rpcs \ {m})
    BY <1>0, <1>2, <2>1, <2>2, <2>3, RowsStay
  <2>4. CASE End(t, (rpcs \ {m}) \cup {[m EXCEPT !.caller = None]})
    <3> DEFINE R == (rpcs \ {m}) \cup {[m EXCEPT !.caller = None]}
               D == {m}
    <3>1. /\ R \subseteq (rpcs \ D) \cup {[x EXCEPT !.caller = None] : x \in D}
          /\ D \in SUBSET rpcs
      OBVIOUS
    <3>2. \A x \in rpcs \ D : x.caller # t
      BY <1>0, <2>2, OwnCall
    <3>3. End(t, R)
      BY <2>4
    <3> HIDE DEF R, D
    <3>4. CallsGoOn
      BY <1>0, <3>1, <3>2, <3>3, EndGoesOn
    <3> QED BY <1>0, <2>1, <3>3, <3>4, RowsStay, TaskEnds DEF GoesOn
  <2> QED BY <2>2, <2>3, <2>4
<1> QED BY <1>3, <1>4, <1>5, <1>6, <1>7, <1>8, <1>9, <1>10

LEMMA HandlerOnce ==
    ASSUME \A s, r \in Sessions : s = r,
           Shape, AgreedInv, OnceInv, NEW m \in rpcs, Handle(m), ~StoreConsent(m)
    PROVE  GoesOn
<1> DEFINE d == m.to
<1>0. /\ CallerInv /\ SpentInv /\ FormedInv /\ SilentInv /\ AskInv /\ OneGrant /\ Undisturbed
      /\ d \in Devices /\ Peer(d) \in Devices /\ Peer(d) # d /\ Peer(Peer(d)) = d
      /\ \A x \in rpcs : x \in RpcRecords
      /\ row[d] \in Rows \cup {None} /\ m.generation \in Generations
  BY Peers DEF AgreedInv, RevokedInv, OnceInv, Shape, TaskShape, TypeOK, RpcRecords
<1>1. ASSUME CallsGoOn, UNCHANGED <<row, task, consent, minted>> PROVE GoesOn
  BY <1>0, <1>1, RowsStay, TasksStay DEF GoesOn
<1>2. CASE AdmitRequest(m)
  <2>1. UNCHANGED <<row, task, consent, minted>> /\ m.stage = "sent" /\ m.kind = "request"
    BY <1>2 DEF AdmitRequest, store
  <2>2. \/ rpcs' = Reply(rpcs, m, "rejected", m.generation, None, None)
        \/ rpcs' = (rpcs \ {m}) \cup {[m EXCEPT !.stage = "admitted"]}
    BY <1>2 DEF AdmitRequest, Reject
  <2>3. m.stage \notin Read
    BY <2>1 DEF Read
  <2>4. CASE rpcs' = Reply(rpcs, m, "rejected", m.generation, None, None)
    BY <1>0, <1>1, <2>1, <2>3, <2>4, ReplyGoesOn
  <2>5. CASE rpcs' = (rpcs \ {m}) \cup {[m EXCEPT !.stage = "admitted"]}
    BY <1>0, <1>1, <2>1, <2>3, <2>5, StageGoesOn
  <2> QED BY <2>2, <2>4, <2>5
<1>3. CASE ServeRequest(m)
  <2>1. UNCHANGED <<consent, minted>> /\ m.stage = "admitted" /\ m.kind = "request" /\ m.stage \notin Read
    BY <1>3 DEF ServeRequest, Read
  <2>2. /\ m.session \in Sessions /\ m.generation = 1
        /\ row[d] # None => row[d].generation = 1 /\ ~IsIncoming(row[d]) /\ row[d].session = m.session
    <3>1. m.session \in Sessions
      BY <2>1 DEF Shape, CallShape
    <3>2. row[d] # None => row[d].session \in Sessions
      BY <1>0 DEF Rows
    <3> QED BY <1>0, <2>1, <3>1, <3>2 DEF AskInv, Adopts
  <2>3. ~Unasked(Peer(d))
    BY <1>0, <2>1 DEF Unasked
  <2>4. CASE JoinPending(m)
    <3> DEFINE g == Max2(row[d].generation, m.generation)
    <3>1. row[d] # None /\ IsOutgoing(row[d])
      BY <2>2, <2>4 DEF JoinPending, PendingIn, IsPending
    <3>2. g = 1
      BY <2>2, <3>1 DEF Max2
    <3>3. row' = [row EXCEPT ![d] = set_pending_generation(@, m.session, g)]
      BY <2>4 DEF JoinPending
    <3>4. \/ \E t \in Tasks :
                /\ Begin(t, d, "merge", m.session, g)
                /\ rpcs' = (rpcs \ {m}) \cup
                           {[m EXCEPT !.stage = "merging", !.generation = g, !.lead = t]}
          \/ rpcs' = Reply(rpcs, m, "merged", g, None, None) /\ UNCHANGED task
      BY <2>2, <2>4, <3>1 DEF JoinPending
    <3> HIDE DEF g
    <3>5. \A e \in Devices : RowGoesOn(e)
      BY <1>0, <2>2, <3>1, <3>2, <3>3, AdoptGoesOn
    <3>6. ~Unasked(d)
      BY <3>1 DEF Unasked
    <3>7. CASE rpcs' = Reply(rpcs, m, "merged", g, None, None) /\ UNCHANGED task
      <4>1. CallsGoOn
        BY <1>0, <2>1, <2>2, <3>2, <3>6, <3>7, ReplyGoesOn
      <4> QED BY <2>1, <3>5, <3>7, <4>1, TasksStay DEF GoesOn
    <3>8. ASSUME NEW t \in Tasks, Begin(t, d, "merge", m.session, g),
                 rpcs' = (rpcs \ {m}) \cup
                         {[m EXCEPT !.stage = "merging", !.generation = g, !.lead = t]}
          PROVE  GoesOn
      <4> DEFINE x == [m EXCEPT !.stage = "merging", !.generation = g, !.lead = t]
                 q == [pc |-> "merge", on |-> d, session |-> m.session, generation |-> g]
      <4>1. /\ x.kind = m.kind /\ x.to = m.to /\ x.caller = m.caller /\ x.grant = m.grant
            /\ x.stage = "merging" /\ x.generation = g /\ x.answer = m.answer
        BY <1>0 DEF RpcRecords
      <4>2. task' = [task EXCEPT ![t] = q] /\ task[t].pc = "idle"
        BY <3>8 DEF Begin, Idle
      <4>3. rpcs' = (rpcs \ {m}) \cup {x} /\ q.pc = "merge" /\ q.on = d /\ q.generation = g
        BY <3>8
      <4> HIDE DEF x, q
      <4>4. task'[t] = q /\ \A u \in Tasks \ {t} : task'[u] = task[u]
        BY <4>2 DEF Shape, TypeOK
      <4>5. \A y \in rpcs : y.caller # t /\ (y.caller # None => y.caller \in Tasks)
        BY <1>0, <4>2, Alone DEF RpcRecords
      <4>6. \A y \in rpcs : CallerStays(y)
        BY <4>4, <4>5 DEF CallerStays
      <4>7. Continues(x, m)
        BY <2>1, <2>2, <3>2, <3>6, <4>1, <4>6 DEF Continues, Handing, Says, Wedding, Adopts, Read, CallerStays
      <4>8. CallsGoOn
        BY <1>0, <4>3, <4>6, <4>7, CallBecomes
      <4>9. row'[d] # None => row'[d].generation = 1
        BY <1>0, <2>2, <3>1, <3>5 DEF RowGoesOn
      <4>10. TaskGoesOn(t)
        <5>1. ~Unasked(1) /\ ~Unasked(2)
          BY <1>0, <2>3, <3>6, Peers
        <5> QED BY <3>2, <4>3, <4>4, <4>9, <5>1 DEF TaskGoesOn
      <4> QED BY <2>1, <3>5, <4>2, <4>8, <4>10, TaskChanges DEF GoesOn
    <3> QED BY <3>4, <3>7, <3>8
  <2>5. CASE rpcs' = Reply(rpcs, m, "saved", 0, None, None) /\ UNCHANGED <<row, task>>
    <3>1. CallsGoOn
      BY <1>0, <2>1, <2>5, ReplyGoesOn
    <3> QED BY <1>1, <2>1, <2>5, <3>1
  <2>6. CASE rpcs' = Reject(m) /\ UNCHANGED <<row, task>>
    <3>1. CallsGoOn
      BY <1>0, <2>1, <2>6, ReplyGoesOn DEF Reject
    <3> QED BY <1>1, <2>1, <2>6, <3>1
  <2>7. CASE /\ ~IsSaved(row[d]) /\ ~PendingIn(row[d], m.session) /\ UNCHANGED <<row, task>>
             /\ rpcs' = (rpcs \ {m}) \cup
                  {[m EXCEPT !.stage = "serving",
                             !.generation = Max2(m.generation, next_generation(row[d], tombstones[d]))]}
    <3> DEFINE g == Max2(m.generation, next_generation(row[d], tombstones[d]))
               x == [m EXCEPT !.stage = "serving", !.generation = g]
    <3>1. /\ x.kind = m.kind /\ x.to = m.to /\ x.caller = m.caller /\ x.grant = m.grant
          /\ x.stage = "serving" /\ x.generation = g /\ x.answer = m.answer
      BY <1>0 DEF RpcRecords
    <3>2. rpcs' = (rpcs \ {m}) \cup {x}
      BY <2>7
    <3>3. row[d] = None
      BY <1>0, <2>2, <2>7 DEF IsSaved, PendingIn, IsPending, Rows, States
    <3>4. g = 1
      <4>1. tombstones[d] = {}
        BY <1>0 DEF AgreedInv
      <4>2. next_generation(row[d], tombstones[d]) = 1
        BY <3>3, <4>1, FirstGeneration
      <4> QED BY <2>2, <4>2 DEF Max2
    <3> HIDE DEF x, g
    <3>5. Continues(x, m)
      BY <2>1, <2>2, <2>7, <3>1, <3>3, <3>4 DEF Continues, Handing, Says, Wedding, Adopts, Read
    <3>6. \A y \in rpcs : CallerStays(y)
      BY <2>7 DEF CallerStays
    <3>7. CallsGoOn
      BY <1>0, <3>2, <3>5, <3>6, CallBecomes
    <3> QED BY <1>1, <2>1, <2>7, <3>7
  <2> QED BY <1>3, <2>4, <2>5, <2>6, <2>7 DEF ServeRequest
<1>4. CASE UpsertIncoming(m)
  <2> DEFINE r == upsert(row[d], "pending_incoming", m.generation, m.session)
  <2>1. /\ UNCHANGED <<consent, minted, task>> /\ row' = [row EXCEPT ![d] = r]
        /\ m.kind = "request" /\ m.stage = "serving" /\ m.stage \notin Read
        /\ rpcs' = Reply(rpcs, m, "awaiting", m.generation, None, None)
    BY <1>4 DEF UpsertIncoming, Read
  <2>2. row[d] = None /\ m.generation = 1 /\ ~Unasked(Peer(d))
    BY <1>0, <2>1 DEF AskInv, Adopts, Unasked
  <2>3. r.state = "pending_incoming" /\ r.generation = 1 /\ r.held = None
    BY <2>2 DEF upsert, NewRow
  <2>4. r # None
    <3>1. m.session \in Sessions
      BY <2>1 DEF Shape, CallShape
    <3>2. r \in Rows
      BY <1>0, <3>1, RowTypes DEF States, Pending
    <3> QED BY <3>2, NoneIsNoRow
  <2> HIDE DEF r
  <2>5. row'[d] = r
    BY <1>0, <2>1 DEF Shape, TypeOK
  <2>6. CallsGoOn
    BY <1>0, <2>1, ReplyGoesOn
  <2>7. \A x \in rpcs' : x.kind = "request" /\ x.to = d => x.stage \in Read
    <3> SUFFICES ASSUME NEW x \in rpcs', x.kind = "request", x.to = d PROVE x.stage \in Read
      OBVIOUS
    <3>1. CASE x \in rpcs \ {m}
      BY <1>0, <2>1, <3>1 DEF AskInv
    <3>2. CASE x \notin rpcs \ {m}
      <4>1. x = [m EXCEPT !.stage = "replied", !.answer = "awaiting", !.generation = m.generation,
                          !.grant = None, !.proof = None, !.lead = None]
        BY <2>1, <3>2 DEF Reply
      <4> QED BY <1>0, <4>1 DEF RpcRecords, Read
    <3> QED BY <3>1, <3>2
  <2>8. RowGoesOn(d)
    BY <2>2, <2>3, <2>4, <2>5, <2>7 DEF RowGoesOn, IsIncoming
  <2> QED BY <1>0, <2>1, <2>6, <2>8, RowChanges, TasksStay DEF GoesOn
<1>5. CASE CheckConsent(m)
  <2>1. /\ UNCHANGED <<minted, task>> /\ m.kind = "consent" /\ m.stage = "sent" /\ m.stage \notin Read
    BY <1>5 DEF CheckConsent, Read
  <2>2. m.grant # None
    BY <1>0, <2>1 DEF Undisturbed, Harmless
  <2>3. /\ UNCHANGED <<row, consent>>
        /\ \/ \E answer \in {"saved", "rejected"} : rpcs' = Reply(rpcs, m, answer, m.generation, None, None)
           \/ /\ IsOutgoing(row[d]) /\ row[d].generation = m.generation
              /\ rpcs' = (rpcs \ {m}) \cup {[m EXCEPT !.stage = "serving"]}
    BY <1>5, <2>2 DEF CheckConsent
  <2>4. ASSUME NEW answer \in {"saved", "rejected"}, rpcs' = Reply(rpcs, m, answer, m.generation, None, None)
        PROVE  CallsGoOn
    BY <1>0, <2>1, <2>4, ReplyGoesOn
  <2>5. CASE /\ IsOutgoing(row[d]) /\ row[d].generation = m.generation
             /\ rpcs' = (rpcs \ {m}) \cup {[m EXCEPT !.stage = "serving"]}
    BY <1>0, <1>1, <2>1, <2>3, <2>5, StageGoesOn DEF IsOutgoing
  <2> QED BY <1>1, <2>1, <2>3, <2>4, <2>5
<1>6. CASE CheckAck(m)
  <2>1. /\ UNCHANGED <<row, task, consent, minted>> /\ m.kind = "ack" /\ m.stage = "sent" /\ m.stage \notin Read
    BY <1>6 DEF CheckAck, store, Read
  <2>2. \/ \E answer \in {"saved", "rejected"} : rpcs' = Reply(rpcs, m, answer, 0, None, None)
        \/ rpcs' = (rpcs \ {m}) \cup {[m EXCEPT !.stage = "serving"]}
    BY <1>6 DEF CheckAck
  <2>3. ASSUME NEW answer \in {"saved", "rejected"}, rpcs' = Reply(rpcs, m, answer, 0, None, None)
        PROVE  CallsGoOn
    BY <1>0, <2>1, <2>3, ReplyGoesOn
  <2>4. CASE rpcs' = (rpcs \ {m}) \cup {[m EXCEPT !.stage = "serving"]}
    BY <1>0, <1>1, <2>1, <2>4, StageGoesOn
  <2> QED BY <1>1, <2>1, <2>2, <2>3, <2>4
<1>7. CASE ApplyAck(m)
  <2>1. /\ UNCHANGED <<task, consent, minted>> /\ m.kind = "ack" /\ m.stage = "serving" /\ m.stage \notin Read
        /\ activate_saved(d) /\ rpcs' = Reply(rpcs, m, "acknowledged", 0, None, None)
    BY <1>7 DEF ApplyAck, Read
  <2>2. consent[d] # 0
    BY <1>0, <2>1, Agreed DEF OneGrant
  <2>3. CallsGoOn
    BY <1>0, <2>1, ReplyGoesOn
  <2> QED BY <1>0, <2>1, <2>2, <2>3, SavedGoesOn, TasksStay DEF GoesOn
<1>8. ~handle_remote_revoke(m)
  BY <1>0 DEF handle_remote_revoke, Undisturbed, Harmless
<1> QED BY <1>2, <1>3, <1>4, <1>5, <1>6, <1>7, <1>8 DEF Handle

\* A row that goes without a restart of the lock's holders is lost for good,
\* unless its user had not agreed.
LEMMA GoneUnagreed ==
    ASSUME Shape, SpentInv, ~Lost', NEW d \in Devices, row'[d] = None, ~Locked(d)',
           UNCHANGED <<eligible, receipts>>
    PROVE  consent[d] = 0
<1> SUFFICES ASSUME consent[d] > 0 PROVE FALSE
  BY DEF Shape, TypeOK
<1>1. Spent(d)
  BY DEF SpentInv
<1>2. Spent(d)'
  BY <1>1 DEF Spent, Known
<1>3. Dead(d)'
  BY <1>2 DEF Dead
<1> QED BY <1>3 DEF Lost

\* A process that starts holds no lock.
LEMMA RestartUnlocks ==
    ASSUME Shape, NEW d \in Devices, Restart(d)
    PROVE  ~Locked(d)'
<1> DEFINE dead == {t \in Tasks : task[t].on = d}
           served == {m \in rpcs : m.to = d /\ m.stage \in {"admitted", "serving", "merging"}}
           orphans == {m \in rpcs : m.caller \in dead}
           D == orphans \ served
<1>1. /\ task' = [t \in Tasks |-> IF t \in dead THEN Idle ELSE task[t]]
      /\ rpcs' = (rpcs \ (served \cup orphans)) \cup
                 {[m EXCEPT !.caller = None] : m \in {x \in D : x.stage \notin Read}}
  BY DEF Restart
<1>2. \A t \in Tasks : ~(task'[t].on = d /\ task'[t].pc \in {"upsert", "delete"})
  BY <1>1 DEF Idle
<1>3. ASSUME NEW x \in rpcs' PROVE ~(x.to = d /\ x.stage = "serving")
  <2>1. CASE x \in rpcs \ (served \cup orphans)
    BY <2>1
  <2>2. CASE x \notin rpcs \ (served \cup orphans)
    <3>1. PICK m \in D : x = [m EXCEPT !.caller = None]
      BY <1>1, <2>2
    <3>2. x.to = m.to /\ x.stage = m.stage
      BY <3>1 DEF Shape, TypeOK, RpcRecords
    <3> QED BY <3>2
  <2> QED BY <2>1, <2>2
<1> QED BY <1>2, <1>3 DEF Locked

LEMMA ClockOnce ==
    ASSUME Shape, AgreedInv, OnceInv, ~Lost', NEW d \in Devices,
           \/ \E s \in Sessions : activate_after_completed_transfer(d, s) \/ expire_due(d, s)
           \/ ExpirePending(d)
           \/ Restart(d)
           \/ \E t \in Tasks : request_pairing(t, d)
    PROVE  GoesOn
<1>0. /\ CallerInv /\ SpentInv /\ FormedInv /\ SilentInv /\ AskInv /\ OneGrant
      /\ \A x \in rpcs : x \in RpcRecords
  BY DEF AgreedInv, RevokedInv, OnceInv, Shape, TypeOK
<1>1. ASSUME UNCHANGED task, rpcs' = rpcs PROVE CallsGoOn
  BY <1>0, <1>1, CallsStay DEF CallerStays
<1>2. ASSUME NEW s \in Sessions, activate_after_completed_transfer(d, s) \/ expire_due(d, s) PROVE GoesOn
  <2>1. UNCHANGED <<row, task, rpcs, consent, minted>>
    BY <1>2 DEF activate_after_completed_transfer, expire_due
  <2> QED BY <1>0, <1>1, <2>1, RowsStay, TasksStay DEF GoesOn
<1>3. CASE ExpirePending(d)
  <2>1. /\ Quiet /\ row' = [row EXCEPT ![d] = None] /\ consent' = [consent EXCEPT ![d] = 0]
        /\ UNCHANGED <<eligible, minted, task, rpcs, receipts>>
    BY <1>3 DEF ExpirePending, Disagree
  <2>2. row'[d] = None /\ \A t \in Tasks : task'[t].pc = "idle"
    BY <2>1 DEF Quiet, Idle, Shape, TypeOK
  <2>3. ~Locked(d)'
    BY <2>1, <2>2 DEF Locked, Quiet
  <2>4. consent[d] = 0
    BY <1>0, <2>1, <2>2, <2>3, GoneUnagreed
  <2>5. consent' = consent
    BY <2>1, <2>4 DEF Shape, TypeOK
  <2>6. RowGoesOn(d)
    BY <2>2, <2>4 DEF RowGoesOn
  <2> QED BY <1>0, <1>1, <2>1, <2>5, <2>6, RowChanges, TasksStay DEF GoesOn
<1>4. CASE Restart(d)
  <2> DEFINE dead == {t \in Tasks : task[t].on = d}
             served == {m \in rpcs : m.to = d /\ m.stage \in {"admitted", "serving", "merging"}}
             orphans == {m \in rpcs : m.caller \in dead}
             D == orphans \ served
             r == IF IsSaved(row[d]) /\ row[d].issued = None THEN None ELSE row[d]
  <2>1. /\ task' = [t \in Tasks |-> IF t \in dead THEN Idle ELSE task[t]]
        /\ rpcs' = (rpcs \ (served \cup orphans)) \cup
                   {[m EXCEPT !.caller = None] : m \in {x \in D : x.stage \notin Read}}
        /\ row' = [row EXCEPT ![d] = r]
        /\ consent' = [consent EXCEPT ![d] = IF row'[d] = None THEN 0 ELSE @]
        /\ UNCHANGED <<eligible, minted, receipts>>
    BY <1>4 DEF Restart
  <2>2. \A t \in Tasks : (task'[t] = Idle /\ task[t].on = d) \/ (task'[t] = task[t] /\ task[t].on # d)
    BY <2>1
  <2>3. \A t \in Tasks : TaskGoesOn(t)
    BY <2>2 DEF TaskGoesOn, Idle
  <2>4. ASSUME NEW m \in rpcs, m \notin orphans PROVE CallerStays(m)
    BY <1>0, <2>2, <2>4 DEF CallerStays, RpcRecords
  <2>5. CallsGoOn
    <3> DEFINE F == [y \in rpcs |-> IF y \in D THEN [y EXCEPT !.caller = None] ELSE y]
               S == D \cup (rpcs \ orphans)
    <3>1. \A x \in rpcs' : \E y \in S : x = F[y]
      BY <2>1
    <3>2. ASSUME NEW y \in S PROVE Continues(F[y], y)
      <4>1. CASE y \in D
        BY <1>0, <4>1, OrphanGoesOn
      <4>2. CASE y \notin D
        <5>1. y \in rpcs /\ F[y] = y /\ CallerStays(y)
          BY <2>4, <4>2
        <5> QED BY <1>0, <5>1, Unmoved
      <4> QED BY <4>1, <4>2
    <3>3. S \in SUBSET rpcs
      OBVIOUS
    <3> HIDE DEF F, S
    <3> QED BY <3>1, <3>2, <3>3 DEF CallsGoOn
  <2>6. ~Locked(d)'
    BY <1>4, RestartUnlocks
  <2>7. row'[d] = r
    BY <2>1 DEF Shape, TypeOK
  <2>8. row'[d] = None => consent[d] = 0
    BY <1>0, <2>1, <2>6, GoneUnagreed
  <2>9. consent' = consent
    BY <2>1, <2>8 DEF Shape, TypeOK
  <2>10. RowGoesOn(d)
    <3>1. CASE r = row[d]
      BY <1>0, <2>7, <3>1 DEF RowGoesOn, FormedInv
    <3>2. CASE r # row[d]
      <4>1. row'[d] = None
        BY <2>7, <3>2
      <4>2. \A t \in Tasks : ~(task'[t].on = d /\ task'[t].pc = "upsert")
        BY <2>2 DEF Idle
      <4> QED BY <2>8, <4>1, <4>2 DEF RowGoesOn
    <3> QED BY <3>1, <3>2
  <2>11. \A e \in Devices : RowGoesOn(e)
    <3> HIDE DEF r
    <3> QED BY <1>0, <2>1, <2>10, RowChanges
  <2> QED BY <2>1, <2>3, <2>5, <2>9, <2>11 DEF GoesOn
<1>5. ASSUME NEW t \in Tasks, request_pairing(t, d) PROVE GoesOn
  <2> DEFINE q == [pc |-> "reserve", on |-> d, session |-> None, generation |-> 0]
  <2>1. /\ task[t].pc = "idle" /\ task' = [task EXCEPT ![t] = q] /\ q.pc = "reserve"
        /\ UNCHANGED <<row, rpcs, consent, minted>>
    BY <1>5 DEF request_pairing, Begin, Idle, store
  <2> HIDE DEF q
  <2>2. task'[t] = q /\ \A u \in Tasks \ {t} : task'[u] = task[u]
    BY <2>1 DEF Shape, TypeOK
  <2>3. \A y \in rpcs : y.caller # t
    BY <1>0, <2>1, Alone
  <2>4. CallsGoOn
    BY <1>0, <2>1, <2>2, <2>3, CallsStay DEF CallerStays, RpcRecords
  <2>5. TaskGoesOn(t)
    BY <2>1, <2>2 DEF TaskGoesOn
  <2> QED BY <1>0, <2>1, <2>4, <2>5, TaskChanges, RowsStay DEF GoesOn
<1> QED BY <1>2, <1>3, <1>4, <1>5

-------------------------------------------------------------------------------
(* The steps on which a user agrees.                                       *)

\* Calls keep whom they are for while their callers stay.
LEMMA FormedStays ==
    ASSUME FormedInv, NEW x \in rpcs, CallerStays(x)
    PROVE  Formed(x)'
<1>1. Formed(x)
  BY DEF FormedInv
<1> QED BY <1>1 DEF Formed, CallerStays, Handing, Says

LEMMA AcceptOnce ==
    ASSUME Shape, AgreedInv, OnceInv, ~Lost', NEW d \in Devices, NEW t \in Tasks, Accept(t, d)
    PROVE  OnceInv'
<1> DEFINE q == [pc |-> "mint", on |-> d, session |-> None, generation |-> row[d].generation]
<1>0. /\ CallerInv /\ SpentInv /\ FormedInv /\ SilentInv /\ AskInv /\ OneGrant
      /\ \A x \in rpcs : x \in RpcRecords
      /\ Peer(d) \in Devices /\ Peer(Peer(d)) = d /\ Peer(d) # d /\ 1 \in Devices /\ 2 \in Devices
  BY Peers DEF AgreedInv, RevokedInv, OnceInv, Shape, TypeOK, Devices
<1>1. /\ IsIncoming(row[d]) /\ task[t].pc = "idle" /\ task' = [task EXCEPT ![t] = q]
      /\ consent' = [consent EXCEPT ![d] = @ + 1]
      /\ UNCHANGED <<row, minted, rpcs>>
  BY DEF Accept, Begin, Idle, Agree
<1>2. q.pc = "mint" /\ q.on = d /\ q.generation = row[d].generation
  OBVIOUS
<1> HIDE DEF q
<1>3. task'[t] = q /\ \A u \in Tasks \ {t} : task'[u] = task[u]
  BY <1>1 DEF Shape, TypeOK
<1>4. /\ consent[d] = 0 /\ consent'[d] = 1 /\ consent'[Peer(d)] = consent[Peer(d)]
  <2>1. consent'[d] = consent[d] + 1 /\ consent[d] \in Nat /\ consent'[Peer(d)] = consent[Peer(d)]
    BY <1>0, <1>1 DEF Shape, TypeOK
  <2>2. ~(consent'[d] > 1)
    BY DEF Lost
  <2> QED BY <2>1, <2>2
<1>5. Unasked(d) /\ ~Unasked(Peer(d)) /\ consent[Peer(d)] # 0 /\ \A e \in Devices : minted[e] = 0
  BY <1>0, <1>1, <1>4 DEF SilentInv, Unasked
<1>6. Unasked(d)'
  BY <1>1, <1>2, <1>3, <1>5 DEF Unasked, Wedding, Says
<1>7. FormedInv'
  <2>1. \A x \in rpcs : CallerStays(x)
    BY <1>0, <1>1, <1>3, Alone DEF CallerStays, RpcRecords
  <2>2. \A x \in rpcs : Formed(x)'
    BY <1>0, <2>1, FormedStays
  <2> QED BY <1>0, <1>1, <2>2 DEF FormedInv, Formed, Handing, Says
<1>8. SilentInv'
  <2>1. \A e \in Devices : consent'[e] # 0
    BY <1>0, <1>4, <1>5, Peers
  <2> QED BY <2>1 DEF SilentInv
<1>9. AskInv'
  <2>1. \A u \in Tasks : task'[u].pc \in {"merge", "mint"} /\ row[task'[u].on] # None =>
          task'[u].generation = row[task'[u].on].generation
    BY <1>0, <1>2, <1>3 DEF AskInv
  <2> QED BY <1>0, <1>1, <2>1 DEF AskInv, Adopts
<1>10. OneGrant'
  <2>1. \A u \in Tasks \ {t} : task'[u].pc # "mint"
    BY <1>0, <1>3, <1>4 DEF SilentInv
  <2>2. \A u \in Tasks : task'[u].pc = "mint" => Unasked(task[u].on)' /\ \A e \in Devices : minted'[e] = 0
    BY <1>1, <1>2, <1>3, <1>5, <1>6, <2>1
  <2>3. \A x \in rpcs : ~Handing(x) /\ x.kind # "ack" /\ ~Says(x, "completed")
    <3>1. \A x \in rpcs : Peer(x.to) \in Devices
      BY <1>0, Peers DEF RpcRecords
    <3> QED BY <1>0, <1>5, <3>1 DEF OneGrant
  <2> QED BY <1>0, <1>1, <1>5, <2>1, <2>2, <2>3 DEF OneGrant, Handing, Says
<1> QED BY <1>7, <1>8, <1>9, <1>10 DEF OnceInv

LEMMA UpsertOnce ==
    ASSUME \A s, r \in Sessions : s = r,
           Shape, AgreedInv, OnceInv, ~Lost', NEW t \in Tasks, UpsertRequest(t)
    PROVE  OnceInv'
<1> DEFINE d == task[t].on
           s == task[t].session
           g == task[t].generation
           merging == IsIncoming(row[d]) /\ row[d].session = s
           q == [task[t] EXCEPT !.pc = IF merging THEN "merge" ELSE "request"]
           z == Call("request", t, Peer(d), s, g, None, None)
           w == upsert(row[d], "pending_outgoing", g, s)
<1>0. /\ CallerInv /\ SpentInv /\ FormedInv /\ SilentInv /\ AskInv /\ OneGrant
      /\ \A x \in rpcs : x \in RpcRecords /\ x.to \in Devices /\ Peer(x.to) \in Devices /\ Peer(Peer(x.to)) = x.to
      /\ 1 \in Devices /\ 2 \in Devices
  BY Peers DEF AgreedInv, RevokedInv, OnceInv, Shape, TypeOK, RpcRecords, Devices
<1>1. /\ task[t].pc = "upsert" /\ row' = [row EXCEPT ![d] = w]
      /\ task' = [task EXCEPT ![t] = q]
      /\ rpcs' = IF merging THEN rpcs ELSE rpcs \cup {z}
      /\ consent' = [consent EXCEPT ![d] = @ + 1]
      /\ UNCHANGED minted
  BY DEF UpsertRequest, Goto, Agree
<1>2. /\ d \in Devices /\ Peer(d) \in Devices /\ Peer(Peer(d)) = d /\ Peer(d) # d
      /\ s \in Sessions /\ row[d] \in Rows \cup {None} /\ g \in Generations
      /\ \A e \in Devices : e = d \/ e = Peer(d)
  BY <1>1, Peers DEF Shape, TaskShape, TypeOK, TaskRecords
<1>3. q.pc = (IF merging THEN "merge" ELSE "request") /\ q.on = d /\ q.generation = g
  BY DEF Shape, TypeOK, TaskRecords
<1>4. /\ z.kind = "request" /\ z.caller = t /\ z.to = Peer(d) /\ z.stage = "sent" /\ z.generation = g /\ z.grant = None
  BY DEF Call
<1>5. w \in Rows /\ w # None /\ w.generation = g /\ w.state = "pending_outgoing"
  <2>1. w \in Rows
    BY <1>2, RowTypes DEF States, Pending
  <2>2. w.generation = g /\ w.state = "pending_outgoing"
    BY <1>2 DEF upsert, NewRow, Rows
  <2> QED BY <2>1, <2>2, NoneIsNoRow
<1>6. w.held # None => w.held.issuer = Peer(d)
  BY <1>0, <1>2 DEF upsert, NewRow, Rows, FormedInv
<1>7. merging <=> IsIncoming(row[d])
  BY <1>2 DEF IsIncoming, Rows
<1> HIDE DEF q, z, w, merging
<1>8. /\ task'[t] = q /\ \A u \in Tasks \ {t} : task'[u] = task[u]
      /\ row'[d] = w /\ row'[Peer(d)] = row[Peer(d)]
  BY <1>1, <1>2 DEF Shape, TypeOK
<1>9. /\ consent[d] = 0 /\ consent'[d] = 1 /\ consent'[Peer(d)] = consent[Peer(d)]
  <2>1. consent'[d] = consent[d] + 1 /\ consent[d] \in Nat /\ consent'[Peer(d)] = consent[Peer(d)]
    BY <1>1, <1>2 DEF Shape, TypeOK
  <2>2. ~(consent'[d] > 1)
    BY <1>2 DEF Lost
  <2> QED BY <2>1, <2>2
<1>10. /\ Unasked(d) /\ \A e \in Devices : minted[e] = 0
       /\ row[Peer(d)] # None => row[Peer(d)].generation = 1
       /\ \A u \in Tasks : task[u].pc \notin {"mint", "consent", "ack"}
       /\ (row[d] = None /\ g = 1) \/ merging
  BY <1>0, <1>1, <1>2, <1>7, <1>9 DEF SilentInv
<1>11. \A x \in rpcs : x.to = d \/ x.kind # "request"
  BY <1>10 DEF Unasked
<1>12. \A u \in Tasks : task[u].pc # "merge"
  <2>1. \A u \in Tasks : task[u].pc = "merge" => task[u].on = d \/ task[u].on = Peer(d)
    BY <1>2 DEF Shape, TaskShape
  <2> QED BY <1>10, <2>1 DEF Unasked
<1>13. \A x \in rpcs : ~Handing(x) /\ x.kind # "ack" /\ ~Says(x, "completed")
  BY <1>0, <1>10 DEF OneGrant
<1>14. \A x \in rpcs : x.caller # t
  BY <1>0, <1>1, Alone
<1>15. FormedInv'
  <2>1. \A x \in rpcs : CallerStays(x)
    BY <1>0, <1>8, <1>14 DEF CallerStays, RpcRecords
  <2>2. \A x \in rpcs : Formed(x)'
    BY <1>0, <2>1, FormedStays
  <2>3. ASSUME NEW x \in rpcs', x = z PROVE Formed(x)'
    BY <1>3, <1>4, <1>8, <2>3 DEF Formed, Handing, Says, Read
  <2>4. \A x \in rpcs' : Formed(x)'
    BY <1>1, <2>2, <2>3
  <2>5. \A e \in Devices : row'[e] # None /\ row'[e].held # None => row'[e].held.issuer = Peer(e)
    BY <1>0, <1>2, <1>6, <1>8 DEF FormedInv
  <2> QED BY <2>4, <2>5 DEF FormedInv, Formed, Handing, Says
<1>16. CASE ~merging
  <2>0. row[d] = None /\ g = 1 /\ rpcs' = rpcs \cup {z} /\ q.pc = "request"
    BY <1>1, <1>3, <1>10, <1>16
  <2>1. ASSUME NEW e \in Devices, e = Peer(d), Unasked(e) PROVE Unasked(e)'
    <3>0. Peer(e) = d
      BY <1>2, <2>1
    <3>1. ~IsOutgoing(row'[e]) /\ ~IsIncoming(row'[Peer(e)])
      BY <1>5, <1>8, <2>1, <3>0 DEF Unasked, IsIncoming
    <3>2. \A x \in rpcs' : x.kind = "request" => x.to = e /\ ~Wedding(x)
      BY <1>4, <2>0, <2>1 DEF Unasked, Wedding, Says, Read
    <3>3. \A u \in Tasks : /\ task'[u].on = e => task'[u].pc \notin {"request", "merge"}
                           /\ task'[u].on = Peer(e) => task'[u].pc # "merge"
      BY <1>2, <1>3, <1>8, <1>12, <2>0, <2>1, <3>0 DEF Unasked
    <3> QED BY <3>1, <3>2, <3>3 DEF Unasked, Wedding, Says
  <2>2. SilentInv'
    <3> SUFFICES ASSUME NEW e \in Devices, consent'[e] = 0
                 PROVE  /\ Unasked(e)'
                        /\ \A f \in Devices : minted'[f] = 0
                        /\ row'[Peer(e)] # None => row'[Peer(e)].generation = 1
                        /\ \A u \in Tasks : task'[u].pc \notin {"mint", "consent", "ack"}
                        /\ \A u \in Tasks : task'[u].on = e /\ task'[u].pc = "upsert" =>
                              (row'[e] = None /\ task'[u].generation = 1) \/ IsIncoming(row'[e])
      BY DEF SilentInv, Unasked, Wedding, Says
    <3>1. e = Peer(d) /\ consent[e] = 0
      BY <1>2, <1>9
    <3>2. Unasked(e)'
      BY <1>0, <2>1, <3>1 DEF SilentInv
    <3>3. \A u \in Tasks : task'[u].on = e /\ task'[u].pc = "upsert" =>
                              (row'[e] = None /\ task'[u].generation = 1) \/ IsIncoming(row'[e])
      BY <1>0, <1>2, <1>8, <2>0, <3>1 DEF SilentInv
    <3> QED BY <1>1, <1>2, <1>5, <1>8, <1>10, <2>0, <3>1, <3>2, <3>3
  <2>3. AskInv'
    <3>1. \A x, y \in rpcs' : x.kind = "request" /\ y.kind = "request" /\ x.to = y.to => x = y
      BY <1>0, <1>2, <1>4, <1>11, <2>0 DEF AskInv
    <3>2. ASSUME NEW x \in rpcs', x.kind = "request"
          PROVE  /\ row'[Peer(x.to)] # None => row'[Peer(x.to)].generation = 1
                 /\ Adopts(x) => x.generation = 1
                 /\ x.stage \notin Read /\ row'[x.to] # None =>
                       row'[x.to].generation = 1 /\ ~IsIncoming(row'[x.to])
                 /\ x.stage = "serving" => row'[x.to] = None
      <4>1. CASE x = z
        <5>1. x.to = Peer(d) /\ Peer(x.to) = d /\ x.generation = 1 /\ x.stage = "sent"
          BY <1>2, <1>4, <2>0, <4>1
        <5>2. ~IsIncoming(row[Peer(d)])
          BY <1>10 DEF Unasked
        <5> QED BY <1>5, <1>8, <1>10, <2>0, <5>1, <5>2
      <4>2. CASE x # z
        <5>1. x \in rpcs /\ x.to = d
          BY <1>11, <2>0, <3>2, <4>2
        <5>2. x.stage # "serving"
          <6>1. ASSUME x.stage = "serving" PROVE FALSE
            <7>1. x.session \in Sessions
              BY <3>2, <5>1 DEF Shape, CallShape
            <7>2. LockedInv
              BY DEF AgreedInv, RevokedInv
            <7>3. s # x.session
              BY <1>1, <3>2, <5>1, <6>1, <7>2 DEF LockedInv, Asking
            <7> QED BY <1>2, <7>1, <7>3
          <6> QED BY <6>1
        <5> QED BY <1>0, <1>2, <1>5, <1>8, <2>0, <3>2, <5>1, <5>2 DEF AskInv, IsIncoming
      <4> QED BY <4>1, <4>2
    <3>3. \A u \in Tasks : task'[u].pc \notin {"merge", "mint"}
      BY <1>8, <1>10, <1>12, <2>0
    <3> QED BY <3>1, <3>2, <3>3 DEF AskInv, Adopts
  <2>4. OneGrant'
    <3>1. \A x \in rpcs' : ~Handing(x) /\ x.kind # "ack" /\ ~Says(x, "completed")
      BY <1>4, <1>13, <2>0 DEF Handing, Says, Read
    <3>2. \A u \in Tasks : task'[u].pc # "mint"
      BY <1>8, <1>10, <2>0
    <3> QED BY <1>0, <1>1, <1>10, <3>1, <3>2 DEF OneGrant, Handing, Says
  <2> QED BY <1>15, <2>2, <2>3, <2>4 DEF OnceInv
<1>17. CASE merging
  <2>0. rpcs' = rpcs /\ q.pc = "merge" /\ row[d] # None /\ IsIncoming(row[d])
    BY <1>1, <1>3, <1>7, <1>17 DEF IsIncoming
  <2>1. ~Unasked(Peer(d)) /\ consent[Peer(d)] # 0
    BY <1>0, <1>2, <2>0 DEF SilentInv, Unasked
  <2>2. SilentInv'
    <3>1. \A e \in Devices : consent'[e] # 0
      BY <1>2, <1>9, <2>1
    <3> QED BY <3>1 DEF SilentInv
  <2>3. AskInv'
    <3>1. ASSUME NEW x \in rpcs, x.kind = "request"
          PROVE  x.to = d /\ x.stage \in Read
      BY <1>0, <1>11, <2>0, <3>1 DEF AskInv
    <3>2. ASSUME NEW x \in rpcs, x.kind = "request"
          PROVE  /\ row'[Peer(x.to)] # None => row'[Peer(x.to)].generation = 1
                 /\ Adopts(x) => x.generation = 1
                 /\ x.stage \notin Read /\ row'[x.to] # None =>
                       row'[x.to].generation = 1 /\ ~IsIncoming(row'[x.to])
                 /\ x.stage = "serving" => row'[x.to] = None
      BY <1>0, <1>8, <1>10, <3>1, <3>2 DEF AskInv, Read
    <3>3. \A u \in Tasks : task'[u].pc \in {"merge", "mint"} /\ row'[task'[u].on] # None =>
            task'[u].generation = row'[task'[u].on].generation
      BY <1>3, <1>5, <1>8, <1>10, <1>12
    <3> QED BY <1>0, <2>0, <3>2, <3>3 DEF AskInv, Adopts
  <2>4. OneGrant'
    <3>1. \A u \in Tasks : task'[u].pc # "mint"
      BY <1>8, <1>10, <2>0
    <3> QED BY <1>0, <1>1, <1>10, <1>13, <2>0, <3>1 DEF OneGrant, Handing, Says
  <2> QED BY <1>15, <2>2, <2>3, <2>4 DEF OnceInv
<1> QED BY <1>16, <1>17

-------------------------------------------------------------------------------
(* The steps that mint a grant.                                            *)

\* The first of the two grants, by the one device that accepted, or leads a merge.
LEMMA MintOnce ==
    ASSUME Shape, AgreedInv, OnceInv, NEW t \in Tasks, MintAndConsent(t), UNCHANGED consent,
           \/ task[t].pc = "mint"
           \/ task[t].pc = "merge" /\ task[t].on = 1 /\ row[1].issued = None
    PROVE  OnceInv'
<1> DEFINE d == task[t].on
           q == [task[t] EXCEPT !.pc = "consent"]
           z == Call("consent", t, Peer(d), None, task[t].generation, NewGrant(d), None)
           w == set_issued_grant(row[d], NewGrant(d))
<1>0. /\ CallerInv /\ SpentInv /\ FormedInv /\ SilentInv /\ AskInv /\ OneGrant
      /\ \A x \in rpcs : x \in RpcRecords /\ x.to \in Devices /\ Peer(x.to) \in Devices
      /\ 1 \in Devices /\ 2 \in Devices
  BY Peers DEF AgreedInv, RevokedInv, OnceInv, Shape, TypeOK, RpcRecords, Devices
<1>1. /\ row' = [row EXCEPT ![d] = w] /\ task' = [task EXCEPT ![t] = q]
      /\ rpcs' = rpcs \cup {z} /\ minted' = [minted EXCEPT ![d] = @ + 1]
  BY DEF MintAndConsent, CountMint, Goto
<1>2. /\ d \in Devices /\ Peer(d) \in Devices /\ Peer(Peer(d)) = d /\ Peer(d) # d
      /\ \A e \in Devices : e = d \/ e = Peer(d)
  BY Peers DEF Shape, TaskShape
<1>3. NewGrant(d) \in Grants /\ NewGrant(d) # None /\ NewGrant(d).issuer = d
  <2>1. NewGrant(d) \in Grants
    BY <1>2, Minting DEF MintAndConsent
  <2> QED BY <2>1, NoneIsNoGrant DEF NewGrant
<1>4. \A e \in Devices : consent[e] # 0 /\ row[e] # None /\ row[e] \in Rows
  BY <1>0, Agreed DEF Shape, TypeOK
<1>5. /\ w # None /\ w.generation = row[d].generation /\ w.state = row[d].state
      /\ w.held = row[d].held /\ w.issued = NewGrant(d)
  <2>1. w = [row[d] EXCEPT !.issued = NewGrant(d)] /\ row[d] \in Rows
    BY <1>2, <1>4 DEF set_issued_grant
  <2>2. /\ w.generation = row[d].generation /\ w.state = row[d].state
        /\ w.held = row[d].held /\ w.issued = NewGrant(d)
    BY <2>1 DEF Rows
  <2>3. w \in Rows
    BY <1>3, <2>1 DEF Rows
  <2> QED BY <2>2, <2>3, NoneIsNoRow
<1>6. q.pc = "consent" /\ q.on = d
  BY DEF Shape, TypeOK, TaskRecords
<1>7. /\ z.kind = "consent" /\ z.caller = t /\ z.to = Peer(d) /\ z.stage = "sent"
      /\ z.generation = task[t].generation /\ z.grant = NewGrant(d)
  BY DEF Call
<1>8. task[t].generation = row[d].generation
  BY <1>0, <1>2, <1>4 DEF AskInv
<1> HIDE DEF q, z, w
<1>9. /\ task'[t] = q /\ \A u \in Tasks \ {t} : task'[u] = task[u]
      /\ row'[d] = w /\ row'[Peer(d)] = row[Peer(d)]
      /\ minted'[d] = minted[d] + 1 /\ minted'[Peer(d)] = minted[Peer(d)]
  BY <1>1, <1>2 DEF Shape, TypeOK
<1>10. /\ \A e \in Devices : minted[e] = 0
       /\ \A u \in Tasks \ {t} : task[u].pc # "mint"
       /\ d = 2 => Unasked(2)
  <2>1. CASE task[t].pc = "mint"
    BY <1>0, <2>1 DEF OneGrant
  <2>2. CASE task[t].pc = "merge" /\ d = 1 /\ row[1].issued = None
    <3>1. ~Unasked(1) /\ ~Unasked(2)
      <4>1. task[t].on = 1 /\ task[t].pc = "merge" /\ 1 = Peer(2)
        BY <1>0, <2>2, Peers
      <4>2. ~Unasked(1)
        BY <4>1 DEF Unasked
      <4>3. ~Unasked(2)
        BY <4>1 DEF Unasked
      <4> QED BY <4>2, <4>3
    <3>2. minted[1] = 0
      BY <1>0, <2>2 DEF OneGrant
    <3>3. minted[2] = 0
      BY <1>0, <3>1, <3>2 DEF OneGrant
    <3>4. \A u \in Tasks : task[u].pc = "mint" => task[u].on \in Devices /\ Unasked(task[u].on)
      BY <1>0 DEF OneGrant, Shape, TaskShape
    <3>5. \A e \in Devices : ~Unasked(e)
      BY <3>1 DEF Devices
    <3> QED BY <2>2, <3>2, <3>3, <3>4, <3>5 DEF Devices
  <2> QED BY <2>1, <2>2
<1>11. \A x \in rpcs : ~Handing(x) /\ x.kind # "ack" /\ ~Says(x, "completed")
  BY <1>0, <1>10 DEF OneGrant
<1>12. \A x \in rpcs : x.caller # t
  BY <1>0, Alone
<1>13. FormedInv'
  <2>1. \A x \in rpcs : CallerStays(x)
    BY <1>0, <1>9, <1>12 DEF CallerStays, RpcRecords
  <2>2. \A x \in rpcs : Formed(x)'
    BY <1>0, <2>1, FormedStays
  <2>3. ASSUME NEW x \in rpcs', x = z PROVE Formed(x)'
    BY <1>2, <1>3, <1>6, <1>7, <1>9, <2>3 DEF Formed, Handing, Says, Read
  <2>4. \A x \in rpcs' : Formed(x)'
    BY <1>1, <2>2, <2>3
  <2>5. \A e \in Devices : row'[e] # None /\ row'[e].held # None => row'[e].held.issuer = Peer(e)
    BY <1>0, <1>2, <1>4, <1>5, <1>9 DEF FormedInv
  <2> QED BY <2>4, <2>5 DEF FormedInv, Formed, Handing, Says
<1>14. SilentInv'
  BY <1>4 DEF SilentInv
<1>15. ASSUME NEW e \in Devices
       PROVE  /\ row'[e] # None /\ row'[e].generation = row[e].generation /\ row'[e].state = row[e].state
              /\ IsIncoming(row'[e]) <=> IsIncoming(row[e])
              /\ IsOutgoing(row'[e]) <=> IsOutgoing(row[e])
  <2>1. row'[e] # None /\ row'[e].generation = row[e].generation /\ row'[e].state = row[e].state
    BY <1>2, <1>4, <1>5, <1>9
  <2> QED BY <1>4, <2>1 DEF IsIncoming, IsOutgoing
<1>16. AskInv'
  <2>1. ASSUME NEW x \in rpcs', x.kind = "request" PROVE x \in rpcs
    BY <1>1, <1>7, <2>1
  <2>2. ASSUME NEW x \in rpcs', x.kind = "request"
        PROVE  /\ row'[Peer(x.to)] # None => row'[Peer(x.to)].generation = 1
               /\ Adopts(x) => x.generation = 1
               /\ x.stage \notin Read /\ row'[x.to] # None =>
                     row'[x.to].generation = 1 /\ ~IsIncoming(row'[x.to])
               /\ x.stage = "serving" => row'[x.to] = None
    BY <1>0, <1>4, <1>15, <2>1, <2>2 DEF AskInv
  <2>3. ASSUME NEW u \in Tasks, task'[u].pc \in {"merge", "mint"}, row'[task'[u].on] # None
        PROVE  task'[u].generation = row'[task'[u].on].generation
    <3>1. task'[u] = task[u] /\ task[u].on \in Devices
      BY <1>6, <1>9, <2>3 DEF Shape, TaskShape
    <3> QED BY <1>0, <1>4, <1>15, <2>3, <3>1 DEF AskInv
  <2> QED BY <1>0, <2>1, <2>2, <2>3 DEF AskInv, Adopts
<1>17. OneGrant'
  <2>1. minted'[d] = 1 /\ minted'[Peer(d)] = 0
    BY <1>2, <1>9, <1>10
  <2>2. \A e \in Devices : minted'[e] \in {0, 1} /\ (minted'[e] = 1 => row'[e] # None /\ row'[e].issued # None)
    BY <1>2, <1>3, <1>5, <1>9, <2>1
  <2>3. \A u \in Tasks : task'[u].pc # "mint"
    BY <1>6, <1>9, <1>10
  <2>4. \A x \in rpcs' : Handing(x) \/ x.kind = "ack" \/ Says(x, "completed") => x = z
    BY <1>1, <1>11
  <2>5. z.kind # "ack" /\ ~Says(z, "completed")
    BY <1>7 DEF Says, Read
  <2>6. /\ minted'[z.to] = 0 /\ minted'[Peer(z.to)] = 1
        /\ row'[Peer(z.to)].generation = z.generation /\ z.stage # "serving"
    BY <1>2, <1>5, <1>7, <1>8, <1>9, <2>1
  <2>7. minted'[2] = 1 /\ minted'[1] = 0 => Unasked(2)'
    <3> SUFFICES ASSUME minted'[2] = 1, minted'[1] = 0 PROVE Unasked(2)'
      OBVIOUS
    <3>1. d = 2 /\ Peer(2) = 1 /\ Unasked(2)
      BY <1>0, <1>2, <1>10, <2>1, Peers
    <3>2. ~IsOutgoing(row'[2]) /\ ~IsIncoming(row'[Peer(2)])
      BY <1>0, <1>15, <3>1 DEF Unasked
    <3>3. \A x \in rpcs' : x.kind = "request" => x.to = 2 /\ ~Wedding(x)
      BY <1>1, <1>7, <3>1 DEF Unasked
    <3>4. \A u \in Tasks : /\ task'[u].on = 2 => task'[u].pc \notin {"request", "merge"}
                           /\ task'[u].on = Peer(2) => task'[u].pc # "merge"
      BY <1>6, <1>9, <3>1 DEF Unasked
    <3> QED BY <3>2, <3>3, <3>4 DEF Unasked, Wedding, Says
  <2>8. ~(minted'[1] = 1 /\ minted'[2] = 1)
    BY <1>0, <1>2, <2>1, Peers
  <2>9. ASSUME NEW x \in rpcs', Handing(x)
        PROVE  /\ minted'[x.to] = 0 /\ minted'[Peer(x.to)] = 1
               /\ row'[Peer(x.to)].generation = x.generation
               /\ x.stage = "serving" => row'[x.to] # None /\ row'[x.to].generation = x.generation
    BY <2>4, <2>6, <2>9
  <2>10. \A x, y \in rpcs' : Handing(x) /\ Handing(y) => x = y
    BY <2>4
  <2>11. \A x \in rpcs' : x.kind # "ack" /\ ~Says(x, "completed")
    BY <2>4, <2>5
  <2> QED BY <2>2, <2>3, <2>7, <2>8, <2>9, <2>10, <2>11 DEF OneGrant, Handing, Says
<1> QED BY <1>13, <1>14, <1>16, <1>17 DEF OnceInv

\* The second, for the consent that carries the first.
LEMMA StoreOnce ==
    ASSUME Shape, AgreedInv, OnceInv, NEW m \in rpcs, StoreConsent(m)
    PROVE  OnceInv'
<1> DEFINE d == m.to
           ours == NewGrant(d)
           w == set_issued_grant(set_held_grant(row[d], m.grant), ours)
           z == [m EXCEPT !.stage = "replied", !.answer = "completed", !.generation = m.generation,
                          !.grant = ours, !.proof = prove_held_possession(m.grant), !.lead = None]
<1>0. /\ CallerInv /\ SpentInv /\ FormedInv /\ SilentInv /\ AskInv /\ OneGrant
      /\ \A x \in rpcs : x \in RpcRecords /\ x.to \in Devices /\ Peer(x.to) \in Devices
      /\ 1 \in Devices /\ 2 \in Devices
      /\ d \in Devices /\ Peer(d) \in Devices /\ Peer(Peer(d)) = d /\ Peer(d) # d
      /\ \A e \in Devices : e = d \/ e = Peer(d)
  BY Peers DEF AgreedInv, RevokedInv, OnceInv, Shape, TypeOK, RpcRecords, Devices
<1>1. /\ Handing(m) /\ m.stage = "serving" /\ row' = [row EXCEPT ![d] = w]
      /\ minted' = [minted EXCEPT ![d] = @ + 1] /\ UNCHANGED <<task, consent>>
  BY DEF StoreConsent, CountMint, Handing
<1>2. /\ minted[d] = 0 /\ minted[Peer(d)] = 1 /\ row[Peer(d)].generation = row[d].generation
  BY <1>0, <1>1 DEF OneGrant
<1>3. ours \in Grants /\ ours # None /\ ours.issuer = d
  <2>1. ours \in Grants
    BY <1>0, Minting DEF StoreConsent
  <2> QED BY <2>1, NoneIsNoGrant DEF NewGrant
<1>4. \A e \in Devices : consent[e] # 0 /\ row[e] # None /\ row[e] \in Rows
  BY <1>0, <1>2, Agreed DEF Shape, TypeOK
<1>5. rpcs' \subseteq (rpcs \ {m}) \cup {z}
  BY <1>0, <1>4 DEF StoreConsent, Reply
<1>6. /\ w # None /\ w.generation = row[d].generation /\ w.state = row[d].state
      /\ w.held = m.grant /\ w.issued = ours
  <2> DEFINE h == [row[d] EXCEPT !.held = m.grant]
  <2>0. row[d] \in Rows /\ row[d] # None /\ m.grant \in Grants \cup {None}
    BY <1>0, <1>4 DEF RpcRecords
  <2>1. h \in Rows /\ h.generation = row[d].generation /\ h.state = row[d].state /\ h.held = m.grant
    BY <2>0 DEF Rows
  <2>2. set_held_grant(row[d], m.grant) = h /\ h # None
    BY <2>0, <2>1, NoneIsNoRow DEF set_held_grant
  <2> HIDE DEF h
  <2>3. w = [h EXCEPT !.issued = ours]
    BY <2>2 DEF set_issued_grant
  <2>4. w \in Rows /\ w.generation = h.generation /\ w.state = h.state /\ w.held = h.held /\ w.issued = ours
    BY <1>3, <2>1, <2>3 DEF Rows
  <2> QED BY <2>1, <2>4, NoneIsNoRow
<1>7. /\ z.kind = "consent" /\ z.caller = m.caller /\ z.to = d /\ z.stage = "replied" /\ z.answer = "completed"
      /\ z.grant = ours
  BY <1>0, <1>1 DEF RpcRecords, Handing
<1> HIDE DEF w, z, ours
<1>8. /\ row'[d] = w /\ row'[Peer(d)] = row[Peer(d)]
      /\ minted'[d] = 1 /\ minted'[Peer(d)] = 1
  BY <1>0, <1>1, <1>2 DEF Shape, TypeOK
<1>9. FormedInv'
  <2>1. \A x \in rpcs : CallerStays(x)
    BY <1>1 DEF CallerStays
  <2>2. \A x \in rpcs : Formed(x)'
    BY <1>0, <2>1, FormedStays
  <2>3. ASSUME NEW x \in rpcs', x = z PROVE Formed(x)'
    <3>1. Formed(m)
      BY <1>0 DEF FormedInv
    <3> QED BY <1>1, <1>3, <1>7, <2>3, <3>1 DEF Formed, Handing, Says
  <2>4. \A x \in rpcs' : Formed(x)'
    BY <1>5, <2>2, <2>3
  <2>5. w.held # None => w.held.issuer = Peer(d)
    BY <1>0, <1>1, <1>6 DEF FormedInv, Formed
  <2>6. \A e \in Devices : row'[e] # None /\ row'[e].held # None => row'[e].held.issuer = Peer(e)
    BY <1>0, <1>8, <2>5 DEF FormedInv
  <2> QED BY <2>4, <2>6 DEF FormedInv, Formed, Handing, Says
<1>10. SilentInv'
  BY <1>1, <1>4 DEF SilentInv
<1>11. ASSUME NEW e \in Devices
       PROVE  /\ row'[e] # None /\ row'[e].generation = row[e].generation
              /\ IsIncoming(row'[e]) <=> IsIncoming(row[e])
  <2>1. row'[e] # None /\ row'[e].generation = row[e].generation /\ row'[e].state = row[e].state
    BY <1>0, <1>4, <1>6, <1>8
  <2> QED BY <1>4, <2>1 DEF IsIncoming
<1>12. AskInv'
  <2>1. ASSUME NEW x \in rpcs', x.kind = "request" PROVE x \in rpcs
    BY <1>5, <1>7, <2>1
  <2>2. ASSUME NEW x \in rpcs', x.kind = "request"
        PROVE  /\ row'[Peer(x.to)] # None => row'[Peer(x.to)].generation = 1
               /\ Adopts(x) => x.generation = 1
               /\ x.stage \notin Read /\ row'[x.to] # None =>
                     row'[x.to].generation = 1 /\ ~IsIncoming(row'[x.to])
               /\ x.stage = "serving" => row'[x.to] = None
    BY <1>0, <1>4, <1>11, <2>1, <2>2 DEF AskInv
  <2>3. ASSUME NEW u \in Tasks, task[u].pc \in {"merge", "mint"}, row'[task[u].on] # None
        PROVE  task[u].generation = row'[task[u].on].generation
    <3>1. task[u].on \in Devices
      BY <2>3 DEF Shape, TaskShape
    <3> QED BY <1>0, <1>4, <1>11, <2>3, <3>1 DEF AskInv
  <2> QED BY <1>0, <1>1, <2>1, <2>2, <2>3 DEF AskInv, Adopts
<1>13. OneGrant'
  <2>1. \A e \in Devices : minted'[e] = 1
    BY <1>0, <1>8
  <2>2. \A e \in Devices : row'[e] # None /\ row'[e].issued # None
    BY <1>0, <1>2, <1>3, <1>6, <1>8, <1>11 DEF OneGrant
  <2>3. \A u \in Tasks : task'[u].pc # "mint"
    BY <1>0, <1>1, <1>2 DEF OneGrant
  <2>4. \A x \in rpcs' : ~Handing(x)
    BY <1>0, <1>1, <1>5, <1>7 DEF OneGrant, Handing
  <2>5. row'[1].generation = row'[2].generation
    <3>1. row'[d].generation = row'[Peer(d)].generation
      BY <1>0, <1>2, <1>11
    <3> QED BY <1>0, <3>1, Peers
  <2> QED BY <1>0, <2>1, <2>2, <2>3, <2>4, <2>5 DEF OneGrant, Handing, Says
<1> QED BY <1>9, <1>10, <1>12, <1>13 DEF OnceInv

-------------------------------------------------------------------------------
(* What a step may do to the session and the agreement of d.               *)

\* A row comes about under the lock only, the lock is taken for an eligible
\* session or for a row, agreeing spends the session, and an agreement that ends
\* leaves nothing behind.
Settles(d) ==
    /\ Known(d) => Known(d)'
    /\ Spent(d) => Spent(d)'
    /\ Locked(d)' => Locked(d) \/ eligible[d] # {}
    /\ row'[d] # None => row[d] # None \/ Locked(d)
    /\ \/ consent'[d] = consent[d] /\ (row'[d] = None => row[d] = None)
       \/ consent'[d] > consent[d] /\ row'[d] # None /\ Spent(d)'
       \/ consent'[d] = 0 /\ row'[d] = None /\ ~Locked(d)'

LEMMA LockedIsKnown ==
    ASSUME \A s, r \in Sessions : s = r, Shape, SessionInv, SpentInv, Undisturbed,
           NEW d \in Devices, Locked(d) \/ eligible[d] # {}
    PROVE  Known(d)
<1>1. ASSUME NEW s \in Sessions, receipts[d][s] > 0 PROVE Known(d)
  BY <1>1 DEF Known
<1>2. CASE eligible[d] # {}
  <2>1. PICK s \in eligible[d] : TRUE
    BY <1>2
  <2>2. s \in Sessions
    BY DEF Shape, TypeOK
  <2> QED BY <1>1, <2>2 DEF SessionInv
<1>3. ASSUME NEW t \in Tasks, task[t].on = d, task[t].pc \in {"upsert", "delete"} PROVE Known(d)
  <2>1. task[t].pc = "upsert"
    BY <1>3 DEF Undisturbed
  <2>2. task[t].session \in Sessions /\ receipts[d][task[t].session] > 0
    BY <1>3, <2>1 DEF SessionInv, Asking
  <2> QED BY <1>1, <2>2
<1>4. ASSUME NEW m \in rpcs, m.to = d, m.kind = "request", m.stage = "serving" PROVE Known(d)
  BY <1>4 DEF SpentInv
<1> QED BY <1>2, <1>3, <1>4 DEF Locked

\* So an agreement stays spent, and what is lost stays lost.
LEMMA SettledKept ==
    ASSUME \A s, r \in Sessions : s = r, Shape, Shape', SessionInv, SpentInv, Undisturbed,
           \A d \in Devices : Settles(d)
    PROVE  SpentInv' /\ (Lost => Lost')
<1>1. ASSUME NEW d \in Devices PROVE consent[d] \in Nat /\ consent'[d] \in Nat
  BY DEF Shape, TypeOK
<1>2. ASSUME NEW d \in Devices, consent'[d] > 0 PROVE row'[d] # None /\ Spent(d)'
  BY <1>1, <1>2 DEF Settles, SpentInv
<1>3. ASSUME NEW d \in Devices, row'[d] # None PROVE Known(d)'
  <2>1. Known(d)
    BY <1>3, LockedIsKnown DEF Settles, SpentInv
  <2> QED BY <2>1 DEF Settles
<1>4. ASSUME NEW m \in rpcs', m.kind = "request", m.stage = "serving" PROVE Known(m.to)'
  <2>1. m.to \in Devices
    BY DEF Shape, TypeOK, RpcRecords
  <2>2. Locked(m.to)'
    BY <1>4 DEF Locked
  <2>3. Known(m.to)
    BY <2>1, <2>2, LockedIsKnown DEF Settles
  <2> QED BY <2>1, <2>3 DEF Settles
<1>5. SpentInv'
  BY <1>2, <1>3, <1>4 DEF SpentInv
<1>6. ASSUME NEW d \in Devices, consent[d] > 1 PROVE consent'[d] > 1 \/ Dead(d)'
  <2>1. Spent(d)'
    BY <1>1, <1>6 DEF SpentInv, Settles
  <2> QED BY <1>1, <1>6, <2>1 DEF Settles, Dead
<1>7. ASSUME NEW d \in Devices, Dead(d) PROVE Dead(d)'
  BY <1>7 DEF Settles, Dead, Spent
<1> QED BY <1>5, <1>6, <1>7 DEF Lost

\* Sessions and locks, for a step that makes nobody eligible.
LEMMA LockSettles ==
    ASSUME Shape, Undisturbed', RevokedStep, NEW d \in Devices
    PROVE  /\ Known(d) => Known(d)'
           /\ Spent(d) => Spent(d)'
           /\ Locked(d)' => Locked(d) \/ eligible[d] # {}
<1>1. receipts' = receipts /\ eligible'[d] \subseteq eligible[d]
  BY DEF RevokedStep, AskKept
<1>2. (Known(d) => Known(d)') /\ (Spent(d) => Spent(d)')
  BY <1>1 DEF Known, Spent
<1>3. ASSUME NEW t \in Tasks, task'[t].on = d, task'[t].pc \in {"upsert", "delete"} PROVE Locked(d)
  <2>1. task'[t].pc = "upsert"
    BY <1>3 DEF Undisturbed
  <2>2. task'[t] = task[t]
    BY <2>1 DEF RevokedStep, AskKept, Asking
  <2> QED BY <1>3, <2>2 DEF Locked
<1>4. ASSUME NEW x \in rpcs', x.to = d, x.kind = "request", x.stage = "serving"
      PROVE  Locked(d) \/ eligible[d] # {}
  <2>1. Follows(x)
    BY <1>4 DEF RevokedStep, CallsStep, Starts
  <2>2. PICK y \in rpcs : Derived(x, y)
    BY <2>1 DEF Follows
  <2>3. y.kind = "request" /\ y.to = d /\ (y.stage = "serving" \/ x.session \in eligible[d])
    BY <1>4, <2>2 DEF Derived, Served
  <2> QED BY <2>3 DEF Locked
<1>5. Locked(d)' => Locked(d) \/ eligible[d] # {}
  BY <1>3, <1>4 DEF Locked
<1> QED BY <1>2, <1>5

LEMMA StillSettles ==
    ASSUME Shape, Undisturbed', RevokedStep, UNCHANGED consent,
           \A e \in Devices : row'[e] = None <=> row[e] = None
    PROVE  \A e \in Devices : Settles(e)
  BY LockSettles DEF Settles

\* The statements that change a row leave one there.
LEMMA RowLasts ==
    ASSUME Shape, NEW d \in Devices,
           \/ \E g \in Generations : \E s : row' = [row EXCEPT ![d] = set_pending_generation(@, s, g)]
           \/ \E k \in Grants \cup {None} : row' = [row EXCEPT ![d] = set_issued_grant(@, k)]
           \/ \E k \in Grants \cup {None} : row' = [row EXCEPT ![d] = set_held_grant(@, k)]
           \/ \E k, l \in Grants \cup {None} :
                 row' = [row EXCEPT ![d] = set_issued_grant(set_held_grant(@, k), l)]
           \/ activate_saved(d)
           \/ UNCHANGED row
    PROVE  \A e \in Devices : row'[e] = None <=> row[e] = None
<1>0. row \in [Devices -> Rows \cup {None}] /\ None \notin Rows
  BY NoneIsNoRow DEF Shape, TypeOK
<1>1. /\ \A r \in Rows : \A k \in Grants \cup {None} :
             set_issued_grant(r, k) \in Rows /\ set_held_grant(r, k) \in Rows
      /\ \A r \in Rows : [r EXCEPT !.state = "saved"] \in Rows
      /\ \A r \in Rows : \A g \in Generations : \A s : PendingIn(r, s) => upsert(r, r.state, g, s) \in Rows
  <2>1. ASSUME NEW r \in Rows, NEW k \in Grants \cup {None}
        PROVE  set_issued_grant(r, k) \in Rows /\ set_held_grant(r, k) \in Rows
    <3>1. [r EXCEPT !.issued = k] \in Rows /\ [r EXCEPT !.held = k] \in Rows
      BY DEF Rows
    <3> QED BY <1>0, <3>1 DEF set_issued_grant, set_held_grant
  <2>2. \A r \in Rows : [r EXCEPT !.state = "saved"] \in Rows
    BY DEF Rows, States
  <2>3. ASSUME NEW r \in Rows, NEW g \in Generations, NEW s, PendingIn(r, s)
        PROVE  upsert(r, r.state, g, s) \in Rows
    <3>1. s \in Sessions /\ r.state \in States
      BY <2>3 DEF PendingIn, Rows
    <3> QED BY <3>1, RowTypes
  <2> QED BY <2>1, <2>2, <2>3
<1>2. ASSUME NEW r, row' = [row EXCEPT ![d] = r], r = None <=> row[d] = None
      PROVE  \A e \in Devices : row'[e] = None <=> row[e] = None
  BY <1>0, <1>2
<1>3. CASE \E g \in Generations : \E s : row' = [row EXCEPT ![d] = set_pending_generation(@, s, g)]
  <2>0. PICK g \in Generations : \E s : row' = [row EXCEPT ![d] = set_pending_generation(@, s, g)]
    BY <1>3
  <2>1. PICK s : row' = [row EXCEPT ![d] = set_pending_generation(@, s, g)]
    BY <2>0
  <2>2. set_pending_generation(row[d], s, g) = None <=> row[d] = None
    BY <1>0, <1>1 DEF set_pending_generation, PendingIn, IsPending
  <2> QED BY <1>2, <2>1, <2>2
<1>4. CASE \E k \in Grants \cup {None} : row' = [row EXCEPT ![d] = set_issued_grant(@, k)]
  <2>1. PICK k \in Grants \cup {None} : row' = [row EXCEPT ![d] = set_issued_grant(@, k)]
    BY <1>4
  <2>2. set_issued_grant(row[d], k) = None <=> row[d] = None
    <3>1. row[d] \in Rows => set_issued_grant(row[d], k) \in Rows
      BY <1>1
    <3> QED BY <1>0, <3>1 DEF set_issued_grant
  <2> QED BY <1>2, <2>1, <2>2
<1>5. CASE \E k \in Grants \cup {None} : row' = [row EXCEPT ![d] = set_held_grant(@, k)]
  <2>1. PICK k \in Grants \cup {None} : row' = [row EXCEPT ![d] = set_held_grant(@, k)]
    BY <1>5
  <2>2. set_held_grant(row[d], k) = None <=> row[d] = None
    <3>1. row[d] \in Rows => set_held_grant(row[d], k) \in Rows
      BY <1>1
    <3> QED BY <1>0, <3>1 DEF set_held_grant
  <2> QED BY <1>2, <2>1, <2>2
<1>6. CASE \E k, l \in Grants \cup {None} :
             row' = [row EXCEPT ![d] = set_issued_grant(set_held_grant(@, k), l)]
  <2>1. PICK k, l \in Grants \cup {None} : row' = [row EXCEPT ![d] = set_issued_grant(set_held_grant(@, k), l)]
    BY <1>6
  <2>2. set_held_grant(row[d], k) \in Rows \cup {None} /\ (set_held_grant(row[d], k) = None <=> row[d] = None)
    <3>1. row[d] \in Rows => set_held_grant(row[d], k) \in Rows
      BY <1>1
    <3> QED BY <1>0, <3>1 DEF set_held_grant
  <2> DEFINE h == set_held_grant(row[d], k)
  <2> HIDE DEF h
  <2>3. set_issued_grant(h, l) = None <=> row[d] = None
    <3>1. h \in Rows => set_issued_grant(h, l) \in Rows
      BY <1>1
    <3> QED BY <1>0, <2>2, <3>1 DEF set_issued_grant, h
  <2> QED BY <1>2, <2>1, <2>3 DEF h
<1>7. CASE activate_saved(d)
  <2>1. set_state(row[d], "saved") = None <=> row[d] = None
    BY <1>0, <1>1 DEF set_state
  <2> QED BY <1>2, <1>7, <2>1 DEF activate_saved
<1> QED BY <1>3, <1>4, <1>5, <1>6, <1>7

\* The tasks.
LEMMA TaskSettles ==
    ASSUME \A s, r \in Sessions : s = r, Shape, AgreedInv, NEW t \in Tasks, TaskStep(t) \/ GiveUp(t)
    PROVE  (\A e \in Devices : Settles(e)) /\ UNCHANGED tombstones
<1> DEFINE d == task[t].on
<1>0. /\ Undisturbed /\ Undisturbed' /\ RevokedInv /\ SessionInv /\ SpentInv
      /\ task[t].pc # "idle" => d \in Devices
      /\ \A m \in rpcs : m.generation \in Generations /\ m.grant \in Grants \cup {None}
  BY TaskUndisturbed DEF AgreedInv, RevokedInv, Shape, TaskShape, TypeOK, RpcRecords
<1>1. ~RevokeRow(t) /\ ~DeleteRow(t)
  BY <1>0 DEF Undisturbed, RevokeRow, DeleteRow
<1>2. CASE ReserveRequest(t) /\ ~(End(t, rpcs) /\ UNCHANGED eligible)
  <2>1. PICK s \in eligible[d] :
          /\ eligible' = [eligible EXCEPT ![d] = @ \ {s}]
          /\ task' = [task EXCEPT ![t].pc = "upsert", ![t].session = s,
                        ![t].generation = next_generation(row[d], tombstones[d])]
          /\ UNCHANGED <<row, tombstones, rpcs, receipts, consent>>
    BY <1>2 DEF ReserveRequest, consume_session
  <2>2. d \in Devices
    BY <1>0, <1>2 DEF ReserveRequest
  <2>3. task'[t].on = d /\ \A u \in Tasks \ {t} : task'[u] = task[u]
    BY <2>1 DEF Shape, TypeOK, TaskRecords
  <2>4. ASSUME NEW e \in Devices PROVE Settles(e)
    <3>1. eligible'[e] \subseteq eligible[e]
      BY <2>1, <2>2 DEF Shape, TypeOK
    <3>2. (Known(e) => Known(e)') /\ (Spent(e) => Spent(e)')
      BY <2>1, <3>1 DEF Known, Spent
    <3>3. Locked(e)' => Locked(e) \/ eligible[e] # {}
      BY <2>1, <2>3 DEF Locked
    <3> QED BY <2>1, <3>2, <3>3 DEF Settles
  <2> QED BY <2>1, <2>4
<1>3. ASSUME ReserveRequest(t) => End(t, rpcs) /\ UNCHANGED eligible
      PROVE  RevokedStep
  BY <1>0, <1>3, TaskRevoked
<1>4. CASE ReserveRequest(t) /\ End(t, rpcs) /\ UNCHANGED eligible
  <2>1. UNCHANGED <<row, tombstones, consent>>
    BY <1>4 DEF ReserveRequest
  <2> QED BY <1>0, <1>3, <1>4, <2>1, StillSettles
<1>5. CASE UpsertRequest(t)
  <2> DEFINE s == task[t].session
             w == upsert(row[d], "pending_outgoing", task[t].generation, s)
  <2>0. ~ReserveRequest(t) /\ d \in Devices
    BY <1>0, <1>5 DEF UpsertRequest, ReserveRequest
  <2>1. /\ row' = [row EXCEPT ![d] = w] /\ task[t].pc = "upsert"
        /\ consent' = [consent EXCEPT ![d] = @ + 1]
        /\ UNCHANGED <<tombstones, eligible, receipts>>
    BY <1>5 DEF UpsertRequest, Agree
  <2>2. s \in Sessions /\ s \notin eligible[d] /\ receipts[d][s] > 0
    BY <1>0, <2>1 DEF SessionInv, Asking
  <2>3. ASSUME NEW e \in Devices, e = d PROVE Spent(e)'
    <3>1. eligible[e] = {}
      BY <2>0, <2>2, <2>3 DEF Shape, TypeOK
    <3>2. Known(e)
      BY <2>2, <2>3 DEF Known
    <3> QED BY <2>1, <3>1, <3>2 DEF Spent, Known
  <2>4. w # None
    <3>1. row[d] \in Rows \cup {None} /\ task[t].generation \in Generations
      BY <2>0 DEF Shape, TypeOK, TaskRecords
    <3>2. "pending_outgoing" \in States
      BY DEF States, Pending
    <3>3. w \in Rows
      BY <2>2, <3>1, <3>2, RowTypes
    <3> QED BY <3>3, NoneIsNoRow
  <2>5. Locked(d)
    BY <2>1 DEF Locked
  <2>6. RevokedStep
    BY <1>3, <2>0
  <2> HIDE DEF w
  <2>7. row'[d] = w /\ consent'[d] = consent[d] + 1 /\ consent[d] \in Nat
    BY <2>0, <2>1 DEF Shape, TypeOK
  <2>8. ASSUME NEW e \in Devices PROVE Settles(e)
    <3>1. CASE e = d
      BY <1>0, <2>3, <2>4, <2>5, <2>6, <2>7, <3>1, LockSettles DEF Settles
    <3>2. CASE e # d
      <4>1. row'[e] = row[e] /\ consent'[e] = consent[e]
        BY <2>0, <2>1, <3>2 DEF Shape, TypeOK
      <4> QED BY <1>0, <2>6, <4>1, LockSettles DEF Settles
    <3> QED BY <3>1, <3>2
  <2> QED BY <2>1, <2>8
<1>6. ASSUME ~ReserveRequest(t), ~UpsertRequest(t)
      PROVE  /\ d \in Devices /\ UNCHANGED <<tombstones, consent>>
             /\ \A e \in Devices : row'[e] = None <=> row[e] = None
  <2>1. d \in Devices
    BY <1>0, <1>1, <1>6 DEF TaskStep, RequestAnswered, complete_simultaneous_merge, MintGrant, ConsentAnswered,
       store_held_grant, AckAnswered, Disconnected, GiveUp
  <2>2. UNCHANGED <<tombstones, consent>>
    BY <1>1, <1>6 DEF TaskStep, RequestAnswered, complete_simultaneous_merge, MintGrant, ConsentAnswered,
       store_held_grant, AckAnswered, Disconnected, GiveUp, store, bounds
  <2>3. \A e \in Devices : row'[e] = None <=> row[e] = None
    <3>1. ASSUME MintAndConsent(t) PROVE \A e \in Devices : row'[e] = None <=> row[e] = None
      <4>1. NewGrant(d) \in Grants \cup {None} /\ row' = [row EXCEPT ![d] = set_issued_grant(@, NewGrant(d))]
        BY <2>1, <3>1, Minting DEF MintAndConsent
      <4> HIDE DEF d
      <4> QED BY <2>1, <4>1, RowLasts
    <3>2. ASSUME UNCHANGED row \/ activate_saved(d) PROVE \A e \in Devices : row'[e] = None <=> row[e] = None
      BY <2>1, <3>2, RowLasts
    <3>3. CASE RequestAnswered(t)
      <4>1. PICK m \in rpcs : \/ adopt_pending_generation(d, task[t].session, m.generation)
                              \/ activate_saved(d) \/ UNCHANGED row
        BY <3>3 DEF RequestAnswered
      <4>2. CASE adopt_pending_generation(d, task[t].session, m.generation)
        BY <1>0, <2>1, <4>2, RowLasts DEF adopt_pending_generation
      <4> QED BY <3>2, <4>1, <4>2
    <3>4. CASE store_held_grant(t)
      <4>1. PICK m \in rpcs : row' = [row EXCEPT ![d] = set_held_grant(@, m.grant)]
        BY <3>4 DEF store_held_grant
      <4> HIDE DEF d
      <4> QED BY <1>0, <2>1, <4>1, RowLasts
    <3>5. CASE complete_simultaneous_merge(t) \/ MintGrant(t)
      BY <3>1, <3>2, <3>5 DEF complete_simultaneous_merge, MintGrant
    <3>6. CASE ConsentAnswered(t) \/ AckAnswered(t)
      BY <3>2, <3>6 DEF ConsentAnswered, AckAnswered
    <3>7. CASE Disconnected(t) \/ GiveUp(t)
      BY <3>2, <3>7 DEF Disconnected, GiveUp, store
    <3> QED BY <1>1, <1>6, <3>3, <3>4, <3>5, <3>6, <3>7 DEF TaskStep
  <2> QED BY <2>1, <2>2, <2>3
<1>7. CASE ~ReserveRequest(t) /\ ~UpsertRequest(t)
  BY <1>0, <1>3, <1>6, <1>7, StillSettles
<1> QED BY <1>2, <1>4, <1>5, <1>7

\* The handlers.
LEMMA HandlerSettles ==
    ASSUME Shape, AgreedInv, NEW m \in rpcs, Handle(m)
    PROVE  (\A e \in Devices : Settles(e)) /\ UNCHANGED tombstones
<1> DEFINE d == m.to
<1>0. /\ Undisturbed /\ Undisturbed' /\ RevokedInv /\ RevokedStep
      /\ d \in Devices /\ m \in RpcRecords /\ m.generation \in Generations /\ m.grant \in Grants \cup {None}
  BY HandlerUndisturbed, HandlerRevoked DEF AgreedInv, Shape, TypeOK, RpcRecords
<1>1. m.kind # "revoke" /\ (m.kind = "consent" /\ m.stage = "sent" => m.grant # None)
  BY <1>0 DEF Undisturbed, Harmless
<1>2. UNCHANGED <<tombstones, consent>>
  BY <1>1 DEF Handle, AdmitRequest, ServeRequest, UpsertIncoming, CheckConsent, StoreConsent, CheckAck, ApplyAck,
     handle_remote_revoke, store
<1>3. CASE UpsertIncoming(m)
  <2> DEFINE w == upsert(row[d], "pending_incoming", m.generation, m.session)
  <2>1. row' = [row EXCEPT ![d] = w] /\ Locked(d)
    BY <1>3 DEF UpsertIncoming, Locked
  <2>2. w # None
    <3>1. row[d] \in Rows \cup {None} /\ m.session \in Sessions
      BY <1>0, <1>3 DEF Shape, TypeOK, CallShape, UpsertIncoming
    <3>2. "pending_incoming" \in States
      BY DEF States, Pending
    <3>3. w \in Rows
      BY <1>0, <3>1, <3>2, RowTypes
    <3> QED BY <3>3, NoneIsNoRow
  <2> HIDE DEF w
  <2>3. \A e \in Devices : /\ row'[e] = None => row[e] = None
                           /\ row'[e] # None => row[e] # None \/ Locked(e)
    BY <1>0, <2>1, <2>2 DEF Shape, TypeOK
  <2> QED BY <1>0, <1>2, <2>3, LockSettles DEF Settles
<1>4. CASE ~UpsertIncoming(m)
  <2>1. ASSUME UNCHANGED row \/ activate_saved(d) PROVE \A e \in Devices : row'[e] = None <=> row[e] = None
    BY <1>0, <2>1, RowLasts
  <2>2. CASE ServeRequest(m)
    <3>1. CASE JoinPending(m)
      <4>1. Max2(row[d].generation, m.generation) \in Generations
        <5>1. row[d] \in Rows
          BY <1>0, <3>1 DEF JoinPending, PendingIn, IsPending, Shape, TypeOK
        <5> QED BY <1>0, <5>1 DEF Max2, Rows
      <4>2. \E g \in Generations : \E s : row' = [row EXCEPT ![d] = set_pending_generation(@, s, g)]
        BY <3>1, <4>1 DEF JoinPending
      <4> HIDE DEF d
      <4>3. \A e \in Devices : row'[e] = None <=> row[e] = None
        BY <1>0, <4>2, RowLasts
      <4> QED BY <1>0, <1>2, <4>3, StillSettles
    <3> QED BY <1>0, <1>2, <2>1, <2>2, <3>1, StillSettles DEF ServeRequest
  <2>3. CASE StoreConsent(m)
    <3>1. NewGrant(d) \in Grants \cup {None} /\ row' = [row EXCEPT ![d] = set_issued_grant(set_held_grant(@, m.grant), NewGrant(d))]
      BY <1>0, <2>3, Minting DEF StoreConsent
    <3> HIDE DEF d
    <3>2. \A e \in Devices : row'[e] = None <=> row[e] = None
      BY <1>0, <3>1, RowLasts
    <3> QED BY <1>0, <1>2, <3>2, StillSettles
  <2>4. CASE AdmitRequest(m) \/ CheckConsent(m) \/ CheckAck(m) \/ ApplyAck(m)
    <3>1. UNCHANGED row \/ activate_saved(d)
      BY <1>1, <2>4 DEF AdmitRequest, CheckConsent, CheckAck, ApplyAck, store
    <3> QED BY <1>0, <1>2, <2>1, <3>1, StillSettles
  <2>5. ~handle_remote_revoke(m)
    BY <1>1 DEF handle_remote_revoke
  <2> QED BY <1>4, <2>2, <2>3, <2>4, <2>5 DEF Handle
<1> QED BY <1>2, <1>3, <1>4

\* The clock and the restarts.
LEMMA ClockSettles ==
    ASSUME MaxReceipts <= 1, Shape, AgreedInv, NEW d \in Devices,
           \/ \E s \in Sessions : activate_after_completed_transfer(d, s) \/ expire_due(d, s)
           \/ ExpirePending(d)
           \/ Restart(d)
    PROVE  (\A e \in Devices : Settles(e)) /\ UNCHANGED tombstones
<1>0. Undisturbed /\ Undisturbed' /\ RevokedInv
  BY ClockUndisturbed DEF AgreedInv
<1>1. ASSUME NEW s \in Sessions, activate_after_completed_transfer(d, s)
      PROVE  (\A e \in Devices : Settles(e)) /\ UNCHANGED tombstones
  <2>1. /\ receipts' = [receipts EXCEPT ![d][s] = @ + 1]
        /\ \A e \in Devices \ {d} : eligible'[e] = eligible[e]
        /\ UNCHANGED <<row, tombstones, task, rpcs, consent>>
    BY <1>1 DEF activate_after_completed_transfer, Shape, TypeOK
  <2>2. receipts[d][s] \in Nat /\ receipts[d][s] < 1 /\ receipts \in [Devices -> [Sessions -> Nat]]
    BY <1>1, PairingAssumption DEF activate_after_completed_transfer, Shape, TypeOK
  <2>3. ~Known(d)
    BY <2>2 DEF Known
  <2>4. ASSUME NEW e \in Devices PROVE Settles(e)
    <3>1. Known(e) => Known(e)'
      BY <2>1, <2>2 DEF Known
    <3>2. Spent(e) => Spent(e)'
      BY <2>1, <2>3, <3>1 DEF Spent
    <3>3. Locked(e)' => Locked(e)
      BY <2>1 DEF Locked
    <3> QED BY <2>1, <3>1, <3>2, <3>3 DEF Settles
  <2> QED BY <2>1, <2>4
<1>2. ASSUME NEW s \in Sessions, expire_due(d, s)
      PROVE  (\A e \in Devices : Settles(e)) /\ UNCHANGED tombstones
  <2>1. UNCHANGED <<row, tombstones, consent>>
    BY <1>2 DEF expire_due
  <2>2. RevokedStep
    BY <1>0, <1>2, ClockRevoked
  <2> QED BY <1>0, <2>1, <2>2, StillSettles
<1>3. CASE ExpirePending(d) \/ Restart(d)
  <2>1. RevokedStep
    BY <1>0, <1>3, ClockRevoked
  <2>2. /\ \E r : row' = [row EXCEPT ![d] = r]
        /\ row'[d] = None \/ row'[d] = row[d]
        /\ consent' = [consent EXCEPT ![d] = IF row'[d] = None THEN 0 ELSE @]
        /\ UNCHANGED tombstones
    BY <1>3 DEF ExpirePending, Restart, Disagree, Shape, TypeOK
  <2>3. row'[d] = None => ~Locked(d)'
    <3>1. CASE ExpirePending(d)
      <4>1. Quiet /\ UNCHANGED <<task, rpcs>>
        BY <3>1 DEF ExpirePending
      <4> QED BY <4>1 DEF Quiet, Idle, Locked
    <3>2. CASE Restart(d)
      BY <3>2, RestartUnlocks
    <3> QED BY <1>3, <3>1, <3>2
  <2>4. ASSUME NEW e \in Devices PROVE Settles(e)
    <3>1. CASE e = d
      <4>1. row'[d] = None => consent'[d] = 0 /\ ~Locked(d)'
        BY <2>2, <2>3 DEF Shape, TypeOK
      <4>2. row'[d] # None => row'[d] = row[d] /\ consent'[d] = consent[d]
        BY <2>2 DEF Shape, TypeOK
      <4> QED BY <1>0, <2>1, <3>1, <4>1, <4>2, LockSettles DEF Settles
    <3>2. CASE e # d
      <4>1. row'[e] = row[e] /\ consent'[e] = consent[e]
        BY <2>2, <3>2 DEF Shape, TypeOK
      <4> QED BY <1>0, <2>1, <4>1, LockSettles DEF Settles
    <3> QED BY <3>1, <3>2
  <2> QED BY <2>2, <2>4
<1> QED BY <1>1, <1>2, <1>3

\* The two commands of a user who only agrees.
LEMMA UserSettles ==
    ASSUME \A s, r \in Sessions : s = r, Shape, AgreedInv, NEW d \in Devices, NEW t \in Tasks,
           request_pairing(t, d) \/ Accept(t, d)
    PROVE  (\A e \in Devices : Settles(e)) /\ UNCHANGED tombstones /\ Undisturbed'
<1>0. Undisturbed /\ RevokedInv /\ SpentInv
  BY DEF AgreedInv
<1>1. RevokedStep
  <2>1. UserStep(d)
    BY DEF UserStep
  <2> QED BY <1>0, <2>1, UserRevoked
<1>2. Undisturbed'
  <2>1. UNCHANGED rpcs /\ \E pc \in {"reserve", "mint"} : \E s, g : Begin(t, d, pc, s, g)
    BY DEF request_pairing, Accept
  <2>2. \A u \in Tasks : task'[u].pc \notin {"forget", "delete"}
    BY <1>0, <2>1 DEF Begin, Undisturbed, Shape, TypeOK
  <2> QED BY <1>0, <2>1, <2>2 DEF Undisturbed
<1>3. CASE request_pairing(t, d)
  <2>1. UNCHANGED <<row, tombstones, consent>>
    BY <1>3 DEF request_pairing, store
  <2> QED BY <1>1, <1>2, <2>1, StillSettles
<1>4. CASE Accept(t, d)
  <2>1. /\ IsIncoming(row[d]) /\ eligible' = [eligible EXCEPT ![d] = @ \ {row[d].session}]
        /\ consent' = [consent EXCEPT ![d] = @ + 1] /\ UNCHANGED <<row, tombstones, receipts>>
    BY <1>4 DEF Accept, consume_session, Agree
  <2>2. Known(d)
    BY <1>0, <2>1 DEF SpentInv, IsIncoming
  <2>3. eligible'[d] = {}
    <3>1. row[d].session \in Sessions /\ eligible[d] \in SUBSET Sessions
      BY <2>1 DEF Shape, TypeOK, IsIncoming, Rows
    <3> QED BY <2>1, <3>1 DEF Shape, TypeOK
  <2>4. Spent(d)'
    BY <2>1, <2>2, <2>3 DEF Spent, Known
  <2>5. consent'[d] > consent[d] /\ row'[d] # None
    BY <2>1 DEF Shape, TypeOK, IsIncoming
  <2>6. ASSUME NEW e \in Devices PROVE Settles(e)
    <3>1. row'[e] = row[e] /\ (e # d => consent'[e] = consent[e])
      BY <2>1 DEF Shape, TypeOK
    <3> QED BY <1>1, <1>2, <2>4, <2>5, <3>1, LockSettles DEF Settles
  <2> QED BY <1>2, <2>1, <2>6
<1> QED BY <1>3, <1>4

-------------------------------------------------------------------------------
(* A step of two users who only agree.                                     *)

\* A command is not taken back, and any other than the two is noted as such.
LEMMA OnlyAgreeing ==
    ASSUME Shape, Agreeing', Next
    PROVE  /\ Agreeing
           /\ \A d \in Devices : UserStep(d) => \E t \in Tasks : request_pairing(t, d) \/ Accept(t, d)
<1>1. ASSUME NEW d \in Devices, NEW c, Command(d, c) PROVE c \in {"request", "accept"}
  <2>1. PICK n \in 1 .. MaxCommands : commands' = commands \cup {<<d, c, n>>}
    BY <1>1 DEF Command
  <2>2. <<d, c, n>>[2] \in {"request", "accept"}
    BY <2>1 DEF Agreeing
  <2> QED BY <2>2
<1>2. ASSUME NEW d \in Devices, UserStep(d) PROVE \E t \in Tasks : request_pairing(t, d) \/ Accept(t, d)
  <2>1. \A c \in {"forget", "block", "decline", "dismiss", "unblock", "rotate"} : ~Command(d, c)
    BY <1>1
  <2> QED BY <1>2, <2>1 DEF UserStep, ForgetDevice, BlockDevice, Decline, DeclineEligibility, UnblockDevice,
         rotate_relationship_grant
<1>3. commands \subseteq commands'
  <2>1. ASSUME NEW d \in Devices, NEW c, Command(d, c) PROVE commands \subseteq commands'
    BY <2>1 DEF Command
  <2>2. ASSUME NEW d \in Devices, UserStep(d) PROVE commands \subseteq commands'
    BY <2>1, <2>2 DEF UserStep, request_pairing, Accept, ForgetDevice, BlockDevice, Decline, DeclineEligibility,
       UnblockDevice, rotate_relationship_grant
  <2>3. ASSUME NEW t \in Tasks, TaskStep(t) \/ GiveUp(t) PROVE commands' = commands
    BY <2>3 DEF TaskStep, ReserveRequest, UpsertRequest, RequestAnswered, complete_simultaneous_merge, MintGrant,
       ConsentAnswered, store_held_grant, AckAnswered, RevokeRow, DeleteRow, Disconnected, GiveUp, bounds
  <2>4. ASSUME NEW m \in rpcs, Handle(m) PROVE commands' = commands
    BY <2>4 DEF Handle, AdmitRequest, ServeRequest, UpsertIncoming, CheckConsent, StoreConsent, CheckAck, ApplyAck,
       handle_remote_revoke, bounds
  <2>5. ASSUME NEW d \in Devices,
               (\E s \in Sessions : activate_after_completed_transfer(d, s) \/ expire_due(d, s))
                 \/ ExpirePending(d) \/ Restart(d)
        PROVE  commands' = commands
    BY <2>5 DEF activate_after_completed_transfer, expire_due, ExpirePending, Restart, bounds
  <2> QED BY <2>2, <2>3, <2>4, <2>5 DEF Next
<1> QED BY <1>2, <1>3 DEF Agreeing

LEMMA AgreedKept ==
    ASSUME \A s, r \in Sessions : s = r, MaxReceipts <= 1, Shape, Agreeing', AgreedInv, Next
    PROVE  AgreedInv' /\ (Lost => Lost')
<1>0. Undisturbed /\ RevokedInv /\ SessionInv /\ SpentInv /\ Shape'
  BY StepKeeps DEF AgreedInv, RevokedInv
<1>1. (\A e \in Devices : Settles(e)) /\ UNCHANGED tombstones /\ Undisturbed'
  <2>1. ASSUME NEW t \in Tasks, TaskStep(t) \/ GiveUp(t)
        PROVE  (\A e \in Devices : Settles(e)) /\ UNCHANGED tombstones /\ Undisturbed'
    BY <1>0, <2>1, TaskSettles, TaskUndisturbed
  <2>2. ASSUME NEW m \in rpcs, Handle(m)
        PROVE  (\A e \in Devices : Settles(e)) /\ UNCHANGED tombstones /\ Undisturbed'
    BY <1>0, <2>2, HandlerSettles, HandlerUndisturbed
  <2>3. ASSUME NEW d \in Devices,
               \/ \E s \in Sessions : activate_after_completed_transfer(d, s) \/ expire_due(d, s)
               \/ ExpirePending(d)
               \/ Restart(d)
        PROVE  (\A e \in Devices : Settles(e)) /\ UNCHANGED tombstones /\ Undisturbed'
    BY <1>0, <2>3, ClockSettles, ClockUndisturbed
  <2>4. ASSUME NEW d \in Devices, UserStep(d)
        PROVE  (\A e \in Devices : Settles(e)) /\ UNCHANGED tombstones /\ Undisturbed'
    BY <2>4, OnlyAgreeing, UserSettles
  <2> QED BY <2>1, <2>2, <2>3, <2>4 DEF Next
<1>2. SpentInv' /\ (Lost => Lost')
  BY <1>0, <1>1, SettledKept
<1>3. RevokedInv'
  <2>1. RevocationsComplete
    BY <1>0 DEF RevocationsComplete, Undisturbed
  <2> QED BY <1>0, <2>1, NextRevoked
<1>4. \A d \in Devices : tombstones'[d] = {}
  BY <1>1 DEF AgreedInv
<1> QED BY <1>1, <1>2, <1>3, <1>4 DEF AgreedInv

LEMMA OnceStep ==
    ASSUME \A s, r \in Sessions : s = r, Shape, Agreeing', AgreedInv, OnceInv, ~Lost', Next
    PROVE  OnceInv'
<1>0. Shape' /\ SpentInv /\ SilentInv
  BY StepKeeps DEF AgreedInv, OnceInv
<1>1. GoesOn => OnceInv'
  BY <1>0, OnceKept
<1>2. ASSUME NEW t \in Tasks, TaskStep(t) \/ GiveUp(t) PROVE OnceInv'
  <2>1. ~RevokeRow(t) /\ ~DeleteRow(t)
    BY DEF AgreedInv, Undisturbed, RevokeRow, DeleteRow
  <2>2. CASE UpsertRequest(t)
    BY <2>2, UpsertOnce
  <2>3. CASE MintGrant(t)
    BY <2>3, MintOnce DEF MintGrant
  <2>4. CASE complete_simultaneous_merge(t) /\ MintAndConsent(t)
    <3>1. task[t].pc = "merge" /\ UNCHANGED consent
      BY <2>4 DEF complete_simultaneous_merge
    <3>2. task[t].on \in Devices
      BY <3>1 DEF Shape, TaskShape
    <3>3. row[task[t].on] # None
      BY <1>0, <3>1, Agreed
    <3>4. CASE End(t, rpcs)
      BY <2>4, <3>1, <3>4 DEF MintAndConsent, End, Goto, Idle, Shape, TypeOK
    <3>5. CASE ~End(t, rpcs)
      <4>1. row[task[t].on].issued = None /\ ~(task[t].on >= Peer(task[t].on))
        BY <2>4, <3>3, <3>5 DEF complete_simultaneous_merge
      <4>2. task[t].on = 1
        BY <3>2, <4>1, Peers DEF Peer
      <4> QED BY <2>4, <3>1, <4>1, <4>2, MintOnce
    <3> QED BY <3>4, <3>5
  <2>5. CASE complete_simultaneous_merge(t) /\ ~MintAndConsent(t)
    BY <1>1, <2>5, TaskOnce
  <2>6. CASE GiveUp(t)
    BY <1>1, <2>6, TaskOnce
  <2>7. CASE ReserveRequest(t) \/ RequestAnswered(t) \/ ConsentAnswered(t) \/ store_held_grant(t)
               \/ AckAnswered(t) \/ Disconnected(t)
    BY <1>1, <2>7, TaskOnce
  <2> QED BY <1>2, <2>1, <2>2, <2>3, <2>4, <2>5, <2>6, <2>7 DEF TaskStep
<1>3. ASSUME NEW m \in rpcs, Handle(m) PROVE OnceInv'
  BY <1>1, <1>3, HandlerOnce, StoreOnce
<1>4. ASSUME NEW d \in Devices,
             \/ \E s \in Sessions : activate_after_completed_transfer(d, s) \/ expire_due(d, s)
             \/ ExpirePending(d)
             \/ Restart(d)
             \/ \E t \in Tasks : request_pairing(t, d)
      PROVE  OnceInv'
  BY <1>1, <1>4, ClockOnce
<1>5. ASSUME NEW d \in Devices, UserStep(d) PROVE OnceInv'
  <2>1. PICK t \in Tasks : request_pairing(t, d) \/ Accept(t, d)
    BY <1>5, OnlyAgreeing
  <2> QED BY <1>4, <2>1, AcceptOnce
<1> QED BY <1>2, <1>3, <1>4, <1>5 DEF Next

LEMMA MatchInit == Init => MatchInv
<1> SUFFICES ASSUME Init PROVE AgreedInv /\ OnceInv
  BY DEF MatchInv
<1>1. AgreedInv
  BY DEF Init, AgreedInv, Undisturbed, Harmless, SpentInv, RevokedInv, SessionInv, CallerInv, LockedInv, LiveInv,
     AnswerInv, Asking, Idle
<1>2. FormedInv
  BY DEF Init, FormedInv
<1>3. ASSUME NEW d \in Devices
      PROVE  /\ Unasked(d) /\ minted[d] = 0 /\ row[d] = None /\ row[Peer(d)] = None
  BY <1>3, Peers DEF Init, Unasked, IsOutgoing, IsIncoming, Idle
<1>4. SilentInv
  BY <1>3 DEF Init, SilentInv, Idle
<1>5. AskInv
  BY DEF Init, AskInv, Idle
<1>6. OneGrant
  BY <1>3 DEF Init, OneGrant, Idle, Devices
<1> QED BY <1>1, <1>2, <1>4, <1>5, <1>6 DEF OnceInv

LEMMA MatchKept ==
    ASSUME \A s, r \in Sessions : s = r, MaxReceipts <= 1, Shape, MatchInv, [Next]_vars
    PROVE  MatchInv'
<1>1. CASE UNCHANGED vars
  <2>1. UNCHANGED <<row, tombstones, eligible, blocked, minted, task, rpcs, receipts, consent, commands>>
    BY <1>1 DEF vars
  <2>2. AgreedInv => AgreedInv'
    BY <2>1 DEF AgreedInv, Undisturbed, Harmless, SpentInv, Known, Spent, RevokedInv, SessionInv, CallerInv,
       LockedInv, LiveInv, AnswerInv, Above, Dying, SaysSaved
  <2>3. Lost => Lost'
    BY <2>1 DEF Lost, Dead, Spent, Known, Locked
  <2>4. OnceInv => OnceInv'
    BY <2>1 DEF OnceInv, FormedInv, Formed, SilentInv, AskInv, Adopts, OneGrant, Handing, Says, Wedding, Unasked
  <2>5. Agreeing' => Agreeing
    BY <2>1 DEF Agreeing
  <2> QED BY <2>2, <2>3, <2>4, <2>5 DEF MatchInv
<1>2. CASE Next
  <2> SUFFICES ASSUME Agreeing' PROVE AgreedInv' /\ (Lost' \/ OnceInv')
    BY DEF MatchInv
  <2>1. Agreeing /\ AgreedInv /\ (Lost \/ OnceInv)
    BY <1>2, OnlyAgreeing DEF MatchInv
  <2>2. AgreedInv' /\ (Lost => Lost')
    BY <1>2, <2>1, AgreedKept
  <2>3. OnceInv /\ ~Lost' => OnceInv'
    BY <1>2, <2>1, OnceStep
  <2> QED BY <2>1, <2>2, <2>3
<1> QED BY <1>1, <1>2

\* Two devices that share one session, whose users only ask and accept, each
\* once: whoever asks, at once or after one another, whatever call is lost,
\* late, answered without its caller or cut off by a restart, and however many
\* tasks run, once both rows are saved with a grant of the peer and no call is
\* under way, each proof is honoured by the other device (complete_exchange,
\* handle_pairing_consent, handle_pairing_ack and complete_simultaneous_merge).
\* The devices then have minted one grant each, the second in the generation of
\* the first, and the rows keep exactly those two.
THEOREM SavedGrantsAlwaysMatch ==
    ASSUME \A s, r \in Sessions : s = r, MaxReceipts <= 1
    PROVE  Spec => []SavedGrantsMatch
<1>1. Shape /\ MatchInv => SavedGrantsMatch
  <2> SUFFICES ASSUME Shape, MatchInv, OnlyAgreed, \A d \in Devices : IsSaved(row[d]) /\ row[d].held # None
               PROVE  CanProve(1, 2) /\ CanProve(2, 1)
    BY DEF SavedGrantsMatch
  <2>0. 1 \in Devices /\ 2 \in Devices /\ Peer(1) = 2 /\ Peer(2) = 1
    BY DEF Devices, Peer
  <2>1. AgreedInv /\ (Lost \/ OnceInv)
    BY DEF MatchInv, Agreeing, OnlyAgreed
  <2>2. \A d \in Devices : consent[d] = 1 /\ row[d] # None /\ row[d] \in Rows
    BY DEF OnlyAgreed, IsSaved, Shape, TypeOK
  <2>3. ~Lost
    BY <2>2 DEF Lost, Dead
  <2>4. FormedInv /\ OneGrant
    BY <2>1, <2>3 DEF OnceInv
  <2>5. ASSUME NEW d \in Devices
        PROVE  minted[Peer(d)] = 1 /\ row[d].held = [issuer |-> Peer(d), n |-> 1]
    <3>1. row[d].held \in Grants /\ row[d].held.issuer = Peer(d)
      BY <2>2, <2>4 DEF FormedInv, Rows
    <3>2. row[d].held.n <= minted[Peer(d)]
      BY <2>2, <3>1 DEF Shape, GrantInv
    <3>3. minted[Peer(d)] \in {0, 1}
      BY <2>4, Peers DEF OneGrant
    <3>4. row[d].held.n = 1 /\ minted[Peer(d)] = 1
      BY <3>1, <3>2, <3>3, StoreBounds DEF Grants
    <3> QED BY <3>1, <3>4 DEF Grants
  <2>6. ASSUME NEW d \in Devices PROVE row[d].issued = [issuer |-> d, n |-> 1]
    <3>0. Peer(d) \in Devices /\ Peer(Peer(d)) = d
      BY Peers
    <3>1. minted[d] = 1
      BY <2>5, <3>0
    <3>2. row[d].issued \in Grants
      BY <2>2, <2>4, <3>1 DEF OneGrant, Rows
    <3>3. row[d].issued.issuer = d /\ row[d].issued.n <= minted[d]
      BY <2>2, <3>2, NoneIsNoGrant DEF Shape, GrantInv
    <3> QED BY <3>1, <3>2, <3>3, StoreBounds DEF Grants
  <2>7. row[1].generation = row[2].generation
    BY <2>0, <2>4, <2>5 DEF OneGrant
  <2>8. tombstones[1] = {} /\ tombstones[2] = {}
    BY <2>0, <2>1 DEF AgreedInv
  <2>9. row[1].held = row[2].issued /\ row[2].held = row[1].issued
    BY <2>0, <2>5, <2>6
  <2> QED BY <2>0, <2>2, <2>6, <2>7, <2>8, <2>9 DEF CanProve, verify_issued_possession, reject_replayed_generation,
         verify_relationship_grant, prove_held_possession
<1>2. Shape /\ MatchInv /\ [Next]_vars => Shape' /\ MatchInv'
  BY StepKeeps, MatchKept
<1> QED BY <1>1, <1>2, InitHolds, MatchInit, PTL DEF Spec

-------------------------------------------------------------------------------
(* The merge a handler waits for.                                          *)

Leading == {"merge", "consent", "ack"}

\* A handler that waits for its merge waits for a task of its own device that
\* is at it.
LeadInv ==
    \A m \in rpcs : m.stage = "merging" =>
        m.lead \in Tasks /\ task[m.lead].pc \in Leading /\ task[m.lead].on = m.to

\* The calls keep what they wait for, or lose their caller.
Waiting(R) ==
    \A x \in R : x.stage = "merging" =>
        \E y \in rpcs : y.stage = "merging" /\ y.lead = x.lead /\ y.to = x.to

LEMMA WaitingCalls ==
    ASSUME Shape
    PROVE  /\ Waiting(rpcs)
           /\ \A R, S : Waiting(S) /\ R \subseteq S => Waiting(R)
           /\ \A R, S : Waiting(R) /\ Waiting(S) => Waiting(R \cup S)
           /\ \A z : z.stage # "merging" => Waiting({z})
           /\ \A m \in rpcs : Waiting({[m EXCEPT !.caller = None]})
           /\ \A m \in rpcs : \A answer, g, grant, proof : Waiting(Reply(rpcs, m, answer, g, grant, proof))
           /\ \A m \in rpcs : \A stage \in {"admitted", "serving", "verified"} :
                 Waiting((rpcs \ {m}) \cup {[m EXCEPT !.stage = stage]})
<1>1. Waiting(rpcs) /\ \A R, S : Waiting(S) /\ R \subseteq S => Waiting(R)
  BY DEF Waiting
<1>2. \A R, S : Waiting(R) /\ Waiting(S) => Waiting(R \cup S)
  BY DEF Waiting
<1>3. \A z : z.stage # "merging" => Waiting({z})
  BY DEF Waiting
<1>4. \A m \in rpcs : Waiting({[m EXCEPT !.caller = None]})
  BY DEF Waiting, Shape, TypeOK, RpcRecords
<1>5. ASSUME NEW m \in rpcs, NEW answer, NEW g, NEW grant, NEW proof
      PROVE  Waiting(Reply(rpcs, m, answer, g, grant, proof))
  <2> DEFINE z == [m EXCEPT !.stage = "replied", !.answer = answer, !.generation = g,
                            !.grant = grant, !.proof = proof, !.lead = None]
  <2>1. z.stage = "replied"
    BY DEF Shape, TypeOK, RpcRecords
  <2> HIDE DEF z
  <2>2. Waiting((rpcs \ {m}) \cup {z}) /\ Waiting(rpcs \ {m})
    BY <2>1 DEF Waiting
  <2>3. Reply(rpcs, m, answer, g, grant, proof) \subseteq (rpcs \ {m}) \cup {z}
    BY DEF Reply, z
  <2> QED BY <1>1, <2>2, <2>3
<1>6. ASSUME NEW m \in rpcs, NEW stage \in {"admitted", "serving", "verified"}
      PROVE  Waiting((rpcs \ {m}) \cup {[m EXCEPT !.stage = stage]})
  <2>1. [m EXCEPT !.stage = stage].stage # "merging"
    BY DEF Shape, TypeOK, RpcRecords
  <2> QED BY <1>1, <1>2, <1>3, <2>1
<1> QED BY <1>1, <1>2, <1>3, <1>4, <1>5, <1>6

\* Tasks that lead go on, and calls keep what they wait for.
LEMMA LeadGoesOn ==
    ASSUME Shape, LeadInv, Waiting(rpcs'),
           \A t \in Tasks : task[t].pc \in Leading => task'[t].pc \in Leading /\ task'[t].on = task[t].on
    PROVE  LeadInv'
  BY DEF LeadInv, Waiting

\* A task that ends answers the handler that waits for it.
LEMMA LeadEnds ==
    ASSUME Shape, LeadInv, NEW t \in Tasks, NEW R \in SUBSET RpcRecords, Waiting(R), End(t, R)
    PROVE  LeadInv'
<1>1. \A u \in Tasks \ {t} : task'[u] = task[u]
  BY DEF End, Shape, TypeOK
<1>2. ASSUME NEW x \in rpcs', x.stage = "merging" PROVE x \in R /\ x.lead # t
  <2>1. PICK y \in R : x = IF y.lead = t
                           THEN [y EXCEPT !.stage = "replied", !.answer = "merged", !.lead = None]
                           ELSE y
    BY DEF End, Done
  <2>2. CASE y.lead = t
    BY <1>2, <2>1, <2>2 DEF RpcRecords
  <2>3. CASE y.lead # t
    BY <2>1, <2>3
  <2> QED BY <2>2, <2>3
<1>3. ASSUME NEW x \in rpcs', x.stage = "merging"
      PROVE  x.lead \in Tasks /\ task'[x.lead].pc \in Leading /\ task'[x.lead].on = x.to
  <2>1. PICK y \in rpcs : y.stage = "merging" /\ y.lead = x.lead /\ y.to = x.to
    BY <1>2, <1>3 DEF Waiting
  <2> QED BY <1>1, <1>2, <1>3, <2>1 DEF LeadInv
<1> QED BY <1>3 DEF LeadInv

LEMMA TaskLeads ==
    ASSUME Shape, LeadInv, NEW t \in Tasks, TaskStep(t) \/ GiveUp(t)
    PROVE  LeadInv'
<1>0. rpcs \subseteq RpcRecords /\ Waiting(rpcs) /\ \A R \in SUBSET rpcs : Waiting(R)
  BY WaitingCalls DEF Shape, TypeOK
<1>1. ASSUME NEW R \in SUBSET rpcs, End(t, R) PROVE LeadInv'
  BY <1>0, <1>1, LeadEnds
<1>2. ASSUME NEW r, task' = [task EXCEPT ![t] = r], Waiting(rpcs'),
             task[t].pc \in Leading => r.pc \in Leading /\ r.on = task[t].on
      PROVE  LeadInv'
  <2>1. \A u \in Tasks : task[u].pc \in Leading => task'[u].pc \in Leading /\ task'[u].on = task[u].on
    BY <1>2 DEF Shape, TypeOK
  <2> QED BY <1>2, <2>1, LeadGoesOn
<1>3. ASSUME NEW pc, Goto(t, pc), Waiting(rpcs'), task[t].pc \in Leading => pc \in Leading PROVE LeadInv'
  <2> DEFINE r == [task[t] EXCEPT !.pc = pc]
  <2>1. task' = [task EXCEPT ![t] = r] /\ r.pc = pc /\ r.on = task[t].on
    BY <1>3 DEF Goto, Shape, TypeOK, TaskRecords
  <2> HIDE DEF r
  <2> QED BY <1>2, <1>3, <2>1
<1>4. ASSUME NEW z, z.stage = "sent", NEW R \in SUBSET rpcs PROVE Waiting(R \cup {z})
  BY <1>0, <1>4, WaitingCalls
<1>5. ASSUME NEW kind, NEW to, NEW s, NEW g, NEW grant, NEW proof PROVE Call(kind, t, to, s, g, grant, proof).stage = "sent"
  BY DEF Call
<1>6. ASSUME MintAndConsent(t) PROVE LeadInv'
  <2>1. Goto(t, "consent") /\ Waiting(rpcs')
    BY <1>4, <1>5, <1>6 DEF MintAndConsent
  <2> QED BY <1>3, <2>1 DEF Leading
<1>7. CASE ReserveRequest(t)
  <2>1. CASE End(t, rpcs)
    BY <1>1, <2>1
  <2>2. CASE ~End(t, rpcs)
    <3>1. task[t].pc = "reserve" /\ UNCHANGED rpcs /\ \E r : task' = [task EXCEPT ![t] = r]
      BY <1>7, <2>2 DEF ReserveRequest
    <3> QED BY <1>0, <1>2, <3>1 DEF Leading
  <2> QED BY <2>1, <2>2
<1>8. CASE UpsertRequest(t)
  <2>1. task[t].pc = "upsert" /\ \E pc : Goto(t, pc)
    BY <1>8 DEF UpsertRequest
  <2>2. Waiting(rpcs')
    BY <1>0, <1>4, <1>5, <1>8 DEF UpsertRequest
  <2> QED BY <1>3, <2>1, <2>2 DEF Leading
<1>9. CASE RequestAnswered(t)
  <2>1. task[t].pc = "request"
    BY <1>9 DEF RequestAnswered
  <2>2. PICK m \in rpcs : \/ End(t, rpcs \ {m})
                          \/ rpcs' = rpcs \ {m} /\ \E r : task' = [task EXCEPT ![t] = r]
    BY <1>9 DEF RequestAnswered
  <2>3. rpcs \ {m} \in SUBSET rpcs
    OBVIOUS
  <2> QED BY <1>0, <1>1, <1>2, <2>1, <2>2, <2>3 DEF Leading
<1>10. CASE complete_simultaneous_merge(t) \/ MintGrant(t)
  BY <1>1, <1>6, <1>10 DEF complete_simultaneous_merge, MintGrant
<1>11. CASE ConsentAnswered(t)
  <2>1. PICK m \in rpcs : \/ End(t, rpcs \ {m})
                          \/ rpcs' = (rpcs \ {m}) \cup {[m EXCEPT !.stage = "verified"]} /\ UNCHANGED task
    BY <1>11 DEF ConsentAnswered
  <2>2. CASE End(t, rpcs \ {m})
    BY <1>1, <2>2
  <2>3. CASE rpcs' = (rpcs \ {m}) \cup {[m EXCEPT !.stage = "verified"]} /\ UNCHANGED task
    <3>1. Waiting(rpcs')
      BY <2>3, WaitingCalls
    <3> QED BY <2>3, <3>1, LeadGoesOn
  <2> QED BY <2>1, <2>2, <2>3
<1>12. CASE store_held_grant(t)
  <2>1. PICK m \in rpcs :
          \/ End(t, rpcs \ {m})
          \/ Goto(t, "ack") /\ \E g, proof : rpcs' = (rpcs \ {m}) \cup
                                   {Call("ack", t, Peer(task[t].on), None, g, None, proof)}
    BY <1>12 DEF store_held_grant
  <2>2. CASE End(t, rpcs \ {m})
    BY <1>1, <2>2
  <2>3. CASE ~End(t, rpcs \ {m})
    <3>1. Waiting(rpcs')
      BY <1>4, <1>5, <2>1, <2>3
    <3> QED BY <1>3, <2>1, <2>3, <3>1 DEF Leading
  <2> QED BY <2>2, <2>3
<1>13. CASE AckAnswered(t)
  <2>1. PICK m \in rpcs : End(t, rpcs \ {m})
    BY <1>13 DEF AckAnswered
  <2> QED BY <1>1, <2>1
<1>14. CASE RevokeRow(t)
  <2>1. task[t].pc = "forget" /\ (End(t, rpcs) \/ (UNCHANGED rpcs /\ \E r : task' = [task EXCEPT ![t] = r]))
    BY <1>14 DEF RevokeRow
  <2> QED BY <1>0, <1>1, <1>2, <2>1 DEF Leading
<1>15. CASE DeleteRow(t)
  <2> DEFINE z == Call("revoke", None, Peer(task[t].on), None, task[t].generation, None, None)
  <2>1. task[t].pc = "delete" /\ task' = [task EXCEPT ![t] = Idle] /\ rpcs' = rpcs \cup {z} /\ z.stage = "sent"
    BY <1>15 DEF DeleteRow, Call
  <2> HIDE DEF z
  <2> QED BY <1>2, <1>4, <2>1 DEF Leading
<1>16. CASE Disconnected(t)
  BY <1>1, <1>16 DEF Disconnected
<1>17. CASE GiveUp(t)
  <2>1. PICK m \in rpcs : End(t, rpcs \ {m}) \/ End(t, (rpcs \ {m}) \cup {[m EXCEPT !.caller = None]})
    BY <1>17 DEF GiveUp
  <2>2. CASE End(t, rpcs \ {m})
    BY <1>1, <2>2
  <2>3. CASE End(t, (rpcs \ {m}) \cup {[m EXCEPT !.caller = None]})
    <3>1. Waiting((rpcs \ {m}) \cup {[m EXCEPT !.caller = None]})
      BY <1>0, WaitingCalls
    <3>2. (rpcs \ {m}) \cup {[m EXCEPT !.caller = None]} \in SUBSET RpcRecords
      BY <1>0 DEF RpcRecords
    <3> QED BY <2>3, <3>1, <3>2, LeadEnds
  <2> QED BY <2>1, <2>2, <2>3
<1> QED BY <1>7, <1>8, <1>9, <1>10, <1>11, <1>12, <1>13, <1>14, <1>15, <1>16, <1>17 DEF TaskStep

LEMMA HandlerLeads ==
    ASSUME Shape, LeadInv, NEW m \in rpcs, Handle(m)
    PROVE  LeadInv'
<1>1. ASSUME UNCHANGED task, Waiting(rpcs') PROVE LeadInv'
  BY <1>1, LeadGoesOn
<1>2. \A answer, g, grant, proof : Waiting(Reply(rpcs, m, answer, g, grant, proof))
  BY WaitingCalls
<1>3. \A stage \in {"admitted", "serving"} : Waiting((rpcs \ {m}) \cup {[m EXCEPT !.stage = stage]})
  BY WaitingCalls
<1>4. Waiting(rpcs \ {m})
  BY WaitingCalls
<1>5. CASE ServeRequest(m)
  <2> DEFINE d == m.to
  <2>1. ASSUME NEW t \in Tasks, NEW g, Begin(t, d, "merge", m.session, g),
               rpcs' = (rpcs \ {m}) \cup {[m EXCEPT !.stage = "merging", !.generation = g, !.lead = t]}
        PROVE  LeadInv'
    <3> DEFINE z == [m EXCEPT !.stage = "merging", !.generation = g, !.lead = t]
    <3>1. z.lead = t /\ z.to = d
      BY DEF Shape, TypeOK, RpcRecords
    <3>2. rpcs' = (rpcs \ {m}) \cup {z}
      BY <2>1
    <3> HIDE DEF z
    <3>3. /\ task[t].pc = "idle" /\ task'[t].pc = "merge" /\ task'[t].on = d
          /\ \A u \in Tasks \ {t} : task'[u] = task[u]
      BY <2>1 DEF Begin, Idle, Shape, TypeOK
    <3>4. ASSUME NEW x \in rpcs', x.stage = "merging"
          PROVE  x.lead \in Tasks /\ task'[x.lead].pc \in Leading /\ task'[x.lead].on = x.to
      <4>1. CASE x = z
        BY <3>1, <3>3, <4>1 DEF Leading
      <4>2. CASE x # z
        <5>1. x \in rpcs /\ x.lead \in Tasks /\ x.lead # t
          BY <3>2, <3>3, <3>4, <4>2 DEF LeadInv, Leading
        <5> QED BY <3>3, <3>4, <5>1 DEF LeadInv
      <4> QED BY <4>1, <4>2
    <3> QED BY <3>4 DEF LeadInv
  <2>2. CASE JoinPending(m)
    <3>1. \/ \E answer, g : rpcs' = Reply(rpcs, m, answer, g, None, None) /\ UNCHANGED task
          \/ \E t \in Tasks : \E g :
                /\ Begin(t, d, "merge", m.session, g)
                /\ rpcs' = (rpcs \ {m}) \cup {[m EXCEPT !.stage = "merging", !.generation = g, !.lead = t]}
      BY <2>2 DEF JoinPending
    <3> QED BY <1>1, <1>2, <2>1, <3>1
  <2>3. CASE ~JoinPending(m)
    <3>1. UNCHANGED task
      BY <1>5, <2>3 DEF ServeRequest
    <3>2. \/ \E answer, g : rpcs' = Reply(rpcs, m, answer, g, None, None)
          \/ \E g : rpcs' = (rpcs \ {m}) \cup {[m EXCEPT !.stage = "serving", !.generation = g]}
      BY <1>5, <2>3 DEF ServeRequest, Reject
    <3>3. ASSUME NEW g, rpcs' = (rpcs \ {m}) \cup {[m EXCEPT !.stage = "serving", !.generation = g]}
          PROVE  Waiting(rpcs')
      <4>1. [m EXCEPT !.stage = "serving", !.generation = g].stage # "merging"
        BY DEF Shape, TypeOK, RpcRecords
      <4> QED BY <1>4, <3>3, <4>1, WaitingCalls
    <3>4. Waiting(rpcs')
      <4>1. CASE \E answer, g : rpcs' = Reply(rpcs, m, answer, g, None, None)
        BY <1>2, <4>1
      <4> QED BY <3>2, <3>3, <4>1
    <3> QED BY <1>1, <3>1, <3>4
  <2> QED BY <2>2, <2>3
<1>6. CASE ~ServeRequest(m)
  <2>1. UNCHANGED task
    BY <1>6 DEF Handle, AdmitRequest, UpsertIncoming, CheckConsent, StoreConsent, CheckAck, ApplyAck, handle_remote_revoke
  <2>2. \/ \E answer, g, grant, proof : rpcs' = Reply(rpcs, m, answer, g, grant, proof)
        \/ \E stage \in {"admitted", "serving"} : rpcs' = (rpcs \ {m}) \cup {[m EXCEPT !.stage = stage]}
        \/ rpcs' = rpcs \ {m}
    BY <1>6 DEF Handle, AdmitRequest, UpsertIncoming, CheckConsent, StoreConsent, CheckAck, ApplyAck,
       handle_remote_revoke, Reject
  <2> QED BY <1>1, <1>2, <1>3, <1>4, <2>1, <2>2
<1> QED BY <1>5, <1>6

LEMMA ClockLeads ==
    ASSUME Shape, LeadInv, NEW d \in Devices,
           \/ \E s \in Sessions : activate_after_completed_transfer(d, s) \/ expire_due(d, s)
           \/ ExpirePending(d)
           \/ Restart(d)
    PROVE  LeadInv'
<1>1. CASE (\E s \in Sessions : activate_after_completed_transfer(d, s) \/ expire_due(d, s)) \/ ExpirePending(d)
  <2>1. UNCHANGED <<task, rpcs>>
    BY <1>1 DEF activate_after_completed_transfer, expire_due, ExpirePending
  <2> QED BY <2>1 DEF LeadInv
<1>2. CASE Restart(d)
  <2> DEFINE dead == {t \in Tasks : task[t].on = d}
             served == {m \in rpcs : m.to = d /\ m.stage \in {"admitted", "serving", "merging"}}
             orphans == {m \in rpcs : m.caller \in dead}
             D == orphans \ served
  <2>1. /\ task' = [t \in Tasks |-> IF t \in dead THEN Idle ELSE task[t]]
        /\ rpcs' = (rpcs \ (served \cup orphans)) \cup
                   {[m EXCEPT !.caller = None] : m \in {x \in D : x.stage \notin Read}}
    BY <1>2 DEF Restart
  <2>2. ASSUME NEW x \in rpcs', x.stage = "merging"
        PROVE  \E y \in rpcs : y.stage = "merging" /\ y.lead = x.lead /\ y.to = x.to /\ y.to # d
    <3>1. CASE x \in rpcs \ (served \cup orphans)
      BY <2>2, <3>1
    <3>2. CASE x \notin rpcs \ (served \cup orphans)
      <4>1. PICK m \in D : x = [m EXCEPT !.caller = None]
        BY <2>1, <3>2
      <4>2. x.stage = m.stage /\ x.lead = m.lead /\ x.to = m.to
        BY <4>1 DEF Shape, TypeOK, RpcRecords
      <4> QED BY <2>2, <4>2
    <3> QED BY <3>1, <3>2
  <2>3. \A t \in Tasks : task[t].on # d => task'[t] = task[t]
    BY <2>1
  <2>4. ASSUME NEW x \in rpcs', x.stage = "merging"
        PROVE  x.lead \in Tasks /\ task'[x.lead].pc \in Leading /\ task'[x.lead].on = x.to
    BY <2>2, <2>3, <2>4 DEF LeadInv
  <2> QED BY <2>4 DEF LeadInv
<1> QED BY <1>1, <1>2

LEMMA UserLeads ==
    ASSUME Shape, LeadInv, NEW d \in Devices, UserStep(d)
    PROVE  LeadInv'
<1>1. ASSUME NEW t \in Tasks, NEW pc, NEW s, NEW g, Begin(t, d, pc, s, g), UNCHANGED rpcs PROVE LeadInv'
  <2>1. task[t].pc = "idle" /\ \A u \in Tasks \ {t} : task'[u] = task[u]
    BY <1>1 DEF Begin, Idle, Shape, TypeOK
  <2> QED BY <1>1, <2>1 DEF LeadInv, Leading
<1>2. ASSUME UNCHANGED task, Waiting(rpcs') PROVE LeadInv'
  BY <1>2, LeadGoesOn
<1>3. CASE Decline(d)
  <2> DEFINE z == Call("consent", None, Peer(d), None, row[d].generation, None, None)
  <2>1. UNCHANGED task /\ rpcs' = rpcs \cup {z} /\ z.stage # "merging"
    BY <1>3 DEF Decline, Call
  <2> HIDE DEF z
  <2> QED BY <1>2, <2>1, WaitingCalls
<1>4. CASE DeclineEligibility(d) \/ UnblockDevice(d) \/ rotate_relationship_grant(d)
  <2>1. UNCHANGED <<task, rpcs>>
    BY <1>4 DEF DeclineEligibility, UnblockDevice, rotate_relationship_grant
  <2> QED BY <2>1 DEF LeadInv
<1>5. ASSUME NEW t \in Tasks,
             request_pairing(t, d) \/ Accept(t, d) \/ ForgetDevice(t, d) \/ BlockDevice(t, d)
      PROVE  LeadInv'
  BY <1>1, <1>5 DEF request_pairing, Accept, ForgetDevice, BlockDevice
<1> QED BY <1>3, <1>4, <1>5 DEF UserStep

\* Whatever is lost, given up or restarted, a handler of a request that waits for
\* its merge waits for a running task of its own device, whose end answers it.
THEOREM MergeAnswersItsHandler == Spec => []LeadInv
<1>1. Init => LeadInv
  BY DEF Init, LeadInv
<1>2. ASSUME Shape, LeadInv, [Next]_vars PROVE LeadInv'
  <2>1. CASE UNCHANGED vars
    BY <1>2, <2>1 DEF vars, LeadInv
  <2>2. CASE Next
    BY <1>2, <2>2, TaskLeads, HandlerLeads, ClockLeads, UserLeads DEF Next
  <2> QED BY <1>2, <2>1, <2>2
<1>3. Shape /\ [Next]_vars => Shape'
  BY StepKeeps
<1> QED BY <1>1, <1>2, <1>3, InitHolds, PTL DEF Spec
===============================================================================
