------------------------ MODULE PreparationGate_proofs ------------------------
(***************************************************************************)
(* For any number of threads calling send and stop: the gate's types, its  *)
(* inductive invariant, and what follows from it.                          *)
(***************************************************************************)
EXTENDS PreparationGate, TLAPS

\* Every step keeps the types of the gate and of the calls on it.
LEMMA TypeStep == TypeOK /\ [Next]_vars => TypeOK'
<1> SUFFICES ASSUME TypeOK, [Next]_vars PROVE TypeOK'
  OBVIOUS
<1> USE DEF TypeOK, Phases, Outcomes, SendSteps, StopSteps, Fates, Payloads, TalkSteps,
            Endings, gate, world, Released, TagIsLeft
<1>1. ASSUME NEW s \in Sends, SendStep(s) PROVE TypeOK'
  BY <1>1 DEF SendStep, Start, ImportFails, ImportDone, BeginRegistration, RegisterFails, RegisterInsert, RegisterOffering,
     TearDown, Registered, Failed, SendMoves, NotifyAll
<1>2. ASSUME NEW s \in Stops, Call(s) \/ SpuriousWakeup(s) PROVE TypeOK'
  BY <1>2 DEF Call, SpuriousWakeup
<1>3. ASSUME NEW s \in Stops, StopReady(s) \/ StopRequests(s) \/ StopClaims(s) \/ StopSettled(s)
      PROVE TypeOK'
  BY <1>3 DEF StopReady, StopRequests, StopClaims, StopSettled, Turn, Return
<1>4. ASSUME NEW s \in Stops, Denies(s) \/ Cancels(s) \/ Cleans(s) \/ CleanupFails(s)
      PROVE TypeOK'
  BY <1>4 DEF Denies, Cancels, Cleans, CleanupFails, StopMoves
<1>5. ASSUME NEW s \in Stops, Finish(s) \/ StopFailed(s) PROVE TypeOK'
  BY <1>5 DEF Finish, StopFailed, Return, NotifyAll
<1>6. CASE Negotiation \/ EndElsewhere \/ Complete \/ EnderCleans
  BY <1>6 DEF Negotiation, Approve, NegotiationFails, NegotiationTeardown, EndElsewhere,
     Complete, EnderCleans
<1>7. CASE UNCHANGED vars
  BY <1>7 DEF vars
<1>8. QED
  BY <1>1, <1>2, <1>3, <1>4, <1>5, <1>6, <1>7 DEF Next, StopStep

\* Every variable of the gate has its type (PreparationGate, send and stop).
THEOREM TypeCorrect == Spec => []TypeOK
<1>1. Init => TypeOK
  BY DEF Init, TypeOK, Phases, Outcomes, SendSteps, StopSteps, Fates, Payloads, TalkSteps,
     Endings
<1>2. QED
  BY <1>1, TypeStep, PTL DEF Spec

\* A step of send keeps the gate's invariant: the send under way is the only
\* one, and the phase is the one its step implies.
LEMMA SendKeepsGate ==
    ASSUME TypeOK, GateInv, NEW s \in Sends, SendStep(s)
    PROVE  GateInv'
<1> USE DEF TypeOK, GateInv, SendInv, StopInv, OwnerInv, Underway, Busy, Live, SendMoves,
            NotifyAll, Outcomes, gate, world, Released, TagIsLeft
<1>1. CASE Start(s)
  <2>1. SendInv'
    <3>1. CASE phase = "ready"
      <4>1. \A r \in Sends : send[r] \notin Underway
        BY <3>1
      <4>2. \A r \in Sends : r # s => send'[r] \notin Underway
        BY <1>1, <4>1 DEF Start
      <4>3. send'[s] = "importing" /\ phase' = "preparing" /\ transfer' = "none" /\ talk' = "idle"
        BY <1>1, <3>1 DEF Start
      <4>4. QED
        BY <4>2, <4>3
    <3>2. CASE phase # "ready"
      BY <1>1, <3>2 DEF Start
    <3>3. QED
      BY <3>1, <3>2
  <2>2. StopInv'
    BY <1>1 DEF Start
  <2>3. OwnerInv'
    BY <1>1 DEF Start
  <2>4. QED
    BY <2>1, <2>2, <2>3
<1>2. CASE ImportFails(s)
  BY <1>2 DEF ImportFails
<1>3. CASE ImportDone(s)
  BY <1>3 DEF ImportDone
<1>4. CASE BeginRegistration(s)
  BY <1>4 DEF BeginRegistration
<1>5. CASE RegisterFails(s)
  BY <1>5 DEF RegisterFails
<1>6. CASE RegisterInsert(s)
  BY <1>6 DEF RegisterInsert
<1>7. CASE RegisterOffering(s)
  BY <1>7 DEF RegisterOffering
<1>8. CASE TearDown(s)
  BY <1>8 DEF TearDown
<1>9. CASE Registered(s)
  BY <1>9 DEF Registered
<1>10. CASE Failed(s)
  BY <1>10 DEF Failed
<1>11. QED
  BY <1>1, <1>2, <1>3, <1>4, <1>5, <1>6, <1>7, <1>8, <1>9, <1>10 DEF SendStep

\* A step of stop keeps the gate's invariant: only the stop that claimed the
\* registered transfer acts on it, and it leaves the phase that says so.
LEMMA StopKeepsGate ==
    ASSUME TypeOK, GateInv, NEW s \in Stops, StopStep(s)
    PROVE  GateInv'
<1> USE DEF TypeOK, GateInv, SendInv, StopInv, OwnerInv, Underway, Busy, Live, Turn, Return,
            StopMoves, NotifyAll, Outcomes, gate, world, Released, TagIsLeft
<1>1. CASE StopReady(s)
  BY <1>1 DEF StopReady
<1>2. CASE StopRequests(s)
  BY <1>2 DEF StopRequests
<1>3. CASE StopClaims(s)
  BY <1>3 DEF StopClaims
<1>4. CASE StopSettled(s)
  <2>1. SendInv'
    BY <1>4 DEF StopSettled
  <2>2. StopInv'
    <3>1. /\ stop' = [stop EXCEPT ![s] = "returned"]
          /\ UNCHANGED <<phase, outcome, found, transfer>>
          /\ phase \in {"stopped", "failed", "finished"}
      BY <1>4 DEF StopSettled
    <3>2. \A r \in Stops : stop'[r] \in Busy => stop[r] \in Busy /\ stop'[r] = stop[r]
      BY <3>1
    <3>3. \A r \in Stops : result'[r] = IF r # s THEN result[r]
                                       ELSE IF phase = "finished" THEN outcome
                                       ELSE "preparation_stopped"
      BY <1>4 DEF StopSettled
    <3>4. QED
      BY <3>1, <3>2, <3>3
  <2>3. OwnerInv'
    BY <1>4 DEF StopSettled
  <2>4. QED
    BY <2>1, <2>2, <2>3
<1>5. CASE Denies(s)
  BY <1>5 DEF Denies
<1>6. CASE Cleans(s)
  <2>1. SendInv'
    BY <1>6 DEF Cleans
  <2>2. StopInv'
    BY <1>6 DEF Cleans
  <2>3. OwnerInv'
    BY <1>6 DEF Cleans
  <2>4. QED
    BY <2>1, <2>2, <2>3
<1>7. CASE CleanupFails(s)
  BY <1>7 DEF CleanupFails
<1>8. CASE Finish(s)
  BY <1>8 DEF Finish
<1>9. CASE StopFailed(s)
  BY <1>9 DEF StopFailed
<1>10. CASE Cancels(s)
  BY <1>10 DEF Cancels
<1>11. QED
  BY <1>1, <1>2, <1>3, <1>4, <1>5, <1>6, <1>7, <1>8, <1>9, <1>10 DEF StopStep

\* The negotiation and whoever else ends the transfer keep the gate's invariant:
\* who ends it still has the payload to release, and nobody revives it.
LEMMA EndsKeepGate ==
    ASSUME TypeOK, GateInv, Negotiation \/ EndElsewhere \/ Complete \/ EnderCleans
    PROVE  GateInv'
<1> USE DEF TypeOK, GateInv, SendInv, StopInv, OwnerInv, Underway, Busy, Live, Outcomes, gate,
            Released, TagIsLeft
<1>1. CASE Approve
  BY <1>1 DEF Approve
<1>2. CASE NegotiationFails
  BY <1>2 DEF NegotiationFails
<1>3. CASE NegotiationTeardown
  BY <1>3 DEF NegotiationTeardown
<1>4. CASE EndElsewhere
  BY <1>4 DEF EndElsewhere
<1>5. CASE Complete
  BY <1>5 DEF Complete
<1>6. CASE EnderCleans
  BY <1>6 DEF EnderCleans
<1>7. QED
  BY <1>1, <1>2, <1>3, <1>4, <1>5, <1>6 DEF Negotiation

\* Whatever send and stop calls interleave, the step each has reached fits the
\* gate's phase, and an import or a registration is always somebody's to end and
\* its payload somebody's to release.
THEOREM GateSafety == Spec => []GateInv
<1>1. Init => GateInv
  BY DEF Init, GateInv, SendInv, StopInv, OwnerInv, Underway, Busy, Live, Outcomes
<1>2. TypeOK /\ GateInv /\ [Next]_vars => GateInv'
  <2> SUFFICES ASSUME TypeOK, GateInv, [Next]_vars PROVE GateInv'
    OBVIOUS
  <2> USE DEF GateInv, SendInv, StopInv, OwnerInv, gate, world
  <2>1. CASE \E s \in Stops : Call(s)
    BY <2>1 DEF Call, TypeOK, Busy
  <2>2. CASE \E s \in Stops : SpuriousWakeup(s)
    BY <2>2 DEF SpuriousWakeup
  <2>3. CASE Negotiation \/ EndElsewhere \/ Complete \/ EnderCleans
    BY <2>3, EndsKeepGate
  <2>4. CASE UNCHANGED vars
    BY <2>4 DEF vars
  <2>5. QED
    BY <2>1, <2>2, <2>3, <2>4, SendKeepsGate, StopKeepsGate DEF Next
<1>3. QED
  BY <1>1, <1>2, TypeCorrect, PTL DEF Spec

\* The debug assertions of begin_registration and registered cannot fail.
THEOREM AssertionSafety == Spec => []AssertionsHold
<1>1. GateInv => AssertionsHold
  BY DEF GateInv, SendInv, AssertionsHold
<1>2. QED
  BY <1>1, GateSafety, PTL

\* All stops that return an outcome return the same one, for any number of them.
THEOREM StopAgreement == Spec => []StopsAgree
<1>1. GateInv => StopsAgree
  BY DEF GateInv, StopInv, StopsAgree
<1>2. QED
  BY <1>1, GateSafety, PTL

\* A stop that returned an outcome has ended the preparation for good; what is
\* still held is about to be released by whoever had ended the transfer before.
THEOREM StopFinality == Spec => []StopIsFinal
<1>1. GateInv => StopIsFinal
  BY DEF GateInv, SendInv, StopInv, OwnerInv, StopIsFinal, Underway, Busy
<1>2. QED
  BY <1>1, GateSafety, PTL
==============================================================================
