---------------------------- MODULE PreparationGate ---------------------------
(***************************************************************************)
(* One TargetedTransferPreparation, shared by the threads of a user        *)
(* interface: send imports the sources and registers the transfer, stop    *)
(* ends whatever send has reached.  A mutex protects the phase; a stop     *)
(* that comes too early or too late for its turn sleeps on a condition     *)
(* variable.                                                               *)
(*                                                                         *)
(* The registered transfer is reduced to what stop tells apart, and its    *)
(* negotiation to when it approves, fails and tears down: whoever ends a   *)
(* transfer first changes its row and only then releases its payload, so   *)
(* a stop may come in between.  TargetedTransfer has the messages, the     *)
(* other device and the approval session.                                  *)
(***************************************************************************)
CONSTANTS
    Sends,    \* calls of send
    Stops     \* calls of stop

VARIABLES
    phase,     \* PreparationPhase
    outcome,   \* the outcome a finished phase carries
    send,      \* [Sends -> SendSteps]
    stop,      \* [Stops -> StopSteps]
    parked,    \* stops asleep on the condition variable
    found,     \* [Stops -> what stop_preparation is about to report]
    result,    \* [Stops -> what the call returned]
    transfer,  \* the transfer this preparation registers
    payload,   \* its blob tag, hash registrations and access mode; "leaked"
               \* is the tag alone, which could not be deleted
    talk,      \* the spawned negotiation
    ender      \* whoever else ended the transfer: what it still has to do

gate  == <<phase, outcome, send, stop, parked, found, result>>
world == <<transfer, payload, talk, ender>>
vars  == <<gate, world>>

Phases == {"ready", "preparing", "stop_requested", "registering", "registered",
           "stopping", "stopped", "failed", "finished"}
Outcomes  == {"preparation_stopped", "transfer_abandoned", "transfer_cancelled",
              "already_terminal"}
SendSteps == {"idle", "importing", "imported", "registering", "inserted", "spawned",
              "tearing", "failing", "returned", "refused"}
StopSteps == {"idle", "asking", "denying", "cancelling", "cleaning", "finishing", "failing",
              "returned"}
Fates     == {"none", "preapproval", "approved", "ended", "abandoned", "cancelled"}
Payloads  == {"none", "held", "leaked"}
TalkSteps == {"idle", "running", "teardown", "done"}
Endings   == {"none", "cleanup", "release"}

\* A send between start and its end, a stop that owns the transfer, and a
\* transfer that can still be offered or run.
Underway == {"importing", "imported", "registering", "inserted", "spawned", "tearing",
             "failing"}
Busy     == {"denying", "cancelling", "cleaning", "finishing", "failing"}
Live     == {"preapproval", "approved"}

Init ==
    /\ phase = "ready" /\ outcome = "none"
    /\ send = [s \in Sends |-> "idle"]
    /\ stop = [s \in Stops |-> "idle"]
    /\ parked = {}
    /\ found = [s \in Stops |-> "none"]
    /\ result = [s \in Stops |-> "none"]
    /\ transfer = "none" /\ payload = "none"
    /\ talk = "idle" /\ ender = "none"

(***************************************************************************)
(* try_teardown_targeted_payload, and the cleanup of a stop: the hash      *)
(* registrations and the access mode go, then the tag, unless that fails.  *)
(***************************************************************************)
Released    == payload' = "none"
TagIsLeft   == payload' = IF payload = "none" THEN "none" ELSE "leaked"

NotifyAll == parked' = {}

(***************************************************************************)
(* send.                                                                   *)
(***************************************************************************)
SendMoves(s, from, to) ==
    /\ send[s] = from
    /\ send' = [send EXCEPT ![s] = to]
    /\ UNCHANGED <<outcome, stop, found, result, ender>>

\* start: a preparation sends only once.
Start(s) ==
    LET ok == phase = "ready" IN
    /\ SendMoves(s, "idle", IF ok THEN "importing" ELSE "refused")
    /\ phase' = IF ok THEN "preparing" ELSE phase
    /\ UNCHANGED <<parked, transfer, payload, talk>>

\* The peer is not saved, a source is unusable, a limit is exceeded ...
ImportFails(s) ==
    /\ SendMoves(s, "importing", "failing")
    /\ UNCHANGED <<phase, parked, transfer, payload, talk>>

ImportDone(s) ==
    /\ SendMoves(s, "importing", "imported")
    /\ payload' = "held"
    /\ UNCHANGED <<phase, parked, transfer, talk>>

\* begin_registration: after a stop request the import is torn down.
BeginRegistration(s) ==
    LET go == phase # "stop_requested" IN
    /\ SendMoves(s, "imported", IF go THEN "registering" ELSE "tearing")
    /\ phase' = IF go THEN "registering" ELSE phase
    /\ UNCHANGED <<parked, transfer, payload, talk>>

\* register_sender is two statements: the row, then its state.
RegisterFails(s) ==
    /\ SendMoves(s, "registering", "tearing")
    /\ UNCHANGED <<phase, parked, transfer, payload, talk>>

RegisterInsert(s) ==
    /\ SendMoves(s, "registering", "inserted")
    /\ transfer' = "preapproval"
    /\ UNCHANGED <<phase, parked, payload, talk>>

\* The second fails when somebody has ended the row in between.  The
\* negotiation is spawned before the gate hears of the transfer.
RegisterOffering(s) ==
    LET ok == transfer = "preapproval" IN
    /\ SendMoves(s, "inserted", IF ok THEN "spawned" ELSE "tearing")
    /\ talk' = IF ok THEN "running" ELSE talk
    /\ UNCHANGED <<phase, parked, transfer, payload>>

\* The teardown swallows its errors.
TearDown(s) ==
    /\ SendMoves(s, "tearing", "failing")
    /\ Released \/ TagIsLeft
    /\ UNCHANGED <<phase, parked, transfer, talk>>

Registered(s) ==
    /\ SendMoves(s, "spawned", "returned")
    /\ phase' = "registered"
    /\ NotifyAll
    /\ UNCHANGED <<transfer, payload, talk>>

\* Fault: the waiting stops are not notified.
FailedSilently(s) ==
    LET requested == phase = "stop_requested" IN
    /\ send[s] = "failing"
    /\ send' = [send EXCEPT ![s] = "returned"]
    /\ phase' = IF requested THEN "finished" ELSE "failed"
    /\ outcome' = IF requested THEN "preparation_stopped" ELSE outcome
    /\ UNCHANGED <<stop, parked, found, result, world>>

Failed(s) ==
    LET requested == phase = "stop_requested" IN
    /\ send[s] = "failing"
    /\ send' = [send EXCEPT ![s] = "returned"]
    /\ phase' = IF requested THEN "finished" ELSE "failed"
    /\ outcome' = IF requested THEN "preparation_stopped" ELSE outcome
    /\ NotifyAll
    /\ UNCHANGED <<stop, found, result, world>>

(***************************************************************************)
(* The negotiation, continue_targeted_transfer.                            *)
(***************************************************************************)
Approve ==
    /\ talk = "running"
    /\ transfer = "preapproval"
    /\ transfer' = "approved"
    /\ talk' = "done"
    /\ UNCHANGED <<gate, payload, ender>>

\* Fault: a failed negotiation does not tear down.
NegotiationFailsOnly ==
    /\ talk = "running"
    /\ transfer' = IF transfer = "preapproval" THEN "ended" ELSE transfer
    /\ talk' = "done"
    /\ UNCHANGED <<gate, payload, ender>>

\* Unreachable, refused, declined, timed out, or its next statement found a row
\* that somebody ended: first the row fails, if it can ...
NegotiationFails ==
    /\ talk = "running"
    /\ transfer' = IF transfer = "preapproval" THEN "ended" ELSE transfer
    /\ talk' = "teardown"
    /\ UNCHANGED <<gate, payload, ender>>

\* ... and later the payload goes, or not: the errors are swallowed.
NegotiationTeardown ==
    /\ talk = "teardown"
    /\ talk' = "done"
    /\ Released \/ TagIsLeft
    /\ UNCHANGED <<gate, transfer, ender>>

(***************************************************************************)
(* Everybody else who ends a transfer: a cancel or delete of the user, the *)
(* peer's cancel, forget and block clean up after the row has changed; a   *)
(* completion queues the release, which a later stop elsewhere takes over. *)
(***************************************************************************)
EndElsewhere ==
    /\ transfer \in Live \/ ender = "release"
    /\ transfer' = "ended"
    /\ ender' = "cleanup"
    /\ UNCHANGED <<gate, payload, talk>>

Complete ==
    /\ transfer = "approved"
    /\ transfer' = "ended"
    /\ ender' = "release"
    /\ UNCHANGED <<gate, payload, talk>>

\* A failed cleanup is given up, a failed release is tried again.
EnderCleans ==
    /\ ender # "none"
    /\ \/ Released /\ ender' = "none"
       \/ TagIsLeft /\ ender' = IF ender = "cleanup" THEN "none" ELSE ender
    /\ UNCHANGED <<gate, transfer, talk>>

(***************************************************************************)
(* stop_target: one turn of its loop, under the lock.                      *)
(***************************************************************************)
Call(s) ==
    /\ stop[s] = "idle"
    /\ stop' = [stop EXCEPT ![s] = "asking"]
    /\ UNCHANGED <<phase, outcome, send, parked, found, result, world>>

Turn(s) ==
    /\ stop[s] = "asking" /\ s \notin parked
    /\ UNCHANGED <<outcome, send, world>>

Return(s, r) ==
    /\ stop' = [stop EXCEPT ![s] = "returned"]
    /\ result' = [result EXCEPT ![s] = r]
    /\ UNCHANGED found

\* Fault: an early stop leaves the preparation ready to send.
StopReadyForgets(s) ==
    /\ Turn(s)
    /\ phase = "ready"
    /\ Return(s, "preparation_stopped")
    /\ UNCHANGED <<phase, parked>>

StopReady(s) ==
    /\ Turn(s)
    /\ phase = "ready"
    /\ phase' = "stopped"
    /\ Return(s, "preparation_stopped")
    /\ UNCHANGED parked

\* Fault: a stop request overwrites the phase of a registration under way.
StopRequestsLate(s) ==
    /\ Turn(s)
    /\ phase \in {"preparing", "stop_requested", "registering", "stopping"}
    /\ phase' = IF phase = "stopping" THEN phase ELSE "stop_requested"
    /\ parked' = parked \cup {s}
    /\ UNCHANGED <<stop, found, result>>

StopRequests(s) ==
    /\ Turn(s)
    /\ phase \in {"preparing", "stop_requested", "registering", "stopping"}
    /\ phase' = IF phase = "preparing" THEN "stop_requested" ELSE phase
    /\ parked' = parked \cup {s}
    /\ UNCHANGED <<stop, found, result>>

\* Fault: the claimed transfer stays up for grabs.
StopClaimsShared(s) ==
    /\ Turn(s)
    /\ phase = "registered"
    /\ stop' = [stop EXCEPT ![s] = "denying"]
    /\ UNCHANGED <<phase, parked, found, result>>

StopClaims(s) ==
    /\ Turn(s)
    /\ phase = "registered"
    /\ phase' = "stopping"
    /\ stop' = [stop EXCEPT ![s] = "denying"]
    /\ UNCHANGED <<parked, found, result>>

\* Fault: a stop that comes late always reports a stopped preparation.
StopSettledBlindly(s) ==
    /\ Turn(s)
    /\ phase \in {"stopped", "failed", "finished"}
    /\ Return(s, "preparation_stopped")
    /\ UNCHANGED <<phase, parked>>

StopSettled(s) ==
    /\ Turn(s)
    /\ phase \in {"stopped", "failed", "finished"}
    /\ Return(s, IF phase = "finished" THEN outcome ELSE "preparation_stopped")
    /\ UNCHANGED <<phase, parked>>

\* Condition variables may wake without a notification.
SpuriousWakeup(s) ==
    /\ s \in parked
    /\ parked' = parked \ {s}
    /\ UNCHANGED <<phase, outcome, send, stop, found, result, world>>

(***************************************************************************)
(* The rest of stop: stop_targeted_preparation, then finish or             *)
(* stop_failed.                                                            *)
(***************************************************************************)
StopMoves(s, from, to) ==
    /\ stop[s] = from
    /\ stop' = [stop EXCEPT ![s] = to]
    /\ UNCHANGED <<phase, outcome, send, parked, result, talk>>

\* The row is gone or has ended, or the conditional delete abandons it, or
\* approval won and the row, read again, must be cancelled.
Denies(s) ==
    LET gone == transfer \in {"none", "abandoned"}
        won  == transfer = "preapproval"
        late == transfer = "approved" IN
    /\ StopMoves(s, "denying", CASE won  -> "cleaning"
                                 [] late -> "cancelling"
                                 [] OTHER -> "finishing")
    /\ found' = [found EXCEPT ![s] = IF gone \/ won THEN "transfer_abandoned"
                                     ELSE "already_terminal"]
    /\ transfer' = IF won THEN "abandoned" ELSE transfer
    /\ UNCHANGED <<payload, ender>>

\* transition_terminal: it forgets a queued release whatever the row says, and
\* the cleanup follows even if somebody ended the row first.
Cancels(s) ==
    LET ok == transfer = "approved" IN
    /\ StopMoves(s, "cancelling", "cleaning")
    /\ found' = [found EXCEPT ![s] = IF ok THEN "transfer_cancelled" ELSE @]
    /\ transfer' = IF ok THEN "cancelled" ELSE transfer
    /\ ender' = IF ender = "release" THEN "none" ELSE ender
    /\ UNCHANGED payload

Cleans(s) ==
    /\ StopMoves(s, "cleaning", "finishing")
    /\ Released
    /\ UNCHANGED <<found, transfer, ender>>

\* The tag, or after it the secret in custody, could not be deleted.
CleanupFails(s) ==
    /\ StopMoves(s, "cleaning", "failing")
    /\ Released \/ TagIsLeft
    /\ UNCHANGED <<found, transfer, ender>>

Finish(s) ==
    /\ stop[s] = "finishing"
    /\ phase' = "finished"
    /\ outcome' = found[s]
    /\ Return(s, found[s])
    /\ NotifyAll
    /\ UNCHANGED <<send, world>>

StopFailed(s) ==
    /\ stop[s] = "failing"
    /\ phase' = "registered"
    /\ Return(s, "error")
    /\ NotifyAll
    /\ UNCHANGED <<outcome, send, world>>

SendStep(s) ==
    \/ Start(s) \/ ImportFails(s) \/ ImportDone(s) \/ BeginRegistration(s)
    \/ RegisterFails(s) \/ RegisterInsert(s) \/ RegisterOffering(s) \/ TearDown(s)
    \/ Registered(s) \/ Failed(s)

StopStep(s) ==
    \/ StopReady(s) \/ StopRequests(s) \/ StopClaims(s) \/ StopSettled(s)
    \/ Denies(s) \/ Cancels(s) \/ Cleans(s) \/ CleanupFails(s) \/ Finish(s) \/ StopFailed(s)

Negotiation == Approve \/ NegotiationFails \/ NegotiationTeardown

Next ==
    \/ \E s \in Sends : SendStep(s)
    \/ \E s \in Stops : Call(s) \/ StopStep(s) \/ SpuriousWakeup(s)
    \/ Negotiation \/ EndElsewhere \/ Complete \/ EnderCleans

Spec == Init /\ [][Next]_vars

(***************************************************************************)
(* A thread inside a call keeps running: the import and the store answer,  *)
(* and the mutex is released at every wait.  The negotiation waits with     *)
(* timeouts, a cleanup is awaited, a release is tried at every tick.       *)
(* Nobody owes a call, or an end.                                          *)
(***************************************************************************)
FairSpec ==
    /\ Spec
    /\ \A s \in Sends : WF_vars(send[s] # "idle" /\ SendStep(s))
    /\ \A s \in Stops : WF_vars(StopStep(s))
    /\ WF_vars(Negotiation) /\ WF_vars(EnderCleans)

(***************************************************************************)
(* Properties.                                                             *)
(***************************************************************************)
\* Every variable has its type.
TypeOK ==
    /\ phase \in Phases
    /\ outcome \in Outcomes \cup {"none"}
    /\ send \in [Sends -> SendSteps]
    /\ stop \in [Stops -> StopSteps]
    /\ parked \in SUBSET Stops
    /\ found \in [Stops -> Outcomes \cup {"none"}]
    /\ result \in [Stops -> Outcomes \cup {"none", "error"}]
    /\ transfer \in Fates
    /\ payload \in Payloads
    /\ talk \in TalkSteps
    /\ ender \in Endings

\* The debug assertions of begin_registration and registered: nobody moves the
\* phase behind the back of the send that is under way.
AssertionsHold ==
    \A s \in Sends :
        /\ send[s] = "imported" => phase \in {"preparing", "stop_requested"}
        /\ send[s] = "spawned" => phase = "registering"

\* However many threads stop a preparation, the stops that return an outcome
\* return the same one.
StopsAgree ==
    \A s1, s2 \in Stops :
        (result[s1] \in Outcomes /\ result[s2] \in Outcomes) => result[s1] = result[s2]

\* Once a stop has returned an outcome the preparation has no send and no
\* transfer that could be offered or run, then or later; and if the payload is
\* still held, because the stop met a transfer that had ended and answered at
\* once, then whoever ended it is still about to release it.
StopIsFinal ==
    (\E s \in Stops : result[s] \in Outcomes) =>
        /\ transfer \notin Live
        /\ \A s \in Sends : send[s] \notin Underway
        /\ payload = "held" => talk = "teardown" \/ ender # "none"

\* After a stop has returned an outcome the payload is not held for ever, however
\* far the negotiation or another end of the transfer had come.
StoppedPayloadGoes ==
    (\E s \in Stops : result[s] \in Outcomes) ~> (payload # "held")

\* Every stop returns: no wakeup is lost and nobody waits for a send that is
\* over.
StopReturns == \A s \in Stops : (stop[s] = "asking") ~> (stop[s] = "returned")

(***************************************************************************)
(* The inductive invariant: which phases each step of a call can meet.     *)
(***************************************************************************)
SendInv ==
    /\ \A s \in Sends :
          /\ send[s] \in {"importing", "imported"} => phase \in {"preparing", "stop_requested"}
          /\ send[s] \in {"registering", "inserted", "spawned"} => phase = "registering"
          /\ send[s] \in {"tearing", "failing"} =>
                phase \in {"preparing", "stop_requested", "registering"}
          /\ send[s] \in {"importing", "imported", "registering"} =>
                transfer = "none" /\ talk = "idle"
          /\ send[s] = "inserted" => transfer # "approved" /\ talk = "idle"
          /\ send[s] \in {"tearing", "failing"} => transfer \notin Live
    /\ \A s1, s2 \in Sends : send[s1] \in Underway /\ send[s2] \in Underway => s1 = s2

StopInv ==
    /\ \A s \in Stops :
          /\ stop[s] \in Busy => phase = "stopping"
          /\ stop[s] = "cancelling" => transfer # "preapproval"
          /\ stop[s] \in {"cleaning", "finishing", "failing"} => transfer \notin Live
          /\ stop[s] \in {"cancelling", "cleaning", "finishing"} => found[s] \in Outcomes
          /\ result[s] \in Outcomes =>
                \/ phase \in {"stopped", "failed"} /\ result[s] = "preparation_stopped"
                \/ phase = "finished" /\ result[s] = outcome
    /\ phase = "finished" => outcome \in Outcomes
    /\ \A s1, s2 \in Stops : stop[s1] \in Busy /\ stop[s2] \in Busy => s1 = s2

\* A live transfer and a payload always have somebody who will end them.
OwnerInv ==
    /\ phase = "ready" => transfer = "none" /\ talk = "idle"
    /\ transfer \in Live => phase \in {"registering", "registered", "stopping"}
    /\ ender # "none" => transfer = "ended"
    /\ payload = "held" =>
          \/ transfer \in Live
          \/ \E s \in Sends : send[s] \in {"imported", "registering", "tearing"}
          \/ talk = "teardown"
          \/ ender # "none"
          \/ \E s \in Stops : stop[s] = "cleaning"

\* The step every call has reached fits the phase of the gate, and whatever has
\* been registered or imported is still somebody's to end or to release.
GateInv == SendInv /\ StopInv /\ OwnerInv
==============================================================================
