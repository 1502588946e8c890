---------------------- MODULE ProviderAdmissionProofs ----------------------
(***************************************************************************)
(* Proofs about ProviderAdmission for any set of executions, any budget,   *)
(* any number of slots and any window: the safety invariants, that a       *)
(* failed execution calls no more, and that the controller implements the  *)
(* circuit breaker of RecoveryCircuit.                                     *)
(*                                                                         *)
(* IInv is inductive.  Its first conjuncts say who may lead, wait or hold  *)
(* a permit of the current episode; the invariants the runs check follow   *)
(* from them or are part of it.  Every action but the four that move a     *)
(* slot is Quiet, so SlotsConserved is argued about those four only.       *)
(***************************************************************************)
EXTENDS ProviderAdmission, FiniteSetTheorems, TLAPS

Admitted == {"limiter", "slot", "inflight"}

\* An episode that is not live has no leader, waiters or probe; permits never
\* run ahead of the episodes; without coordination there are no episodes.
EpisodeInv ==
    /\ phase # "live" => leader = Nobody /\ waiters = {} /\ ~probing
    /\ phase # "none" => generation > 0 /\ Coordinated
    /\ \A e \in Executions : permit[e] <= generation

\* An admitted permit of the current episode is the leader's active probe.
ProbeInv ==
    \A e \in Executions :
        pc[e] \in Admitted /\ phase # "none" /\ permit[e] = generation =>
            leader = e /\ probing

LeaderPlaces == {"retrying", "open", "backoff", "releasing", "done"} \cup Admitted

\* Conversely, an admitted leader holds that permit, and no leader waits.
LeaderInv ==
    \A e \in Executions : leader = e =>
        /\ pc[e] \in LeaderPlaces
        /\ pc[e] \in Admitted => probing /\ permit[e] = generation
        /\ e \notin waiters

WaiterInv ==
    \A e \in waiters : pc[e] \in {"waiting", "woken", "open", "retrying", "done"}

AbandonInv == \A e \in abandons : pc[e] \in {"releasing", "done"}

\* Whoever asks for an attempt has one left.
BudgetInv ==
    \A e \in Executions :
        pc[e] \in {"new"} \cup AtGate => attempts[e] < MaxAttempts

\* A shared failure reaches an execution only at the gate or on its way there.
StateInv ==
    \A e \in Executions :
        /\ pc[e] \in {"backoff", "streaming", "releasing"} \cup Admitted =>
              state[e] = "active"
        /\ state[e] \in {"succeeded", "abandoned"} => pc[e] \in {"ending", "done"}

CoreInv == /\ TypeOK
           /\ EpisodeInv /\ ProbeInv /\ LeaderInv /\ WaiterInv /\ AbandonInv
           /\ BudgetInv /\ StateInv
           /\ ProbeHasOwner /\ NoLostWakeup /\ BackoffIsUndisturbed

IInv == CoreInv /\ SlotsConserved

\* A step that moves no slot.
Quiet == Holders' = Holders /\ slots' = slots

USE AdmissionAssumption
    DEF CoreInv, TypeOK, EpisodeInv, ProbeInv, LeaderInv, WaiterInv, AbandonInv,
        BudgetInv, StateInv, ProbeHasOwner, NoLostWakeup, BackoffIsUndisturbed,
        Admitted, LeaderPlaces, Places, AtGate, Holding, Waiting, episode,
        OwnsProbe, StillMine, PermitIsCurrent, MatchingProbe, CanAttempt,
        Goto, Become

-----------------------------------------------------------------------------
(* The gate.                                                               *)

LEMMA StartStep ==
    ASSUME CoreInv, NEW e \in Executions, Start(e)
    PROVE  CoreInv' /\ Quiet
  BY DEF Start, Quiet, Holders

LEMMA GateStep ==
    ASSUME CoreInv, NEW e \in Executions, Gate(e)
    PROVE  CoreInv' /\ Quiet
  <1> USE DEF EnterGate, TakeLead
  <1>1. CASE GateRefuse(e)
    BY <1>1 DEF GateRefuse, Quiet, Holders
  <1>2. CASE GatePass(e)
    BY <1>2 DEF GatePass, Quiet, Holders
  <1>3. CASE GateProbe(e)
    BY <1>3 DEF GateProbe, Quiet, Holders
  <1>4. CASE GateBackoff(e)
    BY <1>4 DEF GateBackoff, Quiet, Holders
  <1>5. CASE GateReopen(e)
    BY <1>5 DEF GateReopen, Quiet, Holders
  <1>6. CASE GateWait(e)
    BY <1>6 DEF GateWait, Quiet, Holders
  <1> QED  BY <1>1, <1>2, <1>3, <1>4, <1>5, <1>6 DEF Gate

LEMMA BackoffStep ==
    ASSUME CoreInv, NEW e \in Executions, BackoffWake(e)
    PROVE  CoreInv' /\ Quiet
  BY DEF BackoffWake, Quiet, Holders

LEMMA AdmissionStep ==
    ASSUME CoreInv, NEW e \in Executions,
           LimiterAdmit(e) \/ LimiterRefuse(e) \/ RefuseSlot(e)
    PROVE  CoreInv' /\ Quiet
  <1>1. CASE LimiterAdmit(e)
    BY <1>1 DEF LimiterAdmit, Quiet, Holders
  <1>2. CASE LimiterRefuse(e)
    BY <1>2 DEF LimiterRefuse, AbandonProbe, NotifyAll, Quiet, Holders
  <1>3. CASE RefuseSlot(e)
    BY <1>3 DEF RefuseSlot, AbandonProbe, NotifyAll, Quiet, Holders
  <1> QED  BY <1>1, <1>2, <1>3

-----------------------------------------------------------------------------
(* The upstream call.                                                      *)

LEMMA AcceptStep ==
    ASSUME CoreInv, NEW e \in Executions, Accept(e)
    PROVE  CoreInv' /\ Quiet
  <1>1. CASE MatchingProbe(e)
    <2>1. /\ pc[e] = "inflight"
          /\ CloseEpisode(e, "streaming")
          /\ UNCHANGED <<state, attempts, permit, slots, recent, abandons>>
      BY <1>1 DEF Accept, CloseMatching
    <2>2. CoreInv'
      BY <1>1, <2>1, ZenonT(40) DEF CloseEpisode, NotifyAll
    <2>3. Quiet
      BY <2>1 DEF CloseEpisode, NotifyAll, Quiet, Holders
    <2> QED  BY <2>2, <2>3
  <1>2. CASE ~MatchingProbe(e)
    BY <1>2 DEF Accept, CloseMatching, Quiet, Holders
  <1> QED  BY <1>1, <1>2

LEMMA RejectStep ==
    ASSUME CoreInv, NEW e \in Executions, Reject(e)
    PROVE  CoreInv' /\ Quiet
  <1>1. CASE MatchingProbe(e)
    <2>1. /\ pc[e] = "inflight"
          /\ CloseEpisode(e, "ending")
          /\ Become(e, "failed")
          /\ UNCHANGED <<attempts, permit, slots, recent, abandons>>
      BY <1>1 DEF Reject, CloseMatching
    <2>2. CoreInv'
      BY <1>1, <2>1, ZenonT(40) DEF CloseEpisode, NotifyAll
    <2>3. Quiet
      BY <2>1 DEF CloseEpisode, NotifyAll, Quiet, Holders
    <2> QED  BY <2>2, <2>3
  <1>2. CASE ~MatchingProbe(e)
    BY <1>2 DEF Reject, CloseMatching, Quiet, Holders
  <1> QED  BY <1>1, <1>2

LEMMA CorrectStep ==
    ASSUME CoreInv, NEW e \in Executions, Correct(e)
    PROVE  CoreInv' /\ Quiet
  <1>1. CASE MatchingProbe(e)
    <2>1. /\ pc[e] = "inflight" /\ CanAttempt(e)
          /\ NotifyAll(e, "retrying")
          /\ probing' = FALSE /\ ready' = TRUE
          /\ UNCHANGED <<state, attempts, permit, phase, generation, leader,
                         waiters, slots, recent, abandons>>
      BY <1>1 DEF Correct
    <2>2. CoreInv'
      BY <1>1, <2>1, ZenonT(40) DEF NotifyAll
    <2>3. Quiet
      BY <2>1 DEF NotifyAll, Quiet, Holders
    <2> QED  BY <2>2, <2>3
  <1>2. CASE ~MatchingProbe(e)
    BY <1>2 DEF Correct, Quiet, Holders
  <1> QED  BY <1>1, <1>2

LEMMA FailStep ==
    ASSUME CoreInv, NEW e \in Executions, Fail(e)
    PROVE  CoreInv' /\ Quiet
  <1> USE DEF FailRetryably
  <1>1. CASE FailOpensEpisode(e)
    <2>1. pc' \in [Executions -> Places] /\ generation' \in Nat
      BY <1>1 DEF NotifyAll, FailOpensEpisode
    <2>2. TypeOK'
      BY <1>1, <2>1 DEF FailOpensEpisode
    <2>3. EpisodeInv' /\ ProbeInv' /\ LeaderInv'
      BY <1>1 DEF NotifyAll, FailOpensEpisode
    <2>4. WaiterInv' /\ AbandonInv' /\ BudgetInv' /\ StateInv'
      BY <1>1 DEF NotifyAll, FailOpensEpisode
    <2>5. ProbeHasOwner' /\ NoLostWakeup' /\ BackoffIsUndisturbed'
      BY <1>1 DEF NotifyAll, FailOpensEpisode
    <2>6. Quiet
      BY <1>1 DEF NotifyAll, FailOpensEpisode, Quiet, Holders
    <2> QED  BY <2>2, <2>3, <2>4, <2>5, <2>6
  <1>2. CASE FailProbe(e)
    <2>1. CoreInv'
      BY <1>2 DEF NotifyAll, FailProbe
    <2>2. Quiet
      BY <1>2 DEF NotifyAll, FailProbe, Quiet, Holders
    <2> QED  BY <2>1, <2>2
  <1>3. CASE FailTooLate(e)
    <2>1. CoreInv'
      BY <1>3 DEF NotifyAll, FailTooLate
    <2>2. Quiet
      BY <1>3 DEF NotifyAll, FailTooLate, Quiet, Holders
    <2> QED  BY <2>1, <2>2
  <1>4. CASE FailJoins(e)
    <2>1. CoreInv'
      BY <1>4 DEF NotifyAll, FailJoins
    <2>2. Quiet
      BY <1>4 DEF NotifyAll, FailJoins, Quiet, Holders
    <2> QED  BY <2>1, <2>2
  <1>5. CASE Exhaust(e)
    <2>1. pc' \in [Executions -> Places] /\ generation' \in Nat
      BY <1>5 DEF NotifyAll, Exhaust
    <2>2. TypeOK'
      BY <1>5, <2>1 DEF Exhaust, FailedBy
    <2>3. EpisodeInv' /\ ProbeInv' /\ LeaderInv'
      BY <1>5 DEF NotifyAll, Exhaust
    <2>4. WaiterInv' /\ AbandonInv' /\ BudgetInv' /\ StateInv'
      BY <1>5 DEF NotifyAll, Exhaust, FailedBy
    <2>5. ProbeHasOwner' /\ NoLostWakeup' /\ BackoffIsUndisturbed'
      BY <1>5 DEF NotifyAll, Exhaust
    <2>6. Quiet
      BY <1>5 DEF NotifyAll, Exhaust, Quiet, Holders
    <2> QED  BY <2>2, <2>3, <2>4, <2>5, <2>6
  <1>6. CASE FailAlone(e)
    BY <1>6 DEF FailAlone, IsAlone, Quiet, Holders
  <1> QED  BY <1>1, <1>2, <1>3, <1>4, <1>5, <1>6 DEF Fail

LEMMA StreamStep ==
    ASSUME CoreInv, NEW e \in Executions, StreamCompletes(e) \/ StreamBreaks(e)
    PROVE  CoreInv' /\ Quiet
  <1>1. CASE StreamCompletes(e)
    BY <1>1 DEF StreamCompletes, Quiet, Holders
  <1>2. CASE StreamBreaks(e)
    BY <1>2 DEF StreamBreaks, Quiet, Holders
  <1> QED  BY <1>1, <1>2

-----------------------------------------------------------------------------
(* Cancellation, the abandon task and time.                                *)

LEMMA CancelStep ==
    ASSUME CoreInv, NEW e \in Executions,
           CancelWait(e) \/ CancelOpen(e) \/ CancelBackoff(e)
             \/ CancelAdmission(e) \/ Interrupt(e)
    PROVE  CoreInv' /\ Quiet
  <1>1. CASE CancelWait(e)
    BY <1>1 DEF CancelWait, Quiet, Holders
  <1>2. CASE CancelOpen(e)
    BY <1>2 DEF CancelOpen, Quiet, Holders
  <1>3. CASE CancelBackoff(e)
    BY <1>3 DEF CancelBackoff, NotifyAll, Quiet, Holders
  <1>4. CASE CancelAdmission(e)
    <2>1. CASE MatchingProbe(e)
      <3>1. /\ pc[e] \in {"limiter", "slot"}
            /\ NotifyAll(e, "done") /\ Become(e, "abandoned")
            /\ leader' = Nobody /\ probing' = FALSE /\ ready' = TRUE
            /\ UNCHANGED <<attempts, permit, phase, generation, waiters, slots,
                           recent, abandons>>
        BY <1>4, <2>1 DEF CancelAdmission, AbandonProbe
      <3>2. CoreInv'
        BY <2>1, <3>1, ZenonT(40) DEF NotifyAll
      <3>3. Quiet
        BY <3>1 DEF NotifyAll, Quiet, Holders
      <3> QED  BY <3>2, <3>3
    <2>2. CASE ~MatchingProbe(e)
      BY <1>4, <2>2 DEF CancelAdmission, AbandonProbe, Quiet, Holders
    <2> QED  BY <2>1, <2>2
  <1>5. CASE Interrupt(e)
    BY <1>5 DEF Interrupt, Quiet, Holders
  <1> QED  BY <1>1, <1>2, <1>3, <1>4, <1>5

LEMMA AbandonStep ==
    ASSUME CoreInv, NEW e \in Executions, RunAbandon(e)
    PROVE  CoreInv' /\ Quiet
  <1>1. CASE MatchingProbe(e)
    <2>1. /\ e \in abandons /\ abandons' = abandons \ {e}
          /\ NotifyAll(e, pc[e])
          /\ leader' = Nobody /\ probing' = FALSE /\ ready' = TRUE
          /\ UNCHANGED <<state, attempts, permit, phase, generation, waiters,
                         slots, recent>>
      BY <1>1 DEF RunAbandon, AbandonProbe
    <2>2. CoreInv'
      BY <1>1, <2>1, ZenonT(40) DEF NotifyAll
    <2>3. Quiet
      BY <2>1 DEF NotifyAll, Quiet, Holders
    <2> QED  BY <2>2, <2>3
  <1>2. CASE ~MatchingProbe(e)
    BY <1>2 DEF RunAbandon, AbandonProbe, Quiet, Holders
  <1> QED  BY <1>1, <1>2

LEMMA TimeStep ==
    ASSUME CoreInv, Time
    PROVE  CoreInv' /\ Quiet
  <1>1. CASE BackoffElapses
    BY <1>1 DEF BackoffElapses, Quiet, Holders
  <1>2. CASE CooldownElapses
    BY <1>2 DEF CooldownElapses, Quiet, Holders
  <1>3. CASE WindowSlides
    BY <1>3 DEF WindowSlides, Quiet, Holders
  <1> QED  BY <1>1, <1>2, <1>3 DEF Time

-----------------------------------------------------------------------------
(* The four actions that move a slot.                                      *)

LEMMA HoldersFinite == IsFiniteSet(Holders) /\ Cardinality(Holders) \in Nat
  BY FS_Subset, FS_CardinalityType DEF Holders

LEMMA SlotTaken ==
    ASSUME IInv, NEW e \in Executions, AcquireSlot(e)
    PROVE  IInv'
  <1>1. CoreInv'
    BY DEF IInv, AcquireSlot
  <1>2. e \notin Holders /\ Holders' = Holders \cup {e}
    BY DEF IInv, AcquireSlot, Holders
  <1>3. Cardinality(Holders') = Cardinality(Holders) + 1
    BY <1>2, HoldersFinite, FS_AddElement
  <1>4. slots' = slots - 1
    BY DEF AcquireSlot
  <1> QED
    BY <1>1, <1>3, <1>4, HoldersFinite DEF IInv, SlotsConserved

LEMMA SlotReturned ==
    ASSUME IInv, NEW e \in Executions,
           Release(e) \/ CloseAttempt(e) \/ CancelClosing(e)
    PROVE  IInv'
  <1>1. e \in Holders /\ Holders' = Holders \ {e}
    BY DEF IInv, Release, CloseAttempt, CancelClosing, Holders
  <1>2. Cardinality(Holders') = Cardinality(Holders) - 1
    BY <1>1, HoldersFinite, FS_RemoveElement
  <1>3. Cardinality(Holders) >= 1
    BY <1>1, HoldersFinite, FS_EmptySet
  <1>4. slots' = slots + 1
    BY DEF Release, CloseAttempt, CancelClosing
  <1>5. slots' \in 0 .. MaxConcurrency
    BY <1>3, <1>4, HoldersFinite DEF IInv, SlotsConserved
  <1>6. CoreInv'
    <2>1. CASE Release(e)
      BY <1>5, <2>1 DEF Release, IInv
    <2>2. CASE CloseAttempt(e)
      BY <1>5, <2>2 DEF CloseAttempt, IInv
    <2>3. CASE CancelClosing(e)
      BY <1>5, <2>3 DEF CancelClosing, IInv
    <2> QED  BY <2>1, <2>2, <2>3
  <1> QED
    BY <1>2, <1>4, <1>6, HoldersFinite DEF IInv, SlotsConserved

-----------------------------------------------------------------------------

LEMMA InitIInv == Init => IInv
  <1> SUFFICES ASSUME Init PROVE IInv
    OBVIOUS
  <1>1. CoreInv
    <2>1. TypeOK
      <3>1. /\ pc \in [Executions -> Places]
            /\ state \in [Executions -> {"active", "succeeded", "failed", "abandoned"}]
            /\ attempts \in [Executions -> 0 .. MaxAttempts]
            /\ permit \in [Executions -> Nat]
        BY DEF Init
      <3>2. slots \in 0 .. MaxConcurrency /\ recent \in 0 .. RateLimit
        BY DEF Init
      <3> QED  BY <3>1, <3>2 DEF Init
    <2>2. EpisodeInv /\ ProbeInv /\ LeaderInv /\ WaiterInv /\ AbandonInv
      BY DEF Init
    <2>3. BudgetInv /\ StateInv
      BY DEF Init
    <2>4. ProbeHasOwner /\ NoLostWakeup /\ BackoffIsUndisturbed
      BY DEF Init
    <2> QED  BY <2>1, <2>2, <2>3, <2>4
  <1>2. Holders = {}
    BY DEF Init, Holders
  <1>3. SlotsConserved
    BY <1>2, FS_EmptySet DEF Init, SlotsConserved
  <1> QED  BY <1>1, <1>3 DEF IInv

LEMMA QuietKeeps ==
    ASSUME SlotsConserved, Quiet
    PROVE  SlotsConserved'
  BY DEF SlotsConserved, Quiet

LEMMA NextIInv == IInv /\ [Next]_vars => IInv'
  <1> SUFFICES ASSUME IInv, [Next]_vars PROVE IInv'
    OBVIOUS
  <1> USE DEF IInv
  <1>1. ASSUME NEW e \in Executions, Step(e) PROVE IInv'
    <2>1. CASE Start(e)
      BY <2>1, StartStep, QuietKeeps
    <2>2. CASE Gate(e)
      BY <2>2, GateStep, QuietKeeps
    <2>3. CASE BackoffWake(e)
      BY <2>3, BackoffStep, QuietKeeps
    <2>4. CASE Admission(e)
      BY <2>4, AdmissionStep, SlotTaken, QuietKeeps DEF Admission
    <2>5. CASE Answer(e)
      BY <2>5, AcceptStep, RejectStep, CorrectStep, FailStep, QuietKeeps DEF Answer
    <2>6. CASE StreamCompletes(e) \/ StreamBreaks(e)
      BY <2>6, StreamStep, QuietKeeps
    <2>7. CASE Cancel(e)
      BY <2>7, CancelStep, SlotReturned, QuietKeeps DEF Cancel
    <2>8. CASE RunAbandon(e)
      BY <2>8, AbandonStep, QuietKeeps
    <2>9. CASE Release(e) \/ CloseAttempt(e)
      BY <2>9, SlotReturned
    <2> QED
      BY <1>1, <2>1, <2>2, <2>3, <2>4, <2>5, <2>6, <2>7, <2>8, <2>9 DEF Step
  <1>2. CASE Time
    BY <1>2, TimeStep, QuietKeeps
  <1>3. CASE UNCHANGED vars
    BY <1>3 DEF vars, SlotsConserved, Holders
  <1> QED  BY <1>1, <1>2, <1>3 DEF Next

\* Every reachable state satisfies the inductive invariant.
THEOREM Invariance == Spec => []IInv
  BY InitIInv, NextIInv, PTL DEF Spec

\* No path leaks a concurrency slot or releases it twice.
THEOREM SlotsAreConserved == Spec => []SlotsConserved
  <1>1. IInv => SlotsConserved
    BY DEF IInv
  <1> QED  BY <1>1, Invariance, PTL

\* Whatever ends or is cancelled, an active probe always has a task that will
\* settle it or hand it back.
THEOREM ProbesAreOwned == Spec => []ProbeHasOwner
  <1>1. IInv => ProbeHasOwner
    BY DEF IInv
  <1> QED  BY <1>1, Invariance, PTL

\* Whoever sleeps on the condition is a waiter of a live episode that somebody
\* else leads.
THEOREM WakeupsAreNotLost == Spec => []NoLostWakeup
  <1>1. IInv => NoLostWakeup
    BY DEF IInv
  <1> QED  BY <1>1, Invariance, PTL

\* The only call of the current episode in flight is its leader's probe, the check
\* a leader makes after its backoff always succeeds, and _claim_attempt never
\* raises.
THEOREM RecoveryIsOfOne == Spec => []RecoveryIsExclusive
  <1>1. IInv => OneProbeInFlight
    BY DEF IInv, OneProbeInFlight, ProbesInFlight
  <1>2. IInv => BackoffIsUndisturbed
    BY DEF IInv
  <1>3. IInv => ClaimNeverRefused
    BY DEF IInv, ClaimNeverRefused
  <1>4. IInv => RecoveryIsExclusive
    BY <1>1, <1>2, <1>3 DEF RecoveryIsExclusive
  <1> QED  BY <1>4, Invariance, PTL

\* Every variable keeps its type; in particular no execution exceeds its budget
\* of attempts and no window its limit.
THEOREM TypesAreCorrect == Spec => []TypeOK
  <1>1. IInv => TypeOK
    BY DEF IInv
  <1> QED  BY <1>1, Invariance, PTL

-----------------------------------------------------------------------------
(* A failed execution calls no more.                                       *)

\* Only AcquireSlot counts an attempt, and it finds its execution active.
LEMMA StepFailedStays ==
    ASSUME IInv, NEW e \in Executions, Step(e)
    PROVE  FailedStays
  <1> USE DEF IInv, FailedStays
  <1>1. CASE Gate(e)
    BY <1>1 DEF Gate, GateRefuse, GatePass, GateProbe, GateBackoff, GateReopen,
                GateWait
  <1>2. CASE Start(e) \/ BackoffWake(e)
    BY <1>2 DEF Start, BackoffWake
  <1>3. CASE Admission(e)
    BY <1>3 DEF Admission, LimiterAdmit, LimiterRefuse, AcquireSlot, RefuseSlot
  <1>4. CASE Answer(e)
    BY <1>4 DEF Answer, Accept, Reject, Correct, Fail, FailRetryably,
                FailOpensEpisode, FailProbe, FailTooLate, FailJoins, Exhaust,
                FailedBy, FailAlone, IsAlone
  <1>5. CASE StreamCompletes(e) \/ StreamBreaks(e)
    BY <1>5 DEF StreamCompletes, StreamBreaks
  <1>6. CASE Cancel(e)
    BY <1>6 DEF Cancel, CancelWait, CancelOpen, CancelBackoff, CancelAdmission,
                Interrupt, CancelClosing
  <1>7. CASE RunAbandon(e) \/ Release(e) \/ CloseAttempt(e)
    BY <1>7 DEF RunAbandon, Release, CloseAttempt
  <1> QED  BY <1>1, <1>2, <1>3, <1>4, <1>5, <1>6, <1>7 DEF Step

\* An execution that a shared recovery has failed makes no further call.
THEOREM FailedCallsNoMore == Spec => FailedNeverCallsAgain
  <1>1. IInv /\ [Next]_vars => FailedStays
    <2> SUFFICES ASSUME IInv, [Next]_vars PROVE FailedStays
      OBVIOUS
    <2>1. CASE Time
      BY <2>1 DEF Time, BackoffElapses, CooldownElapses, WindowSlides, FailedStays
    <2>2. CASE UNCHANGED vars
      BY <2>2 DEF vars, FailedStays
    <2> QED  BY <2>1, <2>2, StepFailedStays DEF Next
  <1> QED
    BY <1>1, Invariance, PTL DEF Spec, FailedNeverCallsAgain

\* Without coordination there is no episode to share a failure, and whoever has
\* failed or is at a call has counted that call.
OwnInv ==
    ~Coordinated =>
        \A e \in Executions :
            state[e] = "failed" \/ pc[e] \in Holding => attempts[e] > 0

LEMMA StepOwnInv ==
    ASSUME IInv, OwnInv, NEW e \in Executions, Step(e)
    PROVE  OwnInv'
  <1> SUFFICES ASSUME ~Coordinated PROVE OwnInv'
    BY DEF OwnInv
  <1> USE DEF IInv, OwnInv
  <1>1. phase = "none" /\ leader = Nobody
    OBVIOUS
  <1>2. CASE Gate(e)
    BY <1>1, <1>2 DEF Gate, GateRefuse, GatePass, GateProbe, GateBackoff, GateReopen,
                      GateWait, EnterGate, TakeLead
  <1>3. CASE Start(e) \/ BackoffWake(e)
    BY <1>1, <1>3 DEF Start, BackoffWake
  <1>4. CASE Admission(e)
    BY <1>1, <1>4 DEF Admission, LimiterAdmit, LimiterRefuse, AcquireSlot, RefuseSlot,
                      AbandonProbe, NotifyAll
  <1>5. CASE Answer(e)
    BY <1>1, <1>5 DEF Answer, Accept, Reject, Correct, Fail, FailRetryably,
                      FailOpensEpisode, FailProbe, FailTooLate, FailJoins, Exhaust,
                      FailAlone, IsAlone, CloseMatching
  <1>6. CASE StreamCompletes(e) \/ StreamBreaks(e)
    BY <1>1, <1>6 DEF StreamCompletes, StreamBreaks
  <1>7. CASE Cancel(e)
    BY <1>1, <1>7 DEF Cancel, CancelWait, CancelOpen, CancelBackoff, CancelAdmission,
                      AbandonProbe, Interrupt, CancelClosing
  <1>8. CASE RunAbandon(e) \/ Release(e) \/ CloseAttempt(e)
    BY <1>1, <1>8 DEF RunAbandon, AbandonProbe, Release, CloseAttempt
  <1> QED  BY <1>2, <1>3, <1>4, <1>5, <1>6, <1>7, <1>8 DEF Step

LEMMA InitOwnInv == Init => OwnInv
  BY DEF Init, OwnInv

LEMMA NextOwnInv == IInv /\ OwnInv /\ [Next]_vars => OwnInv'
  <1> SUFFICES ASSUME IInv, OwnInv, [Next]_vars PROVE OwnInv'
    OBVIOUS
  <1>1. CASE Time
    BY <1>1 DEF Time, BackoffElapses, CooldownElapses, WindowSlides, OwnInv
  <1>2. CASE UNCHANGED vars
    BY <1>2 DEF vars, OwnInv
  <1> QED  BY <1>1, <1>2, StepOwnInv DEF Next

\* With recovery left to automatic routing, whoever has failed has called.
THEOREM FailuresAreTheirOwn == Spec => []OwnFailureOnly
  <1>1. IInv /\ OwnInv /\ [Next]_vars => IInv' /\ OwnInv'
    BY NextIInv, NextOwnInv
  <1>2. OwnInv => OwnFailureOnly
    BY DEF OwnInv, OwnFailureOnly
  <1> QED  BY <1>1, <1>2, InitIInv, InitOwnInv, PTL DEF Spec

-----------------------------------------------------------------------------
(* The controller implements the circuit breaker.                          *)

LEMMA GateCircuit ==
    ASSUME IInv, NEW e \in Executions, Gate(e) \/ BackoffWake(e)
    PROVE  Circuit!Grant(e) \/ UNCHANGED Circuit!vars
  <1> USE DEF IInv, Circuit!Grant, Circuit!vars
  <1>1. Holders' = Holders
    BY GateStep, BackoffStep DEF Quiet
  <1>2. CASE GateRefuse(e)
    BY <1>1, <1>2 DEF GateRefuse
  <1>3. CASE GatePass(e)
    BY <1>1, <1>3 DEF GatePass
  <1>4. CASE GateProbe(e)
    BY <1>1, <1>4 DEF GateProbe, TakeLead
  <1>5. CASE GateBackoff(e)
    BY <1>1, <1>5 DEF GateBackoff, TakeLead
  <1>6. CASE GateReopen(e)
    BY <1>1, <1>6 DEF GateReopen
  <1>7. CASE GateWait(e)
    BY <1>1, <1>7 DEF GateWait
  <1>8. CASE BackoffWake(e)
    BY <1>1, <1>8 DEF BackoffWake
  <1> QED
    BY <1>2, <1>3, <1>4, <1>5, <1>6, <1>7, <1>8 DEF Gate

LEMMA AdmissionCircuit ==
    ASSUME IInv, NEW e \in Executions, Admission(e)
    PROVE  Circuit!Begin(e) \/ Circuit!Withdraw(e) \/ UNCHANGED Circuit!vars
  <1> USE DEF IInv, Circuit!Begin, Circuit!Withdraw, Circuit!vars
  <1>1. CASE LimiterAdmit(e)
    <2>1. Holders' = Holders
      BY <1>1, AdmissionStep DEF Quiet
    <2> QED  BY <1>1, <2>1 DEF LimiterAdmit
  <1>2. CASE LimiterRefuse(e) \/ RefuseSlot(e)
    <2>1. Holders' = Holders
      BY <1>2, AdmissionStep DEF Quiet
    <2> QED  BY <1>2, <2>1 DEF LimiterRefuse, RefuseSlot, AbandonProbe
  <1>3. CASE AcquireSlot(e)
    BY <1>3 DEF AcquireSlot, Holders
  <1> QED  BY <1>1, <1>2, <1>3 DEF Admission

LEMMA AnswerCircuit ==
    ASSUME IInv, NEW e \in Executions, Answer(e)
    PROVE  Circuit!Trip(e) \/ Circuit!Settle(e) \/ UNCHANGED Circuit!vars
  <1> USE DEF IInv, Circuit!Trip, Circuit!Settle, Circuit!vars, FailRetryably
  <1>1. Holders' = Holders
    BY AcceptStep, RejectStep, CorrectStep, FailStep DEF Answer, Quiet
  <1>2. pc[e] = "inflight" => e \in Holders
    BY DEF Holders
  <1>3. CASE Accept(e) \/ Reject(e)
    BY <1>1, <1>2, <1>3 DEF Accept, Reject, CloseMatching, CloseEpisode
  <1>4. CASE Correct(e)
    BY <1>1, <1>2, <1>4 DEF Correct
  <1>5. CASE FailTooLate(e) \/ FailJoins(e) \/ FailAlone(e)
    BY <1>1, <1>5 DEF FailTooLate, FailJoins, FailAlone, IsAlone
  <1>6. CASE FailOpensEpisode(e)
    BY <1>1, <1>2, <1>6 DEF FailOpensEpisode
  <1>7. CASE FailProbe(e)
    BY <1>1, <1>2, <1>7 DEF FailProbe
  <1>8. CASE Exhaust(e)
    BY <1>1, <1>2, <1>8 DEF Exhaust
  <1> QED
    BY <1>3, <1>4, <1>5, <1>6, <1>7, <1>8 DEF Answer, Fail

LEMMA EndCircuit ==
    ASSUME IInv, NEW e \in Executions,
           \/ StreamCompletes(e) \/ StreamBreaks(e)
           \/ Cancel(e) \/ RunAbandon(e) \/ Release(e) \/ CloseAttempt(e)
    PROVE  Circuit!Withdraw(e) \/ Circuit!Finish(e) \/ UNCHANGED Circuit!vars
  <1> USE DEF IInv, Circuit!Withdraw, Circuit!Finish, Circuit!vars
  <1>1. CASE StreamCompletes(e) \/ StreamBreaks(e)
    <2>1. Holders' = Holders
      BY <1>1, StreamStep DEF Quiet
    <2> QED  BY <1>1, <2>1 DEF StreamCompletes, StreamBreaks
  <1>2. CASE \/ CancelWait(e) \/ CancelOpen(e) \/ CancelBackoff(e)
             \/ CancelAdmission(e) \/ Interrupt(e)
    <2>1. Holders' = Holders
      BY <1>2, CancelStep DEF Quiet
    <2> QED
      BY <1>2, <2>1 DEF CancelWait, CancelOpen, CancelBackoff, CancelAdmission,
                        Interrupt, AbandonProbe
  <1>3. CASE RunAbandon(e)
    <2>1. Holders' = Holders
      BY <1>3, AbandonStep DEF Quiet
    <2> QED  BY <1>3, <2>1 DEF RunAbandon, AbandonProbe
  <1>4. CASE CancelClosing(e) \/ Release(e) \/ CloseAttempt(e)
    BY <1>4 DEF CancelClosing, Release, CloseAttempt, Holders
  <1> QED  BY <1>1, <1>2, <1>3, <1>4 DEF Cancel

LEMMA NextCircuit == IInv /\ [Next]_vars => [Circuit!Next]_Circuit!vars
  <1> SUFFICES ASSUME IInv, [Next]_vars PROVE [Circuit!Next]_Circuit!vars
    OBVIOUS
  <1>1. ASSUME NEW e \in Executions, Step(e)
        PROVE  [Circuit!Next]_Circuit!vars
    <2>1. CASE Start(e)
      BY <2>1, StartStep DEF Start, IInv, Quiet, Circuit!vars
    <2>2. CASE Gate(e) \/ BackoffWake(e)
      BY <2>2, GateCircuit DEF Circuit!Next
    <2>3. CASE Admission(e)
      BY <2>3, AdmissionCircuit DEF Circuit!Next
    <2>4. CASE Answer(e)
      BY <2>4, AnswerCircuit DEF Circuit!Next
    <2>5. CASE \/ StreamCompletes(e) \/ StreamBreaks(e)
               \/ Cancel(e) \/ RunAbandon(e) \/ Release(e) \/ CloseAttempt(e)
      BY <2>5, EndCircuit DEF Circuit!Next
    <2> QED  BY <1>1, <2>1, <2>2, <2>3, <2>4, <2>5 DEF Step
  <1>2. CASE Time
    <2>1. Holders' = Holders
      BY <1>2, TimeStep DEF Quiet, IInv
    <2> QED
      BY <1>2, <2>1 DEF Time, BackoffElapses, CooldownElapses, WindowSlides,
                        Circuit!Next, Circuit!Cool, Circuit!vars, IInv
  <1>3. CASE UNCHANGED vars
    BY <1>3 DEF vars, Circuit!vars, Holders
  <1> QED  BY <1>1, <1>2, <1>3 DEF Next

LEMMA InitCircuit == Init => Circuit!Init
  BY DEF Init, Circuit!Init, Holders

\* The controller implements the circuit breaker: while the circuit is open a
\* call begins only as the one probe, and only the probe's outcome closes it.
THEOREM Refinement == Spec => ImplementsCircuit
  BY InitCircuit, NextCircuit, Invariance, PTL
     DEF Spec, Circuit!Spec, ImplementsCircuit
=============================================================================
