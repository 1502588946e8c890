------------------------- MODULE ProviderAdmission -------------------------
(***************************************************************************)
(* ProviderAdmissionController (providers/admission.py): the rate window,  *)
(* the concurrency slots and the recovery episode that every upstream call *)
(* of one provider goes through, and the executions that go through it.    *)
(*                                                                         *)
(* Each section under the controller's condition is one action: nothing    *)
(* in it awaits except Condition.wait.  The awaits that separate actions   *)
(* are the wait on the condition, the backoff sleep, the rate limiter, the *)
(* semaphore, the upstream call, the closing of the upstream response and  *)
(* the shielded abandon task of ProviderAttempt.aclose.  A cancellation    *)
(* may arrive at any of them.                                              *)
(*                                                                         *)
(* Time is abstracted to the comparisons the code makes with it: ready     *)
(* stands for ready_at <= now, the phases "cooling" and "expired" for      *)
(* now < terminal_until and its negation, recent for the acquisitions      *)
(* still inside the sliding window (RateWindow.tla has the window itself). *)
(***************************************************************************)
EXTENDS Integers, FiniteSets

CONSTANTS
    Executions,      \* one ProviderExecution per logical provider operation
    Nobody,          \* leader = None
    MaxAttempts,     \* max_attempts
    MaxConcurrency,  \* max_concurrency
    RateLimit,       \* rate_limit
    Coordinated,     \* coordinated_recovery
    LeaderMayVanish  \* may a cancellation reach the episode's leader between
                     \* its resolved attempt and its return to the gate?

\* __init__ rejects every other configuration.
ASSUME AdmissionAssumption ==
    /\ Nobody \notin Executions
    /\ IsFiniteSet(Executions)
    /\ MaxAttempts \in Nat \ {0}
    /\ MaxConcurrency \in Nat \ {0}
    /\ RateLimit \in Nat \ {0}
    /\ Coordinated \in BOOLEAN
    /\ ~Coordinated => MaxAttempts = 1
    /\ LeaderMayVanish \in BOOLEAN

VARIABLES
    pc,          \* where the task of each execution is
    state,       \* ProviderExecution._state
    attempts,    \* ProviderExecution._attempts_started
    permit,      \* the generation of its probe permit, or of the episode it
                 \* backs off for; 0 for a normal permit
    phase,       \* the episode: "none", or live, cooling down, cooled down
    generation,  \* _next_generation - 1, which an open episode carries
    leader,      \* episode.leader
    waiters,     \* episode.waiters
    probing,     \* episode.probe_active
    ready,       \* episode.ready_at <= now
    slots,       \* the value of _concurrency_sem
    recent,      \* acquisitions inside the limiter's window
    abandons     \* shielded _attempt_abandoned tasks that have not run yet

episode == <<phase, generation, leader, waiters, probing, ready>>
vars == <<pc, state, attempts, permit, episode, slots, recent, abandons>>

Waiting  == {"waiting", "woken"}
AtGate   == {"open", "waiting", "woken", "backoff", "limiter", "slot"}
Holding  == {"inflight", "streaming", "retrying", "ending", "releasing"}
Places   == {"new", "done"} \cup AtGate \cup Holding

\* Mutant: the budget is off by one.
CanAttemptOnceMore(e) == state[e] = "active" /\ attempts[e] <= MaxAttempts

CanAttempt(e) == state[e] = "active" /\ attempts[e] < MaxAttempts

\* _permit_is_current: a terminal episode has phase "cooling" or "expired".
PermitIsCurrent(e) ==
    IF permit[e] = 0
    THEN phase = "none"
    ELSE phase = "live" /\ permit[e] = generation /\ leader = e /\ probing

MatchingProbe(e) ==
    /\ permit[e] # 0
    /\ phase # "none"
    /\ permit[e] = generation
    /\ leader = e
    /\ probing

\* condition.notify_all(), in a step that takes e to place.
NotifyAll(e, place) ==
    pc' = [f \in Executions |->
              IF f = e THEN place
              ELSE IF pc[f] = "waiting" THEN "woken" ELSE pc[f]]

\* A waiter that loses the race for a new episode keeps the state it has.
FailedBy(affected) ==
    [e \in Executions |->
        IF e \in affected /\ state[e] = "active" THEN "failed" ELSE state[e]]

Goto(e, place) == pc' = [pc EXCEPT ![e] = place]
Become(e, s)   == state' = [state EXCEPT ![e] = IF @ = "active" THEN s ELSE @]

Init ==
    /\ pc = [e \in Executions |-> "new"]
    /\ state = [e \in Executions |-> "active"]
    /\ attempts = [e \in Executions |-> 0]
    /\ permit = [e \in Executions |-> 0]
    /\ phase = "none"
    /\ generation = 0
    /\ leader = Nobody
    /\ waiters = {}
    /\ probing = FALSE
    /\ ready = FALSE
    /\ slots = MaxConcurrency
    /\ recent = 0
    /\ abandons = {}

\* start_execution, and the caller's first open_attempt.
Start(e) ==
    /\ pc[e] = "new"
    /\ Goto(e, "open")
    /\ UNCHANGED <<state, attempts, permit, episode, slots, recent, abandons>>

-----------------------------------------------------------------------------
(* _wait_for_gate: what an execution finds under the condition.            *)

\* Mutant: a woken waiter does not look at what happened to its execution.
EnterGateUnchecked(e) == pc[e] \in {"open", "woken"}

EnterGate(e) == pc[e] \in {"open", "woken"} /\ state[e] # "failed"

\* An execution whose recovery failed while it waited, or that arrives during
\* the cooldown, is refused.
GateRefuse(e) ==
    /\ \/ pc[e] \in {"open", "woken"} /\ state[e] = "failed"
       \/ EnterGate(e) /\ phase = "cooling"
    /\ Goto(e, "done")
    /\ Become(e, "failed")
    /\ UNCHANGED <<attempts, permit, episode, slots, recent, abandons>>

GatePass(e) ==
    /\ EnterGate(e)
    /\ phase = "none"
    /\ permit' = [permit EXCEPT ![e] = 0]
    /\ Goto(e, "limiter")
    /\ UNCHANGED <<state, attempts, episode, slots, recent, abandons>>

\* Leadership that nobody holds goes to whoever reaches the gate first.
TakeLead(e) ==
    /\ EnterGate(e)
    /\ phase = "live"
    /\ leader \in {Nobody, e}
    /\ ~probing
    /\ leader' = e
    /\ waiters' = IF leader = Nobody THEN waiters \ {e} ELSE waiters
    /\ permit' = [permit EXCEPT ![e] = generation]

GateProbe(e) ==
    /\ TakeLead(e)
    /\ ready
    /\ probing' = TRUE
    /\ Goto(e, "limiter")
    /\ UNCHANGED <<state, attempts, phase, generation, ready, slots, recent, abandons>>

GateBackoff(e) ==
    /\ TakeLead(e)
    /\ ~ready
    /\ Goto(e, "backoff")
    /\ UNCHANGED <<state, attempts, phase, generation, probing, ready, slots,
                   recent, abandons>>

\* After the cooldown the next arrival opens a new episode and probes at once.
GateReopen(e) ==
    /\ EnterGate(e)
    /\ phase = "expired"
    /\ phase' = "live"
    /\ generation' = generation + 1
    /\ leader' = e
    /\ waiters' = {}
    /\ probing' = TRUE
    /\ ready' = TRUE
    /\ permit' = [permit EXCEPT ![e] = generation + 1]
    /\ Goto(e, "limiter")
    /\ UNCHANGED <<state, attempts, slots, recent, abandons>>

GateWait(e) ==
    /\ EnterGate(e)
    /\ phase = "live"
    /\ leader # Nobody
    /\ leader = e => probing
    /\ waiters' = IF leader = e THEN waiters ELSE waiters \cup {e}
    /\ permit' = [permit EXCEPT ![e] = generation]
    /\ Goto(e, "waiting")
    /\ UNCHANGED <<state, attempts, phase, generation, leader, probing, ready,
                   slots, recent, abandons>>

\* A cancelled follower leaves the episode it waited for, if that one is
\* still the current one.
CancelWait(e) ==
    /\ pc[e] \in Waiting
    /\ Goto(e, "done")
    /\ Become(e, "abandoned")
    /\ waiters' = IF phase # "none" /\ permit[e] = generation
                  THEN waiters \ {e} ELSE waiters
    /\ UNCHANGED <<attempts, permit, phase, generation, leader, probing, ready,
                   slots, recent, abandons>>

\* A task that is cancelled as it acquires the condition leaves nothing behind
\* but its leadership, if it has one.
CancelOpen(e) ==
    /\ pc[e] = "open"
    /\ LeaderMayVanish \/ leader # e
    /\ Goto(e, "done")
    /\ Become(e, "abandoned")
    /\ UNCHANGED <<attempts, permit, episode, slots, recent, abandons>>

\* The backoff sleep is over: probe if the claimed episode still is this
\* execution's to probe, otherwise look at the gate again.
StillMine(e) == /\ phase = "live"
                /\ permit[e] = generation
                /\ leader = e
                /\ ~probing

BackoffWake(e) ==
    /\ pc[e] = "backoff"
    /\ StillMine(e) => ready
    /\ probing' = (probing \/ StillMine(e))
    /\ Goto(e, IF StillMine(e) THEN "limiter" ELSE "open")
    /\ UNCHANGED <<state, attempts, permit, phase, generation, leader, waiters,
                   ready, slots, recent, abandons>>

\* _abandon_waiting_leader.
CancelBackoff(e) ==
    LET mine == phase # "none" /\ permit[e] = generation /\ leader = e /\ ~probing
    IN  /\ pc[e] = "backoff"
        /\ Become(e, "abandoned")
        /\ leader' = IF mine THEN Nobody ELSE leader
        /\ IF mine THEN NotifyAll(e, "done") ELSE Goto(e, "done")
        /\ UNCHANGED <<attempts, permit, phase, generation, waiters, probing,
                       ready, slots, recent, abandons>>

-----------------------------------------------------------------------------
(* Rate limiter and concurrency slot, with a permit in hand.               *)

\* _abandon_probe_permit and _attempt_abandoned: hand a matching probe back.
AbandonProbe(e, place) ==
    /\ leader' = IF MatchingProbe(e) THEN Nobody ELSE leader
    /\ probing' = (probing /\ ~MatchingProbe(e))
    /\ ready' = (ready \/ MatchingProbe(e))
    /\ IF MatchingProbe(e) THEN NotifyAll(e, place) ELSE Goto(e, place)

\* Mutant: the window is not consulted.
LimiterAdmitOverQuota(e) ==
    /\ pc[e] = "limiter"
    /\ PermitIsCurrent(e)
    /\ recent' = recent + 1
    /\ Goto(e, "slot")
    /\ UNCHANGED <<state, attempts, permit, episode, slots, abandons>>

LimiterAdmit(e) ==
    /\ pc[e] = "limiter"
    /\ recent < RateLimit
    /\ PermitIsCurrent(e)
    /\ recent' = recent + 1
    /\ Goto(e, "slot")
    /\ UNCHANGED <<state, attempts, permit, episode, slots, abandons>>

LimiterRefuse(e) ==
    /\ pc[e] = "limiter"
    /\ recent < RateLimit
    /\ ~PermitIsCurrent(e)
    /\ AbandonProbe(e, "open")
    /\ UNCHANGED <<state, attempts, permit, phase, generation, waiters, slots,
                   recent, abandons>>

\* Mutant: the permit is not checked again after the semaphore.
AcquireSlotUnchecked(e) ==
    /\ pc[e] = "slot"
    /\ slots > 0
    /\ slots' = slots - 1
    /\ attempts' = [attempts EXCEPT ![e] = @ + 1]
    /\ Goto(e, "inflight")
    /\ UNCHANGED <<state, permit, episode, recent, abandons>>

\* The permit is checked again once the slot is held; _claim_attempt counts
\* the attempt.
AcquireSlot(e) ==
    /\ pc[e] = "slot"
    /\ slots > 0
    /\ PermitIsCurrent(e)
    /\ slots' = slots - 1
    /\ attempts' = [attempts EXCEPT ![e] = @ + 1]
    /\ Goto(e, "inflight")
    /\ UNCHANGED <<state, permit, episode, recent, abandons>>

RefuseSlot(e) ==
    /\ pc[e] = "slot"
    /\ slots > 0
    /\ ~PermitIsCurrent(e)
    /\ AbandonProbe(e, "open")
    /\ UNCHANGED <<state, attempts, permit, phase, generation, waiters, slots,
                   recent, abandons>>

\* Mutant: a cancelled admission forgets its probe.
CancelAdmissionForgetsProbe(e) ==
    /\ pc[e] \in {"limiter", "slot"}
    /\ Become(e, "abandoned")
    /\ Goto(e, "done")
    /\ UNCHANGED <<attempts, permit, episode, slots, recent, abandons>>

CancelAdmission(e) ==
    /\ pc[e] \in {"limiter", "slot"}
    /\ Become(e, "abandoned")
    /\ AbandonProbe(e, "done")
    /\ UNCHANGED <<attempts, permit, phase, generation, waiters, slots, recent,
                   abandons>>

-----------------------------------------------------------------------------
(* The upstream call: ProviderAttempt.accept, correct, fail, aclose.       *)

\* Mutant: nobody is told that the episode is over.
CloseEpisodeSilently(e, place) ==
    /\ phase' = "none"
    /\ leader' = Nobody
    /\ waiters' = {}
    /\ probing' = FALSE
    /\ ready' = FALSE
    /\ Goto(e, place)
    /\ UNCHANGED generation

CloseEpisode(e, place) ==
    /\ phase' = "none"
    /\ leader' = Nobody
    /\ waiters' = {}
    /\ probing' = FALSE
    /\ ready' = FALSE
    /\ NotifyAll(e, place)
    /\ UNCHANGED generation

\* The outcome of a probe that answers closes its episode; any other outcome
\* leaves the episode alone.
CloseMatching(e, place) ==
    IF MatchingProbe(e) THEN CloseEpisode(e, place)
                        ELSE Goto(e, place) /\ UNCHANGED episode

Accept(e) ==
    /\ pc[e] = "inflight"
    /\ CloseMatching(e, "streaming")
    /\ UNCHANGED <<state, attempts, permit, slots, recent, abandons>>

\* A final rejection: a failure that is not retryable, or a correction with
\* no attempt left to make it in.
Reject(e) ==
    /\ pc[e] = "inflight"
    /\ CloseMatching(e, "ending")
    /\ Become(e, "failed")
    /\ UNCHANGED <<attempts, permit, slots, recent, abandons>>

\* A request the caller can correct and send again without backoff.
Correct(e) ==
    /\ pc[e] = "inflight"
    /\ CanAttempt(e)
    /\ IF MatchingProbe(e) THEN NotifyAll(e, "retrying") ELSE Goto(e, "retrying")
    /\ probing' = (probing /\ ~MatchingProbe(e))
    /\ ready' = (ready \/ MatchingProbe(e))
    /\ UNCHANGED <<state, attempts, permit, phase, generation, leader, waiters,
                   slots, recent, abandons>>

FailRetryably(e) == pc[e] = "inflight" /\ Coordinated /\ CanAttempt(e)

FailOpensEpisode(e) ==
    /\ FailRetryably(e)
    /\ phase = "none"
    /\ phase' = "live"
    /\ generation' = generation + 1
    /\ leader' = e
    /\ waiters' = {}
    /\ probing' = FALSE
    /\ ready' = FALSE
    /\ NotifyAll(e, "retrying")
    /\ UNCHANGED <<state, attempts, permit, slots, recent, abandons>>

FailProbe(e) ==
    /\ FailRetryably(e)
    /\ MatchingProbe(e)
    /\ probing' = FALSE
    /\ ready' = FALSE
    /\ NotifyAll(e, "retrying")
    /\ UNCHANGED <<state, attempts, permit, phase, generation, leader, waiters,
                   slots, recent, abandons>>

\* The recovery is over already: share its failure.
FailTooLate(e) ==
    /\ FailRetryably(e)
    /\ ~MatchingProbe(e)
    /\ phase \in {"cooling", "expired"}
    /\ Become(e, "failed")
    /\ NotifyAll(e, "ending")
    /\ UNCHANGED <<attempts, permit, episode, slots, recent, abandons>>

FailJoins(e) ==
    /\ FailRetryably(e)
    /\ ~MatchingProbe(e)
    /\ phase = "live"
    /\ waiters' = waiters \cup {e}
    /\ NotifyAll(e, "retrying")
    /\ UNCHANGED <<state, attempts, permit, phase, generation, leader, probing,
                   ready, slots, recent, abandons>>

\* No attempt is left and nobody else leads: the episode becomes terminal and
\* every waiter fails with it.
Exhaust(e) ==
    /\ pc[e] = "inflight"
    /\ Coordinated
    /\ ~CanAttempt(e)
    /\ phase = "none" \/ MatchingProbe(e)
    /\ phase' = "cooling"
    /\ generation' = IF phase = "none" THEN generation + 1 ELSE generation
    /\ leader' = Nobody
    /\ waiters' = {}
    /\ probing' = FALSE
    /\ ready' = (ready \/ phase = "none")
    /\ state' = FailedBy(waiters \cup {e})
    /\ NotifyAll(e, "ending")
    /\ UNCHANGED <<attempts, permit, slots, recent, abandons>>

\* The episode is not this execution's to change, and no attempt is left: it is
\* someone else's, or there is none because automatic routing owns the cooldown (with
\* one attempt only, see AdmissionAssumption).
IsAlone(e) ==
    /\ pc[e] = "inflight"
    /\ ~CanAttempt(e)
    /\ Coordinated => phase # "none" /\ ~MatchingProbe(e)

\* Mutant: the first failure opens a shared episode without coordination too.
FailAloneShares(e) ==
    /\ IsAlone(e)
    /\ phase' = "cooling"
    /\ Become(e, "failed")
    /\ Goto(e, "ending")
    /\ UNCHANGED <<attempts, permit, generation, leader, waiters, probing, ready,
                   slots, recent, abandons>>

FailAlone(e) ==
    /\ IsAlone(e)
    /\ Become(e, "failed")
    /\ Goto(e, "ending")
    /\ UNCHANGED <<attempts, permit, episode, slots, recent, abandons>>

\* An accepted stream ends, or breaks and is retried while attempts are left.
StreamCompletes(e) ==
    /\ pc[e] = "streaming"
    /\ Become(e, "succeeded")
    /\ Goto(e, "ending")
    /\ UNCHANGED <<attempts, permit, episode, slots, recent, abandons>>

StreamBreaks(e) ==
    /\ pc[e] = "streaming"
    /\ \/ CanAttempt(e) /\ Goto(e, "retrying") /\ UNCHANGED state
       \/ Become(e, "failed") /\ Goto(e, "ending")
    /\ UNCHANGED <<attempts, permit, episode, slots, recent, abandons>>

\* The task is cancelled, or its generator closed, with the call running: an
\* unresolved attempt leaves its abandon section to a shielded task.
Interrupt(e) ==
    /\ \/ /\ pc[e] = "inflight"
          /\ Goto(e, "releasing")
          /\ abandons' = abandons \cup {e}
          /\ UNCHANGED state
       \/ /\ pc[e] = "streaming"
          /\ Goto(e, "ending")
          /\ Become(e, "abandoned")
          /\ UNCHANGED abandons
    /\ UNCHANGED <<attempts, permit, episode, slots, recent>>

RunAbandon(e) ==
    /\ e \in abandons
    /\ abandons' = abandons \ {e}
    /\ AbandonProbe(e, pc[e])
    /\ UNCHANGED <<state, attempts, permit, phase, generation, waiters, slots,
                   recent>>

\* aclose returns: the shielded task is done, or a second cancellation has
\* ended the wait for it.
Release(e) ==
    /\ pc[e] = "releasing"
    /\ Goto(e, "done")
    /\ Become(e, "abandoned")
    /\ slots' = slots + 1
    /\ UNCHANGED <<attempts, permit, episode, recent, abandons>>

\* The upstream response is closed and the slot released.  The caller's loop
\* (while execution.can_attempt) opens the next attempt, unless the recovery
\* it waits for has failed in the meantime.
CloseAttempt(e) ==
    /\ pc[e] \in {"retrying", "ending"}
    /\ Goto(e, IF pc[e] = "retrying" /\ CanAttempt(e) THEN "open" ELSE "done")
    /\ slots' = slots + 1
    /\ UNCHANGED <<state, attempts, permit, episode, recent, abandons>>

\* Mutant: a cancelled close does not release.
CancelClosingLeaks(e) ==
    /\ pc[e] = "retrying"
    /\ LeaderMayVanish \/ leader # e
    /\ Goto(e, "done")
    /\ Become(e, "abandoned")
    /\ UNCHANGED <<attempts, permit, episode, slots, recent, abandons>>

\* The task is cancelled while the transport closes the response of an attempt
\* that is to be retried.  The attempt is resolved, so aclose only releases.
CancelClosing(e) ==
    /\ pc[e] = "retrying"
    /\ LeaderMayVanish \/ leader # e
    /\ Goto(e, "done")
    /\ Become(e, "abandoned")
    /\ slots' = slots + 1
    /\ UNCHANGED <<attempts, permit, episode, recent, abandons>>

-----------------------------------------------------------------------------
(* Time.                                                                   *)

BackoffElapses ==
    /\ phase = "live"
    /\ ~ready
    /\ ready' = TRUE
    /\ UNCHANGED <<pc, state, attempts, permit, phase, generation, leader,
                   waiters, probing, slots, recent, abandons>>

CooldownElapses ==
    /\ phase = "cooling"
    /\ phase' = "expired"
    /\ UNCHANGED <<pc, state, attempts, permit, generation, leader, waiters,
                   probing, ready, slots, recent, abandons>>

WindowSlides ==
    /\ recent > 0
    /\ recent' \in 0 .. recent - 1
    /\ UNCHANGED <<pc, state, attempts, permit, episode, slots, abandons>>

-----------------------------------------------------------------------------

Gate(e) == \/ GateRefuse(e) \/ GatePass(e) \/ GateProbe(e)
           \/ GateBackoff(e) \/ GateReopen(e) \/ GateWait(e)

Admission(e) == \/ LimiterAdmit(e) \/ LimiterRefuse(e)
                \/ AcquireSlot(e) \/ RefuseSlot(e)

Fail(e) == \/ FailOpensEpisode(e) \/ FailProbe(e) \/ FailTooLate(e)
           \/ FailJoins(e) \/ Exhaust(e) \/ FailAlone(e)

Answer(e) == Accept(e) \/ Reject(e) \/ Correct(e) \/ Fail(e)

Cancel(e) == \/ CancelWait(e) \/ CancelOpen(e) \/ CancelBackoff(e)
             \/ CancelAdmission(e) \/ Interrupt(e) \/ CancelClosing(e)

Step(e) == \/ Start(e) \/ Gate(e) \/ BackoffWake(e) \/ Admission(e)
           \/ Answer(e) \/ StreamCompletes(e) \/ StreamBreaks(e)
           \/ Cancel(e) \/ RunAbandon(e) \/ Release(e) \/ CloseAttempt(e)

Time == BackoffElapses \/ CooldownElapses \/ WindowSlides

Next == (\E e \in Executions : Step(e)) \/ Time

Spec == Init /\ [][Next]_vars

\* What a task does unless it is cancelled while it waits.
Progress(e) == \/ Gate(e) \/ BackoffWake(e) \/ Admission(e)
               \/ Answer(e) \/ Interrupt(e) \/ StreamCompletes(e) \/ StreamBreaks(e)
               \/ Release(e) \/ CloseAttempt(e)

\* The event loop runs every task that can go on, sleeps end, an upstream call
\* ends by its read timeout, and a client that stops reading is disconnected.
\* Nothing obliges anyone to cancel.
Fairness ==
    /\ WF_vars(BackoffElapses)
    /\ WF_vars(CooldownElapses)
    /\ WF_vars(WindowSlides)
    /\ \A e \in Executions : WF_vars(Progress(e)) /\ WF_vars(RunAbandon(e))

FairSpec == Spec /\ Fairness

-----------------------------------------------------------------------------
(* Properties.                                                             *)

TypeOK ==
    /\ pc \in [Executions -> Places]
    /\ state \in [Executions -> {"active", "succeeded", "failed", "abandoned"}]
    /\ attempts \in [Executions -> 0 .. MaxAttempts]
    /\ permit \in [Executions -> Nat]
    /\ phase \in {"none", "live", "cooling", "expired"}
    /\ generation \in Nat
    /\ leader \in Executions \cup {Nobody}
    /\ waiters \subseteq Executions
    /\ probing \in BOOLEAN
    /\ ready \in BOOLEAN
    /\ slots \in 0 .. MaxConcurrency
    /\ recent \in 0 .. RateLimit
    /\ abandons \subseteq Executions

\* No path through accept, fail, correct, cancellation or aclose leaks a
\* concurrency slot or releases it twice: what the semaphore has lost is what
\* the attempts still hold (the finally clauses of ProviderAttempt.aclose).
Holders == {e \in Executions : pc[e] \in Holding}
SlotsConserved == slots + Cardinality(Holders) = MaxConcurrency

\* A probe that is marked active always has a task that will settle it or
\* hand it back: otherwise every later caller would wait behind it for ever.
OwnsProbe(e) ==
    /\ permit[e] = generation
    /\ pc[e] \in {"limiter", "slot", "inflight"} \/ e \in abandons
ProbeHasOwner ==
    probing => phase = "live" /\ leader \in Executions /\ OwnsProbe(leader)

\* However its predecessors ended, at most one call of the current episode is
\* waiting for its answer, and it is the leader's active probe: the outcome
\* of a call admitted earlier can never pass for the probe's.
ProbesInFlight ==
    {e \in Executions : /\ pc[e] = "inflight"
                        /\ phase # "none"
                        /\ permit[e] = generation}
OneProbeInFlight == \A e \in ProbesInFlight : leader = e /\ probing

\* No lost wake-up: whoever sleeps on the condition waits for a live episode
\* that knows it as a waiter (so an exhausted recovery fails it too) and that
\* somebody else leads.
NoLostWakeup ==
    \A e \in Executions :
        pc[e] = "waiting" =>
            /\ phase = "live"
            /\ e \in waiters
            /\ leader \notin {Nobody, e}

\* While a leader sleeps its backoff nothing takes its episode, its leadership
\* or its probe away, so the check it makes on waking always succeeds.
BackoffIsUndisturbed ==
    \A e \in Executions : pc[e] = "backoff" => StillMine(e)

\* _claim_attempt never raises: an execution that still holds a current permit
\* after the awaits in front of the slot is still allowed an attempt.
ClaimNeverRefused ==
    \A e \in Executions :
        pc[e] = "slot" /\ PermitIsCurrent(e) =>
            state[e] = "active" /\ attempts[e] < MaxAttempts

\* A recovery is the business of one execution at a time, from its backoff to
\* the answer of its probe, and that execution is never turned away half-way.
RecoveryIsExclusive == OneProbeInFlight /\ BackoffIsUndisturbed /\ ClaimNeverRefused

FailedStays ==
    \A e \in Executions :
        state[e] = "failed" => state'[e] = "failed" /\ attempts'[e] = attempts[e]

\* An execution that a shared recovery has failed makes no further upstream
\* call, wherever it was when the recovery gave up, and stays failed.
FailedNeverCallsAgain == [][FailedStays]_vars

\* "concurrent callers wait for that episode": as long as somebody waits, the
\* episode's leader can still come back to probe or to hand over.
LeaderCanReturn ==
    (\E e \in Executions : pc[e] = "waiting") =>
        pc[leader] # "done" \/ leader \in abandons

\* With recovery left to automatic routing no execution fails of another one's
\* failure: one that has failed has made an upstream call of its own.
OwnFailureOnly ==
    ~Coordinated =>
        \A e \in Executions : state[e] = "failed" => attempts[e] > 0

\* Every execution that asks for admission has been admitted, refused or
\* cancelled.
NobodyWaits == \A e \in Executions : pc[e] \notin AtGate

\* The refinement: the episode as a circuit breaker.
Circuit == INSTANCE RecoveryCircuit WITH
    circuit <- CASE phase = "none" -> "closed"
                 [] phase = "live" -> "recovering"
                 [] phase = "cooling" -> "cooling"
                 [] OTHER -> "cooled",
    prober  <- IF phase = "live" /\ probing THEN leader ELSE Nobody,
    calls   <- Holders

ImplementsCircuit == Circuit!Spec
=============================================================================
