----------------------------- MODULE MCRuntime -----------------------------
(***************************************************************************)
(* What a running server owns beside its requests, one instance of each    *)
(* for TLC: the provider generations, the admission of a provider's        *)
(* executions in both modes, a code session, the feed of session events,   *)
(* and the credentials that processes share.  They share no state: a       *)
(* behaviour runs the one that was chosen in its initial state.            *)
(***************************************************************************)
EXTENDS ProviderGenerations, TLC

CONSTANTS
    Calls, k1, k2, k3,              \* code session: requests that send
    Sends, s1, s2, OperationOf, NoSend, MaxGenerations, Scenarios,
    Observers, QueueSize, MaxEvents,
    Processes, Nobody, Budgets,
    Executions, RoutedExecutions    \* admission: of either mode

VARIABLES
    part,
    codeSession, codeRuns, codeLatest, codeFresh, codeOwner, codeCalls,
    codeWork, codeFails, codeInterrupts, codeDeletion, codeHalting,
    codeService, codeProcess, codeHistory, codeTurns, codeLeft,
    feedSequence, feedClosed, feedSubscriptions, feedQueue, feedSeen, feedFeed,
    authFile, authMemory, authHolder, authOp, authLogin, authOrphans,
    authAccepted, authIssued, authExpired, authDamage, authLeft,
    admPc, admState, admAttempts, admPermit, admPhase, admGeneration,
    admLeader, admWaiters, admProbing, admReady, admSlots, admRecent,
    admAbandons

codeVars == <<
    codeSession, codeRuns, codeLatest, codeFresh, codeOwner, codeCalls,
    codeWork, codeFails, codeInterrupts, codeDeletion, codeHalting,
    codeService, codeProcess, codeHistory, codeTurns, codeLeft>>
feedVars == <<
    feedSequence, feedClosed, feedSubscriptions, feedQueue, feedSeen, feedFeed>>
authVars == <<
    authFile, authMemory, authHolder, authOp, authLogin, authOrphans,
    authAccepted, authIssued, authExpired, authDamage, authLeft>>
admissionVars == <<
    admPc, admState, admAttempts, admPermit, admPhase, admGeneration,
    admLeader, admWaiters, admProbing, admReady, admSlots, admRecent,
    admAbandons>>

\* The third request repeats the first.
MCOperationOf == k1 :> s1 @@ k2 :> s2 @@ k3 :> s1

Scenario(messages, stops, settings, deletes, faults, shutdowns, restarts) ==
    [messages |-> messages, stops |-> stops, settings |-> settings,
     deletes |-> deletes, faults |-> faults, shutdowns |-> shutdowns,
     restarts |-> restarts]

\* Two messages and new settings; two messages, a stop and a fault; a stop, a
\* deletion and a fault; a shutdown and a fault; two messages and a restart; a
\* deletion, a fault and a restart; a stop and two faults; a deletion and a shutdown.
MCScenarios ==
    {Scenario(2, 0, 1, 0, 0, 0, 0), Scenario(2, 1, 0, 0, 1, 0, 0),
     Scenario(1, 1, 0, 1, 1, 0, 0), Scenario(1, 0, 0, 0, 1, 1, 0),
     Scenario(2, 0, 0, 0, 0, 0, 1), Scenario(1, 0, 0, 1, 1, 0, 1),
     Scenario(1, 1, 0, 0, 2, 0, 0), Scenario(1, 0, 0, 1, 0, 1, 0)}

Budget(expiries, logins, disconnects, faults, cancels, crashes) ==
    [expiries |-> expiries, logins |-> logins, disconnects |-> disconnects,
     faults |-> faults, cancels |-> cancels, crashes |-> crashes]

MCBudgets == {Budget(2, 1, 0, 1, 0, 0), Budget(2, 0, 0, 1, 1, 0),
              Budget(2, 0, 0, 0, 0, 1), Budget(1, 1, 1, 0, 0, 0),
              Budget(1, 1, 0, 0, 1, 0), Budget(0, 0, 1, 1, 0, 0)}

Code == INSTANCE CodeSessions WITH
    session <- codeSession, runs <- codeRuns, latest <- codeLatest,
    fresh <- codeFresh, owner <- codeOwner, calls <- codeCalls,
    work <- codeWork, fails <- codeFails, interrupts <- codeInterrupts,
    deletion <- codeDeletion, halting <- codeHalting, service <- codeService,
    process <- codeProcess, history <- codeHistory, turns <- codeTurns,
    left <- codeLeft

Feed == INSTANCE SessionEvents WITH
    sequence <- feedSequence, closed <- feedClosed,
    subscriptions <- feedSubscriptions, queue <- feedQueue, seen <- feedSeen,
    feed <- feedFeed

Auth == INSTANCE OAuthCredentials WITH
    file <- authFile, memory <- authMemory, holder <- authHolder,
    op <- authOp, login <- authLogin, orphans <- authOrphans,
    accepted <- authAccepted, issued <- authIssued, expired <- authExpired,
    damage <- authDamage, left <- authLeft

\* Recovery coordinated by the controller, and left to automatic routing.
Admission == INSTANCE ProviderAdmission WITH
    Coordinated <- TRUE, MaxAttempts <- 3, MaxConcurrency <- 1,
    RateLimit <- 2, LeaderMayVanish <- FALSE, pc <- admPc, state <- admState,
    attempts <- admAttempts, permit <- admPermit, phase <- admPhase,
    generation <- admGeneration, leader <- admLeader, waiters <- admWaiters,
    probing <- admProbing, ready <- admReady, slots <- admSlots,
    recent <- admRecent, abandons <- admAbandons

Routed == INSTANCE ProviderAdmission WITH
    Executions <- RoutedExecutions, Coordinated <- FALSE, MaxAttempts <- 1,
    MaxConcurrency <- 2, RateLimit <- 2, LeaderMayVanish <- TRUE, pc <- admPc,
    state <- admState, attempts <- admAttempts, permit <- admPermit,
    phase <- admPhase, generation <- admGeneration, leader <- admLeader,
    waiters <- admWaiters, probing <- admProbing, ready <- admReady,
    slots <- admSlots, recent <- admRecent, abandons <- admAbandons

ASSUME RuntimeAssumption ==
    /\ Code!ConstantsOK /\ Auth!ConstantsOK
    /\ QueueSize \in Nat \ {0}
    /\ Nobody \notin Executions \cup RoutedExecutions
    /\ IsFiniteSet(Executions) /\ IsFiniteSet(RoutedExecutions)

MCInit ==
    /\ part \in {"generations", "code", "feed", "auth", "admission", "routed"}
    /\ IF part = "routed" THEN Routed!Init ELSE Admission!Init
    /\ Init /\ Code!Init /\ Feed!Init /\ Auth!Init
    /\ part # "code" => codeLeft = Scenario(2, 0, 1, 0, 0, 0, 0)
    /\ part # "auth" => authLeft = Budget(2, 0, 0, 0, 0, 1)

MCNext ==
    \/ /\ part = "generations" /\ Next
       /\ UNCHANGED <<part, codeVars, feedVars, authVars, admissionVars>>
    \/ /\ part = "code" /\ Code!Next
       /\ UNCHANGED <<part, vars, feedVars, authVars, admissionVars>>
    \/ /\ part = "feed" /\ Feed!Next
       /\ UNCHANGED <<part, vars, codeVars, authVars, admissionVars>>
    \/ /\ part = "auth" /\ Auth!Next
       /\ UNCHANGED <<part, vars, codeVars, feedVars, admissionVars>>
    \/ /\ part = "admission" /\ Admission!Next
       /\ UNCHANGED <<part, vars, codeVars, feedVars, authVars>>
    \/ /\ part = "routed" /\ Routed!Next
       /\ UNCHANGED <<part, vars, codeVars, feedVars, authVars>>

MCVars == <<part, vars, codeVars, feedVars, authVars, admissionVars>>

\* Fairness of ProviderAdmission, in the mode that runs.
AdmissionFairness ==
    /\ WF_admissionVars(part = "admission" /\ Admission!BackoffElapses)
    /\ WF_admissionVars(part = "admission" /\ Admission!CooldownElapses)
    /\ WF_admissionVars(part = "admission" /\ Admission!WindowSlides)
    /\ \A e \in Executions :
           /\ WF_admissionVars(part = "admission" /\ Admission!Progress(e))
           /\ WF_admissionVars(part = "admission" /\ Admission!RunAbandon(e))

RoutedFairness ==
    /\ WF_admissionVars(part = "routed" /\ Routed!WindowSlides)
    /\ \A e \in RoutedExecutions :
           /\ WF_admissionVars(part = "routed" /\ Routed!Progress(e))
           /\ WF_admissionVars(part = "routed" /\ Routed!RunAbandon(e))

\* A component is fair when it is the one that runs; the others do not move.
MCSpec == /\ MCInit /\ [][MCNext]_MCVars
          /\ Fairness /\ Code!Fairness /\ Feed!Fairness /\ Auth!Fairness
          /\ AdmissionFairness /\ RoutedFairness

-----------------------------------------------------------------------------

\* The types of all of them.
TypesOK ==
    /\ TypeOK /\ Code!TypeOK /\ Feed!TypeOK /\ Auth!TypeOK
    /\ part = "admission" => Admission!TypeOK
    /\ part = "routed" => Routed!TypeOK

\* See the components for what these say.
RunsAreFaithful    == Code!RunsAreFaithful
NothingIsLeft      == Code!NothingIsLeft
StartsAreWanted    == Code!StartsAreWanted
NoEventIsMissed    == Feed!NoEventIsMissed
CredentialsSurvive == Auth!CredentialsSurvive
OwnFailureOnly     == part = "routed" => Routed!OwnFailureOnly

\* Whatever the part, its work ends: GenerationsSettle, SessionsSettle,
\* FeedsSettle, AuthSettles; and no execution waits for admission.
RuntimeSettles ==
    []<>( /\ part = "generations" => Settled
          /\ part = "code" => Code!Settled
          /\ part = "feed" => Feed!Settled
          /\ part = "auth" => Auth!Settled
          /\ part = "admission" => Admission!NobodyWaits
          /\ part = "routed" => Routed!NobodyWaits)
=============================================================================
