---------------------------- MODULE MCMessaging ----------------------------
(***************************************************************************)
(* The services around the conversation trees, one instance of each for    *)
(* TLC: message intake with voice notes, the delivery queue, the CLI       *)
(* sessions, and the store's writes.  They share no state: a behaviour     *)
(* runs the one that was chosen in its initial state.                      *)
(***************************************************************************)
EXTENDS SessionPersistence, TLC

CONSTANTS
    Typed, Voices, Chat,                   \* intake
    t1, v1, v2,                            \*   a typed message, two voice notes
    DedupKeys, MaxRetries, Deliveries,     \* limiter
    Runners, Ids, None, StopAll, MaxStops, MaxCancels  \* sessions

VARIABLES
    part,
    inStage, inSaid, inAim, inToken, inStopGen, inClearGen, inTurn, inNote,
    inPending, inDoomed, inSwept, inReach, inStatus,
    limNext, limKey, limAwaited, limPlace, limTries, limQueue, limWaiting,
    limFunc, limWorker, limActive, limCalling, limClosing, limShown,
    sesPending, sesReal, sesTemp, sesClosing, sesManager, sesClosed,
    sesProcess, sesCli, sesLifecycle, sesPlace, sesUsing, sesHandle, sesTodo,
    sesStops, sesCancels

intakeVars == <<
    inStage, inSaid, inAim, inToken, inStopGen, inClearGen, inTurn, inNote,
    inPending, inDoomed, inSwept, inReach, inStatus>>
limiterVars == <<
    limNext, limKey, limAwaited, limPlace, limTries, limQueue, limWaiting,
    limFunc, limWorker, limActive, limCalling, limClosing, limShown>>
sessionVars == <<
    sesPending, sesReal, sesTemp, sesClosing, sesManager, sesClosed,
    sesProcess, sesCli, sesLifecycle, sesPlace, sesUsing, sesHandle, sesTodo,
    sesStops, sesCancels>>

MCChat == t1 :> "a" @@ v1 :> "a" @@ v2 :> "b"

Intake == INSTANCE MessageIntake WITH
    stage <- inStage, said <- inSaid, aim <- inAim, token <- inToken, stopGen <- inStopGen,
    clearGen <- inClearGen, turn <- inTurn, note <- inNote,
    pending <- inPending, doomed <- inDoomed, swept <- inSwept,
    reach <- inReach, status <- inStatus

Limiter == INSTANCE MessagingLimiter WITH
    Keys <- DedupKeys, Requests <- Deliveries, next <- limNext,
    key <- limKey, awaited <- limAwaited, place <- limPlace, tries <- limTries, queue <- limQueue,
    waiting <- limWaiting, func <- limFunc, worker <- limWorker,
    active <- limActive, calling <- limCalling, closing <- limClosing,
    shown <- limShown

Sessions == INSTANCE ManagedSessions WITH
    pending <- sesPending, real <- sesReal, temp <- sesTemp,
    closing <- sesClosing, manager <- sesManager, closed <- sesClosed,
    process <- sesProcess, cli <- sesCli, lifecycle <- sesLifecycle,
    place <- sesPlace, using <- sesUsing, handle <- sesHandle,
    todo <- sesTodo, stops <- sesStops, cancels <- sesCancels

ASSUME ServicesAssumption ==
    Intake!ConstantsOK /\ Limiter!ConstantsOK /\ Sessions!ConstantsOK

MCInit ==
    /\ part \in {"intake", "limiter", "sessions", "store"}
    /\ Intake!Init /\ Limiter!Init /\ Sessions!Init /\ Init

MCNext ==
    \/ part = "intake" /\ Intake!Next /\ UNCHANGED <<part, limiterVars, sessionVars, vars>>
    \/ part = "limiter" /\ Limiter!Next /\ UNCHANGED <<part, intakeVars, sessionVars, vars>>
    \/ part = "sessions" /\ Sessions!Next /\ UNCHANGED <<part, intakeVars, limiterVars, vars>>
    \/ part = "store" /\ Next /\ UNCHANGED <<part, intakeVars, limiterVars, sessionVars>>

MCVars == <<part, intakeVars, limiterVars, sessionVars, vars>>

\* A component is fair when it is the one that runs; the others do not move.
MCSpec == /\ MCInit /\ [][MCNext]_MCVars
          /\ Intake!Fairness /\ Limiter!Fairness /\ Sessions!Fairness /\ Fairness

-----------------------------------------------------------------------------

\* The types of all of them.
TypesOK == TypeOK /\ Intake!TypeOK /\ Limiter!TypeOK /\ Sessions!TypeOK

\* See the components for what these say.
IntakeLeavesNothing == Intake!IntakeLeavesNothing
AnsweredByNewest    == Limiter!AnsweredByNewest
EveryProcessIsOwned == Sessions!EveryProcessIsOwned

\* Whatever the part, its work ends: CommandsEnd, EveryoneIsAnswered, StopsEnd,
\* EventuallySaved.
MessagingSettles ==
    <>[]( /\ part = "intake" => Intake!Quiet
          /\ part = "limiter" => Limiter!AllAnswered
          /\ part = "sessions" => Sessions!AllStopped
          /\ part = "store" => AllSaved)
=============================================================================
