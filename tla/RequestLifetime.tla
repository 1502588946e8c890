-------------------------- MODULE RequestLifetime --------------------------
(***************************************************************************)
(* The life of client-owned HTTP requests: api/request_lifetime.py cancels *)
(* the application task when the client leaves; api/routes.py acquires a   *)
(* runtime lease and builds a response; api/response_streams.py waits for  *)
(* the first chunk and ties lease and body to the response; and            *)
(* api/capacity_recovery.py keeps a bounded number of requests waiting for *)
(* capacity, each running one attempt at a time in a task of its own.      *)
(*                                                                         *)
(* A request has an application task (app) and sometimes an attempt task   *)
(* (try); whichever of them `maker' names is inside create().  A response  *)
(* is abstracted to its kind: a stream owns a lease and an open body.      *)
(***************************************************************************)
EXTENDS Integers, FiniteSets

CONSTANTS
    Requests,
    NoRequest,          \* nobody holds the refresh lock
    MaxWaiting,         \* CapacityRecovery.max_waiting
    MaxAttempts         \* bound on the create() calls of a request

VARIABLES
    app,        \* where the application task of a request is
    try,        \* its attempt task
    maker,      \* which of them runs create()
    make,       \* how far create() is
    fate,       \* what create() will end with once the body is closed
    resp,       \* the response the application task has in hand
    late,       \* the result of a finished attempt task, not yet taken
    held,       \* leases acquired and not released
    open,       \* provider bodies opened and not closed
    left,       \* the client is gone and the application task is cancelled
    stopped,    \* the attempt task is cancelled
    expired,    \* the deadline of the wait has passed
    inside,     \* the request counts as waiting
    waiting,    \* CapacityRecovery.waiting
    refresher,  \* the holder of _refresh_lock
    attempts    \* create() calls made

vars == <<app, try, maker, make, fate, resp, late, held, open, left, stopped,
          expired, inside, waiting, refresher, attempts>>

Kinds == {"none", "safe", "error", "json", "stream", "timeout", "cancel", "broken"}

TasksOK ==
    /\ app \in [Requests -> {"create", "offered", "wait", "send", "clean", "reap",
                             "dispose", "gone"}]
    /\ try \in [Requests -> {"none", "sleep", "lock", "refresh", "create", "done"}]
    /\ maker \in [Requests -> {"app", "try"}]
    /\ make \in [Requests -> {"idle", "acquiring", "handling", "reading", "closing"}]

AnswersOK ==
    /\ fate \in [Requests -> Kinds]
    /\ resp \in [Requests -> Kinds]
    /\ late \in [Requests -> Kinds]

CountsOK ==
    /\ held \in [Requests -> 0 .. MaxAttempts]
    /\ open \in [Requests -> 0 .. MaxAttempts]
    /\ waiting \in 0 .. Cardinality(Requests)
    /\ attempts \in [Requests -> 1 .. MaxAttempts]

FlagsOK ==
    /\ left \in [Requests -> BOOLEAN] /\ stopped \in [Requests -> BOOLEAN]
    /\ expired \in [Requests -> BOOLEAN] /\ inside \in [Requests -> BOOLEAN]
    /\ refresher \in Requests \union {NoRequest}

TypeOK == TasksOK /\ AnswersOK /\ CountsOK /\ FlagsOK

Init ==
    /\ app = [r \in Requests |-> "create"]
    /\ try = [r \in Requests |-> "none"]
    /\ maker = [r \in Requests |-> "app"]
    /\ make = [r \in Requests |-> "acquiring"]
    /\ fate = [r \in Requests |-> "none"]
    /\ resp = [r \in Requests |-> "none"]
    /\ late = [r \in Requests |-> "none"]
    /\ held = [r \in Requests |-> 0]
    /\ open = [r \in Requests |-> 0]
    /\ left = [r \in Requests |-> FALSE]
    /\ stopped = [r \in Requests |-> FALSE]
    /\ expired = [r \in Requests |-> FALSE]
    /\ inside = [r \in Requests |-> FALSE]
    /\ waiting = 0
    /\ refresher = NoRequest
    /\ attempts = [r \in Requests |-> 1]

-----------------------------------------------------------------------------
(* create(): a lease, a handler, the first chunk.                          *)

\* A cancellation reaches the task that runs create().
Cancelled(r) == IF maker[r] = "app" THEN left[r] ELSE stopped[r]

\* create() ends: its result goes to the application task, or waits in the
\* finished attempt task until it is taken.
Produced(r, kind) ==
    /\ make' = [make EXCEPT ![r] = "idle"]
    /\ fate' = [fate EXCEPT ![r] = "none"]
    /\ IF maker[r] = "app"
       THEN /\ app' = [app EXCEPT ![r] = CASE kind \in {"cancel", "broken"} -> "gone"
                                           [] kind = "safe" -> "offered"
                                           [] OTHER -> "send"]
            /\ resp' = [resp EXCEPT ![r] = kind]
            /\ UNCHANGED <<try, late>>
       ELSE /\ try' = [try EXCEPT ![r] = "done"]
            /\ late' = [late EXCEPT ![r] = kind]
            /\ UNCHANGED <<app, resp>>

\* services.requests.acquire() answers, or refuses because the process stops.
Acquire(r) ==
    /\ make[r] = "acquiring" /\ ~Cancelled(r)
    /\ \/ /\ make' = [make EXCEPT ![r] = "handling"]
          /\ held' = [held EXCEPT ![r] = @ + 1]
          /\ UNCHANGED <<app, try, fate, resp, late>>
       \/ Produced(r, "error") /\ UNCHANGED held
    /\ UNCHANGED <<maker, open, left, stopped, expired, inside, waiting, refresher, attempts>>

\* The handler ends without a body: a failure becomes a response or an
\* exception, and the lease is released either way.
HandlerEnds(r) ==
    /\ make[r] = "handling" /\ ~Cancelled(r)
    /\ \E kind \in {"safe", "error", "broken", "json"} : Produced(r, kind)
    /\ held' = [held EXCEPT ![r] = @ - 1]
    /\ UNCHANGED <<maker, open, left, stopped, expired, inside, waiting, refresher, attempts>>

OpenBody(r) ==
    /\ make[r] = "handling" /\ ~Cancelled(r)
    /\ make' = [make EXCEPT ![r] = "reading"]
    /\ open' = [open EXCEPT ![r] = @ + 1]
    /\ UNCHANGED <<app, try, maker, fate, resp, late, held, left, stopped, expired, inside,
                   waiting, refresher, attempts>>

\* The first chunk arrives: the response owns the body, and the lease is bound
\* to it.
FirstChunk(r) ==
    /\ make[r] = "reading" /\ ~Cancelled(r)
    /\ Produced(r, "stream")
    /\ UNCHANGED <<maker, held, open, left, stopped, expired, inside, waiting, refresher, attempts>>

\* The stream is empty, fails before its first chunk, or is consumed whole for
\* a client that does not stream: the body is closed in a task of its own.
EndsBeforeStart(r) ==
    /\ make[r] = "reading" /\ ~Cancelled(r)
    /\ make' = [make EXCEPT ![r] = "closing"]
    /\ \E kind \in {"safe", "error", "json"} : fate' = [fate EXCEPT ![r] = kind]
    /\ UNCHANGED <<app, try, maker, resp, late, held, open, left, stopped, expired, inside,
                   waiting, refresher, attempts>>

\* The body is closed, and its lease released, whatever create() ends with.
PreStartClosed(r) ==
    /\ make[r] = "closing"
    /\ open' = [open EXCEPT ![r] = @ - 1]
    /\ held' = [held EXCEPT ![r] = @ - 1]
    /\ Produced(r, IF Cancelled(r) THEN "cancel" ELSE fate[r])
    /\ UNCHANGED <<maker, left, stopped, expired, inside, waiting, refresher, attempts>>

\* A cancellation lands inside create().
CancelMaking(r) ==
    /\ make[r] \in {"acquiring", "handling", "reading"} /\ Cancelled(r)
    /\ IF make[r] = "reading"
       THEN /\ make' = [make EXCEPT ![r] = "closing"]
            /\ fate' = [fate EXCEPT ![r] = "cancel"]
            /\ UNCHANGED <<app, try, resp, late, held>>
       ELSE /\ Produced(r, "cancel")
            /\ held' = [held EXCEPT ![r] = IF make[r] = "handling" THEN @ - 1 ELSE @]
    /\ UNCHANGED <<maker, open, left, stopped, expired, inside, waiting, refresher, attempts>>

-----------------------------------------------------------------------------
(* CapacityRecovery: another round at once, or a bounded wait.             *)

CanTryAgain(r) == attempts[r] < MaxAttempts

StartMaking(r, who) ==
    /\ maker' = [maker EXCEPT ![r] = who]
    /\ make' = [make EXCEPT ![r] = "acquiring"]
    /\ attempts' = [attempts EXCEPT ![r] = @ + 1]

\* attempt(): select() still has a route, so create() is called again.
AnotherRound(r) ==
    /\ app[r] = "offered" /\ ~left[r] /\ CanTryAgain(r)
    /\ app' = [app EXCEPT ![r] = "create"]
    /\ resp' = [resp EXCEPT ![r] = "none"]
    /\ StartMaking(r, "app")
    /\ UNCHANGED <<try, fate, late, held, open, left, stopped, expired, inside, waiting, refresher>>

\* Automatic routing is off, or _RecoveryResponse finds the waiting room full:
\* the first response is sent.
SendFirst(r) ==
    /\ app[r] = "offered" /\ ~left[r]
    /\ app' = [app EXCEPT ![r] = "send"]
    /\ UNCHANGED <<try, maker, make, fate, resp, late, held, open, left, stopped, expired,
                   inside, waiting, refresher, attempts>>

\* _RecoveryResponse takes a place in the waiting room.
EnterWait(r) ==
    /\ app[r] = "offered" /\ ~left[r] /\ waiting < MaxWaiting
    /\ app' = [app EXCEPT ![r] = "wait"]
    /\ inside' = [inside EXCEPT ![r] = TRUE]
    /\ waiting' = waiting + 1
    /\ UNCHANGED <<try, maker, make, fate, resp, late, held, open, left, stopped, expired,
                   refresher, attempts>>

\* The loop starts an attempt while the response in hand is recoverable.
StartAttempt(r) ==
    /\ app[r] = "wait" /\ ~left[r] /\ ~expired[r]
    /\ try[r] = "none" /\ resp[r] = "safe" /\ CanTryAgain(r)
    /\ try' = [try EXCEPT ![r] = "sleep"]
    /\ UNCHANGED <<app, maker, make, fate, resp, late, held, open, left, stopped, expired,
                   inside, waiting, refresher, attempts>>

\* After its sleep the attempt returns the previous response when automatic
\* routing was turned off, else it refreshes the catalog, one at a time.
AttemptWakes(r) ==
    /\ try[r] = "sleep" /\ ~stopped[r]
    /\ \/ try' = [try EXCEPT ![r] = "lock"] /\ UNCHANGED late
       \/ try' = [try EXCEPT ![r] = "done"] /\ late' = [late EXCEPT ![r] = "none"]
    /\ UNCHANGED <<app, maker, make, fate, resp, held, open, left, stopped, expired, inside,
                   waiting, refresher, attempts>>

TakeRefreshLock(r) ==
    /\ try[r] = "lock" /\ ~stopped[r] /\ refresher = NoRequest
    /\ try' = [try EXCEPT ![r] = "refresh"]
    /\ refresher' = r
    /\ UNCHANGED <<app, maker, make, fate, resp, late, held, open, left, stopped, expired,
                   inside, waiting, attempts>>

Refreshed(r) ==
    /\ try[r] = "refresh" /\ ~stopped[r]
    /\ refresher' = NoRequest
    /\ try' = [try EXCEPT ![r] = "create"]
    /\ StartMaking(r, "try")
    /\ UNCHANGED <<app, fate, resp, late, held, open, left, stopped, expired, inside, waiting>>

\* The cancelled attempt task ends outside create(), giving the lock back.
AttemptStops(r) ==
    /\ try[r] \in {"sleep", "lock", "refresh"} /\ stopped[r]
    /\ try' = [try EXCEPT ![r] = "done"]
    /\ late' = [late EXCEPT ![r] = "cancel"]
    /\ refresher' = IF refresher = r THEN NoRequest ELSE refresher
    /\ UNCHANGED <<app, maker, make, fate, resp, held, open, left, stopped, expired, inside,
                   waiting, attempts>>

\* The deadline of the wait passes.
Expire(r) ==
    /\ app[r] = "wait" /\ ~expired[r]
    /\ expired' = [expired EXCEPT ![r] = TRUE]
    /\ UNCHANGED <<app, try, maker, make, fate, resp, late, held, open, left, stopped, inside,
                   waiting, refresher, attempts>>

\* The result of a finished attempt replaces the response in hand ("none" is
\* the previous response, returned because automatic routing was turned off).
\* The loop goes on while that is recoverable.  An exception ends the request.
TakeResult(r) ==
    /\ app[r] = "wait" /\ ~left[r] /\ try[r] = "done"
    /\ IF late[r] \in {"broken", "cancel"}
       THEN app' = [app EXCEPT ![r] = "reap"] /\ UNCHANGED <<try, resp, late>>
       ELSE LET next == IF late[r] = "none" THEN resp[r] ELSE late[r]
            IN  /\ \E automatic \in BOOLEAN :
                       app' = [app EXCEPT ![r] =
                                 IF late[r] = "safe" /\ automatic THEN "wait" ELSE "send"]
                /\ resp' = [resp EXCEPT ![r] = next]
                /\ late' = [late EXCEPT ![r] = "none"]
                /\ try' = [try EXCEPT ![r] = "none"]
    /\ UNCHANGED <<maker, make, fate, held, open, left, stopped, expired, inside, waiting,
                   refresher, attempts>>

\* The deadline finds no finished attempt: the timeout error is sent, with the
\* attempt task still running.
TimeOut(r) ==
    /\ app[r] = "wait" /\ ~left[r] /\ expired[r] /\ try[r] # "done"
    /\ resp' = [resp EXCEPT ![r] = "timeout"]
    /\ app' = [app EXCEPT ![r] = "send"]
    /\ UNCHANGED <<try, maker, make, fate, late, held, open, left, stopped, expired, inside,
                   waiting, refresher, attempts>>

-----------------------------------------------------------------------------
(* Sending, cancellation and the end.                                      *)

\* What remains after the response: its owner is done unless it was waiting.
AfterResponse(r) == IF inside[r] THEN "reap" ELSE "gone"

\* ManagedStreamingResponse.__call__ ends, by the body's end, a failed send or
\* a cancellation, and starts its one cleanup task.
StreamEnds(r) ==
    /\ app[r] = "send" /\ resp[r] = "stream"
    /\ app' = [app EXCEPT ![r] = "clean"]
    /\ UNCHANGED <<try, maker, make, fate, resp, late, held, open, left, stopped, expired,
                   inside, waiting, refresher, attempts>>

\* The shielded cleanup closes the body, then releases the lease.
Cleaned(r) ==
    /\ app[r] = "clean"
    /\ open' = [open EXCEPT ![r] = @ - 1]
    /\ held' = [held EXCEPT ![r] = @ - 1]
    /\ app' = [app EXCEPT ![r] = AfterResponse(r)]
    /\ UNCHANGED <<try, maker, make, fate, resp, late, left, stopped, expired, inside, waiting,
                   refresher, attempts>>

\* A JSON response, or an error frame of a started stream, is sent or dropped.
ResponseEnds(r) ==
    /\ app[r] = "send" /\ resp[r] # "stream"
    /\ app' = [app EXCEPT ![r] = AfterResponse(r)]
    /\ UNCHANGED <<try, maker, make, fate, resp, late, held, open, left, stopped, expired,
                   inside, waiting, refresher, attempts>>

\* ClientRequestLifetimeMiddleware: the client disconnects, at any time.
ClientLeaves(r) ==
    /\ app[r] # "gone" /\ ~left[r]
    /\ left' = [left EXCEPT ![r] = TRUE]
    /\ UNCHANGED <<app, try, maker, make, fate, resp, late, held, open, stopped, expired,
                   inside, waiting, refresher, attempts>>

\* The cancellation lands between two rounds, or in the recovery loop.
CancelApp(r) ==
    /\ left[r] /\ app[r] \in {"offered", "wait"}
    /\ app' = [app EXCEPT ![r] = AfterResponse(r)]
    /\ UNCHANGED <<try, maker, make, fate, resp, late, held, open, left, stopped, expired,
                   inside, waiting, refresher, attempts>>

\* The finally block cancels an attempt that still runs ...
StopAttempt(r) ==
    /\ app[r] = "reap" /\ try[r] \notin {"none", "done"} /\ ~stopped[r]
    /\ stopped' = [stopped EXCEPT ![r] = TRUE]
    /\ UNCHANGED <<app, try, maker, make, fate, resp, late, held, open, left, expired, inside,
                   waiting, refresher, attempts>>

\* Mutant: the result of an attempt that finished too late is forgotten.
ReapForgetsResult(r) ==
    /\ app[r] = "reap" /\ try[r] \in {"none", "done"}
    /\ app' = [app EXCEPT ![r] = "gone"]
    /\ inside' = [inside EXCEPT ![r] = FALSE]
    /\ waiting' = waiting - 1
    /\ UNCHANGED <<try, maker, make, fate, resp, late, held, open, left, stopped, expired,
                   refresher, attempts>>

\* ... awaits it, disposes of a result nobody took, and leaves the room.
Reap(r) ==
    /\ app[r] = "reap" /\ try[r] \in {"none", "done"}
    /\ IF late[r] = "stream"
       THEN app' = [app EXCEPT ![r] = "dispose"] /\ UNCHANGED <<inside, waiting>>
       ELSE /\ app' = [app EXCEPT ![r] = "gone"]
            /\ inside' = [inside EXCEPT ![r] = FALSE]
            /\ waiting' = waiting - 1
    /\ UNCHANGED <<try, maker, make, fate, resp, late, held, open, left, stopped, expired,
                   refresher, attempts>>

Dispose(r) ==
    /\ app[r] = "dispose"
    /\ open' = [open EXCEPT ![r] = @ - 1]
    /\ held' = [held EXCEPT ![r] = @ - 1]
    /\ late' = [late EXCEPT ![r] = "none"]
    /\ app' = [app EXCEPT ![r] = "gone"]
    /\ inside' = [inside EXCEPT ![r] = FALSE]
    /\ waiting' = waiting - 1
    /\ UNCHANGED <<try, maker, make, fate, resp, left, stopped, expired, refresher, attempts>>

-----------------------------------------------------------------------------

\* The steps a started task takes by itself.
Step(r) ==
    \/ Acquire(r) \/ HandlerEnds(r) \/ OpenBody(r) \/ FirstChunk(r) \/ EndsBeforeStart(r)
    \/ PreStartClosed(r) \/ CancelMaking(r)
    \/ AnotherRound(r) \/ SendFirst(r) \/ EnterWait(r) \/ StartAttempt(r) \/ AttemptWakes(r)
    \/ TakeRefreshLock(r) \/ Refreshed(r) \/ AttemptStops(r) \/ Expire(r)
    \/ TakeResult(r) \/ TimeOut(r) \/ StreamEnds(r) \/ Cleaned(r) \/ ResponseEnds(r)
    \/ CancelApp(r) \/ StopAttempt(r) \/ Reap(r) \/ Dispose(r)

Next == \E r \in Requests : Step(r) \/ ClientLeaves(r)

\* Every task goes on; a client need not leave.  A request's own steps are
\* bounded: streams end (the provider has a progress timeout) and the wait has
\* its deadline.
Fairness == \A r \in Requests : WF_vars(Step(r))

Spec == Init /\ [][Next]_vars /\ Fairness

-----------------------------------------------------------------------------

\* A provider body is read only under a lease of its generation, and the rounds,
\* retries and late answers of a request never hold two at once.
BodyIsLeased(r) == open[r] <= held[r] /\ held[r] <= 1

\* When a request is over, whether it was answered, failed, was cancelled or
\* timed out while an attempt completed, it holds no lease, no open body and
\* no running attempt, and it has left the waiting room; nor does any other
\* request hold what it does not use.
NothingIsLeaked ==
    /\ \A r \in Requests :
          /\ BodyIsLeased(r)
          /\ app[r] = "gone" => /\ held[r] = 0 /\ open[r] = 0
                                /\ try[r] \in {"none", "done"} /\ make[r] = "idle"
                                /\ ~inside[r] /\ refresher # r
    /\ waiting = Cardinality({r \in Requests : inside[r]})
    /\ waiting <= MaxWaiting

-----------------------------------------------------------------------------
(* The inductive invariant of NothingIsLeaked.                             *)

ConstantsOK ==
    /\ IsFiniteSet(Requests) /\ NoRequest \notin Requests
    /\ MaxWaiting \in Nat /\ MaxAttempts \in Nat \ {0}

\* Exactly one task is inside create(), and it is the one the request names.
OneMaker ==
    \A r \in Requests :
        /\ app[r] = "create" <=> maker[r] = "app" /\ make[r] # "idle"
        /\ try[r] = "create" <=> maker[r] = "try" /\ make[r] # "idle"
        /\ make[r] = "closing" => fate[r] \notin {"none", "stream"}

\* An attempt task runs only for a request in the waiting room, and leaves a
\* result only when it is done.
AttemptsAreInside ==
    \A r \in Requests :
        /\ try[r] \notin {"none", "done"} => inside[r]
        /\ try[r] = "done" => inside[r] \/ app[r] = "gone"
        /\ inside[r] => app[r] \in {"wait", "send", "clean", "reap", "dispose"}
        /\ app[r] \in {"wait", "reap", "dispose"} => inside[r]
        /\ late[r] # "none" => try[r] = "done"
        /\ try[r] \in {"sleep", "lock", "refresh"} => attempts[r] < MaxAttempts
        /\ refresher = r <=> try[r] = "refresh"

\* Only a recoverable response is waited on, and a response that is a stream
\* is in hand alone: no attempt runs beside it.
StreamsAreAlone ==
    \A r \in Requests :
        /\ app[r] \in {"offered", "wait"} => resp[r] = "safe"
        /\ app[r] = "clean" => resp[r] = "stream"
        /\ app[r] \in {"send", "clean"} /\ resp[r] = "stream" => try[r] = "none"
        /\ app[r] = "dispose" => late[r] = "stream"
        /\ app[r] = "gone" => late[r] # "stream" /\ make[r] = "idle"

\* Who owns the lease of a request, and who owns its body.
HasStream(r) ==
    \/ app[r] \in {"send", "clean"} /\ resp[r] = "stream"
    \/ late[r] = "stream"
HasLease(r) == make[r] \in {"handling", "reading", "closing"} \/ HasStream(r)
HasBody(r) == make[r] \in {"reading", "closing"} \/ HasStream(r)

\* A lease is held, and a body open, exactly while somebody owns it.
OwnedOnce ==
    \A r \in Requests :
        /\ held[r] = IF HasLease(r) THEN 1 ELSE 0
        /\ open[r] = IF HasBody(r) THEN 1 ELSE 0

RoomIsCounted ==
    /\ waiting = Cardinality({r \in Requests : inside[r]})
    /\ waiting <= MaxWaiting

IInv ==
    /\ TypeOK /\ OneMaker /\ AttemptsAreInside /\ StreamsAreAlone /\ OwnedOnce
    /\ RoomIsCounted

\* Every request ends.
AllGone == \A r \in Requests : app[r] = "gone"
RequestsEnd == <>[]AllGone
=============================================================================
