-------------------------- MODULE MessagingLimiter --------------------------
(***************************************************************************)
(* The delivery queue of one messaging platform (messaging/limiter.py):    *)
(* one worker, a queue of keys, and compaction: a request whose key is     *)
(* already queued replaces the queued function and joins those who wait    *)
(* for its result.  Each request is an edit, send or deletion handed over  *)
(* by platforms/outbox.py, either awaited (enqueue) or left to a           *)
(* background task that retries transient errors (fire_and_forget).        *)
(*                                                                         *)
(* The sections under _condition await nothing, so each is one step.  The  *)
(* sliding window the worker waits for is RateWindow's; here that wait, and *)
(* the pause after a flood error, simply end.                              *)
(***************************************************************************)
EXTENDS Naturals, Sequences, SequencesExt

CONSTANTS
    Keys,        \* dedup keys
    Requests,    \* 1 .. n: requests in the order in which they are made
    MaxRetries   \* max_retries of fire_and_forget

VARIABLES
    next,      \* the next request to be made
    key,       \* the key a background task hands its request over with
    awaited,   \* the requests made by enqueue
    place,     \* where a request's task stands
    tries,     \* retries a background task has made
    queue,     \* _queue_list
    waiting,   \* _queue_map: the futures of a key, in order of arrival
    func,      \* _queue_map: whose function is queued under a key
    worker,    \* "idle", "holding", "calling" or "stopped"
    active,    \* _active_futures of the worker
    calling,   \* whose function the worker holds, 0 for none
    closing,   \* "open", "stopping" (the worker), "draining" (tasks), "closed"
    shown      \* history: requests as new as which something was delivered

vars == <<next, key, awaited, place, tries, queue, waiting, func, worker, active,
          calling, closing, shown>>
queueVars  == <<queue, waiting, func>>
workerVars == <<worker, active, calling>>

Settled == {"done", "failed", "cancelled"}

RequestsOK ==
    /\ next \in Nat
    /\ key \in [Requests -> Keys]
    /\ awaited \subseteq Requests
    /\ place \in [Requests -> Settled \cup {"unmade", "created", "queued", "sleeping"}]
    /\ tries \in [Requests -> 0 .. MaxRetries]
    /\ shown \subseteq Requests

QueueOK ==
    /\ queue \in Seq(Keys)
    /\ waiting \in [Keys -> Seq(Requests)]
    /\ func \in [Keys -> Requests \cup {0}]

WorkerOK ==
    /\ worker \in {"idle", "holding", "calling", "stopped"}
    /\ active \in Seq(Requests)
    /\ calling \in Requests \cup {0}
    /\ closing \in {"open", "stopping", "draining", "closed"}

TypeOK == RequestsOK /\ QueueOK /\ WorkerOK

Init ==
    /\ next = 1
    /\ key = [r \in Requests |-> CHOOSE k \in Keys : TRUE]
    /\ awaited = {}
    /\ place = [r \in Requests |-> "unmade"]
    /\ tries = [r \in Requests |-> 0]
    /\ queue = <<>>
    /\ waiting = [k \in Keys |-> <<>>]
    /\ func = [k \in Keys |-> 0]
    /\ worker = "idle"
    /\ active = <<>>
    /\ calling = 0
    /\ closing = "open"
    /\ shown = {}

\* Mutant: compaction keeps the function that was queued first.
QueueFirst(r, k) ==
    /\ waiting' = [waiting EXCEPT ![k] = Append(@, r)]
    /\ func' = [func EXCEPT ![k] = IF @ = 0 THEN r ELSE @]
    /\ queue' = IF func[k] = 0 THEN Append(queue, k) ELSE queue

\* _enqueue_internal_multi with the limiter open.
Queue(r, k) ==
    /\ waiting' = [waiting EXCEPT ![k] = Append(@, r)]
    /\ func' = [func EXCEPT ![k] = r]
    /\ queue' = IF func[k] = 0 THEN Append(queue, k) ELSE queue

\* A closed limiter raises, which ends the request.
Enqueue(r, k) ==
    /\ IF closing = "open" THEN Queue(r, k) ELSE UNCHANGED queueVars
    /\ place' = [place EXCEPT ![r] = IF closing = "open" THEN "queued" ELSE "failed"]
    /\ shown' = shown \ {r}

\* enqueue; the caller waits.
Await ==
    /\ next \in Requests
    /\ next' = next + 1
    /\ awaited' = awaited \cup {next}
    /\ \E k \in Keys : Enqueue(next, k)
    /\ UNCHANGED <<key, tries, workerVars, closing>>

\* fire_and_forget: a task that has not run yet.
Forget ==
    /\ next \in Requests
    /\ next' = next + 1
    /\ place' = [place EXCEPT ![next] = IF closing = "open" THEN "created" ELSE "failed"]
    /\ \E k \in Keys : key' = [key EXCEPT ![next] = k]
    /\ UNCHANGED <<awaited, tries, queueVars, workerVars, closing, shown>>

\* The loop runs new tasks in the order of their creation.
StartTask(r) ==
    /\ place[r] = "created"
    /\ \A s \in Requests : s < r => place[s] # "created"
    /\ Enqueue(r, key[r])
    /\ UNCHANGED <<next, key, awaited, tries, workerVars, closing>>

\* A background task has slept after a transient error.
Retry(r) ==
    /\ place[r] = "sleeping"
    /\ Enqueue(r, key[r])
    /\ UNCHANGED <<next, key, awaited, tries, workerVars, closing>>

\* The awaiting caller is cancelled, and with it its future; the function
\* stays queued.
CallerCancelled(r) ==
    /\ r \in awaited
    /\ place[r] = "queued"
    /\ place' = [place EXCEPT ![r] = "cancelled"]
    /\ UNCHANGED <<next, key, awaited, tries, queueVars, workerVars, closing, shown>>

-----------------------------------------------------------------------------
(* The worker                                                                *)

\* popleft, and the entry leaves the map: a later request with its key is
\* queued anew.
Take ==
    /\ worker = "idle"
    /\ closing = "open"
    /\ queue # <<>>
    /\ LET k == Head(queue) IN
       /\ active' = waiting[k]
       /\ calling' = func[k]
       /\ waiting' = [waiting EXCEPT ![k] = <<>>]
       /\ func' = [func EXCEPT ![k] = 0]
    /\ queue' = Tail(queue)
    /\ worker' = "holding"
    /\ UNCHANGED <<next, key, awaited, place, tries, closing, shown>>

\* A flood pause and the sliding window have been waited for.
Call ==
    /\ worker = "holding"
    /\ worker' = "calling"
    /\ UNCHANGED <<next, key, awaited, place, tries, queueVars, active, calling, closing, shown>>

\* The futures of the call that are not done take the outcome.
Answer(outcome) ==
    place' = [r \in Requests |-> IF r \in ToSet(active) /\ place[r] = "queued"
                                 THEN outcome[r] ELSE place[r]]

CallEnds ==
    /\ worker = "calling"
    /\ closing = "open"
    /\ worker' = "idle"
    /\ active' = <<>>
    /\ calling' = 0
    /\ UNCHANGED <<next, key, awaited, queueVars, closing>>

Succeed ==
    /\ CallEnds
    /\ Answer([r \in Requests |-> "done"])
    /\ shown' = shown \cup {active[i] : i \in {j \in DOMAIN active :
                                \E n \in j .. Len(active) : active[n] = calling}}
    /\ UNCHANGED tries

\* Mutant: one retry too many.
RetriesOnceMore(r, transient) == transient /\ r \notin awaited /\ tries[r] <= MaxRetries

\* An exception is every waiter's; background tasks retry a transient one.
Retries(r, transient) == transient /\ r \notin awaited /\ tries[r] < MaxRetries

\* The function raises.  (A flood error makes the next call wait longer.)
Fail ==
    \E transient \in BOOLEAN :
        /\ CallEnds
        /\ Answer([r \in Requests |-> IF Retries(r, transient) THEN "sleeping" ELSE "failed"])
        /\ tries' = [r \in Requests |->
                       IF r \in ToSet(active) /\ place[r] = "queued" /\ Retries(r, transient)
                       THEN tries[r] + 1 ELSE tries[r]]
        /\ UNCHANGED shown

\* The function is cancelled, not the worker: the worker goes on.
OperationCancelled ==
    /\ CallEnds
    /\ Answer([r \in Requests |-> "cancelled"])
    /\ UNCHANGED <<tries, shown>>

-----------------------------------------------------------------------------
(* shutdown                                                                  *)

\* The futures shutdown cancels: those queued, and those of the call.
Cancelled == (UNION {ToSet(waiting[k]) : k \in Keys}) \cup ToSet(active)

Shutdown ==
    /\ closing = "open"
    /\ closing' = "stopping"
    /\ place' = [r \in Requests |-> IF r \in Cancelled /\ place[r] = "queued"
                                    THEN "cancelled" ELSE place[r]]
    /\ queue' = <<>>
    /\ waiting' = [k \in Keys |-> <<>>]
    /\ func' = [k \in Keys |-> 0]
    /\ UNCHANGED <<next, key, awaited, tries, workerVars, shown>>

\* The worker has been cancelled wherever it was, and has ended.
WorkerStops ==
    /\ closing = "stopping"
    /\ worker' = "stopped"
    /\ active' = <<>>
    /\ calling' = 0
    /\ closing' = "draining"
    /\ UNCHANGED <<next, key, awaited, place, tries, queueVars, shown>>

\* The background tasks are cancelled and awaited.
DrainTasks ==
    /\ closing = "draining"
    /\ place' = [r \in Requests |-> IF place[r] \in {"created", "sleeping"}
                                    THEN "cancelled" ELSE place[r]]
    /\ closing' = "closed"
    /\ UNCHANGED <<next, key, awaited, tries, queueVars, workerVars, shown>>

WorkerStep == Take \/ Call \/ Succeed \/ Fail \/ OperationCancelled \/ WorkerStops \/ DrainTasks

Next == \/ Await \/ Forget \/ Shutdown \/ WorkerStep
        \/ \E r \in Requests : StartTask(r) \/ Retry(r) \/ CallerCancelled(r)

\* The worker's waits and calls end, and created tasks run.
Fairness == /\ WF_vars(WorkerStep)
            /\ \A r \in Requests : WF_vars(StartTask(r) \/ Retry(r))

Spec == Init /\ [][Next]_vars /\ Fairness

-----------------------------------------------------------------------------
(* Properties                                                                *)

\* Whoever is told that a request was delivered saw its own text or one queued
\* after it: the function of an entry is never older than those who wait for it.
AnsweredByNewest == \A r \in Requests : place[r] = "done" => r \in shown

\* Every request is answered: by the result, the error or the cancellation of
\* the call it was merged into, whatever was merged, retried, paused or closed.
AllAnswered == \A r \in Requests : place[r] \in Settled \cup {"unmade"}
EveryoneIsAnswered == <>[]AllAnswered

-----------------------------------------------------------------------------
(* The inductive invariant of AnsweredByNewest                               *)

ConstantsOK == Keys # {} /\ MaxRetries \in Nat /\ Requests \subseteq Nat \ {0}

\* The function of an entry, queued or held by the worker, is the last one's.
LastIsCalled ==
    /\ \A k \in Keys : waiting[k] # <<>> => func[k] = waiting[k][Len(waiting[k])]
    /\ active # <<>> => calling = active[Len(active)]

\* Who waits under a key waits for a key that is in the queue.
EntriesAreQueued ==
    \A k \in Keys : /\ waiting[k] # <<>> => func[k] # 0
                    /\ func[k] # 0 => k \in ToSet(queue)

\* Whoever waits is in an entry of the queue, or in the worker's hands: no
\* merge, pause or failure loses the future of a waiter.
NoWaiterIsLost ==
    \A r \in Requests : place[r] = "queued" =>
        /\ closing = "open"
        /\ \/ r \in ToSet(active)
           \/ \E k \in Keys : k \in ToSet(queue) /\ r \in ToSet(waiting[k])

IdleHoldsNothing == worker = "idle" => active = <<>>

IInv == /\ TypeOK /\ LastIsCalled /\ EntriesAreQueued /\ IdleHoldsNothing
        /\ NoWaiterIsLost /\ AnsweredByNewest
=============================================================================
