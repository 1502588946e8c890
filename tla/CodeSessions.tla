---------------------------- MODULE CodeSessions ----------------------------
(***************************************************************************)
(* One code session: CodeService (application/code_sessions/service.py),   *)
(* the SessionState it owns (state.py), its rows in the database           *)
(* (runtime/code_sessions_sqlite.py) and the Codex process behind it       *)
(* (runtime/codex_app_server.py).                                          *)
(*                                                                         *)
(* A section under owner.lock is one step.  Memory is changed only after   *)
(* its commit, so `session` and `runs` are the rows and SessionState at    *)
(* once; a commit that fails stops the session (StorageFails) and changes  *)
(* neither.  A Codex process is named by its generation.  It is "alive",   *)
(* then "silent" when its pipe has failed and every pending rpc with it,   *)
(* then "gone" when it was reaped; close() waits for "gone".               *)
(*                                                                         *)
(* Items, prompts and titles are left out.  A revision is compared for     *)
(* equality only: `fresh` is the set of calls whose revision is still the  *)
(* session's.  A run is named by the operation id of its Send, and so is   *)
(* its native turn.                                                        *)
(***************************************************************************)
EXTENDS Integers, FiniteSets

CONSTANTS
    Calls,          \* requests that send
    Sends,          \* operation ids
    OperationOf,    \* the operation id of every request
    NoSend,
    MaxGenerations, \* bound: Codex processes
    Scenarios       \* bounds: how many messages, stops, changes of settings, deletions,
                    \* faults (a refused or unanswered rpc, a pipe, a commit or an
                    \* event that fails), shutdowns and restarts there may be

VARIABLES
    session,    \* CodeSession: status, model, native thread
    runs,       \* CodeRun of every operation id
    latest,     \* SessionState._run
    fresh,      \* the calls whose revision is the session's
    owner,      \* _SessionRuntime: connection, loaded thread, storage, finished; and
                \* whether a run ended before its _work had looked at the connection
    calls,      \* the model every _send took along out of its first section
    work,       \* _work of every run
    fails,      \* _fail, started by an event that raised
    interrupts, \* _interrupt of every run
    deletion,   \* _delete_native
    halting,    \* _halt_storage: the process it closes
    service,    \* CodeService: mode, step and closed process of _close, restarts
    process,    \* the Codex processes
    history,    \* the native thread exists
    turns,      \* the native turn of every run
    left        \* what is left of the scenario

rows == <<session, runs, latest, fresh>>
jobs == <<work, fails, interrupts, deletion, halting>>
native == <<process, history, turns>>
vars == <<session, runs, latest, fresh, owner, calls, work, fails, interrupts,
          deletion, halting, service, process, history, turns, left>>

\* One thing less of a kind may happen.
Spend(kind) == left[kind] > 0 /\ left' = [left EXCEPT ![kind] = @ - 1]

\* What fails of itself is counted, what fails in consequence is not.
Fault(consequence) == IF consequence THEN UNCHANGED left ELSE Spend("faults")

Generations == 1 .. MaxGenerations
Active == {"preparing", "running", "stopping"}
Final  == {"completed", "failed", "interrupted"}

NewRun(model) == [status |-> "preparing", stop |-> FALSE, submitted |-> FALSE,
                  turn |-> NoSend, model |-> model]
NoModel == -1
Job(at, gen) == [at |-> at, gen |-> gen]
Nothing == Job("none", 0)
NoTurn == [at |-> "none", gen |-> 0, heard |-> "nothing", asked |-> 0]
NewOwner == [connection |-> 0, loaded |-> FALSE, stored |-> TRUE, finished |-> TRUE,
             overtaken |-> FALSE]

Init ==
    /\ session = [status |-> "ready", model |-> 1, thread |-> FALSE]
    /\ runs = [s \in Sends |-> [NewRun(0) EXCEPT !.status = "none"]]
    /\ latest = NoSend
    /\ fresh = {}
    /\ owner = NewOwner
    /\ calls = [c \in Calls |-> NoModel]
    /\ work = [s \in Sends |-> Nothing]
    /\ fails = [s \in Sends |-> Nothing]
    /\ interrupts = [s \in Sends |-> Nothing]
    /\ deletion = [at |-> "none", gen |-> 0, reconcile |-> FALSE]
    /\ halting = Nothing
    /\ service = [mode |-> "up", step |-> 0, gen |-> 0]
    /\ process = [g \in Generations |-> "none"]
    /\ history = FALSE
    /\ turns = [s \in Sends |-> NoTurn]
    /\ left \in Scenarios

Accepting == service.mode = "up"
Running(s) == latest = s /\ runs[s].status \in Active
Busy == \E s \in Sends : Running(s)
Exists(g) == process[g] \in {"alive", "silent"}
Alive(g) == g # 0 /\ process[g] = "alive"
Gone(g) == g # 0 => process[g] = "gone"
Cut(o) == [o EXCEPT !.connection = 0, !.loaded = FALSE]
Detached == Cut(owner)

\* A new process, which becomes the owner's connection.
Opens(g) == /\ process[g] = "none"
            /\ \A h \in Generations : h < g => process[h] # "none"
            /\ process' = [process EXCEPT ![g] = "alive"]
            /\ owner' = [owner EXCEPT !.connection = g]

\* _finish_locked.  Final statuses stay, and so does a session whose storage
\* has failed.
Finish(s, status, o) ==
    IF Running(s) /\ owner.stored
    THEN /\ runs' = [runs EXCEPT ![s].status = status]
         /\ fresh' = {}
         /\ owner' = [o EXCEPT !.finished = TRUE]
    ELSE owner' = o /\ UNCHANGED <<runs, fresh>>

Outcome(s) == IF runs[s].stop THEN "interrupted" ELSE "failed"

\* bind_turn and the status that goes with it.
Bound(s, turn) == [runs EXCEPT ![s].turn = turn,
                               ![s].status = IF runs[s].stop THEN "stopping"
                                                             ELSE "running"]

\* _schedule_interrupt, once for every run, when its turn is known.
Interrupting(rs, s) ==
    IF /\ rs[s].stop
       /\ rs[s].turn # NoSend
       /\ owner.connection # 0
       /\ interrupts[s].at = "none"
    THEN [interrupts EXCEPT ![s] = Job("asking", owner.connection)]
    ELSE interrupts

-----------------------------------------------------------------------------
(* Requests.                                                               *)

\* check_editable and check_can_send.
Sendable == Accepting /\ owner.stored /\ session.status = "ready" /\ ~Busy

\* _send, up to the call that prepares the model, outside the lock.
Send(c) ==
    /\ calls[c] = NoModel
    /\ runs[OperationOf[c]].status = "none"
    /\ Sendable
    /\ Spend("messages")
    /\ calls' = [calls EXCEPT ![c] = session.model]
    /\ fresh' = fresh \cup {c}
    /\ UNCHANGED <<session, runs, latest, owner, jobs, service, native>>

\* Mutant: the receipt alone is looked up again.
MayAdmitByReceipt(c) == runs[OperationOf[c]].status = "none" /\ ~Busy

\* The section after it asks everything again, and admit_run once more.
MayAdmit(c) == runs[OperationOf[c]].status = "none" /\ Sendable /\ c \in fresh

Admit(c) ==
    LET s == OperationOf[c] IN
    /\ calls[c] # NoModel
    /\ MayAdmit(c)
    /\ runs' = [runs EXCEPT ![s] = NewRun(calls[c])]
    /\ latest' = s
    /\ fresh' = {}
    /\ owner' = [owner EXCEPT !.finished = FALSE]
    /\ work' = [work EXCEPT ![s] = Job("starting", 0)]
    /\ calls' = [calls EXCEPT ![c] = NoModel]
    /\ UNCHANGED <<session, fails, interrupts, deletion, halting, service, native,
                   left>>

\* A conflict, a receipt, or a model that could not be prepared.
SendReturns(c) ==
    /\ calls[c] # NoModel
    /\ calls' = [calls EXCEPT ![c] = NoModel]
    /\ fresh' = fresh \ {c}
    /\ UNCHANGED <<session, runs, latest, owner, jobs, service, native, left>>

UpdateSettings ==
    /\ Sendable
    /\ Spend("settings")
    /\ session' = [session EXCEPT !.model = 1 - session.model]
    /\ fresh' = {}
    /\ UNCHANGED <<runs, latest, owner, calls, jobs, service, native>>

Stopped(s) == [runs EXCEPT ![s].stop = TRUE, ![s].status = "stopping"]
RequestStop(s) == runs' = Stopped(s) /\ interrupts' = Interrupting(Stopped(s), s)

Stop(s) ==
    /\ Accepting /\ owner.stored
    /\ Running(s) /\ ~runs[s].stop
    /\ Spend("stops")
    /\ RequestStop(s)
    /\ UNCHANGED <<session, latest, fresh, owner, calls, work, fails, deletion,
                   halting, service, native>>

-----------------------------------------------------------------------------
(* _work.                                                                  *)

\* Mutant: the connection is left to whoever comes next.
LeavesOpen(s, o) == work' = [work EXCEPT ![s] = Nothing] /\ owner' = o

\* Its finally clause: a service that stops keeps no process.
Leaves(s, o) ==
    IF Accepting /\ owner.stored
    THEN work' = [work EXCEPT ![s] = Nothing] /\ owner' = o
    ELSE /\ work' = [work EXCEPT ![s] = Job("leaving", o.connection)]
         /\ owner' = Cut(o)

\* Finish and leave in one step.
FinishAndLeave(s, status) ==
    LET o == IF Running(s) /\ owner.stored
             THEN [owner EXCEPT !.finished = TRUE] ELSE owner IN
    /\ IF Running(s) /\ owner.stored
       THEN runs' = [runs EXCEPT ![s].status = status] /\ fresh' = {}
       ELSE UNCHANGED <<runs, fresh>>
    /\ Leaves(s, o)

At(s, place) == work[s].at = place
MayOpen(s) == \/ At(s, "opening")
              \/ At(s, "closing") /\ Gone(work[s].gen)

\* The connection is dead or was opened for another configuration.
CloseUnsupported(s) ==
    /\ At(s, "starting") /\ owner.connection # 0
    /\ IF Alive(owner.connection) THEN Spend("settings") ELSE UNCHANGED left
    /\ work' = [work EXCEPT ![s] = Job("closing", owner.connection)]
    /\ owner' = Detached
    /\ UNCHANGED <<rows, calls, fails, interrupts, deletion, halting, service,
                   native>>

KeepConnection(s) ==
    /\ At(s, "starting") /\ Alive(owner.connection)
    /\ work' = [work EXCEPT ![s] = Job("opened", owner.connection)]
    /\ UNCHANGED <<rows, owner, calls, fails, interrupts, deletion, halting,
                   service, native, left>>

FindsNone(s) ==
    /\ At(s, "starting") /\ owner.connection = 0
    /\ work' = [work EXCEPT ![s] = Job("opening", 0)]
    /\ UNCHANGED <<rows, owner, calls, fails, interrupts, deletion, halting,
                   service, native, left>>

\* open() returns, whatever the connection has become in the meantime.
Open(s) ==
    /\ MayOpen(s)
    /\ \E g \in Generations :
          Opens(g) /\ work' = [work EXCEPT ![s] = Job("opened", g)]
    /\ UNCHANGED <<rows, calls, fails, interrupts, deletion, halting, service,
                   history, turns, left>>

\* A stop that came before the session has a native thread.
StopEarly(s) ==
    /\ At(s, "opened") /\ ~session.thread
    /\ Running(s) /\ runs[s].stop
    /\ FinishAndLeave(s, "interrupted")
    /\ UNCHANGED <<session, latest, calls, fails, interrupts, deletion, halting,
                   service, native, left>>

Recorded == {r \in Sends : turns[r].at \notin {"none", "asked"}}

\* Mutant: a turn goes to the run that has none, submitted or not.
RecoveredByPosition ==
    [r \in Sends |->
        IF r = latest /\ runs[r].turn = NoSend /\ Recorded # {}
        THEN [runs[r] EXCEPT !.turn = CHOOSE t \in Recorded : TRUE] ELSE runs[r]]

\* Turns that started are in the history, which is matched to the runs.
Recovered == [r \in Sends |->
                IF runs[r].submitted /\ r \in Recorded
                THEN [runs[r] EXCEPT !.turn = r] ELSE runs[r]]

\* The thread is created or resumed; a run that nobody stopped is marked as
\* submitted before its input leaves.
Attach(s) ==
    LET named == session.thread /\ owner.loaded
        rs == IF named THEN runs ELSE Recovered IN
    /\ At(s, "opened")
    /\ owner.stored /\ session.status # "deleted"
    /\ named \/ Alive(work[s].gen)
    /\ session' = [session EXCEPT !.thread = TRUE]
    /\ history' = TRUE
    /\ LET o == [owner EXCEPT !.loaded = TRUE] IN
       IF Running(s) /\ ~runs[s].stop /\ Accepting
       THEN /\ runs' = [rs EXCEPT ![s].submitted = TRUE]
            /\ work' = [work EXCEPT ![s].at = "submitting"]
            /\ owner' = o
            /\ UNCHANGED fresh
       ELSE /\ runs' = IF Running(s) THEN [rs EXCEPT ![s].status = "interrupted"]
                                     ELSE rs
            /\ fresh' = IF Running(s) THEN {} ELSE fresh
            /\ Leaves(s, IF Running(s) THEN [o EXCEPT !.finished = TRUE] ELSE o)
    /\ UNCHANGED <<latest, calls, fails, interrupts, deletion, halting, service,
                   process, turns, left>>

\* start_turn: the input leaves.
Submit(s) ==
    /\ At(s, "submitting") /\ Alive(work[s].gen)
    /\ work' = [work EXCEPT ![s].at = "sent"]
    /\ turns' = [turns EXCEPT ![s] = [at |-> "asked", gen |-> work[s].gen,
                                     heard |-> "nothing",
                                     asked |-> turns[s].asked + 1]]
    /\ UNCHANGED <<rows, owner, calls, fails, interrupts, deletion, halting,
                   service, process, history, left>>

\* start_turn returns: the run may be over already.
Bind(s) ==
    /\ At(s, "sent") /\ Alive(work[s].gen)
    /\ turns[s].at # "asked"
    /\ IF Running(s)
       THEN /\ owner.stored
            /\ runs[s].turn \in {NoSend, s}
            /\ runs' = Bound(s, s)
            /\ interrupts' = Interrupting(runs', s)
            /\ work' = [work EXCEPT ![s].at = "waiting"]
            /\ UNCHANGED owner
       ELSE Leaves(s, owner) /\ UNCHANGED <<runs, interrupts>>
    /\ UNCHANGED <<session, latest, fresh, calls, fails, deletion, halting,
                   service, native, left>>

WaitIsOver(s) ==
    /\ At(s, "waiting")
    /\ latest # s \/ owner.finished
    /\ Leaves(s, owner)
    /\ UNCHANGED <<rows, calls, fails, interrupts, deletion, halting, service,
                   native, left>>

\* An rpc is refused, times out or loses its pipe: _fail closes whatever the
\* connection is, and waits for it.
WorkFails(s) ==
    /\ \/ /\ At(s, "opened") \/ At(s, "submitting") \/ At(s, "sent")
          /\ Fault(~Alive(work[s].gen) \/ ~owner.stored \/ session.status = "deleted")
       \/ MayOpen(s) /\ Fault(\A g \in Generations : process[g] # "none")
    /\ IF Running(s)
       THEN /\ work' = [work EXCEPT ![s] = Job("failing", owner.connection)]
            /\ owner' = Detached
       ELSE Leaves(s, owner)
    /\ UNCHANGED <<rows, calls, fails, interrupts, deletion, halting, service,
                   native>>

Failed(s) ==
    /\ At(s, "failing") /\ Gone(work[s].gen)
    /\ FinishAndLeave(s, Outcome(s))
    /\ UNCHANGED <<session, latest, calls, fails, interrupts, deletion, halting,
                   service, native, left>>

Left(s) ==
    /\ At(s, "leaving") /\ Gone(work[s].gen)
    /\ work' = [work EXCEPT ![s] = Nothing]
    /\ UNCHANGED <<rows, owner, calls, fails, interrupts, deletion, halting,
                   service, native, left>>

-----------------------------------------------------------------------------
(* _interrupt, and the jobs of failures.                                   *)

Interrupted(s) ==
    /\ interrupts[s].at = "asking"
    /\ latest # s \/ owner.finished
    /\ interrupts' = [interrupts EXCEPT ![s].at = "over"]
    /\ UNCHANGED <<rows, owner, calls, work, fails, deletion, halting, service,
                   native, left>>

\* Refused, or not obeyed within five seconds.
Escalate(s) ==
    /\ interrupts[s].at = "asking"
    /\ IF owner.connection = interrupts[s].gen /\ Running(s)
       THEN /\ interrupts' = [interrupts EXCEPT ![s].at = "closing"]
            /\ owner' = Detached
       ELSE interrupts' = [interrupts EXCEPT ![s].at = "over"] /\ UNCHANGED owner
    /\ UNCHANGED <<rows, calls, work, fails, deletion, halting, service, native,
                   left>>

Escalated(s) ==
    /\ interrupts[s].at = "closing" /\ Gone(interrupts[s].gen)
    /\ interrupts' = [interrupts EXCEPT ![s].at = "over"]
    /\ Finish(s, "interrupted", owner)
    /\ UNCHANGED <<session, latest, calls, work, fails, deletion, halting, service,
                   native, left>>

\* An event of the connection raises: another task closes the connection.
EventFails(s) ==
    /\ Running(s) /\ runs[s].submitted /\ fails[s].at = "none"
    /\ Alive(owner.connection)
    /\ Spend("faults")
    /\ fails' = [fails EXCEPT ![s] = Job("closing", owner.connection)]
    /\ owner' = Detached
    /\ UNCHANGED <<rows, calls, work, interrupts, deletion, halting, service,
                   native>>

EventFailed(s) ==
    /\ fails[s].at = "closing" /\ Gone(fails[s].gen)
    /\ fails' = [fails EXCEPT ![s] = Nothing]
    /\ Finish(s, Outcome(s), owner)
    /\ UNCHANGED <<session, latest, calls, work, interrupts, deletion, halting,
                   service, native, left>>

\* A commit fails: _halt_storage closes the connection and stops the session.
StorageFails ==
    /\ owner.stored /\ (Busy \/ deletion.at # "none")
    /\ Spend("faults")
    /\ owner' = [Detached EXCEPT !.stored = FALSE]
    /\ halting' = Job("closing", owner.connection)
    /\ UNCHANGED <<rows, calls, work, fails, interrupts, deletion, service, native>>

Halted ==
    /\ halting.at = "closing" /\ Gone(halting.gen)
    /\ halting' = Nothing
    /\ owner' = [owner EXCEPT !.finished = TRUE]
    /\ UNCHANGED <<rows, calls, work, fails, interrupts, deletion, service, native,
                   left>>

-----------------------------------------------------------------------------
(* _event: the events of a generation that is no longer the connection's   *)
(* are dropped, and so are those of a turn that is not the run's.          *)

Heeds(s) == /\ owner.connection = turns[s].gen
            /\ session.status = "ready"
            /\ owner.stored

TurnStarted(s) ==
    /\ turns[s].at \notin {"none", "asked"} /\ turns[s].heard = "nothing"
    /\ turns' = [turns EXCEPT ![s].heard = "start"]
    /\ IF /\ Heeds(s)
          /\ Busy /\ runs[latest].submitted
          /\ \/ runs[latest].turn = s
             \/ runs[latest].turn = NoSend /\ \A r \in Sends : runs[r].turn # s
       THEN /\ runs' = Bound(latest, s)
            /\ interrupts' = Interrupting(runs', latest)
       ELSE UNCHANGED <<runs, interrupts>>
    /\ UNCHANGED <<session, latest, fresh, owner, calls, work, fails, deletion,
                   halting, service, process, history, left>>

TurnEnded(s) ==
    /\ turns[s].at = "completed" /\ turns[s].heard = "start"
    /\ turns' = [turns EXCEPT ![s].heard = "end"]
    /\ IF Heeds(s) /\ Busy /\ runs[latest].turn = s
       THEN Finish(latest, turns[s].at, owner)
       ELSE UNCHANGED <<runs, fresh, owner>>
    /\ UNCHANGED <<session, latest, calls, jobs, service, process, history, left>>

\* The last event of a connection, put after its process was reaped.
Closed(g) ==
    /\ process[g] = "gone" /\ owner.connection = g
    /\ session.status = "ready" /\ owner.stored
    /\ \A s \in Sends : turns[s].gen = g =>
          turns[s].heard = CASE turns[s].at = "completed" -> "end"
                             [] turns[s].at = "running" -> "start"
                             [] OTHER -> "nothing"
    /\ IF Busy
       THEN Finish(latest, Outcome(latest),
                   [Detached EXCEPT !.overtaken = @ \/ At(latest, "starting")])
       ELSE owner' = Detached /\ UNCHANGED <<runs, fresh>>
    /\ UNCHANGED <<session, latest, calls, jobs, service, native, left>>

-----------------------------------------------------------------------------
(* The Codex process.                                                      *)

NativeTurn(s) ==
    /\ Alive(turns[s].gen)
    /\ \/ turns[s].at = "asked" /\ turns' = [turns EXCEPT ![s].at = "running"]
       \/ turns[s].at = "running" /\ turns' = [turns EXCEPT ![s].at = "completed"]
    /\ UNCHANGED <<rows, owner, calls, jobs, service, process, history, left>>

PipeFails(g) ==
    /\ process[g] = "alive"
    /\ Spend("faults")
    /\ process' = [process EXCEPT ![g] = "silent"]
    /\ UNCHANGED <<rows, owner, calls, jobs, service, history, turns>>

\* _reap_owned_process, by close() or by the reader that lost the pipe.
Reaped(g) ==
    /\ Exists(g)
    /\ process[g] = "silent" \/ owner.connection # g
    /\ process' = [process EXCEPT ![g] = "gone"]
    /\ UNCHANGED <<rows, owner, calls, jobs, service, history, turns, left>>

-----------------------------------------------------------------------------
(* _delete and _delete_native.                                             *)

Delete ==
    /\ deletion.at = "none"
    /\ Spend("deletes")
    /\ Accepting /\ owner.stored /\ ~Busy
    /\ session.status \in {"ready", "delete_uncertain"}
    /\ deletion' = [at |-> "opening", gen |-> 0,
                    reconcile |-> session.status = "delete_uncertain"]
    /\ session' = IF session.status = "ready"
                  THEN [session EXCEPT !.status = "deleting"] ELSE session
    /\ fresh' = {}
    /\ owner' = [owner EXCEPT !.finished = FALSE]
    /\ UNCHANGED <<runs, latest, calls, work, fails, interrupts, halting, service,
                   native>>

DeletionAt(place, gen) == [deletion EXCEPT !.at = place, !.gen = gen]

DeletionOpens ==
    /\ \/ /\ deletion.at = "opening" /\ session.thread
          /\ deletion' = IF owner.connection # 0
                         THEN DeletionAt("asking", owner.connection)
                         ELSE DeletionAt("launching", 0)
          /\ UNCHANGED <<owner, process>>
       \/ /\ deletion.at = "launching"
          /\ \E g \in Generations :
                Opens(g) /\ deletion' = DeletionAt("asking", g)
    /\ UNCHANGED <<rows, calls, work, fails, interrupts, halting, service, history,
                   turns, left>>

\* _close_connection, whatever became of the native thread.
Settles(outcome) == /\ deletion' = DeletionAt(outcome, owner.connection)
                    /\ owner' = Detached

\* The thread is deleted, or turns out to be missing, or still to exist.
DeletionAnswered ==
    /\ \/ deletion.at = "opening" /\ ~session.thread /\ UNCHANGED history
          /\ Settles("complete")
       \/ /\ deletion.at = "asking" /\ Alive(deletion.gen)
          /\ IF deletion.reconcile /\ history
             THEN Settles("conflict") /\ UNCHANGED history
             ELSE Settles("complete") /\ history' = FALSE
    /\ UNCHANGED <<rows, calls, work, fails, interrupts, halting, service, process,
                   turns, left>>

\* No process, or no answer: the thread may be gone all the same.
DeletionFails ==
    /\ deletion.at \in {"launching", "asking"}
    /\ Fault(IF deletion.at = "asking" THEN ~Alive(deletion.gen)
             ELSE \A g \in Generations : process[g] # "none")
    /\ Settles("uncertain")
    /\ \/ UNCHANGED history
       \/ deletion.at = "asking" /\ ~deletion.reconcile /\ history' = FALSE
    /\ UNCHANGED <<rows, calls, work, fails, interrupts, halting, service, process,
                   turns>>

\* The tombstone is written, or the failure recorded; a first failure is
\* followed by one reconciliation.
DeletionEnds ==
    LET again == deletion.at = "uncertain" /\ ~deletion.reconcile /\ owner.stored IN
    /\ deletion.at \in {"complete", "conflict", "uncertain"} /\ Gone(deletion.gen)
    /\ IF deletion.at = "complete"
       THEN /\ session' = [session EXCEPT !.status = "deleted"]
            /\ runs' = [s \in Sends |-> [NewRun(0) EXCEPT !.status = "none"]]
            /\ latest' = NoSend
       ELSE /\ session' = IF owner.stored
                          THEN [session EXCEPT !.status = IF deletion.at = "conflict"
                                                          THEN "ready"
                                                          ELSE "delete_uncertain"]
                          ELSE session
            /\ UNCHANGED <<runs, latest>>
    /\ fresh' = {}
    /\ deletion' = IF again
                   THEN [at |-> "opening", gen |-> 0, reconcile |-> TRUE]
                   ELSE DeletionAt("none", 0)
    /\ owner' = [owner EXCEPT !.finished = ~again]
    /\ UNCHANGED <<calls, work, fails, interrupts, halting, service, native, left>>

-----------------------------------------------------------------------------
(* close, a crash, and the start after either.                             *)

BeginShutdown ==
    /\ Accepting
    /\ Spend("shutdowns")
    /\ service' = [mode |-> "stopping", step |-> 1, gen |-> 0]
    /\ UNCHANGED <<rows, owner, calls, jobs, native>>

Step(n) == service.mode = "stopping" /\ service.step = n

ShutdownStops ==
    /\ Step(1) /\ \A c \in Calls : calls[c] = NoModel
    /\ service' = [service EXCEPT !.step = 2]
    /\ IF Busy /\ owner.stored /\ ~runs[latest].stop
       THEN RequestStop(latest) ELSE UNCHANGED <<runs, interrupts>>
    /\ UNCHANGED <<session, latest, fresh, owner, calls, work, fails, deletion,
                   halting, native, left>>

\* The jobs had their five seconds.  The owner of a deleted session is not among
\* the owners any more.
ShutdownCloses ==
    /\ Step(2)
    /\ IF session.status = "deleted"
       THEN service' = [service EXCEPT !.step = 3] /\ UNCHANGED owner
       ELSE /\ service' = [mode |-> "stopping", step |-> 3, gen |-> owner.connection]
            /\ owner' = Detached
    /\ UNCHANGED <<rows, calls, jobs, native, left>>

ShutdownFinishes ==
    /\ Step(3) /\ Gone(service.gen)
    /\ service' = [service EXCEPT !.step = 4]
    /\ IF Busy THEN Finish(latest, "interrupted", owner)
               ELSE UNCHANGED <<runs, fresh, owner>>
    /\ UNCHANGED <<session, latest, calls, jobs, native, left>>

ShutdownEnds ==
    /\ Step(4)
    /\ \A s \in Sends : /\ work[s].at = "none" /\ fails[s].at = "none"
                        /\ interrupts[s].at \notin {"asking", "closing"}
    /\ halting.at = "none" /\ deletion.at = "none"
    /\ service' = [service EXCEPT !.mode = "down"]
    /\ UNCHANGED <<rows, owner, calls, jobs, native, left>>

\* The runs that were active are interrupted, and nothing is sent again; a
\* deletion that had begun is reconciled.
Restart ==
    LET pending == session.status \in {"deleting", "delete_uncertain"} IN
    /\ Spend("restarts")
    /\ service' = [mode |-> "up", step |-> 0, gen |-> 0]
    /\ runs' = [s \in Sends |-> IF runs[s].status \in Active
                                THEN [runs[s] EXCEPT !.status = "interrupted"]
                                ELSE runs[s]]
    /\ fresh' = {}
    /\ owner' = [NewOwner EXCEPT !.finished = ~pending]
    /\ calls' = [c \in Calls |-> NoModel]
    /\ work' = [s \in Sends |-> Nothing]
    /\ fails' = [s \in Sends |-> Nothing]
    /\ interrupts' = [s \in Sends |-> Nothing]
    /\ deletion' = [at |-> IF pending THEN "opening" ELSE "none", gen |-> 0,
                    reconcile |-> pending]
    /\ halting' = Nothing
    /\ process' = [g \in Generations |-> IF process[g] = "none" THEN "none" ELSE "gone"]
    /\ UNCHANGED <<session, latest, history, turns>>

-----------------------------------------------------------------------------

WorkStep(s) ==
    \/ CloseUnsupported(s) \/ KeepConnection(s) \/ FindsNone(s) \/ Open(s)
    \/ StopEarly(s) \/ Attach(s) \/ Submit(s) \/ Bind(s) \/ WaitIsOver(s) \/ WorkFails(s)
    \/ Failed(s) \/ Left(s)
InterruptStep(s) == Interrupted(s) \/ Escalate(s) \/ Escalated(s)
DeletionStep == DeletionOpens \/ DeletionAnswered \/ DeletionFails \/ DeletionEnds
ShutdownStep == \/ ShutdownStops \/ ShutdownCloses \/ ShutdownFinishes
                \/ ShutdownEnds

Next ==
    \/ \E c \in Calls : Send(c) \/ Admit(c) \/ SendReturns(c)
    \/ \E s \in Sends : \/ Stop(s) \/ WorkStep(s) \/ InterruptStep(s)
                        \/ EventFails(s) \/ EventFailed(s)
                        \/ TurnStarted(s) \/ TurnEnded(s) \/ NativeTurn(s)
    \/ \E g \in Generations : Closed(g) \/ PipeFails(g) \/ Reaped(g)
    \/ UpdateSettings \/ StorageFails \/ Halted \/ Delete \/ DeletionStep
    \/ BeginShutdown \/ ShutdownStep \/ Restart

Spec == Init /\ [][Next]_vars

\* Tasks run, an rpc is answered unless it fails, a process that is closed is reaped,
\* and its events are dispatched.  A turn need never end, nobody need send,
\* stop or delete.
Fairness ==
    /\ \A c \in Calls : WF_vars(SendReturns(c))
    /\ \A s \in Sends : /\ WF_vars(WorkStep(s)) /\ WF_vars(InterruptStep(s))
                        /\ WF_vars(EventFailed(s))
                        /\ WF_vars(turns[s].at = "asked" /\ NativeTurn(s))
                        /\ WF_vars(TurnStarted(s)) /\ WF_vars(TurnEnded(s))
    /\ \A g \in Generations : WF_vars(Reaped(g)) /\ WF_vars(Closed(g))
    /\ WF_vars(DeletionStep) /\ WF_vars(Halted) /\ WF_vars(ShutdownStep)

FairSpec == Spec /\ Fairness

-----------------------------------------------------------------------------
(* Properties.                                                             *)

Gens == 0 .. MaxGenerations
Statuses == Active \cup Final \cup {"none"}
Models == {0, 1}

SessionRows == [status : {"ready", "deleting", "delete_uncertain", "deleted"},
                model : Models, thread : BOOLEAN]
RunRows == [status : Statuses, stop : BOOLEAN, submitted : BOOLEAN,
            turn : Sends \cup {NoSend}, model : Models]
RowsOK ==
    /\ session \in SessionRows /\ runs \in [Sends -> RunRows]
    /\ latest \in Sends \cup {NoSend}
    /\ fresh \subseteq Calls /\ calls \in [Calls -> Models \cup {NoModel}]

Owners == [connection : Gens, loaded : BOOLEAN, stored : BOOLEAN, finished : BOOLEAN,
           overtaken : BOOLEAN]
Services == [mode : {"up", "stopping", "down"}, step : 0 .. 4, gen : Gens]
OwnerOK == owner \in Owners /\ service \in Services

WorkJobs == [at : {"none", "starting", "opening", "closing", "opened", "submitting",
                   "sent", "waiting", "failing", "leaving"}, gen : Gens]
FailJobs == [at : {"none", "closing"}, gen : Gens]
InterruptJobs == [at : {"none", "asking", "closing", "over"}, gen : Gens]
Deletions == [at : {"none", "opening", "launching", "asking", "complete", "conflict",
                    "uncertain"}, gen : Gens, reconcile : BOOLEAN]
JobsOK ==
    /\ work \in [Sends -> WorkJobs] /\ fails \in [Sends -> FailJobs]
    /\ interrupts \in [Sends -> InterruptJobs]
    /\ deletion \in Deletions /\ halting \in FailJobs

NativeTurns == [at : {"none", "asked", "running", "completed"}, gen : Gens,
                heard : {"nothing", "start", "end"}, asked : Nat]
NativeOK ==
    /\ process \in [Generations -> {"none", "alive", "silent", "gone"}]
    /\ history \in BOOLEAN /\ turns \in [Sends -> NativeTurns]

Kinds == {"messages", "stops", "settings", "deletes", "faults", "shutdowns", "restarts"}
LeftOK == left \in [Kinds -> Nat]

TypeOK == RowsOK /\ OwnerOK /\ JobsOK /\ NativeOK /\ LeftOK

\* "No input was resent": however often a Send is repeated, and whatever stops,
\* crashes and lost answers come in between, its input leaves once, after the
\* run was saved as submitted.
SubmittedOnce ==
    \A s \in Sends : /\ turns[s].asked <= 1
                     /\ turns[s].asked = 1 /\ session.status # "deleted"
                        => runs[s].submitted

\* A run is bound to its own turn and ends as that turn did: no event of an
\* earlier process or turn completes it.
OwnTurn ==
    \A s \in Sends : /\ runs[s].turn \in {NoSend, s}
                     /\ runs[s].status = "completed" => turns[s].at = "completed"

\* However a session is stopped, faulted and restarted, what its runs say is what
\* happened to their input.
RunsAreFaithful == SubmittedOnce /\ OwnTurn

\* What send found before it left the lock still holds when the run is admitted,
\* and a stop that was saved first is never followed by the input.
WantedStart(s) ==
    /\ runs[s].status = "none" /\ runs'[s].status = "preparing"
       => runs'[s].model = session.model /\ session.status = "ready"
    /\ ~runs[s].submitted /\ runs'[s].submitted
       => runs[s].status = "preparing" /\ ~runs[s].stop
StartsAreWanted == [][\A s \in Sends : WantedStart(s)]_vars

\* Every process is the connection or is being closed by a task that waits for
\* it, and a service that has closed leaves none; unless a session went on before
\* the task of its last run had begun, so that two tasks may open at once.
NothingIsLeft ==
    ~owner.overtaken =>
       /\ \A g \in Generations : Exists(g) =>
             \/ g \in {owner.connection, deletion.gen, halting.gen, service.gen}
             \/ \E s \in Sends : g \in {work[s].gen, fails[s].gen, interrupts[s].gen}
       /\ service.mode = "down" /\ session.status # "deleted"
          => \A g \in Generations : ~Exists(g)

\* "Keep the session reserved until its owned process is actually gone": a
\* session that accepts a message has no process but its connection.
SessionIsReserved ==
    Sendable => \A g \in Generations : Exists(g) => owner.connection = g

\* A run that was stopped ends, a deletion ends, a service that closes ends, and
\* wait_idle returns when nothing is active.
Settled ==
    /\ service.mode # "stopping"
    /\ owner.finished \/ Busy
    /\ \A s \in Sends : Running(s) => ~runs[s].stop \/ ~owner.stored

SessionsSettle == <>[]Settled

-----------------------------------------------------------------------------
(* What makes RunsAreFaithful, StartsAreWanted and NothingIsLeft inductive. *)

ConstantsOK ==
    /\ NoSend \notin Sends
    /\ OperationOf \in [Calls -> Sends]
    /\ MaxGenerations \in Nat
    /\ Scenarios \subseteq [Kinds -> Nat]

Deleted == session.status = "deleted"

\* A model that was taken along is the session's while the revision is.
FreshOK == \A c \in fresh : calls[c] = session.model

\* The native turn of a run.
TurnSane(s) ==
    /\ turns[s].asked \in {0, 1}
    /\ turns[s].asked = 0 => turns[s] = NoTurn
    /\ turns[s].asked = 1 => turns[s].at # "none" /\ turns[s].gen # 0

\* What a row says happened.
RunSane(s) ==
    /\ runs[s].status = "none" => ~runs[s].submitted /\ runs[s].turn = NoSend
    /\ runs[s].turn # NoSend => runs[s].turn = s /\ turns[s].asked = 1
    /\ runs[s].status = "running" => runs[s].turn = s
    /\ runs[s].status = "stopping" => runs[s].stop
    /\ runs[s].status = "completed" => turns[s].at = "completed"
    /\ turns[s].asked = 1 => runs[s].submitted \/ Deleted

\* A task that may still ask has not asked, and one that may still save the
\* submission has not saved it.
Unsubmitted(s) == work[s].at \in {"starting", "opening", "closing", "opened"}
JobSane(s) ==
    /\ Unsubmitted(s) => turns[s].asked = 0 /\ ~runs[s].submitted
    /\ runs[s].status = "none" => At(s, "none") \/ Deleted
    /\ At(s, "sent") => turns[s].asked = 1
    /\ At(s, "submitting") => turns[s].asked = 0 /\ (runs[s].submitted \/ Deleted)
    /\ work[s].at \in {"opened", "submitting", "sent"} => work[s].gen # 0
    /\ fails[s].at = "closing" => runs[s].submitted \/ Deleted
    /\ interrupts[s].at # "none" => runs[s].turn = s \/ Deleted

\* No event of the turn of a run can come through the connection any more.
Unheard(s) ==
    /\ turns[s].gen # 0 => turns[s].gen # owner.connection
    /\ At(s, "submitting") => work[s].gen # owner.connection

\* A run that ended without its turn is not heard of again.
HeardSane(s) ==
    \/ Deleted
    \/ /\ Running(s) \/ runs[s].turn = s \/ Unheard(s)
       /\ fails[s].at = "closing" \/ At(s, "failing") \/ service.step = 3
          => Unheard(s)

RunsSane == \A s \in Sends : TurnSane(s) /\ RunSane(s) /\ JobSane(s) /\ HeardSane(s)

\* Generations are given once.
Named(g) == g # 0 => process[g] # "none"
NamesOK ==
    /\ Named(owner.connection) /\ Named(deletion.gen) /\ Named(halting.gen)
    /\ Named(service.gen)
    /\ \A s \in Sends : /\ Named(work[s].gen) /\ Named(fails[s].gen)
                         /\ Named(interrupts[s].gen) /\ Named(turns[s].gen)

StagesOK ==
    /\ Deleted => latest = NoSend
    /\ deletion.at # "none" => session.status \in {"deleting", "delete_uncertain"}
    /\ halting.at = "closing" => ~owner.stored
    /\ service.mode = "up" => service.step = 0
    /\ service.mode = "down" => service.step = 4

\* One task at a time opens a connection, and there is none while it does.
Opening(s) == work[s].at \in {"starting", "opening", "closing"}
OneOpens ==
    ~owner.overtaken =>
        /\ deletion.at = "launching" => owner.connection = 0
        /\ \A s \in Sends :
              Opening(s) => /\ Accepting /\ owner.stored => Running(s)
                            /\ At(s, "starting") \/ owner.connection = 0
                            /\ deletion.at = "none"
                            /\ \A t \in Sends : Opening(t) => t = s

\* Who waits until a process is gone.
ClosesIt(s, g) ==
    \/ work[s].at \in {"closing", "failing", "leaving"} /\ work[s].gen = g
    \/ fails[s].at = "closing" /\ fails[s].gen = g
    \/ interrupts[s].at = "closing" /\ interrupts[s].gen = g
IsHeld(g) ==
    \/ g = owner.connection
    \/ deletion.at \in {"complete", "conflict", "uncertain"} /\ deletion.gen = g
    \/ halting.at = "closing" /\ halting.gen = g
    \/ service.step = 3 /\ service.gen = g
    \/ \E s \in Sends : ClosesIt(s, g)

AllHeld == ~owner.overtaken => \A g \in Generations : Exists(g) => IsHeld(g)

\* A connection of a service that has closed its sessions is still in use.
InUse == \/ deletion.at = "asking"
         \/ \E s \in Sends : work[s].at \in {"opened", "submitting", "sent", "waiting"}
ShutOK ==
    /\ service.step \in {3, 4} /\ owner.connection # 0 => InUse \/ Deleted
    /\ service.mode = "down" =>
          /\ deletion.at = "none" /\ \A s \in Sends : At(s, "none")
          /\ ~owner.overtaken /\ ~Deleted => \A g \in Generations : ~Exists(g)

IInv == /\ ConstantsOK /\ TypeOK /\ FreshOK /\ RunsSane /\ NamesOK /\ StagesOK
        /\ OneOpens /\ AllHeld /\ ShutOK
=============================================================================
