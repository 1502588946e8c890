--------------------------- MODULE ManagedSessions ---------------------------
(***************************************************************************)
(* The Claude CLI processes behind the messaging turns:                    *)
(* ManagedClaudeSessionManager (cli/managed/manager.py) and                *)
(* ManagedClaudeSession (session.py), used by messaging/node_runner.py and *)
(* by the workflow's stop_all.                                             *)
(*                                                                         *)
(* Three locks matter: the manager's, which stop_all and remove_session    *)
(* hold while they stop processes; a session's _cli_lock, held by the      *)
(* generator of its task from the launch to its end; and its               *)
(* _lifecycle_lock, held by a launch and by stop.  A session is named by   *)
(* the runner it was made for; runners that resume the same id share one.  *)
(***************************************************************************)
EXTENDS Naturals, FiniteSets

CONSTANTS
    Runners,     \* turns, each with the task that runs it
    Ids,         \* session ids of the CLI
    None,
    StopAll,     \* the actor of stop_all
    MaxStops,    \* bound: calls of stop_all
    MaxCancels   \* bound: cancellations of one runner's task

Sessions == Runners
Actors   == Runners \cup {StopAll}
\* pending_<uuid>, one for each runner, or an id of the CLI.
Keys     == Runners \cup Ids

VARIABLES
    pending,    \* _pending_sessions: the key of a session, or None
    real,       \* the key of a session in _sessions, or None
    temp,       \* _real_to_temp of that entry: the key it had before
    closing,    \* _closing_sessions
    manager,    \* who holds the manager's lock
    closed,     \* _closed of a session
    process,    \* "none", "running" or "exited"
    cli,        \* whose generator holds _cli_lock of a session
    lifecycle,  \* who holds _lifecycle_lock of a session
    place,      \* where a runner, or stop_all, stands
    using,      \* the session a runner has been given
    handle,     \* the id under which the runner will remove it
    todo,       \* sessions stop_all has still to stop
    stops,      \* calls of stop_all
    cancels     \* cancellations of a runner's task

vars == <<pending, real, temp, closing, manager, closed, process, cli,
          lifecycle, place, using, handle, todo, stops, cancels>>
maps    == <<pending, real, temp, closing>>
session == <<closed, process, cli, lifecycle>>
runner  == <<using, handle>>
counts  == <<todo, stops, cancels>>

MapsOK ==
    /\ pending \in [Sessions -> Keys \cup {None}]
    /\ real \in [Sessions -> Ids \cup {None}]
    /\ temp \in [Sessions -> Keys \cup {None}]
    /\ closing \subseteq Sessions
    /\ manager \in Actors \cup {None}

SessionsOK ==
    /\ closed \in [Sessions -> BOOLEAN]
    /\ process \in [Sessions -> {"none", "running", "exited"}]
    /\ cli \in [Sessions -> Runners \cup {None}]
    /\ lifecycle \in [Sessions -> Actors \cup {None}]

PlacesOK ==
    /\ place \in [Actors -> {"idle", "wants", "given", "reading", "own stop", "removing",
                             "stopping", "done"}]
    /\ using \in [Runners -> Sessions \cup {None}]
    /\ handle \in [Runners -> Keys \cup {None}]

CountsOK ==
    /\ todo \subseteq Sessions
    /\ stops \in 0 .. MaxStops
    /\ cancels \in [Runners -> 0 .. MaxCancels]

TypeOK == MapsOK /\ SessionsOK /\ PlacesOK /\ CountsOK

Init ==
    /\ pending = [s \in Sessions |-> None]
    /\ real = [s \in Sessions |-> None]
    /\ temp = [s \in Sessions |-> None]
    /\ closing = {}
    /\ manager = None
    /\ closed = [s \in Sessions |-> FALSE]
    /\ process = [s \in Sessions |-> "none"]
    /\ cli = [s \in Sessions |-> None]
    /\ lifecycle = [s \in Sessions |-> None]
    /\ place = [a \in Actors |-> "idle"]
    /\ using = [r \in Runners |-> None]
    /\ handle = [r \in Runners |-> None]
    /\ todo = {}
    /\ stops = 0
    /\ cancels = [r \in Runners |-> 0]

-----------------------------------------------------------------------------
(* The manager's maps                                                        *)

Listed(s) == pending[s] # None \/ real[s] # None

\* _session_for_id: a temporary id leads to the real one it was replaced by.
SessionsFor(k) ==
    LET ids == {real[s] : s \in {x \in Sessions : real[x] # None /\ temp[x] = k}}
        key == IF ids # {} THEN CHOOSE i \in ids : TRUE ELSE k
        named == {s \in Sessions : real[s] = key}
    IN IF named # {} THEN named ELSE {s \in Sessions : pending[s] = key}

\* _forget_session
Forget(s) ==
    /\ pending' = [pending EXCEPT ![s] = None]
    /\ real' = [real EXCEPT ![s] = None]
    /\ temp' = [temp EXCEPT ![s] = None]
    /\ closing' = closing \ {s}

Go(a, to) == place' = [place EXCEPT ![a] = to]

\* A turn starts.
Start(r) ==
    /\ place[r] = "idle"
    /\ Go(r, "wants")
    /\ UNCHANGED <<maps, manager, session, runner, counts>>

\* The turn's task is over.
Leave(r) ==
    /\ Go(r, "done")
    /\ using' = [using EXCEPT ![r] = None]
    /\ handle' = [handle EXCEPT ![r] = None]

Take(r, s, key) ==
    /\ Go(r, "given")
    /\ using' = [using EXCEPT ![r] = s]
    /\ handle' = [handle EXCEPT ![r] = key]

\* get_or_create_session: a new session, pending under the id of the parent's
\* session if the turn forks one; or the session that id leads to, unless it
\* is closing.
GetOrCreate(r) ==
    /\ place[r] = "wants"
    /\ manager = None
    /\ \E parent \in Ids \cup {None} :
        LET found == IF parent = None THEN {} ELSE SessionsFor(parent)
            key == IF parent = None THEN r ELSE parent
        IN \/ /\ found = {}
              /\ pending' = [pending EXCEPT ![r] = key]
              /\ Take(r, r, key)
           \/ /\ \E s \in found \ closing : Take(r, s, key)
              /\ UNCHANGED pending
           \/ /\ found \cap closing # {}
              /\ Leave(r)
              /\ UNCHANGED pending
    /\ UNCHANGED <<real, temp, closing, manager, session, counts>>

-----------------------------------------------------------------------------
(* The task of a session: ManagedClaudeSession.start_task                    *)

\* Mutant: a launch does not look at _closed.
LaunchAnyway(s) == FALSE

\* A session that was stopped before its task began refuses the launch.
RefusesLaunch(s) == closed[s]

\* The launch, under both locks of the session: a process, or a failure.
Launch(r) ==
    LET s == using[r] IN
    /\ place[r] = "given"
    /\ cli[s] = None
    /\ lifecycle[s] = None
    /\ \/ /\ ~RefusesLaunch(s)
          /\ cli' = [cli EXCEPT ![s] = r]
          /\ process' = [process EXCEPT ![s] = "running"]
          /\ Go(r, "reading")
       \/ /\ Go(r, "removing")
          /\ UNCHANGED <<cli, process>>
    /\ UNCHANGED <<maps, manager, closed, lifecycle, runner, counts>>

\* register_real_session_id, for the CLI's session_info; a refusal fails the turn.
Register(r) ==
    LET s == using[r] IN
    /\ place[r] = "reading"
    /\ manager = None
    /\ pending[s] = handle[r]
    /\ \E id \in Ids :
        IF s \notin closing /\ SessionsFor(id) \subseteq {s}
        THEN /\ pending' = [pending EXCEPT ![s] = None]
             /\ real' = [real EXCEPT ![s] = id]
             /\ temp' = [temp EXCEPT ![s] = handle[r]]
             /\ handle' = [handle EXCEPT ![r] = id]
             /\ UNCHANGED place
        ELSE Go(r, "removing") /\ UNCHANGED <<pending, real, temp, handle>>
    /\ UNCHANGED <<closing, manager, session, using, counts>>

\* The process ends by itself or because it was killed.
Exit(s) ==
    /\ process[s] = "running"
    /\ process' = [process EXCEPT ![s] = "exited"]
    /\ UNCHANGED <<maps, manager, closed, cli, lifecycle, place, runner, counts>>

\* The generator has read everything and its runner goes on to the end of the
\* turn; or it was abandoned by its runner, and is closed.
GeneratorEnds(s) ==
    /\ cli[s] # None
    /\ process[s] = "exited"
    /\ place[cli[s]] # "own stop"
    /\ cli' = [cli EXCEPT ![s] = None]
    /\ IF place[cli[s]] = "reading" THEN Go(cli[s], "removing") ELSE UNCHANGED place
    /\ UNCHANGED <<maps, manager, closed, process, lifecycle, runner, counts>>

\* The runner's task is cancelled: while it waits for the manager; before the
\* launch; while the generator reads, which stops its process first; or while
\* the runner handles an event, which abandons the generator.  A cancelled
\* removal is given up.
Cancel(r) ==
    /\ cancels[r] < MaxCancels
    /\ cancels' = [cancels EXCEPT ![r] = @ + 1]
    /\ \/ place[r] = "wants" /\ Leave(r) /\ UNCHANGED <<manager, lifecycle>>
       \/ /\ place[r] \in {"given", "reading"}
          /\ Go(r, "removing")
          /\ UNCHANGED <<manager, lifecycle, runner>>
       \/ /\ place[r] = "reading"
          /\ Go(r, "own stop")
          /\ UNCHANGED <<manager, lifecycle, runner>>
       \/ /\ place[r] \in {"removing", "stopping"}
          /\ Leave(r)
          /\ manager' = IF manager = r THEN None ELSE manager
          /\ lifecycle' = [s \in Sessions |-> IF lifecycle[s] = r THEN None ELSE lifecycle[s]]
    /\ UNCHANGED <<maps, closed, process, cli, todo, stops>>

-----------------------------------------------------------------------------
(* Stopping: ManagedClaudeSession.stop, remove_session and stop_all          *)

\* stop has begun and waits for the process, under _lifecycle_lock.
StopHolds(a, s) == lifecycle[s] = a

\* Mutant: stop waits for the task that it is to end.
StopWaitsForTask(a, s) ==
    /\ lifecycle[s] = None
    /\ cli[s] = None
    /\ closed' = [closed EXCEPT ![s] = TRUE]
    /\ lifecycle' = [lifecycle EXCEPT ![s] = a]

BeginStop(a, s) ==
    /\ lifecycle[s] = None
    /\ closed' = [closed EXCEPT ![s] = TRUE]
    /\ lifecycle' = [lifecycle EXCEPT ![s] = a]

\* stop returns: there is no process left, or an error left it alone.
Stopped(a, s) ==
    /\ StopHolds(a, s)
    /\ process[s] # "running"
    /\ lifecycle' = [lifecycle EXCEPT ![s] = None]

StopFails(a, s) ==
    /\ StopHolds(a, s)
    /\ process[s] = "running"
    /\ lifecycle' = [lifecycle EXCEPT ![s] = None]

\* start_task, cancelled, stops its own process: it holds _cli_lock.
OwnStop(r) ==
    LET s == using[r] IN
    /\ place[r] = "own stop"
    /\ \/ BeginStop(r, s) /\ UNCHANGED <<place, cli>>
       \/ /\ Stopped(r, s) \/ StopFails(r, s)
          /\ Go(r, "removing")
          /\ UNCHANGED <<closed, cli>>
    /\ UNCHANGED <<maps, manager, process, runner, counts>>

\* remove_session at the end of a turn.
BeginRemove(r) ==
    /\ place[r] = "removing"
    /\ manager = None
    /\ \/ /\ SessionsFor(handle[r]) = {}
          /\ Leave(r)
          /\ UNCHANGED <<closing, manager>>
       \/ /\ SessionsFor(handle[r]) # {}
          /\ closing' = closing \cup SessionsFor(handle[r])
          /\ manager' = r
          /\ Go(r, "stopping")
          /\ UNCHANGED runner
    /\ UNCHANGED <<pending, real, temp, session, counts>>

\* A stop that fails leaves the session in the maps, closing.
Remove(r) ==
    /\ place[r] = "stopping"
    /\ \E s \in SessionsFor(handle[r]) :
        \/ BeginStop(r, s) /\ UNCHANGED <<maps, manager, place, runner>>
        \/ /\ \/ Stopped(r, s) /\ Forget(s)
              \/ StopFails(r, s) /\ UNCHANGED maps
           /\ manager' = None
           /\ Leave(r)
           /\ UNCHANGED closed
    /\ UNCHANGED <<process, cli, counts>>

\* stop_all takes every session, the closing ones too.
BeginStopAll ==
    /\ place[StopAll] = "idle"
    /\ stops < MaxStops
    /\ manager = None
    /\ manager' = StopAll
    /\ stops' = stops + 1
    /\ todo' = {s \in Sessions : Listed(s)} \cup closing
    /\ closing' = closing \cup {s \in Sessions : Listed(s)}
    /\ Go(StopAll, "stopping")
    /\ UNCHANGED <<pending, real, temp, session, runner, cancels>>

StopNext ==
    /\ place[StopAll] = "stopping"
    /\ \E s \in todo :
        /\ \A x \in todo \ {s} : ~StopHolds(StopAll, x)
        /\ \/ BeginStop(StopAll, s) /\ UNCHANGED <<maps, todo>>
           \/ /\ \/ Stopped(StopAll, s) /\ Forget(s)
                 \/ StopFails(StopAll, s) /\ UNCHANGED maps
              /\ todo' = todo \ {s}
              /\ UNCHANGED closed
    /\ UNCHANGED <<manager, process, cli, place, runner, stops, cancels>>

EndStopAll ==
    /\ place[StopAll] = "stopping"
    /\ todo = {}
    /\ manager' = None
    /\ Go(StopAll, "idle")
    /\ UNCHANGED <<maps, session, runner, counts>>

RunnerStep(r) == GetOrCreate(r) \/ Launch(r) \/ OwnStop(r) \/ BeginRemove(r) \/ Remove(r)

Next == \/ \E r \in Runners : Start(r) \/ Register(r) \/ Cancel(r) \/ RunnerStep(r)
        \/ \E s \in Sessions : Exit(s) \/ GeneratorEnds(s)
        \/ BeginStopAll \/ StopNext \/ EndStopAll

\* A process that is being stopped exits (it is killed after five seconds), or
\* the stop fails; the CLI itself may run for ever.
Killed(s) == Exit(s) /\ lifecycle[s] # None

Fairness == /\ \A r \in Runners : SF_vars(RunnerStep(r))
            /\ \A s \in Sessions : WF_vars(Killed(s)) /\ WF_vars(GeneratorEnds(s))
            /\ WF_vars(StopNext) /\ WF_vars(EndStopAll)

Spec == Init /\ [][Next]_vars /\ Fairness

-----------------------------------------------------------------------------
(* Properties                                                                *)

\* A process that runs belongs to a session the manager knows, so the next
\* stop_all will stop it: none is launched after its session was forgotten,
\* and a stop that fails or is cancelled gives nothing up.
EveryProcessIsOwned == \A s \in Sessions : process[s] = "running" => Listed(s) \/ s \in closing

\* stop_all ends, and so does a turn once its task is cancelled: the task that
\* stops its own process under _cli_lock and the manager that stops it under
\* its own lock do not wait for each other.
AllStopped ==
    /\ place[StopAll] = "idle"
    /\ \A r \in Runners : cancels[r] > 0 => place[r] = "done"
StopsEnd == <>[]AllStopped

-----------------------------------------------------------------------------
(* The inductive invariant of EveryProcessIsOwned                            *)

ConstantsOK ==
    /\ None \notin Keys \cup Actors
    /\ StopAll \notin Runners
    /\ MaxStops \in Nat /\ MaxCancels \in Nat

\* A session under _lifecycle_lock is being stopped: a launch holds it only
\* within its own step.
StopCloses == \A s \in Sessions : lifecycle[s] # None => closed[s]

\* Whoever still has a session that the manager has forgotten cannot launch it.
ForgottenIsClosed == \A r \in Runners : using[r] # None => Listed(using[r]) \/ closed[using[r]]

HasSession == \A r \in Runners : place[r] \in {"given", "reading", "own stop"} => using[r] # None

IInv == TypeOK /\ StopCloses /\ ForgottenIsClosed /\ HasSession /\ EveryProcessIsOwned
=============================================================================
