------------------------ MODULE ProviderGenerations ------------------------
(***************************************************************************)
(* The lifetimes of provider runtimes (runtime/provider_manager.py) as     *)
(* the application drives them (runtime/application.py): requests lease    *)
(* the current generation, an applied configuration replaces it, its       *)
(* catalog tasks discover models and publish the catalog file, and a       *)
(* shutdown closes everything.                                             *)
(*                                                                         *)
(* Everything runs on one event loop, so a section that awaits nothing is  *)
(* one step.  What comes between steps: the commit of a configuration and  *)
(* the publication of a catalog run in worker threads; cleanups, cancelled *)
(* tasks and locks are awaited; and whoever awaits may be cancelled.       *)
(*                                                                         *)
(* A generation is named by its runtime, and runtimes by the order they    *)
(* are built in.  The candidate of a replacement is a runtime that is not  *)
(* a generation yet.  Updates that need a restart commit without replacing *)
(* and are left out, and so is what the catalog says.                      *)
(***************************************************************************)
EXTENDS Naturals, FiniteSets

CONSTANTS
    MaxRuntimes,   \* bound: runtimes the factory builds
    Clients,       \* requests, and calls of refresh_provider
    NoRuntime      \* None

Runtimes == 1 .. MaxRuntimes

ASSUME GenerationsAssumption ==
    /\ MaxRuntimes \in Nat \ {0}
    /\ NoRuntime \notin Nat

VARIABLES
    runtime,       \* each ProviderRuntime: has cleanup() been called, has it succeeded
    current,       \* _current
    config,        \* the runtime built for the settings in the configuration file
    retired,       \* _retired
    unpublished,   \* _unpublished
    lease,         \* the generation each client has leased
    work,          \* catalog_tasks and refresh_task of each generation
    cleanup,       \* cleanup_task of each generation
    apply,         \* apply_admin_config, while it holds _config_lock
    retry,         \* what _retry_unpublished_cleanup has still to look at
    connecting,    \* connected_provider_changed holds its two locks
    refreshing,    \* refresh_model_list_cache waits for _replace_lock
    queued,        \* _publications that have not begun
    publishing,    \* the publication that holds _publication_lock
    file,          \* the generation whose catalog is in the file
    closing,       \* _closing, and _draining of the application
    closer,        \* close()
    closed         \* _closed

published == <<queued, publishing, file>>
shutdown  == <<closing, closer, closed>>
locks     == <<connecting, refreshing>>
held      == <<current, config, retired, unpublished>>

vars == <<runtime, held, lease, work, cleanup, apply, retry, locks, published, shutdown>>

\* "waiting" for _replace_lock, "retrying" old candidates, "committing" in a
\* worker, "publishing" once committed, "reclaiming" the generation it replaced,
\* "discarding" its candidate.
ApplyPhases == {"idle", "waiting", "retrying", "committing", "publishing",
                "reclaiming", "discarding"}

\* The runtime it is about; persistence_started; and whether its caller was
\* cancelled and has heard of it.
NoApply == [phase |-> "idle", runtime |-> NoRuntime, started |-> FALSE, cancel |-> "no"]

\* close() stops the catalog tasks, waits for publications, for leases and for
\* cleanups, and retries old candidates.
CloserPhases == {"idle", "stopping", "flushing", "draining", "cleaning", "retrying"}
NoCloser == [phase |-> "idle", targets |-> {}]

NoPublication == [runtime |-> NoRuntime, by |-> "none"]

Leased(r)  == \E c \in Clients : lease[c] = r
Unbuilt    == {r \in Runtimes : runtime[r] = "absent"}

\* The holders of _replace_lock and _publication_lock let go.
ReplaceLockFree     == ~connecting /\ apply.phase \in {"idle", "waiting"}
PublicationLockFree == ~connecting /\ publishing = NoPublication

Init ==
    /\ runtime = [r \in Runtimes |-> IF r = 1 THEN "open" ELSE "absent"]
    /\ current = 1 /\ config = 1
    /\ retired = {} /\ unpublished = {}
    /\ lease   = [c \in Clients |-> NoRuntime]
    /\ work    = [r \in Runtimes |-> "none"]
    /\ cleanup = [r \in Runtimes |-> "none"]
    /\ apply = NoApply /\ retry = {}
    /\ connecting = FALSE /\ refreshing = FALSE
    /\ queued = {} /\ publishing = NoPublication /\ file = NoRuntime
    /\ closing = FALSE /\ closer = NoCloser /\ closed = FALSE

-----------------------------------------------------------------------------
(* Catalog work: discovery tasks, and the pass that waits for them and      *)
(* publishes                                                                *)

\* Every task in it has been told to stop, or at least one was not.
Started(w, r) == [w EXCEPT ![r] = "running"]
Cancelled(w, rs) ==
    [r \in Runtimes |-> IF r \in rs /\ w[r] = "running" THEN "cancelled" ELSE w[r]]

\* start_model_list_refresh and wait_for_catalog: _start_pass
StartPass ==
    /\ ~closing
    /\ work' = Started(work, current)
    /\ UNCHANGED <<runtime, held, lease, cleanup, apply, retry, locks, published, shutdown>>

\* refresh_model_list_cache looks at _closing before it waits for the lock.
RefreshAsks ==
    /\ ~closing /\ ~refreshing
    /\ refreshing' = TRUE
    /\ UNCHANGED <<runtime, held, lease, work, cleanup, apply, retry, connecting,
                   published, shutdown>>

RefreshRuns ==
    /\ refreshing /\ ReplaceLockFree
    /\ refreshing' = FALSE
    /\ work' = Started(work, current)
    /\ UNCHANGED <<runtime, held, lease, cleanup, apply, retry, connecting,
                   published, shutdown>>

\* connected_provider_changed starts a pass and waits for the discovery it
\* cancelled.
ConnectBegins ==
    /\ ~closing /\ ReplaceLockFree /\ PublicationLockFree
    /\ connecting' = TRUE
    /\ work' = Started(work, current)
    /\ UNCHANGED <<runtime, held, lease, cleanup, apply, retry, refreshing,
                   published, shutdown>>

\* It goes on whether or not a shutdown began meanwhile.
ConnectEnds ==
    /\ connecting
    /\ connecting' = FALSE
    /\ work' = Started(work, current)
    /\ UNCHANGED <<runtime, held, lease, cleanup, apply, retry, refreshing,
                   published, shutdown>>

ConnectCancelled ==
    /\ connecting
    /\ connecting' = FALSE
    /\ UNCHANGED <<runtime, held, lease, work, cleanup, apply, retry, refreshing,
                   published, shutdown>>

\* A pass that publishes sees the worker through (run_sync_owned).
WorkEnds(r) ==
    /\ work[r] # "none"
    /\ publishing # [runtime |-> r, by |-> "pass"]
    /\ work' = [work EXCEPT ![r] = "none"]
    /\ UNCHANGED <<runtime, held, lease, cleanup, apply, retry, locks, published, shutdown>>

\* New models in a complete catalog, or wait_for_catalog_file
QueuePublication ==
    /\ ~closing
    /\ queued' = queued \cup {current}
    /\ UNCHANGED <<runtime, held, lease, work, cleanup, apply, retry, locks,
                   publishing, file, shutdown>>

\* _publish_generation
PublishBegins(r, by) ==
    /\ PublicationLockFree
    /\ r = current /\ ~closing
    /\ \/ by = "task" /\ r \in queued
       \/ by = "pass" /\ work[r] = "running"
    /\ publishing' = [runtime |-> r, by |-> by]
    /\ queued' = IF by = "task" THEN queued \ {r} ELSE queued
    /\ UNCHANGED <<runtime, held, lease, work, cleanup, apply, retry, locks,
                   file, shutdown>>

\* The generation is not current any more, its catalog is not complete, or the
\* manager is closing.
PublicationDropped(r) ==
    /\ PublicationLockFree
    /\ r \in queued
    /\ queued' = queued \ {r}
    /\ UNCHANGED <<runtime, held, lease, work, cleanup, apply, retry, locks,
                   publishing, file, shutdown>>

\* The worker has written the file, or has failed to.
PublishEnds ==
    /\ publishing # NoPublication
    /\ file' \in {file, publishing.runtime}
    /\ publishing' = NoPublication
    /\ UNCHANGED <<runtime, held, lease, work, cleanup, apply, retry, locks,
                   queued, shutdown>>

-----------------------------------------------------------------------------
(* Leases and the cleanup of generations                                    *)

Acquire(c) ==
    /\ ~closing
    /\ lease[c] = NoRuntime
    /\ lease' = [lease EXCEPT ![c] = current]
    /\ UNCHANGED <<runtime, held, work, cleanup, apply, retry, locks, published, shutdown>>

\* ProviderGenerationLease.resolve_provider and refresh_provider: discovery in
\* the leased generation, which may be retired
Discover(c) ==
    /\ ~closing
    /\ lease[c] # NoRuntime
    /\ work' = Started(work, lease[c])
    /\ UNCHANGED <<runtime, held, lease, cleanup, apply, retry, locks, published, shutdown>>

\* _close_generation for the generations of rs that nobody leases: the cleanup
\* task there is, or a new one, which begins by cancelling the catalog work.
Reclaim(rs) ==
    /\ cleanup' = [r \in Runtimes |->
                     IF r \in rs /\ cleanup[r] = "none" THEN "stopping" ELSE cleanup[r]]
    /\ work' = Cancelled(work, rs)

Release(c) ==
    LET r == lease[c]
        last == \A d \in Clients \ {c} : lease[d] # r
    IN /\ r # NoRuntime
       /\ lease' = [lease EXCEPT ![c] = NoRuntime]
       /\ Reclaim(IF last /\ r \in retired /\ ~closing THEN {r} ELSE {})
       /\ UNCHANGED <<runtime, held, apply, retry, locks, published, shutdown>>

\* _run_generation_cleanup, once the catalog work is over: ProviderRuntime.cleanup
CleanupCalls(r) ==
    /\ cleanup[r] = "stopping"
    /\ work[r] = "none"
    /\ cleanup' = [cleanup EXCEPT ![r] = "calling"]
    /\ runtime' = [runtime EXCEPT ![r] = "closing"]
    /\ UNCHANGED <<held, lease, work, apply, retry, locks, published, shutdown>>

CleanupSucceeds(r) ==
    /\ cleanup[r] = "calling"
    /\ cleanup' = [cleanup EXCEPT ![r] = "none"]
    /\ runtime' = [runtime EXCEPT ![r] = "closed"]
    /\ retired' = retired \ {r}
    /\ UNCHANGED <<current, config, unpublished, lease, work, apply, retry, locks,
                   published, shutdown>>

\* A provider could not be closed: the generation stays in _retired.
CleanupFails(r) ==
    /\ cleanup[r] = "calling"
    /\ cleanup' = [cleanup EXCEPT ![r] = "none"]
    /\ UNCHANGED <<runtime, held, lease, work, apply, retry, locks, published, shutdown>>

-----------------------------------------------------------------------------
(* apply_admin_config, and the replacement its finalization task makes.     *)
(* Preparing the update and checking its credentials change nothing.        *)

ToApply(phase) == apply' = [apply EXCEPT !.phase = phase]

ApplyBegins ==
    /\ ~closing
    /\ apply = NoApply /\ closer = NoCloser
    /\ apply' = [NoApply EXCEPT !.phase = "waiting"]
    /\ UNCHANGED <<runtime, held, lease, work, cleanup, retry, locks, published, shutdown>>

CallerCancelled ==
    /\ apply # NoApply /\ apply.cancel = "no"
    /\ apply' = [apply EXCEPT !.cancel = "asked"]
    /\ UNCHANGED <<runtime, held, lease, work, cleanup, retry, locks, published, shutdown>>

\* Mutant: the finalization is cancelled wherever it is.
CallerCancelsAll ==
    /\ apply.cancel = "asked"
    /\ apply' = NoApply /\ retry' = {}
    /\ UNCHANGED <<runtime, held, lease, work, cleanup, locks, published, shutdown>>

\* _await_owned_task cancels the finalization unless the commit has started.
\* What it was cleaning up stays in _unpublished.
CallerHears ==
    /\ apply.cancel = "asked"
    /\ IF apply.started
       THEN apply' = [apply EXCEPT !.cancel = "heard"] /\ UNCHANGED retry
       ELSE apply' = NoApply /\ retry' = {}
    /\ UNCHANGED <<runtime, held, lease, work, cleanup, locks, published, shutdown>>

\* _replace_lock is acquired; _ensure_open and _retry_unpublished_cleanup
ReplaceBegins ==
    /\ apply.phase = "waiting"
    /\ ReplaceLockFree
    /\ IF closing
       THEN apply' = NoApply /\ UNCHANGED retry
       ELSE ToApply("retrying") /\ retry' = unpublished
    /\ UNCHANGED <<runtime, held, lease, work, cleanup, locks, published, shutdown>>

\* _cleanup_unpublished for one of the old candidates, by replace or by close
RetrySucceeds(r) ==
    /\ r \in retry
    /\ retry' = retry \ {r}
    /\ unpublished' = unpublished \ {r}
    /\ runtime' = [runtime EXCEPT ![r] = "closed"]
    /\ UNCHANGED <<current, config, retired, lease, work, cleanup, apply, locks,
                   published, shutdown>>

RetryFails(r) ==
    /\ r \in retry
    /\ retry' = retry \ {r}
    /\ UNCHANGED <<runtime, held, lease, work, cleanup, apply, locks, published, shutdown>>

\* Mutant: what the factory built is not remembered during the commit.
ConstructsUnnamed(r) ==
    /\ apply.phase = "retrying" /\ retry = {}
    /\ r \in Unbuilt /\ \A q \in Unbuilt : r <= q
    /\ apply' = [apply EXCEPT !.phase = "committing", !.started = TRUE]
    /\ runtime' = [runtime EXCEPT ![r] = "open"]
    /\ UNCHANGED <<held, lease, work, cleanup, retry, locks, published, shutdown>>

\* The factory builds the candidate. commit() finds out whether the caller was
\* cancelled before it has the configuration written; if so _cleanup_unpublished
\* takes the candidate.
Constructs(r) ==
    /\ apply.phase = "retrying" /\ retry = {}
    /\ r \in Unbuilt /\ \A q \in Unbuilt : r <= q
    /\ IF apply.cancel = "asked"
       THEN /\ apply' = [apply EXCEPT !.phase = "discarding", !.runtime = r]
            /\ runtime' = [runtime EXCEPT ![r] = "closing"]
            /\ unpublished' = unpublished \cup {r}
       ELSE /\ apply' = [apply EXCEPT !.phase = "committing", !.runtime = r,
                                      !.started = TRUE]
            /\ runtime' = [runtime EXCEPT ![r] = "open"]
            /\ UNCHANGED unpublished
    /\ UNCHANGED <<current, config, retired, lease, work, cleanup, retry, locks,
                   published, shutdown>>

ConstructionFails ==
    /\ apply.phase = "retrying" /\ retry = {}
    /\ apply' = NoApply
    /\ UNCHANGED <<runtime, held, lease, work, cleanup, retry, locks, published, shutdown>>

\* The worker has replaced the configuration file.
CommitWrites ==
    /\ apply.phase = "committing"
    /\ ToApply("publishing")
    /\ config' = apply.runtime
    /\ UNCHANGED <<runtime, current, retired, unpublished, lease, work, cleanup,
                   retry, locks, published, shutdown>>

CommitFails ==
    /\ apply.phase = "committing"
    /\ ToApply("discarding")
    /\ runtime' = [runtime EXCEPT ![apply.runtime] = "closing"]
    /\ unpublished' = unpublished \cup {apply.runtime}
    /\ UNCHANGED <<current, config, retired, lease, work, cleanup, retry, locks,
                   published, shutdown>>

DiscardSucceeds ==
    /\ apply.phase = "discarding"
    /\ apply' = NoApply
    /\ runtime' = [runtime EXCEPT ![apply.runtime] = "closed"]
    /\ unpublished' = unpublished \ {apply.runtime}
    /\ UNCHANGED <<current, config, retired, lease, work, cleanup, retry, locks,
                   published, shutdown>>

DiscardFails ==
    /\ apply.phase = "discarding"
    /\ apply' = NoApply
    /\ UNCHANGED <<runtime, held, lease, work, cleanup, retry, locks, published, shutdown>>

\* Mutant: it does not wait for the publication of what it replaces.
ReplacePublishesAtOnce ==
    /\ apply.phase = "publishing"
    /\ current' = apply.runtime
    /\ retired' = retired \cup {current}
    /\ apply' = NoApply
    /\ work' = Started(work, apply.runtime)
    /\ UNCHANGED <<runtime, config, unpublished, lease, cleanup, retry, locks,
                   published, shutdown>>

\* The candidate becomes current and starts its pass; what it replaces is
\* retired, and reclaimed if nobody leases it.
ReplacePublishes ==
    /\ apply.phase = "publishing"
    /\ PublicationLockFree
    /\ current' = apply.runtime
    /\ retired' = retired \cup {current}
    /\ IF Leased(current)
       THEN /\ apply' = NoApply
            /\ work' = Started(work, apply.runtime)
            /\ UNCHANGED cleanup
       ELSE /\ apply' = [apply EXCEPT !.phase = "reclaiming", !.runtime = current]
            /\ work' = Started(Cancelled(work, {current}), apply.runtime)
            /\ cleanup' = [cleanup EXCEPT ![current] = "stopping"]
    /\ UNCHANGED <<runtime, config, unpublished, lease, retry, locks, published, shutdown>>

\* The cleanup of the replaced generation has ended, one way or the other.
ReplaceReturns ==
    /\ apply.phase = "reclaiming"
    /\ cleanup[apply.runtime] = "none"
    /\ apply' = NoApply
    /\ UNCHANGED <<runtime, held, lease, work, cleanup, retry, locks, published, shutdown>>

-----------------------------------------------------------------------------
(* Shutdown. close() is called under _config_lock, and again if it failed.  *)

ToCloser(phase) == closer' = [closer EXCEPT !.phase = phase]

\* begin_shutdown may come long before close(), while requests are served.
BeginShutdown ==
    /\ ~closing
    /\ closing' = TRUE
    /\ work' = Cancelled(work, retired \cup {current})
    /\ UNCHANGED <<runtime, held, lease, cleanup, apply, retry, locks, published,
                   closer, closed>>

\* Mutant: it relies on begin_shutdown for the cancellation.
CloseBeginsTrusting ==
    /\ closing /\ ~closed
    /\ closer = NoCloser /\ apply = NoApply
    /\ ReplaceLockFree /\ ~refreshing
    /\ retired' = IF runtime[current] = "closed" THEN retired ELSE retired \cup {current}
    /\ closer' = [phase |-> "stopping", targets |-> retired']
    /\ UNCHANGED <<runtime, current, config, unpublished, lease, work, cleanup, apply,
                   retry, locks, published, closing, closed>>

\* The current generation is retired too, unless an earlier close() closed it.
\* A refresh that waits for _replace_lock has asked for it first.
CloseBegins ==
    /\ closing /\ ~closed
    /\ closer = NoCloser /\ apply = NoApply
    /\ ReplaceLockFree /\ ~refreshing
    /\ retired' = IF runtime[current] = "closed" THEN retired ELSE retired \cup {current}
    /\ closer' = [phase |-> "stopping", targets |-> retired']
    /\ work' = Cancelled(work, retired')
    /\ UNCHANGED <<runtime, current, config, unpublished, lease, cleanup, apply,
                   retry, locks, published, closing, closed>>

CloseStopped ==
    /\ closer.phase = "stopping"
    /\ \A r \in closer.targets : work[r] = "none"
    /\ ToCloser("flushing")
    /\ UNCHANGED <<runtime, held, lease, work, cleanup, apply, retry, locks,
                   published, closing, closed>>

CloseFlushed ==
    /\ closer.phase = "flushing"
    /\ queued = {} /\ publishing = NoPublication
    /\ ToCloser("draining")
    /\ UNCHANGED <<runtime, held, lease, work, cleanup, apply, retry, locks,
                   published, closing, closed>>

\* Mutant: it does not wait for the leases.
CloseUndrained ==
    /\ closer.phase = "draining"
    /\ ToCloser("cleaning")
    /\ Reclaim(closer.targets \cap retired)
    /\ UNCHANGED <<runtime, held, lease, apply, retry, locks, published, closing, closed>>

CloseDrained ==
    /\ closer.phase = "draining"
    /\ \A r \in closer.targets : ~Leased(r)
    /\ ToCloser("cleaning")
    /\ Reclaim(closer.targets \cap retired)
    /\ UNCHANGED <<runtime, held, lease, apply, retry, locks, published, closing, closed>>

CloseCleaned ==
    /\ closer.phase = "cleaning"
    /\ \A r \in closer.targets : cleanup[r] = "none"
    /\ ToCloser("retrying")
    /\ retry' = unpublished
    /\ UNCHANGED <<runtime, held, lease, work, cleanup, apply, locks, published,
                   closing, closed>>

\* close() returns, or raises because something could not be closed.
CloseReturns ==
    /\ closer.phase = "retrying" /\ retry = {}
    /\ closer' = NoCloser
    /\ closed' = (unpublished = {} /\ closer.targets \cap retired = {})
    /\ UNCHANGED <<runtime, held, lease, work, cleanup, apply, retry, locks,
                   published, closing>>

CloseCancelled ==
    /\ closer # NoCloser
    /\ closer' = NoCloser
    /\ retry' = {}
    /\ UNCHANGED <<runtime, held, lease, work, cleanup, apply, locks, published,
                   closing, closed>>

-----------------------------------------------------------------------------
Catalog ==
    \/ StartPass \/ RefreshAsks \/ RefreshRuns
    \/ ConnectBegins \/ ConnectEnds \/ ConnectCancelled
    \/ QueuePublication \/ PublishEnds
    \/ \E r \in Runtimes :
           \/ WorkEnds(r)
           \/ PublishBegins(r, "task") \/ PublishBegins(r, "pass")
           \/ PublicationDropped(r)

CleanupStep(r) == CleanupCalls(r) \/ CleanupSucceeds(r) \/ CleanupFails(r)

Leases ==
    \/ \E c \in Clients : Acquire(c) \/ Discover(c) \/ Release(c)
    \/ \E r \in Runtimes : CleanupStep(r)

RetryStep == \E r \in retry : RetrySucceeds(r) \/ RetryFails(r)

Replacement ==
    \/ ApplyBegins \/ CallerCancelled \/ CallerHears
    \/ ReplaceBegins \/ RetryStep
    \/ \E r \in Runtimes : Constructs(r)
    \/ ConstructionFails
    \/ CommitWrites \/ CommitFails
    \/ DiscardSucceeds \/ DiscardFails
    \/ ReplacePublishes \/ ReplaceReturns

CloserStep ==
    \/ CloseStopped \/ CloseFlushed \/ CloseDrained \/ CloseCleaned \/ CloseReturns

Shutdown == BeginShutdown \/ CloseBegins \/ CloserStep \/ CloseCancelled

Next == Catalog \/ Leases \/ Replacement \/ Shutdown

Spec == Init /\ [][Next]_vars

\* The event loop runs what is ready: a cancelled task ends, a publication and a
\* cleanup return, a request ends and gives its lease back. Discovery may wait
\* for an upstream for ever, and nobody has to apply, cancel or shut down.
Fairness ==
    /\ \A r \in Runtimes :
           /\ WF_vars(work[r] = "cancelled" /\ WorkEnds(r))
           /\ WF_vars(PublicationDropped(r))
           /\ WF_vars(CleanupStep(r))
    /\ \A c \in Clients : WF_vars(Release(c))
    /\ WF_vars(PublishEnds)
    /\ WF_vars(RetryStep)
    /\ WF_vars(CloserStep)

FairSpec == Spec /\ Fairness

-----------------------------------------------------------------------------
(* What the manager promises                                                *)

\* Every variable has its type.
TypeOK ==
    /\ runtime \in [Runtimes -> {"absent", "open", "closing", "closed"}]
    /\ current \in Runtimes /\ config \in Runtimes
    /\ retired \subseteq Runtimes /\ unpublished \subseteq Runtimes
    /\ lease \in [Clients -> Runtimes \cup {NoRuntime}]
    /\ work \in [Runtimes -> {"none", "running", "cancelled"}]
    /\ cleanup \in [Runtimes -> {"none", "stopping", "calling"}]
    /\ apply \in [phase : ApplyPhases, runtime : Runtimes \cup {NoRuntime},
                  started : BOOLEAN, cancel : {"no", "asked", "heard"}]
    /\ apply.phase \in {"committing", "publishing", "reclaiming", "discarding"} =>
           apply.runtime \in Runtimes
    /\ retry \subseteq Runtimes
    /\ connecting \in BOOLEAN /\ refreshing \in BOOLEAN
    /\ queued \subseteq Runtimes
    /\ publishing \in {NoPublication} \cup [runtime : Runtimes, by : {"task", "pass"}]
    /\ file \in Runtimes \cup {NoRuntime}
    /\ closing \in BOOLEAN /\ closed \in BOOLEAN
    /\ closer \in [phase : CloserPhases, targets : SUBSET Runtimes]

\* When no update is under way the configuration file holds the settings of the
\* runtime that serves requests, wherever the update failed and whenever its
\* caller was cancelled: a restart would change nothing.
ConfigIsCurrent == apply = NoApply => config = current

\* A close() that returns leaves nothing behind, though updates, refreshes and
\* logins were under way when the shutdown began, and earlier attempts failed or
\* were cancelled: every runtime that was ever built is closed, and no catalog
\* task or publication runs.
CloseLeavesNothing ==
    closed => /\ \A r \in Runtimes \ Unbuilt : runtime[r] = "closed"
              /\ \A r \in Runtimes : work[r] = "none"
              /\ publishing = NoPublication

\* Neither an update nor a close() is ever left half done.
ChangesAreWhole == ConfigIsCurrent /\ CloseLeavesNothing

\* What the worker thread writes to the catalog file is of the generation that is
\* current when it has written: a replacement does not overtake a write under way.
CatalogIsOfCurrent ==
    [][file' = file \/ file' = current']_vars

\* No close() is at work, and a generation that was replaced and that nobody
\* leases any more is closed, whoever was last to let it go; a shutdown closes the
\* rest.
Settled ==
    /\ closer = NoCloser
    /\ closing \/ \A r \in retired : Leased(r) \/ runtime[r] # "open"

\* It comes to that again and again, if requests end: no task that starts meanwhile
\* is waited for without having been cancelled.
GenerationsSettle == []<>Settled

\* Requests see nothing but runtimes that replace one another and are disposed
\* of when nobody uses them: above all, no runtime is closed under a lease.
Lifetimes == INSTANCE RuntimeLifetimes WITH
    built <- Runtimes \ Unbuilt,
    alive <- {r \in Runtimes : runtime[r] = "open"},
    using <- lease

ImplementsLifetimes == Lifetimes!Spec
=============================================================================
