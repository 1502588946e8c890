------------------------- MODULE SessionPersistence -------------------------
(***************************************************************************)
(* SessionStore (messaging/session/store.py) and the debounced writer it   *)
(* owns, DebouncedJsonPersistence (messaging/session/persistence.py).      *)
(*                                                                         *)
(* Threads call the store, and every armed threading.Timer is a thread of  *)
(* its own.  Three locks are involved: the store's _lock, held by a        *)
(* mutation until its save is scheduled (by clear_scope until its write is *)
(* over); _timer_lock, whose sections await nothing, so each is one step;  *)
(* and _writer_lock, held over the comparison of generations and the       *)
(* replacement of the file.                                                *)
(*                                                                         *)
(* The contents of the store are abstracted to the number of the last      *)
(* mutation, and the file to the number it holds.  A timer is named by     *)
(* the generation it was armed for.                                        *)
(***************************************************************************)
EXTENDS Integers

CONSTANTS
    Callers,     \* threads that call the store
    Nobody,      \* a lock that is free
    MaxVersion,  \* bound: mutations
    MaxFaults    \* bound: failed writes and crashes

Timers  == 1 .. MaxVersion
Threads == Callers \cup Timers

ASSUME PersistenceAssumption ==
    /\ MaxVersion \in Nat
    /\ MaxFaults \in Nat
    /\ Callers \cap Nat = {}
    /\ Nobody \notin Threads

VARIABLES
    version,     \* the mutations in memory
    dirty,       \* SessionStore._dirty
    store,       \* who holds SessionStore._lock
    generation,  \* _save_generation
    timer,       \* the generation _save_timer is armed for, 0 for None
    writer,      \* who holds _writer_lock
    file,        \* the mutations on disk
    pc,          \* where each thread is
    pending,     \* _PendingWrite.generation of each thread
    snap,        \* _PendingWrite.snapshot of each thread
    faults       \* failed writes and crashes so far

vars == <<version, dirty, store, generation, timer, writer, file, pc, pending,
          snap, faults>>

Places == {"idle", "scheduling", "invalidating", "claiming", "snapshotting",
           "checking", "replacing", "marking", "cleaning", "failed"}

Goto(t, place) == pc' = [pc EXCEPT ![t] = place]
MayLockStore(t) == store \in {Nobody, t}

\* The call is over: its locals are gone, and so is the store's lock if it was
\* clear_scope that held it.
Return(t) == /\ Goto(t, "idle")
             /\ pending' = [pending EXCEPT ![t] = 0]
             /\ snap' = [snap EXCEPT ![t] = 0]
             /\ store' = IF store = t THEN Nobody ELSE store

Init ==
    /\ version = 0
    /\ dirty = FALSE
    /\ store = Nobody
    /\ generation = 0
    /\ timer = 0
    /\ writer = Nobody
    /\ file = 0
    /\ pc = [t \in Threads |-> "idle"]
    /\ pending = [t \in Threads |-> 0]
    /\ snap = [t \in Threads |-> 0]
    /\ faults = 0

-----------------------------------------------------------------------------
(* Mutations.  Both kinds change memory and mark it dirty under the store's *)
(* lock; clear_scope takes its snapshot under the same lock.                *)

Mutate(c, place) ==
    /\ pc[c] = "idle"
    /\ store = Nobody
    /\ version < MaxVersion
    /\ store' = c
    /\ version' = version + 1
    /\ dirty' = TRUE
    /\ Goto(c, place)

Save(c) ==
    /\ Mutate(c, "scheduling")
    /\ UNCHANGED <<generation, timer, writer, file, pending, snap, faults>>

\* schedule_save: the new timer replaces the one that is armed.
Schedule(c) ==
    /\ pc[c] = "scheduling"
    /\ generation' = generation + 1
    /\ timer' = generation + 1
    /\ store' = Nobody
    /\ Goto(c, "idle")
    /\ UNCHANGED <<version, dirty, writer, file, pending, snap, faults>>

Clear(c) ==
    /\ Mutate(c, "invalidating")
    /\ snap' = [snap EXCEPT ![c] = version + 1]
    /\ UNCHANGED <<generation, timer, writer, file, pending, faults>>

\* Mutant: an authoritative write invalidates its own snapshot as well.
InvalidateItself(c) ==
    /\ pc[c] = "invalidating"
    /\ generation' = generation + 1
    /\ timer' = 0
    /\ pending' = [pending EXCEPT ![c] = generation]
    /\ Goto(c, "checking")
    /\ UNCHANGED <<version, dirty, store, writer, file, snap, faults>>

\* write_data: no older snapshot is current any more.
Invalidate(c) ==
    /\ pc[c] = "invalidating"
    /\ generation' = generation + 1
    /\ timer' = 0
    /\ pending' = [pending EXCEPT ![c] = generation + 1]
    /\ Goto(c, "checking")
    /\ UNCHANGED <<version, dirty, store, writer, file, snap, faults>>

-----------------------------------------------------------------------------
(* flush, and the callback of a timer.                                     *)

Flush(c) ==
    /\ pc[c] = "idle"
    /\ store = Nobody
    /\ dirty' = TRUE
    /\ Goto(c, "claiming")
    /\ UNCHANGED <<version, store, generation, timer, writer, file, pending, snap,
                   faults>>

\* The debounce interval of a timer that nobody has cancelled is over.
Fire(g) ==
    /\ timer = g
    /\ pc[g] = "idle"
    /\ Goto(g, "claiming")
    /\ UNCHANGED <<version, dirty, store, generation, timer, writer, file,
                   pending, snap, faults>>

\* _claim_timer: a timer that was replaced, or claimed by a flush, gives up.
Claim(t) ==
    /\ pc[t] = "claiming"
    /\ \/ /\ t \in Timers => t = generation /\ timer # 0
          /\ timer' = 0
          /\ pending' = [pending EXCEPT ![t] = generation]
          /\ Goto(t, "snapshotting")
          /\ UNCHANGED <<snap, store>>
       \/ /\ t \in Timers /\ (t # generation \/ timer = 0)
          /\ Return(t)
          /\ UNCHANGED timer
    /\ UNCHANGED <<version, dirty, generation, writer, file, faults>>

Snapshot(t) ==
    /\ pc[t] = "snapshotting"
    /\ store = Nobody
    /\ snap' = [snap EXCEPT ![t] = version]
    /\ Goto(t, "checking")
    /\ UNCHANGED <<version, dirty, store, generation, timer, writer, file,
                   pending, faults>>

-----------------------------------------------------------------------------
(* _write_pending.                                                         *)

\* Mutant: the generations are not compared.
StartAnyWrite(t) ==
    /\ pc[t] = "checking"
    /\ writer = Nobody
    /\ writer' = t
    /\ Goto(t, "replacing")
    /\ UNCHANGED <<version, dirty, store, generation, timer, file, pending, snap,
                   faults>>

\* _write_if_current, up to the comparison.
StartWrite(t) ==
    /\ pc[t] = "checking"
    /\ writer = Nobody
    /\ IF pending[t] = generation
       THEN writer' = t /\ Goto(t, "replacing") /\ UNCHANGED <<store, pending, snap>>
       ELSE Return(t) /\ UNCHANGED writer
    /\ UNCHANGED <<version, dirty, generation, timer, file, faults>>

\* os.replace: the file changes in one step.
Replace(t) ==
    /\ pc[t] = "replacing"
    /\ file' = snap[t]
    /\ writer' = Nobody
    /\ Goto(t, "marking")
    /\ UNCHANGED <<version, dirty, store, generation, timer, pending, snap, faults>>

\* The file cannot be written: it keeps its contents.
WriteFails(t) ==
    /\ pc[t] = "replacing"
    /\ faults < MaxFaults
    /\ faults' = faults + 1
    /\ writer' = Nobody
    /\ Goto(t, "failed")
    /\ UNCHANGED <<version, dirty, store, generation, timer, file, pending, snap>>

ReportFailure(t) ==
    /\ pc[t] = "failed"
    /\ MayLockStore(t)
    /\ dirty' = TRUE
    /\ Return(t)
    /\ UNCHANGED <<version, generation, timer, writer, file, faults>>

\* _mark_clean_if_current decides under _timer_lock, but acts after it.
Mark(t) ==
    /\ pc[t] = "marking"
    /\ IF timer = 0 /\ pending[t] = generation
       THEN Goto(t, "cleaning") /\ UNCHANGED <<store, pending, snap>>
       ELSE Return(t)
    /\ UNCHANGED <<version, dirty, generation, timer, writer, file, faults>>

MarkClean(t) ==
    /\ pc[t] = "cleaning"
    /\ MayLockStore(t)
    /\ dirty' = FALSE
    /\ Return(t)
    /\ UNCHANGED <<version, generation, timer, writer, file, faults>>

\* The process dies and starts again: _load reads the file.
Crash ==
    /\ faults < MaxFaults
    /\ faults' = faults + 1
    /\ version' = file
    /\ dirty' = FALSE
    /\ store' = Nobody
    /\ generation' = 0
    /\ timer' = 0
    /\ writer' = Nobody
    /\ pc' = [t \in Threads |-> "idle"]
    /\ pending' = [t \in Threads |-> 0]
    /\ snap' = [t \in Threads |-> 0]
    /\ UNCHANGED file

-----------------------------------------------------------------------------

Call(c) == Save(c) \/ Clear(c) \/ Flush(c)

Continue(t) == \/ Schedule(t) \/ Invalidate(t) \/ Claim(t) \/ Snapshot(t)
               \/ StartWrite(t) \/ Replace(t) \/ WriteFails(t)
               \/ ReportFailure(t) \/ Mark(t) \/ MarkClean(t)

Next == \/ \E c \in Callers : Call(c)
        \/ \E g \in Timers : Fire(g)
        \/ \E t \in Threads : Continue(t)
        \/ Crash

Spec == Init /\ [][Next]_vars

\* A timer that nobody cancels fires, and threads run.  Nobody is obliged to
\* call, and a call may wait for the locks as long as others keep calling.
Fairness == /\ \A g \in Timers : WF_vars(Fire(g))
            /\ \A t \in Threads : WF_vars(Continue(t))

FairSpec == Spec /\ Fairness

-----------------------------------------------------------------------------
(* Properties.                                                             *)

TypeOK ==
    /\ version \in 0 .. MaxVersion
    /\ dirty \in BOOLEAN
    /\ store \in Callers \cup {Nobody}
    /\ generation \in 0 .. version
    /\ timer \in {0, generation}
    /\ writer \in Threads \cup {Nobody}
    /\ file \in 0 .. version
    /\ pc \in [Threads -> Places]
    /\ pending \in [Threads -> 0 .. generation]
    /\ snap \in [Threads -> 0 .. version]
    /\ faults \in 0 .. MaxFaults

\* "A claimed old snapshot cannot land after a newer flushed snapshot": of all
\* timers, flushes and clears that race, none puts older contents over newer
\* ones, and no crash does.
FileNeverOlder == [][file' >= file]_vars

Returns(c) == pc[c] \in {"checking", "marking", "cleaning"} /\ pc'[c] = "idle"

\* clear_scope is authoritative: whatever was pending or being written when it
\* was called, it returns without an exception only with its state on disk.
ClearReturnsSaved ==
    [][\A c \in Callers : store = c /\ Returns(c) => file' = version']_vars

AllSaved == file = version \/ faults > 0

\* Every mutation reaches the disk in the end, however timers are replaced and
\* writes superseded, unless a write fails or the process dies.
EventuallySaved == <>[]AllSaved
=============================================================================
