-------------------------- MODULE MessagingProofs --------------------------
(***************************************************************************)
(* What the services around the conversation trees promise, for every      *)
(* value of their constants: the session store, the CLI sessions, the      *)
(* delivery queue and the message intake of MCMessaging.  Each part proves *)
(* that its inductive invariant holds, one step per action of the          *)
(* component, and then that the property checked by the run follows from   *)
(* it.                                                                     *)
(***************************************************************************)
EXTENDS MCMessaging, Sequences, TLAPS

(***************************************************************************)
(* Session persistence: the file never goes back, and clear_scope returns  *)
(* with its state on disk, for any set of calling threads, any number of   *)
(* mutations and any number of failed writes and crashes.                  *)
(*                                                                         *)
(* The argument: a generation stands for one state of memory, the last one *)
(* whose save was scheduled.  A snapshot that carries the current          *)
(* generation therefore is that state; every other one is older and is     *)
(* rejected when generations are compared.  What was already being         *)
(* written then still is at least as new as the file, since nobody else    *)
(* writes in between.                                                      *)
(***************************************************************************)

Changing == {"scheduling", "invalidating"}

\* The last mutation whose save is scheduled or under way.
Scheduled == IF store # Nobody /\ pc[store] \in Changing THEN version - 1 ELSE version

\* The store's lock is held by mutations, and by clear_scope as it writes.
StoreInv ==
    /\ \A t \in Threads : pc[t] \in Changing => store = t /\ version > 0
    /\ store # Nobody => pc[store] \notin {"idle", "claiming", "snapshotting"}

WriterInv == \A t \in Threads : pc[t] = "replacing" <=> writer = t

\* Snapshots and the file are never ahead of what is scheduled.
ScheduledInv ==
    /\ file <= Scheduled
    /\ generation <= Scheduled
    /\ \A t \in Threads : pc[t] \notin Changing => snap[t] <= Scheduled

CurrentInv ==
    \A t \in Threads :
        /\ pc[t] = "checking" /\ pending[t] = generation => snap[t] = Scheduled
        /\ pc[t] = "replacing" => file <= snap[t]

\* clear_scope writes the state it has made, and its generation stays current.
ClearInv ==
    \A c \in Callers : store = c =>
        /\ pc[c] = "invalidating" => snap[c] = version
        /\ pc[c] \in {"checking", "replacing"} =>
              pending[c] = generation /\ snap[c] = version
        /\ pc[c] \in {"marking", "cleaning"} => file = version

IInv == TypeOK /\ StoreInv /\ WriterInv /\ ScheduledInv /\ CurrentInv /\ ClearInv

-----------------------------------------------------------------------------

LEMMA CallersAreThreads == Callers \subseteq Threads
BY DEF Threads

LEMMA InitIInv == PersistenceAssumption /\ Init => IInv
<1> SUFFICES ASSUME PersistenceAssumption, Init PROVE IInv
  OBVIOUS
<1>1. /\ \A t \in Threads : pc[t] = "idle" /\ pending[t] = 0 /\ snap[t] = 0
      /\ pc \in [Threads -> Places]
      /\ pending \in [Threads -> 0 .. generation]
      /\ snap \in [Threads -> 0 .. version]
  BY DEF Init, Places
<1>2. TypeOK
  <2>1. 0 \in 0 .. MaxVersion /\ 0 \in 0 .. MaxFaults
    BY DEF PersistenceAssumption
  <2>2. dirty \in BOOLEAN
    BY DEF Init
  <2>3. /\ version \in 0 .. MaxVersion
        /\ store = Nobody /\ writer = Nobody
        /\ generation \in 0 .. version /\ timer \in {0, generation}
        /\ file \in 0 .. version /\ faults \in 0 .. MaxFaults
    BY <2>1 DEF Init
  <2> QED
    BY <1>1, <2>2, <2>3 DEF TypeOK
<1>3. StoreInv /\ WriterInv
  BY <1>1 DEF Init, PersistenceAssumption, StoreInv, WriterInv, Changing
<1>4. ScheduledInv /\ CurrentInv /\ ClearInv
  BY <1>1, CallersAreThreads
  DEF Init, PersistenceAssumption, ScheduledInv, CurrentInv, ClearInv, Scheduled, Changing
<1> QED
  BY <1>2, <1>3, <1>4 DEF IInv

\* A crash leaves the file, and a process that has done nothing yet.
LEMMA CrashIInv == PersistenceAssumption /\ IInv /\ Crash => IInv'
<1> SUFFICES ASSUME PersistenceAssumption, IInv, Crash PROVE IInv'
  OBVIOUS
<1>1. /\ \A t \in Threads : pc'[t] = "idle" /\ pending'[t] = 0 /\ snap'[t] = 0
      /\ pc' \in [Threads -> Places]
      /\ pending' \in [Threads -> 0 .. generation']
      /\ snap' \in [Threads -> 0 .. version']
  BY DEF Crash, Places, IInv, TypeOK
<1>2. TypeOK'
  <2>1. faults' \in 0 .. MaxFaults /\ file \in 0 .. MaxVersion
    BY DEF Crash, PersistenceAssumption, IInv, TypeOK
  <2>2. dirty' \in BOOLEAN
    BY DEF Crash
  <2>3. /\ version' \in 0 .. MaxVersion
        /\ store' = Nobody /\ writer' = Nobody
        /\ generation' \in 0 .. version' /\ timer' \in {0, generation'}
        /\ file' \in 0 .. version'
    BY <2>1 DEF Crash, IInv, TypeOK
  <2> QED
    BY <1>1, <2>1, <2>2, <2>3 DEF TypeOK
<1>3. StoreInv' /\ WriterInv'
  BY <1>1 DEF Crash, PersistenceAssumption, StoreInv, WriterInv, Changing
<1>4. ScheduledInv' /\ CurrentInv' /\ ClearInv'
  BY <1>1, CallersAreThreads DEF Crash, PersistenceAssumption, IInv, TypeOK,
     ScheduledInv, CurrentInv, ClearInv, Scheduled, Changing
<1> QED
  BY <1>2, <1>3, <1>4 DEF IInv

LEMMA NextIInv == PersistenceAssumption /\ IInv /\ [Next]_vars => IInv'
<1> SUFFICES ASSUME PersistenceAssumption, IInv, [Next]_vars PROVE IInv'
  OBVIOUS
<1> USE CallersAreThreads
    DEF PersistenceAssumption, IInv, TypeOK, StoreInv, WriterInv, ScheduledInv,
        CurrentInv, ClearInv, Scheduled, Changing, Places, Goto
<1>1. ASSUME NEW c \in Callers, Save(c) PROVE IInv'
  BY <1>1 DEF Save, Mutate
<1>2. ASSUME NEW c \in Callers, Clear(c) PROVE IInv'
  BY <1>2 DEF Clear, Mutate
<1>3. ASSUME NEW c \in Callers, Flush(c) PROVE IInv'
  BY <1>3 DEF Flush
<1>4. ASSUME NEW g \in Timers, Fire(g) PROVE IInv'
  <2>1. g \in Threads
    BY DEF Threads
  <2> QED
    BY <1>4, <2>1 DEF Fire
<1>5. ASSUME NEW t \in Threads, Schedule(t) PROVE IInv'
  BY <1>5 DEF Schedule
<1>6. ASSUME NEW t \in Threads, Invalidate(t) PROVE IInv'
  BY <1>6 DEF Invalidate
<1>7. ASSUME NEW t \in Threads, Claim(t) PROVE IInv'
  BY <1>7 DEF Claim, Return
<1>8. ASSUME NEW t \in Threads, Snapshot(t) PROVE IInv'
  BY <1>8 DEF Snapshot
<1>9. ASSUME NEW t \in Threads, StartWrite(t) PROVE IInv'
  BY <1>9 DEF StartWrite, Return
<1>10. ASSUME NEW t \in Threads, Replace(t) PROVE IInv'
  BY <1>10 DEF Replace
<1>11. ASSUME NEW t \in Threads, WriteFails(t) PROVE IInv'
  BY <1>11 DEF WriteFails
<1>12. ASSUME NEW t \in Threads, ReportFailure(t) PROVE IInv'
  BY <1>12 DEF ReportFailure, MayLockStore, Return
<1>13. ASSUME NEW t \in Threads, Mark(t) PROVE IInv'
  BY <1>13 DEF Mark, Return
<1>14. ASSUME NEW t \in Threads, MarkClean(t) PROVE IInv'
  <2>1. /\ pc' = [pc EXCEPT ![t] = "idle"]
        /\ pending' = [pending EXCEPT ![t] = 0]
        /\ snap' = [snap EXCEPT ![t] = 0]
        /\ store' = IF store = t THEN Nobody ELSE store
        /\ pc[t] = "cleaning"
        /\ dirty' \in BOOLEAN
        /\ UNCHANGED <<version, generation, timer, writer, file, faults>>
    BY <1>14 DEF MarkClean, Return
  <2> QED
    BY <2>1
<1>15. CASE Crash
  BY <1>15, CrashIInv
<1>16. CASE UNCHANGED vars
  BY <1>16 DEF vars
<1> QED
  BY <1>1, <1>2, <1>3, <1>4, <1>5, <1>6, <1>7, <1>8, <1>9, <1>10, <1>11, <1>12,
     <1>13, <1>14, <1>15, <1>16 DEF Next, Call, Continue

THEOREM Invariance == Spec => []IInv
<1>1. Init => IInv
  BY InitIInv, PersistenceAssumption
<1>2. IInv /\ [Next]_vars => IInv'
  BY NextIInv, PersistenceAssumption
<1> QED
  BY <1>1, <1>2, PTL DEF Spec

\* The store's counters, locks and threads have their types in every run.
THEOREM TypesAreCorrect == Spec => []TypeOK
<1>1. IInv => TypeOK
  BY DEF IInv
<1> QED
  BY <1>1, Invariance, PTL

\* No race of timers, flushes, clears, failures and crashes puts older
\* contents over newer ones.
THEOREM FileOnlyAdvances == Spec => FileNeverOlder
<1>1. ASSUME IInv, [Next]_vars PROVE file' >= file
  <2>1. ASSUME NEW t \in Threads, Replace(t) PROVE file' >= file
    BY <1>1, <2>1 DEF Replace, IInv, CurrentInv
  <2>2. CASE UNCHANGED file
    BY <1>1, <2>2 DEF IInv, TypeOK
  <2>3. UNCHANGED file \/ \E t \in Threads : Replace(t)
    BY <1>1 DEF Next, vars, Call, Continue, Save, Clear, Mutate, Flush, Fire,
       Schedule, Invalidate, Claim, Snapshot, StartWrite, WriteFails,
       ReportFailure, Mark, MarkClean, Crash
  <2> QED
    BY <2>1, <2>2, <2>3
<1>2. IInv /\ [Next]_vars => [file' >= file]_vars
  BY <1>1
<1> QED
  BY <1>2, Invariance, PTL DEF Spec, FileNeverOlder

\* clear_scope that returns without an exception has made its state durable.
THEOREM ClearIsDurable == Spec => ClearReturnsSaved
<1> DEFINE Saved == \A c \in Callers : store = c /\ Returns(c) => file' = version'
<1>1. ASSUME IInv, [Next]_vars PROVE Saved
  <2> SUFFICES ASSUME NEW c \in Callers, store = c, Returns(c)
               PROVE  file' = version'
    OBVIOUS
  <2>1. c \in Threads /\ c # Nobody
    BY CallersAreThreads, PersistenceAssumption DEF PersistenceAssumption
  <2>2. CASE Crash
    BY <2>2 DEF Crash
  <2>3. CASE ~Crash
    <3>1. Mark(c) \/ MarkClean(c) \/ (StartWrite(c) /\ pending[c] # generation)
      BY <1>1, <2>1, <2>3 DEF Next, vars, Call, Continue, Save, Clear, Mutate,
         Flush, Fire, Schedule, Invalidate, Claim, Snapshot, StartWrite,
         Replace, WriteFails, ReportFailure, Mark, MarkClean, Return, Goto,
         Returns, IInv, TypeOK
    <3> QED
      BY <1>1, <2>1, <3>1 DEF Mark, MarkClean, StartWrite, IInv, ClearInv
  <2> QED
    BY <2>2, <2>3
<1>2. IInv /\ [Next]_vars => [Saved]_vars
  BY <1>1
<1>3. Spec => [][Saved]_vars
  BY <1>2, Invariance, PTL DEF Spec
<1> QED
  BY <1>3 DEF ClearReturnsSaved

(***************************************************************************)
(* Managed CLI sessions                                                    *)
(***************************************************************************)

LEMMA SessionsConstants ==
    /\ None \notin Runners \cup Ids
    /\ None # StopAll /\ StopAll \notin Runners
    /\ MaxStops \in Nat /\ MaxCancels \in Nat
BY ServicesAssumption DEF Sessions!ConstantsOK, Sessions!Keys, Sessions!Actors


LEMMA SessionsInit == Sessions!Init => Sessions!IInv
<1> SUFFICES ASSUME Sessions!Init PROVE Sessions!IInv
    OBVIOUS
<1> USE DEF Sessions!Init, Sessions!Sessions, Sessions!Actors, Sessions!Keys
<1>1. Sessions!MapsOK /\ Sessions!SessionsOK
    BY DEF Sessions!MapsOK, Sessions!SessionsOK
<1>2. Sessions!PlacesOK /\ Sessions!CountsOK
    BY SessionsConstants DEF Sessions!PlacesOK, Sessions!CountsOK
<1>3. Sessions!StopCloses /\ Sessions!ForgottenIsClosed /\ Sessions!HasSession
    BY DEF Sessions!StopCloses, Sessions!ForgottenIsClosed, Sessions!HasSession
<1>4. Sessions!EveryProcessIsOwned
    BY DEF Sessions!EveryProcessIsOwned
<1> QED
    BY <1>1, <1>2, <1>3, <1>4 DEF Sessions!IInv, Sessions!TypeOK

LEMMA SessionsForIsSet == ASSUME NEW k PROVE Sessions!SessionsFor(k) \subseteq Runners
BY DEF Sessions!SessionsFor, Sessions!Sessions

LEMMA SessionsForIsListed ==
    ASSUME NEW k, k # None
    PROVE  /\ Sessions!SessionsFor(k) \subseteq Runners
           /\ \A s \in Sessions!SessionsFor(k) : Sessions!Listed(s)
<1> DEFINE ids == {sesReal[s] : s \in {x \in Runners : sesReal[x] # None /\ sesTemp[x] = k}}
           key == IF ids # {} THEN CHOOSE i \in ids : TRUE ELSE k
<1>1. None \notin ids
    OBVIOUS
<1>2. key # None
    BY <1>1
<1>3. Sessions!SessionsFor(k) \in SUBSET {s \in Runners : sesReal[s] = key \/ sesPending[s] = key \/ sesPending[s] = k}
    BY DEF Sessions!SessionsFor, Sessions!Sessions
<1> QED
    BY <1>2, <1>3 DEF Sessions!Listed

\* A turn is given a new session, which is listed from then on, or one that is
\* listed already, or none.
LEMMA GetOrCreateCases ==
    ASSUME NEW r \in Runners, Sessions!GetOrCreate(r)
    PROVE  \/ \E key \in Runners \cup Ids :
                sesPending' = [sesPending EXCEPT ![r] = key] /\ Sessions!Take(r, r, key)
           \/ \E s \in Runners, key \in Runners \cup Ids :
                Sessions!Listed(s) /\ Sessions!Take(r, s, key) /\ UNCHANGED sesPending
           \/ Sessions!Leave(r) /\ UNCHANGED sesPending
<1> DEFINE Found(p) == IF p = None THEN {} ELSE Sessions!SessionsFor(p)
           Key(p) == IF p = None THEN r ELSE p
<1>1. PICK p \in Ids \cup {None} :
        \/ sesPending' = [sesPending EXCEPT ![r] = Key(p)] /\ Sessions!Take(r, r, Key(p))
        \/ (\E s \in Found(p) : Sessions!Take(r, s, Key(p))) /\ UNCHANGED sesPending
        \/ Sessions!Leave(r) /\ UNCHANGED sesPending
    BY DEF Sessions!GetOrCreate
<1>2. Key(p) \in Runners \cup Ids
    OBVIOUS
<1>3. Found(p) \subseteq Runners /\ \A s \in Found(p) : Sessions!Listed(s)
    BY SessionsForIsListed
<1> HIDE DEF Found, Key
<1> QED
    BY <1>1, <1>2, <1>3

\* The types hold. A runner with a task to run, or a process to stop, has a session.
LEMMA SessionsTypes ==
    Sessions!TypeOK /\ Sessions!HasSession /\ [Sessions!Next]_Sessions!vars => Sessions!TypeOK'
<1> SUFFICES ASSUME Sessions!TypeOK, Sessions!HasSession, [Sessions!Next]_Sessions!vars
             PROVE  Sessions!TypeOK'
    OBVIOUS
<1> USE DEF Sessions!Sessions, Sessions!Actors, Sessions!Keys, Sessions!maps, Sessions!session,
    Sessions!runner, Sessions!counts, Sessions!Go
<1>a. Sessions!MapsOK
    BY DEF Sessions!TypeOK
<1>b. Sessions!SessionsOK
    BY DEF Sessions!TypeOK
<1>c. Sessions!PlacesOK
    BY DEF Sessions!TypeOK
<1>d. Sessions!CountsOK
    BY DEF Sessions!TypeOK
<1>1. ASSUME NEW r \in Runners, Sessions!Start(r) PROVE Sessions!TypeOK'
  <2>1. Sessions!MapsOK'
      BY <1>1, <1>a DEF Sessions!MapsOK, Sessions!Start
  <2>2. Sessions!SessionsOK'
      BY <1>1, <1>b DEF Sessions!SessionsOK, Sessions!Start
  <2>3. Sessions!PlacesOK'
      BY <1>1, <1>c DEF Sessions!PlacesOK, Sessions!Start
  <2>4. Sessions!CountsOK'
      BY <1>1, <1>d DEF Sessions!CountsOK, Sessions!Start
  <2> QED
      BY <2>1, <2>2, <2>3, <2>4 DEF Sessions!TypeOK
<1>2. ASSUME NEW r \in Runners, Sessions!GetOrCreate(r) PROVE Sessions!TypeOK'
  <2>1. Sessions!MapsOK'
      BY <1>2, <1>a DEF Sessions!MapsOK, Sessions!GetOrCreate, Sessions!Take, Sessions!Leave
  <2>2. Sessions!SessionsOK'
      BY <1>2, <1>b DEF Sessions!SessionsOK, Sessions!GetOrCreate, Sessions!Take, Sessions!Leave
  <2>3. Sessions!PlacesOK'
    <3>1. CASE Sessions!Leave(r)
        BY <3>1, <1>c DEF Sessions!PlacesOK, Sessions!Leave
    <3>2. ASSUME NEW s \in Runners, NEW key \in Runners \cup Ids, Sessions!Take(r, s, key)
          PROVE  Sessions!PlacesOK'
        BY <3>2, <1>c DEF Sessions!PlacesOK, Sessions!Take
    <3> QED
        BY <3>1, <3>2, <1>2, GetOrCreateCases
  <2>4. Sessions!CountsOK'
      BY <1>2, <1>d DEF Sessions!CountsOK, Sessions!GetOrCreate, Sessions!Take, Sessions!Leave
  <2> QED
      BY <2>1, <2>2, <2>3, <2>4 DEF Sessions!TypeOK
<1>3. ASSUME NEW r \in Runners, Sessions!Launch(r) PROVE Sessions!TypeOK'
  <2>1. Sessions!MapsOK'
      BY <1>3, <1>a DEF Sessions!MapsOK, Sessions!Launch, Sessions!RefusesLaunch
  <2>2. Sessions!SessionsOK'
      BY <1>3, <1>b DEF Sessions!SessionsOK, Sessions!Launch, Sessions!RefusesLaunch
  <2>3. Sessions!PlacesOK'
      BY <1>3, <1>c DEF Sessions!PlacesOK, Sessions!Launch, Sessions!RefusesLaunch
  <2>4. Sessions!CountsOK'
      BY <1>3, <1>d DEF Sessions!CountsOK, Sessions!Launch, Sessions!RefusesLaunch
  <2> QED
      BY <2>1, <2>2, <2>3, <2>4 DEF Sessions!TypeOK
<1>4. ASSUME NEW r \in Runners, Sessions!Register(r) PROVE Sessions!TypeOK'
  <2>1. Sessions!MapsOK'
      BY <1>4, <1>a, <1>c DEF Sessions!MapsOK, Sessions!PlacesOK, Sessions!Register
  <2>2. Sessions!SessionsOK'
      BY <1>4, <1>b DEF Sessions!SessionsOK, Sessions!Register
  <2>3. Sessions!PlacesOK'
      BY <1>4, <1>c DEF Sessions!PlacesOK, Sessions!Register
  <2>4. Sessions!CountsOK'
      BY <1>4, <1>d DEF Sessions!CountsOK, Sessions!Register
  <2> QED
      BY <2>1, <2>2, <2>3, <2>4 DEF Sessions!TypeOK
<1>5. ASSUME NEW s \in Runners, Sessions!Exit(s) PROVE Sessions!TypeOK'
  <2>1. Sessions!MapsOK'
      BY <1>5, <1>a DEF Sessions!MapsOK, Sessions!Exit
  <2>2. Sessions!SessionsOK'
      BY <1>5, <1>b DEF Sessions!SessionsOK, Sessions!Exit
  <2>3. Sessions!PlacesOK'
      BY <1>5, <1>c DEF Sessions!PlacesOK, Sessions!Exit
  <2>4. Sessions!CountsOK'
      BY <1>5, <1>d DEF Sessions!CountsOK, Sessions!Exit
  <2> QED
      BY <2>1, <2>2, <2>3, <2>4 DEF Sessions!TypeOK
<1>6. ASSUME NEW s \in Runners, Sessions!GeneratorEnds(s) PROVE Sessions!TypeOK'
  <2>1. Sessions!MapsOK'
      BY <1>6, <1>a DEF Sessions!MapsOK, Sessions!GeneratorEnds
  <2>2. Sessions!SessionsOK'
      BY <1>6, <1>b DEF Sessions!SessionsOK, Sessions!GeneratorEnds
  <2>3. Sessions!PlacesOK'
      BY <1>6, <1>c, <1>b DEF Sessions!PlacesOK, Sessions!SessionsOK, Sessions!GeneratorEnds
  <2>4. Sessions!CountsOK'
      BY <1>6, <1>d DEF Sessions!CountsOK, Sessions!GeneratorEnds
  <2> QED
      BY <2>1, <2>2, <2>3, <2>4 DEF Sessions!TypeOK
<1>7. ASSUME NEW r \in Runners, Sessions!Cancel(r) PROVE Sessions!TypeOK'
  <2>1. Sessions!MapsOK'
      BY <1>7, <1>a DEF Sessions!MapsOK, Sessions!Cancel, Sessions!Leave
  <2>2. Sessions!SessionsOK'
      BY <1>7, <1>b DEF Sessions!SessionsOK, Sessions!Cancel, Sessions!Leave
  <2>3. Sessions!PlacesOK'
      BY <1>7, <1>c DEF Sessions!PlacesOK, Sessions!Cancel, Sessions!Leave
  <2>4. Sessions!CountsOK'
    <3>1. /\ sesCancels[r] < MaxCancels
          /\ sesCancels' = [sesCancels EXCEPT ![r] = @ + 1]
          /\ UNCHANGED <<sesTodo, sesStops>>
        BY <1>7 DEF Sessions!Cancel
    <3> QED
        BY <3>1, <1>d, SessionsConstants DEF Sessions!CountsOK
  <2> QED
      BY <2>1, <2>2, <2>3, <2>4 DEF Sessions!TypeOK
<1>8. ASSUME NEW r \in Runners, Sessions!OwnStop(r) PROVE Sessions!TypeOK'
  <2>1. Sessions!MapsOK'
      BY <1>8, <1>a DEF Sessions!MapsOK, Sessions!OwnStop, Sessions!BeginStop, Sessions!Stopped,
          Sessions!StopFails, Sessions!StopHolds
  <2>2. Sessions!SessionsOK'
      BY <1>8, <1>b DEF Sessions!SessionsOK, Sessions!OwnStop, Sessions!BeginStop,
          Sessions!Stopped, Sessions!StopFails, Sessions!StopHolds
  <2>3. Sessions!PlacesOK'
      BY <1>8, <1>c DEF Sessions!PlacesOK, Sessions!OwnStop, Sessions!BeginStop,
          Sessions!Stopped, Sessions!StopFails, Sessions!StopHolds
  <2>4. Sessions!CountsOK'
      BY <1>8, <1>d DEF Sessions!CountsOK, Sessions!OwnStop, Sessions!BeginStop,
          Sessions!Stopped, Sessions!StopFails, Sessions!StopHolds
  <2> QED
      BY <2>1, <2>2, <2>3, <2>4 DEF Sessions!TypeOK
<1>9. ASSUME NEW r \in Runners, Sessions!BeginRemove(r) PROVE Sessions!TypeOK'
  <2>1. Sessions!MapsOK'
      BY <1>9, <1>a, SessionsForIsSet DEF Sessions!MapsOK, Sessions!BeginRemove, Sessions!Leave
  <2>2. Sessions!SessionsOK'
      BY <1>9, <1>b DEF Sessions!SessionsOK, Sessions!BeginRemove, Sessions!Leave
  <2>3. Sessions!PlacesOK'
      BY <1>9, <1>c DEF Sessions!PlacesOK, Sessions!BeginRemove, Sessions!Leave
  <2>4. Sessions!CountsOK'
      BY <1>9, <1>d DEF Sessions!CountsOK, Sessions!BeginRemove, Sessions!Leave
  <2> QED
      BY <2>1, <2>2, <2>3, <2>4 DEF Sessions!TypeOK
<1>10. ASSUME NEW r \in Runners, Sessions!Remove(r) PROVE Sessions!TypeOK'
  <2>1. PICK s \in Sessions!SessionsFor(sesHandle[r]) :
            \/ /\ Sessions!BeginStop(r, s)
               /\ UNCHANGED <<sesPending, sesReal, sesTemp, sesClosing, sesManager, sesPlace, sesUsing, sesHandle>>
            \/ /\ \/ Sessions!Stopped(r, s) /\ Sessions!Forget(s)
                  \/ Sessions!StopFails(r, s) /\ UNCHANGED <<sesPending, sesReal, sesTemp, sesClosing>>
               /\ sesManager' = None
               /\ Sessions!Leave(r)
               /\ UNCHANGED sesClosed
      BY <1>10 DEF Sessions!Remove
  <2>2. UNCHANGED <<sesProcess, sesCli, sesTodo, sesStops, sesCancels>>
      BY <1>10 DEF Sessions!Remove
  <2>3. Sessions!MapsOK'
      BY <2>1, <1>a DEF Sessions!MapsOK, Sessions!Forget
  <2>4. Sessions!SessionsOK'
      BY <2>1, <2>2, <1>b DEF Sessions!SessionsOK, Sessions!BeginStop, Sessions!Stopped,
          Sessions!StopFails, Sessions!StopHolds
  <2>5. Sessions!PlacesOK'
      BY <2>1, <1>c DEF Sessions!PlacesOK, Sessions!Leave
  <2>6. Sessions!CountsOK'
      BY <2>2, <1>d DEF Sessions!CountsOK
  <2> QED
      BY <2>3, <2>4, <2>5, <2>6 DEF Sessions!TypeOK
<1>11. ASSUME Sessions!BeginStopAll PROVE Sessions!TypeOK'
  <2>1. Sessions!MapsOK'
      BY <1>11, <1>a DEF Sessions!MapsOK, Sessions!BeginStopAll, Sessions!Listed
  <2>2. Sessions!SessionsOK'
      BY <1>11, <1>b DEF Sessions!SessionsOK, Sessions!BeginStopAll, Sessions!Listed
  <2>3. Sessions!PlacesOK'
      BY <1>11, <1>c DEF Sessions!PlacesOK, Sessions!BeginStopAll, Sessions!Listed
  <2>4. Sessions!CountsOK'
      BY <1>11, <1>d, <1>a, SessionsConstants DEF Sessions!CountsOK, Sessions!MapsOK,
          Sessions!BeginStopAll, Sessions!Listed
  <2> QED
      BY <2>1, <2>2, <2>3, <2>4 DEF Sessions!TypeOK
<1>12. ASSUME Sessions!StopNext PROVE Sessions!TypeOK'
  <2>1. Sessions!MapsOK'
      BY <1>12, <1>a DEF Sessions!MapsOK, Sessions!StopNext, Sessions!BeginStop,
          Sessions!Stopped, Sessions!StopFails, Sessions!StopHolds, Sessions!Forget
  <2>2. Sessions!SessionsOK'
      BY <1>12, <1>b DEF Sessions!SessionsOK, Sessions!StopNext, Sessions!BeginStop,
          Sessions!Stopped, Sessions!StopFails, Sessions!StopHolds, Sessions!Forget
  <2>3. Sessions!PlacesOK'
      BY <1>12, <1>c DEF Sessions!PlacesOK, Sessions!StopNext, Sessions!BeginStop,
          Sessions!Stopped, Sessions!StopFails, Sessions!StopHolds, Sessions!Forget
  <2>4. Sessions!CountsOK'
      BY <1>12, <1>d DEF Sessions!CountsOK, Sessions!StopNext, Sessions!BeginStop,
          Sessions!Stopped, Sessions!StopFails, Sessions!StopHolds, Sessions!Forget
  <2> QED
      BY <2>1, <2>2, <2>3, <2>4 DEF Sessions!TypeOK
<1>13. ASSUME Sessions!EndStopAll PROVE Sessions!TypeOK'
  <2>1. Sessions!MapsOK'
      BY <1>13, <1>a DEF Sessions!MapsOK, Sessions!EndStopAll
  <2>2. Sessions!SessionsOK'
      BY <1>13, <1>b DEF Sessions!SessionsOK, Sessions!EndStopAll
  <2>3. Sessions!PlacesOK'
      BY <1>13, <1>c DEF Sessions!PlacesOK, Sessions!EndStopAll
  <2>4. Sessions!CountsOK'
      BY <1>13, <1>d DEF Sessions!CountsOK, Sessions!EndStopAll
  <2> QED
      BY <2>1, <2>2, <2>3, <2>4 DEF Sessions!TypeOK
<1>14. CASE UNCHANGED Sessions!vars
    BY <1>14, <1>a, <1>b, <1>c, <1>d DEF Sessions!vars, Sessions!TypeOK, Sessions!MapsOK,
        Sessions!SessionsOK, Sessions!PlacesOK, Sessions!CountsOK
<1> QED
    BY <1>1, <1>2, <1>3, <1>4, <1>5, <1>6, <1>7, <1>8, <1>9, <1>10, <1>11, <1>12, <1>13, <1>14
        DEF Sessions!Next, Sessions!RunnerStep

\* Who still holds a session that was forgotten finds it closed, so that every
\* process has an owner.
LEMMA SessionsStep == Sessions!IInv /\ [Sessions!Next]_Sessions!vars => Sessions!IInv'
<1> SUFFICES ASSUME Sessions!IInv, [Sessions!Next]_Sessions!vars PROVE Sessions!IInv'
    OBVIOUS
<1> USE DEF Sessions!Sessions, Sessions!Actors, Sessions!Keys, Sessions!maps, Sessions!session,
    Sessions!runner, Sessions!counts, Sessions!Go
<1>a. Sessions!MapsOK
    BY DEF Sessions!IInv, Sessions!TypeOK
<1>b. Sessions!SessionsOK
    BY DEF Sessions!IInv, Sessions!TypeOK
<1>c. Sessions!PlacesOK
    BY DEF Sessions!IInv, Sessions!TypeOK
<1>x. Sessions!CountsOK
    BY DEF Sessions!IInv, Sessions!TypeOK
<1>d. Sessions!StopCloses
    BY DEF Sessions!IInv
<1>e. Sessions!ForgottenIsClosed
    BY DEF Sessions!IInv
<1>f. Sessions!HasSession
    BY DEF Sessions!IInv
<1>g. Sessions!EveryProcessIsOwned
    BY DEF Sessions!IInv
<1>h. Sessions!TypeOK'
    BY SessionsTypes DEF Sessions!IInv
<1> DEFINE Safe == /\ Sessions!StopCloses /\ Sessions!ForgottenIsClosed
                   /\ Sessions!HasSession /\ Sessions!EveryProcessIsOwned
<1>1. ASSUME NEW r \in Runners, Sessions!Start(r) PROVE Safe'
  <2>1. Sessions!StopCloses'
      BY <1>1, <1>b, <1>d DEF Sessions!SessionsOK, Sessions!StopCloses, Sessions!Start
  <2>2. Sessions!ForgottenIsClosed'
      BY <1>1, <1>a, <1>b, <1>c, <1>d, <1>e DEF Sessions!MapsOK, Sessions!SessionsOK,
          Sessions!PlacesOK, Sessions!StopCloses, Sessions!ForgottenIsClosed, Sessions!Listed,
          Sessions!Start
  <2>3. Sessions!HasSession'
      BY <1>1, <1>c, <1>f DEF Sessions!PlacesOK, Sessions!HasSession, Sessions!Start
  <2>4. Sessions!EveryProcessIsOwned'
      BY <1>1, <1>a, <1>b, <1>g DEF Sessions!MapsOK, Sessions!SessionsOK,
          Sessions!EveryProcessIsOwned, Sessions!Listed, Sessions!Start
  <2> QED
      BY <2>1, <2>2, <2>3, <2>4
<1>2. ASSUME NEW r \in Runners, Sessions!GetOrCreate(r) PROVE Safe'
  <2>1. UNCHANGED <<sesReal, sesTemp, sesClosing, sesClosed, sesProcess, sesCli, sesLifecycle>>
      BY <1>2 DEF Sessions!GetOrCreate
  <2>2. CASE Sessions!Leave(r) /\ UNCHANGED sesPending
    <3>1. Sessions!HasSession' /\ Sessions!ForgottenIsClosed'
        BY <2>1, <2>2, <1>c, <1>e, <1>f DEF Sessions!PlacesOK, Sessions!HasSession,
            Sessions!ForgottenIsClosed, Sessions!Leave, Sessions!Listed
    <3> QED
        BY <3>1, <2>1, <2>2, <1>d, <1>g DEF Sessions!StopCloses, Sessions!EveryProcessIsOwned,
            Sessions!Listed
  <2>3. ASSUME NEW s \in Runners, NEW key \in Runners \cup Ids, Sessions!Take(r, s, key),
               Sessions!Listed(s)', \A x \in Runners : Sessions!Listed(x) => Sessions!Listed(x)'
        PROVE  Safe'
    <3>1. Sessions!HasSession'
        BY <2>3, <1>c, <1>f, SessionsConstants DEF Sessions!PlacesOK, Sessions!HasSession,
            Sessions!Take
    <3>2. Sessions!ForgottenIsClosed'
        BY <2>1, <2>3, <1>c, <1>e DEF Sessions!PlacesOK, Sessions!ForgottenIsClosed,
            Sessions!Take
    <3>3. Sessions!StopCloses' /\ Sessions!EveryProcessIsOwned'
        BY <2>1, <2>3, <1>d, <1>g DEF Sessions!StopCloses, Sessions!EveryProcessIsOwned
    <3> QED
        BY <3>1, <3>2, <3>3
  <2>4. ASSUME NEW key \in Runners \cup Ids, sesPending' = [sesPending EXCEPT ![r] = key]
        PROVE  \A x \in Runners : x = r \/ Sessions!Listed(x) => Sessions!Listed(x)'
      BY <2>1, <2>4, <1>a, SessionsConstants DEF Sessions!MapsOK, Sessions!Listed
  <2>5. UNCHANGED sesPending => \A x \in Runners : Sessions!Listed(x) => Sessions!Listed(x)'
      BY <2>1 DEF Sessions!Listed
  <2> QED
      BY <1>2, <2>2, <2>3, <2>4, <2>5, GetOrCreateCases
<1>3. ASSUME NEW r \in Runners, Sessions!Launch(r) PROVE Safe'
  <2>1. Sessions!StopCloses'
      BY <1>3, <1>b, <1>d DEF Sessions!SessionsOK, Sessions!StopCloses, Sessions!Launch,
          Sessions!RefusesLaunch
  <2>2. Sessions!ForgottenIsClosed'
      BY <1>3, <1>a, <1>b, <1>c, <1>d, <1>e DEF Sessions!MapsOK, Sessions!SessionsOK,
          Sessions!PlacesOK, Sessions!StopCloses, Sessions!ForgottenIsClosed, Sessions!Listed,
          Sessions!Launch, Sessions!RefusesLaunch
  <2>3. Sessions!HasSession'
      BY <1>3, <1>c, <1>f DEF Sessions!PlacesOK, Sessions!HasSession, Sessions!Launch,
          Sessions!RefusesLaunch
  <2>4. Sessions!EveryProcessIsOwned'
    <3>1. sesUsing[r] \in Runners
        BY <1>3, <1>c, <1>f DEF Sessions!PlacesOK, Sessions!HasSession, Sessions!Launch
    <3>2. \A s \in Runners : s # sesUsing[r] => sesProcess'[s] = sesProcess[s]
        BY <1>3, <1>b, <3>1 DEF Sessions!SessionsOK, Sessions!Launch
    <3>3. sesProcess'[sesUsing[r]] = sesProcess[sesUsing[r]] \/ ~sesClosed[sesUsing[r]]
        BY <1>3 DEF Sessions!Launch, Sessions!RefusesLaunch
    <3>4. sesProcess'[sesUsing[r]] = "running" =>
              Sessions!Listed(sesUsing[r]) \/ sesUsing[r] \in sesClosing
        BY <3>1, <3>3, <1>e, <1>g, SessionsConstants DEF Sessions!ForgottenIsClosed,
            Sessions!EveryProcessIsOwned
    <3>5. UNCHANGED <<sesPending, sesReal, sesClosing>>
        BY <1>3 DEF Sessions!Launch
    <3> QED
        BY <3>2, <3>4, <3>5, <1>g DEF Sessions!EveryProcessIsOwned, Sessions!Listed
  <2> QED
      BY <2>1, <2>2, <2>3, <2>4
<1>4. ASSUME NEW r \in Runners, Sessions!Register(r) PROVE Safe'
  <2>1. Sessions!StopCloses'
      BY <1>4, <1>b, <1>d DEF Sessions!SessionsOK, Sessions!StopCloses, Sessions!Register
  <2>2. Sessions!ForgottenIsClosed'
    <3>1. sesUsing[r] \in Runners
        BY <1>4, <1>c, <1>f DEF Sessions!PlacesOK, Sessions!HasSession, Sessions!Register
    <3>2. \/ UNCHANGED <<sesPending, sesReal>>
          \/ \E id \in Ids : /\ sesPending' = [sesPending EXCEPT ![sesUsing[r]] = None]
                             /\ sesReal' = [sesReal EXCEPT ![sesUsing[r]] = id]
        BY <1>4 DEF Sessions!Register
    <3>3. \A s \in Runners : Sessions!Listed(s) => Sessions!Listed(s)'
        BY <3>1, <3>2, <1>a, SessionsConstants DEF Sessions!MapsOK, Sessions!Listed
    <3>4. UNCHANGED <<sesClosed, sesUsing>>
        BY <1>4 DEF Sessions!Register
    <3> QED
        BY <3>3, <3>4, <1>c, <1>e, SessionsConstants DEF Sessions!PlacesOK,
            Sessions!ForgottenIsClosed
  <2>3. Sessions!HasSession'
      BY <1>4, <1>c, <1>f DEF Sessions!PlacesOK, Sessions!HasSession, Sessions!Register
  <2>4. Sessions!EveryProcessIsOwned'
    <3>1. sesUsing[r] \in Runners
        BY <1>4, <1>c, <1>f DEF Sessions!PlacesOK, Sessions!HasSession, Sessions!Register
    <3>2. \/ UNCHANGED <<sesPending, sesReal>>
          \/ \E id \in Ids : /\ sesPending' = [sesPending EXCEPT ![sesUsing[r]] = None]
                             /\ sesReal' = [sesReal EXCEPT ![sesUsing[r]] = id]
        BY <1>4 DEF Sessions!Register
    <3>3. \A s \in Runners : Sessions!Listed(s) => Sessions!Listed(s)'
        BY <3>1, <3>2, <1>a, SessionsConstants DEF Sessions!MapsOK, Sessions!Listed
    <3>4. UNCHANGED <<sesClosing, sesProcess>>
        BY <1>4 DEF Sessions!Register
    <3> QED
        BY <3>3, <3>4, <1>g DEF Sessions!EveryProcessIsOwned
  <2> QED
      BY <2>1, <2>2, <2>3, <2>4
<1>5. ASSUME NEW s \in Runners, Sessions!Exit(s) PROVE Safe'
  <2>1. Sessions!StopCloses'
      BY <1>5, <1>b, <1>d DEF Sessions!SessionsOK, Sessions!StopCloses, Sessions!Exit
  <2>2. Sessions!ForgottenIsClosed'
      BY <1>5, <1>a, <1>b, <1>c, <1>d, <1>e DEF Sessions!MapsOK, Sessions!SessionsOK,
          Sessions!PlacesOK, Sessions!StopCloses, Sessions!ForgottenIsClosed, Sessions!Listed,
          Sessions!Exit
  <2>3. Sessions!HasSession'
      BY <1>5, <1>c, <1>f DEF Sessions!PlacesOK, Sessions!HasSession, Sessions!Exit
  <2>4. Sessions!EveryProcessIsOwned'
      BY <1>5, <1>a, <1>b, <1>g DEF Sessions!MapsOK, Sessions!SessionsOK,
          Sessions!EveryProcessIsOwned, Sessions!Listed, Sessions!Exit
  <2> QED
      BY <2>1, <2>2, <2>3, <2>4
<1>6. ASSUME NEW s \in Runners, Sessions!GeneratorEnds(s) PROVE Safe'
  <2>1. Sessions!StopCloses'
      BY <1>6, <1>b, <1>d DEF Sessions!SessionsOK, Sessions!StopCloses, Sessions!GeneratorEnds
  <2>2. Sessions!ForgottenIsClosed'
      BY <1>6, <1>a, <1>b, <1>c, <1>d, <1>e DEF Sessions!MapsOK, Sessions!SessionsOK,
          Sessions!PlacesOK, Sessions!StopCloses, Sessions!ForgottenIsClosed, Sessions!Listed,
          Sessions!GeneratorEnds
  <2>3. Sessions!HasSession'
      BY <1>6, <1>c, <1>f, <1>b DEF Sessions!PlacesOK, Sessions!HasSession, Sessions!SessionsOK,
          Sessions!GeneratorEnds
  <2>4. Sessions!EveryProcessIsOwned'
      BY <1>6, <1>a, <1>b, <1>g DEF Sessions!MapsOK, Sessions!SessionsOK,
          Sessions!EveryProcessIsOwned, Sessions!Listed, Sessions!GeneratorEnds
  <2> QED
      BY <2>1, <2>2, <2>3, <2>4
<1>7. ASSUME NEW r \in Runners, Sessions!Cancel(r) PROVE Safe'
  <2>1. Sessions!StopCloses'
      BY <1>7, <1>b, <1>d DEF Sessions!SessionsOK, Sessions!StopCloses, Sessions!Cancel,
          Sessions!Leave
  <2>2. Sessions!ForgottenIsClosed'
      BY <1>7, <1>a, <1>b, <1>c, <1>d, <1>e DEF Sessions!MapsOK, Sessions!SessionsOK,
          Sessions!PlacesOK, Sessions!StopCloses, Sessions!ForgottenIsClosed, Sessions!Listed,
          Sessions!Cancel, Sessions!Leave
  <2>3. Sessions!HasSession'
      BY <1>7, <1>c, <1>f DEF Sessions!PlacesOK, Sessions!HasSession, Sessions!Cancel,
          Sessions!Leave
  <2>4. Sessions!EveryProcessIsOwned'
      BY <1>7, <1>a, <1>b, <1>g DEF Sessions!MapsOK, Sessions!SessionsOK,
          Sessions!EveryProcessIsOwned, Sessions!Listed, Sessions!Cancel, Sessions!Leave
  <2> QED
      BY <2>1, <2>2, <2>3, <2>4
<1>8. ASSUME NEW r \in Runners, Sessions!OwnStop(r) PROVE Safe'
  <2>1. Sessions!StopCloses'
      BY <1>8, <1>b, <1>d DEF Sessions!SessionsOK, Sessions!StopCloses, Sessions!OwnStop,
          Sessions!BeginStop, Sessions!Stopped, Sessions!StopFails, Sessions!StopHolds
  <2>2. Sessions!ForgottenIsClosed'
      BY <1>8, <1>a, <1>b, <1>c, <1>d, <1>e DEF Sessions!MapsOK, Sessions!SessionsOK,
          Sessions!PlacesOK, Sessions!StopCloses, Sessions!ForgottenIsClosed, Sessions!Listed,
          Sessions!OwnStop, Sessions!BeginStop, Sessions!Stopped, Sessions!StopFails,
          Sessions!StopHolds
  <2>3. Sessions!HasSession'
      BY <1>8, <1>c, <1>f DEF Sessions!PlacesOK, Sessions!HasSession, Sessions!OwnStop,
          Sessions!BeginStop, Sessions!Stopped, Sessions!StopFails, Sessions!StopHolds
  <2>4. Sessions!EveryProcessIsOwned'
      BY <1>8, <1>a, <1>b, <1>g DEF Sessions!MapsOK, Sessions!SessionsOK,
          Sessions!EveryProcessIsOwned, Sessions!Listed, Sessions!OwnStop, Sessions!BeginStop,
          Sessions!Stopped, Sessions!StopFails, Sessions!StopHolds
  <2> QED
      BY <2>1, <2>2, <2>3, <2>4
<1>9. ASSUME NEW r \in Runners, Sessions!BeginRemove(r) PROVE Safe'
  <2>1. Sessions!StopCloses'
      BY <1>9, <1>b, <1>d DEF Sessions!SessionsOK, Sessions!StopCloses, Sessions!BeginRemove,
          Sessions!Leave
  <2>2. Sessions!ForgottenIsClosed'
      BY <1>9, <1>a, <1>b, <1>c, <1>d, <1>e DEF Sessions!MapsOK, Sessions!SessionsOK,
          Sessions!PlacesOK, Sessions!StopCloses, Sessions!ForgottenIsClosed, Sessions!Listed,
          Sessions!BeginRemove, Sessions!Leave
  <2>3. Sessions!HasSession'
      BY <1>9, <1>c, <1>f DEF Sessions!PlacesOK, Sessions!HasSession, Sessions!BeginRemove,
          Sessions!Leave
  <2>4. Sessions!EveryProcessIsOwned'
      BY <1>9, <1>a, <1>b, <1>g DEF Sessions!MapsOK, Sessions!SessionsOK,
          Sessions!EveryProcessIsOwned, Sessions!Listed, Sessions!BeginRemove, Sessions!Leave
  <2> QED
      BY <2>1, <2>2, <2>3, <2>4
<1>10. ASSUME NEW r \in Runners, Sessions!Remove(r) PROVE Safe'
  <2>1. Sessions!StopCloses'
      BY <1>10, <1>b, <1>d DEF Sessions!SessionsOK, Sessions!StopCloses, Sessions!Remove,
          Sessions!Leave, Sessions!BeginStop, Sessions!Stopped, Sessions!StopFails,
          Sessions!StopHolds, Sessions!Forget
  <2>2. Sessions!ForgottenIsClosed'
    <3>1. PICK s \in Runners :
              \/ UNCHANGED <<sesPending, sesReal>> /\ sesClosed' = [sesClosed EXCEPT ![s] = TRUE]
              \/ UNCHANGED <<sesPending, sesReal, sesClosed>>
              \/ /\ sesPending' = [sesPending EXCEPT ![s] = None]
                 /\ sesReal' = [sesReal EXCEPT ![s] = None]
                 /\ sesLifecycle[s] = r
                 /\ UNCHANGED sesClosed
        BY <1>10, <1>a, SessionsForIsSet DEF Sessions!Remove, Sessions!BeginStop,
            Sessions!Stopped, Sessions!StopFails, Sessions!StopHolds, Sessions!Forget
    <3>2. \A x \in Runners : Sessions!Listed(x) \/ sesClosed[x] => Sessions!Listed(x)' \/ sesClosed'[x]
        BY <3>1, <1>a, <1>b, <1>d, SessionsConstants DEF Sessions!MapsOK, Sessions!SessionsOK,
            Sessions!StopCloses, Sessions!Listed
    <3>3. \A x \in Runners : sesUsing'[x] # None => sesUsing'[x] = sesUsing[x]
        BY <1>10, <1>c DEF Sessions!PlacesOK, Sessions!Remove, Sessions!Leave
    <3> QED
        BY <3>2, <3>3, <1>c, <1>e DEF Sessions!PlacesOK, Sessions!ForgottenIsClosed
  <2>3. Sessions!HasSession'
      BY <1>10, <1>c, <1>f DEF Sessions!PlacesOK, Sessions!HasSession, Sessions!Remove,
          Sessions!Leave, Sessions!BeginStop, Sessions!Stopped, Sessions!StopFails,
          Sessions!StopHolds, Sessions!Forget
  <2>4. Sessions!EveryProcessIsOwned'
      BY <1>10, <1>a, <1>b, <1>g DEF Sessions!MapsOK, Sessions!SessionsOK,
          Sessions!EveryProcessIsOwned, Sessions!Listed, Sessions!Remove, Sessions!Leave,
          Sessions!BeginStop, Sessions!Stopped, Sessions!StopFails, Sessions!StopHolds,
          Sessions!Forget
  <2> QED
      BY <2>1, <2>2, <2>3, <2>4
<1>11. ASSUME Sessions!BeginStopAll PROVE Safe'
  <2>1. Sessions!StopCloses'
      BY <1>11, <1>b, <1>d DEF Sessions!SessionsOK, Sessions!StopCloses, Sessions!BeginStopAll,
          Sessions!Listed
  <2>2. Sessions!ForgottenIsClosed'
      BY <1>11, <1>a, <1>b, <1>c, <1>d, <1>e DEF Sessions!MapsOK, Sessions!SessionsOK,
          Sessions!PlacesOK, Sessions!StopCloses, Sessions!ForgottenIsClosed, Sessions!Listed,
          Sessions!BeginStopAll, Sessions!Listed
  <2>3. Sessions!HasSession'
      BY <1>11, <1>c, <1>f DEF Sessions!PlacesOK, Sessions!HasSession, Sessions!BeginStopAll,
          Sessions!Listed
  <2>4. Sessions!EveryProcessIsOwned'
      BY <1>11, <1>a, <1>b, <1>g DEF Sessions!MapsOK, Sessions!SessionsOK,
          Sessions!EveryProcessIsOwned, Sessions!Listed, Sessions!BeginStopAll, Sessions!Listed
  <2> QED
      BY <2>1, <2>2, <2>3, <2>4
<1>12. ASSUME Sessions!StopNext PROVE Safe'
  <2>1. Sessions!StopCloses'
      BY <1>12, <1>b, <1>d DEF Sessions!SessionsOK, Sessions!StopCloses, Sessions!StopNext,
          Sessions!BeginStop, Sessions!Stopped, Sessions!StopFails, Sessions!StopHolds,
          Sessions!Forget
  <2>2. Sessions!ForgottenIsClosed'
    <3>1. PICK s \in Runners :
              \/ UNCHANGED <<sesPending, sesReal>> /\ sesClosed' = [sesClosed EXCEPT ![s] = TRUE]
              \/ UNCHANGED <<sesPending, sesReal, sesClosed>>
              \/ /\ sesPending' = [sesPending EXCEPT ![s] = None]
                 /\ sesReal' = [sesReal EXCEPT ![s] = None]
                 /\ sesLifecycle[s] = StopAll
                 /\ UNCHANGED sesClosed
        BY <1>12, <1>a, <1>x DEF Sessions!StopNext, Sessions!CountsOK, Sessions!BeginStop,
            Sessions!Stopped, Sessions!StopFails, Sessions!StopHolds, Sessions!Forget
    <3>2. \A x \in Runners : Sessions!Listed(x) \/ sesClosed[x] => Sessions!Listed(x)' \/ sesClosed'[x]
        BY <3>1, <1>a, <1>b, <1>d, SessionsConstants DEF Sessions!MapsOK, Sessions!SessionsOK,
            Sessions!StopCloses, Sessions!Listed
    <3>3. \A x \in Runners : sesUsing'[x] # None => sesUsing'[x] = sesUsing[x]
        BY <1>12, <1>c DEF Sessions!PlacesOK, Sessions!StopNext
    <3> QED
        BY <3>2, <3>3, <1>c, <1>e DEF Sessions!PlacesOK, Sessions!ForgottenIsClosed
  <2>3. Sessions!HasSession'
      BY <1>12, <1>c, <1>f DEF Sessions!PlacesOK, Sessions!HasSession, Sessions!StopNext,
          Sessions!BeginStop, Sessions!Stopped, Sessions!StopFails, Sessions!StopHolds,
          Sessions!Forget
  <2>4. Sessions!EveryProcessIsOwned'
      BY <1>12, <1>a, <1>b, <1>g DEF Sessions!MapsOK, Sessions!SessionsOK,
          Sessions!EveryProcessIsOwned, Sessions!Listed, Sessions!StopNext, Sessions!BeginStop,
          Sessions!Stopped, Sessions!StopFails, Sessions!StopHolds, Sessions!Forget
  <2> QED
      BY <2>1, <2>2, <2>3, <2>4
<1>13. ASSUME Sessions!EndStopAll PROVE Safe'
  <2>1. Sessions!StopCloses'
      BY <1>13, <1>b, <1>d DEF Sessions!SessionsOK, Sessions!StopCloses, Sessions!EndStopAll
  <2>2. Sessions!ForgottenIsClosed'
      BY <1>13, <1>a, <1>b, <1>c, <1>d, <1>e DEF Sessions!MapsOK, Sessions!SessionsOK,
          Sessions!PlacesOK, Sessions!StopCloses, Sessions!ForgottenIsClosed, Sessions!Listed,
          Sessions!EndStopAll
  <2>3. Sessions!HasSession'
      BY <1>13, <1>c, <1>f DEF Sessions!PlacesOK, Sessions!HasSession, Sessions!EndStopAll
  <2>4. Sessions!EveryProcessIsOwned'
      BY <1>13, <1>a, <1>b, <1>g DEF Sessions!MapsOK, Sessions!SessionsOK,
          Sessions!EveryProcessIsOwned, Sessions!Listed, Sessions!EndStopAll
  <2> QED
      BY <2>1, <2>2, <2>3, <2>4
<1>14. ASSUME UNCHANGED Sessions!vars PROVE Safe'
  <2>1. UNCHANGED <<sesPending, sesReal, sesClosing, sesClosed, sesProcess, sesLifecycle, sesPlace, sesUsing>>
      BY <1>14 DEF Sessions!vars
  <2>2. Sessions!StopCloses' /\ Sessions!HasSession'
      BY <2>1, <1>d, <1>f DEF Sessions!StopCloses, Sessions!HasSession
  <2>3. Sessions!ForgottenIsClosed' /\ Sessions!EveryProcessIsOwned'
      BY <2>1, <1>e, <1>g DEF Sessions!ForgottenIsClosed, Sessions!EveryProcessIsOwned,
          Sessions!Listed
  <2> QED
      BY <2>2, <2>3
<1> QED
    BY <1>h, <1>1, <1>2, <1>3, <1>4, <1>5, <1>6, <1>7, <1>8, <1>9, <1>10, <1>11, <1>12, <1>13,
        <1>14 DEF Sessions!IInv, Sessions!Next, Sessions!RunnerStep

\* Every step of the composition is a step of the sessions, or leaves them alone.
LEMMA SessionsMove == [MCNext]_MCVars => [Sessions!Next]_Sessions!vars
BY DEF MCNext, MCVars, sessionVars, Sessions!vars, Sessions!maps, Sessions!session,
    Sessions!runner, Sessions!counts

LEMMA SessionsInvariant == MCSpec => []Sessions!IInv
<1>1. MCInit => Sessions!IInv
    BY SessionsInit DEF MCInit
<1>2. Sessions!IInv /\ [MCNext]_MCVars => Sessions!IInv'
    BY SessionsStep, SessionsMove
<1> QED
    BY <1>1, <1>2, PTL DEF MCSpec

\* Whatever the turns, the CLI's ids and the calls of /stop: a CLI process that
\* runs belongs to a session the manager knows or is closing, so the next
\* stop_all stops it (cli/managed/manager.py, session.py).
THEOREM ProcessesAreOwned == MCSpec => []EveryProcessIsOwned
<1>1. Sessions!IInv => EveryProcessIsOwned
    BY DEF EveryProcessIsOwned, Sessions!IInv
<1> QED
    BY <1>1, SessionsInvariant, PTL

(***************************************************************************)
(* The delivery queue                                                      *)
(***************************************************************************)

LEMMA LimiterConstants ==
    /\ DedupKeys # {} /\ MaxRetries \in Nat
    /\ Deliveries \subseteq Nat \ {0}
BY ServicesAssumption DEF Limiter!ConstantsOK

\* ToSet of a sequence that grows at its end, or loses its head.
LEMMA ToSetOfAppend ==
    \A T : \A s \in Seq(T) : \A e \in T :
        Limiter!ToSet(Append(s, e)) = Limiter!ToSet(s) \cup {e}
<1> SUFFICES ASSUME NEW T, NEW s \in Seq(T), NEW e \in T
             PROVE  Limiter!ToSet(Append(s, e)) = Limiter!ToSet(s) \cup {e}
    OBVIOUS
<1>1. /\ DOMAIN s = 1 .. Len(s) /\ DOMAIN Append(s, e) = 1 .. Len(s) + 1
      /\ Len(s) \in Nat /\ Append(s, e)[Len(s) + 1] = e
      /\ \A i \in 1 .. Len(s) : Append(s, e)[i] = s[i]
    OBVIOUS
<1>2. 1 .. Len(s) + 1 = (1 .. Len(s)) \cup {Len(s) + 1}
    BY <1>1
<1> QED
    BY <1>1, <1>2 DEF Limiter!ToSet

LEMMA LastOfAppend ==
    ASSUME NEW T, NEW s \in Seq(T), NEW e \in T
    PROVE  /\ Append(s, e) \in Seq(T) /\ Append(s, e) # <<>>
           /\ Append(s, e)[Len(Append(s, e))] = e
OBVIOUS

LEMMA ToSetOfTail ==
    \A T : \A s \in Seq(T) :
        s # <<>> => Limiter!ToSet(s) = Limiter!ToSet(Tail(s)) \cup {Head(s)}
<1> SUFFICES ASSUME NEW T, NEW s \in Seq(T), s # <<>>
             PROVE  Limiter!ToSet(s) = Limiter!ToSet(Tail(s)) \cup {Head(s)}
    OBVIOUS
<1>1. /\ DOMAIN s = 1 .. Len(s) /\ DOMAIN Tail(s) = 1 .. Len(s) - 1
      /\ Len(s) \in Nat \ {0} /\ Head(s) = s[1]
      /\ \A i \in 1 .. Len(s) - 1 : Tail(s)[i] = s[i + 1]
    OBVIOUS
<1>2. ASSUME NEW i \in 1 .. Len(s) PROVE s[i] \in Limiter!ToSet(Tail(s)) \cup {Head(s)}
    <2>1. CASE i = 1
        BY <2>1, <1>1
    <2>2. CASE i # 1
        <3>1. i - 1 \in 1 .. Len(s) - 1 /\ Tail(s)[i - 1] = s[i]
            BY <2>2, <1>1
        <3> QED
            BY <3>1, <1>1 DEF Limiter!ToSet
    <2> QED
        BY <2>1, <2>2
<1>3. \A i \in 1 .. Len(s) - 1 : i + 1 \in 1 .. Len(s)
    BY <1>1
<1>4. 1 \in 1 .. Len(s)
    BY <1>1
<1>5. Limiter!ToSet(s) \subseteq Limiter!ToSet(Tail(s)) \cup {Head(s)}
    BY <1>2, <1>1 DEF Limiter!ToSet
<1>6. Limiter!ToSet(Tail(s)) \subseteq Limiter!ToSet(s)
    BY <1>1, <1>3 DEF Limiter!ToSet
<1>7. Head(s) \in Limiter!ToSet(s)
    BY <1>1, <1>4 DEF Limiter!ToSet
<1> QED
    BY <1>5, <1>6, <1>7

LEMMA LimiterInit == Limiter!Init => Limiter!IInv
<1> SUFFICES ASSUME Limiter!Init PROVE Limiter!IInv
    OBVIOUS
<1> USE LimiterConstants DEF Limiter!Init
<1>1. Limiter!RequestsOK
    BY DEF Limiter!RequestsOK, Limiter!Settled
<1>2. Limiter!QueueOK /\ Limiter!WorkerOK
    BY DEF Limiter!QueueOK, Limiter!WorkerOK
<1>3. Limiter!LastIsCalled /\ Limiter!EntriesAreQueued /\ Limiter!IdleHoldsNothing
    BY DEF Limiter!LastIsCalled, Limiter!EntriesAreQueued, Limiter!IdleHoldsNothing
<1>4. Limiter!NoWaiterIsLost /\ Limiter!AnsweredByNewest
    BY DEF Limiter!NoWaiterIsLost, Limiter!AnsweredByNewest
<1> QED
    BY <1>1, <1>2, <1>3, <1>4 DEF Limiter!IInv, Limiter!TypeOK

\* Compaction: the newcomer's function is called for the whole entry, which is
\* in the queue.
LEMMA EnqueueKeeps ==
    ASSUME Limiter!IInv, NEW r \in Deliveries, NEW k \in DedupKeys, Limiter!Enqueue(r, k),
           UNCHANGED <<limWorker, limActive, limCalling, limClosing>>
    PROVE  /\ Limiter!QueueOK' /\ Limiter!LastIsCalled' /\ Limiter!EntriesAreQueued'
           /\ Limiter!NoWaiterIsLost' /\ Limiter!AnsweredByNewest'
           /\ limPlace' \in [Deliveries -> Limiter!Settled \cup {"unmade", "created", "queued", "sleeping"}]
           /\ limShown' \subseteq Deliveries
<1>a. Limiter!RequestsOK
    BY DEF Limiter!IInv, Limiter!TypeOK
<1>b. Limiter!QueueOK
    BY DEF Limiter!IInv, Limiter!TypeOK
<1>c. Limiter!WorkerOK
    BY DEF Limiter!IInv, Limiter!TypeOK
<1>1. /\ limPlace' = [limPlace EXCEPT ![r] = IF limClosing = "open" THEN "queued" ELSE "failed"]
      /\ limShown' = limShown \ {r}
      /\ limClosing = "open" => Limiter!Queue(r, k)
      /\ limClosing # "open" => UNCHANGED <<limQueue, limWaiting, limFunc>>
    BY DEF Limiter!Enqueue, Limiter!queueVars
<1>2. limPlace' \in [Deliveries -> Limiter!Settled \cup {"unmade", "created", "queued", "sleeping"}]
    BY <1>1, <1>a DEF Limiter!RequestsOK, Limiter!Settled
<1>3. limShown' \subseteq Deliveries
    BY <1>1, <1>a DEF Limiter!RequestsOK
<1>4. Limiter!AnsweredByNewest'
    BY <1>1, <1>2, <1>a DEF Limiter!RequestsOK, Limiter!AnsweredByNewest, Limiter!IInv
<1>5. CASE limClosing # "open"
    <2>1. Limiter!QueueOK'
        BY <1>1, <1>5, <1>b DEF Limiter!QueueOK
    <2>2. Limiter!LastIsCalled' /\ Limiter!EntriesAreQueued'
        BY <1>1, <1>5 DEF Limiter!LastIsCalled, Limiter!EntriesAreQueued, Limiter!IInv
    <2>3. Limiter!NoWaiterIsLost'
        BY <1>1, <1>5, <1>a DEF Limiter!RequestsOK, Limiter!NoWaiterIsLost, Limiter!IInv
    <2> QED
        BY <1>2, <1>3, <1>4, <2>1, <2>2, <2>3
<1>6. CASE limClosing = "open"
    <2>1. /\ limWaiting' = [limWaiting EXCEPT ![k] = Append(limWaiting[k], r)]
          /\ limFunc' = [limFunc EXCEPT ![k] = r]
          /\ limQueue' = IF limFunc[k] = 0 THEN Append(limQueue, k) ELSE limQueue
        BY <1>1, <1>6 DEF Limiter!Queue
    <2>0. limWaiting[k] \in Seq(Deliveries)
        BY <1>b DEF Limiter!QueueOK
    <2>0a. limQueue \in Seq(DedupKeys)
        BY <1>b DEF Limiter!QueueOK
    <2>2. /\ Append(limWaiting[k], r) \in Seq(Deliveries)
          /\ Append(limWaiting[k], r) # <<>>
          /\ Append(limWaiting[k], r)[Len(Append(limWaiting[k], r))] = r
        BY <2>0, LastOfAppend
    <2>3. Limiter!QueueOK'
        BY <2>1, <2>2, <1>b DEF Limiter!QueueOK
    <2>4. Limiter!LastIsCalled'
        BY <2>1, <2>2, <1>b DEF Limiter!QueueOK, Limiter!LastIsCalled, Limiter!IInv
    <2>4a. Limiter!ToSet(Append(limWaiting[k], r)) = Limiter!ToSet(limWaiting[k]) \cup {r}
        BY <2>0, ToSetOfAppend
    <2>5. Limiter!ToSet(Append(limQueue, k)) = Limiter!ToSet(limQueue) \cup {k}
        BY <2>0a, ToSetOfAppend
    <2>6. Limiter!ToSet(limQueue) \cup {k} \subseteq Limiter!ToSet(limQueue')
        BY <2>1, <2>5 DEF Limiter!EntriesAreQueued, Limiter!IInv
    <2>7. Limiter!EntriesAreQueued'
        BY <2>1, <2>2, <2>6, <1>b, LimiterConstants DEF Limiter!QueueOK,
            Limiter!EntriesAreQueued, Limiter!IInv
    <2>8. \A j \in DedupKeys : Limiter!ToSet(limWaiting[j]) \subseteq Limiter!ToSet(limWaiting'[j])
        BY <2>1, <2>4a, <1>b DEF Limiter!QueueOK
    <2>9. r \in Limiter!ToSet(limWaiting'[k])
        BY <2>1, <2>4a, <1>b DEF Limiter!QueueOK
    <2>10. \A s \in Deliveries : s # r => limPlace'[s] = limPlace[s]
        BY <1>1, <1>a DEF Limiter!RequestsOK
    <2>11. Limiter!NoWaiterIsLost'
        BY <1>6, <2>6, <2>8, <2>9, <2>10 DEF Limiter!NoWaiterIsLost, Limiter!IInv
    <2> QED
        BY <1>2, <1>3, <1>4, <2>3, <2>4, <2>7, <2>11
<1> QED
    BY <1>5, <1>6

\* The end of a call answers those who wait for it, and nobody else.
LEMMA CallEndsKeeps ==
    ASSUME Limiter!IInv, Limiter!CallEnds, NEW outcome, Limiter!Answer(outcome),
           \A r \in Deliveries : outcome[r] \in {"done", "failed", "sleeping", "cancelled"}
    PROVE  /\ Limiter!QueueOK' /\ Limiter!WorkerOK' /\ Limiter!LastIsCalled' /\ Limiter!EntriesAreQueued'
           /\ Limiter!IdleHoldsNothing' /\ Limiter!NoWaiterIsLost'
           /\ limPlace' \in [Deliveries -> Limiter!Settled \cup {"unmade", "created", "queued", "sleeping"}]
<1>a. Limiter!RequestsOK
    BY DEF Limiter!IInv, Limiter!TypeOK
<1>b. Limiter!QueueOK
    BY DEF Limiter!IInv, Limiter!TypeOK
<1>c. Limiter!WorkerOK
    BY DEF Limiter!IInv, Limiter!TypeOK
<1>1. /\ limActive' = <<>> /\ limCalling' = 0 /\ limWorker' = "idle"
      /\ UNCHANGED <<limQueue, limWaiting, limFunc, limClosing>>
    BY DEF Limiter!CallEnds, Limiter!queueVars
<1>2. \A r \in Deliveries :
        limPlace'[r] = IF r \in Limiter!ToSet(limActive) /\ limPlace[r] = "queued"
                       THEN outcome[r] ELSE limPlace[r]
    BY DEF Limiter!Answer
<1>3. limPlace' \in [Deliveries -> Limiter!Settled \cup {"unmade", "created", "queued", "sleeping"}]
    BY <1>a DEF Limiter!Answer, Limiter!RequestsOK, Limiter!Settled
<1>4. Limiter!QueueOK' /\ Limiter!WorkerOK'
    BY <1>1, <1>b, <1>c DEF Limiter!QueueOK, Limiter!WorkerOK
<1>5. Limiter!LastIsCalled' /\ Limiter!EntriesAreQueued' /\ Limiter!IdleHoldsNothing'
    BY <1>1 DEF Limiter!LastIsCalled, Limiter!EntriesAreQueued, Limiter!IdleHoldsNothing,
        Limiter!IInv
<1>6. Limiter!NoWaiterIsLost'
    BY <1>1, <1>2 DEF Limiter!NoWaiterIsLost, Limiter!IInv
<1> QED
    BY <1>3, <1>4, <1>5, <1>6

LEMMA LimiterStep == Limiter!IInv /\ [Limiter!Next]_Limiter!vars => Limiter!IInv'
<1> SUFFICES ASSUME Limiter!IInv, [Limiter!Next]_Limiter!vars PROVE Limiter!IInv'
    OBVIOUS
<1>a. Limiter!RequestsOK
    BY DEF Limiter!IInv, Limiter!TypeOK
<1>b. Limiter!QueueOK
    BY DEF Limiter!IInv, Limiter!TypeOK
<1>c. Limiter!WorkerOK
    BY DEF Limiter!IInv, Limiter!TypeOK
<1>d. Limiter!LastIsCalled /\ Limiter!EntriesAreQueued /\ Limiter!IdleHoldsNothing
     /\ Limiter!NoWaiterIsLost /\ Limiter!AnsweredByNewest
    BY DEF Limiter!IInv
<1>1. ASSUME Limiter!Await PROVE Limiter!IInv'
  <2>1. PICK k \in DedupKeys : Limiter!Enqueue(limNext, k)
      BY <1>1 DEF Limiter!Await
  <2>2. /\ limNext \in Deliveries /\ limNext' = limNext + 1
        /\ limAwaited' = limAwaited \cup {limNext}
        /\ UNCHANGED <<limKey, limTries, limWorker, limActive, limCalling, limClosing>>
      BY <1>1 DEF Limiter!Await, Limiter!workerVars
  <2>3. /\ Limiter!QueueOK' /\ Limiter!LastIsCalled' /\ Limiter!EntriesAreQueued'
        /\ Limiter!NoWaiterIsLost' /\ Limiter!AnsweredByNewest'
        /\ limPlace' \in [Deliveries -> Limiter!Settled \cup {"unmade", "created", "queued", "sleeping"}]
        /\ limShown' \subseteq Deliveries
      BY <2>1, <2>2, EnqueueKeeps
  <2>4. Limiter!RequestsOK' /\ Limiter!WorkerOK' /\ Limiter!IdleHoldsNothing'
      BY <2>2, <2>3, <1>a, <1>c, <1>d DEF Limiter!RequestsOK, Limiter!WorkerOK,
          Limiter!IdleHoldsNothing
  <2> QED
      BY <2>3, <2>4 DEF Limiter!IInv, Limiter!TypeOK
<1>2. ASSUME Limiter!Forget PROVE Limiter!IInv'
  <2>1. /\ limNext \in Deliveries /\ limNext' = limNext + 1
        /\ limPlace' = [limPlace EXCEPT ![limNext] =
                            IF limClosing = "open" THEN "created" ELSE "failed"]
        /\ UNCHANGED <<limAwaited, limTries, limQueue, limWaiting, limFunc, limWorker,
                       limActive, limCalling, limClosing, limShown>>
      BY <1>2 DEF Limiter!Forget, Limiter!queueVars, Limiter!workerVars
  <2>2. \E k \in DedupKeys : limKey' = [limKey EXCEPT ![limNext] = k]
      BY <1>2 DEF Limiter!Forget
  <2>3. Limiter!RequestsOK'
      BY <2>1, <2>2, <1>a DEF Limiter!RequestsOK, Limiter!Settled
  <2>4. Limiter!QueueOK' /\ Limiter!WorkerOK' /\ Limiter!LastIsCalled' /\ Limiter!EntriesAreQueued' /\ Limiter!IdleHoldsNothing'
      BY <2>1, <1>b, <1>c, <1>d DEF Limiter!QueueOK, Limiter!WorkerOK, Limiter!LastIsCalled,
          Limiter!EntriesAreQueued, Limiter!IdleHoldsNothing
  <2>5. Limiter!NoWaiterIsLost' /\ Limiter!AnsweredByNewest'
      BY <2>1, <1>a, <1>d DEF Limiter!RequestsOK, Limiter!NoWaiterIsLost,
          Limiter!AnsweredByNewest
  <2> QED
      BY <2>3, <2>4, <2>5 DEF Limiter!IInv, Limiter!TypeOK
<1>3. ASSUME NEW r \in Deliveries, Limiter!StartTask(r) \/ Limiter!Retry(r) PROVE Limiter!IInv'
  <2>1. /\ Limiter!Enqueue(r, limKey[r])
        /\ UNCHANGED <<limNext, limKey, limAwaited, limTries, limWorker, limActive,
                       limCalling, limClosing>>
      BY <1>3 DEF Limiter!StartTask, Limiter!Retry, Limiter!workerVars
  <2>2. limKey[r] \in DedupKeys
      BY <1>a DEF Limiter!RequestsOK
  <2>3. /\ Limiter!QueueOK' /\ Limiter!LastIsCalled' /\ Limiter!EntriesAreQueued'
        /\ Limiter!NoWaiterIsLost' /\ Limiter!AnsweredByNewest'
        /\ limPlace' \in [Deliveries -> Limiter!Settled \cup {"unmade", "created", "queued", "sleeping"}]
        /\ limShown' \subseteq Deliveries
      BY <2>1, <2>2, EnqueueKeeps
  <2>4. Limiter!RequestsOK' /\ Limiter!WorkerOK' /\ Limiter!IdleHoldsNothing'
      BY <2>1, <2>3, <1>a, <1>c, <1>d DEF Limiter!RequestsOK, Limiter!WorkerOK,
          Limiter!IdleHoldsNothing
  <2> QED
      BY <2>3, <2>4 DEF Limiter!IInv, Limiter!TypeOK
<1>4. ASSUME NEW r \in Deliveries, Limiter!CallerCancelled(r) PROVE Limiter!IInv'
  <2>1. /\ limPlace' = [limPlace EXCEPT ![r] = "cancelled"]
        /\ UNCHANGED <<limNext, limKey, limAwaited, limTries, limQueue, limWaiting, limFunc,
                       limWorker, limActive, limCalling, limClosing, limShown>>
      BY <1>4 DEF Limiter!CallerCancelled, Limiter!queueVars, Limiter!workerVars
  <2>2. Limiter!RequestsOK'
      BY <2>1, <1>a DEF Limiter!RequestsOK, Limiter!Settled
  <2>3. Limiter!QueueOK' /\ Limiter!WorkerOK' /\ Limiter!LastIsCalled' /\ Limiter!EntriesAreQueued' /\ Limiter!IdleHoldsNothing'
      BY <2>1, <1>b, <1>c, <1>d DEF Limiter!QueueOK, Limiter!WorkerOK, Limiter!LastIsCalled,
          Limiter!EntriesAreQueued, Limiter!IdleHoldsNothing
  <2>4. Limiter!NoWaiterIsLost' /\ Limiter!AnsweredByNewest'
      BY <2>1, <1>a, <1>d DEF Limiter!RequestsOK, Limiter!NoWaiterIsLost,
          Limiter!AnsweredByNewest
  <2> QED
      BY <2>2, <2>3, <2>4 DEF Limiter!IInv, Limiter!TypeOK
<1>5. ASSUME Limiter!Take PROVE Limiter!IInv'
  <2> DEFINE k == Head(limQueue)
  <2>1. /\ limQueue # <<>> /\ limClosing = "open" /\ limWorker = "idle"
        /\ limActive' = limWaiting[k] /\ limCalling' = limFunc[k]
        /\ limWaiting' = [limWaiting EXCEPT ![k] = <<>>]
        /\ limFunc' = [limFunc EXCEPT ![k] = 0]
        /\ limQueue' = Tail(limQueue) /\ limWorker' = "holding"
        /\ UNCHANGED <<limNext, limKey, limAwaited, limPlace, limTries, limClosing, limShown>>
      BY <1>5 DEF Limiter!Take
  <2>2. limQueue \in Seq(DedupKeys)
      BY <1>b DEF Limiter!QueueOK
  <2>3. k \in DedupKeys /\ Tail(limQueue) \in Seq(DedupKeys)
      BY <2>1, <2>2
  <2>4. Limiter!ToSet(limQueue) = Limiter!ToSet(Tail(limQueue)) \cup {k}
      BY <2>1, <2>2, ToSetOfTail
  <2> HIDE DEF k
  <2>5. Limiter!RequestsOK' /\ Limiter!AnsweredByNewest'
      BY <2>1, <1>a, <1>d DEF Limiter!RequestsOK, Limiter!AnsweredByNewest
  <2>6. Limiter!QueueOK'
      BY <2>1, <2>3, <1>b DEF Limiter!QueueOK
  <2>7. Limiter!WorkerOK'
      BY <2>1, <2>3, <1>b, <1>c DEF Limiter!QueueOK, Limiter!WorkerOK
  <2>8. Limiter!LastIsCalled' /\ Limiter!IdleHoldsNothing'
      BY <2>1, <2>3, <1>b, <1>d DEF Limiter!QueueOK, Limiter!LastIsCalled,
          Limiter!IdleHoldsNothing
  <2>9. Limiter!EntriesAreQueued'
      BY <2>1, <2>3, <2>4, <1>b, <1>d DEF Limiter!QueueOK, Limiter!EntriesAreQueued
  <2>10. ASSUME NEW r \in Deliveries, limPlace[r] = "queued"
         PROVE  r \in Limiter!ToSet(limActive') \/ \E j \in DedupKeys :
                    j \in Limiter!ToSet(limQueue') /\ r \in Limiter!ToSet(limWaiting'[j])
    <3>1. r \notin Limiter!ToSet(limActive)
        BY <2>1, <1>d DEF Limiter!IdleHoldsNothing, Limiter!ToSet
    <3>2. PICK j \in DedupKeys : j \in Limiter!ToSet(limQueue) /\ r \in Limiter!ToSet(limWaiting[j])
        BY <2>10, <3>1, <1>d DEF Limiter!NoWaiterIsLost
    <3>3. j # k => limWaiting'[j] = limWaiting[j]
        BY <2>1, <1>b DEF Limiter!QueueOK
    <3> QED
        BY <2>1, <2>4, <3>2, <3>3
  <2>11. Limiter!NoWaiterIsLost'
      BY <2>1, <2>10 DEF Limiter!NoWaiterIsLost
  <2> QED
      BY <2>5, <2>6, <2>7, <2>8, <2>9, <2>11 DEF Limiter!IInv, Limiter!TypeOK
<1>6. ASSUME Limiter!Call PROVE Limiter!IInv'
  <2>1. /\ limWorker' = "calling"
        /\ UNCHANGED <<limNext, limKey, limAwaited, limPlace, limTries, limQueue, limWaiting,
                       limFunc, limActive, limCalling, limClosing, limShown>>
      BY <1>6 DEF Limiter!Call, Limiter!queueVars
  <2>2. Limiter!RequestsOK' /\ Limiter!QueueOK' /\ Limiter!WorkerOK'
      BY <2>1, <1>a, <1>b, <1>c DEF Limiter!RequestsOK, Limiter!QueueOK, Limiter!WorkerOK
  <2>3. Limiter!LastIsCalled' /\ Limiter!EntriesAreQueued' /\ Limiter!IdleHoldsNothing'
        /\ Limiter!NoWaiterIsLost' /\ Limiter!AnsweredByNewest'
      BY <2>1, <1>d DEF Limiter!LastIsCalled, Limiter!EntriesAreQueued,
          Limiter!IdleHoldsNothing, Limiter!NoWaiterIsLost, Limiter!AnsweredByNewest
  <2> QED
      BY <2>2, <2>3 DEF Limiter!IInv, Limiter!TypeOK
<1>7. ASSUME Limiter!Succeed PROVE Limiter!IInv'
  <2> DEFINE outcome == [r \in Deliveries |-> "done"]
  <2>1. Limiter!CallEnds /\ Limiter!Answer(outcome) /\ UNCHANGED limTries
      BY <1>7 DEF Limiter!Succeed
  <2>2. limShown' = limShown \cup {limActive[i] : i \in {j \in DOMAIN limActive :
                        \E n \in j .. Len(limActive) : limActive[n] = limCalling}}
      BY <1>7 DEF Limiter!Succeed
  <2>3. \A r \in Deliveries :
            limPlace'[r] = IF r \in Limiter!ToSet(limActive) /\ limPlace[r] = "queued"
                           THEN "done" ELSE limPlace[r]
      BY <2>1 DEF Limiter!Answer
  <2>4. /\ Limiter!QueueOK' /\ Limiter!WorkerOK' /\ Limiter!LastIsCalled' /\ Limiter!EntriesAreQueued'
        /\ Limiter!IdleHoldsNothing' /\ Limiter!NoWaiterIsLost'
        /\ limPlace' \in [Deliveries -> Limiter!Settled \cup {"unmade", "created", "queued", "sleeping"}]
      BY <2>1, CallEndsKeeps
  <2>5. Limiter!ToSet(limActive) \subseteq limShown' /\ limShown' \subseteq Deliveries
    <3>1. limActive \in Seq(Deliveries)
        BY <1>c DEF Limiter!WorkerOK
    <3>2. ASSUME NEW i \in DOMAIN limActive
          PROVE  limActive[i] \in limShown' /\ limActive[i] \in Deliveries
        <4>1. /\ DOMAIN limActive = 1 .. Len(limActive) /\ Len(limActive) \in Nat
              /\ limActive # <<>> /\ limActive[i] \in Deliveries
            BY <3>1
        <4>2. Len(limActive) \in i .. Len(limActive) /\ limActive[Len(limActive)] = limCalling
            BY <4>1, <1>d DEF Limiter!LastIsCalled
        <4> QED
            BY <4>1, <4>2, <2>2
    <3> QED
        BY <3>2, <2>2, <1>a DEF Limiter!ToSet, Limiter!RequestsOK
  <2>6. Limiter!RequestsOK'
      BY <2>1, <2>4, <2>5, <1>a DEF Limiter!RequestsOK, Limiter!CallEnds
  <2>7. Limiter!AnsweredByNewest'
      BY <2>2, <2>3, <2>5, <1>d DEF Limiter!AnsweredByNewest
  <2> QED
      BY <2>4, <2>6, <2>7 DEF Limiter!IInv, Limiter!TypeOK
<1>8. ASSUME Limiter!Fail PROVE Limiter!IInv'
  <2>1. PICK transient \in BOOLEAN :
            /\ Limiter!CallEnds
            /\ Limiter!Answer([r \in Deliveries |-> IF Limiter!Retries(r, transient) THEN "sleeping" ELSE "failed"])
            /\ limTries' = [r \in Deliveries |->
                              IF /\ r \in Limiter!ToSet(limActive) /\ limPlace[r] = "queued"
                                 /\ Limiter!Retries(r, transient)
                              THEN limTries[r] + 1 ELSE limTries[r]]
            /\ UNCHANGED limShown
      BY <1>8 DEF Limiter!Fail
  <2> DEFINE outcome == [r \in Deliveries |-> IF Limiter!Retries(r, transient) THEN "sleeping" ELSE "failed"]
  <2>2. \A r \in Deliveries : outcome[r] \in {"sleeping", "failed"}
      OBVIOUS
  <2>3. Limiter!CallEnds /\ Limiter!Answer(outcome)
      BY <2>1
  <2>4. /\ Limiter!QueueOK' /\ Limiter!WorkerOK' /\ Limiter!LastIsCalled' /\ Limiter!EntriesAreQueued'
        /\ Limiter!IdleHoldsNothing' /\ Limiter!NoWaiterIsLost'
        /\ limPlace' \in [Deliveries -> Limiter!Settled \cup {"unmade", "created", "queued", "sleeping"}]
      BY <2>2, <2>3, CallEndsKeeps
  <2>5. \A r \in Deliveries : limPlace'[r] = "done" => limPlace[r] = "done"
      BY <2>2, <2>3 DEF Limiter!Answer
  <2>6. limTries' \in [Deliveries -> 0 .. MaxRetries]
      BY <2>1, <1>a, LimiterConstants DEF Limiter!RequestsOK, Limiter!Retries
  <2>7. Limiter!RequestsOK'
      BY <2>1, <2>4, <2>6, <1>a DEF Limiter!RequestsOK, Limiter!CallEnds
  <2>8. Limiter!AnsweredByNewest'
      BY <2>1, <2>5, <1>d DEF Limiter!AnsweredByNewest
  <2> QED
      BY <2>4, <2>7, <2>8 DEF Limiter!IInv, Limiter!TypeOK
<1>9. ASSUME Limiter!OperationCancelled PROVE Limiter!IInv'
  <2> DEFINE outcome == [r \in Deliveries |-> "cancelled"]
  <2>1. Limiter!CallEnds /\ Limiter!Answer(outcome) /\ UNCHANGED <<limTries, limShown>>
      BY <1>9 DEF Limiter!OperationCancelled
  <2>2. /\ Limiter!QueueOK' /\ Limiter!WorkerOK' /\ Limiter!LastIsCalled' /\ Limiter!EntriesAreQueued'
        /\ Limiter!IdleHoldsNothing' /\ Limiter!NoWaiterIsLost'
        /\ limPlace' \in [Deliveries -> Limiter!Settled \cup {"unmade", "created", "queued", "sleeping"}]
      BY <2>1, CallEndsKeeps
  <2>3. Limiter!RequestsOK'
      BY <2>1, <2>2, <1>a DEF Limiter!RequestsOK, Limiter!CallEnds
  <2>4. \A r \in Deliveries : limPlace'[r] = "done" => limPlace[r] = "done"
      BY <2>1 DEF Limiter!Answer
  <2>5. Limiter!AnsweredByNewest'
      BY <2>1, <2>4, <1>d DEF Limiter!AnsweredByNewest
  <2> QED
      BY <2>2, <2>3, <2>5 DEF Limiter!IInv, Limiter!TypeOK
<1>10. ASSUME Limiter!Shutdown PROVE Limiter!IInv'
  <2>1. /\ limClosing = "open" /\ limClosing' = "stopping"
        /\ limQueue' = <<>> /\ limWaiting' = [k \in DedupKeys |-> <<>>]
        /\ limFunc' = [k \in DedupKeys |-> 0]
        /\ UNCHANGED <<limNext, limKey, limAwaited, limTries, limWorker, limActive,
                       limCalling, limShown>>
      BY <1>10 DEF Limiter!Shutdown, Limiter!workerVars
  <2>2. limPlace' = [r \in Deliveries |->
                        IF r \in Limiter!Cancelled /\ limPlace[r] = "queued"
                        THEN "cancelled" ELSE limPlace[r]]
      BY <1>10 DEF Limiter!Shutdown
  <2>3. Limiter!RequestsOK'
      BY <2>1, <2>2, <1>a DEF Limiter!RequestsOK, Limiter!Settled
  <2>4. Limiter!QueueOK' /\ Limiter!WorkerOK'
      BY <2>1, <1>c DEF Limiter!QueueOK, Limiter!WorkerOK
  <2>5. Limiter!LastIsCalled' /\ Limiter!EntriesAreQueued' /\ Limiter!IdleHoldsNothing'
      BY <2>1, <1>d DEF Limiter!LastIsCalled, Limiter!EntriesAreQueued, Limiter!IdleHoldsNothing
  <2>6. ASSUME NEW r \in Deliveries, limPlace[r] = "queued" PROVE r \in Limiter!Cancelled
    <3>1. r \in Limiter!ToSet(limActive) \/ \E k \in DedupKeys : r \in Limiter!ToSet(limWaiting[k])
        BY <2>6, <1>d DEF Limiter!NoWaiterIsLost
    <3>2. CASE r \in Limiter!ToSet(limActive)
        BY <3>2 DEF Limiter!Cancelled
    <3>3. ASSUME NEW k \in DedupKeys, r \in Limiter!ToSet(limWaiting[k]) PROVE r \in Limiter!Cancelled
        <4>1. Limiter!ToSet(limWaiting[k]) \in {Limiter!ToSet(limWaiting[j]) : j \in DedupKeys}
            OBVIOUS
        <4>2. r \in UNION {Limiter!ToSet(limWaiting[j]) : j \in DedupKeys}
            BY <3>3, <4>1
        <4> QED
            BY <4>2 DEF Limiter!Cancelled
    <3> QED
        BY <3>1, <3>2, <3>3
  <2>7. Limiter!NoWaiterIsLost' /\ Limiter!AnsweredByNewest'
      BY <2>1, <2>2, <2>6, <1>d DEF Limiter!NoWaiterIsLost, Limiter!AnsweredByNewest
  <2> QED
      BY <2>3, <2>4, <2>5, <2>7 DEF Limiter!IInv, Limiter!TypeOK
<1>11. ASSUME Limiter!WorkerStops PROVE Limiter!IInv'
  <2>1. /\ limClosing = "stopping" /\ limClosing' = "draining" /\ limWorker' = "stopped"
        /\ limActive' = <<>> /\ limCalling' = 0
        /\ UNCHANGED <<limNext, limKey, limAwaited, limPlace, limTries, limQueue, limWaiting,
                       limFunc, limShown>>
      BY <1>11 DEF Limiter!WorkerStops, Limiter!queueVars
  <2>2. Limiter!RequestsOK' /\ Limiter!QueueOK' /\ Limiter!WorkerOK'
      BY <2>1, <1>a, <1>b DEF Limiter!RequestsOK, Limiter!QueueOK, Limiter!WorkerOK
  <2>3. Limiter!LastIsCalled' /\ Limiter!EntriesAreQueued' /\ Limiter!IdleHoldsNothing'
        /\ Limiter!NoWaiterIsLost' /\ Limiter!AnsweredByNewest'
      BY <2>1, <1>d DEF Limiter!LastIsCalled, Limiter!EntriesAreQueued,
          Limiter!IdleHoldsNothing, Limiter!NoWaiterIsLost, Limiter!AnsweredByNewest
  <2> QED
      BY <2>2, <2>3 DEF Limiter!IInv, Limiter!TypeOK
<1>12. ASSUME Limiter!DrainTasks PROVE Limiter!IInv'
  <2>1. /\ limClosing = "draining" /\ limClosing' = "closed"
        /\ limPlace' = [r \in Deliveries |-> IF limPlace[r] \in {"created", "sleeping"}
                                             THEN "cancelled" ELSE limPlace[r]]
        /\ UNCHANGED <<limNext, limKey, limAwaited, limTries, limQueue, limWaiting, limFunc,
                       limWorker, limActive, limCalling, limShown>>
      BY <1>12 DEF Limiter!DrainTasks, Limiter!queueVars, Limiter!workerVars
  <2>2. Limiter!RequestsOK'
      BY <2>1, <1>a DEF Limiter!RequestsOK, Limiter!Settled
  <2>3. Limiter!QueueOK' /\ Limiter!WorkerOK'
      BY <2>1, <1>b, <1>c DEF Limiter!QueueOK, Limiter!WorkerOK
  <2>4. Limiter!LastIsCalled' /\ Limiter!EntriesAreQueued' /\ Limiter!IdleHoldsNothing'
        /\ Limiter!NoWaiterIsLost' /\ Limiter!AnsweredByNewest'
      BY <2>1, <1>d DEF Limiter!LastIsCalled, Limiter!EntriesAreQueued,
          Limiter!IdleHoldsNothing, Limiter!NoWaiterIsLost, Limiter!AnsweredByNewest
  <2> QED
      BY <2>2, <2>3, <2>4 DEF Limiter!IInv, Limiter!TypeOK
<1>13. ASSUME UNCHANGED Limiter!vars PROVE Limiter!IInv'
  <2>1. UNCHANGED <<limNext, limKey, limAwaited, limPlace, limTries, limQueue, limWaiting,
                    limFunc, limWorker, limActive, limCalling, limClosing, limShown>>
      BY <1>13 DEF Limiter!vars
  <2>2. Limiter!RequestsOK' /\ Limiter!QueueOK' /\ Limiter!WorkerOK'
      BY <2>1, <1>a, <1>b, <1>c DEF Limiter!RequestsOK, Limiter!QueueOK, Limiter!WorkerOK
  <2>3. Limiter!LastIsCalled' /\ Limiter!EntriesAreQueued' /\ Limiter!IdleHoldsNothing'
        /\ Limiter!NoWaiterIsLost' /\ Limiter!AnsweredByNewest'
      BY <2>1, <1>d DEF Limiter!LastIsCalled, Limiter!EntriesAreQueued,
          Limiter!IdleHoldsNothing, Limiter!NoWaiterIsLost, Limiter!AnsweredByNewest
  <2> QED
      BY <2>2, <2>3 DEF Limiter!IInv, Limiter!TypeOK
<1> QED
    BY <1>1, <1>2, <1>3, <1>4, <1>5, <1>6, <1>7, <1>8, <1>9, <1>10, <1>11, <1>12, <1>13 DEF
        Limiter!Next, Limiter!WorkerStep

LEMMA LimiterMoves == [MCNext]_MCVars => [Limiter!Next]_Limiter!vars
BY DEF MCNext, MCVars, limiterVars, Limiter!vars

LEMMA LimiterInvariant == MCSpec => []Limiter!IInv
<1>1. MCInit => Limiter!IInv
    BY LimiterInit DEF MCInit
<1>2. Limiter!IInv /\ [MCNext]_MCVars => Limiter!IInv'
    BY LimiterStep, LimiterMoves
<1> QED
    BY <1>1, <1>2, PTL DEF MCSpec

\* However requests are merged, retried, cancelled or cut short: whoever is told
\* that a delivery was made saw its own text or one queued after it
\* (messaging/limiter.py, _enqueue_internal_multi and the worker).
THEOREM DeliveredTextIsNewest == MCSpec => []AnsweredByNewest
<1>1. Limiter!IInv => AnsweredByNewest
    BY DEF AnsweredByNewest, Limiter!IInv
<1> QED
    BY <1>1, LimiterInvariant, PTL

\* A request that is waited for sits in an entry of the queue under a key that
\* is queued, or is in the worker's hands; a limiter that closes leaves none.
THEOREM WaitersAreHeld == MCSpec => []Limiter!NoWaiterIsLost
<1>1. Limiter!IInv => Limiter!NoWaiterIsLost
    BY DEF Limiter!IInv
<1> QED
    BY <1>1, LimiterInvariant, PTL

(***************************************************************************)
(* Message intake                                                          *)
(***************************************************************************)

LEMMA IntakeConstants ==
    /\ Typed \cap Voices = {}
    /\ \A m \in Typed \cup Voices : Chat[m] \in {Chat[x] : x \in Typed \cup Voices}
BY ServicesAssumption DEF Intake!ConstantsOK, Intake!Messages, Intake!Chats

LEMMA IntakeInit == Intake!Init => Intake!IInv
<1> SUFFICES ASSUME Intake!Init PROVE Intake!IInv
    OBVIOUS
<1> USE DEF Intake!Init, Intake!Messages, Intake!Chats, Intake!Commands, Intake!Ended,
    Intake!Kinds, Intake!Texts, Intake!Stages, Intake!HandedOff, Intake!Abandoned
<1>1. Intake!TextsOK
    BY DEF Intake!TextsOK
<1>2. Intake!WorkflowOK
    BY DEF Intake!WorkflowOK
<1>3. Intake!NotesOK /\ Intake!RegistryOK
    BY DEF Intake!NotesOK, Intake!RegistryOK
<1>4. Intake!MessagePlaces /\ Intake!VoicePlaces /\ Intake!TypedPlaces
    BY DEF Intake!MessagePlaces, Intake!VoicePlaces, Intake!TypedPlaces
<1>5. Intake!TokensAreOld /\ Intake!StatusHasOwner
    BY DEF Intake!TokensAreOld, Intake!StatusHasOwner
<1>6. Intake!CommandsBar
    BY DEF Intake!CommandsBar
<1> QED
    BY <1>1, <1>2, <1>3, <1>4, <1>5, <1>6 DEF Intake!IInv, Intake!TypeOK

\* What a step must keep for the commands that ran before it: what is barred
\* stays barred, and what a running command holds stays held.
Bars == /\ \A x \in Intake!Messages : Intake!Barred(x) => Intake!Barred(x)'
        /\ \A m, x \in Intake!Messages : inStage[m] = "drain" /\ Intake!Held(m, x) => Intake!Held(m, x)'

\* A step that begins or ends no command, and says no notice again.
NoCommandMoves ==
    /\ UNCHANGED <<inReach, inAim>>
    /\ \A m \in Intake!Messages : inStage'[m] = "drain" => inStage[m] = "drain" /\ inSaid'[m] = inSaid[m]
    /\ \A m \in Intake!Messages :
         inStage'[m] = "done" /\ inSaid'[m] \in Intake!Commands => inStage[m] = "done" /\ inSaid'[m] = inSaid[m]
    /\ \A x \in Intake!Messages : inSaid'[x] = "notice" =>
         inSaid[x] = "notice" \/ (x \in Typed /\ inStage[x] = "absent")

LEMMA CommandsBarKept ==
    ASSUME Intake!IInv, Bars, NoCommandMoves
    PROVE  Intake!CommandsBar'
<1> SUFFICES ASSUME NEW m \in Intake!Messages, inSaid'[m] \in Intake!Commands, NEW x \in inReach'[m]
             PROVE  /\ inStage'[m] = "done" => Intake!Barred(x)'
                    /\ inStage'[m] = "drain" => /\ Intake!Held(m, x)' /\ x \in inAim'[m]
                                                /\ inSaid'[m] = "stop" => inSaid'[x] # "notice"
                                                /\ inSaid'[m] = "clear" => Chat[x] = Chat[m]
    BY DEF Intake!CommandsBar
<1>1. x \in inReach[m] /\ x \in Intake!Messages
    BY DEF Intake!IInv, Intake!TypeOK, Intake!RegistryOK, NoCommandMoves
<1>2. Intake!CommandsBar
    BY DEF Intake!IInv
<1>3. CASE inStage'[m] = "done"
    <2>1. inStage[m] = "done" /\ inSaid'[m] = inSaid[m]
        BY <1>3 DEF NoCommandMoves
    <2>2. Intake!Barred(x)
        BY <1>1, <1>2, <2>1 DEF Intake!CommandsBar
    <2> QED
        BY <1>1, <1>3, <2>2 DEF Bars
<1>4. CASE inStage'[m] = "drain"
    <2>1. inStage[m] = "drain" /\ inSaid'[m] = inSaid[m]
        BY <1>4 DEF NoCommandMoves
    <2>2. /\ Intake!Held(m, x) /\ x \in inAim[m]
          /\ inSaid[m] = "stop" => inSaid[x] # "notice"
          /\ inSaid[m] = "clear" => Chat[x] = Chat[m]
        BY <1>1, <1>2, <2>1 DEF Intake!CommandsBar
    <2>3. Intake!Held(m, x)'
        BY <1>1, <2>1, <2>2 DEF Bars
    <2>4. inAim' = inAim
        BY DEF NoCommandMoves
    <2>5. inSaid'[x] = "notice" => inSaid[x] = "notice"
        <3>1. x \in Typed => inStage[x] # "absent"
            BY <2>2, IntakeConstants DEF Intake!Held, Intake!Barred, Intake!Ended
        <3> QED
            BY <1>1, <3>1 DEF NoCommandMoves
    <2> QED
        BY <1>4, <2>1, <2>2, <2>3, <2>4, <2>5
<1> QED
    BY <1>3, <1>4

LEMMA BeginKeeps ==
    ASSUME Intake!IInv, NEW m \in Intake!Messages, NEW kind \in Intake!Texts \cup {"notice"},
           Intake!Begin(m, kind), m \in Voices => kind # "notice",
           \/ m \in Typed /\ inStage[m] = "absent"
           \/ m \in Voices /\ inStage[m] = "token" /\ m \notin inDoomed
    PROVE  Intake!IInv'
<1> USE DEF Intake!Messages, Intake!Chats, Intake!Commands, Intake!Ended, Intake!Kinds,
    Intake!Texts, Intake!Stages, Intake!HandedOff, Intake!Abandoned
<1>a. Intake!TextsOK
    BY DEF Intake!IInv, Intake!TypeOK
<1>b. Intake!WorkflowOK
    BY DEF Intake!IInv, Intake!TypeOK
<1>c. Intake!NotesOK
    BY DEF Intake!IInv, Intake!TypeOK
<1>d. Intake!RegistryOK
    BY DEF Intake!IInv, Intake!TypeOK
<1>e. Intake!MessagePlaces
    BY DEF Intake!IInv
<1>f. Intake!VoicePlaces
    BY DEF Intake!IInv
<1>g. Intake!TypedPlaces
    BY DEF Intake!IInv
<1>h. Intake!TokensAreOld
    BY DEF Intake!IInv
<1>i. Intake!StatusHasOwner
    BY DEF Intake!IInv
<1>1. /\ inSaid' = [inSaid EXCEPT ![m] = kind]
      /\ inStage' = [inStage EXCEPT ![m] = Intake!FirstStage(kind)]
      /\ inToken' = [inToken EXCEPT ![m] = IF kind \in Intake!Commands THEN @ ELSE <<inStopGen, inClearGen[Chat[m]]>>]
      /\ UNCHANGED <<inAim, inStopGen, inClearGen, inTurn, inNote, inPending, inDoomed, inSwept, inReach, inStatus>>
    BY DEF Intake!Begin, Intake!CurrentToken, Intake!workflowVars, Intake!textVars,
        Intake!registryVars
<1>k. /\ kind \in Intake!Commands => Intake!FirstStage(kind) = "sweep"
      /\ kind = "other" => Intake!FirstStage(kind) = "done"
      /\ kind \in {"prompt", "notice"} => Intake!FirstStage(kind) = "status"
    BY DEF Intake!FirstStage
<1>2. Intake!TextsOK' /\ Intake!WorkflowOK'
    BY <1>1, <1>k, <1>a, <1>b, <1>d, IntakeConstants DEF Intake!TextsOK, Intake!WorkflowOK,
        Intake!RegistryOK
<1>3. Intake!NotesOK' /\ Intake!RegistryOK'
    BY <1>1, <1>c, <1>d, IntakeConstants DEF Intake!NotesOK, Intake!RegistryOK
<1>4. Intake!MessagePlaces'
    BY <1>1, <1>k, <1>a, <1>b, <1>e, IntakeConstants DEF Intake!TextsOK, Intake!WorkflowOK,
        Intake!MessagePlaces
<1>5. Intake!VoicePlaces'
    BY <1>1, <1>k, <1>a, <1>c, <1>d, <1>f, IntakeConstants DEF Intake!TextsOK, Intake!NotesOK,
        Intake!RegistryOK, Intake!VoicePlaces
<1>6. Intake!TypedPlaces'
    BY <1>1, <1>k, <1>a, <1>g, IntakeConstants DEF Intake!TextsOK, Intake!TypedPlaces
<1>7. Intake!TokensAreOld'
    BY <1>1, <1>k, <1>a, <1>b, <1>h, IntakeConstants DEF Intake!TextsOK, Intake!WorkflowOK,
        Intake!TokensAreOld
<1>8. Intake!StatusHasOwner'
    BY <1>1, <1>k, <1>a, <1>c, <1>d, <1>e, <1>f, <1>i, IntakeConstants DEF Intake!TextsOK,
        Intake!NotesOK, Intake!RegistryOK, Intake!MessagePlaces, Intake!VoicePlaces,
        Intake!StatusHasOwner
<1>9. Bars
    BY <1>1, <1>k, <1>a, <1>b, <1>c, <1>d, <1>e, <1>f, <1>g, IntakeConstants DEF Intake!TextsOK,
        Intake!WorkflowOK, Intake!NotesOK, Intake!RegistryOK, Intake!MessagePlaces,
        Intake!VoicePlaces, Intake!TypedPlaces, Bars, Intake!Held, Intake!Barred,
        Intake!Outdated
<1>10. NoCommandMoves
    BY <1>1, <1>k, <1>a, <1>e, IntakeConstants DEF Intake!TextsOK, Intake!MessagePlaces,
        NoCommandMoves
<1>11. Intake!CommandsBar'
    BY <1>9, <1>10, CommandsBarKept
<1> QED
    BY <1>2, <1>3, <1>4, <1>5, <1>6, <1>7, <1>8, <1>11 DEF Intake!IInv, Intake!TypeOK

LEMMA StatusShownKeeps ==
    ASSUME Intake!IInv, NEW m \in Intake!Messages, Intake!StatusShown(m)
    PROVE  Intake!IInv'
<1> USE DEF Intake!Messages, Intake!Chats, Intake!Commands, Intake!Ended, Intake!Kinds,
    Intake!Texts, Intake!Stages, Intake!HandedOff, Intake!Abandoned
<1>a. Intake!TextsOK
    BY DEF Intake!IInv, Intake!TypeOK
<1>b. Intake!WorkflowOK
    BY DEF Intake!IInv, Intake!TypeOK
<1>c. Intake!NotesOK
    BY DEF Intake!IInv, Intake!TypeOK
<1>d. Intake!RegistryOK
    BY DEF Intake!IInv, Intake!TypeOK
<1>e. Intake!MessagePlaces
    BY DEF Intake!IInv
<1>f. Intake!VoicePlaces
    BY DEF Intake!IInv
<1>g. Intake!TypedPlaces
    BY DEF Intake!IInv
<1>h. Intake!TokensAreOld
    BY DEF Intake!IInv
<1>i. Intake!StatusHasOwner
    BY DEF Intake!IInv
<1>1. /\ inStage[m] = "status" /\ m \notin inDoomed
      /\ \/ /\ inStage' = [inStage EXCEPT ![m] = "admit"]
            /\ inStatus' = IF m \in Voices THEN [inStatus EXCEPT ![m] = "turn"] ELSE inStatus
         \/ inStage' = [inStage EXCEPT ![m] = "failed"] /\ inStatus' = inStatus
      /\ UNCHANGED <<inSaid, inAim, inToken, inStopGen, inClearGen, inTurn, inNote, inPending, inDoomed, inSwept, inReach>>
    BY DEF Intake!StatusShown, Intake!workflowVars, Intake!textVars, Intake!registryVars
<1>2. Intake!TextsOK' /\ Intake!WorkflowOK'
    BY <1>1, <1>a, <1>b, <1>d, IntakeConstants DEF Intake!TextsOK, Intake!WorkflowOK,
        Intake!RegistryOK
<1>3. Intake!NotesOK' /\ Intake!RegistryOK'
    BY <1>1, <1>c, <1>d, IntakeConstants DEF Intake!NotesOK, Intake!RegistryOK
<1>4. Intake!MessagePlaces'
    BY <1>1, <1>a, <1>b, <1>e, IntakeConstants DEF Intake!TextsOK, Intake!WorkflowOK,
        Intake!MessagePlaces
<1>5. Intake!VoicePlaces'
    BY <1>1, <1>a, <1>c, <1>d, <1>f, IntakeConstants DEF Intake!TextsOK, Intake!NotesOK,
        Intake!RegistryOK, Intake!VoicePlaces
<1>6. Intake!TypedPlaces'
    BY <1>1, <1>a, <1>g, IntakeConstants DEF Intake!TextsOK, Intake!TypedPlaces
<1>7. Intake!TokensAreOld'
    BY <1>1, <1>a, <1>b, <1>h, IntakeConstants DEF Intake!TextsOK, Intake!WorkflowOK,
        Intake!TokensAreOld
<1>8. Intake!StatusHasOwner'
    BY <1>1, <1>a, <1>c, <1>d, <1>e, <1>f, <1>i, IntakeConstants DEF Intake!TextsOK,
        Intake!NotesOK, Intake!RegistryOK, Intake!MessagePlaces, Intake!VoicePlaces,
        Intake!StatusHasOwner
<1>9. Bars
    BY <1>1, <1>a, <1>b, <1>c, <1>d, <1>e, <1>f, <1>g, IntakeConstants DEF Intake!TextsOK,
        Intake!WorkflowOK, Intake!NotesOK, Intake!RegistryOK, Intake!MessagePlaces,
        Intake!VoicePlaces, Intake!TypedPlaces, Bars, Intake!Held, Intake!Barred,
        Intake!Outdated
<1>10. NoCommandMoves
    BY <1>1, <1>a, <1>e, IntakeConstants DEF Intake!TextsOK, Intake!MessagePlaces,
        NoCommandMoves
<1>11. Intake!CommandsBar'
    BY <1>9, <1>10, CommandsBarKept
<1> QED
    BY <1>2, <1>3, <1>4, <1>5, <1>6, <1>7, <1>8, <1>11 DEF Intake!IInv, Intake!TypeOK

LEMMA AdmitKeeps ==
    ASSUME Intake!IInv, NEW m \in Intake!Messages, Intake!Admit(m)
    PROVE  Intake!IInv'
<1> USE DEF Intake!Messages, Intake!Chats, Intake!Commands, Intake!Ended, Intake!Kinds,
    Intake!Texts, Intake!Stages, Intake!HandedOff, Intake!Abandoned
<1>a. Intake!TextsOK
    BY DEF Intake!IInv, Intake!TypeOK
<1>b. Intake!WorkflowOK
    BY DEF Intake!IInv, Intake!TypeOK
<1>c. Intake!NotesOK
    BY DEF Intake!IInv, Intake!TypeOK
<1>d. Intake!RegistryOK
    BY DEF Intake!IInv, Intake!TypeOK
<1>e. Intake!MessagePlaces
    BY DEF Intake!IInv
<1>f. Intake!VoicePlaces
    BY DEF Intake!IInv
<1>g. Intake!TypedPlaces
    BY DEF Intake!IInv
<1>h. Intake!TokensAreOld
    BY DEF Intake!IInv
<1>i. Intake!StatusHasOwner
    BY DEF Intake!IInv
<1>1. /\ inStage[m] = "admit"
      /\ \/ /\ ~Intake!Outdated(m)
            /\ inStage' = [inStage EXCEPT ![m] = "done"]
            /\ inTurn' = [inTurn EXCEPT ![m] = "alive"]
         \/ inStage' = [inStage EXCEPT ![m] = "discard"] /\ inTurn' = inTurn
      /\ UNCHANGED <<inSaid, inAim, inToken, inStopGen, inClearGen, inNote, inPending, inDoomed, inSwept, inReach, inStatus>>
    BY <1>a, <1>b, IntakeConstants DEF Intake!Admit, Intake!MayAdmit, Intake!CurrentToken,
        Intake!Outdated, Intake!TextsOK, Intake!WorkflowOK, Intake!textVars, Intake!registryVars
<1>2. Intake!TextsOK' /\ Intake!WorkflowOK'
    BY <1>1, <1>a, <1>b, <1>d, IntakeConstants DEF Intake!TextsOK, Intake!WorkflowOK,
        Intake!RegistryOK
<1>3. Intake!NotesOK' /\ Intake!RegistryOK'
    BY <1>1, <1>c, <1>d, IntakeConstants DEF Intake!NotesOK, Intake!RegistryOK
<1>4. Intake!MessagePlaces'
    BY <1>1, <1>a, <1>b, <1>e, IntakeConstants DEF Intake!TextsOK, Intake!WorkflowOK,
        Intake!MessagePlaces
<1>5. Intake!VoicePlaces'
    BY <1>1, <1>a, <1>c, <1>d, <1>f, IntakeConstants DEF Intake!TextsOK, Intake!NotesOK,
        Intake!RegistryOK, Intake!VoicePlaces
<1>6. Intake!TypedPlaces'
    BY <1>1, <1>a, <1>g, IntakeConstants DEF Intake!TextsOK, Intake!TypedPlaces
<1>7. Intake!TokensAreOld'
    BY <1>1, <1>a, <1>b, <1>h, IntakeConstants DEF Intake!TextsOK, Intake!WorkflowOK,
        Intake!TokensAreOld
<1>8. Intake!StatusHasOwner'
    BY <1>1, <1>a, <1>c, <1>d, <1>e, <1>f, <1>i, IntakeConstants DEF Intake!TextsOK,
        Intake!NotesOK, Intake!RegistryOK, Intake!MessagePlaces, Intake!VoicePlaces,
        Intake!StatusHasOwner
<1>9. Bars
    BY <1>1, <1>a, <1>b, <1>c, <1>d, <1>e, <1>f, <1>g, IntakeConstants DEF Intake!TextsOK,
        Intake!WorkflowOK, Intake!NotesOK, Intake!RegistryOK, Intake!MessagePlaces,
        Intake!VoicePlaces, Intake!TypedPlaces, Bars, Intake!Held, Intake!Barred,
        Intake!Outdated
<1>10. NoCommandMoves
    BY <1>1, <1>a, <1>e, IntakeConstants DEF Intake!TextsOK, Intake!MessagePlaces,
        NoCommandMoves
<1>11. Intake!CommandsBar'
    BY <1>9, <1>10, CommandsBarKept
<1> QED
    BY <1>2, <1>3, <1>4, <1>5, <1>6, <1>7, <1>8, <1>11 DEF Intake!IInv, Intake!TypeOK

LEMMA DiscardKeeps ==
    ASSUME Intake!IInv, NEW m \in Intake!Messages, Intake!Discard(m)
    PROVE  Intake!IInv'
<1> USE DEF Intake!Messages, Intake!Chats, Intake!Commands, Intake!Ended, Intake!Kinds,
    Intake!Texts, Intake!Stages, Intake!HandedOff, Intake!Abandoned
<1>a. Intake!TextsOK
    BY DEF Intake!IInv, Intake!TypeOK
<1>b. Intake!WorkflowOK
    BY DEF Intake!IInv, Intake!TypeOK
<1>c. Intake!NotesOK
    BY DEF Intake!IInv, Intake!TypeOK
<1>d. Intake!RegistryOK
    BY DEF Intake!IInv, Intake!TypeOK
<1>e. Intake!MessagePlaces
    BY DEF Intake!IInv
<1>f. Intake!VoicePlaces
    BY DEF Intake!IInv
<1>g. Intake!TypedPlaces
    BY DEF Intake!IInv
<1>h. Intake!TokensAreOld
    BY DEF Intake!IInv
<1>i. Intake!StatusHasOwner
    BY DEF Intake!IInv
<1>1. /\ inStage[m] = "discard"
      /\ inStage' = [inStage EXCEPT ![m] = "done"]
      /\ inStatus' = IF m \in Voices THEN [inStatus EXCEPT ![m] = "closed"] ELSE inStatus
      /\ UNCHANGED <<inSaid, inAim, inToken, inStopGen, inClearGen, inTurn, inNote, inPending, inDoomed, inSwept, inReach>>
    BY DEF Intake!Discard, Intake!workflowVars, Intake!textVars, Intake!registryVars
<1>2. Intake!TextsOK' /\ Intake!WorkflowOK'
    BY <1>1, <1>a, <1>b, <1>d, IntakeConstants DEF Intake!TextsOK, Intake!WorkflowOK,
        Intake!RegistryOK
<1>3. Intake!NotesOK' /\ Intake!RegistryOK'
    BY <1>1, <1>c, <1>d, IntakeConstants DEF Intake!NotesOK, Intake!RegistryOK
<1>4. Intake!MessagePlaces'
    BY <1>1, <1>a, <1>b, <1>e, IntakeConstants DEF Intake!TextsOK, Intake!WorkflowOK,
        Intake!MessagePlaces
<1>5. Intake!VoicePlaces'
    BY <1>1, <1>a, <1>c, <1>d, <1>f, IntakeConstants DEF Intake!TextsOK, Intake!NotesOK,
        Intake!RegistryOK, Intake!VoicePlaces
<1>6. Intake!TypedPlaces'
    BY <1>1, <1>a, <1>g, IntakeConstants DEF Intake!TextsOK, Intake!TypedPlaces
<1>7. Intake!TokensAreOld'
    BY <1>1, <1>a, <1>b, <1>h, IntakeConstants DEF Intake!TextsOK, Intake!WorkflowOK,
        Intake!TokensAreOld
<1>8. Intake!StatusHasOwner'
    BY <1>1, <1>a, <1>c, <1>d, <1>e, <1>f, <1>i, IntakeConstants DEF Intake!TextsOK,
        Intake!NotesOK, Intake!RegistryOK, Intake!MessagePlaces, Intake!VoicePlaces,
        Intake!StatusHasOwner
<1>9. Bars
    BY <1>1, <1>a, <1>b, <1>c, <1>d, <1>e, <1>f, <1>g, IntakeConstants DEF Intake!TextsOK,
        Intake!WorkflowOK, Intake!NotesOK, Intake!RegistryOK, Intake!MessagePlaces,
        Intake!VoicePlaces, Intake!TypedPlaces, Bars, Intake!Held, Intake!Barred,
        Intake!Outdated
<1>10. NoCommandMoves
    BY <1>1, <1>a, <1>e, IntakeConstants DEF Intake!TextsOK, Intake!MessagePlaces,
        NoCommandMoves
<1>11. Intake!CommandsBar'
    BY <1>9, <1>10, CommandsBarKept
<1> QED
    BY <1>2, <1>3, <1>4, <1>5, <1>6, <1>7, <1>8, <1>11 DEF Intake!IInv, Intake!TypeOK

LEMMA HandoffCancelledKeeps ==
    ASSUME Intake!IInv, NEW v \in Voices, Intake!HandoffCancelled(v)
    PROVE  Intake!IInv'
<1> USE DEF Intake!Messages, Intake!Chats, Intake!Commands, Intake!Ended, Intake!Kinds,
    Intake!Texts, Intake!Stages, Intake!HandedOff, Intake!Abandoned
<1>a. Intake!TextsOK
    BY DEF Intake!IInv, Intake!TypeOK
<1>b. Intake!WorkflowOK
    BY DEF Intake!IInv, Intake!TypeOK
<1>c. Intake!NotesOK
    BY DEF Intake!IInv, Intake!TypeOK
<1>d. Intake!RegistryOK
    BY DEF Intake!IInv, Intake!TypeOK
<1>e. Intake!MessagePlaces
    BY DEF Intake!IInv
<1>f. Intake!VoicePlaces
    BY DEF Intake!IInv
<1>g. Intake!TypedPlaces
    BY DEF Intake!IInv
<1>h. Intake!TokensAreOld
    BY DEF Intake!IInv
<1>i. Intake!StatusHasOwner
    BY DEF Intake!IInv
<1>1. /\ v \in inDoomed /\ inStage[v] \in {"token", "status", "discard"}
      /\ inStage' = [inStage EXCEPT ![v] = "cancelled"]
      /\ UNCHANGED <<inSaid, inAim, inToken, inStopGen, inClearGen, inTurn, inNote, inPending, inDoomed, inSwept, inReach, inStatus>>
    BY DEF Intake!HandoffCancelled, Intake!workflowVars, Intake!textVars, Intake!registryVars
<1>2. Intake!TextsOK' /\ Intake!WorkflowOK'
    BY <1>1, <1>a, <1>b, <1>d, IntakeConstants DEF Intake!TextsOK, Intake!WorkflowOK,
        Intake!RegistryOK
<1>3. Intake!NotesOK' /\ Intake!RegistryOK'
    BY <1>1, <1>c, <1>d, IntakeConstants DEF Intake!NotesOK, Intake!RegistryOK
<1>4. Intake!MessagePlaces'
    BY <1>1, <1>a, <1>b, <1>e, IntakeConstants DEF Intake!TextsOK, Intake!WorkflowOK,
        Intake!MessagePlaces
<1>5. Intake!VoicePlaces'
    BY <1>1, <1>a, <1>c, <1>d, <1>f, IntakeConstants DEF Intake!TextsOK, Intake!NotesOK,
        Intake!RegistryOK, Intake!VoicePlaces
<1>6. Intake!TypedPlaces'
    BY <1>1, <1>a, <1>g, IntakeConstants DEF Intake!TextsOK, Intake!TypedPlaces
<1>7. Intake!TokensAreOld'
    BY <1>1, <1>a, <1>b, <1>h, IntakeConstants DEF Intake!TextsOK, Intake!WorkflowOK,
        Intake!TokensAreOld
<1>8. Intake!StatusHasOwner'
    BY <1>1, <1>a, <1>c, <1>d, <1>e, <1>f, <1>i, IntakeConstants DEF Intake!TextsOK,
        Intake!NotesOK, Intake!RegistryOK, Intake!MessagePlaces, Intake!VoicePlaces,
        Intake!StatusHasOwner
<1>9. Bars
    BY <1>1, <1>a, <1>b, <1>c, <1>d, <1>e, <1>f, <1>g, IntakeConstants DEF Intake!TextsOK,
        Intake!WorkflowOK, Intake!NotesOK, Intake!RegistryOK, Intake!MessagePlaces,
        Intake!VoicePlaces, Intake!TypedPlaces, Bars, Intake!Held, Intake!Barred,
        Intake!Outdated
<1>10. NoCommandMoves
    BY <1>1, <1>a, <1>e, IntakeConstants DEF Intake!TextsOK, Intake!MessagePlaces,
        NoCommandMoves
<1>11. Intake!CommandsBar'
    BY <1>9, <1>10, CommandsBarKept
<1> QED
    BY <1>2, <1>3, <1>4, <1>5, <1>6, <1>7, <1>8, <1>11 DEF Intake!IInv, Intake!TypeOK

LEMMA ReserveKeeps ==
    ASSUME Intake!IInv, NEW v \in Voices, Intake!Reserve(v)
    PROVE  Intake!IInv'
<1> USE DEF Intake!Messages, Intake!Chats, Intake!Commands, Intake!Ended, Intake!Kinds,
    Intake!Texts, Intake!Stages, Intake!HandedOff, Intake!Abandoned
<1>a. Intake!TextsOK
    BY DEF Intake!IInv, Intake!TypeOK
<1>b. Intake!WorkflowOK
    BY DEF Intake!IInv, Intake!TypeOK
<1>c. Intake!NotesOK
    BY DEF Intake!IInv, Intake!TypeOK
<1>d. Intake!RegistryOK
    BY DEF Intake!IInv, Intake!TypeOK
<1>e. Intake!MessagePlaces
    BY DEF Intake!IInv
<1>f. Intake!VoicePlaces
    BY DEF Intake!IInv
<1>g. Intake!TypedPlaces
    BY DEF Intake!IInv
<1>h. Intake!TokensAreOld
    BY DEF Intake!IInv
<1>i. Intake!StatusHasOwner
    BY DEF Intake!IInv
<1>1. /\ inNote[v] = "absent"
      /\ inNote' = [inNote EXCEPT ![v] = "sending"]
      /\ inPending' = inPending \cup {v}
      /\ UNCHANGED <<inStage, inSaid, inAim, inToken, inStopGen, inClearGen, inTurn, inDoomed, inSwept, inReach, inStatus>>
    BY DEF Intake!Reserve, Intake!workflowVars, Intake!textVars, Intake!registryVars
<1>2. Intake!TextsOK' /\ Intake!WorkflowOK'
    BY <1>1, <1>a, <1>b, <1>d, IntakeConstants DEF Intake!TextsOK, Intake!WorkflowOK,
        Intake!RegistryOK
<1>3. Intake!NotesOK' /\ Intake!RegistryOK'
    BY <1>1, <1>c, <1>d, IntakeConstants DEF Intake!NotesOK, Intake!RegistryOK
<1>4. Intake!MessagePlaces'
    BY <1>1, <1>a, <1>b, <1>e, IntakeConstants DEF Intake!TextsOK, Intake!WorkflowOK,
        Intake!MessagePlaces
<1>5. Intake!VoicePlaces'
    BY <1>1, <1>a, <1>c, <1>d, <1>f, IntakeConstants DEF Intake!TextsOK, Intake!NotesOK,
        Intake!RegistryOK, Intake!VoicePlaces
<1>6. Intake!TypedPlaces'
    BY <1>1, <1>a, <1>g, IntakeConstants DEF Intake!TextsOK, Intake!TypedPlaces
<1>7. Intake!TokensAreOld'
    BY <1>1, <1>a, <1>b, <1>h, IntakeConstants DEF Intake!TextsOK, Intake!WorkflowOK,
        Intake!TokensAreOld
<1>8. Intake!StatusHasOwner'
    BY <1>1, <1>a, <1>c, <1>d, <1>e, <1>f, <1>i, IntakeConstants DEF Intake!TextsOK,
        Intake!NotesOK, Intake!RegistryOK, Intake!MessagePlaces, Intake!VoicePlaces,
        Intake!StatusHasOwner
<1>9. Bars
    BY <1>1, <1>a, <1>b, <1>c, <1>d, <1>e, <1>f, <1>g, IntakeConstants DEF Intake!TextsOK,
        Intake!WorkflowOK, Intake!NotesOK, Intake!RegistryOK, Intake!MessagePlaces,
        Intake!VoicePlaces, Intake!TypedPlaces, Bars, Intake!Held, Intake!Barred,
        Intake!Outdated
<1>10. NoCommandMoves
    BY <1>1, <1>a, <1>e, IntakeConstants DEF Intake!TextsOK, Intake!MessagePlaces,
        NoCommandMoves
<1>11. Intake!CommandsBar'
    BY <1>9, <1>10, CommandsBarKept
<1> QED
    BY <1>2, <1>3, <1>4, <1>5, <1>6, <1>7, <1>8, <1>11 DEF Intake!IInv, Intake!TypeOK

LEMMA BindKeeps ==
    ASSUME Intake!IInv, NEW v \in Voices, Intake!Bind(v)
    PROVE  Intake!IInv'
<1> USE DEF Intake!Messages, Intake!Chats, Intake!Commands, Intake!Ended, Intake!Kinds,
    Intake!Texts, Intake!Stages, Intake!HandedOff, Intake!Abandoned
<1>a. Intake!TextsOK
    BY DEF Intake!IInv, Intake!TypeOK
<1>b. Intake!WorkflowOK
    BY DEF Intake!IInv, Intake!TypeOK
<1>c. Intake!NotesOK
    BY DEF Intake!IInv, Intake!TypeOK
<1>d. Intake!RegistryOK
    BY DEF Intake!IInv, Intake!TypeOK
<1>e. Intake!MessagePlaces
    BY DEF Intake!IInv
<1>f. Intake!VoicePlaces
    BY DEF Intake!IInv
<1>g. Intake!TypedPlaces
    BY DEF Intake!IInv
<1>h. Intake!TokensAreOld
    BY DEF Intake!IInv
<1>i. Intake!StatusHasOwner
    BY DEF Intake!IInv
<1>1. /\ inNote[v] = "sending"
      /\ \/ /\ v \in inPending
            /\ inNote' = [inNote EXCEPT ![v] = "transcribing"]
            /\ inStatus' = [inStatus EXCEPT ![v] = "transcribing"]
         \/ /\ v \notin inPending
            /\ inNote' = [inNote EXCEPT ![v] = "done"]
            /\ inStatus' = [inStatus EXCEPT ![v] = "closed"]
      /\ UNCHANGED <<inStage, inSaid, inAim, inToken, inStopGen, inClearGen, inTurn, inPending, inDoomed, inSwept, inReach>>
    BY DEF Intake!Bind, Intake!workflowVars, Intake!textVars, Intake!registryVars
<1>2. Intake!TextsOK' /\ Intake!WorkflowOK'
    BY <1>1, <1>a, <1>b, <1>d, IntakeConstants DEF Intake!TextsOK, Intake!WorkflowOK,
        Intake!RegistryOK
<1>3. Intake!NotesOK' /\ Intake!RegistryOK'
    BY <1>1, <1>c, <1>d, IntakeConstants DEF Intake!NotesOK, Intake!RegistryOK
<1>4. Intake!MessagePlaces'
    BY <1>1, <1>a, <1>b, <1>e, IntakeConstants DEF Intake!TextsOK, Intake!WorkflowOK,
        Intake!MessagePlaces
<1>5. Intake!VoicePlaces'
    BY <1>1, <1>a, <1>c, <1>d, <1>f, IntakeConstants DEF Intake!TextsOK, Intake!NotesOK,
        Intake!RegistryOK, Intake!VoicePlaces
<1>6. Intake!TypedPlaces'
    BY <1>1, <1>a, <1>g, IntakeConstants DEF Intake!TextsOK, Intake!TypedPlaces
<1>7. Intake!TokensAreOld'
    BY <1>1, <1>a, <1>b, <1>h, IntakeConstants DEF Intake!TextsOK, Intake!WorkflowOK,
        Intake!TokensAreOld
<1>8. Intake!StatusHasOwner'
    BY <1>1, <1>a, <1>c, <1>d, <1>e, <1>f, <1>i, IntakeConstants DEF Intake!TextsOK,
        Intake!NotesOK, Intake!RegistryOK, Intake!MessagePlaces, Intake!VoicePlaces,
        Intake!StatusHasOwner
<1>9. Bars
    BY <1>1, <1>a, <1>b, <1>c, <1>d, <1>e, <1>f, <1>g, IntakeConstants DEF Intake!TextsOK,
        Intake!WorkflowOK, Intake!NotesOK, Intake!RegistryOK, Intake!MessagePlaces,
        Intake!VoicePlaces, Intake!TypedPlaces, Bars, Intake!Held, Intake!Barred,
        Intake!Outdated
<1>10. NoCommandMoves
    BY <1>1, <1>a, <1>e, IntakeConstants DEF Intake!TextsOK, Intake!MessagePlaces,
        NoCommandMoves
<1>11. Intake!CommandsBar'
    BY <1>9, <1>10, CommandsBarKept
<1> QED
    BY <1>2, <1>3, <1>4, <1>5, <1>6, <1>7, <1>8, <1>11 DEF Intake!IInv, Intake!TypeOK

LEMMA HandOffKeeps ==
    ASSUME Intake!IInv, NEW v \in Voices, Intake!HandOff(v)
    PROVE  Intake!IInv'
<1> USE DEF Intake!Messages, Intake!Chats, Intake!Commands, Intake!Ended, Intake!Kinds,
    Intake!Texts, Intake!Stages, Intake!HandedOff, Intake!Abandoned
<1>a. Intake!TextsOK
    BY DEF Intake!IInv, Intake!TypeOK
<1>b. Intake!WorkflowOK
    BY DEF Intake!IInv, Intake!TypeOK
<1>c. Intake!NotesOK
    BY DEF Intake!IInv, Intake!TypeOK
<1>d. Intake!RegistryOK
    BY DEF Intake!IInv, Intake!TypeOK
<1>e. Intake!MessagePlaces
    BY DEF Intake!IInv
<1>f. Intake!VoicePlaces
    BY DEF Intake!IInv
<1>g. Intake!TypedPlaces
    BY DEF Intake!IInv
<1>h. Intake!TokensAreOld
    BY DEF Intake!IInv
<1>i. Intake!StatusHasOwner
    BY DEF Intake!IInv
<1>1. /\ inNote[v] = "transcribing"
      /\ \/ /\ v \in inPending
            /\ inNote' = [inNote EXCEPT ![v] = "handed"]
            /\ inStage' = [inStage EXCEPT ![v] = "token"]
         \/ /\ v \notin inPending
            /\ inNote' = [inNote EXCEPT ![v] = "done"]
            /\ inStage' = inStage
      /\ UNCHANGED <<inSaid, inAim, inToken, inStopGen, inClearGen, inTurn, inPending, inDoomed, inSwept, inReach, inStatus>>
    BY <1>a DEF Intake!HandOff, Intake!TextsOK, Intake!workflowVars, Intake!textVars,
        Intake!registryVars
<1>2. Intake!TextsOK' /\ Intake!WorkflowOK'
    BY <1>1, <1>a, <1>b, <1>d, IntakeConstants DEF Intake!TextsOK, Intake!WorkflowOK,
        Intake!RegistryOK
<1>3. Intake!NotesOK' /\ Intake!RegistryOK'
    BY <1>1, <1>c, <1>d, IntakeConstants DEF Intake!NotesOK, Intake!RegistryOK
<1>4. Intake!MessagePlaces'
    BY <1>1, <1>a, <1>b, <1>e, <1>f, IntakeConstants DEF Intake!TextsOK, Intake!WorkflowOK,
        Intake!MessagePlaces, Intake!VoicePlaces
<1>5. Intake!VoicePlaces'
    BY <1>1, <1>a, <1>c, <1>d, <1>f, IntakeConstants DEF Intake!TextsOK, Intake!NotesOK,
        Intake!RegistryOK, Intake!VoicePlaces
<1>6. Intake!TypedPlaces'
    BY <1>1, <1>a, <1>g, IntakeConstants DEF Intake!TextsOK, Intake!TypedPlaces
<1>7. Intake!TokensAreOld'
    BY <1>1, <1>a, <1>b, <1>h, IntakeConstants DEF Intake!TextsOK, Intake!WorkflowOK,
        Intake!TokensAreOld
<1>8. Intake!StatusHasOwner'
    BY <1>1, <1>a, <1>c, <1>d, <1>e, <1>f, <1>i, IntakeConstants DEF Intake!TextsOK,
        Intake!NotesOK, Intake!RegistryOK, Intake!MessagePlaces, Intake!VoicePlaces,
        Intake!StatusHasOwner
<1>9. Bars
    BY <1>1, <1>a, <1>b, <1>c, <1>d, <1>e, <1>f, <1>g, IntakeConstants DEF Intake!TextsOK,
        Intake!WorkflowOK, Intake!NotesOK, Intake!RegistryOK, Intake!MessagePlaces,
        Intake!VoicePlaces, Intake!TypedPlaces, Bars, Intake!Held, Intake!Barred,
        Intake!Outdated
<1>10. NoCommandMoves
    BY <1>1, <1>a, <1>e, IntakeConstants DEF Intake!TextsOK, Intake!MessagePlaces,
        NoCommandMoves
<1>11. Intake!CommandsBar'
    BY <1>9, <1>10, CommandsBarKept
<1> QED
    BY <1>2, <1>3, <1>4, <1>5, <1>6, <1>7, <1>8, <1>11 DEF Intake!IInv, Intake!TypeOK

LEMMA NoteFailsKeeps ==
    ASSUME Intake!IInv, NEW v \in Voices, Intake!NoteFails(v)
    PROVE  Intake!IInv'
<1> USE DEF Intake!Messages, Intake!Chats, Intake!Commands, Intake!Ended, Intake!Kinds,
    Intake!Texts, Intake!Stages, Intake!HandedOff, Intake!Abandoned
<1>a. Intake!TextsOK
    BY DEF Intake!IInv, Intake!TypeOK
<1>b. Intake!WorkflowOK
    BY DEF Intake!IInv, Intake!TypeOK
<1>c. Intake!NotesOK
    BY DEF Intake!IInv, Intake!TypeOK
<1>d. Intake!RegistryOK
    BY DEF Intake!IInv, Intake!TypeOK
<1>e. Intake!MessagePlaces
    BY DEF Intake!IInv
<1>f. Intake!VoicePlaces
    BY DEF Intake!IInv
<1>g. Intake!TypedPlaces
    BY DEF Intake!IInv
<1>h. Intake!TokensAreOld
    BY DEF Intake!IInv
<1>i. Intake!StatusHasOwner
    BY DEF Intake!IInv
<1>1. /\ inNote[v] \in {"sending", "transcribing"}
      /\ inNote' = [inNote EXCEPT ![v] = "done"]
      /\ inPending' = inPending \ {v}
      /\ inStatus' = IF v \in inPending /\ inStatus[v] # "none" THEN [inStatus EXCEPT ![v] = "closed"] ELSE inStatus
      /\ UNCHANGED <<inStage, inSaid, inAim, inToken, inStopGen, inClearGen, inTurn, inDoomed, inSwept, inReach>>
    BY DEF Intake!NoteFails, Intake!DeletesStatus, Intake!workflowVars, Intake!textVars,
        Intake!registryVars
<1>2. Intake!TextsOK' /\ Intake!WorkflowOK'
    BY <1>1, <1>a, <1>b, <1>d, IntakeConstants DEF Intake!TextsOK, Intake!WorkflowOK,
        Intake!RegistryOK
<1>3. Intake!NotesOK' /\ Intake!RegistryOK'
    BY <1>1, <1>c, <1>d, IntakeConstants DEF Intake!NotesOK, Intake!RegistryOK
<1>4. Intake!MessagePlaces'
    BY <1>1, <1>a, <1>b, <1>e, IntakeConstants DEF Intake!TextsOK, Intake!WorkflowOK,
        Intake!MessagePlaces
<1>5. Intake!VoicePlaces'
    BY <1>1, <1>a, <1>c, <1>d, <1>f, IntakeConstants DEF Intake!TextsOK, Intake!NotesOK,
        Intake!RegistryOK, Intake!VoicePlaces
<1>6. Intake!TypedPlaces'
    BY <1>1, <1>a, <1>g, IntakeConstants DEF Intake!TextsOK, Intake!TypedPlaces
<1>7. Intake!TokensAreOld'
    BY <1>1, <1>a, <1>b, <1>h, IntakeConstants DEF Intake!TextsOK, Intake!WorkflowOK,
        Intake!TokensAreOld
<1>8. Intake!StatusHasOwner'
    BY <1>1, <1>a, <1>c, <1>d, <1>e, <1>f, <1>i, IntakeConstants DEF Intake!TextsOK,
        Intake!NotesOK, Intake!RegistryOK, Intake!MessagePlaces, Intake!VoicePlaces,
        Intake!StatusHasOwner
<1>9. Bars
    BY <1>1, <1>a, <1>b, <1>c, <1>d, <1>e, <1>f, <1>g, IntakeConstants DEF Intake!TextsOK,
        Intake!WorkflowOK, Intake!NotesOK, Intake!RegistryOK, Intake!MessagePlaces,
        Intake!VoicePlaces, Intake!TypedPlaces, Bars, Intake!Held, Intake!Barred,
        Intake!Outdated
<1>10. NoCommandMoves
    BY <1>1, <1>a, <1>e, IntakeConstants DEF Intake!TextsOK, Intake!MessagePlaces,
        NoCommandMoves
<1>11. Intake!CommandsBar'
    BY <1>9, <1>10, CommandsBarKept
<1> QED
    BY <1>2, <1>3, <1>4, <1>5, <1>6, <1>7, <1>8, <1>11 DEF Intake!IInv, Intake!TypeOK

LEMMA FinishNoteKeeps ==
    ASSUME Intake!IInv, NEW v \in Voices, Intake!FinishNote(v)
    PROVE  Intake!IInv'
<1> USE DEF Intake!Messages, Intake!Chats, Intake!Commands, Intake!Ended, Intake!Kinds,
    Intake!Texts, Intake!Stages, Intake!HandedOff, Intake!Abandoned
<1>a. Intake!TextsOK
    BY DEF Intake!IInv, Intake!TypeOK
<1>b. Intake!WorkflowOK
    BY DEF Intake!IInv, Intake!TypeOK
<1>c. Intake!NotesOK
    BY DEF Intake!IInv, Intake!TypeOK
<1>d. Intake!RegistryOK
    BY DEF Intake!IInv, Intake!TypeOK
<1>e. Intake!MessagePlaces
    BY DEF Intake!IInv
<1>f. Intake!VoicePlaces
    BY DEF Intake!IInv
<1>g. Intake!TypedPlaces
    BY DEF Intake!IInv
<1>h. Intake!TokensAreOld
    BY DEF Intake!IInv
<1>i. Intake!StatusHasOwner
    BY DEF Intake!IInv
<1>1. /\ Intake!HandedOff(v) /\ inStage[v] \in Intake!Ended
      /\ inNote' = [inNote EXCEPT ![v] = "done"]
      /\ inPending' = inPending \ {v}
      /\ UNCHANGED <<inStage, inSaid, inAim, inToken, inStopGen, inClearGen, inTurn, inDoomed, inSwept, inReach, inStatus>>
    BY DEF Intake!FinishNote, Intake!workflowVars, Intake!textVars, Intake!registryVars
<1>2. Intake!TextsOK' /\ Intake!WorkflowOK'
    BY <1>1, <1>a, <1>b, <1>d, IntakeConstants DEF Intake!TextsOK, Intake!WorkflowOK,
        Intake!RegistryOK
<1>3. Intake!NotesOK' /\ Intake!RegistryOK'
    BY <1>1, <1>c, <1>d, IntakeConstants DEF Intake!NotesOK, Intake!RegistryOK
<1>4. Intake!MessagePlaces'
    BY <1>1, <1>a, <1>b, <1>e, IntakeConstants DEF Intake!TextsOK, Intake!WorkflowOK,
        Intake!MessagePlaces
<1>5. Intake!VoicePlaces'
    BY <1>1, <1>a, <1>c, <1>d, <1>f, IntakeConstants DEF Intake!TextsOK, Intake!NotesOK,
        Intake!RegistryOK, Intake!VoicePlaces
<1>6. Intake!TypedPlaces'
    BY <1>1, <1>a, <1>g, IntakeConstants DEF Intake!TextsOK, Intake!TypedPlaces
<1>7. Intake!TokensAreOld'
    BY <1>1, <1>a, <1>b, <1>h, IntakeConstants DEF Intake!TextsOK, Intake!WorkflowOK,
        Intake!TokensAreOld
<1>8. Intake!StatusHasOwner'
    BY <1>1, <1>a, <1>c, <1>d, <1>e, <1>f, <1>i, IntakeConstants DEF Intake!TextsOK,
        Intake!NotesOK, Intake!RegistryOK, Intake!MessagePlaces, Intake!VoicePlaces,
        Intake!StatusHasOwner
<1>9. Bars
    BY <1>1, <1>a, <1>b, <1>c, <1>d, <1>e, <1>f, <1>g, IntakeConstants DEF Intake!TextsOK,
        Intake!WorkflowOK, Intake!NotesOK, Intake!RegistryOK, Intake!MessagePlaces,
        Intake!VoicePlaces, Intake!TypedPlaces, Bars, Intake!Held, Intake!Barred,
        Intake!Outdated
<1>10. NoCommandMoves
    BY <1>1, <1>a, <1>e, IntakeConstants DEF Intake!TextsOK, Intake!MessagePlaces,
        NoCommandMoves
<1>11. Intake!CommandsBar'
    BY <1>9, <1>10, CommandsBarKept
<1> QED
    BY <1>2, <1>3, <1>4, <1>5, <1>6, <1>7, <1>8, <1>11 DEF Intake!IInv, Intake!TypeOK

LEMMA CallerCancelledKeeps ==
    ASSUME Intake!IInv, NEW v \in Voices, Intake!CallerCancelled(v)
    PROVE  Intake!IInv'
<1> USE DEF Intake!Messages, Intake!Chats, Intake!Commands, Intake!Ended, Intake!Kinds,
    Intake!Texts, Intake!Stages, Intake!HandedOff, Intake!Abandoned
<1>a. Intake!TextsOK
    BY DEF Intake!IInv, Intake!TypeOK
<1>b. Intake!WorkflowOK
    BY DEF Intake!IInv, Intake!TypeOK
<1>c. Intake!NotesOK
    BY DEF Intake!IInv, Intake!TypeOK
<1>d. Intake!RegistryOK
    BY DEF Intake!IInv, Intake!TypeOK
<1>e. Intake!MessagePlaces
    BY DEF Intake!IInv
<1>f. Intake!VoicePlaces
    BY DEF Intake!IInv
<1>g. Intake!TypedPlaces
    BY DEF Intake!IInv
<1>h. Intake!TokensAreOld
    BY DEF Intake!IInv
<1>i. Intake!StatusHasOwner
    BY DEF Intake!IInv
<1>1. /\ inNote[v] = "handed"
      /\ inNote' = [inNote EXCEPT ![v] = "leaving"]
      /\ inDoomed' = inDoomed \cup {v}
      /\ UNCHANGED <<inStage, inSaid, inAim, inToken, inStopGen, inClearGen, inTurn, inPending, inSwept, inReach, inStatus>>
    BY DEF Intake!CallerCancelled, Intake!workflowVars, Intake!textVars, Intake!registryVars
<1>2. Intake!TextsOK' /\ Intake!WorkflowOK'
    BY <1>1, <1>a, <1>b, <1>d, IntakeConstants DEF Intake!TextsOK, Intake!WorkflowOK,
        Intake!RegistryOK
<1>3. Intake!NotesOK' /\ Intake!RegistryOK'
    BY <1>1, <1>c, <1>d, IntakeConstants DEF Intake!NotesOK, Intake!RegistryOK
<1>4. Intake!MessagePlaces'
    BY <1>1, <1>a, <1>b, <1>e, IntakeConstants DEF Intake!TextsOK, Intake!WorkflowOK,
        Intake!MessagePlaces
<1>5. Intake!VoicePlaces'
    BY <1>1, <1>a, <1>c, <1>d, <1>f, IntakeConstants DEF Intake!TextsOK, Intake!NotesOK,
        Intake!RegistryOK, Intake!VoicePlaces
<1>6. Intake!TypedPlaces'
    BY <1>1, <1>a, <1>g, IntakeConstants DEF Intake!TextsOK, Intake!TypedPlaces
<1>7. Intake!TokensAreOld'
    BY <1>1, <1>a, <1>b, <1>h, IntakeConstants DEF Intake!TextsOK, Intake!WorkflowOK,
        Intake!TokensAreOld
<1>8. Intake!StatusHasOwner'
    BY <1>1, <1>a, <1>c, <1>d, <1>e, <1>f, <1>i, IntakeConstants DEF Intake!TextsOK,
        Intake!NotesOK, Intake!RegistryOK, Intake!MessagePlaces, Intake!VoicePlaces,
        Intake!StatusHasOwner
<1>9. Bars
    BY <1>1, <1>a, <1>b, <1>c, <1>d, <1>e, <1>f, <1>g, IntakeConstants DEF Intake!TextsOK,
        Intake!WorkflowOK, Intake!NotesOK, Intake!RegistryOK, Intake!MessagePlaces,
        Intake!VoicePlaces, Intake!TypedPlaces, Bars, Intake!Held, Intake!Barred,
        Intake!Outdated
<1>10. NoCommandMoves
    BY <1>1, <1>a, <1>e, IntakeConstants DEF Intake!TextsOK, Intake!MessagePlaces,
        NoCommandMoves
<1>11. Intake!CommandsBar'
    BY <1>9, <1>10, CommandsBarKept
<1> QED
    BY <1>2, <1>3, <1>4, <1>5, <1>6, <1>7, <1>8, <1>11 DEF Intake!IInv, Intake!TypeOK

\* What is pending and in scope when a command begins is swept, unless it is
\* itself a command that sweeps; the rest has its token, is being cancelled or is over.
LEMMA SweepKeeps ==
    ASSUME Intake!IInv, NEW m \in Intake!Messages, Intake!Sweep(m)
    PROVE  Intake!IInv'
<1> USE DEF Intake!Messages, Intake!Chats, Intake!Commands, Intake!Ended, Intake!Kinds,
    Intake!Texts, Intake!Stages, Intake!HandedOff, Intake!Abandoned
<1>a. Intake!TextsOK
    BY DEF Intake!IInv, Intake!TypeOK
<1>b. Intake!WorkflowOK
    BY DEF Intake!IInv, Intake!TypeOK
<1>c. Intake!NotesOK
    BY DEF Intake!IInv, Intake!TypeOK
<1>d. Intake!RegistryOK
    BY DEF Intake!IInv, Intake!TypeOK
<1>e. Intake!MessagePlaces
    BY DEF Intake!IInv
<1>f. Intake!VoicePlaces
    BY DEF Intake!IInv
<1>g. Intake!TypedPlaces
    BY DEF Intake!IInv
<1>h. Intake!TokensAreOld
    BY DEF Intake!IInv
<1>i. Intake!StatusHasOwner
    BY DEF Intake!IInv
<1>0. PICK scope \in Intake!Scopes(m) :
        /\ inAim' = [inAim EXCEPT ![m] = scope]
        /\ inSwept' = [inSwept EXCEPT ![m] = Intake!SweptBy(m, scope)]
        /\ inPending' = inPending \ Intake!SweptBy(m, scope)
        /\ inDoomed' = inDoomed \cup {v \in Intake!SweptBy(m, scope) : Intake!HandedOff(v)}
        /\ inReach' = [inReach EXCEPT ![m] = Intake!ReachedBy(m, scope)]
    BY DEF Intake!Sweep
<1> DEFINE SB == Intake!SweptBy(m, scope)
           RB == Intake!ReachedBy(m, scope)
<1>1. /\ inStage[m] = "sweep" /\ inSaid[m] \in Intake!Commands
      /\ inStage' = [inStage EXCEPT ![m] = "drain"]
      /\ inAim' = [inAim EXCEPT ![m] = scope]
      /\ inSwept' = [inSwept EXCEPT ![m] = SB]
      /\ inPending' = inPending \ SB
      /\ inDoomed' = inDoomed \cup {v \in SB : Intake!HandedOff(v)}
      /\ inReach' = [inReach EXCEPT ![m] = RB]
      /\ UNCHANGED <<inSaid, inToken, inStopGen, inClearGen, inTurn, inNote, inStatus>>
    BY <1>0, <1>e DEF Intake!Sweep, Intake!workflowVars, Intake!MessagePlaces
<1>s. /\ scope \subseteq Intake!Messages /\ m \notin scope
      /\ inSaid[m] = "stop" => \A x \in scope : inSaid[x] # "notice"
      /\ inSaid[m] = "clear" => \A x \in scope : Chat[x] = Chat[m]
  <2>1. CASE inSaid[m] = "stop"
      BY <1>0, <2>1 DEF Intake!Scopes
  <2>2. CASE inSaid[m] = "clear"
      BY <1>0, <2>2 DEF Intake!Scopes
  <2>3. CASE inSaid[m] = "reply"
    <3>1. scope \in {{}} \cup {{x} : x \in {y \in Intake!Messages \ {m} : Chat[y] = Chat[m]}}
        BY <1>0, <2>3 DEF Intake!Scopes
    <3> QED
        BY <2>3, <3>1
  <2> QED
      BY <1>1, <2>1, <2>2, <2>3
<1>t. SB = {v \in inPending \cap scope : v # m /\ inStage[v] # "drain"}
    BY DEF Intake!SweptBy, Intake!IsExcluded, Intake!Sweeping
<1>u. /\ RB \subseteq scope
      /\ \A x \in RB : /\ x \in Voices => inNote[x] # "absent"
                       /\ x \notin Voices => inStage[x] # "absent"
                       /\ inSaid[m] = "reply" => x \in SB \/ inTurn[x] = "alive"
    BY DEF Intake!ReachedBy, Intake!Started
<1> HIDE DEF SB, RB
<1>2. Intake!TextsOK' /\ Intake!WorkflowOK'
    BY <1>1, <1>s, <1>a, <1>b DEF Intake!TextsOK, Intake!WorkflowOK
<1>3. Intake!NotesOK' /\ Intake!RegistryOK'
    BY <1>1, <1>s, <1>t, <1>u, <1>c, <1>d DEF Intake!NotesOK, Intake!RegistryOK
<1>4. Intake!MessagePlaces'
    BY <1>1, <1>a, <1>b, <1>e DEF Intake!TextsOK, Intake!WorkflowOK, Intake!MessagePlaces
<1>5. Intake!VoicePlaces'
    BY <1>1, <1>t, <1>a, <1>c, <1>d, <1>f DEF Intake!TextsOK, Intake!NotesOK, Intake!RegistryOK,
        Intake!VoicePlaces
<1>6. Intake!TypedPlaces'
    BY <1>1, <1>a, <1>g DEF Intake!TextsOK, Intake!TypedPlaces
<1>7. Intake!TokensAreOld'
    BY <1>1, <1>a, <1>b, <1>h DEF Intake!TextsOK, Intake!WorkflowOK, Intake!TokensAreOld
<1>8. Intake!StatusHasOwner'
    BY <1>1, <1>t, <1>a, <1>c, <1>d, <1>e, <1>f, <1>i
    DEF Intake!TextsOK, Intake!NotesOK, Intake!RegistryOK, Intake!MessagePlaces, Intake!VoicePlaces, Intake!StatusHasOwner
<1>9. \A x \in Intake!Messages : Intake!Barred(x) => Intake!Barred(x)'
    BY <1>1, <1>t, <1>a, <1>d DEF Intake!TextsOK, Intake!RegistryOK, Intake!Barred,
        Intake!Outdated
<1>10. \A c, x \in Intake!Messages : c # m /\ Intake!Held(c, x) => Intake!Held(c, x)'
    BY <1>1, <1>9, <1>a, <1>d DEF Intake!TextsOK, Intake!RegistryOK, Intake!Held
<1>11. ASSUME NEW x \in RB PROVE Intake!Held(m, x)'
  <2>1. x \in Intake!Messages /\ x # m /\ inStage'[x] = inStage[x]
      BY <1>1, <1>s, <1>u, <1>a DEF Intake!TextsOK
  <2>2. CASE inStage[x] \in Intake!Ended \cup {"discard", "sweep", "drain"}
      BY <2>1, <2>2 DEF Intake!Held, Intake!Barred
  <2>3. CASE inStage[x] \in {"status", "admit"}
    <3>1. inSaid[m] = "reply" => x \in SB
        BY <1>u, <1>e, <2>1, <2>3 DEF Intake!MessagePlaces
    <3>2. inSwept'[m] = SB
        BY <1>1, <1>d DEF Intake!RegistryOK
    <3> QED
        BY <1>1, <2>1, <2>3, <3>1, <3>2 DEF Intake!Held
  <2>4. CASE inStage[x] = "token"
    <3>1. x \in Voices /\ Intake!HandedOff(x) /\ (x \in inPending \/ x \in inDoomed)
        BY <1>f, <1>g, <2>1, <2>4 DEF Intake!VoicePlaces, Intake!TypedPlaces
    <3>2. x \in inDoomed'
        BY <1>1, <1>t, <1>u, <2>1, <2>4, <3>1
    <3> QED
        BY <2>1, <2>4, <3>2 DEF Intake!Held, Intake!Barred
  <2>5. CASE inStage[x] = "absent"
    <3>1. x \in Voices /\ inNote[x] # "absent"
        BY <1>u, <2>5
    <3>2. x \notin inPending'
        BY <1>1, <1>t, <1>u, <2>1, <2>5
    <3> QED
        BY <1>1, <2>1, <2>5, <3>1, <3>2 DEF Intake!Held, Intake!Barred
  <2> QED
      BY <2>1, <2>2, <2>3, <2>4, <2>5, <1>a DEF Intake!TextsOK
<1>12. Intake!CommandsBar'
  <2> SUFFICES ASSUME NEW c \in Intake!Messages, inSaid'[c] \in Intake!Commands, NEW x \in inReach'[c]
               PROVE  /\ inStage'[c] = "done" => Intake!Barred(x)'
                      /\ inStage'[c] = "drain" => /\ Intake!Held(c, x)' /\ x \in inAim'[c]
                                                  /\ inSaid'[c] = "stop" => inSaid'[x] # "notice"
                                                  /\ inSaid'[c] = "clear" => Chat[x] = Chat[c]
      BY DEF Intake!CommandsBar
  <2>1. CASE c = m
    <3>1. x \in RB /\ inStage'[c] = "drain" /\ inAim'[c] = scope
        BY <1>1, <2>1, <1>a, <1>d DEF Intake!TextsOK, Intake!RegistryOK
    <3> QED
        BY <1>1, <1>s, <1>u, <1>11, <2>1, <3>1
  <2>2. CASE c # m
    <3>1. /\ inReach'[c] = inReach[c] /\ inStage'[c] = inStage[c] /\ inAim'[c] = inAim[c]
          /\ inSaid' = inSaid /\ x \in Intake!Messages
        BY <1>1, <2>2, <1>a, <1>d DEF Intake!TextsOK, Intake!RegistryOK
    <3>2. /\ inStage[c] = "done" => Intake!Barred(x)
          /\ inStage[c] = "drain" => /\ Intake!Held(c, x) /\ x \in inAim[c]
                                     /\ inSaid[c] = "stop" => inSaid[x] # "notice"
                                     /\ inSaid[c] = "clear" => Chat[x] = Chat[c]
        BY <3>1 DEF Intake!CommandsBar, Intake!IInv
    <3> QED
        BY <1>9, <1>10, <2>2, <3>1, <3>2
  <2> QED
      BY <2>1, <2>2
<1> QED
    BY <1>2, <1>3, <1>4, <1>5, <1>6, <1>7, <1>8, <1>12 DEF Intake!IInv, Intake!TypeOK

\* The commit outdates every token its command held back, after the hand-offs it
\* cancelled have ended.
LEMMA CommitKeeps ==
    ASSUME Intake!IInv, NEW m \in Intake!Messages, Intake!Commit(m)
    PROVE  Intake!IInv'
<1> USE DEF Intake!Messages, Intake!Chats, Intake!Commands, Intake!Ended, Intake!Kinds,
    Intake!Texts, Intake!Stages, Intake!HandedOff, Intake!Abandoned
<1>a. Intake!TextsOK
    BY DEF Intake!IInv, Intake!TypeOK
<1>b. Intake!WorkflowOK
    BY DEF Intake!IInv, Intake!TypeOK
<1>c. Intake!NotesOK
    BY DEF Intake!IInv, Intake!TypeOK
<1>d. Intake!RegistryOK
    BY DEF Intake!IInv, Intake!TypeOK
<1>e. Intake!MessagePlaces
    BY DEF Intake!IInv
<1>f. Intake!VoicePlaces
    BY DEF Intake!IInv
<1>g. Intake!TypedPlaces
    BY DEF Intake!IInv
<1>h. Intake!TokensAreOld
    BY DEF Intake!IInv
<1>i. Intake!StatusHasOwner
    BY DEF Intake!IInv
<1>1. /\ inStage[m] = "drain" /\ inSaid[m] \in Intake!Commands
      /\ inStopGen' = IF inSaid[m] = "stop" THEN inStopGen + 1 ELSE inStopGen
      /\ inClearGen' = IF inSaid[m] = "clear" THEN [inClearGen EXCEPT ![Chat[m]] = @ + 1]
                                              ELSE inClearGen
      /\ inTurn' = [x \in Intake!Messages |-> IF x \in inAim[m] /\ inTurn[x] = "alive"
                                        THEN "gone" ELSE inTurn[x]]
      /\ inStatus' = [v \in Voices |-> IF v \in inSwept[m] /\ inStatus[v] # "none"
                                       THEN "closed" ELSE inStatus[v]]
      /\ inStage' = [inStage EXCEPT ![m] = "done"]
      /\ inAim' = [inAim EXCEPT ![m] = {}]
      /\ UNCHANGED <<inSaid, inToken, inNote, inPending, inDoomed, inSwept, inReach>>
    BY <1>e DEF Intake!Commit, Intake!registryVars, Intake!MessagePlaces
<1>s. \A v \in inSwept[m] : Intake!HandedOff(v) => inStage[v] \in Intake!Ended
    BY DEF Intake!Commit, Intake!Drained
<1>t. /\ inStopGen' \in Nat /\ inStopGen <= inStopGen'
      /\ \A x \in Intake!Messages : /\ inClearGen[Chat[x]] \in Nat
                              /\ inClearGen[Chat[x]] <= inClearGen'[Chat[x]]
      /\ inSaid[m] = "stop" => inStopGen < inStopGen'
      /\ inSaid[m] = "clear" => inClearGen[Chat[m]] < inClearGen'[Chat[m]]
    BY <1>1, <1>b, IntakeConstants DEF Intake!WorkflowOK
<1>u. \A x \in Intake!Messages : inToken[x][1] \in Nat /\ inToken[x][2] \in Nat
    BY <1>a DEF Intake!TextsOK
<1>2. Intake!TextsOK'
    BY <1>1, <1>a DEF Intake!TextsOK
<1>3. Intake!WorkflowOK'
  <2>1. inClearGen' \in [Intake!Chats -> Nat]
      BY <1>1, <1>b, IntakeConstants DEF Intake!WorkflowOK
  <2>2. inTurn' \in [Intake!Messages -> {"none", "alive", "gone"}]
      BY <1>1, <1>b DEF Intake!WorkflowOK
  <2> QED
      BY <1>t, <2>1, <2>2 DEF Intake!WorkflowOK
<1>4. Intake!NotesOK' /\ Intake!RegistryOK'
    BY <1>1, <1>c, <1>d DEF Intake!NotesOK, Intake!RegistryOK
<1>5. Intake!MessagePlaces'
    BY <1>1, <1>a, <1>b, <1>e DEF Intake!TextsOK, Intake!WorkflowOK, Intake!MessagePlaces
<1>6. Intake!VoicePlaces' /\ Intake!TypedPlaces'
    BY <1>1, <1>a, <1>f, <1>g DEF Intake!TextsOK, Intake!VoicePlaces, Intake!TypedPlaces
<1>7. Intake!TokensAreOld'
  <2> SUFFICES ASSUME NEW x \in Intake!Messages, inStage'[x] \in {"status", "admit"}
               PROVE  inToken[x][1] <= inStopGen' /\ inToken[x][2] <= inClearGen'[Chat[x]]
      BY <1>1 DEF Intake!TokensAreOld
  <2>1. inStage[x] \in {"status", "admit"}
      BY <1>1, <1>a DEF Intake!TextsOK
  <2>2. inToken[x][1] <= inStopGen /\ inToken[x][2] <= inClearGen[Chat[x]]
      BY <2>1, <1>h DEF Intake!TokensAreOld
  <2>3. inStopGen \in Nat /\ inClearGen'[Chat[x]] \in Nat
      BY <1>1, <1>t, <1>b DEF Intake!WorkflowOK
  <2> QED
      BY <1>t, <1>u, <2>2, <2>3
<1>8. Intake!StatusHasOwner'
    BY <1>1, <1>a, <1>c, <1>i DEF Intake!TextsOK, Intake!NotesOK, Intake!StatusHasOwner
<1>9. ASSUME NEW x \in Intake!Messages, Intake!Barred(x) PROVE Intake!Barred(x)'
  <2>1. Intake!Outdated(x) => Intake!Outdated(x)'
      BY <1>1, <1>t, <1>u, <1>b DEF Intake!Outdated, Intake!WorkflowOK
  <2>2. inTurn[x] # "alive" => inTurn'[x] # "alive"
      BY <1>1
  <2> QED
      BY <1>1, <1>9, <1>a, <1>e, <2>1, <2>2 DEF Intake!TextsOK, Intake!MessagePlaces,
          Intake!Barred
<1>10. \A c, x \in Intake!Messages : c # m /\ Intake!Held(c, x) => Intake!Held(c, x)'
    BY <1>1, <1>9, <1>a DEF Intake!TextsOK, Intake!Held
<1>11. ASSUME NEW x \in inReach[m] PROVE Intake!Barred(x)'
  <2>1. /\ x \in Intake!Messages /\ Intake!Held(m, x) /\ x \in inAim[m]
        /\ inSaid[m] = "stop" => inSaid[x] # "notice"
        /\ inSaid[m] = "clear" => Chat[x] = Chat[m]
      BY <1>1, <1>d DEF Intake!IInv, Intake!CommandsBar, Intake!RegistryOK
  <2>2. CASE Intake!Barred(x)
      BY <1>9, <2>1, <2>2
  <2>3. CASE inStage[x] \in Intake!Ended
      BY <1>1, <2>1, <2>3, <1>a DEF Intake!TextsOK, Intake!Barred
  <2>4. CASE inStage[x] \in {"status", "admit"} /\ inSaid[m] = "reply"
      BY <1>s, <1>d, <1>f, <2>1, <2>2, <2>3, <2>4 DEF Intake!Held, Intake!VoicePlaces,
          Intake!RegistryOK
  <2>5. CASE inStage[x] \in {"status", "admit"} /\ inSaid[m] \in {"stop", "clear"}
    <3>1. inToken[x][1] <= inStopGen /\ inToken[x][2] <= inClearGen[Chat[x]]
        BY <2>1, <2>5, <1>h DEF Intake!TokensAreOld
    <3>2. Intake!Outdated(x)'
        BY <1>1, <1>t, <1>u, <1>b, <2>1, <2>5, <3>1 DEF Intake!Outdated, Intake!WorkflowOK
    <3>3. inStage'[x] = inStage[x]
        BY <1>1, <2>1, <2>5, <1>a DEF Intake!TextsOK
    <3> QED
        BY <2>5, <3>2, <3>3 DEF Intake!Barred
  <2> QED
      BY <1>1, <2>1, <2>2, <2>3, <2>4, <2>5 DEF Intake!Held
<1>12. Intake!CommandsBar'
  <2> SUFFICES ASSUME NEW c \in Intake!Messages, inSaid'[c] \in Intake!Commands, NEW x \in inReach'[c]
               PROVE  /\ inStage'[c] = "done" => Intake!Barred(x)'
                      /\ inStage'[c] = "drain" => /\ Intake!Held(c, x)' /\ x \in inAim'[c]
                                                  /\ inSaid'[c] = "stop" => inSaid'[x] # "notice"
                                                  /\ inSaid'[c] = "clear" => Chat[x] = Chat[c]
      BY DEF Intake!CommandsBar
  <2>1. CASE c = m
      BY <1>1, <1>11, <2>1, <1>a DEF Intake!TextsOK
  <2>2. CASE c # m
    <3>1. /\ inReach'[c] = inReach[c] /\ inStage'[c] = inStage[c] /\ inAim'[c] = inAim[c]
          /\ inSaid' = inSaid /\ x \in Intake!Messages
        BY <1>1, <2>2, <1>a, <1>d DEF Intake!TextsOK, Intake!RegistryOK
    <3>2. /\ inStage[c] = "done" => Intake!Barred(x)
          /\ inStage[c] = "drain" => /\ Intake!Held(c, x) /\ x \in inAim[c]
                                     /\ inSaid[c] = "stop" => inSaid[x] # "notice"
                                     /\ inSaid[c] = "clear" => Chat[x] = Chat[c]
        BY <3>1 DEF Intake!CommandsBar, Intake!IInv
    <3> QED
        BY <1>9, <1>10, <2>2, <3>1, <3>2
  <2> QED
      BY <2>1, <2>2
<1> QED
    BY <1>2, <1>3, <1>4, <1>5, <1>6, <1>7, <1>8, <1>12 DEF Intake!IInv, Intake!TypeOK

LEMMA IntakeStutters == ASSUME Intake!IInv, UNCHANGED Intake!vars PROVE Intake!IInv'
<1> USE DEF Intake!Messages, Intake!Chats, Intake!Commands, Intake!Ended, Intake!Kinds,
    Intake!Texts, Intake!Stages, Intake!HandedOff, Intake!Abandoned
<1>a. Intake!TextsOK
    BY DEF Intake!IInv, Intake!TypeOK
<1>b. Intake!WorkflowOK
    BY DEF Intake!IInv, Intake!TypeOK
<1>c. Intake!NotesOK
    BY DEF Intake!IInv, Intake!TypeOK
<1>d. Intake!RegistryOK
    BY DEF Intake!IInv, Intake!TypeOK
<1>e. Intake!MessagePlaces
    BY DEF Intake!IInv
<1>f. Intake!VoicePlaces
    BY DEF Intake!IInv
<1>g. Intake!TypedPlaces
    BY DEF Intake!IInv
<1>h. Intake!TokensAreOld
    BY DEF Intake!IInv
<1>i. Intake!StatusHasOwner
    BY DEF Intake!IInv
<1>1. UNCHANGED <<inStage, inSaid, inAim, inToken, inStopGen, inClearGen, inTurn, inNote,
                  inPending, inDoomed, inSwept, inReach, inStatus>>
    BY DEF Intake!vars
<1>2. Intake!TextsOK' /\ Intake!WorkflowOK' /\ Intake!NotesOK' /\ Intake!RegistryOK'
    BY <1>1, <1>a, <1>b, <1>c, <1>d DEF Intake!TextsOK, Intake!WorkflowOK, Intake!NotesOK,
        Intake!RegistryOK
<1>3. Intake!MessagePlaces' /\ Intake!VoicePlaces' /\ Intake!TypedPlaces' /\ Intake!TokensAreOld' /\ Intake!StatusHasOwner'
    BY <1>1, <1>e, <1>f, <1>g, <1>h, <1>i
    DEF Intake!MessagePlaces, Intake!VoicePlaces, Intake!TypedPlaces, Intake!TokensAreOld, Intake!StatusHasOwner
<1>4. Bars /\ NoCommandMoves
    BY <1>1 DEF Bars, NoCommandMoves, Intake!Held, Intake!Barred, Intake!Outdated
<1>5. Intake!CommandsBar'
    BY <1>4, CommandsBarKept
<1> QED
    BY <1>2, <1>3, <1>5 DEF Intake!IInv, Intake!TypeOK

LEMMA IntakeStep == Intake!IInv /\ [Intake!Next]_Intake!vars => Intake!IInv'
<1> SUFFICES ASSUME Intake!IInv, [Intake!Next]_Intake!vars PROVE Intake!IInv'
    OBVIOUS
<1> USE DEF Intake!Messages, Intake!Texts, Intake!Commands
<1>1. ASSUME NEW t \in Typed, Intake!Receive(t) PROVE Intake!IInv'
  <2>1. PICK kind \in Intake!Texts \cup {"notice"} : Intake!Begin(t, kind)
      BY <1>1 DEF Intake!Receive
  <2> QED
      BY <1>1, <2>1, BeginKeeps, IntakeConstants DEF Intake!Receive
<1>2. ASSUME NEW v \in Voices, Intake!StartHandoff(v) PROVE Intake!IInv'
  <2>1. PICK kind \in Intake!Texts : Intake!Begin(v, kind)
      BY <1>2 DEF Intake!StartHandoff
  <2> QED
      BY <1>2, <2>1, BeginKeeps DEF Intake!StartHandoff
<1>3. ASSUME NEW v \in Voices, Intake!Reserve(v) \/ Intake!Bind(v) \/ Intake!HandOff(v) \/ Intake!NoteFails(v)
                               \/ Intake!FinishNote(v) \/ Intake!HandoffCancelled(v)
                               \/ Intake!CallerCancelled(v)
      PROVE  Intake!IInv'
    BY <1>3, ReserveKeeps, BindKeeps, HandOffKeeps, NoteFailsKeeps, FinishNoteKeeps,
       HandoffCancelledKeeps, CallerCancelledKeeps
<1>4. ASSUME NEW m \in Intake!Messages, Intake!Handle(m) PROVE Intake!IInv'
    BY <1>4, StatusShownKeeps, AdmitKeeps, DiscardKeeps, SweepKeeps, CommitKeeps DEF
        Intake!Handle
<1> QED
    BY <1>1, <1>2, <1>3, <1>4, IntakeStutters DEF Intake!Next, Intake!NoteStep

LEMMA IntakeMoves == [MCNext]_MCVars => [Intake!Next]_Intake!vars
BY DEF MCNext, MCVars, intakeVars, Intake!vars

LEMMA IntakeInvariant == MCSpec => []Intake!IInv
<1>1. MCInit => Intake!IInv
    BY IntakeInit DEF MCInit
<1>2. Intake!IInv /\ [MCNext]_MCVars => Intake!IInv'
    BY IntakeStep, IntakeMoves
<1> QED
    BY <1>1, <1>2, PTL DEF MCSpec

\* Whatever messages, voice notes and commands cross each other: when a /stop or
\* a /clear has been carried out, no message that was on its way when it began
\* is or becomes a turn; and a voice note that is over shows "Transcribing" only
\* where the code leaves that, in the cases StatusIsSettled names: a failed edit,
\* a text without a turn, or a platform task cancelled after the hand-off
\* (messaging/workflow.py, turn_intake.py, voice.py).
THEOREM StoppedMessagesStayStopped == MCSpec => []IntakeLeavesNothing
<1>1. ASSUME Intake!IInv PROVE Intake!NothingOutlivesACommand
  <2> SUFFICES ASSUME NEW m \in Intake!Messages, inStage[m] = "done", inSaid[m] \in Intake!Commands,
                      NEW x \in inReach[m]
               PROVE  inTurn[x] # "alive"
      BY DEF Intake!NothingOutlivesACommand
  <2>1. x \in Intake!Messages /\ Intake!Barred(x)
      BY <1>1 DEF Intake!IInv, Intake!TypeOK, Intake!RegistryOK, Intake!CommandsBar
  <2>2. inTurn[x] = "alive" => inStage[x] = "done"
      BY <1>1, <2>1 DEF Intake!IInv, Intake!MessagePlaces
  <2> QED
      BY <2>1, <2>2 DEF Intake!Barred
<1>2. ASSUME Intake!IInv PROVE Intake!StatusIsSettled
  <2> SUFFICES ASSUME NEW v \in Voices, inNote[v] = "done", inStatus[v] = "transcribing"
               PROVE  \/ inStage[v] = "failed" \/ inSaid[v] \in Intake!Commands \cup {"other"}
                      \/ Intake!Abandoned(v)
                      \/ \E m \in Intake!Messages : v \in inSwept[m] /\ inStage[m] = "drain"
      BY DEF Intake!StatusIsSettled
  <2> QED
      BY <1>2 DEF Intake!IInv, Intake!StatusHasOwner, Intake!VoicePlaces
<1>3. Intake!IInv => IntakeLeavesNothing
    BY <1>1, <1>2 DEF IntakeLeavesNothing, Intake!IntakeLeavesNothing
<1> QED
    BY <1>3, IntakeInvariant, PTL

(***************************************************************************)
(* Types                                                                   *)
(***************************************************************************)

LEMMA StoreMoves == [MCNext]_MCVars => [Next]_vars
BY DEF MCNext, MCVars

LEMMA StoreInvariant == MCSpec => []IInv
<1>1. MCInit => IInv
    BY InitIInv, PersistenceAssumption DEF MCInit
<1>2. IInv /\ [MCNext]_MCVars => IInv'
    BY NextIInv, StoreMoves, PersistenceAssumption
<1> QED
    BY <1>1, <1>2, PTL DEF MCSpec

\* The intake, the delivery queue, the CLI sessions and the store keep the kinds
\* of values their modules say, each inside its own inductive invariant.
THEOREM MessagingTypesAreKept == MCSpec => []TypesOK
<1>1. IInv /\ Intake!IInv /\ Limiter!IInv /\ Sessions!IInv => TypesOK
    BY DEF IInv, Intake!IInv, Limiter!IInv, Sessions!IInv, TypesOK
<1> QED
    BY <1>1, StoreInvariant, IntakeInvariant, LimiterInvariant, SessionsInvariant, PTL
=============================================================================
