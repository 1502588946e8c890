--------------------------- MODULE RuntimeProofs ---------------------------
(***************************************************************************)
(* What a server owns beside its requests, for all values of the constants *)
(* of MCRuntime: the feeds of session events, the admission of executions  *)
(* whose recovery is left to routing, the shared credentials, the code     *)
(* sessions, and the types of all of them.  The parts that have a proof    *)
(* module of their own are extended or instances of it here.               *)
(*                                                                         *)
(* The code sessions are most of it.  Their invariant relates a run to its *)
(* turn and to the task that works on it, says who may still open a        *)
(* connection and who waits for which process, and that the events of a    *)
(* run that ended without its turn cannot arrive any more.  For every      *)
(* action the lemma first says what it does to each variable it changes,   *)
(* and then why every part of the invariant stays.                         *)
(***************************************************************************)
EXTENDS MCRuntime, ProviderGenerationsProofs, TLAPS

(***************************************************************************)
(* Code sessions                                                           *)
(***************************************************************************)

LEMMA CodeConstants ==
    /\ NoSend \notin Sends /\ OperationOf \in [Calls -> Sends] /\ MaxGenerations \in Nat
    /\ Scenarios \subseteq [Code!Kinds -> Nat]
BY RuntimeAssumption DEF Code!ConstantsOK

LEMMA CodeParts ==
    ASSUME Code!IInv
    PROVE  /\ Code!RowsOK /\ Code!OwnerOK /\ Code!JobsOK /\ Code!NativeOK /\ Code!LeftOK
           /\ Code!FreshOK /\ Code!NamesOK /\ Code!StagesOK /\ Code!OneOpens /\ Code!AllHeld /\ Code!ShutOK
           /\ \A t \in Sends : Code!TurnSane(t) /\ Code!RunSane(t) /\ Code!JobSane(t) /\ Code!HeardSane(t)
BY DEF Code!IInv, Code!TypeOK, Code!RunsSane

LEMMA CodeWhole ==
    ASSUME Code!RowsOK', Code!OwnerOK', Code!JobsOK', Code!NativeOK', Code!LeftOK',
           Code!FreshOK', Code!NamesOK', Code!StagesOK', Code!OneOpens', Code!AllHeld', Code!ShutOK',
           \A t \in Sends : Code!TurnSane(t)' /\ Code!RunSane(t)' /\ Code!JobSane(t)' /\ Code!HeardSane(t)'
    PROVE  Code!IInv'
BY RuntimeAssumption DEF Code!IInv, Code!TypeOK, Code!RunsSane, Code!ConstantsOK, Code!Kinds

LEMMA CodeGens == /\ 0 \in Code!Gens /\ 0 \notin Code!Generations
                  /\ \A g \in Code!Gens : g # 0 => g \in Code!Generations
BY CodeConstants DEF Code!Gens, Code!Generations

\* The fields of the variables.
LEMMA CodeFields ==
    ASSUME Code!RowsOK, Code!OwnerOK, Code!JobsOK, Code!NativeOK
    PROVE  /\ codeOwner.connection \in Code!Gens /\ codeOwner.stored \in BOOLEAN
           /\ codeOwner.overtaken \in BOOLEAN /\ codeOwner.finished \in BOOLEAN
           /\ codeSession.model \in Code!Models /\ codeSession.thread \in BOOLEAN
           /\ codeDeletion.gen \in Code!Gens /\ codeService.gen \in Code!Gens /\ codeHalting.gen \in Code!Gens
           /\ \A t \in Sends : /\ codeWork[t].gen \in Code!Gens /\ codeFails[t].gen \in Code!Gens
                               /\ codeInterrupts[t].gen \in Code!Gens /\ codeTurns[t].gen \in Code!Gens
                               /\ codeTurns[t].asked \in Nat /\ codeRuns[t].model \in Code!Models
                               /\ codeRuns[t].stop \in BOOLEAN /\ codeRuns[t].submitted \in BOOLEAN
                               /\ codeRuns[t].turn \in Sends \cup {NoSend}
           /\ 0 \in Code!Gens /\ 0 \notin Code!Generations
           /\ \A g \in Code!Gens : g # 0 => g \in Code!Generations
BY CodeGens DEF Code!RowsOK, Code!OwnerOK, Code!JobsOK, Code!NativeOK, Code!Owners,
    Code!SessionRows, Code!Deletions, Code!Services,
    Code!FailJobs, Code!WorkJobs, Code!InterruptJobs, Code!NativeTurns, Code!RunRows

LEMMA CodeCut ==
    ASSUME NEW o \in Code!Owners
    PROVE  /\ Code!Cut(o) \in Code!Owners /\ Code!Cut(o).connection = 0 /\ Code!Cut(o).loaded = FALSE
           /\ Code!Cut(o).stored = o.stored /\ Code!Cut(o).finished = o.finished
           /\ Code!Cut(o).overtaken = o.overtaken
<1> DEFINE c == [o EXCEPT !.connection = 0]
<1>1. /\ c \in Code!Owners /\ c.connection = 0 /\ c.loaded = o.loaded /\ c.stored = o.stored
      /\ c.finished = o.finished /\ c.overtaken = o.overtaken
    BY CodeConstants DEF Code!Owners, Code!Gens
<1>2. Code!Cut(o) = [c EXCEPT !.loaded = FALSE]
    BY DEF Code!Cut
<1> HIDE DEF c
<1> QED
    BY <1>1, <1>2 DEF Code!Owners

LEMMA CodeDetached ==
    ASSUME Code!OwnerOK
    PROVE  /\ Code!Detached \in Code!Owners /\ Code!Detached.connection = 0 /\ Code!Detached.loaded = FALSE
           /\ Code!Detached.stored = codeOwner.stored /\ Code!Detached.finished = codeOwner.finished
           /\ Code!Detached.overtaken = codeOwner.overtaken
<1>1. PICK o \in Code!Owners : o = codeOwner
    BY DEF Code!OwnerOK
<1> QED
    BY <1>1, CodeCut DEF Code!Detached

LEMMA CodeDeletionAt ==
    ASSUME Code!JobsOK, NEW place \in {"none", "opening", "launching", "asking", "complete",
                                  "conflict", "uncertain"}, NEW g \in Code!Gens
    PROVE  /\ Code!DeletionAt(place, g) \in Code!Deletions
           /\ Code!DeletionAt(place, g).at = place /\ Code!DeletionAt(place, g).gen = g
           /\ Code!DeletionAt(place, g).reconcile = codeDeletion.reconcile
<1> DEFINE d == [codeDeletion EXCEPT !.at = place]
<1>1. d \in Code!Deletions /\ d.at = place /\ d.gen = codeDeletion.gen /\ d.reconcile = codeDeletion.reconcile
    BY DEF Code!Deletions, Code!JobsOK
<1>2. Code!DeletionAt(place, g) = [d EXCEPT !.gen = g]
    BY DEF Code!DeletionAt
<1> HIDE DEF d
<1> QED
    BY <1>1, <1>2 DEF Code!Deletions

\* One run changes, in two fields.
LEMMA CodeBound ==
    ASSUME Code!RowsOK, NEW s \in Sends, NEW turn \in Sends
    PROVE  /\ Code!Bound(s, turn) \in [Sends -> Code!RunRows]
           /\ Code!Bound(s, turn)[s].turn = turn
           /\ Code!Bound(s, turn)[s].status = IF codeRuns[s].stop THEN "stopping" ELSE "running"
           /\ Code!Bound(s, turn)[s].stop = codeRuns[s].stop
           /\ Code!Bound(s, turn)[s].submitted = codeRuns[s].submitted
           /\ Code!Bound(s, turn)[s].model = codeRuns[s].model
           /\ \A t \in Sends : t # s => Code!Bound(s, turn)[t] = codeRuns[t]
<1> DEFINE b == [codeRuns EXCEPT ![s].turn = turn]
           st == IF codeRuns[s].stop THEN "stopping" ELSE "running"
<1>1. /\ b \in [Sends -> Code!RunRows] /\ b[s].turn = turn /\ b[s].status = codeRuns[s].status
      /\ b[s].stop = codeRuns[s].stop /\ b[s].submitted = codeRuns[s].submitted /\ b[s].model = codeRuns[s].model
      /\ \A t \in Sends : t # s => b[t] = codeRuns[t]
    BY DEF Code!RowsOK, Code!RunRows
<1>2. Code!Bound(s, turn) = [b EXCEPT ![s].status = st]
    BY DEF Code!Bound
<1>3. st \in Code!Statuses
    BY DEF Code!Statuses, Code!Active
<1>4. st = IF codeRuns[s].stop THEN "stopping" ELSE "running"
    OBVIOUS
<1> HIDE DEF b, st
<1> QED
    BY <1>1, <1>2, <1>3, <1>4 DEF Code!RunRows

LEMMA CodeStopped ==
    ASSUME Code!RowsOK, NEW s \in Sends
    PROVE  /\ Code!Stopped(s) \in [Sends -> Code!RunRows]
           /\ Code!Stopped(s)[s].stop = TRUE /\ Code!Stopped(s)[s].status = "stopping"
           /\ Code!Stopped(s)[s].turn = codeRuns[s].turn
           /\ Code!Stopped(s)[s].submitted = codeRuns[s].submitted
           /\ Code!Stopped(s)[s].model = codeRuns[s].model
           /\ \A t \in Sends : t # s => Code!Stopped(s)[t] = codeRuns[t]
<1> DEFINE b == [codeRuns EXCEPT ![s].stop = TRUE]
<1>1. /\ b \in [Sends -> Code!RunRows] /\ b[s].turn = codeRuns[s].turn
      /\ b[s].stop = TRUE /\ b[s].submitted = codeRuns[s].submitted /\ b[s].model = codeRuns[s].model
      /\ \A t \in Sends : t # s => b[t] = codeRuns[t]
    BY DEF Code!RowsOK, Code!RunRows
<1>2. Code!Stopped(s) = [b EXCEPT ![s].status = "stopping"]
    BY DEF Code!Stopped
<1>3. "stopping" \in Code!Statuses
    BY DEF Code!Statuses, Code!Active
<1> HIDE DEF b
<1> QED
    BY <1>1, <1>2, <1>3 DEF Code!RunRows

LEMMA CodeInterrupting ==
    ASSUME Code!JobsOK, Code!OwnerOK, NEW rs \in [Sends -> Code!RunRows], NEW s \in Sends
    PROVE  /\ Code!Interrupting(rs, s) \in [Sends -> Code!InterruptJobs]
           /\ \A t \in Sends : t # s => Code!Interrupting(rs, s)[t] = codeInterrupts[t]
           /\ \/ Code!Interrupting(rs, s)[s] = codeInterrupts[s]
              \/ /\ Code!Interrupting(rs, s)[s].at = "asking" /\ codeInterrupts[s].at = "none"
                 /\ Code!Interrupting(rs, s)[s].gen = codeOwner.connection
                 /\ rs[s].turn # NoSend
BY DEF Code!Interrupting, Code!JobsOK, Code!OwnerOK, Code!Owners, Code!InterruptJobs, Code!Job

\* The finally clause of _work.
LEMMA CodeLeaves ==
    ASSUME Code!JobsOK, Code!OwnerOK, NEW s \in Sends, NEW o \in Code!Owners, Code!Leaves(s, o)
    PROVE  /\ codeWork' \in [Sends -> Code!WorkJobs] /\ codeOwner' \in Code!Owners
           /\ \A t \in Sends : t # s => codeWork'[t] = codeWork[t]
           /\ codeOwner'.stored = o.stored /\ codeOwner'.overtaken = o.overtaken
           /\ codeOwner'.finished = o.finished
           /\ \/ /\ codeService.mode = "up" /\ codeOwner.stored
                 /\ codeWork'[s].at = "none" /\ codeWork'[s].gen = 0
                 /\ codeOwner'.connection = o.connection
              \/ /\ codeWork'[s].at = "leaving" /\ codeWork'[s].gen = o.connection
                 /\ codeOwner'.connection = 0
<1>c. o.connection \in Code!Gens /\ 0 \in Code!Gens
    BY CodeConstants DEF Code!Owners, Code!Gens
<1>1. CASE Code!Accepting /\ codeOwner.stored
    BY <1>1, <1>c DEF Code!Leaves, Code!Accepting, Code!Nothing, Code!Job, Code!JobsOK,
        Code!WorkJobs
<1>2. CASE ~(Code!Accepting /\ codeOwner.stored)
    <2>1. codeWork' = [codeWork EXCEPT ![s] = Code!Job("leaving", o.connection)] /\ codeOwner' = Code!Cut(o)
        BY <1>2 DEF Code!Leaves
    <2>2. /\ codeWork' \in [Sends -> Code!WorkJobs] /\ \A t \in Sends : t # s => codeWork'[t] = codeWork[t]
          /\ codeWork'[s].at = "leaving" /\ codeWork'[s].gen = o.connection
        BY <2>1, <1>c DEF Code!Job, Code!JobsOK, Code!WorkJobs
    <2> QED
        BY <2>1, <2>2, CodeCut
<1> QED
    BY <1>1, <1>2

\* _finish_locked.
LEMMA CodeFinish ==
    ASSUME Code!RowsOK, Code!OwnerOK, NEW s \in Sends, NEW st \in Code!Final, NEW o \in Code!Owners,
           Code!Finish(s, st, o)
    PROVE  /\ codeRuns' \in [Sends -> Code!RunRows] /\ codeOwner' \in Code!Owners /\ codeFresh' \in {codeFresh, {}}
           /\ \A t \in Sends : t # s => codeRuns'[t] = codeRuns[t]
           /\ codeOwner'.connection = o.connection /\ codeOwner'.stored = o.stored
           /\ codeOwner'.overtaken = o.overtaken
           /\ codeRuns'[s].stop = codeRuns[s].stop /\ codeRuns'[s].submitted = codeRuns[s].submitted
           /\ codeRuns'[s].turn = codeRuns[s].turn
           /\ \/ codeRuns'[s].status = codeRuns[s].status /\ ~(Code!Running(s) /\ codeOwner.stored)
              \/ codeRuns'[s].status = st /\ Code!Running(s) /\ codeOwner.stored
<1>1. st \in Code!Statuses
    BY DEF Code!Statuses
<1>2. CASE Code!Running(s) /\ codeOwner.stored
    <2>1. /\ codeRuns' = [codeRuns EXCEPT ![s].status = st] /\ codeFresh' = {}
          /\ codeOwner' = [o EXCEPT !.finished = TRUE]
        BY <1>2 DEF Code!Finish
    <2>2. /\ codeOwner' \in Code!Owners /\ codeOwner'.connection = o.connection
          /\ codeOwner'.stored = o.stored /\ codeOwner'.overtaken = o.overtaken
        BY <2>1 DEF Code!Owners
    <2>3. /\ codeRuns' \in [Sends -> Code!RunRows] /\ codeRuns'[s].status = st
          /\ codeRuns'[s].stop = codeRuns[s].stop /\ codeRuns'[s].submitted = codeRuns[s].submitted
          /\ codeRuns'[s].turn = codeRuns[s].turn
          /\ \A t \in Sends : t # s => codeRuns'[t] = codeRuns[t]
        BY <2>1, <1>1 DEF Code!RowsOK, Code!RunRows
    <2> QED
        BY <1>2, <2>1, <2>2, <2>3
<1>3. CASE ~(Code!Running(s) /\ codeOwner.stored)
    BY <1>3 DEF Code!Finish, Code!RowsOK
<1> QED
    BY <1>2, <1>3

LEMMA CodeFinishAndLeave ==
    ASSUME Code!RowsOK, Code!OwnerOK, Code!JobsOK, NEW s \in Sends, NEW st \in Code!Final,
           Code!FinishAndLeave(s, st)
    PROVE  /\ codeRuns' \in [Sends -> Code!RunRows] /\ codeOwner' \in Code!Owners /\ codeFresh' \in {codeFresh, {}}
           /\ \A t \in Sends : t # s => codeRuns'[t] = codeRuns[t]
           /\ codeRuns'[s].stop = codeRuns[s].stop /\ codeRuns'[s].submitted = codeRuns[s].submitted
           /\ codeRuns'[s].turn = codeRuns[s].turn
           /\ \/ codeRuns'[s].status = codeRuns[s].status /\ ~(Code!Running(s) /\ codeOwner.stored)
              \/ codeRuns'[s].status = st /\ Code!Running(s) /\ codeOwner.stored
           /\ codeWork' \in [Sends -> Code!WorkJobs]
           /\ \A t \in Sends : t # s => codeWork'[t] = codeWork[t]
           /\ codeOwner'.stored = codeOwner.stored /\ codeOwner'.overtaken = codeOwner.overtaken
           /\ \/ /\ codeService.mode = "up" /\ codeOwner.stored
                 /\ codeWork'[s].at = "none" /\ codeWork'[s].gen = 0
                 /\ codeOwner'.connection = codeOwner.connection
              \/ /\ codeWork'[s].at = "leaving" /\ codeWork'[s].gen = codeOwner.connection
                 /\ codeOwner'.connection = 0
<1>1. st \in Code!Statuses
    BY DEF Code!Statuses
<1>2. PICK o \in Code!Owners :
          /\ o.connection = codeOwner.connection /\ o.stored = codeOwner.stored
          /\ o.overtaken = codeOwner.overtaken
          /\ o = IF Code!Running(s) /\ codeOwner.stored THEN [codeOwner EXCEPT !.finished = TRUE] ELSE codeOwner
    <2>1. \A b \in BOOLEAN : LET q == [codeOwner EXCEPT !.finished = b] IN
             q \in Code!Owners /\ q.connection = codeOwner.connection /\ q.stored = codeOwner.stored
             /\ q.overtaken = codeOwner.overtaken
        BY DEF Code!OwnerOK, Code!Owners
    <2>2. codeOwner \in Code!Owners
        BY DEF Code!OwnerOK
    <2> QED
        BY <2>1, <2>2
<1>3. Code!Leaves(s, o)
    BY <1>2 DEF Code!FinishAndLeave
<1>4. /\ codeRuns' \in [Sends -> Code!RunRows] /\ codeFresh' \in {codeFresh, {}}
      /\ \A t \in Sends : t # s => codeRuns'[t] = codeRuns[t]
      /\ codeRuns'[s].stop = codeRuns[s].stop /\ codeRuns'[s].submitted = codeRuns[s].submitted
      /\ codeRuns'[s].turn = codeRuns[s].turn
      /\ \/ codeRuns'[s].status = codeRuns[s].status /\ ~(Code!Running(s) /\ codeOwner.stored)
         \/ codeRuns'[s].status = st /\ Code!Running(s) /\ codeOwner.stored
    <2>1. CASE Code!Running(s) /\ codeOwner.stored
        <3>1. codeRuns' = [codeRuns EXCEPT ![s].status = st] /\ codeFresh' = {}
            BY <2>1 DEF Code!FinishAndLeave
        <3> QED
            BY <2>1, <3>1, <1>1 DEF Code!RowsOK, Code!RunRows
    <2>2. CASE ~(Code!Running(s) /\ codeOwner.stored)
        <3>1. codeRuns' = codeRuns /\ codeFresh' = codeFresh
            BY <2>2 DEF Code!FinishAndLeave
        <3> QED
            BY <2>2, <3>1 DEF Code!RowsOK
    <2> QED
        BY <2>1, <2>2
<1>5. /\ codeWork' \in [Sends -> Code!WorkJobs] /\ codeOwner' \in Code!Owners
      /\ \A t \in Sends : t # s => codeWork'[t] = codeWork[t]
      /\ codeOwner'.stored = o.stored /\ codeOwner'.overtaken = o.overtaken
      /\ \/ /\ codeService.mode = "up" /\ codeOwner.stored
            /\ codeWork'[s].at = "none" /\ codeWork'[s].gen = 0
            /\ codeOwner'.connection = o.connection
         \/ /\ codeWork'[s].at = "leaving" /\ codeWork'[s].gen = o.connection
            /\ codeOwner'.connection = 0
    BY <1>3, CodeLeaves
<1> QED
    BY <1>2, <1>4, <1>5

\* A process that is opened has no name yet.
LEMMA CodeOpens ==
    ASSUME Code!OwnerOK, Code!NativeOK, NEW g \in Code!Generations, Code!Opens(g)
    PROVE  /\ g \in Code!Gens /\ g # 0 /\ codeProcess[g] = "none"
           /\ codeProcess' \in [Code!Generations -> {"none", "alive", "silent", "gone"}]
           /\ codeProcess'[g] = "alive"
           /\ \A h \in Code!Generations : h # g => codeProcess'[h] = codeProcess[h]
           /\ codeOwner' \in Code!Owners /\ codeOwner'.connection = g
           /\ codeOwner'.stored = codeOwner.stored /\ codeOwner'.overtaken = codeOwner.overtaken
<1>1. g \in Code!Gens /\ g # 0
    BY CodeConstants DEF Code!Generations, Code!Gens
<1>2. codeProcess[g] = "none" /\ codeProcess' = [codeProcess EXCEPT ![g] = "alive"]
      /\ codeOwner' = [codeOwner EXCEPT !.connection = g]
    BY DEF Code!Opens
<1>3. /\ codeProcess' \in [Code!Generations -> {"none", "alive", "silent", "gone"}] /\ codeProcess'[g] = "alive"
      /\ \A h \in Code!Generations : h # g => codeProcess'[h] = codeProcess[h]
    BY <1>2 DEF Code!NativeOK
<1> QED
    BY <1>1, <1>2, <1>3 DEF Code!OwnerOK, Code!Owners

LEMMA CodeOutcome == ASSUME NEW s \in Sends PROVE Code!Outcome(s) \in Code!Final
BY DEF Code!Outcome, Code!Final

LEMMA CodeSendKeeps ==
    ASSUME Code!IInv, NEW c \in Calls, Code!Send(c)
    PROVE  Code!IInv' /\ \A t \in Sends : Code!WantedStart(t)
<1>a. /\ Code!RowsOK /\ Code!OwnerOK /\ Code!JobsOK /\ Code!NativeOK /\ Code!LeftOK
      /\ Code!FreshOK /\ Code!NamesOK /\ Code!StagesOK /\ Code!OneOpens /\ Code!AllHeld /\ Code!ShutOK
      /\ \A t \in Sends : Code!TurnSane(t) /\ Code!RunSane(t) /\ Code!JobSane(t) /\ Code!HeardSane(t)
    BY CodeParts
<1>u. UNCHANGED <<codeSession, codeRuns, codeLatest, codeOwner, codeWork, codeFails, codeInterrupts, codeDeletion, codeHalting, codeService, codeProcess, codeHistory, codeTurns>>
    BY DEF Code!Send, Code!jobs, Code!native
<1>k. /\ codeOwner.connection \in Code!Gens /\ codeOwner.stored \in BOOLEAN
      /\ codeOwner.overtaken \in BOOLEAN /\ codeOwner.finished \in BOOLEAN
      /\ codeSession.model \in Code!Models /\ codeSession.thread \in BOOLEAN
      /\ codeDeletion.gen \in Code!Gens /\ codeService.gen \in Code!Gens /\ codeHalting.gen \in Code!Gens
      /\ \A t \in Sends : /\ codeWork[t].gen \in Code!Gens /\ codeFails[t].gen \in Code!Gens
                          /\ codeInterrupts[t].gen \in Code!Gens /\ codeTurns[t].gen \in Code!Gens
                          /\ codeTurns[t].asked \in Nat /\ codeRuns[t].model \in Code!Models
                          /\ codeRuns[t].stop \in BOOLEAN /\ codeRuns[t].submitted \in BOOLEAN
                          /\ codeRuns[t].turn \in Sends \cup {NoSend}
      /\ 0 \in Code!Gens /\ 0 \notin Code!Generations
      /\ \A h \in Code!Gens : h # 0 => h \in Code!Generations
    BY <1>a, CodeFields
<1>e1. /\ codeCalls' \in [Calls -> Code!Models \cup {Code!NoModel}] /\ codeCalls'[c] = codeSession.model
       /\ \A d \in Calls : d # c => codeCalls'[d] = codeCalls[d]
       /\ codeFresh' = codeFresh \cup {c}
    BY <1>a, <1>k DEF Code!Send, Code!RowsOK
<1>e2. Code!LeftOK'
    BY <1>a DEF Code!Send, Code!Spend, Code!Fault, Code!LeftOK, Code!Kinds
<1>1. Code!RowsOK'
    BY <1>a, <1>u, <1>k, <1>e1, <1>e2 DEF Code!RowsOK
<1>2. Code!OwnerOK'
    BY <1>a, <1>u DEF Code!OwnerOK
<1>3. Code!JobsOK'
    BY <1>a, <1>u DEF Code!JobsOK
<1>4. Code!NativeOK'
    BY <1>a, <1>u DEF Code!NativeOK
<1>5. Code!LeftOK'
    BY <1>e1, <1>e2
<1>6. Code!FreshOK'
    BY <1>a, <1>u, <1>k, <1>e1, <1>e2 DEF Code!FreshOK, Code!RowsOK
<1>7. Code!NamesOK'
    BY <1>a, <1>u DEF Code!NamesOK, Code!Named
<1>8. Code!StagesOK'
    BY <1>a, <1>u DEF Code!StagesOK, Code!Deleted
<1>9. Code!OneOpens'
    BY <1>a, <1>u DEF Code!OneOpens, Code!Opening, Code!Accepting, Code!Running, Code!At
<1>10. Code!AllHeld'
    BY <1>a, <1>u DEF Code!AllHeld, Code!IsHeld, Code!ClosesIt, Code!Exists
<1>11. Code!ShutOK'
    BY <1>a, <1>u DEF Code!ShutOK, Code!InUse, Code!At, Code!Exists, Code!Deleted
<1>p. ASSUME NEW t \in Sends PROVE Code!TurnSane(t)' /\ Code!RunSane(t)' /\ Code!JobSane(t)' /\ Code!HeardSane(t)'
    <2>1. Code!TurnSane(t)'
        BY <1>a, <1>u DEF Code!TurnSane, Code!NoTurn
    <2>2. Code!RunSane(t)'
        BY <1>a, <1>u DEF Code!RunSane, Code!Deleted
    <2>3. Code!JobSane(t)'
        BY <1>a, <1>u DEF Code!JobSane, Code!Unsubmitted, Code!At, Code!Deleted
    <2>4. Code!HeardSane(t)'
        BY <1>a, <1>u DEF Code!HeardSane, Code!Unheard, Code!Running, Code!At, Code!Deleted
    <2> QED
        BY <2>1, <2>2, <2>3, <2>4
<1>w. \A t \in Sends : Code!WantedStart(t)
    BY <1>u DEF Code!WantedStart
<1>q. Code!IInv'
    BY <1>1, <1>2, <1>3, <1>4, <1>5, <1>6, <1>7, <1>8, <1>9, <1>10, <1>11, <1>p, CodeWhole
<1> QED
    BY <1>q, <1>w

LEMMA CodeSendReturnsKeeps ==
    ASSUME Code!IInv, NEW c \in Calls, Code!SendReturns(c)
    PROVE  Code!IInv' /\ \A t \in Sends : Code!WantedStart(t)
<1>a. /\ Code!RowsOK /\ Code!OwnerOK /\ Code!JobsOK /\ Code!NativeOK /\ Code!LeftOK
      /\ Code!FreshOK /\ Code!NamesOK /\ Code!StagesOK /\ Code!OneOpens /\ Code!AllHeld /\ Code!ShutOK
      /\ \A t \in Sends : Code!TurnSane(t) /\ Code!RunSane(t) /\ Code!JobSane(t) /\ Code!HeardSane(t)
    BY CodeParts
<1>u. UNCHANGED <<codeSession, codeRuns, codeLatest, codeOwner, codeWork, codeFails, codeInterrupts, codeDeletion, codeHalting, codeService, codeProcess, codeHistory, codeTurns, codeLeft>>
    BY DEF Code!SendReturns, Code!jobs, Code!native
<1>k. /\ codeOwner.connection \in Code!Gens /\ codeOwner.stored \in BOOLEAN
      /\ codeOwner.overtaken \in BOOLEAN /\ codeOwner.finished \in BOOLEAN
      /\ codeSession.model \in Code!Models /\ codeSession.thread \in BOOLEAN
      /\ codeDeletion.gen \in Code!Gens /\ codeService.gen \in Code!Gens /\ codeHalting.gen \in Code!Gens
      /\ \A t \in Sends : /\ codeWork[t].gen \in Code!Gens /\ codeFails[t].gen \in Code!Gens
                          /\ codeInterrupts[t].gen \in Code!Gens /\ codeTurns[t].gen \in Code!Gens
                          /\ codeTurns[t].asked \in Nat /\ codeRuns[t].model \in Code!Models
                          /\ codeRuns[t].stop \in BOOLEAN /\ codeRuns[t].submitted \in BOOLEAN
                          /\ codeRuns[t].turn \in Sends \cup {NoSend}
      /\ 0 \in Code!Gens /\ 0 \notin Code!Generations
      /\ \A h \in Code!Gens : h # 0 => h \in Code!Generations
    BY <1>a, CodeFields
<1>e1. /\ codeCalls' \in [Calls -> Code!Models \cup {Code!NoModel}]
       /\ \A d \in Calls : d # c => codeCalls'[d] = codeCalls[d]
       /\ codeFresh' = codeFresh \ {c}
    BY <1>a DEF Code!SendReturns, Code!RowsOK
<1>1. Code!RowsOK'
    BY <1>a, <1>u, <1>k, <1>e1 DEF Code!RowsOK
<1>2. Code!OwnerOK'
    BY <1>a, <1>u DEF Code!OwnerOK
<1>3. Code!JobsOK'
    BY <1>a, <1>u DEF Code!JobsOK
<1>4. Code!NativeOK'
    BY <1>a, <1>u DEF Code!NativeOK
<1>5. Code!LeftOK'
    BY <1>a, <1>u DEF Code!LeftOK, Code!Kinds
<1>6. Code!FreshOK'
    BY <1>a, <1>u, <1>k, <1>e1 DEF Code!FreshOK, Code!RowsOK
<1>7. Code!NamesOK'
    BY <1>a, <1>u DEF Code!NamesOK, Code!Named
<1>8. Code!StagesOK'
    BY <1>a, <1>u DEF Code!StagesOK, Code!Deleted
<1>9. Code!OneOpens'
    BY <1>a, <1>u DEF Code!OneOpens, Code!Opening, Code!Accepting, Code!Running, Code!At
<1>10. Code!AllHeld'
    BY <1>a, <1>u DEF Code!AllHeld, Code!IsHeld, Code!ClosesIt, Code!Exists
<1>11. Code!ShutOK'
    BY <1>a, <1>u DEF Code!ShutOK, Code!InUse, Code!At, Code!Exists, Code!Deleted
<1>p. ASSUME NEW t \in Sends PROVE Code!TurnSane(t)' /\ Code!RunSane(t)' /\ Code!JobSane(t)' /\ Code!HeardSane(t)'
    <2>1. Code!TurnSane(t)'
        BY <1>a, <1>u DEF Code!TurnSane, Code!NoTurn
    <2>2. Code!RunSane(t)'
        BY <1>a, <1>u DEF Code!RunSane, Code!Deleted
    <2>3. Code!JobSane(t)'
        BY <1>a, <1>u DEF Code!JobSane, Code!Unsubmitted, Code!At, Code!Deleted
    <2>4. Code!HeardSane(t)'
        BY <1>a, <1>u DEF Code!HeardSane, Code!Unheard, Code!Running, Code!At, Code!Deleted
    <2> QED
        BY <2>1, <2>2, <2>3, <2>4
<1>w. \A t \in Sends : Code!WantedStart(t)
    BY <1>u DEF Code!WantedStart
<1>q. Code!IInv'
    BY <1>1, <1>2, <1>3, <1>4, <1>5, <1>6, <1>7, <1>8, <1>9, <1>10, <1>11, <1>p, CodeWhole
<1> QED
    BY <1>q, <1>w

LEMMA CodeUpdateSettingsKeeps ==
    ASSUME Code!IInv, Code!UpdateSettings
    PROVE  Code!IInv' /\ \A t \in Sends : Code!WantedStart(t)
<1>a. /\ Code!RowsOK /\ Code!OwnerOK /\ Code!JobsOK /\ Code!NativeOK /\ Code!LeftOK
      /\ Code!FreshOK /\ Code!NamesOK /\ Code!StagesOK /\ Code!OneOpens /\ Code!AllHeld /\ Code!ShutOK
      /\ \A t \in Sends : Code!TurnSane(t) /\ Code!RunSane(t) /\ Code!JobSane(t) /\ Code!HeardSane(t)
    BY CodeParts
<1>u. UNCHANGED <<codeRuns, codeLatest, codeOwner, codeCalls, codeWork, codeFails, codeInterrupts, codeDeletion, codeHalting, codeService, codeProcess, codeHistory, codeTurns>>
    BY DEF Code!UpdateSettings, Code!jobs, Code!native
<1>k. /\ codeOwner.connection \in Code!Gens /\ codeOwner.stored \in BOOLEAN
      /\ codeOwner.overtaken \in BOOLEAN /\ codeOwner.finished \in BOOLEAN
      /\ codeSession.model \in Code!Models /\ codeSession.thread \in BOOLEAN
      /\ codeDeletion.gen \in Code!Gens /\ codeService.gen \in Code!Gens /\ codeHalting.gen \in Code!Gens
      /\ \A t \in Sends : /\ codeWork[t].gen \in Code!Gens /\ codeFails[t].gen \in Code!Gens
                          /\ codeInterrupts[t].gen \in Code!Gens /\ codeTurns[t].gen \in Code!Gens
                          /\ codeTurns[t].asked \in Nat /\ codeRuns[t].model \in Code!Models
                          /\ codeRuns[t].stop \in BOOLEAN /\ codeRuns[t].submitted \in BOOLEAN
                          /\ codeRuns[t].turn \in Sends \cup {NoSend}
      /\ 0 \in Code!Gens /\ 0 \notin Code!Generations
      /\ \A h \in Code!Gens : h # 0 => h \in Code!Generations
    BY <1>a, CodeFields
<1>e1. /\ codeSession' \in Code!SessionRows /\ codeSession'.status = codeSession.status /\ codeSession'.status = "ready" /\ codeFresh' = {}
    BY <1>a DEF Code!UpdateSettings, Code!Sendable, Code!RowsOK, Code!SessionRows, Code!Models
<1>e2. Code!LeftOK'
    BY <1>a DEF Code!UpdateSettings, Code!Spend, Code!Fault, Code!LeftOK, Code!Kinds
<1>1. Code!RowsOK'
    BY <1>a, <1>u, <1>k, <1>e1, <1>e2 DEF Code!RowsOK
<1>2. Code!OwnerOK'
    BY <1>a, <1>u DEF Code!OwnerOK
<1>3. Code!JobsOK'
    BY <1>a, <1>u DEF Code!JobsOK
<1>4. Code!NativeOK'
    BY <1>a, <1>u DEF Code!NativeOK
<1>5. Code!LeftOK'
    BY <1>e1, <1>e2
<1>6. Code!FreshOK'
    BY <1>a, <1>u, <1>k, <1>e1, <1>e2 DEF Code!FreshOK
<1>7. Code!NamesOK'
    BY <1>a, <1>u DEF Code!NamesOK, Code!Named
<1>8. Code!StagesOK'
    BY <1>a, <1>u, <1>k, <1>e1, <1>e2 DEF Code!StagesOK, Code!Deleted
<1>9. Code!OneOpens'
    BY <1>a, <1>u DEF Code!OneOpens, Code!Opening, Code!Accepting, Code!Running, Code!At
<1>10. Code!AllHeld'
    BY <1>a, <1>u DEF Code!AllHeld, Code!IsHeld, Code!ClosesIt, Code!Exists
<1>11. Code!ShutOK'
    BY <1>a, <1>u, <1>k, <1>e1, <1>e2 DEF Code!ShutOK, Code!InUse, Code!At, Code!Exists,
        Code!Deleted
<1>p. ASSUME NEW t \in Sends PROVE Code!TurnSane(t)' /\ Code!RunSane(t)' /\ Code!JobSane(t)' /\ Code!HeardSane(t)'
    <2>1. Code!TurnSane(t)'
        BY <1>a, <1>u DEF Code!TurnSane, Code!NoTurn
    <2>2. Code!RunSane(t)'
        BY <1>a, <1>u, <1>k, <1>e1, <1>e2 DEF Code!RunSane, Code!Deleted
    <2>3. Code!JobSane(t)'
        BY <1>a, <1>u, <1>k, <1>e1, <1>e2 DEF Code!JobSane, Code!Unsubmitted, Code!At,
            Code!Deleted
    <2>4. Code!HeardSane(t)'
        BY <1>a, <1>u, <1>k, <1>e1, <1>e2 DEF Code!HeardSane, Code!Unheard, Code!Running,
            Code!At, Code!Deleted
    <2> QED
        BY <2>1, <2>2, <2>3, <2>4
<1>w. \A t \in Sends : Code!WantedStart(t)
    BY <1>u DEF Code!WantedStart
<1>q. Code!IInv'
    BY <1>1, <1>2, <1>3, <1>4, <1>5, <1>6, <1>7, <1>8, <1>9, <1>10, <1>11, <1>p, CodeWhole
<1> QED
    BY <1>q, <1>w

LEMMA CodeStopKeeps ==
    ASSUME Code!IInv, NEW s \in Sends, Code!Stop(s)
    PROVE  Code!IInv' /\ \A t \in Sends : Code!WantedStart(t)
<1>a. /\ Code!RowsOK /\ Code!OwnerOK /\ Code!JobsOK /\ Code!NativeOK /\ Code!LeftOK
      /\ Code!FreshOK /\ Code!NamesOK /\ Code!StagesOK /\ Code!OneOpens /\ Code!AllHeld /\ Code!ShutOK
      /\ \A t \in Sends : Code!TurnSane(t) /\ Code!RunSane(t) /\ Code!JobSane(t) /\ Code!HeardSane(t)
    BY CodeParts
<1>u. UNCHANGED <<codeSession, codeLatest, codeFresh, codeOwner, codeCalls, codeWork, codeFails, codeDeletion, codeHalting, codeService, codeProcess, codeHistory, codeTurns>>
    BY DEF Code!Stop, Code!native
<1>k. /\ codeOwner.connection \in Code!Gens /\ codeOwner.stored \in BOOLEAN
      /\ codeOwner.overtaken \in BOOLEAN /\ codeOwner.finished \in BOOLEAN
      /\ codeSession.model \in Code!Models /\ codeSession.thread \in BOOLEAN
      /\ codeDeletion.gen \in Code!Gens /\ codeService.gen \in Code!Gens /\ codeHalting.gen \in Code!Gens
      /\ \A t \in Sends : /\ codeWork[t].gen \in Code!Gens /\ codeFails[t].gen \in Code!Gens
                          /\ codeInterrupts[t].gen \in Code!Gens /\ codeTurns[t].gen \in Code!Gens
                          /\ codeTurns[t].asked \in Nat /\ codeRuns[t].model \in Code!Models
                          /\ codeRuns[t].stop \in BOOLEAN /\ codeRuns[t].submitted \in BOOLEAN
                          /\ codeRuns[t].turn \in Sends \cup {NoSend}
      /\ 0 \in Code!Gens /\ 0 \notin Code!Generations
      /\ \A h \in Code!Gens : h # 0 => h \in Code!Generations
    BY <1>a, CodeFields
<1>e1. /\ codeService.mode = "up" /\ codeOwner.stored
       /\ codeLatest = s /\ codeRuns[s].status \in Code!Active
       /\ codeRuns' = Code!Stopped(s) /\ codeInterrupts' = Code!Interrupting(Code!Stopped(s), s)
    BY  DEF Code!Stop, Code!Accepting, Code!Running, Code!RequestStop
<1>e2. codeRuns' \in [Sends -> Code!RunRows]
       /\ codeRuns'[s].stop = TRUE /\ codeRuns'[s].status = "stopping" /\ codeRuns'[s].turn = codeRuns[s].turn
       /\ codeRuns'[s].submitted = codeRuns[s].submitted
       /\ \A t \in Sends : t # s => codeRuns'[t] = codeRuns[t]
    BY <1>a, <1>e1, CodeStopped
<1>e3. /\ codeInterrupts' \in [Sends -> Code!InterruptJobs]
       /\ \A t \in Sends : t # s => codeInterrupts'[t] = codeInterrupts[t]
       /\ \/ codeInterrupts'[s] = codeInterrupts[s]
          \/ /\ codeInterrupts'[s].at = "asking" /\ codeInterrupts[s].at = "none"
             /\ codeInterrupts'[s].gen = codeOwner.connection /\ codeRuns[s].turn # NoSend
    BY <1>a, <1>e1, <1>e2, CodeInterrupting
<1>e4. Code!LeftOK'
    BY <1>a DEF Code!Stop, Code!Spend, Code!Fault, Code!LeftOK, Code!Kinds
<1>1. Code!RowsOK'
    BY <1>a, <1>u, <1>k, <1>e1, <1>e2, <1>e3, <1>e4 DEF Code!RowsOK
<1>2. Code!OwnerOK'
    BY <1>a, <1>u DEF Code!OwnerOK
<1>3. Code!JobsOK'
    BY <1>a, <1>u, <1>k, <1>e1, <1>e2, <1>e3, <1>e4 DEF Code!JobsOK
<1>4. Code!NativeOK'
    BY <1>a, <1>u DEF Code!NativeOK
<1>5. Code!LeftOK'
    BY <1>e1, <1>e2, <1>e3, <1>e4
<1>6. Code!FreshOK'
    BY <1>a, <1>u DEF Code!FreshOK
<1>7. Code!NamesOK'
    BY <1>a, <1>u, <1>k, <1>e1, <1>e2, <1>e3, <1>e4 DEF Code!NamesOK, Code!Named
<1>8. Code!StagesOK'
    BY <1>a, <1>u DEF Code!StagesOK, Code!Deleted
<1>9. Code!OneOpens'
    BY <1>a, <1>u, <1>k, <1>e1, <1>e2, <1>e3, <1>e4 DEF Code!OneOpens, Code!Opening,
        Code!Accepting, Code!Running, Code!At, Code!Active
<1>10. Code!AllHeld'
    BY <1>a, <1>u, <1>k, <1>e1, <1>e2, <1>e3, <1>e4 DEF Code!AllHeld, Code!IsHeld,
        Code!ClosesIt, Code!Exists
<1>11. Code!ShutOK'
    BY <1>a, <1>u DEF Code!ShutOK, Code!InUse, Code!At, Code!Exists, Code!Deleted
<1>p. ASSUME NEW t \in Sends PROVE Code!TurnSane(t)' /\ Code!RunSane(t)' /\ Code!JobSane(t)' /\ Code!HeardSane(t)'
    <2>1. Code!TurnSane(t)'
        BY <1>a, <1>u DEF Code!TurnSane, Code!NoTurn
    <2>2. Code!RunSane(t)'
        BY <1>a, <1>u, <1>k, <1>e1, <1>e2, <1>e3, <1>e4 DEF Code!RunSane, Code!Deleted,
            Code!Active
    <2>3. Code!JobSane(t)'
        BY <1>a, <1>u, <1>k, <1>e1, <1>e2, <1>e3, <1>e4 DEF Code!JobSane, Code!Unsubmitted,
            Code!At, Code!Deleted, Code!RunSane
    <2>4. Code!HeardSane(t)'
        BY <1>a, <1>u, <1>k, <1>e1, <1>e2, <1>e3, <1>e4 DEF Code!HeardSane, Code!Unheard,
            Code!Running, Code!At, Code!Deleted, Code!Active
    <2> QED
        BY <2>1, <2>2, <2>3, <2>4
<1>w. \A t \in Sends : Code!WantedStart(t)
    BY <1>a, <1>e1, <1>e2, <1>e3, <1>e4 DEF Code!WantedStart, Code!Final, Code!Active
<1>q. Code!IInv'
    BY <1>1, <1>2, <1>3, <1>4, <1>5, <1>6, <1>7, <1>8, <1>9, <1>10, <1>11, <1>p, CodeWhole
<1> QED
    BY <1>q, <1>w

LEMMA CodeCloseUnsupportedKeeps ==
    ASSUME Code!IInv, NEW s \in Sends, Code!CloseUnsupported(s)
    PROVE  Code!IInv' /\ \A t \in Sends : Code!WantedStart(t)
<1>a. /\ Code!RowsOK /\ Code!OwnerOK /\ Code!JobsOK /\ Code!NativeOK /\ Code!LeftOK
      /\ Code!FreshOK /\ Code!NamesOK /\ Code!StagesOK /\ Code!OneOpens /\ Code!AllHeld /\ Code!ShutOK
      /\ \A t \in Sends : Code!TurnSane(t) /\ Code!RunSane(t) /\ Code!JobSane(t) /\ Code!HeardSane(t)
    BY CodeParts
<1>u. UNCHANGED <<codeSession, codeRuns, codeLatest, codeFresh, codeCalls, codeFails, codeInterrupts, codeDeletion, codeHalting, codeService, codeProcess, codeHistory, codeTurns>>
    BY DEF Code!CloseUnsupported, Code!rows, Code!native
<1>k. /\ codeOwner.connection \in Code!Gens /\ codeOwner.stored \in BOOLEAN
      /\ codeOwner.overtaken \in BOOLEAN /\ codeOwner.finished \in BOOLEAN
      /\ codeSession.model \in Code!Models /\ codeSession.thread \in BOOLEAN
      /\ codeDeletion.gen \in Code!Gens /\ codeService.gen \in Code!Gens /\ codeHalting.gen \in Code!Gens
      /\ \A t \in Sends : /\ codeWork[t].gen \in Code!Gens /\ codeFails[t].gen \in Code!Gens
                          /\ codeInterrupts[t].gen \in Code!Gens /\ codeTurns[t].gen \in Code!Gens
                          /\ codeTurns[t].asked \in Nat /\ codeRuns[t].model \in Code!Models
                          /\ codeRuns[t].stop \in BOOLEAN /\ codeRuns[t].submitted \in BOOLEAN
                          /\ codeRuns[t].turn \in Sends \cup {NoSend}
      /\ 0 \in Code!Gens /\ 0 \notin Code!Generations
      /\ \A h \in Code!Gens : h # 0 => h \in Code!Generations
    BY <1>a, CodeFields
<1>e1. codeWork[s].at = "starting" /\ codeOwner.connection # 0
    BY  DEF Code!CloseUnsupported, Code!At
<1>e2. /\ codeWork' \in [Sends -> Code!WorkJobs] /\ codeWork'[s].at = "closing" /\ codeWork'[s].gen = codeOwner.connection
       /\ \A t \in Sends : t # s => codeWork'[t] = codeWork[t]
    BY <1>a, <1>k DEF Code!CloseUnsupported, Code!Job, Code!JobsOK, Code!WorkJobs
<1>e3. /\ codeOwner' \in Code!Owners
       /\ codeOwner'.connection = 0 /\ codeOwner'.stored = codeOwner.stored /\ codeOwner'.overtaken = codeOwner.overtaken
    BY <1>a, CodeDetached DEF Code!CloseUnsupported
<1>e4. Code!LeftOK'
    BY <1>a DEF Code!CloseUnsupported, Code!Spend, Code!Fault, Code!LeftOK, Code!Kinds
<1>1. Code!RowsOK'
    BY <1>a, <1>u DEF Code!RowsOK
<1>2. Code!OwnerOK'
    BY <1>a, <1>u, <1>k, <1>e1, <1>e2, <1>e3, <1>e4 DEF Code!OwnerOK
<1>3. Code!JobsOK'
    BY <1>a, <1>u, <1>k, <1>e1, <1>e2, <1>e3, <1>e4 DEF Code!JobsOK
<1>4. Code!NativeOK'
    BY <1>a, <1>u DEF Code!NativeOK
<1>5. Code!LeftOK'
    BY <1>e1, <1>e2, <1>e3, <1>e4
<1>6. Code!FreshOK'
    BY <1>a, <1>u DEF Code!FreshOK
<1>7. Code!NamesOK'
    BY <1>a, <1>u, <1>k, <1>e1, <1>e2, <1>e3, <1>e4 DEF Code!NamesOK, Code!Named
<1>8. Code!StagesOK'
    BY <1>a, <1>u, <1>k, <1>e1, <1>e2, <1>e3, <1>e4 DEF Code!StagesOK, Code!Deleted
<1>9. Code!OneOpens'
    BY <1>a, <1>u, <1>k, <1>e1, <1>e2, <1>e3, <1>e4 DEF Code!OneOpens, Code!Opening,
        Code!Accepting, Code!Running, Code!At
<1>10. Code!AllHeld'
    BY <1>a, <1>u, <1>k, <1>e1, <1>e2, <1>e3, <1>e4 DEF Code!AllHeld, Code!IsHeld,
        Code!ClosesIt, Code!Exists
<1>11. Code!ShutOK'
    BY <1>a, <1>u, <1>k, <1>e1, <1>e2, <1>e3, <1>e4 DEF Code!ShutOK, Code!InUse, Code!At,
        Code!Exists, Code!Deleted
<1>p. ASSUME NEW t \in Sends PROVE Code!TurnSane(t)' /\ Code!RunSane(t)' /\ Code!JobSane(t)' /\ Code!HeardSane(t)'
    <2>1. Code!TurnSane(t)'
        BY <1>a, <1>u DEF Code!TurnSane, Code!NoTurn
    <2>2. Code!RunSane(t)'
        BY <1>a, <1>u DEF Code!RunSane, Code!Deleted
    <2>3. Code!JobSane(t)'
        BY <1>a, <1>u, <1>k, <1>e1, <1>e2, <1>e3, <1>e4 DEF Code!JobSane, Code!Unsubmitted,
            Code!At, Code!Deleted
    <2>4. Code!HeardSane(t)'
        BY <1>a, <1>u, <1>k, <1>e1, <1>e2, <1>e3, <1>e4 DEF Code!HeardSane, Code!Unheard,
            Code!Running, Code!At, Code!Deleted, Code!JobSane
    <2> QED
        BY <2>1, <2>2, <2>3, <2>4
<1>w. \A t \in Sends : Code!WantedStart(t)
    BY <1>u DEF Code!WantedStart
<1>q. Code!IInv'
    BY <1>1, <1>2, <1>3, <1>4, <1>5, <1>6, <1>7, <1>8, <1>9, <1>10, <1>11, <1>p, CodeWhole
<1> QED
    BY <1>q, <1>w

LEMMA CodeKeepConnectionKeeps ==
    ASSUME Code!IInv, NEW s \in Sends, Code!KeepConnection(s)
    PROVE  Code!IInv' /\ \A t \in Sends : Code!WantedStart(t)
<1>a. /\ Code!RowsOK /\ Code!OwnerOK /\ Code!JobsOK /\ Code!NativeOK /\ Code!LeftOK
      /\ Code!FreshOK /\ Code!NamesOK /\ Code!StagesOK /\ Code!OneOpens /\ Code!AllHeld /\ Code!ShutOK
      /\ \A t \in Sends : Code!TurnSane(t) /\ Code!RunSane(t) /\ Code!JobSane(t) /\ Code!HeardSane(t)
    BY CodeParts
<1>u. UNCHANGED <<codeSession, codeRuns, codeLatest, codeFresh, codeOwner, codeCalls, codeFails, codeInterrupts, codeDeletion, codeHalting, codeService, codeProcess, codeHistory, codeTurns, codeLeft>>
    BY DEF Code!KeepConnection, Code!rows, Code!native
<1>k. /\ codeOwner.connection \in Code!Gens /\ codeOwner.stored \in BOOLEAN
      /\ codeOwner.overtaken \in BOOLEAN /\ codeOwner.finished \in BOOLEAN
      /\ codeSession.model \in Code!Models /\ codeSession.thread \in BOOLEAN
      /\ codeDeletion.gen \in Code!Gens /\ codeService.gen \in Code!Gens /\ codeHalting.gen \in Code!Gens
      /\ \A t \in Sends : /\ codeWork[t].gen \in Code!Gens /\ codeFails[t].gen \in Code!Gens
                          /\ codeInterrupts[t].gen \in Code!Gens /\ codeTurns[t].gen \in Code!Gens
                          /\ codeTurns[t].asked \in Nat /\ codeRuns[t].model \in Code!Models
                          /\ codeRuns[t].stop \in BOOLEAN /\ codeRuns[t].submitted \in BOOLEAN
                          /\ codeRuns[t].turn \in Sends \cup {NoSend}
      /\ 0 \in Code!Gens /\ 0 \notin Code!Generations
      /\ \A h \in Code!Gens : h # 0 => h \in Code!Generations
    BY <1>a, CodeFields
<1>e1. codeWork[s].at = "starting" /\ codeOwner.connection # 0 /\ codeProcess[codeOwner.connection] = "alive"
    BY  DEF Code!KeepConnection, Code!At, Code!Alive
<1>e2. /\ codeWork' \in [Sends -> Code!WorkJobs] /\ codeWork'[s].at = "opened" /\ codeWork'[s].gen = codeOwner.connection
       /\ \A t \in Sends : t # s => codeWork'[t] = codeWork[t]
    BY <1>a, <1>k DEF Code!KeepConnection, Code!Job, Code!JobsOK, Code!WorkJobs
<1>1. Code!RowsOK'
    BY <1>a, <1>u DEF Code!RowsOK
<1>2. Code!OwnerOK'
    BY <1>a, <1>u DEF Code!OwnerOK
<1>3. Code!JobsOK'
    BY <1>a, <1>u, <1>k, <1>e1, <1>e2 DEF Code!JobsOK
<1>4. Code!NativeOK'
    BY <1>a, <1>u DEF Code!NativeOK
<1>5. Code!LeftOK'
    BY <1>a, <1>u DEF Code!LeftOK, Code!Kinds
<1>6. Code!FreshOK'
    BY <1>a, <1>u DEF Code!FreshOK
<1>7. Code!NamesOK'
    BY <1>a, <1>u, <1>k, <1>e1, <1>e2 DEF Code!NamesOK, Code!Named
<1>8. Code!StagesOK'
    BY <1>a, <1>u DEF Code!StagesOK, Code!Deleted
<1>9. Code!OneOpens'
    BY <1>a, <1>u, <1>k, <1>e1, <1>e2 DEF Code!OneOpens, Code!Opening, Code!Accepting,
        Code!Running, Code!At
<1>10. Code!AllHeld'
    BY <1>a, <1>u, <1>k, <1>e1, <1>e2 DEF Code!AllHeld, Code!IsHeld, Code!ClosesIt, Code!Exists
<1>11. Code!ShutOK'
    BY <1>a, <1>u, <1>k, <1>e1, <1>e2 DEF Code!ShutOK, Code!InUse, Code!At, Code!Exists,
        Code!Deleted
<1>p. ASSUME NEW t \in Sends PROVE Code!TurnSane(t)' /\ Code!RunSane(t)' /\ Code!JobSane(t)' /\ Code!HeardSane(t)'
    <2>1. Code!TurnSane(t)'
        BY <1>a, <1>u DEF Code!TurnSane, Code!NoTurn
    <2>2. Code!RunSane(t)'
        BY <1>a, <1>u DEF Code!RunSane, Code!Deleted
    <2>3. Code!JobSane(t)'
        BY <1>a, <1>u, <1>k, <1>e1, <1>e2 DEF Code!JobSane, Code!Unsubmitted, Code!At,
            Code!Deleted
    <2>4. Code!HeardSane(t)'
        BY <1>a, <1>u, <1>k, <1>e1, <1>e2 DEF Code!HeardSane, Code!Unheard, Code!Running,
            Code!At, Code!Deleted
    <2> QED
        BY <2>1, <2>2, <2>3, <2>4
<1>w. \A t \in Sends : Code!WantedStart(t)
    BY <1>u DEF Code!WantedStart
<1>q. Code!IInv'
    BY <1>1, <1>2, <1>3, <1>4, <1>5, <1>6, <1>7, <1>8, <1>9, <1>10, <1>11, <1>p, CodeWhole
<1> QED
    BY <1>q, <1>w

LEMMA CodeFindsNoneKeeps ==
    ASSUME Code!IInv, NEW s \in Sends, Code!FindsNone(s)
    PROVE  Code!IInv' /\ \A t \in Sends : Code!WantedStart(t)
<1>a. /\ Code!RowsOK /\ Code!OwnerOK /\ Code!JobsOK /\ Code!NativeOK /\ Code!LeftOK
      /\ Code!FreshOK /\ Code!NamesOK /\ Code!StagesOK /\ Code!OneOpens /\ Code!AllHeld /\ Code!ShutOK
      /\ \A t \in Sends : Code!TurnSane(t) /\ Code!RunSane(t) /\ Code!JobSane(t) /\ Code!HeardSane(t)
    BY CodeParts
<1>u. UNCHANGED <<codeSession, codeRuns, codeLatest, codeFresh, codeOwner, codeCalls, codeFails, codeInterrupts, codeDeletion, codeHalting, codeService, codeProcess, codeHistory, codeTurns, codeLeft>>
    BY DEF Code!FindsNone, Code!rows, Code!native
<1>k. /\ codeOwner.connection \in Code!Gens /\ codeOwner.stored \in BOOLEAN
      /\ codeOwner.overtaken \in BOOLEAN /\ codeOwner.finished \in BOOLEAN
      /\ codeSession.model \in Code!Models /\ codeSession.thread \in BOOLEAN
      /\ codeDeletion.gen \in Code!Gens /\ codeService.gen \in Code!Gens /\ codeHalting.gen \in Code!Gens
      /\ \A t \in Sends : /\ codeWork[t].gen \in Code!Gens /\ codeFails[t].gen \in Code!Gens
                          /\ codeInterrupts[t].gen \in Code!Gens /\ codeTurns[t].gen \in Code!Gens
                          /\ codeTurns[t].asked \in Nat /\ codeRuns[t].model \in Code!Models
                          /\ codeRuns[t].stop \in BOOLEAN /\ codeRuns[t].submitted \in BOOLEAN
                          /\ codeRuns[t].turn \in Sends \cup {NoSend}
      /\ 0 \in Code!Gens /\ 0 \notin Code!Generations
      /\ \A h \in Code!Gens : h # 0 => h \in Code!Generations
    BY <1>a, CodeFields
<1>e1. codeWork[s].at = "starting" /\ codeOwner.connection = 0
    BY  DEF Code!FindsNone, Code!At
<1>e2. /\ codeWork' \in [Sends -> Code!WorkJobs] /\ codeWork'[s].at = "opening" /\ codeWork'[s].gen = 0
       /\ \A t \in Sends : t # s => codeWork'[t] = codeWork[t]
    BY <1>a, <1>k, CodeConstants DEF Code!FindsNone, Code!Job, Code!JobsOK, Code!WorkJobs,
        Code!Gens
<1>1. Code!RowsOK'
    BY <1>a, <1>u DEF Code!RowsOK
<1>2. Code!OwnerOK'
    BY <1>a, <1>u DEF Code!OwnerOK
<1>3. Code!JobsOK'
    BY <1>a, <1>u, <1>k, <1>e1, <1>e2 DEF Code!JobsOK
<1>4. Code!NativeOK'
    BY <1>a, <1>u DEF Code!NativeOK
<1>5. Code!LeftOK'
    BY <1>a, <1>u DEF Code!LeftOK, Code!Kinds
<1>6. Code!FreshOK'
    BY <1>a, <1>u DEF Code!FreshOK
<1>7. Code!NamesOK'
    BY <1>a, <1>u, <1>k, <1>e1, <1>e2 DEF Code!NamesOK, Code!Named
<1>8. Code!StagesOK'
    BY <1>a, <1>u DEF Code!StagesOK, Code!Deleted
<1>9. Code!OneOpens'
    BY <1>a, <1>u, <1>k, <1>e1, <1>e2 DEF Code!OneOpens, Code!Opening, Code!Accepting,
        Code!Running, Code!At
<1>10. Code!AllHeld'
    BY <1>a, <1>u, <1>k, <1>e1, <1>e2 DEF Code!AllHeld, Code!IsHeld, Code!ClosesIt, Code!Exists
<1>11. Code!ShutOK'
    BY <1>a, <1>u, <1>k, <1>e1, <1>e2 DEF Code!ShutOK, Code!InUse, Code!At, Code!Exists,
        Code!Deleted
<1>p. ASSUME NEW t \in Sends PROVE Code!TurnSane(t)' /\ Code!RunSane(t)' /\ Code!JobSane(t)' /\ Code!HeardSane(t)'
    <2>1. Code!TurnSane(t)'
        BY <1>a, <1>u DEF Code!TurnSane, Code!NoTurn
    <2>2. Code!RunSane(t)'
        BY <1>a, <1>u DEF Code!RunSane, Code!Deleted
    <2>3. Code!JobSane(t)'
        BY <1>a, <1>u, <1>k, <1>e1, <1>e2 DEF Code!JobSane, Code!Unsubmitted, Code!At,
            Code!Deleted
    <2>4. Code!HeardSane(t)'
        BY <1>a, <1>u, <1>k, <1>e1, <1>e2 DEF Code!HeardSane, Code!Unheard, Code!Running,
            Code!At, Code!Deleted
    <2> QED
        BY <2>1, <2>2, <2>3, <2>4
<1>w. \A t \in Sends : Code!WantedStart(t)
    BY <1>u DEF Code!WantedStart
<1>q. Code!IInv'
    BY <1>1, <1>2, <1>3, <1>4, <1>5, <1>6, <1>7, <1>8, <1>9, <1>10, <1>11, <1>p, CodeWhole
<1> QED
    BY <1>q, <1>w

LEMMA CodeOpenKeeps ==
    ASSUME Code!IInv, NEW s \in Sends, Code!Open(s)
    PROVE  Code!IInv' /\ \A t \in Sends : Code!WantedStart(t)
<1>a. /\ Code!RowsOK /\ Code!OwnerOK /\ Code!JobsOK /\ Code!NativeOK /\ Code!LeftOK
      /\ Code!FreshOK /\ Code!NamesOK /\ Code!StagesOK /\ Code!OneOpens /\ Code!AllHeld /\ Code!ShutOK
      /\ \A t \in Sends : Code!TurnSane(t) /\ Code!RunSane(t) /\ Code!JobSane(t) /\ Code!HeardSane(t)
    BY CodeParts
<1>u. UNCHANGED <<codeSession, codeRuns, codeLatest, codeFresh, codeCalls, codeFails, codeInterrupts, codeDeletion, codeHalting, codeService, codeHistory, codeTurns, codeLeft>>
    BY DEF Code!Open, Code!rows
<1>k. /\ codeOwner.connection \in Code!Gens /\ codeOwner.stored \in BOOLEAN
      /\ codeOwner.overtaken \in BOOLEAN /\ codeOwner.finished \in BOOLEAN
      /\ codeSession.model \in Code!Models /\ codeSession.thread \in BOOLEAN
      /\ codeDeletion.gen \in Code!Gens /\ codeService.gen \in Code!Gens /\ codeHalting.gen \in Code!Gens
      /\ \A t \in Sends : /\ codeWork[t].gen \in Code!Gens /\ codeFails[t].gen \in Code!Gens
                          /\ codeInterrupts[t].gen \in Code!Gens /\ codeTurns[t].gen \in Code!Gens
                          /\ codeTurns[t].asked \in Nat /\ codeRuns[t].model \in Code!Models
                          /\ codeRuns[t].stop \in BOOLEAN /\ codeRuns[t].submitted \in BOOLEAN
                          /\ codeRuns[t].turn \in Sends \cup {NoSend}
      /\ 0 \in Code!Gens /\ 0 \notin Code!Generations
      /\ \A h \in Code!Gens : h # 0 => h \in Code!Generations
    BY <1>a, CodeFields
<1>e1. /\ Code!Opening(s) /\ codeWork[s].at # "starting"
       /\ codeWork[s].at = "closing" => Code!Gone(codeWork[s].gen)
    BY  DEF Code!Open, Code!MayOpen, Code!Opening, Code!At
<1>e2. PICK g \in Code!Generations : Code!Opens(g) /\ codeWork' = [codeWork EXCEPT ![s] = Code!Job("opened", g)]
    BY  DEF Code!Open
<1>e3. /\ g \in Code!Gens /\ g # 0 /\ codeProcess[g] = "none"
       /\ codeProcess' \in [Code!Generations -> {"none", "alive", "silent", "gone"}] /\ codeProcess'[g] = "alive"
       /\ \A h \in Code!Generations : h # g => codeProcess'[h] = codeProcess[h]
       /\ codeOwner' \in Code!Owners
       /\ codeOwner'.connection = g /\ codeOwner'.stored = codeOwner.stored /\ codeOwner'.overtaken = codeOwner.overtaken
    BY <1>a, <1>e2, CodeOpens
<1>e4. /\ codeWork' \in [Sends -> Code!WorkJobs] /\ codeWork'[s].at = "opened" /\ codeWork'[s].gen = g
       /\ \A t \in Sends : t # s => codeWork'[t] = codeWork[t]
    BY <1>a, <1>e2, <1>e3 DEF Code!Job, Code!JobsOK, Code!WorkJobs
<1>1. Code!RowsOK'
    BY <1>a, <1>u DEF Code!RowsOK
<1>2. Code!OwnerOK'
    BY <1>a, <1>u, <1>k, <1>e1, <1>e2, <1>e3, <1>e4 DEF Code!OwnerOK
<1>3. Code!JobsOK'
    BY <1>a, <1>u, <1>k, <1>e1, <1>e2, <1>e3, <1>e4 DEF Code!JobsOK
<1>4. Code!NativeOK'
    BY <1>a, <1>u, <1>k, <1>e1, <1>e2, <1>e3, <1>e4 DEF Code!NativeOK
<1>5. Code!LeftOK'
    BY <1>a, <1>u DEF Code!LeftOK, Code!Kinds
<1>6. Code!FreshOK'
    BY <1>a, <1>u DEF Code!FreshOK
<1>7. Code!NamesOK'
    BY <1>a, <1>u, <1>k, <1>e1, <1>e2, <1>e3, <1>e4 DEF Code!NamesOK, Code!Named
<1>8. Code!StagesOK'
    BY <1>a, <1>u, <1>k, <1>e1, <1>e2, <1>e3, <1>e4 DEF Code!StagesOK, Code!Deleted
<1>9. Code!OneOpens'
    <2>1. ~codeOwner.overtaken => /\ codeDeletion.at = "none"
                              /\ \A t \in Sends : Code!Opening(t) => t = s
        BY <1>a, <1>e1 DEF Code!OneOpens
    <2>2. \A t \in Sends : Code!Opening(t)' => t # s /\ Code!Opening(t)
        BY <1>e4 DEF Code!Opening
    <2> QED
        BY <2>1, <2>2, <1>u, <1>e3 DEF Code!OneOpens
<1>10. Code!AllHeld'
    <2>1. ASSUME ~codeOwner.overtaken PROVE codeOwner.connection = 0
        BY <2>1, <1>a, <1>e1 DEF Code!OneOpens, Code!At
    <2>2. ASSUME ~codeOwner.overtaken, NEW h \in Code!Generations, Code!Exists(h)', h # g PROVE Code!IsHeld(h)'
        <3>1. Code!Exists(h) /\ Code!IsHeld(h) /\ h # 0
            BY <2>2, <1>a, <1>k, <1>e3 DEF Code!AllHeld, Code!Exists
        <3>2. ~(codeWork[s].at \in {"closing", "failing", "leaving"} /\ codeWork[s].gen = h)
            <4>1. h # 0 /\ codeProcess[h] # "gone" /\ codeWork[s].at \notin {"failing", "leaving"}
                BY <3>1, <1>e1 DEF Code!Exists, Code!Opening
            <4>2. ~(codeWork[s].at = "closing" /\ codeWork[s].gen = h)
                BY <3>1, <4>1, <1>e1 DEF Code!Gone
            <4> QED
                BY <4>1, <4>2
        <3>3. \A t \in Sends : Code!ClosesIt(t, h) => Code!ClosesIt(t, h)'
            BY <3>2, <1>u, <1>e4 DEF Code!ClosesIt
        <3> QED
            BY <3>1, <3>3, <2>1, <2>2, <1>u DEF Code!IsHeld
    <2>3. Code!IsHeld(g)'
        BY <1>e3 DEF Code!IsHeld
    <2> QED
        BY <2>2, <2>3, <1>e3 DEF Code!AllHeld
<1>11. Code!ShutOK'
    <2>1. Code!InUse'
        BY <1>e4 DEF Code!InUse
    <2>2. codeService.mode # "down"
        BY <1>a, <1>e1 DEF Code!ShutOK, Code!At, Code!Opening
    <2> QED
        BY <2>1, <2>2, <1>u DEF Code!ShutOK
<1>p. ASSUME NEW t \in Sends PROVE Code!TurnSane(t)' /\ Code!RunSane(t)' /\ Code!JobSane(t)' /\ Code!HeardSane(t)'
    <2>1. Code!TurnSane(t)'
        BY <1>a, <1>u DEF Code!TurnSane, Code!NoTurn
    <2>2. Code!RunSane(t)'
        BY <1>a, <1>u DEF Code!RunSane, Code!Deleted
    <2>3. Code!JobSane(t)'
        <3>1. CASE t = s
            <4>1. Code!Unsubmitted(s) /\ ~Code!At(s, "none")
                BY <1>e1 DEF Code!Opening, Code!Unsubmitted, Code!At
            <4> QED
                BY <3>1, <4>1, <1>a, <1>u, <1>e3, <1>e4 DEF Code!JobSane, Code!At, Code!Deleted
        <3>2. CASE t # s
            BY <3>2, <1>a, <1>u, <1>e4 DEF Code!JobSane, Code!Unsubmitted, Code!At, Code!Deleted
        <3> QED
            BY <3>1, <3>2
    <2>4. Code!HeardSane(t)'
        BY <1>a, <1>u, <1>k, <1>e1, <1>e2, <1>e3, <1>e4 DEF Code!HeardSane, Code!Unheard,
            Code!Running, Code!At, Code!Deleted, Code!NamesOK, Code!Named
    <2> QED
        BY <2>1, <2>2, <2>3, <2>4
<1>w. \A t \in Sends : Code!WantedStart(t)
    BY <1>u DEF Code!WantedStart
<1>q. Code!IInv'
    BY <1>1, <1>2, <1>3, <1>4, <1>5, <1>6, <1>7, <1>8, <1>9, <1>10, <1>11, <1>p, CodeWhole
<1> QED
    BY <1>q, <1>w

LEMMA CodeStopEarlyKeeps ==
    ASSUME Code!IInv, NEW s \in Sends, Code!StopEarly(s)
    PROVE  Code!IInv' /\ \A t \in Sends : Code!WantedStart(t)
<1>a. /\ Code!RowsOK /\ Code!OwnerOK /\ Code!JobsOK /\ Code!NativeOK /\ Code!LeftOK
      /\ Code!FreshOK /\ Code!NamesOK /\ Code!StagesOK /\ Code!OneOpens /\ Code!AllHeld /\ Code!ShutOK
      /\ \A t \in Sends : Code!TurnSane(t) /\ Code!RunSane(t) /\ Code!JobSane(t) /\ Code!HeardSane(t)
    BY CodeParts
<1>u. UNCHANGED <<codeSession, codeLatest, codeCalls, codeFails, codeInterrupts, codeDeletion, codeHalting, codeService, codeProcess, codeHistory, codeTurns, codeLeft>>
    BY DEF Code!StopEarly, Code!native
<1>k. /\ codeOwner.connection \in Code!Gens /\ codeOwner.stored \in BOOLEAN
      /\ codeOwner.overtaken \in BOOLEAN /\ codeOwner.finished \in BOOLEAN
      /\ codeSession.model \in Code!Models /\ codeSession.thread \in BOOLEAN
      /\ codeDeletion.gen \in Code!Gens /\ codeService.gen \in Code!Gens /\ codeHalting.gen \in Code!Gens
      /\ \A t \in Sends : /\ codeWork[t].gen \in Code!Gens /\ codeFails[t].gen \in Code!Gens
                          /\ codeInterrupts[t].gen \in Code!Gens /\ codeTurns[t].gen \in Code!Gens
                          /\ codeTurns[t].asked \in Nat /\ codeRuns[t].model \in Code!Models
                          /\ codeRuns[t].stop \in BOOLEAN /\ codeRuns[t].submitted \in BOOLEAN
                          /\ codeRuns[t].turn \in Sends \cup {NoSend}
      /\ 0 \in Code!Gens /\ 0 \notin Code!Generations
      /\ \A h \in Code!Gens : h # 0 => h \in Code!Generations
    BY <1>a, CodeFields
<1>e1. codeWork[s].at = "opened" /\ Code!Running(s) /\ codeRuns[s].stop /\ Code!FinishAndLeave(s, "interrupted") /\ "interrupted" \in Code!Final
    BY  DEF Code!StopEarly, Code!At, Code!Final
<1>e2. /\ codeRuns' \in [Sends -> Code!RunRows] /\ codeOwner' \in Code!Owners /\ codeFresh' \in {codeFresh, {}}
       /\ \A t \in Sends : t # s => codeRuns'[t] = codeRuns[t]
       /\ codeRuns'[s].stop = codeRuns[s].stop /\ codeRuns'[s].submitted = codeRuns[s].submitted
       /\ codeRuns'[s].turn = codeRuns[s].turn
       /\ \/ codeRuns'[s].status = codeRuns[s].status /\ ~(Code!Running(s) /\ codeOwner.stored)
          \/ codeRuns'[s].status = "interrupted" /\ Code!Running(s) /\ codeOwner.stored
    BY <1>a, <1>e1, CodeFinishAndLeave
<1>e3. /\ codeWork' \in [Sends -> Code!WorkJobs] /\ \A t \in Sends : t # s => codeWork'[t] = codeWork[t]
       /\ codeOwner' \in Code!Owners /\ codeOwner'.stored = codeOwner.stored /\ codeOwner'.overtaken = codeOwner.overtaken
       /\ \/ /\ codeService.mode = "up" /\ codeOwner.stored
             /\ codeWork'[s].at = "none" /\ codeWork'[s].gen = 0 /\ codeOwner'.connection = codeOwner.connection
          \/ codeWork'[s].at = "leaving" /\ codeWork'[s].gen = codeOwner.connection /\ codeOwner'.connection = 0
    BY <1>a, <1>e1, CodeFinishAndLeave
<1>1. Code!RowsOK'
    BY <1>a, <1>u, <1>k, <1>e1, <1>e2, <1>e3 DEF Code!RowsOK
<1>2. Code!OwnerOK'
    BY <1>a, <1>u, <1>k, <1>e1, <1>e2, <1>e3 DEF Code!OwnerOK
<1>3. Code!JobsOK'
    BY <1>a, <1>u, <1>k, <1>e1, <1>e2, <1>e3 DEF Code!JobsOK
<1>4. Code!NativeOK'
    BY <1>a, <1>u DEF Code!NativeOK
<1>5. Code!LeftOK'
    BY <1>a, <1>u DEF Code!LeftOK, Code!Kinds
<1>6. Code!FreshOK'
    BY <1>a, <1>u, <1>k, <1>e1, <1>e2, <1>e3 DEF Code!FreshOK
<1>7. Code!NamesOK'
    BY <1>a, <1>u, <1>k, <1>e1, <1>e2, <1>e3 DEF Code!NamesOK, Code!Named
<1>8. Code!StagesOK'
    BY <1>a, <1>u, <1>k, <1>e1, <1>e2, <1>e3 DEF Code!StagesOK, Code!Deleted
<1>9. Code!OneOpens'
    BY <1>a, <1>u, <1>k, <1>e1, <1>e2, <1>e3 DEF Code!OneOpens, Code!Opening, Code!Accepting,
        Code!Running, Code!At
<1>10. Code!AllHeld'
    BY <1>a, <1>u, <1>k, <1>e1, <1>e2, <1>e3 DEF Code!AllHeld, Code!IsHeld, Code!ClosesIt,
        Code!Exists
<1>11. Code!ShutOK'
    BY <1>a, <1>u, <1>k, <1>e1, <1>e2, <1>e3 DEF Code!ShutOK, Code!InUse, Code!At, Code!Exists,
        Code!Deleted, Code!StagesOK
<1>p. ASSUME NEW t \in Sends PROVE Code!TurnSane(t)' /\ Code!RunSane(t)' /\ Code!JobSane(t)' /\ Code!HeardSane(t)'
    <2>1. Code!TurnSane(t)'
        BY <1>a, <1>u DEF Code!TurnSane, Code!NoTurn
    <2>2. Code!RunSane(t)'
        BY <1>a, <1>u, <1>e2 DEF Code!RunSane, Code!Deleted
    <2>3. Code!JobSane(t)'
        BY <1>a, <1>u, <1>k, <1>e1, <1>e2, <1>e3 DEF Code!JobSane, Code!Unsubmitted, Code!At,
            Code!Deleted
    <2>4. Code!HeardSane(t)'
        BY <1>a, <1>u, <1>k, <1>e1, <1>e2, <1>e3 DEF Code!HeardSane, Code!Unheard, Code!Running,
            Code!At, Code!Deleted, Code!JobSane, Code!Unsubmitted, Code!TurnSane, Code!NoTurn
    <2> QED
        BY <2>1, <2>2, <2>3, <2>4
<1>w. \A t \in Sends : Code!WantedStart(t)
    BY <1>a, <1>e1, <1>e2, <1>e3 DEF Code!WantedStart, Code!Final, Code!Active
<1>q. Code!IInv'
    BY <1>1, <1>2, <1>3, <1>4, <1>5, <1>6, <1>7, <1>8, <1>9, <1>10, <1>11, <1>p, CodeWhole
<1> QED
    BY <1>q, <1>w

LEMMA CodeSubmitKeeps ==
    ASSUME Code!IInv, NEW s \in Sends, Code!Submit(s)
    PROVE  Code!IInv' /\ \A t \in Sends : Code!WantedStart(t)
<1>a. /\ Code!RowsOK /\ Code!OwnerOK /\ Code!JobsOK /\ Code!NativeOK /\ Code!LeftOK
      /\ Code!FreshOK /\ Code!NamesOK /\ Code!StagesOK /\ Code!OneOpens /\ Code!AllHeld /\ Code!ShutOK
      /\ \A t \in Sends : Code!TurnSane(t) /\ Code!RunSane(t) /\ Code!JobSane(t) /\ Code!HeardSane(t)
    BY CodeParts
<1>u. UNCHANGED <<codeSession, codeRuns, codeLatest, codeFresh, codeOwner, codeCalls, codeFails, codeInterrupts, codeDeletion, codeHalting, codeService, codeProcess, codeHistory, codeLeft>>
    BY DEF Code!Submit, Code!rows
<1>k. /\ codeOwner.connection \in Code!Gens /\ codeOwner.stored \in BOOLEAN
      /\ codeOwner.overtaken \in BOOLEAN /\ codeOwner.finished \in BOOLEAN
      /\ codeSession.model \in Code!Models /\ codeSession.thread \in BOOLEAN
      /\ codeDeletion.gen \in Code!Gens /\ codeService.gen \in Code!Gens /\ codeHalting.gen \in Code!Gens
      /\ \A t \in Sends : /\ codeWork[t].gen \in Code!Gens /\ codeFails[t].gen \in Code!Gens
                          /\ codeInterrupts[t].gen \in Code!Gens /\ codeTurns[t].gen \in Code!Gens
                          /\ codeTurns[t].asked \in Nat /\ codeRuns[t].model \in Code!Models
                          /\ codeRuns[t].stop \in BOOLEAN /\ codeRuns[t].submitted \in BOOLEAN
                          /\ codeRuns[t].turn \in Sends \cup {NoSend}
      /\ 0 \in Code!Gens /\ 0 \notin Code!Generations
      /\ \A h \in Code!Gens : h # 0 => h \in Code!Generations
    BY <1>a, CodeFields
<1>e1. codeWork[s].at = "submitting" /\ codeWork[s].gen # 0
    BY  DEF Code!Submit, Code!At, Code!Alive
<1>e2. /\ codeWork' \in [Sends -> Code!WorkJobs] /\ codeWork'[s].at = "sent" /\ codeWork'[s].gen = codeWork[s].gen
       /\ \A t \in Sends : t # s => codeWork'[t] = codeWork[t]
    BY <1>a, <1>k DEF Code!Submit, Code!JobsOK, Code!WorkJobs
<1>e3. /\ codeTurns' \in [Sends -> Code!NativeTurns] /\ codeTurns'[s].at = "asked" /\ codeTurns'[s].gen = codeWork[s].gen
       /\ codeTurns'[s].asked = codeTurns[s].asked + 1
       /\ \A t \in Sends : t # s => codeTurns'[t] = codeTurns[t]
    BY <1>a, <1>k DEF Code!Submit, Code!NativeOK, Code!NativeTurns
<1>1. Code!RowsOK'
    BY <1>a, <1>u DEF Code!RowsOK
<1>2. Code!OwnerOK'
    BY <1>a, <1>u DEF Code!OwnerOK
<1>3. Code!JobsOK'
    BY <1>a, <1>u, <1>k, <1>e1, <1>e2, <1>e3 DEF Code!JobsOK
<1>4. Code!NativeOK'
    BY <1>a, <1>u, <1>k, <1>e1, <1>e2, <1>e3 DEF Code!NativeOK
<1>5. Code!LeftOK'
    BY <1>a, <1>u DEF Code!LeftOK, Code!Kinds
<1>6. Code!FreshOK'
    BY <1>a, <1>u DEF Code!FreshOK
<1>7. Code!NamesOK'
    BY <1>a, <1>u, <1>k, <1>e1, <1>e2, <1>e3 DEF Code!NamesOK, Code!Named
<1>8. Code!StagesOK'
    BY <1>a, <1>u DEF Code!StagesOK, Code!Deleted
<1>9. Code!OneOpens'
    BY <1>a, <1>u, <1>k, <1>e1, <1>e2, <1>e3 DEF Code!OneOpens, Code!Opening, Code!Accepting,
        Code!Running, Code!At
<1>10. Code!AllHeld'
    BY <1>a, <1>u, <1>k, <1>e1, <1>e2, <1>e3 DEF Code!AllHeld, Code!IsHeld, Code!ClosesIt,
        Code!Exists
<1>11. Code!ShutOK'
    BY <1>a, <1>u, <1>k, <1>e1, <1>e2, <1>e3 DEF Code!ShutOK, Code!InUse, Code!At, Code!Exists,
        Code!Deleted
<1>p. ASSUME NEW t \in Sends PROVE Code!TurnSane(t)' /\ Code!RunSane(t)' /\ Code!JobSane(t)' /\ Code!HeardSane(t)'
    <2>1. Code!TurnSane(t)'
        BY <1>a, <1>u, <1>k, <1>e1, <1>e2, <1>e3 DEF Code!TurnSane, Code!NoTurn, Code!JobSane,
            Code!At
    <2>2. Code!RunSane(t)'
        BY <1>a, <1>u, <1>k, <1>e1, <1>e2, <1>e3 DEF Code!RunSane, Code!Deleted, Code!JobSane,
            Code!At, Code!TurnSane, Code!NoTurn
    <2>3. Code!JobSane(t)'
        BY <1>a, <1>u, <1>k, <1>e1, <1>e2, <1>e3 DEF Code!JobSane, Code!Unsubmitted, Code!At,
            Code!Deleted
    <2>4. Code!HeardSane(t)'
        BY <1>a, <1>u, <1>k, <1>e1, <1>e2, <1>e3 DEF Code!HeardSane, Code!Unheard, Code!Running,
            Code!At, Code!Deleted
    <2> QED
        BY <2>1, <2>2, <2>3, <2>4
<1>w. \A t \in Sends : Code!WantedStart(t)
    BY <1>u DEF Code!WantedStart
<1>q. Code!IInv'
    BY <1>1, <1>2, <1>3, <1>4, <1>5, <1>6, <1>7, <1>8, <1>9, <1>10, <1>11, <1>p, CodeWhole
<1> QED
    BY <1>q, <1>w

LEMMA CodeWaitIsOverKeeps ==
    ASSUME Code!IInv, NEW s \in Sends, Code!WaitIsOver(s)
    PROVE  Code!IInv' /\ \A t \in Sends : Code!WantedStart(t)
<1>a. /\ Code!RowsOK /\ Code!OwnerOK /\ Code!JobsOK /\ Code!NativeOK /\ Code!LeftOK
      /\ Code!FreshOK /\ Code!NamesOK /\ Code!StagesOK /\ Code!OneOpens /\ Code!AllHeld /\ Code!ShutOK
      /\ \A t \in Sends : Code!TurnSane(t) /\ Code!RunSane(t) /\ Code!JobSane(t) /\ Code!HeardSane(t)
    BY CodeParts
<1>u. UNCHANGED <<codeSession, codeRuns, codeLatest, codeFresh, codeCalls, codeFails, codeInterrupts, codeDeletion, codeHalting, codeService, codeProcess, codeHistory, codeTurns, codeLeft>>
    BY DEF Code!WaitIsOver, Code!rows, Code!native
<1>k. /\ codeOwner.connection \in Code!Gens /\ codeOwner.stored \in BOOLEAN
      /\ codeOwner.overtaken \in BOOLEAN /\ codeOwner.finished \in BOOLEAN
      /\ codeSession.model \in Code!Models /\ codeSession.thread \in BOOLEAN
      /\ codeDeletion.gen \in Code!Gens /\ codeService.gen \in Code!Gens /\ codeHalting.gen \in Code!Gens
      /\ \A t \in Sends : /\ codeWork[t].gen \in Code!Gens /\ codeFails[t].gen \in Code!Gens
                          /\ codeInterrupts[t].gen \in Code!Gens /\ codeTurns[t].gen \in Code!Gens
                          /\ codeTurns[t].asked \in Nat /\ codeRuns[t].model \in Code!Models
                          /\ codeRuns[t].stop \in BOOLEAN /\ codeRuns[t].submitted \in BOOLEAN
                          /\ codeRuns[t].turn \in Sends \cup {NoSend}
      /\ 0 \in Code!Gens /\ 0 \notin Code!Generations
      /\ \A h \in Code!Gens : h # 0 => h \in Code!Generations
    BY <1>a, CodeFields
<1>e1. codeWork[s].at = "waiting" /\ Code!Leaves(s, codeOwner)
    BY  DEF Code!WaitIsOver, Code!At
<1>e2. PICK o \in Code!Owners : o = codeOwner
    BY <1>a DEF Code!OwnerOK
<1>e3. /\ codeWork' \in [Sends -> Code!WorkJobs] /\ \A t \in Sends : t # s => codeWork'[t] = codeWork[t]
       /\ codeOwner' \in Code!Owners /\ codeOwner'.stored = codeOwner.stored /\ codeOwner'.overtaken = codeOwner.overtaken
       /\ \/ /\ codeService.mode = "up" /\ codeOwner.stored
             /\ codeWork'[s].at = "none" /\ codeWork'[s].gen = 0 /\ codeOwner'.connection = codeOwner.connection
          \/ codeWork'[s].at = "leaving" /\ codeWork'[s].gen = codeOwner.connection /\ codeOwner'.connection = 0
    BY <1>a, <1>e1, <1>e2, CodeLeaves
<1>1. Code!RowsOK'
    BY <1>a, <1>u DEF Code!RowsOK
<1>2. Code!OwnerOK'
    BY <1>a, <1>u, <1>k, <1>e1, <1>e2, <1>e3 DEF Code!OwnerOK
<1>3. Code!JobsOK'
    BY <1>a, <1>u, <1>k, <1>e1, <1>e2, <1>e3 DEF Code!JobsOK
<1>4. Code!NativeOK'
    BY <1>a, <1>u DEF Code!NativeOK
<1>5. Code!LeftOK'
    BY <1>a, <1>u DEF Code!LeftOK, Code!Kinds
<1>6. Code!FreshOK'
    BY <1>a, <1>u DEF Code!FreshOK
<1>7. Code!NamesOK'
    BY <1>a, <1>u, <1>k, <1>e1, <1>e2, <1>e3 DEF Code!NamesOK, Code!Named
<1>8. Code!StagesOK'
    BY <1>a, <1>u, <1>k, <1>e1, <1>e2, <1>e3 DEF Code!StagesOK, Code!Deleted
<1>9. Code!OneOpens'
    BY <1>a, <1>u, <1>k, <1>e1, <1>e2, <1>e3 DEF Code!OneOpens, Code!Opening, Code!Accepting,
        Code!Running, Code!At
<1>10. Code!AllHeld'
    BY <1>a, <1>u, <1>k, <1>e1, <1>e2, <1>e3 DEF Code!AllHeld, Code!IsHeld, Code!ClosesIt,
        Code!Exists
<1>11. Code!ShutOK'
    BY <1>a, <1>u, <1>k, <1>e1, <1>e2, <1>e3 DEF Code!ShutOK, Code!InUse, Code!At, Code!Exists,
        Code!Deleted, Code!StagesOK
<1>p. ASSUME NEW t \in Sends PROVE Code!TurnSane(t)' /\ Code!RunSane(t)' /\ Code!JobSane(t)' /\ Code!HeardSane(t)'
    <2>1. Code!TurnSane(t)'
        BY <1>a, <1>u DEF Code!TurnSane, Code!NoTurn
    <2>2. Code!RunSane(t)'
        BY <1>a, <1>u DEF Code!RunSane, Code!Deleted
    <2>3. Code!JobSane(t)'
        BY <1>a, <1>u, <1>k, <1>e1, <1>e2, <1>e3 DEF Code!JobSane, Code!Unsubmitted, Code!At,
            Code!Deleted
    <2>4. Code!HeardSane(t)'
        BY <1>a, <1>u, <1>k, <1>e1, <1>e2, <1>e3 DEF Code!HeardSane, Code!Unheard, Code!Running,
            Code!At, Code!Deleted, Code!JobSane
    <2> QED
        BY <2>1, <2>2, <2>3, <2>4
<1>w. \A t \in Sends : Code!WantedStart(t)
    BY <1>u DEF Code!WantedStart
<1>q. Code!IInv'
    BY <1>1, <1>2, <1>3, <1>4, <1>5, <1>6, <1>7, <1>8, <1>9, <1>10, <1>11, <1>p, CodeWhole
<1> QED
    BY <1>q, <1>w

LEMMA CodeWorkFailsKeeps ==
    ASSUME Code!IInv, NEW s \in Sends, Code!WorkFails(s)
    PROVE  Code!IInv' /\ \A t \in Sends : Code!WantedStart(t)
<1>a. /\ Code!RowsOK /\ Code!OwnerOK /\ Code!JobsOK /\ Code!NativeOK /\ Code!LeftOK
      /\ Code!FreshOK /\ Code!NamesOK /\ Code!StagesOK /\ Code!OneOpens /\ Code!AllHeld /\ Code!ShutOK
      /\ \A t \in Sends : Code!TurnSane(t) /\ Code!RunSane(t) /\ Code!JobSane(t) /\ Code!HeardSane(t)
    BY CodeParts
<1>u. UNCHANGED <<codeSession, codeRuns, codeLatest, codeFresh, codeCalls, codeFails, codeInterrupts, codeDeletion, codeHalting, codeService, codeProcess, codeHistory, codeTurns>>
    BY DEF Code!WorkFails, Code!rows, Code!native
<1>k. /\ codeOwner.connection \in Code!Gens /\ codeOwner.stored \in BOOLEAN
      /\ codeOwner.overtaken \in BOOLEAN /\ codeOwner.finished \in BOOLEAN
      /\ codeSession.model \in Code!Models /\ codeSession.thread \in BOOLEAN
      /\ codeDeletion.gen \in Code!Gens /\ codeService.gen \in Code!Gens /\ codeHalting.gen \in Code!Gens
      /\ \A t \in Sends : /\ codeWork[t].gen \in Code!Gens /\ codeFails[t].gen \in Code!Gens
                          /\ codeInterrupts[t].gen \in Code!Gens /\ codeTurns[t].gen \in Code!Gens
                          /\ codeTurns[t].asked \in Nat /\ codeRuns[t].model \in Code!Models
                          /\ codeRuns[t].stop \in BOOLEAN /\ codeRuns[t].submitted \in BOOLEAN
                          /\ codeRuns[t].turn \in Sends \cup {NoSend}
      /\ 0 \in Code!Gens /\ 0 \notin Code!Generations
      /\ \A h \in Code!Gens : h # 0 => h \in Code!Generations
    BY <1>a, CodeFields
<1>e1. \/ codeWork[s].at \in {"opened", "submitting", "sent"}
       \/ /\ Code!Opening(s) /\ codeWork[s].at # "starting"
          /\ codeWork[s].at = "closing" => Code!Gone(codeWork[s].gen)
    BY  DEF Code!WorkFails, Code!At, Code!MayOpen, Code!Opening
<1>e2. PICK o \in Code!Owners : o = codeOwner
    BY <1>a DEF Code!OwnerOK
<1>e3. ~Code!Running(s) => Code!Leaves(s, o)
    BY <1>e2 DEF Code!WorkFails
<1>e4. Code!Running(s) => codeWork' = [codeWork EXCEPT ![s] = Code!Job("failing", codeOwner.connection)] /\ codeOwner' = Code!Detached
    BY  DEF Code!WorkFails
<1>e5. /\ codeWork' \in [Sends -> Code!WorkJobs] /\ \A t \in Sends : t # s => codeWork'[t] = codeWork[t]
       /\ codeOwner' \in Code!Owners /\ codeOwner'.stored = codeOwner.stored /\ codeOwner'.overtaken = codeOwner.overtaken
       /\ \/ /\ codeService.mode = "up" /\ codeOwner.stored /\ ~Code!Running(s)
             /\ codeWork'[s].at = "none" /\ codeWork'[s].gen = 0 /\ codeOwner'.connection = codeOwner.connection
          \/ codeWork'[s].at \in {"leaving", "failing"} /\ codeWork'[s].gen = codeOwner.connection /\ codeOwner'.connection = 0
    BY <1>a, <1>k, <1>e2, <1>e3, <1>e4, CodeLeaves, CodeDetached DEF Code!Job, Code!JobsOK,
        Code!WorkJobs
<1>e6. Code!LeftOK'
    BY <1>a DEF Code!WorkFails, Code!Spend, Code!Fault, Code!LeftOK, Code!Kinds
<1>1. Code!RowsOK'
    BY <1>a, <1>u DEF Code!RowsOK
<1>2. Code!OwnerOK'
    BY <1>a, <1>u, <1>k, <1>e1, <1>e2, <1>e3, <1>e4, <1>e5, <1>e6 DEF Code!OwnerOK
<1>3. Code!JobsOK'
    BY <1>a, <1>u, <1>k, <1>e1, <1>e2, <1>e3, <1>e4, <1>e5, <1>e6 DEF Code!JobsOK
<1>4. Code!NativeOK'
    BY <1>a, <1>u DEF Code!NativeOK
<1>5. Code!LeftOK'
    BY <1>e1, <1>e2, <1>e3, <1>e4, <1>e5, <1>e6
<1>6. Code!FreshOK'
    BY <1>a, <1>u DEF Code!FreshOK
<1>7. Code!NamesOK'
    BY <1>a, <1>u, <1>k, <1>e1, <1>e2, <1>e3, <1>e4, <1>e5, <1>e6 DEF Code!NamesOK, Code!Named
<1>8. Code!StagesOK'
    BY <1>a, <1>u, <1>k, <1>e1, <1>e2, <1>e3, <1>e4, <1>e5, <1>e6 DEF Code!StagesOK,
        Code!Deleted
<1>9. Code!OneOpens'
    BY <1>a, <1>u, <1>k, <1>e1, <1>e2, <1>e3, <1>e4, <1>e5, <1>e6 DEF Code!OneOpens,
        Code!Opening, Code!Accepting, Code!Running, Code!At
<1>10. Code!AllHeld'
    BY <1>a, <1>u, <1>k, <1>e1, <1>e2, <1>e3, <1>e4, <1>e5, <1>e6 DEF Code!AllHeld, Code!IsHeld,
        Code!ClosesIt, Code!Exists, Code!Gone, Code!OneOpens, Code!Opening
<1>11. Code!ShutOK'
    BY <1>a, <1>u, <1>k, <1>e1, <1>e2, <1>e3, <1>e4, <1>e5, <1>e6 DEF Code!ShutOK, Code!InUse,
        Code!At, Code!Exists, Code!Deleted, Code!StagesOK, Code!Opening
<1>p. ASSUME NEW t \in Sends PROVE Code!TurnSane(t)' /\ Code!RunSane(t)' /\ Code!JobSane(t)' /\ Code!HeardSane(t)'
    <2>1. Code!TurnSane(t)'
        BY <1>a, <1>u DEF Code!TurnSane, Code!NoTurn
    <2>2. Code!RunSane(t)'
        BY <1>a, <1>u DEF Code!RunSane, Code!Deleted
    <2>3. Code!JobSane(t)'
        BY <1>a, <1>u, <1>e1, <1>e5 DEF Code!JobSane, Code!Unsubmitted, Code!At, Code!Deleted,
            Code!Opening
    <2>4. Code!HeardSane(t)'
        BY <1>a, <1>u, <1>k, <1>e1, <1>e2, <1>e3, <1>e4, <1>e5, <1>e6 DEF Code!HeardSane,
            Code!Unheard, Code!Running, Code!At, Code!Deleted, Code!JobSane
    <2> QED
        BY <2>1, <2>2, <2>3, <2>4
<1>w. \A t \in Sends : Code!WantedStart(t)
    BY <1>u DEF Code!WantedStart
<1>q. Code!IInv'
    BY <1>1, <1>2, <1>3, <1>4, <1>5, <1>6, <1>7, <1>8, <1>9, <1>10, <1>11, <1>p, CodeWhole
<1> QED
    BY <1>q, <1>w

LEMMA CodeFailedKeeps ==
    ASSUME Code!IInv, NEW s \in Sends, Code!Failed(s)
    PROVE  Code!IInv' /\ \A t \in Sends : Code!WantedStart(t)
<1>a. /\ Code!RowsOK /\ Code!OwnerOK /\ Code!JobsOK /\ Code!NativeOK /\ Code!LeftOK
      /\ Code!FreshOK /\ Code!NamesOK /\ Code!StagesOK /\ Code!OneOpens /\ Code!AllHeld /\ Code!ShutOK
      /\ \A t \in Sends : Code!TurnSane(t) /\ Code!RunSane(t) /\ Code!JobSane(t) /\ Code!HeardSane(t)
    BY CodeParts
<1>u. UNCHANGED <<codeSession, codeLatest, codeCalls, codeFails, codeInterrupts, codeDeletion, codeHalting, codeService, codeProcess, codeHistory, codeTurns, codeLeft>>
    BY DEF Code!Failed, Code!native
<1>k. /\ codeOwner.connection \in Code!Gens /\ codeOwner.stored \in BOOLEAN
      /\ codeOwner.overtaken \in BOOLEAN /\ codeOwner.finished \in BOOLEAN
      /\ codeSession.model \in Code!Models /\ codeSession.thread \in BOOLEAN
      /\ codeDeletion.gen \in Code!Gens /\ codeService.gen \in Code!Gens /\ codeHalting.gen \in Code!Gens
      /\ \A t \in Sends : /\ codeWork[t].gen \in Code!Gens /\ codeFails[t].gen \in Code!Gens
                          /\ codeInterrupts[t].gen \in Code!Gens /\ codeTurns[t].gen \in Code!Gens
                          /\ codeTurns[t].asked \in Nat /\ codeRuns[t].model \in Code!Models
                          /\ codeRuns[t].stop \in BOOLEAN /\ codeRuns[t].submitted \in BOOLEAN
                          /\ codeRuns[t].turn \in Sends \cup {NoSend}
      /\ 0 \in Code!Gens /\ 0 \notin Code!Generations
      /\ \A h \in Code!Gens : h # 0 => h \in Code!Generations
    BY <1>a, CodeFields
<1>e1. codeWork[s].at = "failing" /\ Code!Gone(codeWork[s].gen) /\ Code!FinishAndLeave(s, Code!Outcome(s))
    BY  DEF Code!Failed, Code!At
<1>e2. PICK st \in Code!Final : st = Code!Outcome(s)
    BY CodeOutcome
<1>e3. Code!FinishAndLeave(s, st) /\ st # "completed"
    BY <1>e1, <1>e2 DEF Code!Outcome
<1>e4. /\ codeRuns' \in [Sends -> Code!RunRows] /\ codeOwner' \in Code!Owners /\ codeFresh' \in {codeFresh, {}}
       /\ \A t \in Sends : t # s => codeRuns'[t] = codeRuns[t]
       /\ codeRuns'[s].stop = codeRuns[s].stop /\ codeRuns'[s].submitted = codeRuns[s].submitted
       /\ codeRuns'[s].turn = codeRuns[s].turn
       /\ \/ codeRuns'[s].status = codeRuns[s].status /\ ~(Code!Running(s) /\ codeOwner.stored)
          \/ codeRuns'[s].status = st /\ Code!Running(s) /\ codeOwner.stored
    BY <1>a, <1>e3, CodeFinishAndLeave
<1>e5. /\ codeWork' \in [Sends -> Code!WorkJobs] /\ \A t \in Sends : t # s => codeWork'[t] = codeWork[t]
       /\ codeOwner' \in Code!Owners /\ codeOwner'.stored = codeOwner.stored /\ codeOwner'.overtaken = codeOwner.overtaken
       /\ \/ /\ codeService.mode = "up" /\ codeOwner.stored
             /\ codeWork'[s].at = "none" /\ codeWork'[s].gen = 0 /\ codeOwner'.connection = codeOwner.connection
          \/ codeWork'[s].at = "leaving" /\ codeWork'[s].gen = codeOwner.connection /\ codeOwner'.connection = 0
    BY <1>a, <1>e3, CodeFinishAndLeave
<1>1. Code!RowsOK'
    BY <1>a, <1>u, <1>k, <1>e1, <1>e2, <1>e3, <1>e4, <1>e5 DEF Code!RowsOK
<1>2. Code!OwnerOK'
    BY <1>a, <1>u, <1>k, <1>e1, <1>e2, <1>e3, <1>e4, <1>e5 DEF Code!OwnerOK
<1>3. Code!JobsOK'
    BY <1>a, <1>u, <1>k, <1>e1, <1>e2, <1>e3, <1>e4, <1>e5 DEF Code!JobsOK
<1>4. Code!NativeOK'
    BY <1>a, <1>u DEF Code!NativeOK
<1>5. Code!LeftOK'
    BY <1>a, <1>u DEF Code!LeftOK, Code!Kinds
<1>6. Code!FreshOK'
    BY <1>a, <1>u, <1>k, <1>e1, <1>e2, <1>e3, <1>e4, <1>e5 DEF Code!FreshOK
<1>7. Code!NamesOK'
    BY <1>a, <1>u, <1>k, <1>e1, <1>e2, <1>e3, <1>e4, <1>e5 DEF Code!NamesOK, Code!Named
<1>8. Code!StagesOK'
    BY <1>a, <1>u, <1>k, <1>e1, <1>e2, <1>e3, <1>e4, <1>e5 DEF Code!StagesOK, Code!Deleted
<1>9. Code!OneOpens'
    BY <1>a, <1>u, <1>k, <1>e1, <1>e2, <1>e3, <1>e4, <1>e5 DEF Code!OneOpens, Code!Opening,
        Code!Accepting, Code!Running, Code!At
<1>10. Code!AllHeld'
    BY <1>a, <1>u, <1>k, <1>e1, <1>e2, <1>e3, <1>e4, <1>e5 DEF Code!AllHeld, Code!IsHeld,
        Code!ClosesIt, Code!Exists, Code!Gone
<1>11. Code!ShutOK'
    BY <1>a, <1>u, <1>k, <1>e1, <1>e2, <1>e3, <1>e4, <1>e5 DEF Code!ShutOK, Code!InUse, Code!At,
        Code!Exists, Code!Deleted, Code!StagesOK
<1>p. ASSUME NEW t \in Sends PROVE Code!TurnSane(t)' /\ Code!RunSane(t)' /\ Code!JobSane(t)' /\ Code!HeardSane(t)'
    <2>1. Code!TurnSane(t)'
        BY <1>a, <1>u DEF Code!TurnSane, Code!NoTurn
    <2>2. Code!RunSane(t)'
        BY <1>a, <1>u, <1>k, <1>e1, <1>e2, <1>e3, <1>e4, <1>e5 DEF Code!RunSane, Code!Deleted,
            Code!Final
    <2>3. Code!JobSane(t)'
        <3>1. CASE t = s
            <4>1. /\ codeRuns'[s].status = "none" => codeRuns[s].status = "none"
                  /\ codeWork'[s].at \in {"none", "leaving"}
                BY <1>e4, <1>e5 DEF Code!Final
            <4> QED
                BY <3>1, <4>1, <1>a, <1>u, <1>e1, <1>e4 DEF Code!JobSane, Code!Unsubmitted,
                    Code!At, Code!Deleted
        <3>2. CASE t # s
            BY <3>2, <1>a, <1>u, <1>e4, <1>e5 DEF Code!JobSane, Code!Unsubmitted, Code!At,
                Code!Deleted
        <3> QED
            BY <3>1, <3>2
    <2>4. Code!HeardSane(t)'
        BY <1>a, <1>u, <1>k, <1>e1, <1>e2, <1>e3, <1>e4, <1>e5 DEF Code!HeardSane, Code!Unheard,
            Code!Running, Code!At, Code!Deleted, Code!JobSane
    <2> QED
        BY <2>1, <2>2, <2>3, <2>4
<1>w. \A t \in Sends : Code!WantedStart(t)
    BY <1>a, <1>e1, <1>e2, <1>e3, <1>e4, <1>e5 DEF Code!WantedStart, Code!Final, Code!Active
<1>q. Code!IInv'
    BY <1>1, <1>2, <1>3, <1>4, <1>5, <1>6, <1>7, <1>8, <1>9, <1>10, <1>11, <1>p, CodeWhole
<1> QED
    BY <1>q, <1>w

LEMMA CodeLeftKeeps ==
    ASSUME Code!IInv, NEW s \in Sends, Code!Left(s)
    PROVE  Code!IInv' /\ \A t \in Sends : Code!WantedStart(t)
<1>a. /\ Code!RowsOK /\ Code!OwnerOK /\ Code!JobsOK /\ Code!NativeOK /\ Code!LeftOK
      /\ Code!FreshOK /\ Code!NamesOK /\ Code!StagesOK /\ Code!OneOpens /\ Code!AllHeld /\ Code!ShutOK
      /\ \A t \in Sends : Code!TurnSane(t) /\ Code!RunSane(t) /\ Code!JobSane(t) /\ Code!HeardSane(t)
    BY CodeParts
<1>u. UNCHANGED <<codeSession, codeRuns, codeLatest, codeFresh, codeOwner, codeCalls, codeFails, codeInterrupts, codeDeletion, codeHalting, codeService, codeProcess, codeHistory, codeTurns, codeLeft>>
    BY DEF Code!Left, Code!rows, Code!native
<1>k. /\ codeOwner.connection \in Code!Gens /\ codeOwner.stored \in BOOLEAN
      /\ codeOwner.overtaken \in BOOLEAN /\ codeOwner.finished \in BOOLEAN
      /\ codeSession.model \in Code!Models /\ codeSession.thread \in BOOLEAN
      /\ codeDeletion.gen \in Code!Gens /\ codeService.gen \in Code!Gens /\ codeHalting.gen \in Code!Gens
      /\ \A t \in Sends : /\ codeWork[t].gen \in Code!Gens /\ codeFails[t].gen \in Code!Gens
                          /\ codeInterrupts[t].gen \in Code!Gens /\ codeTurns[t].gen \in Code!Gens
                          /\ codeTurns[t].asked \in Nat /\ codeRuns[t].model \in Code!Models
                          /\ codeRuns[t].stop \in BOOLEAN /\ codeRuns[t].submitted \in BOOLEAN
                          /\ codeRuns[t].turn \in Sends \cup {NoSend}
      /\ 0 \in Code!Gens /\ 0 \notin Code!Generations
      /\ \A h \in Code!Gens : h # 0 => h \in Code!Generations
    BY <1>a, CodeFields
<1>e1. codeWork[s].at = "leaving" /\ Code!Gone(codeWork[s].gen)
    BY  DEF Code!Left, Code!At
<1>e2. /\ codeWork' \in [Sends -> Code!WorkJobs] /\ codeWork'[s].at = "none" /\ codeWork'[s].gen = 0
       /\ \A t \in Sends : t # s => codeWork'[t] = codeWork[t]
    BY <1>a, <1>k, CodeConstants DEF Code!Left, Code!Nothing, Code!Job, Code!JobsOK,
        Code!WorkJobs, Code!Gens
<1>1. Code!RowsOK'
    BY <1>a, <1>u DEF Code!RowsOK
<1>2. Code!OwnerOK'
    BY <1>a, <1>u DEF Code!OwnerOK
<1>3. Code!JobsOK'
    BY <1>a, <1>u, <1>k, <1>e1, <1>e2 DEF Code!JobsOK
<1>4. Code!NativeOK'
    BY <1>a, <1>u DEF Code!NativeOK
<1>5. Code!LeftOK'
    BY <1>a, <1>u DEF Code!LeftOK, Code!Kinds
<1>6. Code!FreshOK'
    BY <1>a, <1>u DEF Code!FreshOK
<1>7. Code!NamesOK'
    BY <1>a, <1>u, <1>k, <1>e1, <1>e2 DEF Code!NamesOK, Code!Named
<1>8. Code!StagesOK'
    BY <1>a, <1>u DEF Code!StagesOK, Code!Deleted
<1>9. Code!OneOpens'
    BY <1>a, <1>u, <1>k, <1>e1, <1>e2 DEF Code!OneOpens, Code!Opening, Code!Accepting,
        Code!Running, Code!At
<1>10. Code!AllHeld'
    BY <1>a, <1>u, <1>k, <1>e1, <1>e2 DEF Code!AllHeld, Code!IsHeld, Code!ClosesIt, Code!Exists,
        Code!Gone
<1>11. Code!ShutOK'
    BY <1>a, <1>u, <1>k, <1>e1, <1>e2 DEF Code!ShutOK, Code!InUse, Code!At, Code!Exists,
        Code!Deleted
<1>p. ASSUME NEW t \in Sends PROVE Code!TurnSane(t)' /\ Code!RunSane(t)' /\ Code!JobSane(t)' /\ Code!HeardSane(t)'
    <2>1. Code!TurnSane(t)'
        BY <1>a, <1>u DEF Code!TurnSane, Code!NoTurn
    <2>2. Code!RunSane(t)'
        BY <1>a, <1>u DEF Code!RunSane, Code!Deleted
    <2>3. Code!JobSane(t)'
        BY <1>a, <1>u, <1>k, <1>e1, <1>e2 DEF Code!JobSane, Code!Unsubmitted, Code!At,
            Code!Deleted
    <2>4. Code!HeardSane(t)'
        BY <1>a, <1>u, <1>k, <1>e1, <1>e2 DEF Code!HeardSane, Code!Unheard, Code!Running,
            Code!At, Code!Deleted
    <2> QED
        BY <2>1, <2>2, <2>3, <2>4
<1>w. \A t \in Sends : Code!WantedStart(t)
    BY <1>u DEF Code!WantedStart
<1>q. Code!IInv'
    BY <1>1, <1>2, <1>3, <1>4, <1>5, <1>6, <1>7, <1>8, <1>9, <1>10, <1>11, <1>p, CodeWhole
<1> QED
    BY <1>q, <1>w

LEMMA CodeInterruptedKeeps ==
    ASSUME Code!IInv, NEW s \in Sends, Code!Interrupted(s)
    PROVE  Code!IInv' /\ \A t \in Sends : Code!WantedStart(t)
<1>a. /\ Code!RowsOK /\ Code!OwnerOK /\ Code!JobsOK /\ Code!NativeOK /\ Code!LeftOK
      /\ Code!FreshOK /\ Code!NamesOK /\ Code!StagesOK /\ Code!OneOpens /\ Code!AllHeld /\ Code!ShutOK
      /\ \A t \in Sends : Code!TurnSane(t) /\ Code!RunSane(t) /\ Code!JobSane(t) /\ Code!HeardSane(t)
    BY CodeParts
<1>u. UNCHANGED <<codeSession, codeRuns, codeLatest, codeFresh, codeOwner, codeCalls, codeWork, codeFails, codeDeletion, codeHalting, codeService, codeProcess, codeHistory, codeTurns, codeLeft>>
    BY DEF Code!Interrupted, Code!rows, Code!native
<1>k. /\ codeOwner.connection \in Code!Gens /\ codeOwner.stored \in BOOLEAN
      /\ codeOwner.overtaken \in BOOLEAN /\ codeOwner.finished \in BOOLEAN
      /\ codeSession.model \in Code!Models /\ codeSession.thread \in BOOLEAN
      /\ codeDeletion.gen \in Code!Gens /\ codeService.gen \in Code!Gens /\ codeHalting.gen \in Code!Gens
      /\ \A t \in Sends : /\ codeWork[t].gen \in Code!Gens /\ codeFails[t].gen \in Code!Gens
                          /\ codeInterrupts[t].gen \in Code!Gens /\ codeTurns[t].gen \in Code!Gens
                          /\ codeTurns[t].asked \in Nat /\ codeRuns[t].model \in Code!Models
                          /\ codeRuns[t].stop \in BOOLEAN /\ codeRuns[t].submitted \in BOOLEAN
                          /\ codeRuns[t].turn \in Sends \cup {NoSend}
      /\ 0 \in Code!Gens /\ 0 \notin Code!Generations
      /\ \A h \in Code!Gens : h # 0 => h \in Code!Generations
    BY <1>a, CodeFields
<1>e1. codeInterrupts[s].at = "asking"
    BY  DEF Code!Interrupted
<1>e2. /\ codeInterrupts' \in [Sends -> Code!InterruptJobs] /\ codeInterrupts'[s].at = "over" /\ codeInterrupts'[s].gen = codeInterrupts[s].gen
       /\ \A t \in Sends : t # s => codeInterrupts'[t] = codeInterrupts[t]
    BY <1>a, <1>k DEF Code!Interrupted, Code!JobsOK, Code!InterruptJobs
<1>1. Code!RowsOK'
    BY <1>a, <1>u DEF Code!RowsOK
<1>2. Code!OwnerOK'
    BY <1>a, <1>u DEF Code!OwnerOK
<1>3. Code!JobsOK'
    BY <1>a, <1>u, <1>k, <1>e1, <1>e2 DEF Code!JobsOK
<1>4. Code!NativeOK'
    BY <1>a, <1>u DEF Code!NativeOK
<1>5. Code!LeftOK'
    BY <1>a, <1>u DEF Code!LeftOK, Code!Kinds
<1>6. Code!FreshOK'
    BY <1>a, <1>u DEF Code!FreshOK
<1>7. Code!NamesOK'
    BY <1>a, <1>u, <1>k, <1>e1, <1>e2 DEF Code!NamesOK, Code!Named
<1>8. Code!StagesOK'
    BY <1>a, <1>u DEF Code!StagesOK, Code!Deleted
<1>9. Code!OneOpens'
    BY <1>a, <1>u DEF Code!OneOpens, Code!Opening, Code!Accepting, Code!Running, Code!At
<1>10. Code!AllHeld'
    BY <1>a, <1>u, <1>k, <1>e1, <1>e2 DEF Code!AllHeld, Code!IsHeld, Code!ClosesIt, Code!Exists
<1>11. Code!ShutOK'
    BY <1>a, <1>u DEF Code!ShutOK, Code!InUse, Code!At, Code!Exists, Code!Deleted
<1>p. ASSUME NEW t \in Sends PROVE Code!TurnSane(t)' /\ Code!RunSane(t)' /\ Code!JobSane(t)' /\ Code!HeardSane(t)'
    <2>1. Code!TurnSane(t)'
        BY <1>a, <1>u DEF Code!TurnSane, Code!NoTurn
    <2>2. Code!RunSane(t)'
        BY <1>a, <1>u DEF Code!RunSane, Code!Deleted
    <2>3. Code!JobSane(t)'
        BY <1>a, <1>u, <1>k, <1>e1, <1>e2 DEF Code!JobSane, Code!Unsubmitted, Code!At,
            Code!Deleted
    <2>4. Code!HeardSane(t)'
        BY <1>a, <1>u DEF Code!HeardSane, Code!Unheard, Code!Running, Code!At, Code!Deleted
    <2> QED
        BY <2>1, <2>2, <2>3, <2>4
<1>w. \A t \in Sends : Code!WantedStart(t)
    BY <1>u DEF Code!WantedStart
<1>q. Code!IInv'
    BY <1>1, <1>2, <1>3, <1>4, <1>5, <1>6, <1>7, <1>8, <1>9, <1>10, <1>11, <1>p, CodeWhole
<1> QED
    BY <1>q, <1>w

LEMMA CodeEscalateKeeps ==
    ASSUME Code!IInv, NEW s \in Sends, Code!Escalate(s)
    PROVE  Code!IInv' /\ \A t \in Sends : Code!WantedStart(t)
<1>a. /\ Code!RowsOK /\ Code!OwnerOK /\ Code!JobsOK /\ Code!NativeOK /\ Code!LeftOK
      /\ Code!FreshOK /\ Code!NamesOK /\ Code!StagesOK /\ Code!OneOpens /\ Code!AllHeld /\ Code!ShutOK
      /\ \A t \in Sends : Code!TurnSane(t) /\ Code!RunSane(t) /\ Code!JobSane(t) /\ Code!HeardSane(t)
    BY CodeParts
<1>u. UNCHANGED <<codeSession, codeRuns, codeLatest, codeFresh, codeCalls, codeWork, codeFails, codeDeletion, codeHalting, codeService, codeProcess, codeHistory, codeTurns, codeLeft>>
    BY DEF Code!Escalate, Code!rows, Code!native
<1>k. /\ codeOwner.connection \in Code!Gens /\ codeOwner.stored \in BOOLEAN
      /\ codeOwner.overtaken \in BOOLEAN /\ codeOwner.finished \in BOOLEAN
      /\ codeSession.model \in Code!Models /\ codeSession.thread \in BOOLEAN
      /\ codeDeletion.gen \in Code!Gens /\ codeService.gen \in Code!Gens /\ codeHalting.gen \in Code!Gens
      /\ \A t \in Sends : /\ codeWork[t].gen \in Code!Gens /\ codeFails[t].gen \in Code!Gens
                          /\ codeInterrupts[t].gen \in Code!Gens /\ codeTurns[t].gen \in Code!Gens
                          /\ codeTurns[t].asked \in Nat /\ codeRuns[t].model \in Code!Models
                          /\ codeRuns[t].stop \in BOOLEAN /\ codeRuns[t].submitted \in BOOLEAN
                          /\ codeRuns[t].turn \in Sends \cup {NoSend}
      /\ 0 \in Code!Gens /\ 0 \notin Code!Generations
      /\ \A h \in Code!Gens : h # 0 => h \in Code!Generations
    BY <1>a, CodeFields
<1>e1. /\ codeInterrupts[s].at = "asking"
       /\ codeInterrupts' \in [Sends -> Code!InterruptJobs]
       /\ codeInterrupts'[s].gen = codeInterrupts[s].gen
       /\ \A t \in Sends : t # s => codeInterrupts'[t] = codeInterrupts[t]
       /\ \/ codeInterrupts'[s].at = "closing" /\ codeOwner.connection = codeInterrupts[s].gen /\ codeOwner' = Code!Detached
          \/ codeInterrupts'[s].at = "over" /\ codeOwner' = codeOwner
    BY <1>a, <1>k DEF Code!Escalate, Code!JobsOK, Code!InterruptJobs
<1>e2. /\ codeOwner' \in Code!Owners /\ codeOwner'.stored = codeOwner.stored /\ codeOwner'.overtaken = codeOwner.overtaken
       /\ \/ codeOwner'.connection = 0 /\ codeInterrupts'[s].at = "closing" /\ codeOwner.connection = codeInterrupts[s].gen
          \/ codeOwner'.connection = codeOwner.connection
    BY <1>a, <1>e1, CodeDetached DEF Code!OwnerOK
<1>1. Code!RowsOK'
    BY <1>a, <1>u DEF Code!RowsOK
<1>2. Code!OwnerOK'
    BY <1>a, <1>u, <1>k, <1>e1, <1>e2 DEF Code!OwnerOK
<1>3. Code!JobsOK'
    BY <1>a, <1>u, <1>k, <1>e1, <1>e2 DEF Code!JobsOK
<1>4. Code!NativeOK'
    BY <1>a, <1>u DEF Code!NativeOK
<1>5. Code!LeftOK'
    BY <1>a, <1>u DEF Code!LeftOK, Code!Kinds
<1>6. Code!FreshOK'
    BY <1>a, <1>u DEF Code!FreshOK
<1>7. Code!NamesOK'
    BY <1>a, <1>u, <1>k, <1>e1, <1>e2 DEF Code!NamesOK, Code!Named
<1>8. Code!StagesOK'
    BY <1>a, <1>u, <1>k, <1>e1, <1>e2 DEF Code!StagesOK, Code!Deleted
<1>9. Code!OneOpens'
    BY <1>a, <1>u, <1>k, <1>e1, <1>e2 DEF Code!OneOpens, Code!Opening, Code!Accepting,
        Code!Running, Code!At
<1>10. Code!AllHeld'
    BY <1>a, <1>u, <1>k, <1>e1, <1>e2 DEF Code!AllHeld, Code!IsHeld, Code!ClosesIt, Code!Exists
<1>11. Code!ShutOK'
    BY <1>a, <1>u, <1>k, <1>e1, <1>e2 DEF Code!ShutOK, Code!InUse, Code!At, Code!Exists,
        Code!Deleted
<1>p. ASSUME NEW t \in Sends PROVE Code!TurnSane(t)' /\ Code!RunSane(t)' /\ Code!JobSane(t)' /\ Code!HeardSane(t)'
    <2>1. Code!TurnSane(t)'
        BY <1>a, <1>u DEF Code!TurnSane, Code!NoTurn
    <2>2. Code!RunSane(t)'
        BY <1>a, <1>u DEF Code!RunSane, Code!Deleted
    <2>3. Code!JobSane(t)'
        BY <1>a, <1>u, <1>k, <1>e1, <1>e2 DEF Code!JobSane, Code!Unsubmitted, Code!At,
            Code!Deleted
    <2>4. Code!HeardSane(t)'
        BY <1>a, <1>u, <1>k, <1>e1, <1>e2 DEF Code!HeardSane, Code!Unheard, Code!Running,
            Code!At, Code!Deleted, Code!JobSane
    <2> QED
        BY <2>1, <2>2, <2>3, <2>4
<1>w. \A t \in Sends : Code!WantedStart(t)
    BY <1>u DEF Code!WantedStart
<1>q. Code!IInv'
    BY <1>1, <1>2, <1>3, <1>4, <1>5, <1>6, <1>7, <1>8, <1>9, <1>10, <1>11, <1>p, CodeWhole
<1> QED
    BY <1>q, <1>w

LEMMA CodeEscalatedKeeps ==
    ASSUME Code!IInv, NEW s \in Sends, Code!Escalated(s)
    PROVE  Code!IInv' /\ \A t \in Sends : Code!WantedStart(t)
<1>a. /\ Code!RowsOK /\ Code!OwnerOK /\ Code!JobsOK /\ Code!NativeOK /\ Code!LeftOK
      /\ Code!FreshOK /\ Code!NamesOK /\ Code!StagesOK /\ Code!OneOpens /\ Code!AllHeld /\ Code!ShutOK
      /\ \A t \in Sends : Code!TurnSane(t) /\ Code!RunSane(t) /\ Code!JobSane(t) /\ Code!HeardSane(t)
    BY CodeParts
<1>u. UNCHANGED <<codeSession, codeLatest, codeCalls, codeWork, codeFails, codeDeletion, codeHalting, codeService, codeProcess, codeHistory, codeTurns, codeLeft>>
    BY DEF Code!Escalated, Code!native
<1>k. /\ codeOwner.connection \in Code!Gens /\ codeOwner.stored \in BOOLEAN
      /\ codeOwner.overtaken \in BOOLEAN /\ codeOwner.finished \in BOOLEAN
      /\ codeSession.model \in Code!Models /\ codeSession.thread \in BOOLEAN
      /\ codeDeletion.gen \in Code!Gens /\ codeService.gen \in Code!Gens /\ codeHalting.gen \in Code!Gens
      /\ \A t \in Sends : /\ codeWork[t].gen \in Code!Gens /\ codeFails[t].gen \in Code!Gens
                          /\ codeInterrupts[t].gen \in Code!Gens /\ codeTurns[t].gen \in Code!Gens
                          /\ codeTurns[t].asked \in Nat /\ codeRuns[t].model \in Code!Models
                          /\ codeRuns[t].stop \in BOOLEAN /\ codeRuns[t].submitted \in BOOLEAN
                          /\ codeRuns[t].turn \in Sends \cup {NoSend}
      /\ 0 \in Code!Gens /\ 0 \notin Code!Generations
      /\ \A h \in Code!Gens : h # 0 => h \in Code!Generations
    BY <1>a, CodeFields
<1>e1. codeInterrupts[s].at = "closing" /\ Code!Gone(codeInterrupts[s].gen) /\ Code!Finish(s, "interrupted", codeOwner) /\ "interrupted" \in Code!Final
    BY  DEF Code!Escalated, Code!Final
<1>e2. /\ codeInterrupts' \in [Sends -> Code!InterruptJobs] /\ codeInterrupts'[s].at = "over" /\ codeInterrupts'[s].gen = codeInterrupts[s].gen
       /\ \A t \in Sends : t # s => codeInterrupts'[t] = codeInterrupts[t]
    BY <1>a, <1>k DEF Code!Escalated, Code!JobsOK, Code!InterruptJobs
<1>e3. PICK o \in Code!Owners : o = codeOwner
    BY <1>a DEF Code!OwnerOK
<1>e4. /\ codeRuns' \in [Sends -> Code!RunRows] /\ codeOwner' \in Code!Owners /\ codeFresh' \in {codeFresh, {}}
       /\ \A t \in Sends : t # s => codeRuns'[t] = codeRuns[t]
       /\ codeRuns'[s].stop = codeRuns[s].stop /\ codeRuns'[s].submitted = codeRuns[s].submitted
       /\ codeRuns'[s].turn = codeRuns[s].turn
       /\ \/ codeRuns'[s].status = codeRuns[s].status /\ ~(Code!Running(s) /\ codeOwner.stored)
          \/ codeRuns'[s].status = "interrupted" /\ Code!Running(s) /\ codeOwner.stored
       /\ codeOwner'.connection = codeOwner.connection /\ codeOwner'.stored = codeOwner.stored /\ codeOwner'.overtaken = codeOwner.overtaken
    BY <1>a, <1>e1, <1>e3, CodeFinish
<1>1. Code!RowsOK'
    BY <1>a, <1>u, <1>k, <1>e1, <1>e2, <1>e3, <1>e4 DEF Code!RowsOK
<1>2. Code!OwnerOK'
    BY <1>a, <1>u, <1>k, <1>e1, <1>e2, <1>e3, <1>e4 DEF Code!OwnerOK
<1>3. Code!JobsOK'
    BY <1>a, <1>u, <1>k, <1>e1, <1>e2, <1>e3, <1>e4 DEF Code!JobsOK
<1>4. Code!NativeOK'
    BY <1>a, <1>u DEF Code!NativeOK
<1>5. Code!LeftOK'
    BY <1>a, <1>u DEF Code!LeftOK, Code!Kinds
<1>6. Code!FreshOK'
    BY <1>a, <1>u, <1>k, <1>e1, <1>e2, <1>e3, <1>e4 DEF Code!FreshOK
<1>7. Code!NamesOK'
    BY <1>a, <1>u, <1>k, <1>e1, <1>e2, <1>e3, <1>e4 DEF Code!NamesOK, Code!Named
<1>8. Code!StagesOK'
    BY <1>a, <1>u, <1>k, <1>e1, <1>e2, <1>e3, <1>e4 DEF Code!StagesOK, Code!Deleted
<1>9. Code!OneOpens'
    <2>1. Code!Opening(s) => codeRuns'[s].status = codeRuns[s].status
        BY <1>a, <1>e1, <1>e4, CodeConstants DEF Code!JobSane, Code!RunSane, Code!Unsubmitted,
            Code!Opening, Code!StagesOK, Code!Deleted, Code!Running
    <2>2. \A t \in Sends : Code!Opening(t) => (Code!Running(t)' <=> Code!Running(t))
        BY <2>1, <1>u, <1>e4 DEF Code!Running
    <2>3. \A t \in Sends : Code!Opening(t)' <=> Code!Opening(t)
        BY <1>u DEF Code!Opening
    <2> QED
        BY <2>2, <2>3, <1>a, <1>u, <1>e4 DEF Code!OneOpens, Code!Accepting, Code!At
<1>10. Code!AllHeld'
    BY <1>a, <1>u, <1>k, <1>e1, <1>e2, <1>e3, <1>e4 DEF Code!AllHeld, Code!IsHeld,
        Code!ClosesIt, Code!Exists, Code!Gone
<1>11. Code!ShutOK'
    BY <1>a, <1>u, <1>k, <1>e1, <1>e2, <1>e3, <1>e4 DEF Code!ShutOK, Code!InUse, Code!At,
        Code!Exists, Code!Deleted
<1>p. ASSUME NEW t \in Sends PROVE Code!TurnSane(t)' /\ Code!RunSane(t)' /\ Code!JobSane(t)' /\ Code!HeardSane(t)'
    <2>1. Code!TurnSane(t)'
        BY <1>a, <1>u DEF Code!TurnSane, Code!NoTurn
    <2>2. Code!RunSane(t)'
        BY <1>a, <1>u, <1>k, <1>e1, <1>e2, <1>e3, <1>e4 DEF Code!RunSane, Code!Deleted
    <2>3. Code!JobSane(t)'
        BY <1>a, <1>u, <1>k, <1>e1, <1>e2, <1>e3, <1>e4 DEF Code!JobSane, Code!Unsubmitted,
            Code!At, Code!Deleted
    <2>4. Code!HeardSane(t)'
        BY <1>a, <1>u, <1>k, <1>e1, <1>e2, <1>e3, <1>e4 DEF Code!HeardSane, Code!Unheard,
            Code!Running, Code!At, Code!Deleted, Code!JobSane
    <2> QED
        BY <2>1, <2>2, <2>3, <2>4
<1>w. \A t \in Sends : Code!WantedStart(t)
    BY <1>a, <1>e1, <1>e2, <1>e3, <1>e4 DEF Code!WantedStart, Code!Final, Code!Active
<1>q. Code!IInv'
    BY <1>1, <1>2, <1>3, <1>4, <1>5, <1>6, <1>7, <1>8, <1>9, <1>10, <1>11, <1>p, CodeWhole
<1> QED
    BY <1>q, <1>w

LEMMA CodeEventFailsKeeps ==
    ASSUME Code!IInv, NEW s \in Sends, Code!EventFails(s)
    PROVE  Code!IInv' /\ \A t \in Sends : Code!WantedStart(t)
<1>a. /\ Code!RowsOK /\ Code!OwnerOK /\ Code!JobsOK /\ Code!NativeOK /\ Code!LeftOK
      /\ Code!FreshOK /\ Code!NamesOK /\ Code!StagesOK /\ Code!OneOpens /\ Code!AllHeld /\ Code!ShutOK
      /\ \A t \in Sends : Code!TurnSane(t) /\ Code!RunSane(t) /\ Code!JobSane(t) /\ Code!HeardSane(t)
    BY CodeParts
<1>u. UNCHANGED <<codeSession, codeRuns, codeLatest, codeFresh, codeCalls, codeWork, codeInterrupts, codeDeletion, codeHalting, codeService, codeProcess, codeHistory, codeTurns>>
    BY DEF Code!EventFails, Code!rows, Code!native
<1>k. /\ codeOwner.connection \in Code!Gens /\ codeOwner.stored \in BOOLEAN
      /\ codeOwner.overtaken \in BOOLEAN /\ codeOwner.finished \in BOOLEAN
      /\ codeSession.model \in Code!Models /\ codeSession.thread \in BOOLEAN
      /\ codeDeletion.gen \in Code!Gens /\ codeService.gen \in Code!Gens /\ codeHalting.gen \in Code!Gens
      /\ \A t \in Sends : /\ codeWork[t].gen \in Code!Gens /\ codeFails[t].gen \in Code!Gens
                          /\ codeInterrupts[t].gen \in Code!Gens /\ codeTurns[t].gen \in Code!Gens
                          /\ codeTurns[t].asked \in Nat /\ codeRuns[t].model \in Code!Models
                          /\ codeRuns[t].stop \in BOOLEAN /\ codeRuns[t].submitted \in BOOLEAN
                          /\ codeRuns[t].turn \in Sends \cup {NoSend}
      /\ 0 \in Code!Gens /\ 0 \notin Code!Generations
      /\ \A h \in Code!Gens : h # 0 => h \in Code!Generations
    BY <1>a, CodeFields
<1>e1. Code!Running(s) /\ codeRuns[s].submitted /\ codeFails[s].at = "none" /\ codeOwner.connection # 0
    BY  DEF Code!EventFails, Code!Alive
<1>e2. /\ codeFails' \in [Sends -> Code!FailJobs] /\ codeFails'[s].at = "closing" /\ codeFails'[s].gen = codeOwner.connection
       /\ \A t \in Sends : t # s => codeFails'[t] = codeFails[t]
    BY <1>a, <1>k DEF Code!EventFails, Code!Job, Code!JobsOK, Code!FailJobs
<1>e3. /\ codeOwner' \in Code!Owners
       /\ codeOwner'.connection = 0 /\ codeOwner'.stored = codeOwner.stored /\ codeOwner'.overtaken = codeOwner.overtaken
    BY <1>a, CodeDetached DEF Code!EventFails
<1>e4. Code!LeftOK'
    BY <1>a DEF Code!EventFails, Code!Spend, Code!Fault, Code!LeftOK, Code!Kinds
<1>1. Code!RowsOK'
    BY <1>a, <1>u DEF Code!RowsOK
<1>2. Code!OwnerOK'
    BY <1>a, <1>u, <1>k, <1>e1, <1>e2, <1>e3, <1>e4 DEF Code!OwnerOK
<1>3. Code!JobsOK'
    BY <1>a, <1>u, <1>k, <1>e1, <1>e2, <1>e3, <1>e4 DEF Code!JobsOK
<1>4. Code!NativeOK'
    BY <1>a, <1>u DEF Code!NativeOK
<1>5. Code!LeftOK'
    BY <1>e1, <1>e2, <1>e3, <1>e4
<1>6. Code!FreshOK'
    BY <1>a, <1>u DEF Code!FreshOK
<1>7. Code!NamesOK'
    BY <1>a, <1>u, <1>k, <1>e1, <1>e2, <1>e3, <1>e4 DEF Code!NamesOK, Code!Named
<1>8. Code!StagesOK'
    BY <1>a, <1>u, <1>k, <1>e1, <1>e2, <1>e3, <1>e4 DEF Code!StagesOK, Code!Deleted
<1>9. Code!OneOpens'
    BY <1>a, <1>u, <1>k, <1>e1, <1>e2, <1>e3, <1>e4 DEF Code!OneOpens, Code!Opening,
        Code!Accepting, Code!Running, Code!At
<1>10. Code!AllHeld'
    BY <1>a, <1>u, <1>k, <1>e1, <1>e2, <1>e3, <1>e4 DEF Code!AllHeld, Code!IsHeld,
        Code!ClosesIt, Code!Exists
<1>11. Code!ShutOK'
    BY <1>a, <1>u, <1>k, <1>e1, <1>e2, <1>e3, <1>e4 DEF Code!ShutOK, Code!InUse, Code!At,
        Code!Exists, Code!Deleted
<1>p. ASSUME NEW t \in Sends PROVE Code!TurnSane(t)' /\ Code!RunSane(t)' /\ Code!JobSane(t)' /\ Code!HeardSane(t)'
    <2>1. Code!TurnSane(t)'
        BY <1>a, <1>u DEF Code!TurnSane, Code!NoTurn
    <2>2. Code!RunSane(t)'
        BY <1>a, <1>u DEF Code!RunSane, Code!Deleted
    <2>3. Code!JobSane(t)'
        BY <1>a, <1>u, <1>k, <1>e1, <1>e2, <1>e3, <1>e4 DEF Code!JobSane, Code!Unsubmitted,
            Code!At, Code!Deleted
    <2>4. Code!HeardSane(t)'
        BY <1>a, <1>u, <1>k, <1>e1, <1>e2, <1>e3, <1>e4 DEF Code!HeardSane, Code!Unheard,
            Code!Running, Code!At, Code!Deleted, Code!JobSane
    <2> QED
        BY <2>1, <2>2, <2>3, <2>4
<1>w. \A t \in Sends : Code!WantedStart(t)
    BY <1>u DEF Code!WantedStart
<1>q. Code!IInv'
    BY <1>1, <1>2, <1>3, <1>4, <1>5, <1>6, <1>7, <1>8, <1>9, <1>10, <1>11, <1>p, CodeWhole
<1> QED
    BY <1>q, <1>w

LEMMA CodeEventFailedKeeps ==
    ASSUME Code!IInv, NEW s \in Sends, Code!EventFailed(s)
    PROVE  Code!IInv' /\ \A t \in Sends : Code!WantedStart(t)
<1>a. /\ Code!RowsOK /\ Code!OwnerOK /\ Code!JobsOK /\ Code!NativeOK /\ Code!LeftOK
      /\ Code!FreshOK /\ Code!NamesOK /\ Code!StagesOK /\ Code!OneOpens /\ Code!AllHeld /\ Code!ShutOK
      /\ \A t \in Sends : Code!TurnSane(t) /\ Code!RunSane(t) /\ Code!JobSane(t) /\ Code!HeardSane(t)
    BY CodeParts
<1>u. UNCHANGED <<codeSession, codeLatest, codeCalls, codeWork, codeInterrupts, codeDeletion, codeHalting, codeService, codeProcess, codeHistory, codeTurns, codeLeft>>
    BY DEF Code!EventFailed, Code!native
<1>k. /\ codeOwner.connection \in Code!Gens /\ codeOwner.stored \in BOOLEAN
      /\ codeOwner.overtaken \in BOOLEAN /\ codeOwner.finished \in BOOLEAN
      /\ codeSession.model \in Code!Models /\ codeSession.thread \in BOOLEAN
      /\ codeDeletion.gen \in Code!Gens /\ codeService.gen \in Code!Gens /\ codeHalting.gen \in Code!Gens
      /\ \A t \in Sends : /\ codeWork[t].gen \in Code!Gens /\ codeFails[t].gen \in Code!Gens
                          /\ codeInterrupts[t].gen \in Code!Gens /\ codeTurns[t].gen \in Code!Gens
                          /\ codeTurns[t].asked \in Nat /\ codeRuns[t].model \in Code!Models
                          /\ codeRuns[t].stop \in BOOLEAN /\ codeRuns[t].submitted \in BOOLEAN
                          /\ codeRuns[t].turn \in Sends \cup {NoSend}
      /\ 0 \in Code!Gens /\ 0 \notin Code!Generations
      /\ \A h \in Code!Gens : h # 0 => h \in Code!Generations
    BY <1>a, CodeFields
<1>e1. codeFails[s].at = "closing" /\ Code!Gone(codeFails[s].gen) /\ Code!Finish(s, Code!Outcome(s), codeOwner)
    BY  DEF Code!EventFailed
<1>e2. /\ codeFails' \in [Sends -> Code!FailJobs] /\ codeFails'[s].at = "none" /\ codeFails'[s].gen = 0
       /\ \A t \in Sends : t # s => codeFails'[t] = codeFails[t]
    BY <1>a, <1>k, CodeConstants DEF Code!EventFailed, Code!Nothing, Code!Job, Code!JobsOK,
        Code!FailJobs, Code!Gens
<1>e3. PICK o \in Code!Owners : o = codeOwner
    BY <1>a DEF Code!OwnerOK
<1>e4. PICK st \in Code!Final : st = Code!Outcome(s)
    BY CodeOutcome
<1>e5. Code!Finish(s, st, o) /\ st # "completed"
    BY <1>e1, <1>e3, <1>e4 DEF Code!Outcome
<1>e6. /\ codeRuns' \in [Sends -> Code!RunRows] /\ codeOwner' \in Code!Owners /\ codeFresh' \in {codeFresh, {}}
       /\ \A t \in Sends : t # s => codeRuns'[t] = codeRuns[t]
       /\ codeRuns'[s].stop = codeRuns[s].stop /\ codeRuns'[s].submitted = codeRuns[s].submitted
       /\ codeRuns'[s].turn = codeRuns[s].turn
       /\ \/ codeRuns'[s].status = codeRuns[s].status /\ ~(Code!Running(s) /\ codeOwner.stored)
          \/ codeRuns'[s].status = st /\ Code!Running(s) /\ codeOwner.stored
       /\ codeOwner'.connection = codeOwner.connection /\ codeOwner'.stored = codeOwner.stored /\ codeOwner'.overtaken = codeOwner.overtaken
    BY <1>a, <1>e5, <1>e3, CodeFinish
<1>1. Code!RowsOK'
    BY <1>a, <1>u, <1>k, <1>e1, <1>e2, <1>e3, <1>e4, <1>e5, <1>e6 DEF Code!RowsOK
<1>2. Code!OwnerOK'
    BY <1>a, <1>u, <1>k, <1>e1, <1>e2, <1>e3, <1>e4, <1>e5, <1>e6 DEF Code!OwnerOK
<1>3. Code!JobsOK'
    BY <1>a, <1>u, <1>k, <1>e1, <1>e2, <1>e3, <1>e4, <1>e5, <1>e6 DEF Code!JobsOK
<1>4. Code!NativeOK'
    BY <1>a, <1>u DEF Code!NativeOK
<1>5. Code!LeftOK'
    BY <1>a, <1>u DEF Code!LeftOK, Code!Kinds
<1>6. Code!FreshOK'
    BY <1>a, <1>u, <1>k, <1>e1, <1>e2, <1>e3, <1>e4, <1>e5, <1>e6 DEF Code!FreshOK
<1>7. Code!NamesOK'
    BY <1>a, <1>u, <1>k, <1>e1, <1>e2, <1>e3, <1>e4, <1>e5, <1>e6 DEF Code!NamesOK, Code!Named
<1>8. Code!StagesOK'
    BY <1>a, <1>u, <1>k, <1>e1, <1>e2, <1>e3, <1>e4, <1>e5, <1>e6 DEF Code!StagesOK,
        Code!Deleted
<1>9. Code!OneOpens'
    <2>1. Code!Opening(s) => codeRuns'[s].status = codeRuns[s].status
        BY <1>a, <1>e1, <1>e6, CodeConstants DEF Code!JobSane, Code!Unsubmitted, Code!Opening,
            Code!StagesOK, Code!Deleted, Code!Running
    <2>2. \A t \in Sends : Code!Opening(t) => (Code!Running(t)' <=> Code!Running(t))
        BY <2>1, <1>u, <1>e6 DEF Code!Running
    <2>3. \A t \in Sends : Code!Opening(t)' <=> Code!Opening(t)
        BY <1>u DEF Code!Opening
    <2> QED
        BY <2>2, <2>3, <1>a, <1>u, <1>e6 DEF Code!OneOpens, Code!Accepting, Code!At
<1>10. Code!AllHeld'
    BY <1>a, <1>u, <1>k, <1>e1, <1>e2, <1>e3, <1>e4, <1>e5, <1>e6 DEF Code!AllHeld, Code!IsHeld,
        Code!ClosesIt, Code!Exists, Code!Gone
<1>11. Code!ShutOK'
    BY <1>a, <1>u, <1>k, <1>e1, <1>e2, <1>e3, <1>e4, <1>e5, <1>e6 DEF Code!ShutOK, Code!InUse,
        Code!At, Code!Exists, Code!Deleted
<1>p. ASSUME NEW t \in Sends PROVE Code!TurnSane(t)' /\ Code!RunSane(t)' /\ Code!JobSane(t)' /\ Code!HeardSane(t)'
    <2>1. Code!TurnSane(t)'
        BY <1>a, <1>u DEF Code!TurnSane, Code!NoTurn
    <2>2. Code!RunSane(t)'
        BY <1>a, <1>u, <1>k, <1>e1, <1>e2, <1>e3, <1>e4, <1>e5, <1>e6 DEF Code!RunSane,
            Code!Deleted, Code!Final
    <2>3. Code!JobSane(t)'
        <3>1. CASE t = s
            <4>1. codeRuns'[s].status = "none" => codeRuns[s].status = "none"
                BY <1>e6 DEF Code!Final
            <4> QED
                BY <3>1, <4>1, <1>a, <1>u, <1>e2, <1>e6 DEF Code!JobSane, Code!Unsubmitted,
                    Code!At, Code!Deleted
        <3>2. CASE t # s
            BY <3>2, <1>a, <1>u, <1>e2, <1>e6 DEF Code!JobSane, Code!Unsubmitted, Code!At,
                Code!Deleted
        <3> QED
            BY <3>1, <3>2
    <2>4. Code!HeardSane(t)'
        BY <1>a, <1>u, <1>k, <1>e1, <1>e2, <1>e3, <1>e4, <1>e5, <1>e6 DEF Code!HeardSane,
            Code!Unheard, Code!Running, Code!At, Code!Deleted
    <2> QED
        BY <2>1, <2>2, <2>3, <2>4
<1>w. \A t \in Sends : Code!WantedStart(t)
    BY <1>a, <1>e1, <1>e2, <1>e3, <1>e4, <1>e5, <1>e6 DEF Code!WantedStart, Code!Final,
        Code!Active
<1>q. Code!IInv'
    BY <1>1, <1>2, <1>3, <1>4, <1>5, <1>6, <1>7, <1>8, <1>9, <1>10, <1>11, <1>p, CodeWhole
<1> QED
    BY <1>q, <1>w

LEMMA CodeStorageFailsKeeps ==
    ASSUME Code!IInv, Code!StorageFails
    PROVE  Code!IInv' /\ \A t \in Sends : Code!WantedStart(t)
<1>a. /\ Code!RowsOK /\ Code!OwnerOK /\ Code!JobsOK /\ Code!NativeOK /\ Code!LeftOK
      /\ Code!FreshOK /\ Code!NamesOK /\ Code!StagesOK /\ Code!OneOpens /\ Code!AllHeld /\ Code!ShutOK
      /\ \A t \in Sends : Code!TurnSane(t) /\ Code!RunSane(t) /\ Code!JobSane(t) /\ Code!HeardSane(t)
    BY CodeParts
<1>u. UNCHANGED <<codeSession, codeRuns, codeLatest, codeFresh, codeCalls, codeWork, codeFails, codeInterrupts, codeDeletion, codeService, codeProcess, codeHistory, codeTurns>>
    BY DEF Code!StorageFails, Code!rows, Code!native
<1>k. /\ codeOwner.connection \in Code!Gens /\ codeOwner.stored \in BOOLEAN
      /\ codeOwner.overtaken \in BOOLEAN /\ codeOwner.finished \in BOOLEAN
      /\ codeSession.model \in Code!Models /\ codeSession.thread \in BOOLEAN
      /\ codeDeletion.gen \in Code!Gens /\ codeService.gen \in Code!Gens /\ codeHalting.gen \in Code!Gens
      /\ \A t \in Sends : /\ codeWork[t].gen \in Code!Gens /\ codeFails[t].gen \in Code!Gens
                          /\ codeInterrupts[t].gen \in Code!Gens /\ codeTurns[t].gen \in Code!Gens
                          /\ codeTurns[t].asked \in Nat /\ codeRuns[t].model \in Code!Models
                          /\ codeRuns[t].stop \in BOOLEAN /\ codeRuns[t].submitted \in BOOLEAN
                          /\ codeRuns[t].turn \in Sends \cup {NoSend}
      /\ 0 \in Code!Gens /\ 0 \notin Code!Generations
      /\ \A h \in Code!Gens : h # 0 => h \in Code!Generations
    BY <1>a, CodeFields
<1>e1. codeOwner.stored /\ codeOwner' = [Code!Detached EXCEPT !.stored = FALSE] /\ codeHalting' = Code!Job("closing", codeOwner.connection)
    BY  DEF Code!StorageFails
<1>e2. /\ codeOwner' \in Code!Owners
       /\ codeOwner'.connection = 0 /\ codeOwner'.stored = FALSE /\ codeOwner'.overtaken = codeOwner.overtaken
    BY <1>a, <1>e1, CodeDetached DEF Code!Owners
<1>e3. /\ codeHalting' \in Code!FailJobs /\ codeHalting'.at = "closing" /\ codeHalting'.gen = codeOwner.connection
    BY <1>k, <1>e1 DEF Code!Job, Code!FailJobs
<1>e4. Code!LeftOK'
    BY <1>a DEF Code!StorageFails, Code!Spend, Code!Fault, Code!LeftOK, Code!Kinds
<1>1. Code!RowsOK'
    BY <1>a, <1>u DEF Code!RowsOK
<1>2. Code!OwnerOK'
    BY <1>a, <1>u, <1>k, <1>e1, <1>e2, <1>e3, <1>e4 DEF Code!OwnerOK
<1>3. Code!JobsOK'
    BY <1>a, <1>u, <1>k, <1>e1, <1>e2, <1>e3, <1>e4 DEF Code!JobsOK
<1>4. Code!NativeOK'
    BY <1>a, <1>u DEF Code!NativeOK
<1>5. Code!LeftOK'
    BY <1>e1, <1>e2, <1>e3, <1>e4
<1>6. Code!FreshOK'
    BY <1>a, <1>u DEF Code!FreshOK
<1>7. Code!NamesOK'
    BY <1>a, <1>u, <1>k, <1>e1, <1>e2, <1>e3, <1>e4 DEF Code!NamesOK, Code!Named
<1>8. Code!StagesOK'
    BY <1>a, <1>u, <1>k, <1>e1, <1>e2, <1>e3, <1>e4 DEF Code!StagesOK, Code!Deleted
<1>9. Code!OneOpens'
    BY <1>a, <1>u, <1>k, <1>e1, <1>e2, <1>e3, <1>e4 DEF Code!OneOpens, Code!Opening,
        Code!Accepting, Code!Running, Code!At
<1>10. Code!AllHeld'
    BY <1>a, <1>u, <1>k, <1>e1, <1>e2, <1>e3, <1>e4 DEF Code!AllHeld, Code!IsHeld,
        Code!ClosesIt, Code!Exists, Code!StagesOK
<1>11. Code!ShutOK'
    BY <1>a, <1>u, <1>k, <1>e1, <1>e2, <1>e3, <1>e4 DEF Code!ShutOK, Code!InUse, Code!At,
        Code!Exists, Code!Deleted
<1>p. ASSUME NEW t \in Sends PROVE Code!TurnSane(t)' /\ Code!RunSane(t)' /\ Code!JobSane(t)' /\ Code!HeardSane(t)'
    <2>1. Code!TurnSane(t)'
        BY <1>a, <1>u DEF Code!TurnSane, Code!NoTurn
    <2>2. Code!RunSane(t)'
        BY <1>a, <1>u DEF Code!RunSane, Code!Deleted
    <2>3. Code!JobSane(t)'
        BY <1>a, <1>u DEF Code!JobSane, Code!Unsubmitted, Code!At, Code!Deleted
    <2>4. Code!HeardSane(t)'
        BY <1>a, <1>u, <1>k, <1>e1, <1>e2, <1>e3, <1>e4 DEF Code!HeardSane, Code!Unheard,
            Code!Running, Code!At, Code!Deleted, Code!JobSane
    <2> QED
        BY <2>1, <2>2, <2>3, <2>4
<1>w. \A t \in Sends : Code!WantedStart(t)
    BY <1>u DEF Code!WantedStart
<1>q. Code!IInv'
    BY <1>1, <1>2, <1>3, <1>4, <1>5, <1>6, <1>7, <1>8, <1>9, <1>10, <1>11, <1>p, CodeWhole
<1> QED
    BY <1>q, <1>w

LEMMA CodeHaltedKeeps ==
    ASSUME Code!IInv, Code!Halted
    PROVE  Code!IInv' /\ \A t \in Sends : Code!WantedStart(t)
<1>a. /\ Code!RowsOK /\ Code!OwnerOK /\ Code!JobsOK /\ Code!NativeOK /\ Code!LeftOK
      /\ Code!FreshOK /\ Code!NamesOK /\ Code!StagesOK /\ Code!OneOpens /\ Code!AllHeld /\ Code!ShutOK
      /\ \A t \in Sends : Code!TurnSane(t) /\ Code!RunSane(t) /\ Code!JobSane(t) /\ Code!HeardSane(t)
    BY CodeParts
<1>u. UNCHANGED <<codeSession, codeRuns, codeLatest, codeFresh, codeCalls, codeWork, codeFails, codeInterrupts, codeDeletion, codeService, codeProcess, codeHistory, codeTurns, codeLeft>>
    BY DEF Code!Halted, Code!rows, Code!native
<1>k. /\ codeOwner.connection \in Code!Gens /\ codeOwner.stored \in BOOLEAN
      /\ codeOwner.overtaken \in BOOLEAN /\ codeOwner.finished \in BOOLEAN
      /\ codeSession.model \in Code!Models /\ codeSession.thread \in BOOLEAN
      /\ codeDeletion.gen \in Code!Gens /\ codeService.gen \in Code!Gens /\ codeHalting.gen \in Code!Gens
      /\ \A t \in Sends : /\ codeWork[t].gen \in Code!Gens /\ codeFails[t].gen \in Code!Gens
                          /\ codeInterrupts[t].gen \in Code!Gens /\ codeTurns[t].gen \in Code!Gens
                          /\ codeTurns[t].asked \in Nat /\ codeRuns[t].model \in Code!Models
                          /\ codeRuns[t].stop \in BOOLEAN /\ codeRuns[t].submitted \in BOOLEAN
                          /\ codeRuns[t].turn \in Sends \cup {NoSend}
      /\ 0 \in Code!Gens /\ 0 \notin Code!Generations
      /\ \A h \in Code!Gens : h # 0 => h \in Code!Generations
    BY <1>a, CodeFields
<1>e1. codeHalting.at = "closing" /\ Code!Gone(codeHalting.gen)
    BY  DEF Code!Halted
<1>e2. /\ codeOwner' \in Code!Owners
       /\ codeOwner'.connection = codeOwner.connection /\ codeOwner'.stored = codeOwner.stored /\ codeOwner'.overtaken = codeOwner.overtaken
    BY <1>a DEF Code!Halted, Code!OwnerOK, Code!Owners
<1>e3. /\ codeHalting' \in Code!FailJobs /\ codeHalting'.at = "none" /\ codeHalting'.gen = 0
    BY CodeConstants DEF Code!Halted, Code!Nothing, Code!Job, Code!FailJobs, Code!Gens
<1>1. Code!RowsOK'
    BY <1>a, <1>u DEF Code!RowsOK
<1>2. Code!OwnerOK'
    BY <1>a, <1>u, <1>k, <1>e1, <1>e2, <1>e3 DEF Code!OwnerOK
<1>3. Code!JobsOK'
    BY <1>a, <1>u, <1>k, <1>e1, <1>e2, <1>e3 DEF Code!JobsOK
<1>4. Code!NativeOK'
    BY <1>a, <1>u DEF Code!NativeOK
<1>5. Code!LeftOK'
    BY <1>a, <1>u DEF Code!LeftOK, Code!Kinds
<1>6. Code!FreshOK'
    BY <1>a, <1>u DEF Code!FreshOK
<1>7. Code!NamesOK'
    BY <1>a, <1>u, <1>k, <1>e1, <1>e2, <1>e3 DEF Code!NamesOK, Code!Named
<1>8. Code!StagesOK'
    BY <1>a, <1>u, <1>k, <1>e1, <1>e2, <1>e3 DEF Code!StagesOK, Code!Deleted
<1>9. Code!OneOpens'
    BY <1>a, <1>u, <1>k, <1>e1, <1>e2, <1>e3 DEF Code!OneOpens, Code!Opening, Code!Accepting,
        Code!Running, Code!At
<1>10. Code!AllHeld'
    BY <1>a, <1>u, <1>k, <1>e1, <1>e2, <1>e3 DEF Code!AllHeld, Code!IsHeld, Code!ClosesIt,
        Code!Exists, Code!Gone
<1>11. Code!ShutOK'
    BY <1>a, <1>u, <1>k, <1>e1, <1>e2, <1>e3 DEF Code!ShutOK, Code!InUse, Code!At, Code!Exists,
        Code!Deleted
<1>p. ASSUME NEW t \in Sends PROVE Code!TurnSane(t)' /\ Code!RunSane(t)' /\ Code!JobSane(t)' /\ Code!HeardSane(t)'
    <2>1. Code!TurnSane(t)'
        BY <1>a, <1>u DEF Code!TurnSane, Code!NoTurn
    <2>2. Code!RunSane(t)'
        BY <1>a, <1>u DEF Code!RunSane, Code!Deleted
    <2>3. Code!JobSane(t)'
        BY <1>a, <1>u DEF Code!JobSane, Code!Unsubmitted, Code!At, Code!Deleted
    <2>4. Code!HeardSane(t)'
        BY <1>a, <1>u, <1>k, <1>e1, <1>e2, <1>e3 DEF Code!HeardSane, Code!Unheard, Code!Running,
            Code!At, Code!Deleted
    <2> QED
        BY <2>1, <2>2, <2>3, <2>4
<1>w. \A t \in Sends : Code!WantedStart(t)
    BY <1>u DEF Code!WantedStart
<1>q. Code!IInv'
    BY <1>1, <1>2, <1>3, <1>4, <1>5, <1>6, <1>7, <1>8, <1>9, <1>10, <1>11, <1>p, CodeWhole
<1> QED
    BY <1>q, <1>w

LEMMA CodeNativeTurnKeeps ==
    ASSUME Code!IInv, NEW s \in Sends, Code!NativeTurn(s)
    PROVE  Code!IInv' /\ \A t \in Sends : Code!WantedStart(t)
<1>a. /\ Code!RowsOK /\ Code!OwnerOK /\ Code!JobsOK /\ Code!NativeOK /\ Code!LeftOK
      /\ Code!FreshOK /\ Code!NamesOK /\ Code!StagesOK /\ Code!OneOpens /\ Code!AllHeld /\ Code!ShutOK
      /\ \A t \in Sends : Code!TurnSane(t) /\ Code!RunSane(t) /\ Code!JobSane(t) /\ Code!HeardSane(t)
    BY CodeParts
<1>u. UNCHANGED <<codeSession, codeRuns, codeLatest, codeFresh, codeOwner, codeCalls, codeWork, codeFails, codeInterrupts, codeDeletion, codeHalting, codeService, codeProcess, codeHistory, codeLeft>>
    BY DEF Code!NativeTurn, Code!rows, Code!jobs
<1>k. /\ codeOwner.connection \in Code!Gens /\ codeOwner.stored \in BOOLEAN
      /\ codeOwner.overtaken \in BOOLEAN /\ codeOwner.finished \in BOOLEAN
      /\ codeSession.model \in Code!Models /\ codeSession.thread \in BOOLEAN
      /\ codeDeletion.gen \in Code!Gens /\ codeService.gen \in Code!Gens /\ codeHalting.gen \in Code!Gens
      /\ \A t \in Sends : /\ codeWork[t].gen \in Code!Gens /\ codeFails[t].gen \in Code!Gens
                          /\ codeInterrupts[t].gen \in Code!Gens /\ codeTurns[t].gen \in Code!Gens
                          /\ codeTurns[t].asked \in Nat /\ codeRuns[t].model \in Code!Models
                          /\ codeRuns[t].stop \in BOOLEAN /\ codeRuns[t].submitted \in BOOLEAN
                          /\ codeRuns[t].turn \in Sends \cup {NoSend}
      /\ 0 \in Code!Gens /\ 0 \notin Code!Generations
      /\ \A h \in Code!Gens : h # 0 => h \in Code!Generations
    BY <1>a, CodeFields
<1>e1. /\ codeTurns' \in [Sends -> Code!NativeTurns]
       /\ \A t \in Sends : codeTurns'[t].gen = codeTurns[t].gen /\ codeTurns'[t].asked = codeTurns[t].asked
       /\ \A t \in Sends : t # s => codeTurns'[t] = codeTurns[t]
       /\ codeTurns[s].at \in {"asked", "running"} /\ codeTurns'[s].at \in {"running", "completed"}
    BY <1>a DEF Code!NativeTurn, Code!NativeOK, Code!NativeTurns
<1>1. Code!RowsOK'
    BY <1>a, <1>u DEF Code!RowsOK
<1>2. Code!OwnerOK'
    BY <1>a, <1>u DEF Code!OwnerOK
<1>3. Code!JobsOK'
    BY <1>a, <1>u DEF Code!JobsOK
<1>4. Code!NativeOK'
    BY <1>a, <1>u, <1>k, <1>e1 DEF Code!NativeOK
<1>5. Code!LeftOK'
    BY <1>a, <1>u DEF Code!LeftOK, Code!Kinds
<1>6. Code!FreshOK'
    BY <1>a, <1>u DEF Code!FreshOK
<1>7. Code!NamesOK'
    BY <1>a, <1>u, <1>k, <1>e1 DEF Code!NamesOK, Code!Named
<1>8. Code!StagesOK'
    BY <1>a, <1>u DEF Code!StagesOK, Code!Deleted
<1>9. Code!OneOpens'
    BY <1>a, <1>u DEF Code!OneOpens, Code!Opening, Code!Accepting, Code!Running, Code!At
<1>10. Code!AllHeld'
    BY <1>a, <1>u DEF Code!AllHeld, Code!IsHeld, Code!ClosesIt, Code!Exists
<1>11. Code!ShutOK'
    BY <1>a, <1>u DEF Code!ShutOK, Code!InUse, Code!At, Code!Exists, Code!Deleted
<1>p. ASSUME NEW t \in Sends PROVE Code!TurnSane(t)' /\ Code!RunSane(t)' /\ Code!JobSane(t)' /\ Code!HeardSane(t)'
    <2>1. Code!TurnSane(t)'
        BY <1>a, <1>u, <1>k, <1>e1 DEF Code!TurnSane, Code!NoTurn
    <2>2. Code!RunSane(t)'
        BY <1>a, <1>u, <1>k, <1>e1 DEF Code!RunSane, Code!Deleted
    <2>3. Code!JobSane(t)'
        BY <1>a, <1>u, <1>k, <1>e1 DEF Code!JobSane, Code!Unsubmitted, Code!At, Code!Deleted
    <2>4. Code!HeardSane(t)'
        BY <1>a, <1>u, <1>k, <1>e1 DEF Code!HeardSane, Code!Unheard, Code!Running, Code!At,
            Code!Deleted
    <2> QED
        BY <2>1, <2>2, <2>3, <2>4
<1>w. \A t \in Sends : Code!WantedStart(t)
    BY <1>u DEF Code!WantedStart
<1>q. Code!IInv'
    BY <1>1, <1>2, <1>3, <1>4, <1>5, <1>6, <1>7, <1>8, <1>9, <1>10, <1>11, <1>p, CodeWhole
<1> QED
    BY <1>q, <1>w

LEMMA CodePipeFailsKeeps ==
    ASSUME Code!IInv, NEW g \in Code!Generations, Code!PipeFails(g)
    PROVE  Code!IInv' /\ \A t \in Sends : Code!WantedStart(t)
<1>a. /\ Code!RowsOK /\ Code!OwnerOK /\ Code!JobsOK /\ Code!NativeOK /\ Code!LeftOK
      /\ Code!FreshOK /\ Code!NamesOK /\ Code!StagesOK /\ Code!OneOpens /\ Code!AllHeld /\ Code!ShutOK
      /\ \A t \in Sends : Code!TurnSane(t) /\ Code!RunSane(t) /\ Code!JobSane(t) /\ Code!HeardSane(t)
    BY CodeParts
<1>u. UNCHANGED <<codeSession, codeRuns, codeLatest, codeFresh, codeOwner, codeCalls, codeWork, codeFails, codeInterrupts, codeDeletion, codeHalting, codeService, codeHistory, codeTurns>>
    BY DEF Code!PipeFails, Code!rows, Code!jobs
<1>k. /\ codeOwner.connection \in Code!Gens /\ codeOwner.stored \in BOOLEAN
      /\ codeOwner.overtaken \in BOOLEAN /\ codeOwner.finished \in BOOLEAN
      /\ codeSession.model \in Code!Models /\ codeSession.thread \in BOOLEAN
      /\ codeDeletion.gen \in Code!Gens /\ codeService.gen \in Code!Gens /\ codeHalting.gen \in Code!Gens
      /\ \A t \in Sends : /\ codeWork[t].gen \in Code!Gens /\ codeFails[t].gen \in Code!Gens
                          /\ codeInterrupts[t].gen \in Code!Gens /\ codeTurns[t].gen \in Code!Gens
                          /\ codeTurns[t].asked \in Nat /\ codeRuns[t].model \in Code!Models
                          /\ codeRuns[t].stop \in BOOLEAN /\ codeRuns[t].submitted \in BOOLEAN
                          /\ codeRuns[t].turn \in Sends \cup {NoSend}
      /\ 0 \in Code!Gens /\ 0 \notin Code!Generations
      /\ \A h \in Code!Gens : h # 0 => h \in Code!Generations
    BY <1>a, CodeFields
<1>e1. /\ codeProcess' \in [Code!Generations -> {"none", "alive", "silent", "gone"}]
       /\ codeProcess[g] = "alive" /\ codeProcess'[g] = "silent"
       /\ \A h \in Code!Generations : h # g => codeProcess'[h] = codeProcess[h]
    BY <1>a DEF Code!PipeFails, Code!NativeOK
<1>e2. Code!LeftOK'
    BY <1>a DEF Code!PipeFails, Code!Spend, Code!Fault, Code!LeftOK, Code!Kinds
<1>1. Code!RowsOK'
    BY <1>a, <1>u DEF Code!RowsOK
<1>2. Code!OwnerOK'
    BY <1>a, <1>u DEF Code!OwnerOK
<1>3. Code!JobsOK'
    BY <1>a, <1>u DEF Code!JobsOK
<1>4. Code!NativeOK'
    BY <1>a, <1>u, <1>k, <1>e1, <1>e2 DEF Code!NativeOK
<1>5. Code!LeftOK'
    BY <1>e1, <1>e2
<1>6. Code!FreshOK'
    BY <1>a, <1>u DEF Code!FreshOK
<1>7. Code!NamesOK'
    BY <1>a, <1>u, <1>k, <1>e1, <1>e2 DEF Code!NamesOK, Code!Named, Code!Generations
<1>8. Code!StagesOK'
    BY <1>a, <1>u DEF Code!StagesOK, Code!Deleted
<1>9. Code!OneOpens'
    BY <1>a, <1>u DEF Code!OneOpens, Code!Opening, Code!Accepting, Code!Running, Code!At
<1>10. Code!AllHeld'
    BY <1>a, <1>u, <1>k, <1>e1, <1>e2 DEF Code!AllHeld, Code!IsHeld, Code!ClosesIt, Code!Exists
<1>11. Code!ShutOK'
    BY <1>a, <1>u, <1>k, <1>e1, <1>e2 DEF Code!ShutOK, Code!InUse, Code!At, Code!Exists,
        Code!Deleted
<1>p. ASSUME NEW t \in Sends PROVE Code!TurnSane(t)' /\ Code!RunSane(t)' /\ Code!JobSane(t)' /\ Code!HeardSane(t)'
    <2>1. Code!TurnSane(t)'
        BY <1>a, <1>u DEF Code!TurnSane, Code!NoTurn
    <2>2. Code!RunSane(t)'
        BY <1>a, <1>u DEF Code!RunSane, Code!Deleted
    <2>3. Code!JobSane(t)'
        BY <1>a, <1>u DEF Code!JobSane, Code!Unsubmitted, Code!At, Code!Deleted
    <2>4. Code!HeardSane(t)'
        BY <1>a, <1>u DEF Code!HeardSane, Code!Unheard, Code!Running, Code!At, Code!Deleted
    <2> QED
        BY <2>1, <2>2, <2>3, <2>4
<1>w. \A t \in Sends : Code!WantedStart(t)
    BY <1>u DEF Code!WantedStart
<1>q. Code!IInv'
    BY <1>1, <1>2, <1>3, <1>4, <1>5, <1>6, <1>7, <1>8, <1>9, <1>10, <1>11, <1>p, CodeWhole
<1> QED
    BY <1>q, <1>w

LEMMA CodeReapedKeeps ==
    ASSUME Code!IInv, NEW g \in Code!Generations, Code!Reaped(g)
    PROVE  Code!IInv' /\ \A t \in Sends : Code!WantedStart(t)
<1>a. /\ Code!RowsOK /\ Code!OwnerOK /\ Code!JobsOK /\ Code!NativeOK /\ Code!LeftOK
      /\ Code!FreshOK /\ Code!NamesOK /\ Code!StagesOK /\ Code!OneOpens /\ Code!AllHeld /\ Code!ShutOK
      /\ \A t \in Sends : Code!TurnSane(t) /\ Code!RunSane(t) /\ Code!JobSane(t) /\ Code!HeardSane(t)
    BY CodeParts
<1>u. UNCHANGED <<codeSession, codeRuns, codeLatest, codeFresh, codeOwner, codeCalls, codeWork, codeFails, codeInterrupts, codeDeletion, codeHalting, codeService, codeHistory, codeTurns, codeLeft>>
    BY DEF Code!Reaped, Code!rows, Code!jobs
<1>k. /\ codeOwner.connection \in Code!Gens /\ codeOwner.stored \in BOOLEAN
      /\ codeOwner.overtaken \in BOOLEAN /\ codeOwner.finished \in BOOLEAN
      /\ codeSession.model \in Code!Models /\ codeSession.thread \in BOOLEAN
      /\ codeDeletion.gen \in Code!Gens /\ codeService.gen \in Code!Gens /\ codeHalting.gen \in Code!Gens
      /\ \A t \in Sends : /\ codeWork[t].gen \in Code!Gens /\ codeFails[t].gen \in Code!Gens
                          /\ codeInterrupts[t].gen \in Code!Gens /\ codeTurns[t].gen \in Code!Gens
                          /\ codeTurns[t].asked \in Nat /\ codeRuns[t].model \in Code!Models
                          /\ codeRuns[t].stop \in BOOLEAN /\ codeRuns[t].submitted \in BOOLEAN
                          /\ codeRuns[t].turn \in Sends \cup {NoSend}
      /\ 0 \in Code!Gens /\ 0 \notin Code!Generations
      /\ \A h \in Code!Gens : h # 0 => h \in Code!Generations
    BY <1>a, CodeFields
<1>e1. /\ codeProcess' \in [Code!Generations -> {"none", "alive", "silent", "gone"}]
       /\ codeProcess[g] \in {"alive", "silent"} /\ codeProcess'[g] = "gone"
       /\ \A h \in Code!Generations : h # g => codeProcess'[h] = codeProcess[h]
    BY <1>a DEF Code!Reaped, Code!Exists, Code!NativeOK
<1>1. Code!RowsOK'
    BY <1>a, <1>u DEF Code!RowsOK
<1>2. Code!OwnerOK'
    BY <1>a, <1>u DEF Code!OwnerOK
<1>3. Code!JobsOK'
    BY <1>a, <1>u DEF Code!JobsOK
<1>4. Code!NativeOK'
    BY <1>a, <1>u, <1>k, <1>e1 DEF Code!NativeOK
<1>5. Code!LeftOK'
    BY <1>a, <1>u DEF Code!LeftOK, Code!Kinds
<1>6. Code!FreshOK'
    BY <1>a, <1>u DEF Code!FreshOK
<1>7. Code!NamesOK'
    BY <1>a, <1>u, <1>k, <1>e1 DEF Code!NamesOK, Code!Named
<1>8. Code!StagesOK'
    BY <1>a, <1>u DEF Code!StagesOK, Code!Deleted
<1>9. Code!OneOpens'
    BY <1>a, <1>u DEF Code!OneOpens, Code!Opening, Code!Accepting, Code!Running, Code!At
<1>10. Code!AllHeld'
    BY <1>a, <1>u, <1>k, <1>e1 DEF Code!AllHeld, Code!IsHeld, Code!ClosesIt, Code!Exists
<1>11. Code!ShutOK'
    BY <1>a, <1>u, <1>k, <1>e1 DEF Code!ShutOK, Code!InUse, Code!At, Code!Exists, Code!Deleted
<1>p. ASSUME NEW t \in Sends PROVE Code!TurnSane(t)' /\ Code!RunSane(t)' /\ Code!JobSane(t)' /\ Code!HeardSane(t)'
    <2>1. Code!TurnSane(t)'
        BY <1>a, <1>u DEF Code!TurnSane, Code!NoTurn
    <2>2. Code!RunSane(t)'
        BY <1>a, <1>u DEF Code!RunSane, Code!Deleted
    <2>3. Code!JobSane(t)'
        BY <1>a, <1>u DEF Code!JobSane, Code!Unsubmitted, Code!At, Code!Deleted
    <2>4. Code!HeardSane(t)'
        BY <1>a, <1>u DEF Code!HeardSane, Code!Unheard, Code!Running, Code!At, Code!Deleted
    <2> QED
        BY <2>1, <2>2, <2>3, <2>4
<1>w. \A t \in Sends : Code!WantedStart(t)
    BY <1>u DEF Code!WantedStart
<1>q. Code!IInv'
    BY <1>1, <1>2, <1>3, <1>4, <1>5, <1>6, <1>7, <1>8, <1>9, <1>10, <1>11, <1>p, CodeWhole
<1> QED
    BY <1>q, <1>w

LEMMA CodeBeginShutdownKeeps ==
    ASSUME Code!IInv, Code!BeginShutdown
    PROVE  Code!IInv' /\ \A t \in Sends : Code!WantedStart(t)
<1>a. /\ Code!RowsOK /\ Code!OwnerOK /\ Code!JobsOK /\ Code!NativeOK /\ Code!LeftOK
      /\ Code!FreshOK /\ Code!NamesOK /\ Code!StagesOK /\ Code!OneOpens /\ Code!AllHeld /\ Code!ShutOK
      /\ \A t \in Sends : Code!TurnSane(t) /\ Code!RunSane(t) /\ Code!JobSane(t) /\ Code!HeardSane(t)
    BY CodeParts
<1>u. UNCHANGED <<codeSession, codeRuns, codeLatest, codeFresh, codeOwner, codeCalls, codeWork, codeFails, codeInterrupts, codeDeletion, codeHalting, codeProcess, codeHistory, codeTurns>>
    BY DEF Code!BeginShutdown, Code!rows, Code!jobs, Code!native
<1>k. /\ codeOwner.connection \in Code!Gens /\ codeOwner.stored \in BOOLEAN
      /\ codeOwner.overtaken \in BOOLEAN /\ codeOwner.finished \in BOOLEAN
      /\ codeSession.model \in Code!Models /\ codeSession.thread \in BOOLEAN
      /\ codeDeletion.gen \in Code!Gens /\ codeService.gen \in Code!Gens /\ codeHalting.gen \in Code!Gens
      /\ \A t \in Sends : /\ codeWork[t].gen \in Code!Gens /\ codeFails[t].gen \in Code!Gens
                          /\ codeInterrupts[t].gen \in Code!Gens /\ codeTurns[t].gen \in Code!Gens
                          /\ codeTurns[t].asked \in Nat /\ codeRuns[t].model \in Code!Models
                          /\ codeRuns[t].stop \in BOOLEAN /\ codeRuns[t].submitted \in BOOLEAN
                          /\ codeRuns[t].turn \in Sends \cup {NoSend}
      /\ 0 \in Code!Gens /\ 0 \notin Code!Generations
      /\ \A h \in Code!Gens : h # 0 => h \in Code!Generations
    BY <1>a, CodeFields
<1>e1. /\ codeService.mode = "up" /\ codeService' \in Code!Services /\ codeService'.mode = "stopping" /\ codeService'.step = 1
       /\ codeService'.gen = 0
    BY CodeConstants DEF Code!BeginShutdown, Code!Accepting, Code!Services, Code!Gens
<1>e2. Code!LeftOK'
    BY <1>a DEF Code!BeginShutdown, Code!Spend, Code!Fault, Code!LeftOK, Code!Kinds
<1>1. Code!RowsOK'
    BY <1>a, <1>u DEF Code!RowsOK
<1>2. Code!OwnerOK'
    BY <1>a, <1>u, <1>k, <1>e1, <1>e2 DEF Code!OwnerOK
<1>3. Code!JobsOK'
    BY <1>a, <1>u DEF Code!JobsOK
<1>4. Code!NativeOK'
    BY <1>a, <1>u DEF Code!NativeOK
<1>5. Code!LeftOK'
    BY <1>e1, <1>e2
<1>6. Code!FreshOK'
    BY <1>a, <1>u DEF Code!FreshOK
<1>7. Code!NamesOK'
    BY <1>a, <1>u, <1>k, <1>e1, <1>e2 DEF Code!NamesOK, Code!Named
<1>8. Code!StagesOK'
    BY <1>a, <1>u, <1>k, <1>e1, <1>e2 DEF Code!StagesOK, Code!Deleted
<1>9. Code!OneOpens'
    BY <1>a, <1>u, <1>k, <1>e1, <1>e2 DEF Code!OneOpens, Code!Opening, Code!Accepting,
        Code!Running, Code!At
<1>10. Code!AllHeld'
    BY <1>a, <1>u, <1>k, <1>e1, <1>e2 DEF Code!AllHeld, Code!IsHeld, Code!ClosesIt, Code!Exists,
        Code!StagesOK
<1>11. Code!ShutOK'
    BY <1>a, <1>u, <1>k, <1>e1, <1>e2 DEF Code!ShutOK, Code!InUse, Code!At, Code!Exists,
        Code!Deleted
<1>p. ASSUME NEW t \in Sends PROVE Code!TurnSane(t)' /\ Code!RunSane(t)' /\ Code!JobSane(t)' /\ Code!HeardSane(t)'
    <2>1. Code!TurnSane(t)'
        BY <1>a, <1>u DEF Code!TurnSane, Code!NoTurn
    <2>2. Code!RunSane(t)'
        BY <1>a, <1>u DEF Code!RunSane, Code!Deleted
    <2>3. Code!JobSane(t)'
        BY <1>a, <1>u DEF Code!JobSane, Code!Unsubmitted, Code!At, Code!Deleted
    <2>4. Code!HeardSane(t)'
        BY <1>a, <1>u, <1>k, <1>e1, <1>e2 DEF Code!HeardSane, Code!Unheard, Code!Running,
            Code!At, Code!Deleted
    <2> QED
        BY <2>1, <2>2, <2>3, <2>4
<1>w. \A t \in Sends : Code!WantedStart(t)
    BY <1>u DEF Code!WantedStart
<1>q. Code!IInv'
    BY <1>1, <1>2, <1>3, <1>4, <1>5, <1>6, <1>7, <1>8, <1>9, <1>10, <1>11, <1>p, CodeWhole
<1> QED
    BY <1>q, <1>w

LEMMA CodeShutdownEndsKeeps ==
    ASSUME Code!IInv, Code!ShutdownEnds
    PROVE  Code!IInv' /\ \A t \in Sends : Code!WantedStart(t)
<1>a. /\ Code!RowsOK /\ Code!OwnerOK /\ Code!JobsOK /\ Code!NativeOK /\ Code!LeftOK
      /\ Code!FreshOK /\ Code!NamesOK /\ Code!StagesOK /\ Code!OneOpens /\ Code!AllHeld /\ Code!ShutOK
      /\ \A t \in Sends : Code!TurnSane(t) /\ Code!RunSane(t) /\ Code!JobSane(t) /\ Code!HeardSane(t)
    BY CodeParts
<1>u. UNCHANGED <<codeSession, codeRuns, codeLatest, codeFresh, codeOwner, codeCalls, codeWork, codeFails, codeInterrupts, codeDeletion, codeHalting, codeProcess, codeHistory, codeTurns, codeLeft>>
    BY DEF Code!ShutdownEnds, Code!rows, Code!jobs, Code!native
<1>k. /\ codeOwner.connection \in Code!Gens /\ codeOwner.stored \in BOOLEAN
      /\ codeOwner.overtaken \in BOOLEAN /\ codeOwner.finished \in BOOLEAN
      /\ codeSession.model \in Code!Models /\ codeSession.thread \in BOOLEAN
      /\ codeDeletion.gen \in Code!Gens /\ codeService.gen \in Code!Gens /\ codeHalting.gen \in Code!Gens
      /\ \A t \in Sends : /\ codeWork[t].gen \in Code!Gens /\ codeFails[t].gen \in Code!Gens
                          /\ codeInterrupts[t].gen \in Code!Gens /\ codeTurns[t].gen \in Code!Gens
                          /\ codeTurns[t].asked \in Nat /\ codeRuns[t].model \in Code!Models
                          /\ codeRuns[t].stop \in BOOLEAN /\ codeRuns[t].submitted \in BOOLEAN
                          /\ codeRuns[t].turn \in Sends \cup {NoSend}
      /\ 0 \in Code!Gens /\ 0 \notin Code!Generations
      /\ \A h \in Code!Gens : h # 0 => h \in Code!Generations
    BY <1>a, CodeFields
<1>e1. /\ codeService.mode = "stopping" /\ codeService.step = 4
       /\ \A t \in Sends : codeWork[t].at = "none" /\ codeFails[t].at = "none" /\ codeInterrupts[t].at \notin {"asking", "closing"}
       /\ codeHalting.at = "none" /\ codeDeletion.at = "none"
       /\ codeService' \in Code!Services /\ codeService'.mode = "down" /\ codeService'.step = 4 /\ codeService'.gen = codeService.gen
    BY <1>a DEF Code!ShutdownEnds, Code!Step, Code!OwnerOK, Code!Services
<1>1. Code!RowsOK'
    BY <1>a, <1>u DEF Code!RowsOK
<1>2. Code!OwnerOK'
    BY <1>a, <1>u, <1>k, <1>e1 DEF Code!OwnerOK
<1>3. Code!JobsOK'
    BY <1>a, <1>u DEF Code!JobsOK
<1>4. Code!NativeOK'
    BY <1>a, <1>u DEF Code!NativeOK
<1>5. Code!LeftOK'
    BY <1>a, <1>u DEF Code!LeftOK, Code!Kinds
<1>6. Code!FreshOK'
    BY <1>a, <1>u DEF Code!FreshOK
<1>7. Code!NamesOK'
    BY <1>a, <1>u, <1>k, <1>e1 DEF Code!NamesOK, Code!Named
<1>8. Code!StagesOK'
    BY <1>a, <1>u, <1>k, <1>e1 DEF Code!StagesOK, Code!Deleted
<1>9. Code!OneOpens'
    BY <1>a, <1>u, <1>k, <1>e1 DEF Code!OneOpens, Code!Opening, Code!Accepting, Code!Running,
        Code!At
<1>10. Code!AllHeld'
    BY <1>a, <1>u, <1>k, <1>e1 DEF Code!AllHeld, Code!IsHeld, Code!ClosesIt, Code!Exists
<1>11. Code!ShutOK'
    BY <1>a, <1>u, <1>k, <1>e1 DEF Code!ShutOK, Code!InUse, Code!At, Code!Exists, Code!Deleted,
        Code!AllHeld, Code!IsHeld, Code!ClosesIt
<1>p. ASSUME NEW t \in Sends PROVE Code!TurnSane(t)' /\ Code!RunSane(t)' /\ Code!JobSane(t)' /\ Code!HeardSane(t)'
    <2>1. Code!TurnSane(t)'
        BY <1>a, <1>u DEF Code!TurnSane, Code!NoTurn
    <2>2. Code!RunSane(t)'
        BY <1>a, <1>u DEF Code!RunSane, Code!Deleted
    <2>3. Code!JobSane(t)'
        BY <1>a, <1>u DEF Code!JobSane, Code!Unsubmitted, Code!At, Code!Deleted
    <2>4. Code!HeardSane(t)'
        BY <1>a, <1>u, <1>k, <1>e1 DEF Code!HeardSane, Code!Unheard, Code!Running, Code!At,
            Code!Deleted
    <2> QED
        BY <2>1, <2>2, <2>3, <2>4
<1>w. \A t \in Sends : Code!WantedStart(t)
    BY <1>u DEF Code!WantedStart
<1>q. Code!IInv'
    BY <1>1, <1>2, <1>3, <1>4, <1>5, <1>6, <1>7, <1>8, <1>9, <1>10, <1>11, <1>p, CodeWhole
<1> QED
    BY <1>q, <1>w

LEMMA CodeDeleteKeeps ==
    ASSUME Code!IInv, Code!Delete
    PROVE  Code!IInv' /\ \A t \in Sends : Code!WantedStart(t)
<1>a. /\ Code!RowsOK /\ Code!OwnerOK /\ Code!JobsOK /\ Code!NativeOK /\ Code!LeftOK
      /\ Code!FreshOK /\ Code!NamesOK /\ Code!StagesOK /\ Code!OneOpens /\ Code!AllHeld /\ Code!ShutOK
      /\ \A t \in Sends : Code!TurnSane(t) /\ Code!RunSane(t) /\ Code!JobSane(t) /\ Code!HeardSane(t)
    BY CodeParts
<1>u. UNCHANGED <<codeRuns, codeLatest, codeCalls, codeWork, codeFails, codeInterrupts, codeHalting, codeService, codeProcess, codeHistory, codeTurns>>
    BY DEF Code!Delete, Code!native
<1>k. /\ codeOwner.connection \in Code!Gens /\ codeOwner.stored \in BOOLEAN
      /\ codeOwner.overtaken \in BOOLEAN /\ codeOwner.finished \in BOOLEAN
      /\ codeSession.model \in Code!Models /\ codeSession.thread \in BOOLEAN
      /\ codeDeletion.gen \in Code!Gens /\ codeService.gen \in Code!Gens /\ codeHalting.gen \in Code!Gens
      /\ \A t \in Sends : /\ codeWork[t].gen \in Code!Gens /\ codeFails[t].gen \in Code!Gens
                          /\ codeInterrupts[t].gen \in Code!Gens /\ codeTurns[t].gen \in Code!Gens
                          /\ codeTurns[t].asked \in Nat /\ codeRuns[t].model \in Code!Models
                          /\ codeRuns[t].stop \in BOOLEAN /\ codeRuns[t].submitted \in BOOLEAN
                          /\ codeRuns[t].turn \in Sends \cup {NoSend}
      /\ 0 \in Code!Gens /\ 0 \notin Code!Generations
      /\ \A h \in Code!Gens : h # 0 => h \in Code!Generations
    BY <1>a, CodeFields
<1>e1. /\ codeDeletion.at = "none" /\ codeService.mode = "up" /\ codeOwner.stored /\ ~Code!Busy
       /\ codeSession.status \in {"ready", "delete_uncertain"}
       /\ codeFresh' = {}
       /\ codeSession' \in Code!SessionRows /\ codeSession'.status \in {"deleting", "delete_uncertain"}
    BY <1>a DEF Code!Delete, Code!Accepting, Code!RowsOK, Code!SessionRows
<1>e2. /\ codeDeletion' \in Code!Deletions /\ codeDeletion'.at = "opening" /\ codeDeletion'.gen = 0
    BY CodeConstants DEF Code!Delete, Code!Deletions, Code!Gens
<1>e3. /\ codeOwner' \in Code!Owners
       /\ codeOwner'.connection = codeOwner.connection /\ codeOwner'.stored = codeOwner.stored /\ codeOwner'.overtaken = codeOwner.overtaken
    BY <1>a DEF Code!Delete, Code!OwnerOK, Code!Owners
<1>e4. Code!LeftOK'
    BY <1>a DEF Code!Delete, Code!Spend, Code!Fault, Code!LeftOK, Code!Kinds
<1>1. Code!RowsOK'
    BY <1>a, <1>u, <1>k, <1>e1, <1>e2, <1>e3, <1>e4 DEF Code!RowsOK
<1>2. Code!OwnerOK'
    BY <1>a, <1>u, <1>k, <1>e1, <1>e2, <1>e3, <1>e4 DEF Code!OwnerOK
<1>3. Code!JobsOK'
    BY <1>a, <1>u, <1>k, <1>e1, <1>e2, <1>e3, <1>e4 DEF Code!JobsOK
<1>4. Code!NativeOK'
    BY <1>a, <1>u DEF Code!NativeOK
<1>5. Code!LeftOK'
    BY <1>e1, <1>e2, <1>e3, <1>e4
<1>6. Code!FreshOK'
    BY <1>a, <1>u, <1>k, <1>e1, <1>e2, <1>e3, <1>e4 DEF Code!FreshOK
<1>7. Code!NamesOK'
    BY <1>a, <1>u, <1>k, <1>e1, <1>e2, <1>e3, <1>e4 DEF Code!NamesOK, Code!Named
<1>8. Code!StagesOK'
    BY <1>a, <1>u, <1>k, <1>e1, <1>e2, <1>e3, <1>e4 DEF Code!StagesOK, Code!Deleted
<1>9. Code!OneOpens'
    BY <1>a, <1>u, <1>k, <1>e1, <1>e2, <1>e3, <1>e4 DEF Code!OneOpens, Code!Opening,
        Code!Accepting, Code!Running, Code!At, Code!Busy
<1>10. Code!AllHeld'
    BY <1>a, <1>u, <1>k, <1>e1, <1>e2, <1>e3, <1>e4 DEF Code!AllHeld, Code!IsHeld,
        Code!ClosesIt, Code!Exists
<1>11. Code!ShutOK'
    BY <1>a, <1>u, <1>k, <1>e1, <1>e2, <1>e3, <1>e4 DEF Code!ShutOK, Code!InUse, Code!At,
        Code!Exists, Code!Deleted
<1>p. ASSUME NEW t \in Sends PROVE Code!TurnSane(t)' /\ Code!RunSane(t)' /\ Code!JobSane(t)' /\ Code!HeardSane(t)'
    <2>1. Code!TurnSane(t)'
        BY <1>a, <1>u DEF Code!TurnSane, Code!NoTurn
    <2>2. Code!RunSane(t)'
        BY <1>a, <1>u, <1>k, <1>e1, <1>e2, <1>e3, <1>e4 DEF Code!RunSane, Code!Deleted
    <2>3. Code!JobSane(t)'
        BY <1>a, <1>u, <1>k, <1>e1, <1>e2, <1>e3, <1>e4 DEF Code!JobSane, Code!Unsubmitted,
            Code!At, Code!Deleted
    <2>4. Code!HeardSane(t)'
        BY <1>a, <1>u, <1>k, <1>e1, <1>e2, <1>e3, <1>e4 DEF Code!HeardSane, Code!Unheard,
            Code!Running, Code!At, Code!Deleted
    <2> QED
        BY <2>1, <2>2, <2>3, <2>4
<1>w. \A t \in Sends : Code!WantedStart(t)
    BY <1>u DEF Code!WantedStart
<1>q. Code!IInv'
    BY <1>1, <1>2, <1>3, <1>4, <1>5, <1>6, <1>7, <1>8, <1>9, <1>10, <1>11, <1>p, CodeWhole
<1> QED
    BY <1>q, <1>w

LEMMA CodeAdmitKeeps ==
    ASSUME Code!IInv, NEW c \in Calls, Code!Admit(c)
    PROVE  Code!IInv' /\ \A t \in Sends : Code!WantedStart(t)
<1>a. /\ Code!RowsOK /\ Code!OwnerOK /\ Code!JobsOK /\ Code!NativeOK /\ Code!LeftOK
      /\ Code!FreshOK /\ Code!NamesOK /\ Code!StagesOK /\ Code!OneOpens /\ Code!AllHeld /\ Code!ShutOK
      /\ \A t \in Sends : Code!TurnSane(t) /\ Code!RunSane(t) /\ Code!JobSane(t) /\ Code!HeardSane(t)
    BY CodeParts
<1>u. UNCHANGED <<codeSession, codeFails, codeInterrupts, codeDeletion, codeHalting, codeService, codeProcess, codeHistory, codeTurns, codeLeft>>
    BY DEF Code!Admit, Code!native
<1>k. /\ codeOwner.connection \in Code!Gens /\ codeOwner.stored \in BOOLEAN
      /\ codeOwner.overtaken \in BOOLEAN /\ codeOwner.finished \in BOOLEAN
      /\ codeSession.model \in Code!Models /\ codeSession.thread \in BOOLEAN
      /\ codeDeletion.gen \in Code!Gens /\ codeService.gen \in Code!Gens /\ codeHalting.gen \in Code!Gens
      /\ \A t \in Sends : /\ codeWork[t].gen \in Code!Gens /\ codeFails[t].gen \in Code!Gens
                          /\ codeInterrupts[t].gen \in Code!Gens /\ codeTurns[t].gen \in Code!Gens
                          /\ codeTurns[t].asked \in Nat /\ codeRuns[t].model \in Code!Models
                          /\ codeRuns[t].stop \in BOOLEAN /\ codeRuns[t].submitted \in BOOLEAN
                          /\ codeRuns[t].turn \in Sends \cup {NoSend}
      /\ 0 \in Code!Gens /\ 0 \notin Code!Generations
      /\ \A h \in Code!Gens : h # 0 => h \in Code!Generations
    BY <1>a, CodeFields
<1>e1. PICK s \in Sends : s = OperationOf[c]
    BY CodeConstants
<1>e2. /\ codeCalls[c] # Code!NoModel /\ codeRuns[s].status = "none" /\ codeService.mode = "up" /\ codeOwner.stored
       /\ codeSession.status = "ready" /\ ~Code!Busy
       /\ codeLatest' = s /\ codeFresh' = {} /\ c \in codeFresh /\ codeRuns' = [codeRuns EXCEPT ![s] = Code!NewRun(codeCalls[c])]
    BY <1>e1 DEF Code!Admit, Code!MayAdmit, Code!Sendable, Code!Accepting
<1>e3. /\ codeRuns' \in [Sends -> Code!RunRows] /\ codeRuns'[s].status = "preparing" /\ codeRuns'[s].turn = NoSend
       /\ codeRuns'[s].stop = FALSE /\ codeRuns'[s].submitted = FALSE /\ codeRuns'[s].model = codeCalls[c]
       /\ \A t \in Sends : t # s => codeRuns'[t] = codeRuns[t]
    BY <1>a, <1>e1, <1>e2 DEF Code!Admit, Code!NewRun, Code!RowsOK, Code!RunRows, Code!Statuses,
        Code!Active
<1>e4. /\ codeWork' \in [Sends -> Code!WorkJobs] /\ codeWork'[s].at = "starting" /\ codeWork'[s].gen = 0
       /\ \A t \in Sends : t # s => codeWork'[t] = codeWork[t]
    BY <1>a, <1>e1, CodeConstants DEF Code!Admit, Code!Job, Code!JobsOK, Code!WorkJobs,
        Code!Gens
<1>e5. codeCalls' \in [Calls -> Code!Models \cup {Code!NoModel}]
    BY <1>a DEF Code!Admit, Code!RowsOK
<1>e6. /\ codeOwner' \in Code!Owners
       /\ codeOwner'.connection = codeOwner.connection /\ codeOwner'.stored = codeOwner.stored /\ codeOwner'.overtaken = codeOwner.overtaken
    BY <1>a DEF Code!Admit, Code!OwnerOK, Code!Owners
<1>1. Code!RowsOK'
    BY <1>a, <1>u, <1>k, <1>e1, <1>e2, <1>e3, <1>e4, <1>e5, <1>e6 DEF Code!RowsOK
<1>2. Code!OwnerOK'
    BY <1>a, <1>u, <1>k, <1>e1, <1>e2, <1>e3, <1>e4, <1>e5, <1>e6 DEF Code!OwnerOK
<1>3. Code!JobsOK'
    BY <1>a, <1>u, <1>k, <1>e1, <1>e2, <1>e3, <1>e4, <1>e5, <1>e6 DEF Code!JobsOK
<1>4. Code!NativeOK'
    BY <1>a, <1>u DEF Code!NativeOK
<1>5. Code!LeftOK'
    BY <1>a, <1>u DEF Code!LeftOK, Code!Kinds
<1>6. Code!FreshOK'
    BY <1>a, <1>u, <1>k, <1>e1, <1>e2, <1>e3, <1>e4, <1>e5, <1>e6 DEF Code!FreshOK
<1>7. Code!NamesOK'
    BY <1>a, <1>u, <1>k, <1>e1, <1>e2, <1>e3, <1>e4, <1>e5, <1>e6 DEF Code!NamesOK, Code!Named
<1>8. Code!StagesOK'
    BY <1>a, <1>u, <1>k, <1>e1, <1>e2, <1>e3, <1>e4, <1>e5, <1>e6 DEF Code!StagesOK,
        Code!Deleted
<1>9. Code!OneOpens'
    BY <1>a, <1>u, <1>k, <1>e1, <1>e2, <1>e3, <1>e4, <1>e5, <1>e6 DEF Code!OneOpens,
        Code!Opening, Code!Accepting, Code!Running, Code!At, Code!Busy, Code!StagesOK,
        Code!Active
<1>10. Code!AllHeld'
    BY <1>a, <1>u, <1>k, <1>e1, <1>e2, <1>e3, <1>e4, <1>e5, <1>e6 DEF Code!AllHeld, Code!IsHeld,
        Code!ClosesIt, Code!Exists, Code!JobSane, Code!Deleted, Code!At
<1>11. Code!ShutOK'
    BY <1>a, <1>u, <1>k, <1>e1, <1>e2, <1>e3, <1>e4, <1>e5, <1>e6 DEF Code!ShutOK, Code!InUse,
        Code!At, Code!Exists, Code!Deleted, Code!StagesOK
<1>p. ASSUME NEW t \in Sends PROVE Code!TurnSane(t)' /\ Code!RunSane(t)' /\ Code!JobSane(t)' /\ Code!HeardSane(t)'
    <2>1. Code!TurnSane(t)'
        BY <1>a, <1>u DEF Code!TurnSane, Code!NoTurn
    <2>2. Code!RunSane(t)'
        BY <1>a, <1>u, <1>k, <1>e1, <1>e2, <1>e3, <1>e4, <1>e5, <1>e6 DEF Code!RunSane,
            Code!Deleted, Code!TurnSane
    <2>3. Code!JobSane(t)'
        BY <1>a, <1>u, <1>k, <1>e1, <1>e2, <1>e3, <1>e4, <1>e5, <1>e6 DEF Code!JobSane,
            Code!Unsubmitted, Code!At, Code!Deleted, Code!RunSane, Code!TurnSane, Code!NoTurn
    <2>4. Code!HeardSane(t)'
        BY <1>a, <1>u, <1>k, <1>e1, <1>e2, <1>e3, <1>e4, <1>e5, <1>e6 DEF Code!HeardSane,
            Code!Unheard, Code!Running, Code!At, Code!Deleted, Code!Busy, Code!Active,
            Code!StagesOK, Code!JobSane, Code!RunSane
    <2> QED
        BY <2>1, <2>2, <2>3, <2>4
<1>w. \A t \in Sends : Code!WantedStart(t)
    BY <1>a, <1>e1, <1>e2, <1>e3 DEF Code!WantedStart, Code!FreshOK
<1>q. Code!IInv'
    BY <1>1, <1>2, <1>3, <1>4, <1>5, <1>6, <1>7, <1>8, <1>9, <1>10, <1>11, <1>p, CodeWhole
<1> QED
    BY <1>q, <1>w

LEMMA CodeTurnStartedKeeps ==
    ASSUME Code!IInv, NEW s \in Sends, Code!TurnStarted(s)
    PROVE  Code!IInv' /\ \A t \in Sends : Code!WantedStart(t)
<1>a. /\ Code!RowsOK /\ Code!OwnerOK /\ Code!JobsOK /\ Code!NativeOK /\ Code!LeftOK
      /\ Code!FreshOK /\ Code!NamesOK /\ Code!StagesOK /\ Code!OneOpens /\ Code!AllHeld /\ Code!ShutOK
      /\ \A t \in Sends : Code!TurnSane(t) /\ Code!RunSane(t) /\ Code!JobSane(t) /\ Code!HeardSane(t)
    BY CodeParts
<1>u. UNCHANGED <<codeSession, codeLatest, codeFresh, codeOwner, codeCalls, codeWork, codeFails, codeDeletion, codeHalting, codeService, codeProcess, codeHistory, codeLeft>>
    BY DEF Code!TurnStarted
<1>k. /\ codeOwner.connection \in Code!Gens /\ codeOwner.stored \in BOOLEAN
      /\ codeOwner.overtaken \in BOOLEAN /\ codeOwner.finished \in BOOLEAN
      /\ codeSession.model \in Code!Models /\ codeSession.thread \in BOOLEAN
      /\ codeDeletion.gen \in Code!Gens /\ codeService.gen \in Code!Gens /\ codeHalting.gen \in Code!Gens
      /\ \A t \in Sends : /\ codeWork[t].gen \in Code!Gens /\ codeFails[t].gen \in Code!Gens
                          /\ codeInterrupts[t].gen \in Code!Gens /\ codeTurns[t].gen \in Code!Gens
                          /\ codeTurns[t].asked \in Nat /\ codeRuns[t].model \in Code!Models
                          /\ codeRuns[t].stop \in BOOLEAN /\ codeRuns[t].submitted \in BOOLEAN
                          /\ codeRuns[t].turn \in Sends \cup {NoSend}
      /\ 0 \in Code!Gens /\ 0 \notin Code!Generations
      /\ \A h \in Code!Gens : h # 0 => h \in Code!Generations
    BY <1>a, CodeFields
<1>e1. /\ codeTurns[s].at \notin {"none", "asked"}
       /\ codeTurns' \in [Sends -> Code!NativeTurns]
       /\ \A t \in Sends : codeTurns'[t].at = codeTurns[t].at /\ codeTurns'[t].gen = codeTurns[t].gen /\ codeTurns'[t].asked = codeTurns[t].asked
       /\ \A t \in Sends : t # s => codeTurns'[t] = codeTurns[t]
    BY <1>a DEF Code!TurnStarted, Code!NativeOK, Code!NativeTurns
<1>e2. codeTurns[s].asked = 1 /\ codeTurns[s].gen # 0
    BY <1>a, <1>e1 DEF Code!TurnSane, Code!NoTurn
<1>e3. \/ codeRuns' = codeRuns /\ codeInterrupts' = codeInterrupts
       \/ /\ codeLatest = s /\ codeRuns[s].status \in Code!Active /\ codeOwner.connection = codeTurns[s].gen
          /\ codeRuns' = Code!Bound(s, s) /\ codeInterrupts' = Code!Interrupting(Code!Bound(s, s), s)
    <2>1. CASE /\ Code!Heeds(s) /\ Code!Busy /\ codeRuns[codeLatest].submitted
               /\ \/ codeRuns[codeLatest].turn = s
                  \/ codeRuns[codeLatest].turn = NoSend /\ \A r \in Sends : codeRuns[r].turn # s
        <3>1. PICK l \in Sends : Code!Running(l) /\ l = codeLatest
            BY <2>1 DEF Code!Busy, Code!Running
        <3>2. codeOwner.connection = codeTurns[s].gen /\ codeSession.status # "deleted"
            BY <2>1 DEF Code!Heeds
        <3>3. l = s
            <4>1. CASE codeRuns[l].turn = s
                BY <4>1, <1>a, CodeConstants DEF Code!RunSane
            <4>2. CASE \A r \in Sends : codeRuns[r].turn # s
                BY <4>2, <3>1, <3>2, <1>e2, <1>a DEF Code!HeardSane, Code!Unheard, Code!Deleted,
                    Code!Running
            <4> QED
                BY <2>1, <3>1, <4>1, <4>2
        <3>4. codeRuns' = Code!Bound(codeLatest, s) /\ codeInterrupts' = Code!Interrupting(codeRuns', codeLatest)
            BY <2>1 DEF Code!TurnStarted
        <3> QED
            BY <3>1, <3>2, <3>3, <3>4 DEF Code!Running
    <2>2. CASE ~ (/\ Code!Heeds(s) /\ Code!Busy /\ codeRuns[codeLatest].submitted
                  /\ \/ codeRuns[codeLatest].turn = s
                     \/ codeRuns[codeLatest].turn = NoSend /\ \A r \in Sends : codeRuns[r].turn # s)
        BY <2>2 DEF Code!TurnStarted
    <2> QED
        BY <2>1, <2>2
<1>e4. /\ codeRuns' \in [Sends -> Code!RunRows] /\ codeInterrupts' \in [Sends -> Code!InterruptJobs]
       /\ \A t \in Sends : t # s => codeRuns'[t] = codeRuns[t] /\ codeInterrupts'[t] = codeInterrupts[t]
       /\ \/ codeRuns'[s] = codeRuns[s] /\ codeInterrupts'[s] = codeInterrupts[s]
          \/ /\ codeLatest = s /\ codeRuns[s].status \in Code!Active /\ codeRuns'[s].turn = s
             /\ codeRuns'[s].submitted = codeRuns[s].submitted /\ codeRuns'[s].stop = codeRuns[s].stop
             /\ codeRuns'[s].status = IF codeRuns[s].stop THEN "stopping" ELSE "running"
             /\ \/ codeInterrupts'[s] = codeInterrupts[s]
                \/ codeInterrupts[s].at = "none" /\ codeInterrupts'[s].at = "asking" /\ codeInterrupts'[s].gen = codeOwner.connection
    <2>1. CASE codeRuns' = codeRuns /\ codeInterrupts' = codeInterrupts
        BY <2>1, <1>a DEF Code!RowsOK, Code!JobsOK
    <2>2. CASE /\ codeLatest = s /\ codeRuns[s].status \in Code!Active
               /\ codeRuns' = Code!Bound(s, s) /\ codeInterrupts' = Code!Interrupting(Code!Bound(s, s), s)
        <3>1. PICK rs \in [Sends -> Code!RunRows] : rs = Code!Bound(s, s)
            BY <1>a, CodeBound
        <3>2. codeInterrupts' = Code!Interrupting(rs, s)
            BY <2>2, <3>1
        <3>3. /\ codeInterrupts' \in [Sends -> Code!InterruptJobs]
              /\ \A t \in Sends : t # s => codeInterrupts'[t] = codeInterrupts[t]
              /\ \/ codeInterrupts'[s] = codeInterrupts[s]
                 \/ codeInterrupts[s].at = "none" /\ codeInterrupts'[s].at = "asking" /\ codeInterrupts'[s].gen = codeOwner.connection
            BY <3>2, <1>a, CodeInterrupting
        <3>4. /\ Code!Bound(s, s) \in [Sends -> Code!RunRows] /\ Code!Bound(s, s)[s].turn = s
              /\ Code!Bound(s, s)[s].status = IF codeRuns[s].stop THEN "stopping" ELSE "running"
              /\ Code!Bound(s, s)[s].stop = codeRuns[s].stop
              /\ Code!Bound(s, s)[s].submitted = codeRuns[s].submitted
              /\ \A t \in Sends : t # s => Code!Bound(s, s)[t] = codeRuns[t]
            BY <1>a, CodeBound
        <3> QED
            BY <2>2, <3>3, <3>4
    <2> QED
        BY <1>e3, <2>1, <2>2
<1>1. Code!RowsOK'
    BY <1>a, <1>u, <1>k, <1>e1, <1>e2, <1>e3, <1>e4 DEF Code!RowsOK
<1>2. Code!OwnerOK'
    BY <1>a, <1>u DEF Code!OwnerOK
<1>3. Code!JobsOK'
    BY <1>a, <1>u, <1>k, <1>e1, <1>e2, <1>e3, <1>e4 DEF Code!JobsOK
<1>4. Code!NativeOK'
    BY <1>a, <1>u, <1>k, <1>e1, <1>e2, <1>e3, <1>e4 DEF Code!NativeOK
<1>5. Code!LeftOK'
    BY <1>a, <1>u DEF Code!LeftOK, Code!Kinds
<1>6. Code!FreshOK'
    BY <1>a, <1>u DEF Code!FreshOK
<1>7. Code!NamesOK'
    BY <1>a, <1>u, <1>k, <1>e1, <1>e2, <1>e3, <1>e4 DEF Code!NamesOK, Code!Named
<1>8. Code!StagesOK'
    BY <1>a, <1>u DEF Code!StagesOK, Code!Deleted
<1>9. Code!OneOpens'
    BY <1>a, <1>u, <1>k, <1>e1, <1>e2, <1>e3, <1>e4 DEF Code!OneOpens, Code!Opening,
        Code!Accepting, Code!Running, Code!At, Code!Active
<1>10. Code!AllHeld'
    BY <1>a, <1>u, <1>k, <1>e1, <1>e2, <1>e3, <1>e4 DEF Code!AllHeld, Code!IsHeld,
        Code!ClosesIt, Code!Exists
<1>11. Code!ShutOK'
    BY <1>a, <1>u DEF Code!ShutOK, Code!InUse, Code!At, Code!Exists, Code!Deleted
<1>p. ASSUME NEW t \in Sends PROVE Code!TurnSane(t)' /\ Code!RunSane(t)' /\ Code!JobSane(t)' /\ Code!HeardSane(t)'
    <2>1. Code!TurnSane(t)'
        BY <1>a, <1>u, <1>k, <1>e1, <1>e2, <1>e3, <1>e4 DEF Code!TurnSane, Code!NoTurn
    <2>2. Code!RunSane(t)'
        BY <1>a, <1>u, <1>k, <1>e1, <1>e2, <1>e3, <1>e4 DEF Code!RunSane, Code!Deleted,
            Code!Active
    <2>3. Code!JobSane(t)'
        BY <1>a, <1>u, <1>k, <1>e1, <1>e2, <1>e3, <1>e4 DEF Code!JobSane, Code!Unsubmitted,
            Code!At, Code!Deleted
    <2>4. Code!HeardSane(t)'
        BY <1>a, <1>u, <1>k, <1>e1, <1>e2, <1>e3, <1>e4 DEF Code!HeardSane, Code!Unheard,
            Code!Running, Code!At, Code!Deleted, Code!Active
    <2> QED
        BY <2>1, <2>2, <2>3, <2>4
<1>w. \A t \in Sends : Code!WantedStart(t)
    BY <1>a, <1>e1, <1>e2, <1>e3, <1>e4 DEF Code!WantedStart, Code!Final, Code!Active
<1>q. Code!IInv'
    BY <1>1, <1>2, <1>3, <1>4, <1>5, <1>6, <1>7, <1>8, <1>9, <1>10, <1>11, <1>p, CodeWhole
<1> QED
    BY <1>q, <1>w

LEMMA CodeTurnEndedKeeps ==
    ASSUME Code!IInv, NEW s \in Sends, Code!TurnEnded(s)
    PROVE  Code!IInv' /\ \A t \in Sends : Code!WantedStart(t)
<1>a. /\ Code!RowsOK /\ Code!OwnerOK /\ Code!JobsOK /\ Code!NativeOK /\ Code!LeftOK
      /\ Code!FreshOK /\ Code!NamesOK /\ Code!StagesOK /\ Code!OneOpens /\ Code!AllHeld /\ Code!ShutOK
      /\ \A t \in Sends : Code!TurnSane(t) /\ Code!RunSane(t) /\ Code!JobSane(t) /\ Code!HeardSane(t)
    BY CodeParts
<1>u. UNCHANGED <<codeSession, codeLatest, codeCalls, codeWork, codeFails, codeInterrupts, codeDeletion, codeHalting, codeService, codeProcess, codeHistory, codeLeft>>
    BY DEF Code!TurnEnded, Code!jobs
<1>k. /\ codeOwner.connection \in Code!Gens /\ codeOwner.stored \in BOOLEAN
      /\ codeOwner.overtaken \in BOOLEAN /\ codeOwner.finished \in BOOLEAN
      /\ codeSession.model \in Code!Models /\ codeSession.thread \in BOOLEAN
      /\ codeDeletion.gen \in Code!Gens /\ codeService.gen \in Code!Gens /\ codeHalting.gen \in Code!Gens
      /\ \A t \in Sends : /\ codeWork[t].gen \in Code!Gens /\ codeFails[t].gen \in Code!Gens
                          /\ codeInterrupts[t].gen \in Code!Gens /\ codeTurns[t].gen \in Code!Gens
                          /\ codeTurns[t].asked \in Nat /\ codeRuns[t].model \in Code!Models
                          /\ codeRuns[t].stop \in BOOLEAN /\ codeRuns[t].submitted \in BOOLEAN
                          /\ codeRuns[t].turn \in Sends \cup {NoSend}
      /\ 0 \in Code!Gens /\ 0 \notin Code!Generations
      /\ \A h \in Code!Gens : h # 0 => h \in Code!Generations
    BY <1>a, CodeFields
<1>e1. /\ codeTurns[s].at = "completed"
       /\ codeTurns' \in [Sends -> Code!NativeTurns]
       /\ \A t \in Sends : codeTurns'[t].at = codeTurns[t].at /\ codeTurns'[t].gen = codeTurns[t].gen /\ codeTurns'[t].asked = codeTurns[t].asked
       /\ \A t \in Sends : t # s => codeTurns'[t] = codeTurns[t]
    BY <1>a DEF Code!TurnEnded, Code!NativeOK, Code!NativeTurns
<1>e2. codeTurns[s].asked = 1
    BY <1>a, <1>e1 DEF Code!TurnSane, Code!NoTurn
<1>e3. \/ codeRuns' = codeRuns /\ codeFresh' = codeFresh /\ codeOwner' = codeOwner
       \/ codeLatest = s /\ codeRuns[s].turn = s /\ Code!Finish(s, "completed", codeOwner)
    <2>1. CASE Code!Heeds(s) /\ Code!Busy /\ codeRuns[codeLatest].turn = s
        <3>1. PICK l \in Sends : Code!Running(l) /\ l = codeLatest
            BY <2>1 DEF Code!Busy, Code!Running
        <3>2. l = s
            BY <2>1, <3>1, <1>a, CodeConstants DEF Code!RunSane
        <3>3. Code!Finish(codeLatest, codeTurns[s].at, codeOwner)
            BY <2>1 DEF Code!TurnEnded
        <3> QED
            BY <2>1, <3>1, <3>2, <3>3, <1>e1
    <2>2. CASE ~(Code!Heeds(s) /\ Code!Busy /\ codeRuns[codeLatest].turn = s)
        BY <2>2 DEF Code!TurnEnded
    <2> QED
        BY <2>1, <2>2
<1>e4. /\ codeRuns' \in [Sends -> Code!RunRows] /\ codeFresh' \in {codeFresh, {}}
       /\ \A t \in Sends : t # s => codeRuns'[t] = codeRuns[t]
       /\ codeRuns'[s].stop = codeRuns[s].stop /\ codeRuns'[s].submitted = codeRuns[s].submitted
       /\ codeRuns'[s].turn = codeRuns[s].turn
       /\ \/ codeRuns'[s].status = codeRuns[s].status
          \/ codeRuns'[s].status = "completed" /\ codeRuns[s].turn = s /\ codeRuns[s].status \in Code!Active
       /\ codeOwner' \in Code!Owners /\ codeOwner'.connection = codeOwner.connection /\ codeOwner'.stored = codeOwner.stored /\ codeOwner'.overtaken = codeOwner.overtaken
    <2>1. CASE codeRuns' = codeRuns /\ codeFresh' = codeFresh /\ codeOwner' = codeOwner
        BY <2>1, <1>a DEF Code!RowsOK, Code!OwnerOK
    <2>2. CASE codeLatest = s /\ codeRuns[s].turn = s /\ Code!Finish(s, "completed", codeOwner)
        <3>1. PICK o \in Code!Owners : o = codeOwner
            BY <1>a DEF Code!OwnerOK
        <3>2. Code!Finish(s, "completed", o) /\ "completed" \in Code!Final
            BY <2>2, <3>1 DEF Code!Final
        <3>3. /\ codeRuns' \in [Sends -> Code!RunRows] /\ codeOwner' \in Code!Owners /\ codeFresh' \in {codeFresh, {}}
              /\ \A t \in Sends : t # s => codeRuns'[t] = codeRuns[t]
              /\ codeOwner'.connection = o.connection /\ codeOwner'.stored = o.stored
              /\ codeOwner'.overtaken = o.overtaken
              /\ codeRuns'[s].stop = codeRuns[s].stop /\ codeRuns'[s].submitted = codeRuns[s].submitted
              /\ codeRuns'[s].turn = codeRuns[s].turn
              /\ \/ codeRuns'[s].status = codeRuns[s].status /\ ~(Code!Running(s) /\ codeOwner.stored)
                 \/ codeRuns'[s].status = "completed" /\ Code!Running(s) /\ codeOwner.stored
            BY <3>2, <1>a, CodeFinish
        <3> QED
            BY <2>2, <3>1, <3>3 DEF Code!Running
    <2> QED
        BY <1>e3, <2>1, <2>2
<1>1. Code!RowsOK'
    BY <1>a, <1>u, <1>k, <1>e1, <1>e2, <1>e3, <1>e4 DEF Code!RowsOK
<1>2. Code!OwnerOK'
    BY <1>a, <1>u, <1>k, <1>e1, <1>e2, <1>e3, <1>e4 DEF Code!OwnerOK
<1>3. Code!JobsOK'
    BY <1>a, <1>u DEF Code!JobsOK
<1>4. Code!NativeOK'
    BY <1>a, <1>u, <1>k, <1>e1, <1>e2, <1>e3, <1>e4 DEF Code!NativeOK
<1>5. Code!LeftOK'
    BY <1>a, <1>u DEF Code!LeftOK, Code!Kinds
<1>6. Code!FreshOK'
    BY <1>a, <1>u, <1>k, <1>e1, <1>e2, <1>e3, <1>e4 DEF Code!FreshOK
<1>7. Code!NamesOK'
    BY <1>a, <1>u, <1>k, <1>e1, <1>e2, <1>e3, <1>e4 DEF Code!NamesOK, Code!Named
<1>8. Code!StagesOK'
    BY <1>a, <1>u, <1>k, <1>e1, <1>e2, <1>e3, <1>e4 DEF Code!StagesOK, Code!Deleted
<1>9. Code!OneOpens'
    BY <1>a, <1>u, <1>k, <1>e1, <1>e2, <1>e3, <1>e4 DEF Code!OneOpens, Code!Opening,
        Code!Accepting, Code!Running, Code!At, Code!JobSane, Code!Unsubmitted
<1>10. Code!AllHeld'
    BY <1>a, <1>u, <1>k, <1>e1, <1>e2, <1>e3, <1>e4 DEF Code!AllHeld, Code!IsHeld,
        Code!ClosesIt, Code!Exists
<1>11. Code!ShutOK'
    BY <1>a, <1>u, <1>k, <1>e1, <1>e2, <1>e3, <1>e4 DEF Code!ShutOK, Code!InUse, Code!At,
        Code!Exists, Code!Deleted
<1>p. ASSUME NEW t \in Sends PROVE Code!TurnSane(t)' /\ Code!RunSane(t)' /\ Code!JobSane(t)' /\ Code!HeardSane(t)'
    <2>1. Code!TurnSane(t)'
        BY <1>a, <1>u, <1>k, <1>e1, <1>e2, <1>e3, <1>e4 DEF Code!TurnSane, Code!NoTurn
    <2>2. Code!RunSane(t)'
        BY <1>a, <1>u, <1>k, <1>e1, <1>e2, <1>e3, <1>e4 DEF Code!RunSane, Code!Deleted,
            Code!Final
    <2>3. Code!JobSane(t)'
        BY <1>a, <1>u, <1>k, <1>e1, <1>e2, <1>e3, <1>e4 DEF Code!JobSane, Code!Unsubmitted,
            Code!At, Code!Deleted
    <2>4. Code!HeardSane(t)'
        BY <1>a, <1>u, <1>k, <1>e1, <1>e2, <1>e3, <1>e4 DEF Code!HeardSane, Code!Unheard,
            Code!Running, Code!At, Code!Deleted
    <2> QED
        BY <2>1, <2>2, <2>3, <2>4
<1>w. \A t \in Sends : Code!WantedStart(t)
    BY <1>a, <1>e1, <1>e2, <1>e3, <1>e4 DEF Code!WantedStart, Code!Final, Code!Active
<1>q. Code!IInv'
    BY <1>1, <1>2, <1>3, <1>4, <1>5, <1>6, <1>7, <1>8, <1>9, <1>10, <1>11, <1>p, CodeWhole
<1> QED
    BY <1>q, <1>w

LEMMA CodeClosedKeeps ==
    ASSUME Code!IInv, NEW g \in Code!Generations, Code!Closed(g)
    PROVE  Code!IInv' /\ \A t \in Sends : Code!WantedStart(t)
<1>a. /\ Code!RowsOK /\ Code!OwnerOK /\ Code!JobsOK /\ Code!NativeOK /\ Code!LeftOK
      /\ Code!FreshOK /\ Code!NamesOK /\ Code!StagesOK /\ Code!OneOpens /\ Code!AllHeld /\ Code!ShutOK
      /\ \A t \in Sends : Code!TurnSane(t) /\ Code!RunSane(t) /\ Code!JobSane(t) /\ Code!HeardSane(t)
    BY CodeParts
<1>u. UNCHANGED <<codeSession, codeLatest, codeCalls, codeWork, codeFails, codeInterrupts, codeDeletion, codeHalting, codeService, codeProcess, codeHistory, codeTurns, codeLeft>>
    BY DEF Code!Closed, Code!jobs, Code!native
<1>k. /\ codeOwner.connection \in Code!Gens /\ codeOwner.stored \in BOOLEAN
      /\ codeOwner.overtaken \in BOOLEAN /\ codeOwner.finished \in BOOLEAN
      /\ codeSession.model \in Code!Models /\ codeSession.thread \in BOOLEAN
      /\ codeDeletion.gen \in Code!Gens /\ codeService.gen \in Code!Gens /\ codeHalting.gen \in Code!Gens
      /\ \A t \in Sends : /\ codeWork[t].gen \in Code!Gens /\ codeFails[t].gen \in Code!Gens
                          /\ codeInterrupts[t].gen \in Code!Gens /\ codeTurns[t].gen \in Code!Gens
                          /\ codeTurns[t].asked \in Nat /\ codeRuns[t].model \in Code!Models
                          /\ codeRuns[t].stop \in BOOLEAN /\ codeRuns[t].submitted \in BOOLEAN
                          /\ codeRuns[t].turn \in Sends \cup {NoSend}
      /\ 0 \in Code!Gens /\ 0 \notin Code!Generations
      /\ \A h \in Code!Gens : h # 0 => h \in Code!Generations
    BY <1>a, CodeFields
<1>e1. /\ codeProcess[g] = "gone" /\ codeOwner.connection = g /\ g # 0
       /\ codeSession.status = "ready" /\ codeOwner.stored
    BY <1>k DEF Code!Closed
<1>e2. /\ codeRuns' \in [Sends -> Code!RunRows] /\ codeFresh' \in {codeFresh, {}}
       /\ \A t \in Sends : /\ codeRuns'[t].stop = codeRuns[t].stop /\ codeRuns'[t].submitted = codeRuns[t].submitted
                          /\ codeRuns'[t].turn = codeRuns[t].turn
                          /\ \/ codeRuns'[t] = codeRuns[t]
                             \/ Code!Running(t) /\ codeRuns'[t].status \in {"failed", "interrupted"}
       /\ codeOwner' \in Code!Owners /\ codeOwner'.connection = 0 /\ codeOwner'.stored = codeOwner.stored
       /\ codeOwner.overtaken => codeOwner'.overtaken
       /\ \A t \in Sends : Code!At(t, "starting") /\ Code!Running(t) => codeOwner'.overtaken
    <2>1. CASE Code!Busy
        <3>1. PICK l \in Sends : Code!Running(l) /\ l = codeLatest
            BY <2>1 DEF Code!Busy, Code!Running
        <3>2. PICK o \in Code!Owners : o = [Code!Detached EXCEPT !.overtaken = @ \/ Code!At(codeLatest, "starting")]
            BY <1>a, CodeDetached DEF Code!Owners
        <3>3. /\ o.connection = 0 /\ o.stored = codeOwner.stored
              /\ o.overtaken = (codeOwner.overtaken \/ Code!At(codeLatest, "starting"))
            BY <3>2, <1>a, CodeDetached DEF Code!Owners
        <3>4. PICK st \in Code!Final : st = Code!Outcome(l)
            BY CodeOutcome
        <3>5. Code!Finish(l, st, o) /\ st \in {"failed", "interrupted"}
            <4>1. Code!Finish(codeLatest, Code!Outcome(codeLatest), o)
                BY <2>1, <3>2 DEF Code!Closed
            <4> QED
                BY <4>1, <3>1, <3>4 DEF Code!Outcome
        <3>6. /\ codeRuns' \in [Sends -> Code!RunRows] /\ codeOwner' \in Code!Owners /\ codeFresh' \in {codeFresh, {}}
              /\ \A t \in Sends : t # l => codeRuns'[t] = codeRuns[t]
              /\ codeOwner'.connection = o.connection /\ codeOwner'.stored = o.stored
              /\ codeOwner'.overtaken = o.overtaken
              /\ codeRuns'[l].stop = codeRuns[l].stop /\ codeRuns'[l].submitted = codeRuns[l].submitted
              /\ codeRuns'[l].turn = codeRuns[l].turn
              /\ \/ codeRuns'[l].status = codeRuns[l].status /\ ~(Code!Running(l) /\ codeOwner.stored)
                 \/ codeRuns'[l].status = st /\ Code!Running(l) /\ codeOwner.stored
            BY <3>5, <1>a, CodeFinish
        <3>7. codeOwner.overtaken => codeOwner'.overtaken
            BY <3>3, <3>6
        <3>8. \A t \in Sends : Code!At(t, "starting") /\ Code!Running(t) => codeOwner'.overtaken
            BY <3>3, <3>6 DEF Code!Running
        <3> QED
            BY <1>e1, <3>1, <3>3, <3>5, <3>6, <3>7, <3>8
    <2>2. CASE ~Code!Busy
        <3>1. codeOwner' = Code!Detached /\ codeRuns' = codeRuns /\ codeFresh' = codeFresh
            BY <2>2 DEF Code!Closed
        <3>2. \A t \in Sends : ~Code!Running(t)
            BY <2>2 DEF Code!Busy
        <3> QED
            BY <3>1, <3>2, <1>a, CodeDetached DEF Code!RowsOK
    <2> QED
        BY <2>1, <2>2
<1>1. Code!RowsOK'
    BY <1>a, <1>u, <1>k, <1>e1, <1>e2 DEF Code!RowsOK
<1>2. Code!OwnerOK'
    BY <1>a, <1>u, <1>k, <1>e1, <1>e2 DEF Code!OwnerOK
<1>3. Code!JobsOK'
    BY <1>a, <1>u DEF Code!JobsOK
<1>4. Code!NativeOK'
    BY <1>a, <1>u DEF Code!NativeOK
<1>5. Code!LeftOK'
    BY <1>a, <1>u DEF Code!LeftOK, Code!Kinds
<1>6. Code!FreshOK'
    BY <1>a, <1>u, <1>k, <1>e1, <1>e2 DEF Code!FreshOK
<1>7. Code!NamesOK'
    BY <1>a, <1>u, <1>k, <1>e1, <1>e2 DEF Code!NamesOK, Code!Named
<1>8. Code!StagesOK'
    BY <1>a, <1>u, <1>k, <1>e1, <1>e2 DEF Code!StagesOK, Code!Deleted
<1>9. Code!OneOpens'
    BY <1>a, <1>u, <1>k, <1>e1, <1>e2 DEF Code!OneOpens, Code!Opening, Code!Accepting,
        Code!Running, Code!At, Code!StagesOK
<1>10. Code!AllHeld'
    BY <1>a, <1>u, <1>k, <1>e1, <1>e2 DEF Code!AllHeld, Code!IsHeld, Code!ClosesIt, Code!Exists
<1>11. Code!ShutOK'
    BY <1>a, <1>u, <1>k, <1>e1, <1>e2 DEF Code!ShutOK, Code!InUse, Code!At, Code!Exists,
        Code!Deleted
<1>p. ASSUME NEW t \in Sends PROVE Code!TurnSane(t)' /\ Code!RunSane(t)' /\ Code!JobSane(t)' /\ Code!HeardSane(t)'
    <2>1. Code!TurnSane(t)'
        BY <1>a, <1>u DEF Code!TurnSane, Code!NoTurn
    <2>2. Code!RunSane(t)'
        BY <1>a, <1>u, <1>k, <1>e1, <1>e2 DEF Code!RunSane, Code!Deleted
    <2>3. Code!JobSane(t)'
        BY <1>a, <1>u, <1>k, <1>e1, <1>e2 DEF Code!JobSane, Code!Unsubmitted, Code!At,
            Code!Deleted
    <2>4. Code!HeardSane(t)'
        BY <1>a, <1>u, <1>k, <1>e1, <1>e2 DEF Code!HeardSane, Code!Unheard, Code!Running,
            Code!At, Code!Deleted, Code!JobSane
    <2> QED
        BY <2>1, <2>2, <2>3, <2>4
<1>w. \A t \in Sends : Code!WantedStart(t)
    BY <1>a, <1>e1, <1>e2 DEF Code!WantedStart, Code!Final, Code!Active
<1>q. Code!IInv'
    BY <1>1, <1>2, <1>3, <1>4, <1>5, <1>6, <1>7, <1>8, <1>9, <1>10, <1>11, <1>p, CodeWhole
<1> QED
    BY <1>q, <1>w

LEMMA CodeShutdownClosesKeeps ==
    ASSUME Code!IInv, Code!ShutdownCloses
    PROVE  Code!IInv' /\ \A t \in Sends : Code!WantedStart(t)
<1>a. /\ Code!RowsOK /\ Code!OwnerOK /\ Code!JobsOK /\ Code!NativeOK /\ Code!LeftOK
      /\ Code!FreshOK /\ Code!NamesOK /\ Code!StagesOK /\ Code!OneOpens /\ Code!AllHeld /\ Code!ShutOK
      /\ \A t \in Sends : Code!TurnSane(t) /\ Code!RunSane(t) /\ Code!JobSane(t) /\ Code!HeardSane(t)
    BY CodeParts
<1>u. UNCHANGED <<codeSession, codeRuns, codeLatest, codeFresh, codeCalls, codeWork, codeFails, codeInterrupts, codeDeletion, codeHalting, codeProcess, codeHistory, codeTurns, codeLeft>>
    BY DEF Code!ShutdownCloses, Code!rows, Code!jobs, Code!native
<1>k. /\ codeOwner.connection \in Code!Gens /\ codeOwner.stored \in BOOLEAN
      /\ codeOwner.overtaken \in BOOLEAN /\ codeOwner.finished \in BOOLEAN
      /\ codeSession.model \in Code!Models /\ codeSession.thread \in BOOLEAN
      /\ codeDeletion.gen \in Code!Gens /\ codeService.gen \in Code!Gens /\ codeHalting.gen \in Code!Gens
      /\ \A t \in Sends : /\ codeWork[t].gen \in Code!Gens /\ codeFails[t].gen \in Code!Gens
                          /\ codeInterrupts[t].gen \in Code!Gens /\ codeTurns[t].gen \in Code!Gens
                          /\ codeTurns[t].asked \in Nat /\ codeRuns[t].model \in Code!Models
                          /\ codeRuns[t].stop \in BOOLEAN /\ codeRuns[t].submitted \in BOOLEAN
                          /\ codeRuns[t].turn \in Sends \cup {NoSend}
      /\ 0 \in Code!Gens /\ 0 \notin Code!Generations
      /\ \A h \in Code!Gens : h # 0 => h \in Code!Generations
    BY <1>a, CodeFields
<1>e1. /\ codeService.mode = "stopping" /\ codeService.step = 2
       /\ codeService' \in Code!Services /\ codeService'.mode = "stopping" /\ codeService'.step = 3
    BY <1>a, <1>k DEF Code!ShutdownCloses, Code!Step, Code!OwnerOK, Code!Services
<1>e2. /\ codeOwner' \in Code!Owners /\ codeOwner'.stored = codeOwner.stored /\ codeOwner'.overtaken = codeOwner.overtaken
       /\ \/ codeService'.gen = codeService.gen /\ codeOwner'.connection = codeOwner.connection /\ Code!Deleted
          \/ codeService'.gen = codeOwner.connection /\ codeOwner'.connection = 0
    <2>1. CASE Code!Deleted
        <3>1. codeService' = [codeService EXCEPT !.step = 3] /\ codeOwner' = codeOwner
            BY <2>1 DEF Code!ShutdownCloses, Code!Deleted
        <3> QED
            BY <2>1, <3>1, <1>a DEF Code!OwnerOK, Code!Services
    <2>2. CASE ~Code!Deleted
        <3>1. /\ codeService' = [mode |-> "stopping", step |-> 3, gen |-> codeOwner.connection]
              /\ codeOwner' = Code!Detached
            BY <2>2 DEF Code!ShutdownCloses, Code!Deleted
        <3> QED
            BY <3>1, <1>a, CodeDetached
    <2> QED
        BY <2>1, <2>2
<1>1. Code!RowsOK'
    BY <1>a, <1>u DEF Code!RowsOK
<1>2. Code!OwnerOK'
    BY <1>a, <1>u, <1>k, <1>e1, <1>e2 DEF Code!OwnerOK
<1>3. Code!JobsOK'
    BY <1>a, <1>u DEF Code!JobsOK
<1>4. Code!NativeOK'
    BY <1>a, <1>u DEF Code!NativeOK
<1>5. Code!LeftOK'
    BY <1>a, <1>u DEF Code!LeftOK, Code!Kinds
<1>6. Code!FreshOK'
    BY <1>a, <1>u DEF Code!FreshOK
<1>7. Code!NamesOK'
    BY <1>a, <1>u, <1>k, <1>e1, <1>e2 DEF Code!NamesOK, Code!Named
<1>8. Code!StagesOK'
    BY <1>a, <1>u, <1>k, <1>e1, <1>e2 DEF Code!StagesOK, Code!Deleted
<1>9. Code!OneOpens'
    BY <1>a, <1>u, <1>k, <1>e1, <1>e2 DEF Code!OneOpens, Code!Opening, Code!Accepting,
        Code!Running, Code!At
<1>10. Code!AllHeld'
    BY <1>a, <1>u, <1>k, <1>e1, <1>e2 DEF Code!AllHeld, Code!IsHeld, Code!ClosesIt, Code!Exists
<1>11. Code!ShutOK'
    BY <1>a, <1>u, <1>k, <1>e1, <1>e2 DEF Code!ShutOK, Code!InUse, Code!At, Code!Exists,
        Code!Deleted
<1>p. ASSUME NEW t \in Sends PROVE Code!TurnSane(t)' /\ Code!RunSane(t)' /\ Code!JobSane(t)' /\ Code!HeardSane(t)'
    <2>1. Code!TurnSane(t)'
        BY <1>a, <1>u DEF Code!TurnSane, Code!NoTurn
    <2>2. Code!RunSane(t)'
        BY <1>a, <1>u DEF Code!RunSane, Code!Deleted
    <2>3. Code!JobSane(t)'
        BY <1>a, <1>u DEF Code!JobSane, Code!Unsubmitted, Code!At, Code!Deleted
    <2>4. Code!HeardSane(t)'
        BY <1>a, <1>u, <1>k, <1>e1, <1>e2 DEF Code!HeardSane, Code!Unheard, Code!Running,
            Code!At, Code!Deleted, Code!JobSane
    <2> QED
        BY <2>1, <2>2, <2>3, <2>4
<1>w. \A t \in Sends : Code!WantedStart(t)
    BY <1>u DEF Code!WantedStart
<1>q. Code!IInv'
    BY <1>1, <1>2, <1>3, <1>4, <1>5, <1>6, <1>7, <1>8, <1>9, <1>10, <1>11, <1>p, CodeWhole
<1> QED
    BY <1>q, <1>w

LEMMA CodeShutdownFinishesKeeps ==
    ASSUME Code!IInv, Code!ShutdownFinishes
    PROVE  Code!IInv' /\ \A t \in Sends : Code!WantedStart(t)
<1>a. /\ Code!RowsOK /\ Code!OwnerOK /\ Code!JobsOK /\ Code!NativeOK /\ Code!LeftOK
      /\ Code!FreshOK /\ Code!NamesOK /\ Code!StagesOK /\ Code!OneOpens /\ Code!AllHeld /\ Code!ShutOK
      /\ \A t \in Sends : Code!TurnSane(t) /\ Code!RunSane(t) /\ Code!JobSane(t) /\ Code!HeardSane(t)
    BY CodeParts
<1>u. UNCHANGED <<codeSession, codeLatest, codeCalls, codeWork, codeFails, codeInterrupts, codeDeletion, codeHalting, codeProcess, codeHistory, codeTurns, codeLeft>>
    BY DEF Code!ShutdownFinishes, Code!jobs, Code!native
<1>k. /\ codeOwner.connection \in Code!Gens /\ codeOwner.stored \in BOOLEAN
      /\ codeOwner.overtaken \in BOOLEAN /\ codeOwner.finished \in BOOLEAN
      /\ codeSession.model \in Code!Models /\ codeSession.thread \in BOOLEAN
      /\ codeDeletion.gen \in Code!Gens /\ codeService.gen \in Code!Gens /\ codeHalting.gen \in Code!Gens
      /\ \A t \in Sends : /\ codeWork[t].gen \in Code!Gens /\ codeFails[t].gen \in Code!Gens
                          /\ codeInterrupts[t].gen \in Code!Gens /\ codeTurns[t].gen \in Code!Gens
                          /\ codeTurns[t].asked \in Nat /\ codeRuns[t].model \in Code!Models
                          /\ codeRuns[t].stop \in BOOLEAN /\ codeRuns[t].submitted \in BOOLEAN
                          /\ codeRuns[t].turn \in Sends \cup {NoSend}
      /\ 0 \in Code!Gens /\ 0 \notin Code!Generations
      /\ \A h \in Code!Gens : h # 0 => h \in Code!Generations
    BY <1>a, CodeFields
<1>e1. /\ codeService.mode = "stopping" /\ codeService.step = 3 /\ Code!Gone(codeService.gen)
       /\ codeService' \in Code!Services /\ codeService'.mode = "stopping" /\ codeService'.step = 4 /\ codeService'.gen = codeService.gen
    BY <1>a DEF Code!ShutdownFinishes, Code!Step, Code!OwnerOK, Code!Services
<1>e2. /\ codeRuns' \in [Sends -> Code!RunRows] /\ codeFresh' \in {codeFresh, {}}
       /\ \A t \in Sends : /\ codeRuns'[t].stop = codeRuns[t].stop /\ codeRuns'[t].submitted = codeRuns[t].submitted
                          /\ codeRuns'[t].turn = codeRuns[t].turn
                          /\ \/ codeRuns'[t] = codeRuns[t]
                             \/ Code!Running(t) /\ codeRuns'[t].status \in {"failed", "interrupted"}
       /\ codeOwner' \in Code!Owners /\ codeOwner'.connection = codeOwner.connection /\ codeOwner'.stored = codeOwner.stored /\ codeOwner'.overtaken = codeOwner.overtaken
    <2>1. CASE Code!Busy
        <3>1. PICK l \in Sends : Code!Running(l) /\ l = codeLatest
            BY <2>1 DEF Code!Busy, Code!Running
        <3>2. PICK o \in Code!Owners : o = codeOwner
            BY <1>a DEF Code!OwnerOK
        <3>3. Code!Finish(l, "interrupted", o) /\ "interrupted" \in Code!Final
            BY <2>1, <3>1, <3>2 DEF Code!ShutdownFinishes, Code!Final
        <3>4. /\ codeRuns' \in [Sends -> Code!RunRows] /\ codeOwner' \in Code!Owners /\ codeFresh' \in {codeFresh, {}}
              /\ \A t \in Sends : t # l => codeRuns'[t] = codeRuns[t]
              /\ codeOwner'.connection = o.connection /\ codeOwner'.stored = o.stored
              /\ codeOwner'.overtaken = o.overtaken
              /\ codeRuns'[l].stop = codeRuns[l].stop /\ codeRuns'[l].submitted = codeRuns[l].submitted
              /\ codeRuns'[l].turn = codeRuns[l].turn
              /\ \/ codeRuns'[l].status = codeRuns[l].status /\ ~(Code!Running(l) /\ codeOwner.stored)
                 \/ codeRuns'[l].status = "interrupted" /\ Code!Running(l) /\ codeOwner.stored
            BY <3>3, <1>a, CodeFinish
        <3>5. \/ codeRuns'[l].status = "interrupted"
              \/ ~codeOwner.stored /\ codeRuns' = codeRuns
            BY <3>1, <3>3, <3>4 DEF Code!Finish
        <3> QED
            BY <3>1, <3>2, <3>4, <3>5
    <2>2. CASE ~Code!Busy
        <3>1. codeOwner' = codeOwner /\ codeRuns' = codeRuns /\ codeFresh' = codeFresh
            BY <2>2 DEF Code!ShutdownFinishes
        <3> QED
            BY <3>1, <1>a DEF Code!RowsOK, Code!OwnerOK
    <2> QED
        BY <2>1, <2>2
<1>1. Code!RowsOK'
    BY <1>a, <1>u, <1>k, <1>e1, <1>e2 DEF Code!RowsOK
<1>2. Code!OwnerOK'
    BY <1>a, <1>u, <1>k, <1>e1, <1>e2 DEF Code!OwnerOK
<1>3. Code!JobsOK'
    BY <1>a, <1>u DEF Code!JobsOK
<1>4. Code!NativeOK'
    BY <1>a, <1>u DEF Code!NativeOK
<1>5. Code!LeftOK'
    BY <1>a, <1>u DEF Code!LeftOK, Code!Kinds
<1>6. Code!FreshOK'
    BY <1>a, <1>u, <1>k, <1>e1, <1>e2 DEF Code!FreshOK
<1>7. Code!NamesOK'
    BY <1>a, <1>u, <1>k, <1>e1, <1>e2 DEF Code!NamesOK, Code!Named
<1>8. Code!StagesOK'
    BY <1>a, <1>u, <1>k, <1>e1, <1>e2 DEF Code!StagesOK, Code!Deleted
<1>9. Code!OneOpens'
    BY <1>a, <1>u, <1>k, <1>e1, <1>e2 DEF Code!OneOpens, Code!Opening, Code!Accepting,
        Code!Running, Code!At
<1>10. Code!AllHeld'
    BY <1>a, <1>u, <1>k, <1>e1, <1>e2 DEF Code!AllHeld, Code!IsHeld, Code!ClosesIt, Code!Exists,
        Code!Gone
<1>11. Code!ShutOK'
    BY <1>a, <1>u, <1>k, <1>e1, <1>e2 DEF Code!ShutOK, Code!InUse, Code!At, Code!Exists,
        Code!Deleted
<1>p. ASSUME NEW t \in Sends PROVE Code!TurnSane(t)' /\ Code!RunSane(t)' /\ Code!JobSane(t)' /\ Code!HeardSane(t)'
    <2>1. Code!TurnSane(t)'
        BY <1>a, <1>u DEF Code!TurnSane, Code!NoTurn
    <2>2. Code!RunSane(t)'
        BY <1>a, <1>u, <1>k, <1>e1, <1>e2 DEF Code!RunSane, Code!Deleted
    <2>3. Code!JobSane(t)'
        BY <1>a, <1>u, <1>k, <1>e1, <1>e2 DEF Code!JobSane, Code!Unsubmitted, Code!At,
            Code!Deleted
    <2>4. Code!HeardSane(t)'
        BY <1>a, <1>u, <1>k, <1>e1, <1>e2 DEF Code!HeardSane, Code!Unheard, Code!Running,
            Code!At, Code!Deleted
    <2> QED
        BY <2>1, <2>2, <2>3, <2>4
<1>w. \A t \in Sends : Code!WantedStart(t)
    BY <1>a, <1>e1, <1>e2 DEF Code!WantedStart, Code!Final, Code!Active
<1>q. Code!IInv'
    BY <1>1, <1>2, <1>3, <1>4, <1>5, <1>6, <1>7, <1>8, <1>9, <1>10, <1>11, <1>p, CodeWhole
<1> QED
    BY <1>q, <1>w

LEMMA CodeShutdownStopsKeeps ==
    ASSUME Code!IInv, Code!ShutdownStops
    PROVE  Code!IInv' /\ \A t \in Sends : Code!WantedStart(t)
<1>a. /\ Code!RowsOK /\ Code!OwnerOK /\ Code!JobsOK /\ Code!NativeOK /\ Code!LeftOK
      /\ Code!FreshOK /\ Code!NamesOK /\ Code!StagesOK /\ Code!OneOpens /\ Code!AllHeld /\ Code!ShutOK
      /\ \A t \in Sends : Code!TurnSane(t) /\ Code!RunSane(t) /\ Code!JobSane(t) /\ Code!HeardSane(t)
    BY CodeParts
<1>u. UNCHANGED <<codeSession, codeLatest, codeFresh, codeOwner, codeCalls, codeWork, codeFails, codeDeletion, codeHalting, codeProcess, codeHistory, codeTurns, codeLeft>>
    BY DEF Code!ShutdownStops, Code!native
<1>k. /\ codeOwner.connection \in Code!Gens /\ codeOwner.stored \in BOOLEAN
      /\ codeOwner.overtaken \in BOOLEAN /\ codeOwner.finished \in BOOLEAN
      /\ codeSession.model \in Code!Models /\ codeSession.thread \in BOOLEAN
      /\ codeDeletion.gen \in Code!Gens /\ codeService.gen \in Code!Gens /\ codeHalting.gen \in Code!Gens
      /\ \A t \in Sends : /\ codeWork[t].gen \in Code!Gens /\ codeFails[t].gen \in Code!Gens
                          /\ codeInterrupts[t].gen \in Code!Gens /\ codeTurns[t].gen \in Code!Gens
                          /\ codeTurns[t].asked \in Nat /\ codeRuns[t].model \in Code!Models
                          /\ codeRuns[t].stop \in BOOLEAN /\ codeRuns[t].submitted \in BOOLEAN
                          /\ codeRuns[t].turn \in Sends \cup {NoSend}
      /\ 0 \in Code!Gens /\ 0 \notin Code!Generations
      /\ \A h \in Code!Gens : h # 0 => h \in Code!Generations
    BY <1>a, CodeFields
<1>e1. /\ codeService.mode = "stopping" /\ codeService.step = 1
       /\ codeService' \in Code!Services /\ codeService'.mode = "stopping" /\ codeService'.step = 2 /\ codeService'.gen = codeService.gen
    BY <1>a DEF Code!ShutdownStops, Code!Step, Code!OwnerOK, Code!Services
<1>e2. /\ codeRuns' \in [Sends -> Code!RunRows] /\ codeInterrupts' \in [Sends -> Code!InterruptJobs]
       /\ \A t \in Sends :
             \/ codeRuns'[t] = codeRuns[t] /\ codeInterrupts'[t] = codeInterrupts[t]
             \/ /\ Code!Running(t) /\ codeRuns'[t].stop = TRUE /\ codeRuns'[t].status = "stopping"
                /\ codeRuns'[t].turn = codeRuns[t].turn /\ codeRuns'[t].submitted = codeRuns[t].submitted
                /\ \/ codeInterrupts'[t] = codeInterrupts[t]
                   \/ /\ codeInterrupts'[t].at = "asking" /\ codeInterrupts[t].at = "none"
                      /\ codeInterrupts'[t].gen = codeOwner.connection /\ codeRuns[t].turn # NoSend
    <2>1. CASE Code!Busy /\ codeOwner.stored /\ ~codeRuns[codeLatest].stop
        <3>1. PICK l \in Sends : Code!Running(l) /\ l = codeLatest
            BY <2>1 DEF Code!Busy, Code!Running
        <3>2. PICK rs \in [Sends -> Code!RunRows] : rs = Code!Stopped(l)
            BY <1>a, CodeStopped
        <3>3. codeRuns' = Code!Stopped(l) /\ codeInterrupts' = Code!Interrupting(rs, l)
            BY <2>1, <3>1, <3>2 DEF Code!ShutdownStops, Code!RequestStop
        <3>4. /\ codeInterrupts' \in [Sends -> Code!InterruptJobs]
              /\ \A t \in Sends : t # l => codeInterrupts'[t] = codeInterrupts[t]
              /\ \/ codeInterrupts'[l] = codeInterrupts[l]
                 \/ /\ codeInterrupts'[l].at = "asking" /\ codeInterrupts[l].at = "none"
                    /\ codeInterrupts'[l].gen = codeOwner.connection /\ rs[l].turn # NoSend
            BY <3>3, <1>a, CodeInterrupting
        <3>5. /\ codeRuns' \in [Sends -> Code!RunRows]
              /\ codeRuns'[l].stop = TRUE /\ codeRuns'[l].status = "stopping"
              /\ codeRuns'[l].turn = codeRuns[l].turn /\ codeRuns'[l].submitted = codeRuns[l].submitted
              /\ \A t \in Sends : t # l => codeRuns'[t] = codeRuns[t]
            BY <3>3, <1>a, CodeStopped
        <3> QED
            BY <3>1, <3>2, <3>3, <3>4, <3>5
    <2>2. CASE ~(Code!Busy /\ codeOwner.stored /\ ~codeRuns[codeLatest].stop)
        <3>1. codeRuns' = codeRuns /\ codeInterrupts' = codeInterrupts
            BY <2>2 DEF Code!ShutdownStops
        <3> QED
            BY <3>1, <1>a DEF Code!RowsOK, Code!JobsOK
    <2> QED
        BY <2>1, <2>2
<1>1. Code!RowsOK'
    BY <1>a, <1>u, <1>k, <1>e1, <1>e2 DEF Code!RowsOK
<1>2. Code!OwnerOK'
    BY <1>a, <1>u, <1>k, <1>e1, <1>e2 DEF Code!OwnerOK
<1>3. Code!JobsOK'
    BY <1>a, <1>u, <1>k, <1>e1, <1>e2 DEF Code!JobsOK
<1>4. Code!NativeOK'
    BY <1>a, <1>u DEF Code!NativeOK
<1>5. Code!LeftOK'
    BY <1>a, <1>u DEF Code!LeftOK, Code!Kinds
<1>6. Code!FreshOK'
    BY <1>a, <1>u DEF Code!FreshOK
<1>7. Code!NamesOK'
    BY <1>a, <1>u, <1>k, <1>e1, <1>e2 DEF Code!NamesOK, Code!Named
<1>8. Code!StagesOK'
    BY <1>a, <1>u, <1>k, <1>e1, <1>e2 DEF Code!StagesOK, Code!Deleted
<1>9. Code!OneOpens'
    BY <1>a, <1>u, <1>k, <1>e1, <1>e2 DEF Code!OneOpens, Code!Opening, Code!Accepting,
        Code!Running, Code!At, Code!Active
<1>10. Code!AllHeld'
    BY <1>a, <1>u, <1>k, <1>e1, <1>e2 DEF Code!AllHeld, Code!IsHeld, Code!ClosesIt, Code!Exists
<1>11. Code!ShutOK'
    BY <1>a, <1>u, <1>k, <1>e1, <1>e2 DEF Code!ShutOK, Code!InUse, Code!At, Code!Exists,
        Code!Deleted
<1>p. ASSUME NEW t \in Sends PROVE Code!TurnSane(t)' /\ Code!RunSane(t)' /\ Code!JobSane(t)' /\ Code!HeardSane(t)'
    <2>1. Code!TurnSane(t)'
        BY <1>a, <1>u DEF Code!TurnSane, Code!NoTurn
    <2>2. Code!RunSane(t)'
        BY <1>a, <1>u, <1>k, <1>e1, <1>e2 DEF Code!RunSane, Code!Deleted, Code!Active
    <2>3. Code!JobSane(t)'
        BY <1>a, <1>u, <1>k, <1>e1, <1>e2 DEF Code!JobSane, Code!Unsubmitted, Code!At,
            Code!Deleted, Code!RunSane, Code!Active
    <2>4. Code!HeardSane(t)'
        BY <1>a, <1>u, <1>k, <1>e1, <1>e2 DEF Code!HeardSane, Code!Unheard, Code!Running,
            Code!At, Code!Deleted, Code!Active
    <2> QED
        BY <2>1, <2>2, <2>3, <2>4
<1>w. \A t \in Sends : Code!WantedStart(t)
    BY <1>a, <1>e1, <1>e2 DEF Code!WantedStart, Code!Final, Code!Active
<1>q. Code!IInv'
    BY <1>1, <1>2, <1>3, <1>4, <1>5, <1>6, <1>7, <1>8, <1>9, <1>10, <1>11, <1>p, CodeWhole
<1> QED
    BY <1>q, <1>w

LEMMA CodeDeletionOpensKeeps ==
    ASSUME Code!IInv, Code!DeletionOpens
    PROVE  Code!IInv' /\ \A t \in Sends : Code!WantedStart(t)
<1>a. /\ Code!RowsOK /\ Code!OwnerOK /\ Code!JobsOK /\ Code!NativeOK /\ Code!LeftOK
      /\ Code!FreshOK /\ Code!NamesOK /\ Code!StagesOK /\ Code!OneOpens /\ Code!AllHeld /\ Code!ShutOK
      /\ \A t \in Sends : Code!TurnSane(t) /\ Code!RunSane(t) /\ Code!JobSane(t) /\ Code!HeardSane(t)
    BY CodeParts
<1>u. UNCHANGED <<codeSession, codeRuns, codeLatest, codeFresh, codeCalls, codeWork, codeFails, codeInterrupts, codeHalting, codeService, codeHistory, codeTurns, codeLeft>>
    BY DEF Code!DeletionOpens, Code!rows
<1>k. /\ codeOwner.connection \in Code!Gens /\ codeOwner.stored \in BOOLEAN
      /\ codeOwner.overtaken \in BOOLEAN /\ codeOwner.finished \in BOOLEAN
      /\ codeSession.model \in Code!Models /\ codeSession.thread \in BOOLEAN
      /\ codeDeletion.gen \in Code!Gens /\ codeService.gen \in Code!Gens /\ codeHalting.gen \in Code!Gens
      /\ \A t \in Sends : /\ codeWork[t].gen \in Code!Gens /\ codeFails[t].gen \in Code!Gens
                          /\ codeInterrupts[t].gen \in Code!Gens /\ codeTurns[t].gen \in Code!Gens
                          /\ codeTurns[t].asked \in Nat /\ codeRuns[t].model \in Code!Models
                          /\ codeRuns[t].stop \in BOOLEAN /\ codeRuns[t].submitted \in BOOLEAN
                          /\ codeRuns[t].turn \in Sends \cup {NoSend}
      /\ 0 \in Code!Gens /\ 0 \notin Code!Generations
      /\ \A h \in Code!Gens : h # 0 => h \in Code!Generations
    BY <1>a, CodeFields
<1>e1. \/ /\ codeDeletion.at = "opening" /\ codeOwner' = codeOwner /\ codeProcess' = codeProcess
          /\ \/ codeOwner.connection # 0 /\ codeDeletion' = Code!DeletionAt("asking", codeOwner.connection)
             \/ codeOwner.connection = 0 /\ codeDeletion' = Code!DeletionAt("launching", 0)
       \/ /\ codeDeletion.at = "launching"
          /\ \E g \in Code!Generations : Code!Opens(g) /\ codeDeletion' = Code!DeletionAt("asking", g)
    BY  DEF Code!DeletionOpens
<1>e2. /\ codeDeletion.at \in {"opening", "launching"} /\ codeDeletion' \in Code!Deletions
       /\ codeOwner' \in Code!Owners /\ codeOwner'.stored = codeOwner.stored /\ codeOwner'.overtaken = codeOwner.overtaken
       /\ codeProcess' \in [Code!Generations -> {"none", "alive", "silent", "gone"}]
       /\ \/ /\ codeOwner'.connection = codeOwner.connection /\ codeProcess' = codeProcess
             /\ codeDeletion'.gen \in {codeOwner.connection, 0}
             /\ \/ codeDeletion'.at = "asking"
                \/ codeDeletion'.at = "launching" /\ codeOwner.connection = 0
          \/ /\ codeDeletion.at = "launching" /\ codeDeletion'.at = "asking" /\ codeOwner'.connection # 0
             /\ codeOwner'.connection \in Code!Generations
             /\ codeDeletion'.gen = codeOwner'.connection /\ codeProcess[codeOwner'.connection] = "none"
             /\ codeProcess'[codeOwner'.connection] = "alive"
             /\ \A h \in Code!Generations : h # codeOwner'.connection => codeProcess'[h] = codeProcess[h]
    <2>1. CASE /\ codeDeletion.at = "opening" /\ codeOwner' = codeOwner /\ codeProcess' = codeProcess
               /\ \/ codeOwner.connection # 0 /\ codeDeletion' = Code!DeletionAt("asking", codeOwner.connection)
                  \/ codeOwner.connection = 0 /\ codeDeletion' = Code!DeletionAt("launching", 0)
        <3>1. PICK c \in Code!Gens : c = codeOwner.connection
            BY <1>k
        <3>4. /\ codeDeletion' \in Code!Deletions /\ codeDeletion'.gen = c
              /\ codeDeletion'.at = "asking" \/ (codeDeletion'.at = "launching" /\ codeOwner.connection = 0)
            <4>1. CASE codeDeletion' = Code!DeletionAt("asking", c)
                BY <4>1, <1>a, CodeDeletionAt
            <4>2. CASE codeOwner.connection = 0 /\ codeDeletion' = Code!DeletionAt("launching", c)
                BY <4>2, <1>a, CodeDeletionAt
            <4> QED
                BY <2>1, <3>1, <4>1, <4>2
        <3> QED
            BY <2>1, <3>1, <3>4, <1>a DEF Code!OwnerOK, Code!NativeOK
    <2>2. CASE /\ codeDeletion.at = "launching"
               /\ \E g \in Code!Generations : Code!Opens(g) /\ codeDeletion' = Code!DeletionAt("asking", g)
        <3>1. PICK g \in Code!Generations : Code!Opens(g) /\ codeDeletion' = Code!DeletionAt("asking", g)
            BY <2>2
        <3>2. /\ g \in Code!Gens /\ g # 0 /\ codeProcess[g] = "none"
              /\ codeProcess' \in [Code!Generations -> {"none", "alive", "silent", "gone"}]
              /\ codeProcess'[g] = "alive"
              /\ \A h \in Code!Generations : h # g => codeProcess'[h] = codeProcess[h]
              /\ codeOwner' \in Code!Owners /\ codeOwner'.connection = g
              /\ codeOwner'.stored = codeOwner.stored /\ codeOwner'.overtaken = codeOwner.overtaken
            BY <3>1, <1>a, CodeOpens
        <3>3. codeDeletion' \in Code!Deletions /\ codeDeletion'.at = "asking" /\ codeDeletion'.gen = g
            BY <3>1, <3>2, <1>a, CodeDeletionAt
        <3> QED
            BY <2>2, <3>2, <3>3
    <2> QED
        BY <1>e1, <2>1, <2>2
<1>1. Code!RowsOK'
    BY <1>a, <1>u DEF Code!RowsOK
<1>2. Code!OwnerOK'
    BY <1>a, <1>u, <1>k, <1>e1, <1>e2 DEF Code!OwnerOK
<1>3. Code!JobsOK'
    BY <1>a, <1>u, <1>k, <1>e1, <1>e2 DEF Code!JobsOK
<1>4. Code!NativeOK'
    BY <1>a, <1>u, <1>k, <1>e1, <1>e2 DEF Code!NativeOK
<1>5. Code!LeftOK'
    BY <1>a, <1>u DEF Code!LeftOK, Code!Kinds
<1>6. Code!FreshOK'
    BY <1>a, <1>u DEF Code!FreshOK
<1>7. Code!NamesOK'
    BY <1>a, <1>u, <1>k, <1>e1, <1>e2 DEF Code!NamesOK, Code!Named
<1>8. Code!StagesOK'
    BY <1>a, <1>u, <1>k, <1>e1, <1>e2 DEF Code!StagesOK, Code!Deleted
<1>9. Code!OneOpens'
    BY <1>a, <1>u, <1>k, <1>e1, <1>e2 DEF Code!OneOpens, Code!Opening, Code!Accepting,
        Code!Running, Code!At
<1>10. Code!AllHeld'
    BY <1>a, <1>u, <1>k, <1>e1, <1>e2 DEF Code!AllHeld, Code!IsHeld, Code!ClosesIt, Code!Exists,
        Code!OneOpens
<1>11. Code!ShutOK'
    BY <1>a, <1>u, <1>k, <1>e1, <1>e2 DEF Code!ShutOK, Code!InUse, Code!At, Code!Exists,
        Code!Deleted
<1>p. ASSUME NEW t \in Sends PROVE Code!TurnSane(t)' /\ Code!RunSane(t)' /\ Code!JobSane(t)' /\ Code!HeardSane(t)'
    <2>1. Code!TurnSane(t)'
        BY <1>a, <1>u DEF Code!TurnSane, Code!NoTurn
    <2>2. Code!RunSane(t)'
        BY <1>a, <1>u DEF Code!RunSane, Code!Deleted
    <2>3. Code!JobSane(t)'
        BY <1>a, <1>u DEF Code!JobSane, Code!Unsubmitted, Code!At, Code!Deleted
    <2>4. Code!HeardSane(t)'
        BY <1>a, <1>u, <1>k, <1>e1, <1>e2 DEF Code!HeardSane, Code!Unheard, Code!Running,
            Code!At, Code!Deleted, Code!NamesOK, Code!Named
    <2> QED
        BY <2>1, <2>2, <2>3, <2>4
<1>w. \A t \in Sends : Code!WantedStart(t)
    BY <1>u DEF Code!WantedStart
<1>q. Code!IInv'
    BY <1>1, <1>2, <1>3, <1>4, <1>5, <1>6, <1>7, <1>8, <1>9, <1>10, <1>11, <1>p, CodeWhole
<1> QED
    BY <1>q, <1>w

LEMMA CodeDeletionAnsweredKeeps ==
    ASSUME Code!IInv, Code!DeletionAnswered
    PROVE  Code!IInv' /\ \A t \in Sends : Code!WantedStart(t)
<1>a. /\ Code!RowsOK /\ Code!OwnerOK /\ Code!JobsOK /\ Code!NativeOK /\ Code!LeftOK
      /\ Code!FreshOK /\ Code!NamesOK /\ Code!StagesOK /\ Code!OneOpens /\ Code!AllHeld /\ Code!ShutOK
      /\ \A t \in Sends : Code!TurnSane(t) /\ Code!RunSane(t) /\ Code!JobSane(t) /\ Code!HeardSane(t)
    BY CodeParts
<1>u. UNCHANGED <<codeSession, codeRuns, codeLatest, codeFresh, codeCalls, codeWork, codeFails, codeInterrupts, codeHalting, codeService, codeProcess, codeTurns, codeLeft>>
    BY DEF Code!DeletionAnswered, Code!rows
<1>k. /\ codeOwner.connection \in Code!Gens /\ codeOwner.stored \in BOOLEAN
      /\ codeOwner.overtaken \in BOOLEAN /\ codeOwner.finished \in BOOLEAN
      /\ codeSession.model \in Code!Models /\ codeSession.thread \in BOOLEAN
      /\ codeDeletion.gen \in Code!Gens /\ codeService.gen \in Code!Gens /\ codeHalting.gen \in Code!Gens
      /\ \A t \in Sends : /\ codeWork[t].gen \in Code!Gens /\ codeFails[t].gen \in Code!Gens
                          /\ codeInterrupts[t].gen \in Code!Gens /\ codeTurns[t].gen \in Code!Gens
                          /\ codeTurns[t].asked \in Nat /\ codeRuns[t].model \in Code!Models
                          /\ codeRuns[t].stop \in BOOLEAN /\ codeRuns[t].submitted \in BOOLEAN
                          /\ codeRuns[t].turn \in Sends \cup {NoSend}
      /\ 0 \in Code!Gens /\ 0 \notin Code!Generations
      /\ \A h \in Code!Gens : h # 0 => h \in Code!Generations
    BY <1>a, CodeFields
<1>e1. /\ codeDeletion.at \in {"opening", "launching", "asking"} /\ codeDeletion' \in Code!Deletions
       /\ codeDeletion'.at \in {"complete", "conflict", "uncertain"} /\ codeDeletion'.gen = codeOwner.connection
       /\ codeOwner' \in Code!Owners /\ codeOwner'.connection = 0 /\ codeOwner'.stored = codeOwner.stored
       /\ codeOwner'.overtaken = codeOwner.overtaken
    <2>1. PICK c \in Code!Gens : c = codeOwner.connection
        BY <1>k
    <2>2. PICK outcome \in {"complete", "conflict", "uncertain"} :
             codeDeletion' = Code!DeletionAt(outcome, c) /\ codeOwner' = Code!Detached
        BY <2>1 DEF Code!DeletionAnswered, Code!Settles
    <2>3. codeDeletion' \in Code!Deletions /\ codeDeletion'.at = outcome /\ codeDeletion'.gen = c
        BY <2>2, <1>a, CodeDeletionAt
    <2> QED
        BY <2>1, <2>2, <2>3, <1>a, CodeDetached DEF Code!DeletionAnswered
<1>e2. codeHistory' \in BOOLEAN
    BY <1>a DEF Code!DeletionAnswered, Code!NativeOK
<1>1. Code!RowsOK'
    BY <1>a, <1>u DEF Code!RowsOK
<1>2. Code!OwnerOK'
    BY <1>a, <1>u, <1>k, <1>e1, <1>e2 DEF Code!OwnerOK
<1>3. Code!JobsOK'
    BY <1>a, <1>u, <1>k, <1>e1, <1>e2 DEF Code!JobsOK
<1>4. Code!NativeOK'
    BY <1>a, <1>u, <1>k, <1>e1, <1>e2 DEF Code!NativeOK
<1>5. Code!LeftOK'
    BY <1>a, <1>u DEF Code!LeftOK, Code!Kinds
<1>6. Code!FreshOK'
    BY <1>a, <1>u DEF Code!FreshOK
<1>7. Code!NamesOK'
    BY <1>a, <1>u, <1>k, <1>e1, <1>e2 DEF Code!NamesOK, Code!Named
<1>8. Code!StagesOK'
    BY <1>a, <1>u, <1>k, <1>e1, <1>e2 DEF Code!StagesOK, Code!Deleted
<1>9. Code!OneOpens'
    BY <1>a, <1>u, <1>k, <1>e1, <1>e2 DEF Code!OneOpens, Code!Opening, Code!Accepting,
        Code!Running, Code!At
<1>10. Code!AllHeld'
    BY <1>a, <1>u, <1>k, <1>e1, <1>e2 DEF Code!AllHeld, Code!IsHeld, Code!ClosesIt, Code!Exists
<1>11. Code!ShutOK'
    BY <1>a, <1>u, <1>k, <1>e1, <1>e2 DEF Code!ShutOK, Code!InUse, Code!At, Code!Exists,
        Code!Deleted
<1>p. ASSUME NEW t \in Sends PROVE Code!TurnSane(t)' /\ Code!RunSane(t)' /\ Code!JobSane(t)' /\ Code!HeardSane(t)'
    <2>1. Code!TurnSane(t)'
        BY <1>a, <1>u DEF Code!TurnSane, Code!NoTurn
    <2>2. Code!RunSane(t)'
        BY <1>a, <1>u DEF Code!RunSane, Code!Deleted
    <2>3. Code!JobSane(t)'
        BY <1>a, <1>u DEF Code!JobSane, Code!Unsubmitted, Code!At, Code!Deleted
    <2>4. Code!HeardSane(t)'
        BY <1>a, <1>u, <1>k, <1>e1, <1>e2 DEF Code!HeardSane, Code!Unheard, Code!Running,
            Code!At, Code!Deleted, Code!JobSane
    <2> QED
        BY <2>1, <2>2, <2>3, <2>4
<1>w. \A t \in Sends : Code!WantedStart(t)
    BY <1>u DEF Code!WantedStart
<1>q. Code!IInv'
    BY <1>1, <1>2, <1>3, <1>4, <1>5, <1>6, <1>7, <1>8, <1>9, <1>10, <1>11, <1>p, CodeWhole
<1> QED
    BY <1>q, <1>w

LEMMA CodeDeletionFailsKeeps ==
    ASSUME Code!IInv, Code!DeletionFails
    PROVE  Code!IInv' /\ \A t \in Sends : Code!WantedStart(t)
<1>a. /\ Code!RowsOK /\ Code!OwnerOK /\ Code!JobsOK /\ Code!NativeOK /\ Code!LeftOK
      /\ Code!FreshOK /\ Code!NamesOK /\ Code!StagesOK /\ Code!OneOpens /\ Code!AllHeld /\ Code!ShutOK
      /\ \A t \in Sends : Code!TurnSane(t) /\ Code!RunSane(t) /\ Code!JobSane(t) /\ Code!HeardSane(t)
    BY CodeParts
<1>u. UNCHANGED <<codeSession, codeRuns, codeLatest, codeFresh, codeCalls, codeWork, codeFails, codeInterrupts, codeHalting, codeService, codeProcess, codeTurns>>
    BY DEF Code!DeletionFails, Code!rows
<1>k. /\ codeOwner.connection \in Code!Gens /\ codeOwner.stored \in BOOLEAN
      /\ codeOwner.overtaken \in BOOLEAN /\ codeOwner.finished \in BOOLEAN
      /\ codeSession.model \in Code!Models /\ codeSession.thread \in BOOLEAN
      /\ codeDeletion.gen \in Code!Gens /\ codeService.gen \in Code!Gens /\ codeHalting.gen \in Code!Gens
      /\ \A t \in Sends : /\ codeWork[t].gen \in Code!Gens /\ codeFails[t].gen \in Code!Gens
                          /\ codeInterrupts[t].gen \in Code!Gens /\ codeTurns[t].gen \in Code!Gens
                          /\ codeTurns[t].asked \in Nat /\ codeRuns[t].model \in Code!Models
                          /\ codeRuns[t].stop \in BOOLEAN /\ codeRuns[t].submitted \in BOOLEAN
                          /\ codeRuns[t].turn \in Sends \cup {NoSend}
      /\ 0 \in Code!Gens /\ 0 \notin Code!Generations
      /\ \A h \in Code!Gens : h # 0 => h \in Code!Generations
    BY <1>a, CodeFields
<1>e1. /\ codeDeletion.at \in {"opening", "launching", "asking"} /\ codeDeletion' \in Code!Deletions
       /\ codeDeletion'.at \in {"complete", "conflict", "uncertain"} /\ codeDeletion'.gen = codeOwner.connection
       /\ codeOwner' \in Code!Owners /\ codeOwner'.connection = 0 /\ codeOwner'.stored = codeOwner.stored
       /\ codeOwner'.overtaken = codeOwner.overtaken
    <2>1. PICK c \in Code!Gens : c = codeOwner.connection
        BY <1>k
    <2>2. PICK outcome \in {"complete", "conflict", "uncertain"} :
             codeDeletion' = Code!DeletionAt(outcome, c) /\ codeOwner' = Code!Detached
        BY <2>1 DEF Code!DeletionFails, Code!Settles
    <2>3. codeDeletion' \in Code!Deletions /\ codeDeletion'.at = outcome /\ codeDeletion'.gen = c
        BY <2>2, <1>a, CodeDeletionAt
    <2> QED
        BY <2>1, <2>2, <2>3, <1>a, CodeDetached DEF Code!DeletionFails
<1>e2. codeHistory' \in BOOLEAN
    BY <1>a DEF Code!DeletionFails, Code!NativeOK
<1>e3. Code!LeftOK'
    BY <1>a DEF Code!DeletionFails, Code!Spend, Code!Fault, Code!LeftOK, Code!Kinds
<1>1. Code!RowsOK'
    BY <1>a, <1>u DEF Code!RowsOK
<1>2. Code!OwnerOK'
    BY <1>a, <1>u, <1>k, <1>e1, <1>e2, <1>e3 DEF Code!OwnerOK
<1>3. Code!JobsOK'
    BY <1>a, <1>u, <1>k, <1>e1, <1>e2, <1>e3 DEF Code!JobsOK
<1>4. Code!NativeOK'
    BY <1>a, <1>u, <1>k, <1>e1, <1>e2, <1>e3 DEF Code!NativeOK
<1>5. Code!LeftOK'
    BY <1>e1, <1>e2, <1>e3
<1>6. Code!FreshOK'
    BY <1>a, <1>u DEF Code!FreshOK
<1>7. Code!NamesOK'
    BY <1>a, <1>u, <1>k, <1>e1, <1>e2, <1>e3 DEF Code!NamesOK, Code!Named
<1>8. Code!StagesOK'
    BY <1>a, <1>u, <1>k, <1>e1, <1>e2, <1>e3 DEF Code!StagesOK, Code!Deleted
<1>9. Code!OneOpens'
    BY <1>a, <1>u, <1>k, <1>e1, <1>e2, <1>e3 DEF Code!OneOpens, Code!Opening, Code!Accepting,
        Code!Running, Code!At
<1>10. Code!AllHeld'
    BY <1>a, <1>u, <1>k, <1>e1, <1>e2, <1>e3 DEF Code!AllHeld, Code!IsHeld, Code!ClosesIt,
        Code!Exists
<1>11. Code!ShutOK'
    BY <1>a, <1>u, <1>k, <1>e1, <1>e2, <1>e3 DEF Code!ShutOK, Code!InUse, Code!At, Code!Exists,
        Code!Deleted
<1>p. ASSUME NEW t \in Sends PROVE Code!TurnSane(t)' /\ Code!RunSane(t)' /\ Code!JobSane(t)' /\ Code!HeardSane(t)'
    <2>1. Code!TurnSane(t)'
        BY <1>a, <1>u DEF Code!TurnSane, Code!NoTurn
    <2>2. Code!RunSane(t)'
        BY <1>a, <1>u DEF Code!RunSane, Code!Deleted
    <2>3. Code!JobSane(t)'
        BY <1>a, <1>u DEF Code!JobSane, Code!Unsubmitted, Code!At, Code!Deleted
    <2>4. Code!HeardSane(t)'
        BY <1>a, <1>u, <1>k, <1>e1, <1>e2, <1>e3 DEF Code!HeardSane, Code!Unheard, Code!Running,
            Code!At, Code!Deleted, Code!JobSane
    <2> QED
        BY <2>1, <2>2, <2>3, <2>4
<1>w. \A t \in Sends : Code!WantedStart(t)
    BY <1>u DEF Code!WantedStart
<1>q. Code!IInv'
    BY <1>1, <1>2, <1>3, <1>4, <1>5, <1>6, <1>7, <1>8, <1>9, <1>10, <1>11, <1>p, CodeWhole
<1> QED
    BY <1>q, <1>w

LEMMA CodeDeletionEndsKeeps ==
    ASSUME Code!IInv, Code!DeletionEnds
    PROVE  Code!IInv' /\ \A t \in Sends : Code!WantedStart(t)
<1>a. /\ Code!RowsOK /\ Code!OwnerOK /\ Code!JobsOK /\ Code!NativeOK /\ Code!LeftOK
      /\ Code!FreshOK /\ Code!NamesOK /\ Code!StagesOK /\ Code!OneOpens /\ Code!AllHeld /\ Code!ShutOK
      /\ \A t \in Sends : Code!TurnSane(t) /\ Code!RunSane(t) /\ Code!JobSane(t) /\ Code!HeardSane(t)
    BY CodeParts
<1>u. UNCHANGED <<codeCalls, codeWork, codeFails, codeInterrupts, codeHalting, codeService, codeProcess, codeHistory, codeTurns, codeLeft>>
    BY DEF Code!DeletionEnds, Code!native
<1>k. /\ codeOwner.connection \in Code!Gens /\ codeOwner.stored \in BOOLEAN
      /\ codeOwner.overtaken \in BOOLEAN /\ codeOwner.finished \in BOOLEAN
      /\ codeSession.model \in Code!Models /\ codeSession.thread \in BOOLEAN
      /\ codeDeletion.gen \in Code!Gens /\ codeService.gen \in Code!Gens /\ codeHalting.gen \in Code!Gens
      /\ \A t \in Sends : /\ codeWork[t].gen \in Code!Gens /\ codeFails[t].gen \in Code!Gens
                          /\ codeInterrupts[t].gen \in Code!Gens /\ codeTurns[t].gen \in Code!Gens
                          /\ codeTurns[t].asked \in Nat /\ codeRuns[t].model \in Code!Models
                          /\ codeRuns[t].stop \in BOOLEAN /\ codeRuns[t].submitted \in BOOLEAN
                          /\ codeRuns[t].turn \in Sends \cup {NoSend}
      /\ 0 \in Code!Gens /\ 0 \notin Code!Generations
      /\ \A h \in Code!Gens : h # 0 => h \in Code!Generations
    BY <1>a, CodeFields
<1>e1. /\ codeDeletion.at \in {"complete", "conflict", "uncertain"} /\ Code!Gone(codeDeletion.gen)
       /\ codeFresh' = {} /\ codeSession.status \in {"deleting", "delete_uncertain"}
    BY <1>a DEF Code!DeletionEnds, Code!StagesOK
<1>e2. codeOwner' \in Code!Owners /\ codeOwner'.connection = codeOwner.connection /\ codeOwner'.stored = codeOwner.stored /\ codeOwner'.overtaken = codeOwner.overtaken
    BY <1>a DEF Code!DeletionEnds, Code!OwnerOK, Code!Owners
<1>e3. /\ codeDeletion' \in Code!Deletions /\ codeDeletion'.gen = 0
       /\ \/ codeDeletion'.at = "none"
          \/ codeDeletion'.at = "opening" /\ codeDeletion.at = "uncertain" /\ codeOwner.stored
    <2>1. CASE codeDeletion.at = "uncertain" /\ ~codeDeletion.reconcile /\ codeOwner.stored
        <3>1. codeDeletion' = [at |-> "opening", gen |-> 0, reconcile |-> TRUE]
            BY <2>1 DEF Code!DeletionEnds
        <3> QED
            BY <2>1, <3>1, <1>k DEF Code!Deletions
    <2>2. CASE ~(codeDeletion.at = "uncertain" /\ ~codeDeletion.reconcile /\ codeOwner.stored)
        <3>1. codeDeletion' = Code!DeletionAt("none", 0)
            BY <2>2 DEF Code!DeletionEnds
        <3> QED
            BY <3>1, <1>a, <1>k, CodeDeletionAt
    <2> QED
        BY <2>1, <2>2
<1>e4. \/ /\ codeSession' \in Code!SessionRows /\ codeSession'.status = "deleted" /\ codeLatest' = NoSend
          /\ codeDeletion.at = "complete" /\ codeRuns' \in [Sends -> Code!RunRows]
          /\ \A t \in Sends : /\ codeRuns'[t].status = "none" /\ ~codeRuns'[t].submitted
                             /\ codeRuns'[t].turn = NoSend
       \/ /\ codeSession' \in Code!SessionRows /\ codeLatest' = codeLatest /\ codeRuns' = codeRuns
          /\ codeSession'.status \in {"ready", "deleting", "delete_uncertain"}
          /\ codeDeletion.at # "complete"
          /\ codeDeletion.at = "uncertain" /\ codeOwner.stored => codeSession'.status = "delete_uncertain"
    <2>1. CASE codeDeletion.at = "complete"
        <3>1. /\ codeSession' = [codeSession EXCEPT !.status = "deleted"] /\ codeLatest' = NoSend
              /\ codeRuns' = [t \in Sends |-> [Code!NewRun(0) EXCEPT !.status = "none"]]
            BY <2>1 DEF Code!DeletionEnds
        <3>2. codeSession' \in Code!SessionRows /\ codeSession'.status = "deleted"
            BY <3>1, <1>a DEF Code!RowsOK, Code!SessionRows
        <3>3. PICK r \in Code!RunRows : /\ r = [Code!NewRun(0) EXCEPT !.status = "none"]
                                   /\ r.status = "none" /\ ~r.submitted /\ r.turn = NoSend
            <4>1. PICK n \in Code!RunRows : n = Code!NewRun(0) /\ ~n.submitted /\ n.turn = NoSend
                <5>1. "preparing" \in Code!Statuses /\ 0 \in Code!Models
                    BY DEF Code!Statuses, Code!Active, Code!Models
                <5>2. Code!NewRun(0) \in Code!RunRows /\ ~Code!NewRun(0).submitted /\ Code!NewRun(0).turn = NoSend
                    BY <5>1 DEF Code!NewRun, Code!RunRows
                <5> QED
                    BY <5>2
            <4> DEFINE e == [n EXCEPT !.status = "none"]
            <4>2. e \in Code!RunRows /\ e.status = "none" /\ ~e.submitted /\ e.turn = NoSend
                BY <4>1 DEF Code!RunRows, Code!Statuses
            <4>3. e = [Code!NewRun(0) EXCEPT !.status = "none"]
                BY <4>1
            <4> QED
                BY <4>2, <4>3
        <3>4. codeRuns' = [t \in Sends |-> r]
            BY <3>1, <3>3
        <3> QED
            BY <2>1, <3>1, <3>2, <3>3, <3>4
    <2>2. CASE codeDeletion.at # "complete"
        <3>1. /\ codeSession' = IF codeOwner.stored
                            THEN [codeSession EXCEPT !.status = IF codeDeletion.at = "conflict"
                                                            THEN "ready" ELSE "delete_uncertain"]
                            ELSE codeSession
              /\ codeRuns' = codeRuns /\ codeLatest' = codeLatest
            BY <2>2 DEF Code!DeletionEnds
        <3> QED
            BY <2>2, <3>1, <1>a, <1>e1 DEF Code!RowsOK, Code!SessionRows
    <2> QED
        BY <2>1, <2>2
<1>1. Code!RowsOK'
    BY <1>a, <1>u, <1>k, <1>e1, <1>e2, <1>e3, <1>e4 DEF Code!RowsOK
<1>2. Code!OwnerOK'
    BY <1>a, <1>u, <1>k, <1>e1, <1>e2, <1>e3, <1>e4 DEF Code!OwnerOK
<1>3. Code!JobsOK'
    BY <1>a, <1>u, <1>k, <1>e1, <1>e2, <1>e3, <1>e4 DEF Code!JobsOK
<1>4. Code!NativeOK'
    BY <1>a, <1>u DEF Code!NativeOK
<1>5. Code!LeftOK'
    BY <1>a, <1>u DEF Code!LeftOK, Code!Kinds
<1>6. Code!FreshOK'
    BY <1>a, <1>u, <1>k, <1>e1, <1>e2, <1>e3, <1>e4 DEF Code!FreshOK
<1>7. Code!NamesOK'
    BY <1>a, <1>u, <1>k, <1>e1, <1>e2, <1>e3, <1>e4 DEF Code!NamesOK, Code!Named
<1>8. Code!StagesOK'
    BY <1>a, <1>u, <1>k, <1>e1, <1>e2, <1>e3, <1>e4 DEF Code!StagesOK, Code!Deleted
<1>9. Code!OneOpens'
    BY <1>a, <1>u, <1>k, <1>e1, <1>e2, <1>e3, <1>e4 DEF Code!OneOpens, Code!Opening,
        Code!Accepting, Code!Running, Code!At
<1>10. Code!AllHeld'
    BY <1>a, <1>u, <1>k, <1>e1, <1>e2, <1>e3, <1>e4 DEF Code!AllHeld, Code!IsHeld,
        Code!ClosesIt, Code!Exists, Code!Gone
<1>11. Code!ShutOK'
    BY <1>a, <1>u, <1>k, <1>e1, <1>e2, <1>e3, <1>e4 DEF Code!ShutOK, Code!InUse, Code!At,
        Code!Exists, Code!Deleted
<1>p. ASSUME NEW t \in Sends PROVE Code!TurnSane(t)' /\ Code!RunSane(t)' /\ Code!JobSane(t)' /\ Code!HeardSane(t)'
    <2>1. Code!TurnSane(t)'
        BY <1>a, <1>u DEF Code!TurnSane, Code!NoTurn
    <2>2. Code!RunSane(t)'
        BY <1>a, <1>u, <1>k, <1>e1, <1>e2, <1>e3, <1>e4 DEF Code!RunSane, Code!Deleted
    <2>3. Code!JobSane(t)'
        BY <1>a, <1>u, <1>k, <1>e1, <1>e2, <1>e3, <1>e4 DEF Code!JobSane, Code!Unsubmitted,
            Code!At, Code!Deleted
    <2>4. Code!HeardSane(t)'
        BY <1>a, <1>u, <1>k, <1>e1, <1>e2, <1>e3, <1>e4 DEF Code!HeardSane, Code!Unheard,
            Code!Running, Code!At, Code!Deleted
    <2> QED
        BY <2>1, <2>2, <2>3, <2>4
<1>w. \A t \in Sends : Code!WantedStart(t)
    BY <1>a, <1>e1, <1>e2, <1>e3, <1>e4 DEF Code!WantedStart, Code!Final, Code!Active
<1>q. Code!IInv'
    BY <1>1, <1>2, <1>3, <1>4, <1>5, <1>6, <1>7, <1>8, <1>9, <1>10, <1>11, <1>p, CodeWhole
<1> QED
    BY <1>q, <1>w

LEMMA CodeRestartKeeps ==
    ASSUME Code!IInv, Code!Restart
    PROVE  Code!IInv' /\ \A t \in Sends : Code!WantedStart(t)
<1>a. /\ Code!RowsOK /\ Code!OwnerOK /\ Code!JobsOK /\ Code!NativeOK /\ Code!LeftOK
      /\ Code!FreshOK /\ Code!NamesOK /\ Code!StagesOK /\ Code!OneOpens /\ Code!AllHeld /\ Code!ShutOK
      /\ \A t \in Sends : Code!TurnSane(t) /\ Code!RunSane(t) /\ Code!JobSane(t) /\ Code!HeardSane(t)
    BY CodeParts
<1>u. UNCHANGED <<codeSession, codeLatest, codeHistory, codeTurns>>
    BY DEF Code!Restart
<1>k. /\ codeOwner.connection \in Code!Gens /\ codeOwner.stored \in BOOLEAN
      /\ codeOwner.overtaken \in BOOLEAN /\ codeOwner.finished \in BOOLEAN
      /\ codeSession.model \in Code!Models /\ codeSession.thread \in BOOLEAN
      /\ codeDeletion.gen \in Code!Gens /\ codeService.gen \in Code!Gens /\ codeHalting.gen \in Code!Gens
      /\ \A t \in Sends : /\ codeWork[t].gen \in Code!Gens /\ codeFails[t].gen \in Code!Gens
                          /\ codeInterrupts[t].gen \in Code!Gens /\ codeTurns[t].gen \in Code!Gens
                          /\ codeTurns[t].asked \in Nat /\ codeRuns[t].model \in Code!Models
                          /\ codeRuns[t].stop \in BOOLEAN /\ codeRuns[t].submitted \in BOOLEAN
                          /\ codeRuns[t].turn \in Sends \cup {NoSend}
      /\ 0 \in Code!Gens /\ 0 \notin Code!Generations
      /\ \A h \in Code!Gens : h # 0 => h \in Code!Generations
    BY <1>a, CodeFields
<1>e1. /\ codeService' \in Code!Services /\ codeService'.mode = "up" /\ codeService'.step = 0 /\ codeService'.gen = 0
       /\ codeFresh' = {} /\ codeCalls' \in [Calls -> Code!Models \cup {Code!NoModel}]
    BY <1>k DEF Code!Restart, Code!Services
<1>e2. /\ codeRuns' \in [Sends -> Code!RunRows]
       /\ \A t \in Sends : /\ codeRuns'[t].submitted = codeRuns[t].submitted /\ codeRuns'[t].turn = codeRuns[t].turn
                          /\ \/ codeRuns'[t] = codeRuns[t]
                             \/ codeRuns[t].status \in Code!Active /\ codeRuns'[t].status = "interrupted"
    <2>1. \A r \in Code!RunRows : LET i == [r EXCEPT !.status = "interrupted"] IN
             i \in Code!RunRows /\ i.submitted = r.submitted /\ i.turn = r.turn /\ i.status = "interrupted"
        BY DEF Code!RunRows, Code!Statuses, Code!Final
    <2>2. codeRuns' = [t \in Sends |-> IF codeRuns[t].status \in Code!Active
                                  THEN [codeRuns[t] EXCEPT !.status = "interrupted"] ELSE codeRuns[t]]
        BY DEF Code!Restart
    <2>3. \A t \in Sends : codeRuns[t] \in Code!RunRows
        BY <1>a DEF Code!RowsOK
    <2> QED
        BY <2>1, <2>2, <2>3
<1>e3. /\ codeOwner' \in Code!Owners /\ codeOwner'.connection = 0 /\ codeOwner'.stored = TRUE /\ codeOwner'.overtaken = FALSE
    BY <1>k DEF Code!Restart, Code!NewOwner, Code!Owners
<1>e4. /\ codeWork' \in [Sends -> Code!WorkJobs] /\ codeFails' \in [Sends -> Code!FailJobs]
       /\ codeInterrupts' \in [Sends -> Code!InterruptJobs] /\ codeHalting' \in Code!FailJobs
       /\ \A t \in Sends : /\ codeWork'[t].at = "none" /\ codeWork'[t].gen = 0 /\ codeFails'[t].at = "none"
                          /\ codeFails'[t].gen = 0 /\ codeInterrupts'[t].at = "none" /\ codeInterrupts'[t].gen = 0
       /\ codeHalting'.at = "none" /\ codeHalting'.gen = 0
    BY <1>k DEF Code!Restart, Code!Nothing, Code!Job, Code!WorkJobs, Code!FailJobs,
        Code!InterruptJobs
<1>e5. /\ codeDeletion' \in Code!Deletions /\ codeDeletion'.gen = 0
       /\ \/ codeDeletion'.at = "none"
          \/ codeDeletion'.at = "opening" /\ codeSession.status \in {"deleting", "delete_uncertain"}
    BY <1>k DEF Code!Restart, Code!Deletions
<1>e6. /\ codeProcess' \in [Code!Generations -> {"none", "alive", "silent", "gone"}]
       /\ \A g \in Code!Generations :
             /\ codeProcess'[g] \in {"none", "gone"}
             /\ codeProcess[g] # "none" => codeProcess'[g] # "none"
    BY  DEF Code!Restart
<1>e7. Code!LeftOK'
    BY <1>a DEF Code!Restart, Code!Spend, Code!Fault, Code!LeftOK, Code!Kinds
<1>1. Code!RowsOK'
    BY <1>a, <1>u, <1>k, <1>e1, <1>e2, <1>e3, <1>e4, <1>e5, <1>e6, <1>e7 DEF Code!RowsOK
<1>2. Code!OwnerOK'
    BY <1>a, <1>u, <1>k, <1>e1, <1>e2, <1>e3, <1>e4, <1>e5, <1>e6, <1>e7 DEF Code!OwnerOK
<1>3. Code!JobsOK'
    BY <1>a, <1>u, <1>k, <1>e1, <1>e2, <1>e3, <1>e4, <1>e5, <1>e6, <1>e7 DEF Code!JobsOK
<1>4. Code!NativeOK'
    BY <1>a, <1>u, <1>k, <1>e1, <1>e2, <1>e3, <1>e4, <1>e5, <1>e6, <1>e7 DEF Code!NativeOK
<1>5. Code!LeftOK'
    BY <1>e1, <1>e2, <1>e3, <1>e4, <1>e5, <1>e6, <1>e7
<1>6. Code!FreshOK'
    BY <1>a, <1>u, <1>k, <1>e1, <1>e2, <1>e3, <1>e4, <1>e5, <1>e6, <1>e7 DEF Code!FreshOK
<1>7. Code!NamesOK'
    BY <1>a, <1>u, <1>k, <1>e1, <1>e2, <1>e3, <1>e4, <1>e5, <1>e6, <1>e7 DEF Code!NamesOK,
        Code!Named
<1>8. Code!StagesOK'
    BY <1>a, <1>u, <1>k, <1>e1, <1>e2, <1>e3, <1>e4, <1>e5, <1>e6, <1>e7 DEF Code!StagesOK,
        Code!Deleted
<1>9. Code!OneOpens'
    BY <1>a, <1>u, <1>k, <1>e1, <1>e2, <1>e3, <1>e4, <1>e5, <1>e6, <1>e7 DEF Code!OneOpens,
        Code!Opening, Code!Accepting, Code!Running, Code!At
<1>10. Code!AllHeld'
    <2>1. \A g \in Code!Generations : ~Code!Exists(g)'
        BY <1>e6 DEF Code!Exists
    <2> QED
        BY <2>1 DEF Code!AllHeld
<1>11. Code!ShutOK'
    BY <1>a, <1>u, <1>k, <1>e1, <1>e2, <1>e3, <1>e4, <1>e5, <1>e6, <1>e7 DEF Code!ShutOK,
        Code!InUse, Code!At, Code!Exists, Code!Deleted
<1>p. ASSUME NEW t \in Sends PROVE Code!TurnSane(t)' /\ Code!RunSane(t)' /\ Code!JobSane(t)' /\ Code!HeardSane(t)'
    <2>1. Code!TurnSane(t)'
        BY <1>a, <1>u DEF Code!TurnSane, Code!NoTurn
    <2>2. Code!RunSane(t)'
        BY <1>a, <1>u, <1>k, <1>e1, <1>e2, <1>e3, <1>e4, <1>e5, <1>e6, <1>e7 DEF Code!RunSane,
            Code!Deleted, Code!Active
    <2>3. Code!JobSane(t)'
        BY <1>a, <1>u, <1>k, <1>e1, <1>e2, <1>e3, <1>e4, <1>e5, <1>e6, <1>e7 DEF Code!JobSane,
            Code!Unsubmitted, Code!At, Code!Deleted
    <2>4. Code!HeardSane(t)'
        BY <1>a, <1>u, <1>k, <1>e1, <1>e2, <1>e3, <1>e4, <1>e5, <1>e6, <1>e7 DEF Code!HeardSane,
            Code!Unheard, Code!Running, Code!At, Code!Deleted
    <2> QED
        BY <2>1, <2>2, <2>3, <2>4
<1>w. \A t \in Sends : Code!WantedStart(t)
    BY <1>a, <1>e1, <1>e2, <1>e3, <1>e4, <1>e5, <1>e6, <1>e7 DEF Code!WantedStart, Code!Final,
        Code!Active
<1>q. Code!IInv'
    BY <1>1, <1>2, <1>3, <1>4, <1>5, <1>6, <1>7, <1>8, <1>9, <1>10, <1>11, <1>p, CodeWhole
<1> QED
    BY <1>q, <1>w

LEMMA CodeBindKeeps ==
    ASSUME Code!IInv, NEW s \in Sends, Code!Bind(s)
    PROVE  Code!IInv' /\ \A t \in Sends : Code!WantedStart(t)
<1>a. /\ Code!RowsOK /\ Code!OwnerOK /\ Code!JobsOK /\ Code!NativeOK /\ Code!LeftOK
      /\ Code!FreshOK /\ Code!NamesOK /\ Code!StagesOK /\ Code!OneOpens /\ Code!AllHeld /\ Code!ShutOK
      /\ \A t \in Sends : Code!TurnSane(t) /\ Code!RunSane(t) /\ Code!JobSane(t) /\ Code!HeardSane(t)
    BY CodeParts
<1>u. UNCHANGED <<codeSession, codeLatest, codeFresh, codeCalls, codeFails, codeDeletion, codeHalting, codeService, codeProcess, codeHistory, codeTurns, codeLeft>>
    BY DEF Code!Bind, Code!native
<1>k. /\ codeOwner.connection \in Code!Gens /\ codeOwner.stored \in BOOLEAN
      /\ codeOwner.overtaken \in BOOLEAN /\ codeOwner.finished \in BOOLEAN
      /\ codeSession.model \in Code!Models /\ codeSession.thread \in BOOLEAN
      /\ codeDeletion.gen \in Code!Gens /\ codeService.gen \in Code!Gens /\ codeHalting.gen \in Code!Gens
      /\ \A t \in Sends : /\ codeWork[t].gen \in Code!Gens /\ codeFails[t].gen \in Code!Gens
                          /\ codeInterrupts[t].gen \in Code!Gens /\ codeTurns[t].gen \in Code!Gens
                          /\ codeTurns[t].asked \in Nat /\ codeRuns[t].model \in Code!Models
                          /\ codeRuns[t].stop \in BOOLEAN /\ codeRuns[t].submitted \in BOOLEAN
                          /\ codeRuns[t].turn \in Sends \cup {NoSend}
      /\ 0 \in Code!Gens /\ 0 \notin Code!Generations
      /\ \A h \in Code!Gens : h # 0 => h \in Code!Generations
    BY <1>a, CodeFields
<1>e1. codeWork[s].at = "sent" /\ codeTurns[s].asked = 1
    BY <1>a DEF Code!Bind, Code!At, Code!JobSane
<1>e2. PICK o \in Code!Owners : o = codeOwner
    BY <1>a DEF Code!OwnerOK
<1>e3. /\ codeRuns' \in [Sends -> Code!RunRows] /\ codeInterrupts' \in [Sends -> Code!InterruptJobs]
       /\ codeWork' \in [Sends -> Code!WorkJobs] /\ codeOwner' \in Code!Owners
       /\ codeOwner'.stored = codeOwner.stored /\ codeOwner'.overtaken = codeOwner.overtaken
       /\ \A t \in Sends : t # s => /\ codeRuns'[t] = codeRuns[t] /\ codeInterrupts'[t] = codeInterrupts[t]
                                   /\ codeWork'[t] = codeWork[t]
       /\ \/ /\ codeLatest = s /\ codeRuns[s].status \in Code!Active /\ codeRuns'[s].turn = s
             /\ codeRuns'[s].submitted = codeRuns[s].submitted /\ codeRuns'[s].stop = codeRuns[s].stop
             /\ codeRuns'[s].status = IF codeRuns[s].stop THEN "stopping" ELSE "running"
             /\ \/ codeInterrupts'[s] = codeInterrupts[s]
                \/ codeInterrupts[s].at = "none" /\ codeInterrupts'[s].at = "asking" /\ codeInterrupts'[s].gen = codeOwner.connection
             /\ codeWork'[s].at = "waiting" /\ codeWork'[s].gen = codeWork[s].gen
             /\ codeOwner'.connection = codeOwner.connection
          \/ /\ codeRuns'[s] = codeRuns[s] /\ codeInterrupts'[s] = codeInterrupts[s]
             /\ \/ /\ codeService.mode = "up" /\ codeOwner.stored
                   /\ codeWork'[s].at = "none" /\ codeWork'[s].gen = 0 /\ codeOwner'.connection = codeOwner.connection
                \/ codeWork'[s].at = "leaving" /\ codeWork'[s].gen = codeOwner.connection /\ codeOwner'.connection = 0
    <2>1. CASE Code!Running(s)
        <3>1. PICK rs \in [Sends -> Code!RunRows] : rs = Code!Bound(s, s)
            BY <1>a, CodeBound
        <3>2. /\ codeRuns' = Code!Bound(s, s) /\ codeInterrupts' = Code!Interrupting(rs, s)
              /\ codeWork' = [codeWork EXCEPT ![s].at = "waiting"] /\ codeOwner' = codeOwner
            BY <2>1, <3>1 DEF Code!Bind
        <3>3. /\ codeInterrupts' \in [Sends -> Code!InterruptJobs]
              /\ \A t \in Sends : t # s => codeInterrupts'[t] = codeInterrupts[t]
              /\ \/ codeInterrupts'[s] = codeInterrupts[s]
                 \/ codeInterrupts[s].at = "none" /\ codeInterrupts'[s].at = "asking" /\ codeInterrupts'[s].gen = codeOwner.connection
            BY <3>2, <1>a, CodeInterrupting
        <3>4. /\ Code!Bound(s, s) \in [Sends -> Code!RunRows] /\ Code!Bound(s, s)[s].turn = s
              /\ Code!Bound(s, s)[s].status = IF codeRuns[s].stop THEN "stopping" ELSE "running"
              /\ Code!Bound(s, s)[s].stop = codeRuns[s].stop
              /\ Code!Bound(s, s)[s].submitted = codeRuns[s].submitted
              /\ \A t \in Sends : t # s => Code!Bound(s, s)[t] = codeRuns[t]
            BY <1>a, CodeBound
        <3>5. /\ codeWork' \in [Sends -> Code!WorkJobs] /\ codeWork'[s].at = "waiting"
              /\ codeWork'[s].gen = codeWork[s].gen /\ \A t \in Sends : t # s => codeWork'[t] = codeWork[t]
            BY <3>2, <1>a DEF Code!JobsOK, Code!WorkJobs
        <3> QED
            BY <2>1, <3>2, <3>3, <3>4, <3>5, <1>e2 DEF Code!Running
    <2>2. CASE ~Code!Running(s)
        <3>1. Code!Leaves(s, o) /\ codeRuns' = codeRuns /\ codeInterrupts' = codeInterrupts
            BY <2>2, <1>e2 DEF Code!Bind
        <3>2. /\ codeWork' \in [Sends -> Code!WorkJobs] /\ codeOwner' \in Code!Owners
              /\ \A t \in Sends : t # s => codeWork'[t] = codeWork[t]
              /\ codeOwner'.stored = o.stored /\ codeOwner'.overtaken = o.overtaken
              /\ \/ /\ codeService.mode = "up" /\ codeOwner.stored
                    /\ codeWork'[s].at = "none" /\ codeWork'[s].gen = 0
                    /\ codeOwner'.connection = o.connection
                 \/ /\ codeWork'[s].at = "leaving" /\ codeWork'[s].gen = o.connection
                    /\ codeOwner'.connection = 0
            BY <3>1, <1>a, CodeLeaves
        <3> QED
            BY <3>1, <3>2, <1>e2, <1>a DEF Code!RowsOK, Code!JobsOK
    <2> QED
        BY <2>1, <2>2
<1>1. Code!RowsOK'
    BY <1>a, <1>u, <1>k, <1>e1, <1>e2, <1>e3 DEF Code!RowsOK
<1>2. Code!OwnerOK'
    BY <1>a, <1>u, <1>k, <1>e1, <1>e2, <1>e3 DEF Code!OwnerOK
<1>3. Code!JobsOK'
    BY <1>a, <1>u, <1>k, <1>e1, <1>e2, <1>e3 DEF Code!JobsOK
<1>4. Code!NativeOK'
    BY <1>a, <1>u DEF Code!NativeOK
<1>5. Code!LeftOK'
    BY <1>a, <1>u DEF Code!LeftOK, Code!Kinds
<1>6. Code!FreshOK'
    BY <1>a, <1>u DEF Code!FreshOK
<1>7. Code!NamesOK'
    BY <1>a, <1>u, <1>k, <1>e1, <1>e2, <1>e3 DEF Code!NamesOK, Code!Named
<1>8. Code!StagesOK'
    BY <1>a, <1>u, <1>k, <1>e1, <1>e2, <1>e3 DEF Code!StagesOK, Code!Deleted
<1>9. Code!OneOpens'
    BY <1>a, <1>u, <1>k, <1>e1, <1>e2, <1>e3 DEF Code!OneOpens, Code!Opening, Code!Accepting,
        Code!Running, Code!At
<1>10. Code!AllHeld'
    <2>1. \A t \in Sends, h \in Code!Generations : Code!ClosesIt(t, h) => Code!ClosesIt(t, h)'
        BY <1>u, <1>e1, <1>e3 DEF Code!ClosesIt
    <2>2. \A h \in Code!Generations : h = codeOwner.connection => h = codeOwner'.connection \/ Code!ClosesIt(s, h)'
        BY <1>e3 DEF Code!ClosesIt
    <2>3. \A h \in Code!Generations : Code!IsHeld(h) => Code!IsHeld(h)'
        BY <2>1, <2>2, <1>u DEF Code!IsHeld
    <2> QED
        BY <2>3, <1>a, <1>u, <1>e3 DEF Code!AllHeld, Code!Exists
<1>11. Code!ShutOK'
    BY <1>a, <1>u, <1>k, <1>e1, <1>e2, <1>e3 DEF Code!ShutOK, Code!InUse, Code!At, Code!Exists,
        Code!Deleted, Code!StagesOK
<1>p. ASSUME NEW t \in Sends PROVE Code!TurnSane(t)' /\ Code!RunSane(t)' /\ Code!JobSane(t)' /\ Code!HeardSane(t)'
    <2>1. Code!TurnSane(t)'
        BY <1>a, <1>u DEF Code!TurnSane, Code!NoTurn
    <2>2. Code!RunSane(t)'
        BY <1>a, <1>u, <1>k, <1>e1, <1>e2, <1>e3 DEF Code!RunSane, Code!Deleted
    <2>3. Code!JobSane(t)'
        BY <1>a, <1>u, <1>k, <1>e1, <1>e2, <1>e3 DEF Code!JobSane, Code!Unsubmitted, Code!At,
            Code!Deleted
    <2>4. Code!HeardSane(t)'
        BY <1>a, <1>u, <1>k, <1>e1, <1>e2, <1>e3 DEF Code!HeardSane, Code!Unheard, Code!Running,
            Code!At, Code!Deleted, Code!JobSane
    <2> QED
        BY <2>1, <2>2, <2>3, <2>4
<1>w. \A t \in Sends : Code!WantedStart(t)
    BY <1>a, <1>e1, <1>e2, <1>e3 DEF Code!WantedStart, Code!Final, Code!Active
<1>q. Code!IInv'
    BY <1>1, <1>2, <1>3, <1>4, <1>5, <1>6, <1>7, <1>8, <1>9, <1>10, <1>11, <1>p, CodeWhole
<1> QED
    BY <1>q, <1>w

LEMMA CodeAttachKeeps ==
    ASSUME Code!IInv, NEW s \in Sends, Code!Attach(s)
    PROVE  Code!IInv' /\ \A t \in Sends : Code!WantedStart(t)
<1>a. /\ Code!RowsOK /\ Code!OwnerOK /\ Code!JobsOK /\ Code!NativeOK /\ Code!LeftOK
      /\ Code!FreshOK /\ Code!NamesOK /\ Code!StagesOK /\ Code!OneOpens /\ Code!AllHeld /\ Code!ShutOK
      /\ \A t \in Sends : Code!TurnSane(t) /\ Code!RunSane(t) /\ Code!JobSane(t) /\ Code!HeardSane(t)
    BY CodeParts
<1>u. UNCHANGED <<codeLatest, codeCalls, codeFails, codeInterrupts, codeDeletion, codeHalting, codeService, codeProcess, codeTurns, codeLeft>>
    BY DEF Code!Attach
<1>k. /\ codeOwner.connection \in Code!Gens /\ codeOwner.stored \in BOOLEAN
      /\ codeOwner.overtaken \in BOOLEAN /\ codeOwner.finished \in BOOLEAN
      /\ codeSession.model \in Code!Models /\ codeSession.thread \in BOOLEAN
      /\ codeDeletion.gen \in Code!Gens /\ codeService.gen \in Code!Gens /\ codeHalting.gen \in Code!Gens
      /\ \A t \in Sends : /\ codeWork[t].gen \in Code!Gens /\ codeFails[t].gen \in Code!Gens
                          /\ codeInterrupts[t].gen \in Code!Gens /\ codeTurns[t].gen \in Code!Gens
                          /\ codeTurns[t].asked \in Nat /\ codeRuns[t].model \in Code!Models
                          /\ codeRuns[t].stop \in BOOLEAN /\ codeRuns[t].submitted \in BOOLEAN
                          /\ codeRuns[t].turn \in Sends \cup {NoSend}
      /\ 0 \in Code!Gens /\ 0 \notin Code!Generations
      /\ \A h \in Code!Gens : h # 0 => h \in Code!Generations
    BY <1>a, CodeFields
<1>e1. /\ codeWork[s].at = "opened" /\ codeSession.status # "deleted"
       /\ codeHistory' \in BOOLEAN /\ codeSession' = [codeSession EXCEPT !.thread = TRUE]
    BY  DEF Code!Attach, Code!At
<1>e2. codeSession' \in Code!SessionRows /\ codeSession'.status = codeSession.status /\ codeSession'.model = codeSession.model
    BY <1>a, <1>e1 DEF Code!RowsOK, Code!SessionRows
<1>e3. ~codeRuns[s].submitted /\ codeTurns[s].asked = 0 /\ codeTurns[s].at = "none"
    BY <1>a, <1>e1 DEF Code!JobSane, Code!Unsubmitted, Code!TurnSane, Code!NoTurn
<1>e4. PICK rs \in [Sends -> Code!RunRows] :
          /\ rs = IF codeSession.thread /\ codeOwner.loaded THEN codeRuns ELSE Code!Recovered
          /\ rs[s] = codeRuns[s]
          /\ \A t \in Sends : /\ rs[t].status = codeRuns[t].status /\ rs[t].stop = codeRuns[t].stop
                             /\ rs[t].submitted = codeRuns[t].submitted
                             /\ \/ rs[t] = codeRuns[t]
                                \/ rs[t].turn = t /\ codeTurns[t].asked = 1 /\ codeRuns[t].submitted
    <2>1. \A t \in Sends : \A r \in Code!RunRows : LET n == [r EXCEPT !.turn = t] IN
             /\ n \in Code!RunRows /\ n.status = r.status /\ n.stop = r.stop
             /\ n.submitted = r.submitted /\ n.turn = t
        BY DEF Code!RunRows
    <2>2. \A t \in Sends : codeRuns[t] \in Code!RunRows /\ (t \in Code!Recorded => codeTurns[t].asked = 1)
        BY <1>a DEF Code!RowsOK, Code!Recorded, Code!TurnSane, Code!NoTurn
    <2>3. /\ Code!Recovered \in [Sends -> Code!RunRows] /\ Code!Recovered[s] = codeRuns[s]
          /\ \A t \in Sends : /\ Code!Recovered[t].status = codeRuns[t].status
                             /\ Code!Recovered[t].stop = codeRuns[t].stop
                             /\ Code!Recovered[t].submitted = codeRuns[t].submitted
                             /\ \/ Code!Recovered[t] = codeRuns[t]
                                \/ Code!Recovered[t].turn = t /\ codeTurns[t].asked = 1 /\ codeRuns[t].submitted
        BY <2>1, <2>2, <1>e3 DEF Code!Recovered
    <2>4. codeRuns \in [Sends -> Code!RunRows]
        BY <1>a DEF Code!RowsOK
    <2> QED
        BY <2>3, <2>4
<1>e5. PICK o \in Code!Owners : /\ o = [codeOwner EXCEPT !.loaded = TRUE] /\ o.connection = codeOwner.connection
          /\ o.stored = codeOwner.stored /\ o.overtaken = codeOwner.overtaken
    <2> DEFINE e == [codeOwner EXCEPT !.loaded = TRUE]
    <2>1. /\ e \in Code!Owners /\ e.connection = codeOwner.connection /\ e.stored = codeOwner.stored
          /\ e.overtaken = codeOwner.overtaken
        BY <1>a DEF Code!OwnerOK, Code!Owners
    <2> QED
        BY <2>1
<1>e6. PICK q \in Code!Owners : /\ q = [o EXCEPT !.finished = TRUE] /\ q.connection = codeOwner.connection
          /\ q.stored = codeOwner.stored /\ q.overtaken = codeOwner.overtaken
    <2> DEFINE e == [o EXCEPT !.finished = TRUE]
    <2>1. /\ e \in Code!Owners /\ e.connection = codeOwner.connection /\ e.stored = codeOwner.stored
          /\ e.overtaken = codeOwner.overtaken
        BY <1>e5 DEF Code!Owners
    <2> QED
        BY <2>1
<1>e7. /\ codeRuns' \in [Sends -> Code!RunRows] /\ codeFresh' \in {codeFresh, {}}
       /\ codeWork' \in [Sends -> Code!WorkJobs] /\ codeOwner' \in Code!Owners
       /\ codeOwner'.stored = codeOwner.stored /\ codeOwner'.overtaken = codeOwner.overtaken
       /\ \A t \in Sends : t # s => codeWork'[t] = codeWork[t] /\ codeRuns'[t] = rs[t]
       /\ codeRuns'[s].turn = codeRuns[s].turn /\ codeRuns'[s].stop = codeRuns[s].stop
       /\ \/ /\ codeRuns'[s].submitted = TRUE /\ codeRuns'[s].status = codeRuns[s].status /\ Code!Running(s)
             /\ ~codeRuns[s].stop /\ codeService.mode = "up"
             /\ codeWork'[s].at = "submitting" /\ codeWork'[s].gen = codeWork[s].gen
             /\ codeOwner'.connection = codeOwner.connection
          \/ /\ codeRuns'[s].submitted = codeRuns[s].submitted
             /\ \/ codeRuns'[s].status = codeRuns[s].status /\ ~Code!Running(s)
                \/ codeRuns'[s].status = "interrupted" /\ Code!Running(s)
             /\ \/ /\ codeService.mode = "up" /\ codeOwner.stored
                   /\ codeWork'[s].at = "none" /\ codeWork'[s].gen = 0 /\ codeOwner'.connection = codeOwner.connection
                \/ codeWork'[s].at = "leaving" /\ codeWork'[s].gen = codeOwner.connection /\ codeOwner'.connection = 0
    <2>0. "interrupted" \in Code!Statuses
        BY DEF Code!Statuses, Code!Final
    <2>1. CASE Code!Running(s) /\ ~codeRuns[s].stop /\ Code!Accepting
        <3>1. /\ codeRuns' = [rs EXCEPT ![s].submitted = TRUE] /\ codeOwner' = o
              /\ codeWork' = [codeWork EXCEPT ![s].at = "submitting"] /\ codeFresh' = codeFresh
            BY <2>1, <1>e4, <1>e5 DEF Code!Attach
        <3>2. /\ codeRuns' \in [Sends -> Code!RunRows] /\ codeRuns'[s].submitted = TRUE
              /\ codeRuns'[s].turn = codeRuns[s].turn /\ codeRuns'[s].stop = codeRuns[s].stop
              /\ codeRuns'[s].status = codeRuns[s].status /\ \A t \in Sends : t # s => codeRuns'[t] = rs[t]
            <4>1. rs[s] \in Code!RunRows /\ rs[s] = codeRuns[s]
                BY <1>e4
            <4>2. codeRuns'[s] = [rs[s] EXCEPT !.submitted = TRUE] /\ DOMAIN codeRuns' = Sends
                BY <3>1, <1>e4
            <4>3. \A t \in Sends : t # s => codeRuns'[t] = rs[t]
                BY <3>1, <1>e4
            <4>4. /\ codeRuns'[s] \in Code!RunRows /\ codeRuns'[s].submitted = TRUE
                  /\ codeRuns'[s].turn = codeRuns[s].turn /\ codeRuns'[s].stop = codeRuns[s].stop
                  /\ codeRuns'[s].status = codeRuns[s].status
                BY <4>1, <4>2 DEF Code!RunRows
            <4>5. codeRuns' \in [Sends -> Code!RunRows]
                BY <3>1, <1>e4, <4>4 DEF Code!RunRows
            <4> QED
                BY <4>3, <4>4, <4>5
        <3>3. /\ codeWork' \in [Sends -> Code!WorkJobs] /\ codeWork'[s].at = "submitting"
              /\ codeWork'[s].gen = codeWork[s].gen /\ \A t \in Sends : t # s => codeWork'[t] = codeWork[t]
            BY <3>1, <1>a DEF Code!JobsOK, Code!WorkJobs
        <3> QED
            BY <2>1, <3>1, <3>2, <3>3, <1>e5 DEF Code!Accepting
    <2>2. CASE ~(Code!Running(s) /\ ~codeRuns[s].stop /\ Code!Accepting)
        <3>1. PICK p \in {o, q} :
                 /\ codeRuns' = IF Code!Running(s) THEN [rs EXCEPT ![s].status = "interrupted"] ELSE rs
                 /\ codeFresh' = IF Code!Running(s) THEN {} ELSE codeFresh
                 /\ Code!Leaves(s, p)
            <4>1. CASE Code!Running(s)
                BY <2>2, <4>1, <1>e4, <1>e5, <1>e6 DEF Code!Attach
            <4>2. CASE ~Code!Running(s)
                BY <2>2, <4>2, <1>e4, <1>e5, <1>e6 DEF Code!Attach
            <4> QED
                BY <4>1, <4>2
        <3>2. /\ p \in Code!Owners /\ p.connection = codeOwner.connection
              /\ p.stored = codeOwner.stored /\ p.overtaken = codeOwner.overtaken
            BY <3>1, <1>e5, <1>e6
        <3>3. /\ codeWork' \in [Sends -> Code!WorkJobs] /\ codeOwner' \in Code!Owners
              /\ \A t \in Sends : t # s => codeWork'[t] = codeWork[t]
              /\ codeOwner'.stored = p.stored /\ codeOwner'.overtaken = p.overtaken
              /\ \/ /\ codeService.mode = "up" /\ codeOwner.stored
                    /\ codeWork'[s].at = "none" /\ codeWork'[s].gen = 0
                    /\ codeOwner'.connection = p.connection
                 \/ /\ codeWork'[s].at = "leaving" /\ codeWork'[s].gen = p.connection
                    /\ codeOwner'.connection = 0
            BY <3>1, <3>2, <1>a, CodeLeaves
        <3>4. /\ codeRuns' \in [Sends -> Code!RunRows] /\ \A t \in Sends : t # s => codeRuns'[t] = rs[t]
              /\ codeRuns'[s].turn = codeRuns[s].turn /\ codeRuns'[s].stop = codeRuns[s].stop
              /\ codeRuns'[s].submitted = codeRuns[s].submitted
              /\ \/ codeRuns'[s].status = codeRuns[s].status /\ ~Code!Running(s)
                 \/ codeRuns'[s].status = "interrupted" /\ Code!Running(s)
            BY <3>1, <1>e4, <2>0 DEF Code!RunRows
        <3>5. codeFresh' \in {codeFresh, {}}
            BY <3>1
        <3> QED
            BY <3>2, <3>3, <3>4, <3>5
    <2> QED
        BY <2>1, <2>2
<1>e8. /\ codeRuns' \in [Sends -> Code!RunRows] /\ codeFresh' \in {codeFresh, {}}
       /\ codeWork' \in [Sends -> Code!WorkJobs] /\ codeOwner' \in Code!Owners
       /\ codeOwner'.stored = codeOwner.stored /\ codeOwner'.overtaken = codeOwner.overtaken
       /\ codeOwner'.connection \in {0, codeOwner.connection}
       /\ \A t \in Sends : t # s =>
             /\ codeWork'[t] = codeWork[t] /\ codeRuns'[t].status = codeRuns[t].status
             /\ codeRuns'[t].submitted = codeRuns[t].submitted /\ codeRuns'[t].stop = codeRuns[t].stop
             /\ codeRuns'[t].turn = codeRuns[t].turn \/ (codeRuns'[t].turn = t /\ codeTurns[t].asked = 1 /\ codeRuns[t].submitted)
       /\ codeRuns'[s].turn = codeRuns[s].turn /\ codeRuns'[s].stop = codeRuns[s].stop
       /\ \/ /\ codeRuns'[s].submitted = TRUE /\ codeRuns'[s].status = codeRuns[s].status /\ Code!Running(s)
             /\ ~codeRuns[s].stop /\ codeService.mode = "up"
             /\ codeWork'[s].at = "submitting" /\ codeWork'[s].gen = codeWork[s].gen
             /\ codeOwner'.connection = codeOwner.connection
          \/ /\ codeRuns'[s].submitted = codeRuns[s].submitted
             /\ \/ codeRuns'[s].status = codeRuns[s].status /\ ~Code!Running(s)
                \/ codeRuns'[s].status = "interrupted" /\ Code!Running(s)
             /\ \/ /\ codeService.mode = "up" /\ codeOwner.stored
                   /\ codeWork'[s].at = "none" /\ codeWork'[s].gen = 0 /\ codeOwner'.connection = codeOwner.connection
                \/ codeWork'[s].at = "leaving" /\ codeWork'[s].gen = codeOwner.connection /\ codeOwner'.connection = 0
    BY <1>e4, <1>e7
<1>1. Code!RowsOK'
    BY <1>a, <1>u, <1>k, <1>e1, <1>e2, <1>e3, <1>e8 DEF Code!RowsOK
<1>2. Code!OwnerOK'
    BY <1>a, <1>u, <1>k, <1>e1, <1>e2, <1>e3, <1>e8 DEF Code!OwnerOK
<1>3. Code!JobsOK'
    BY <1>a, <1>u, <1>k, <1>e1, <1>e2, <1>e3, <1>e8 DEF Code!JobsOK
<1>4. Code!NativeOK'
    BY <1>a, <1>u, <1>k, <1>e1, <1>e2, <1>e3, <1>e8 DEF Code!NativeOK
<1>5. Code!LeftOK'
    BY <1>a, <1>u DEF Code!LeftOK, Code!Kinds
<1>6. Code!FreshOK'
    BY <1>a, <1>u, <1>k, <1>e1, <1>e2, <1>e3, <1>e8 DEF Code!FreshOK
<1>7. Code!NamesOK'
    BY <1>a, <1>u, <1>k, <1>e1, <1>e2, <1>e3, <1>e8 DEF Code!NamesOK, Code!Named
<1>8. Code!StagesOK'
    BY <1>a, <1>u, <1>k, <1>e1, <1>e2, <1>e3, <1>e8 DEF Code!StagesOK, Code!Deleted
<1>9. Code!OneOpens'
    <2>1. \A t \in Sends : Code!Opening(t)' => t # s /\ Code!Opening(t)
        BY <1>e8 DEF Code!Opening
    <2>2. \A t \in Sends : t # s => (Code!Running(t)' <=> Code!Running(t)) /\ (Code!At(t, "starting")' <=> Code!At(t, "starting"))
        BY <1>u, <1>e8 DEF Code!Running, Code!At
    <2> QED
        BY <2>1, <2>2, <1>a, <1>u, <1>e8 DEF Code!OneOpens, Code!Accepting
<1>10. Code!AllHeld'
    BY <1>a, <1>u, <1>k, <1>e1, <1>e2, <1>e3, <1>e8 DEF Code!AllHeld, Code!IsHeld,
        Code!ClosesIt, Code!Exists
<1>11. Code!ShutOK'
    BY <1>a, <1>u, <1>k, <1>e1, <1>e2, <1>e3, <1>e8 DEF Code!ShutOK, Code!InUse, Code!At,
        Code!Exists, Code!Deleted, Code!StagesOK
<1>p. ASSUME NEW t \in Sends PROVE Code!TurnSane(t)' /\ Code!RunSane(t)' /\ Code!JobSane(t)' /\ Code!HeardSane(t)'
    <2>1. Code!TurnSane(t)'
        BY <1>a, <1>u DEF Code!TurnSane, Code!NoTurn
    <2>2. Code!RunSane(t)'
        <3>1. CASE t = s
            BY <3>1, <1>a, <1>u, <1>e2, <1>e3, <1>e8 DEF Code!RunSane, Code!Deleted,
                Code!Running, Code!Active
        <3>2. CASE t # s
            BY <3>2, <1>a, <1>u, <1>e2, <1>e8 DEF Code!RunSane, Code!Deleted
        <3> QED
            BY <3>1, <3>2
    <2>3. Code!JobSane(t)'
        BY <1>a, <1>u, <1>k, <1>e1, <1>e2, <1>e3, <1>e8 DEF Code!JobSane, Code!Unsubmitted,
            Code!At, Code!Deleted
    <2>4. Code!HeardSane(t)'
        <3>1. CASE t = s
            <4>1. codeTurns[s].gen = 0 /\ codeSession.status # "deleted"
                BY <1>a, <1>e1, <1>e3 DEF Code!TurnSane, Code!NoTurn
            <4>2. CASE codeWork'[s].at = "submitting"
                <5>1. Code!Running(s)'
                    BY <4>2, <1>u, <1>e8 DEF Code!Running
                <5>2. codeService.step = 0 /\ codeFails[s].at # "closing"
                    BY <4>1, <4>2, <1>a, <1>e3, <1>e8 DEF Code!JobSane, Code!StagesOK,
                        Code!Deleted
                <5> QED
                    BY <3>1, <4>2, <5>1, <5>2, <1>u DEF Code!HeardSane, Code!At
            <4>3. CASE codeWork'[s].at # "submitting"
                BY <3>1, <4>1, <4>3, <1>u DEF Code!HeardSane, Code!Unheard, Code!At
            <4> QED
                BY <4>2, <4>3
        <3>2. CASE t # s
            BY <3>2, <1>a, <1>u, <1>k, <1>e2, <1>e8 DEF Code!HeardSane, Code!JobSane,
                Code!Unheard, Code!Running, Code!At, Code!Deleted
        <3> QED
            BY <3>1, <3>2
    <2> QED
        BY <2>1, <2>2, <2>3, <2>4
<1>w. \A t \in Sends : Code!WantedStart(t)
    <2>1. \A t \in Sends : t # s => Code!WantedStart(t)
        BY <1>e8 DEF Code!WantedStart
    <2>2. Code!WantedStart(s)
        BY <1>a, <1>e3, <1>e8, CodeConstants DEF Code!WantedStart, Code!RunSane, Code!Running,
            Code!Active
    <2> QED
        BY <2>1, <2>2
<1>q. Code!IInv'
    BY <1>1, <1>2, <1>3, <1>4, <1>5, <1>6, <1>7, <1>8, <1>9, <1>10, <1>11, <1>p, CodeWhole
<1> QED
    BY <1>q, <1>w

LEMMA CodeInit == Code!Init => Code!IInv
<1> SUFFICES ASSUME Code!Init PROVE Code!IInv
    OBVIOUS
<1>c. 0 \in Code!Gens
    BY CodeGens
<1>0. /\ codeSession = [status |-> "ready", model |-> 1, thread |-> FALSE]
      /\ codeLatest = NoSend /\ codeFresh = {} /\ codeOwner = Code!NewOwner
      /\ codeCalls = [c \in Calls |-> Code!NoModel]
      /\ codeWork = [s \in Sends |-> Code!Nothing] /\ codeFails = [s \in Sends |-> Code!Nothing]
      /\ codeInterrupts = [s \in Sends |-> Code!Nothing] /\ codeHalting = Code!Nothing
      /\ codeDeletion = [at |-> "none", gen |-> 0, reconcile |-> FALSE]
      /\ codeService = [mode |-> "up", step |-> 0, gen |-> 0]
      /\ codeProcess = [g \in Code!Generations |-> "none"] /\ codeHistory = FALSE
      /\ codeTurns = [s \in Sends |-> Code!NoTurn] /\ codeLeft \in Scenarios
    BY DEF Code!Init
<1>1. PICK r \in Code!RunRows : /\ codeRuns = [s \in Sends |-> r] /\ r.status = "none"
                           /\ ~r.submitted /\ r.turn = NoSend
    <2>1. PICK n \in Code!RunRows : n = Code!NewRun(0) /\ ~n.submitted /\ n.turn = NoSend
        <3>1. "preparing" \in Code!Statuses /\ 0 \in Code!Models
            BY DEF Code!Statuses, Code!Active, Code!Models
        <3>2. Code!NewRun(0) \in Code!RunRows /\ ~Code!NewRun(0).submitted /\ Code!NewRun(0).turn = NoSend
            BY <3>1 DEF Code!NewRun, Code!RunRows
        <3> QED
            BY <3>2
    <2> DEFINE e == [n EXCEPT !.status = "none"]
    <2>2. e \in Code!RunRows /\ e.status = "none" /\ ~e.submitted /\ e.turn = NoSend
        BY <2>1 DEF Code!RunRows, Code!Statuses
    <2>3. codeRuns = [s \in Sends |-> e]
        BY <2>1 DEF Code!Init
    <2> QED
        BY <2>2, <2>3
<1>2. Code!RowsOK
    <2>1. codeSession \in Code!SessionRows
        BY <1>0 DEF Code!SessionRows, Code!Models
    <2> QED
        BY <2>1, <1>0, <1>1 DEF Code!RowsOK
<1>3. Code!OwnerOK
    BY <1>0, <1>c DEF Code!OwnerOK, Code!Owners, Code!NewOwner, Code!Services
<1>4. Code!JobsOK
    BY <1>0, <1>c DEF Code!JobsOK, Code!Nothing, Code!Job, Code!WorkJobs, Code!FailJobs,
        Code!InterruptJobs, Code!Deletions
<1>5. Code!NativeOK
    BY <1>0, <1>c DEF Code!NativeOK, Code!NoTurn, Code!NativeTurns
<1>6. Code!LeftOK
    BY <1>0, CodeConstants DEF Code!LeftOK
<1>7. Code!FreshOK /\ Code!NamesOK /\ Code!StagesOK
    BY <1>0 DEF Code!FreshOK, Code!NamesOK, Code!Named, Code!StagesOK, Code!Deleted,
        Code!NewOwner, Code!Nothing, Code!Job, Code!NoTurn
<1>8. \A s \in Sends : Code!TurnSane(s) /\ Code!RunSane(s) /\ Code!JobSane(s)
    BY <1>0, <1>1 DEF Code!TurnSane, Code!RunSane, Code!JobSane, Code!Unsubmitted, Code!At,
        Code!NoTurn, Code!Nothing, Code!Job, Code!Deleted
<1>9. \A s \in Sends : Code!HeardSane(s)
    BY <1>0 DEF Code!HeardSane, Code!Unheard, Code!At, Code!NoTurn, Code!Nothing, Code!Job
<1>10. Code!OneOpens /\ Code!AllHeld /\ Code!ShutOK
    BY <1>0, CodeGens DEF Code!OneOpens, Code!Opening, Code!AllHeld, Code!Exists, Code!ShutOK,
        Code!Nothing, Code!Job, Code!NewOwner
<1> QED
    BY <1>2, <1>3, <1>4, <1>5, <1>6, <1>7, <1>8, <1>9, <1>10, RuntimeAssumption
        DEF Code!IInv, Code!TypeOK, Code!RunsSane, Code!ConstantsOK, Code!Kinds

\* What every step keeps.
CodeKept == Code!IInv' /\ \A t \in Sends : Code!WantedStart(t)

LEMMA CodeNext ==
    ASSUME Code!IInv, [Code!Next]_(Code!vars)
    PROVE  Code!IInv' /\ \A t \in Sends : Code!WantedStart(t)
<1>1. ASSUME NEW c \in Calls, Code!Send(c) \/ Code!Admit(c) \/ Code!SendReturns(c) PROVE CodeKept
    BY <1>1, CodeSendKeeps, CodeAdmitKeeps, CodeSendReturnsKeeps DEF CodeKept
<1>2. ASSUME NEW s \in Sends, Code!WorkStep(s) PROVE CodeKept
    BY <1>2, CodeCloseUnsupportedKeeps, CodeKeepConnectionKeeps, CodeFindsNoneKeeps,
        CodeOpenKeeps, CodeStopEarlyKeeps, CodeAttachKeeps, CodeSubmitKeeps, CodeBindKeeps,
        CodeWaitIsOverKeeps, CodeWorkFailsKeeps, CodeFailedKeeps, CodeLeftKeeps DEF CodeKept,
        Code!WorkStep
<1>3. ASSUME NEW s \in Sends, Code!InterruptStep(s) PROVE CodeKept
    BY <1>3, CodeInterruptedKeeps, CodeEscalateKeeps, CodeEscalatedKeeps DEF CodeKept,
        Code!InterruptStep
<1>4. ASSUME NEW s \in Sends, Code!Stop(s) \/ Code!EventFails(s) \/ Code!EventFailed(s) PROVE CodeKept
    BY <1>4, CodeStopKeeps, CodeEventFailsKeeps, CodeEventFailedKeeps DEF CodeKept
<1>5. ASSUME NEW s \in Sends, Code!TurnStarted(s) \/ Code!TurnEnded(s) \/ Code!NativeTurn(s) PROVE CodeKept
    BY <1>5, CodeTurnStartedKeeps, CodeTurnEndedKeeps, CodeNativeTurnKeeps DEF CodeKept
<1>6. ASSUME NEW g \in Code!Generations, Code!Closed(g) \/ Code!PipeFails(g) \/ Code!Reaped(g) PROVE CodeKept
    BY <1>6, CodeClosedKeeps, CodePipeFailsKeeps, CodeReapedKeeps DEF CodeKept
<1>7. ASSUME Code!DeletionStep PROVE CodeKept
    BY <1>7, CodeDeletionOpensKeeps, CodeDeletionAnsweredKeeps, CodeDeletionFailsKeeps,
        CodeDeletionEndsKeeps DEF CodeKept, Code!DeletionStep
<1>8. ASSUME Code!ShutdownStep PROVE CodeKept
    BY <1>8, CodeShutdownStopsKeeps, CodeShutdownClosesKeeps, CodeShutdownFinishesKeeps,
        CodeShutdownEndsKeeps DEF CodeKept, Code!ShutdownStep
<1>9. ASSUME Code!UpdateSettings \/ Code!StorageFails \/ Code!Halted \/ Code!Delete PROVE CodeKept
    BY <1>9, CodeUpdateSettingsKeeps, CodeStorageFailsKeeps, CodeHaltedKeeps, CodeDeleteKeeps
        DEF CodeKept
<1>10. ASSUME Code!BeginShutdown \/ Code!Restart PROVE CodeKept
    BY <1>10, CodeBeginShutdownKeeps, CodeRestartKeeps DEF CodeKept
<1>11. ASSUME UNCHANGED Code!vars PROVE CodeKept
    <2>1. UNCHANGED <<codeSession, codeRuns, codeLatest, codeFresh, codeOwner, codeCalls, codeWork, codeFails, codeInterrupts, codeDeletion, codeHalting,
                      codeService, codeProcess, codeHistory, codeTurns, codeLeft>>
        BY <1>11 DEF Code!vars
    <2>2. Code!RowsOK' /\ Code!OwnerOK' /\ Code!JobsOK' /\ Code!NativeOK' /\ Code!LeftOK'
        BY <2>1, CodeParts DEF Code!RowsOK, Code!OwnerOK, Code!JobsOK, Code!NativeOK,
            Code!LeftOK
    <2>3. Code!FreshOK' /\ Code!NamesOK' /\ Code!StagesOK'
        BY <2>1, CodeParts DEF Code!FreshOK, Code!NamesOK, Code!Named, Code!StagesOK,
            Code!Deleted
    <2>4. Code!OneOpens'
        BY <2>1, CodeParts DEF Code!OneOpens, Code!Opening, Code!Accepting, Code!Running,
            Code!At
    <2>5. Code!AllHeld'
        BY <2>1, CodeParts DEF Code!AllHeld, Code!IsHeld, Code!ClosesIt, Code!Exists
    <2>6. Code!ShutOK'
        BY <2>1, CodeParts DEF Code!ShutOK, Code!InUse, Code!At, Code!Deleted, Code!Exists
    <2>7. ASSUME NEW t \in Sends PROVE Code!TurnSane(t)' /\ Code!RunSane(t)' /\ Code!JobSane(t)' /\ Code!HeardSane(t)'
        <3>1. Code!TurnSane(t)' /\ Code!RunSane(t)'
            BY <2>1, CodeParts DEF Code!TurnSane, Code!NoTurn, Code!RunSane, Code!Deleted
        <3>2. Code!JobSane(t)'
            BY <2>1, CodeParts DEF Code!JobSane, Code!Unsubmitted, Code!At, Code!Deleted
        <3>3. Code!HeardSane(t)'
            BY <2>1, CodeParts DEF Code!HeardSane, Code!Unheard, Code!Running, Code!At,
                Code!Deleted
        <3> QED
            BY <3>1, <3>2, <3>3
    <2>8. \A t \in Sends : Code!WantedStart(t)
        BY <2>1 DEF Code!WantedStart
    <2> QED
        BY <2>2, <2>3, <2>4, <2>5, <2>6, <2>7, <2>8, CodeWhole DEF CodeKept
<1>d. ASSUME Code!Next PROVE CodeKept
    BY <1>d, <1>1, <1>2, <1>3, <1>4, <1>5, <1>6, <1>7, <1>8, <1>9, <1>10 DEF Code!Next
<1>z. CodeKept
    BY <1>11, <1>d
<1> QED
    BY <1>z DEF CodeKept
LEMMA CodeMove == [MCNext]_MCVars => [Code!Next]_(Code!vars)
BY DEF MCNext, MCVars, codeVars, Code!vars, Code!rows, Code!jobs, Code!native

\* _send, _work, bind_turn, _finish_locked: for any number of messages, processes
\* and faults, an input leaves at most once and after its run was saved as
\* submitted, and a run is bound to its own turn and ends as that turn did.
THEOREM SessionRunsAreFaithful == MCSpec => []RunsAreFaithful
<1>1. MCInit => Code!IInv
    BY CodeInit DEF MCInit
<1>2. Code!IInv /\ [MCNext]_MCVars => Code!IInv'
    BY CodeMove, CodeNext
<1>3. Code!IInv => RunsAreFaithful
    <2> SUFFICES ASSUME Code!IInv PROVE RunsAreFaithful
        OBVIOUS
    <2>1. \A s \in Sends : Code!TurnSane(s) /\ Code!RunSane(s)
        BY CodeParts
    <2>2. Code!SubmittedOnce
        BY <2>1 DEF Code!SubmittedOnce, Code!TurnSane, Code!RunSane, Code!Deleted
    <2>3. Code!OwnTurn
        BY <2>1 DEF Code!OwnTurn, Code!RunSane
    <2> QED
        BY <2>2, <2>3 DEF RunsAreFaithful, Code!RunsAreFaithful
<1> QED
    BY <1>1, <1>2, <1>3, PTL DEF MCSpec

\* _close_connection, _halt_storage, _delete_native, close: every Codex process is
\* the connection or has a task that closes it and waits for it, and a closed
\* service leaves none.
THEOREM SessionsLeaveNothing == MCSpec => []NothingIsLeft
<1>1. MCInit => Code!IInv
    BY CodeInit DEF MCInit
<1>2. Code!IInv /\ [MCNext]_MCVars => Code!IInv'
    BY CodeMove, CodeNext
<1>3. Code!IInv => NothingIsLeft
    <2> SUFFICES ASSUME Code!IInv, ~codeOwner.overtaken PROVE NothingIsLeft
        BY DEF Code!NothingIsLeft, NothingIsLeft
    <2>1. ASSUME NEW g \in Code!Generations, Code!Exists(g)
          PROVE  \/ g \in {codeOwner.connection, codeDeletion.gen, codeHalting.gen, codeService.gen}
                 \/ \E s \in Sends : g \in {codeWork[s].gen, codeFails[s].gen, codeInterrupts[s].gen}
        <3>1. Code!IsHeld(g)
            BY <2>1, CodeParts DEF Code!AllHeld
        <3> QED
            BY <3>1 DEF Code!IsHeld, Code!ClosesIt
    <2>2. codeService.mode = "down" /\ codeSession.status # "deleted"
             => \A g \in Code!Generations : ~Code!Exists(g)
        BY CodeParts DEF Code!ShutOK, Code!Deleted
    <2> QED
        BY <2>1, <2>2 DEF Code!NothingIsLeft, NothingIsLeft
<1> QED
    BY <1>1, <1>2, <1>3, PTL DEF MCSpec

\* _send asks everything again in its second section, and _work looks for a stop
\* before it saves the submission: a run starts with the model the session has then.
THEOREM SessionStartsAreWanted == MCSpec => StartsAreWanted
<1>1. MCInit => Code!IInv
    BY CodeInit DEF MCInit
<1>2. Code!IInv /\ [MCNext]_MCVars => Code!IInv'
    BY CodeMove, CodeNext
<1>3. Code!IInv /\ [MCNext]_MCVars => [\A s \in Sends : Code!WantedStart(s)]_(Code!vars)
    BY CodeMove, CodeNext
<1> QED
    BY <1>1, <1>2, <1>3, PTL DEF MCSpec, StartsAreWanted, Code!StartsAreWanted

(***************************************************************************)
(* Credentials shared by processes                                         *)
(***************************************************************************)

\* A record that is changed twice, written out.
LEMMA AuthReleased ==
    ASSUME NEW f \in [Processes -> Auth!Operations], NEW p \in Processes
    PROVE  [f EXCEPT ![p].at = "release", ![p].tries = 0]
              = [f EXCEPT ![p] = [at |-> "release", does |-> f[p].does,
                                  token |-> f[p].token, tries |-> 0]]
<1> DEFINE o == f[p]
           g == [f EXCEPT ![p].at = "release"]
           r == [at |-> "release", does |-> f[p].does, token |-> f[p].token, tries |-> 0]
<1>1. o \in Auth!Operations
    OBVIOUS
<1>2. g[p] = [o EXCEPT !.at = "release"] /\ g \in [Processes -> Auth!Operations]
    BY <1>1 DEF Auth!Operations
<1>b. PICK at, does, token, tries : o = [at |-> at, does |-> does, token |-> token, tries |-> tries]
    BY <1>1 DEF Auth!Operations
<1>c. g[p] = [at |-> "release", does |-> does, token |-> token, tries |-> tries]
    BY <1>2, <1>b
<1>3. [g[p] EXCEPT !.tries = 0] = r
    <2>1. r = [at |-> "release", does |-> does, token |-> token, tries |-> 0]
        BY <1>b
    <2> HIDE DEF g, r
    <2> QED BY <1>c, <2>1
<1>a. DOMAIN f = Processes /\ \A q \in Processes : f[q] = [f EXCEPT ![p].at = "release"][q] \/ q = p
    OBVIOUS
<1>4. [f EXCEPT ![p].at = "release", ![p].tries = 0] = [g EXCEPT ![p] = [g[p] EXCEPT !.tries = 0]]
    OBVIOUS
<1>5. [g EXCEPT ![p] = [g[p] EXCEPT !.tries = 0]] = [g EXCEPT ![p] = r]
    BY <1>3
<1>6. [g EXCEPT ![p] = r] = [f EXCEPT ![p] = r]
    <2> HIDE DEF r
    <2> QED OBVIOUS
<1> QED
    BY <1>4, <1>5, <1>6

LEMMA AuthAccessKeeps ==
    ASSUME Auth!IInv, NEW p \in Processes, Auth!Access(p)
    PROVE  Auth!IInv'
<1>a. Nobody \notin Processes /\ Auth!TypeOK /\ Auth!LockIsOwned /\ Auth!Undamaged
    BY DEF Auth!IInv, Auth!ConstantsOK
<1>1. Auth!TypeOK'
    BY <1>a DEF Auth!TypeOK, Auth!CredentialsOK, Auth!TasksOK, Auth!Operations, Auth!SignIns,
        Auth!Tokens, Auth!Access, Auth!At, Auth!Refresh, Auth!NearExpiry, Auth!server
<1>2. Auth!LockIsOwned'
    BY <1>a DEF Auth!LockIsOwned, Auth!Inside, Auth!TypeOK, Auth!TasksOK, Auth!Access, Auth!At,
        Auth!Refresh, Auth!NearExpiry, Auth!server, Auth!Signs
<1>3. ASSUME authDamage' = {}
      PROVE  /\ Auth!CredentialsSurvive'
             /\ \A q \in Processes : Auth!RefreshIsCurrent(q)' /\ Auth!GrantIsItsOwn(q)'
    <2>1. authDamage = {}
        BY <1>3 DEF Auth!Access, Auth!At, Auth!Refresh, Auth!NearExpiry, Auth!server
    <2>2. /\ Auth!CredentialsSurvive
          /\ \A q \in Processes : Auth!RefreshIsCurrent(q) /\ Auth!GrantIsItsOwn(q)
        BY <1>a, <2>1 DEF Auth!Undamaged
    <2>3. Auth!CredentialsSurvive'
        BY <1>a, <1>3, <2>2 DEF Auth!CredentialsSurvive, Auth!RefreshIsCurrent,
            Auth!GrantIsItsOwn, Auth!Granted, Auth!LockIsOwned, Auth!Inside, Auth!TypeOK,
            Auth!CredentialsOK, Auth!TasksOK, Auth!Operations, Auth!SignIns, Auth!Tokens,
            Auth!Access, Auth!At, Auth!Refresh, Auth!NearExpiry, Auth!server, Auth!Signs
    <2>4. ASSUME NEW q \in Processes PROVE Auth!RefreshIsCurrent(q)'
        BY <1>a, <1>3, <2>2 DEF Auth!CredentialsSurvive, Auth!RefreshIsCurrent,
            Auth!LockIsOwned, Auth!Inside, Auth!TypeOK, Auth!CredentialsOK, Auth!TasksOK,
            Auth!Operations, Auth!SignIns, Auth!Tokens, Auth!Access, Auth!At, Auth!Refresh,
            Auth!NearExpiry, Auth!server, Auth!Signs
    <2>5. ASSUME NEW q \in Processes PROVE Auth!GrantIsItsOwn(q)'
        BY <1>a, <1>3, <2>2 DEF Auth!RefreshIsCurrent, Auth!GrantIsItsOwn, Auth!Granted,
            Auth!LockIsOwned, Auth!Inside, Auth!TypeOK, Auth!CredentialsOK, Auth!TasksOK,
            Auth!Operations, Auth!SignIns, Auth!Tokens, Auth!Access, Auth!At, Auth!Refresh,
            Auth!NearExpiry, Auth!server, Auth!Signs
    <2> QED
        BY <2>3, <2>4, <2>5
<1> QED
    BY <1>a, <1>1, <1>2, <1>3 DEF Auth!IInv, Auth!ConstantsOK, Auth!Undamaged

LEMMA AuthRecoverUnauthorizedKeeps ==
    ASSUME Auth!IInv, NEW p \in Processes, Auth!RecoverUnauthorized(p)
    PROVE  Auth!IInv'
<1>a. Nobody \notin Processes /\ Auth!TypeOK /\ Auth!LockIsOwned /\ Auth!Undamaged
    BY DEF Auth!IInv, Auth!ConstantsOK
<1>t. /\ authOp[p] \in Auth!Operations /\ authIssued \in Nat
      /\ authMemory[p] \in Auth!Tokens /\ authFile \in Auth!Tokens
    BY <1>a DEF Auth!TypeOK, Auth!CredentialsOK, Auth!TasksOK
<1>o. authOp' \in [Processes -> Auth!Operations']
    BY <1>a, <1>t DEF Auth!TypeOK, Auth!CredentialsOK, Auth!TasksOK, Auth!Operations,
        Auth!Tokens, Auth!RecoverUnauthorized, Auth!At, Auth!Refresh, Auth!NearExpiry,
        Auth!server
<1>c. Auth!CredentialsOK'
    BY <1>a, <1>t DEF Auth!TypeOK, Auth!CredentialsOK, Auth!Operations, Auth!Tokens,
        Auth!RecoverUnauthorized, Auth!At, Auth!Refresh, Auth!NearExpiry, Auth!server
<1>l. authLogin' \in [Processes -> Auth!SignIns']
    BY <1>a DEF Auth!TypeOK, Auth!CredentialsOK, Auth!TasksOK, Auth!SignIns, Auth!Tokens,
        Auth!RecoverUnauthorized, Auth!At, Auth!Refresh, Auth!NearExpiry, Auth!server
<1>1. Auth!TypeOK'
    BY <1>a, <1>o, <1>c, <1>l DEF Auth!TypeOK, Auth!TasksOK, Auth!RecoverUnauthorized, Auth!At,
        Auth!Refresh, Auth!NearExpiry, Auth!server
<1>2. Auth!LockIsOwned'
    BY <1>a DEF Auth!LockIsOwned, Auth!Inside, Auth!TypeOK, Auth!TasksOK,
        Auth!RecoverUnauthorized, Auth!At, Auth!Refresh, Auth!NearExpiry, Auth!server,
        Auth!Signs
<1>3. ASSUME authDamage' = {}
      PROVE  /\ Auth!CredentialsSurvive'
             /\ \A q \in Processes : Auth!RefreshIsCurrent(q)' /\ Auth!GrantIsItsOwn(q)'
    <2>1. authDamage = {}
        BY <1>3 DEF Auth!RecoverUnauthorized, Auth!At, Auth!Refresh, Auth!NearExpiry,
            Auth!server
    <2>2. /\ Auth!CredentialsSurvive
          /\ \A q \in Processes : Auth!RefreshIsCurrent(q) /\ Auth!GrantIsItsOwn(q)
        BY <1>a, <2>1 DEF Auth!Undamaged
    <2>3. Auth!CredentialsSurvive'
        BY <1>a, <1>3, <2>2 DEF Auth!CredentialsSurvive, Auth!RefreshIsCurrent,
            Auth!GrantIsItsOwn, Auth!Granted, Auth!LockIsOwned, Auth!Inside, Auth!TypeOK,
            Auth!CredentialsOK, Auth!TasksOK, Auth!Operations, Auth!SignIns, Auth!Tokens,
            Auth!RecoverUnauthorized, Auth!At, Auth!Refresh, Auth!NearExpiry, Auth!server,
            Auth!Signs
    <2>4. ASSUME NEW q \in Processes PROVE Auth!RefreshIsCurrent(q)'
        BY <1>a, <1>3, <2>2 DEF Auth!CredentialsSurvive, Auth!RefreshIsCurrent,
            Auth!LockIsOwned, Auth!Inside, Auth!TypeOK, Auth!CredentialsOK, Auth!TasksOK,
            Auth!Operations, Auth!SignIns, Auth!Tokens, Auth!RecoverUnauthorized, Auth!At,
            Auth!Refresh, Auth!NearExpiry, Auth!server, Auth!Signs
    <2>5. ASSUME NEW q \in Processes PROVE Auth!GrantIsItsOwn(q)'
        BY <1>a, <1>3, <2>2 DEF Auth!RefreshIsCurrent, Auth!GrantIsItsOwn, Auth!Granted,
            Auth!LockIsOwned, Auth!Inside, Auth!TypeOK, Auth!CredentialsOK, Auth!TasksOK,
            Auth!Operations, Auth!SignIns, Auth!Tokens, Auth!RecoverUnauthorized, Auth!At,
            Auth!Refresh, Auth!NearExpiry, Auth!server, Auth!Signs
    <2> QED
        BY <2>3, <2>4, <2>5
<1> QED
    BY <1>a, <1>1, <1>2, <1>3 DEF Auth!IInv, Auth!ConstantsOK, Auth!Undamaged

LEMMA AuthLockKeeps ==
    ASSUME Auth!IInv, NEW p \in Processes, Auth!Lock(p)
    PROVE  Auth!IInv'
<1>a. Nobody \notin Processes /\ Auth!TypeOK /\ Auth!LockIsOwned /\ Auth!Undamaged
    BY DEF Auth!IInv, Auth!ConstantsOK
<1>1. Auth!TypeOK'
    BY <1>a DEF Auth!TypeOK, Auth!CredentialsOK, Auth!TasksOK, Auth!Operations, Auth!SignIns,
        Auth!Tokens, Auth!Lock, Auth!At, Auth!Goes, Auth!server
<1>2. Auth!LockIsOwned'
    BY <1>a DEF Auth!LockIsOwned, Auth!Inside, Auth!TypeOK, Auth!TasksOK, Auth!Lock, Auth!At,
        Auth!Goes, Auth!server, Auth!Signs
<1>3. ASSUME authDamage' = {}
      PROVE  /\ Auth!CredentialsSurvive'
             /\ \A q \in Processes : Auth!RefreshIsCurrent(q)' /\ Auth!GrantIsItsOwn(q)'
    <2>1. authDamage = {}
        BY <1>3 DEF Auth!Lock, Auth!At, Auth!Goes, Auth!server
    <2>2. /\ Auth!CredentialsSurvive
          /\ \A q \in Processes : Auth!RefreshIsCurrent(q) /\ Auth!GrantIsItsOwn(q)
        BY <1>a, <2>1 DEF Auth!Undamaged
    <2>3. Auth!CredentialsSurvive'
        BY <1>a, <1>3, <2>2 DEF Auth!CredentialsSurvive, Auth!RefreshIsCurrent,
            Auth!GrantIsItsOwn, Auth!Granted, Auth!LockIsOwned, Auth!Inside, Auth!TypeOK,
            Auth!CredentialsOK, Auth!TasksOK, Auth!Operations, Auth!SignIns, Auth!Tokens,
            Auth!Lock, Auth!At, Auth!Goes, Auth!server, Auth!Signs
    <2>4. ASSUME NEW q \in Processes PROVE Auth!RefreshIsCurrent(q)'
        BY <1>a, <1>3, <2>2 DEF Auth!CredentialsSurvive, Auth!RefreshIsCurrent,
            Auth!LockIsOwned, Auth!Inside, Auth!TypeOK, Auth!CredentialsOK, Auth!TasksOK,
            Auth!Operations, Auth!SignIns, Auth!Tokens, Auth!Lock, Auth!At, Auth!Goes,
            Auth!server, Auth!Signs
    <2>5. ASSUME NEW q \in Processes PROVE Auth!GrantIsItsOwn(q)'
        BY <1>a, <1>3, <2>2 DEF Auth!RefreshIsCurrent, Auth!GrantIsItsOwn, Auth!Granted,
            Auth!LockIsOwned, Auth!Inside, Auth!TypeOK, Auth!CredentialsOK, Auth!TasksOK,
            Auth!Operations, Auth!SignIns, Auth!Tokens, Auth!Lock, Auth!At, Auth!Goes,
            Auth!server, Auth!Signs
    <2> QED
        BY <2>3, <2>4, <2>5
<1> QED
    BY <1>a, <1>1, <1>2, <1>3 DEF Auth!IInv, Auth!ConstantsOK, Auth!Undamaged

LEMMA AuthLockTimesOutKeeps ==
    ASSUME Auth!IInv, NEW p \in Processes, Auth!LockTimesOut(p)
    PROVE  Auth!IInv'
<1>a. Nobody \notin Processes /\ Auth!TypeOK /\ Auth!LockIsOwned /\ Auth!Undamaged
    BY DEF Auth!IInv, Auth!ConstantsOK
<1>1. Auth!TypeOK'
    BY <1>a DEF Auth!TypeOK, Auth!CredentialsOK, Auth!TasksOK, Auth!Operations, Auth!SignIns,
        Auth!Tokens, Auth!LockTimesOut, Auth!At, Auth!Spend, Auth!Idle, Auth!server
<1>2. Auth!LockIsOwned'
    BY <1>a DEF Auth!LockIsOwned, Auth!Inside, Auth!TypeOK, Auth!TasksOK, Auth!LockTimesOut,
        Auth!At, Auth!Spend, Auth!Idle, Auth!server, Auth!Signs
<1>3. ASSUME authDamage' = {}
      PROVE  /\ Auth!CredentialsSurvive'
             /\ \A q \in Processes : Auth!RefreshIsCurrent(q)' /\ Auth!GrantIsItsOwn(q)'
    <2>1. authDamage = {}
        BY <1>3 DEF Auth!LockTimesOut, Auth!At, Auth!Spend, Auth!Idle, Auth!server
    <2>2. /\ Auth!CredentialsSurvive
          /\ \A q \in Processes : Auth!RefreshIsCurrent(q) /\ Auth!GrantIsItsOwn(q)
        BY <1>a, <2>1 DEF Auth!Undamaged
    <2>3. Auth!CredentialsSurvive'
        BY <1>a, <1>3, <2>2 DEF Auth!CredentialsSurvive, Auth!RefreshIsCurrent,
            Auth!GrantIsItsOwn, Auth!Granted, Auth!LockIsOwned, Auth!Inside, Auth!TypeOK,
            Auth!CredentialsOK, Auth!TasksOK, Auth!Operations, Auth!SignIns, Auth!Tokens,
            Auth!LockTimesOut, Auth!At, Auth!Spend, Auth!Idle, Auth!server, Auth!Signs
    <2>4. ASSUME NEW q \in Processes PROVE Auth!RefreshIsCurrent(q)'
        BY <1>a, <1>3, <2>2 DEF Auth!CredentialsSurvive, Auth!RefreshIsCurrent,
            Auth!LockIsOwned, Auth!Inside, Auth!TypeOK, Auth!CredentialsOK, Auth!TasksOK,
            Auth!Operations, Auth!SignIns, Auth!Tokens, Auth!LockTimesOut, Auth!At, Auth!Spend,
            Auth!Idle, Auth!server, Auth!Signs
    <2>5. ASSUME NEW q \in Processes PROVE Auth!GrantIsItsOwn(q)'
        BY <1>a, <1>3, <2>2 DEF Auth!RefreshIsCurrent, Auth!GrantIsItsOwn, Auth!Granted,
            Auth!LockIsOwned, Auth!Inside, Auth!TypeOK, Auth!CredentialsOK, Auth!TasksOK,
            Auth!Operations, Auth!SignIns, Auth!Tokens, Auth!LockTimesOut, Auth!At, Auth!Spend,
            Auth!Idle, Auth!server, Auth!Signs
    <2> QED
        BY <2>3, <2>4, <2>5
<1> QED
    BY <1>a, <1>1, <1>2, <1>3 DEF Auth!IInv, Auth!ConstantsOK, Auth!Undamaged

LEMMA AuthReloadKeeps ==
    ASSUME Auth!IInv, NEW p \in Processes, Auth!Reload(p)
    PROVE  Auth!IInv'
<1>a. Nobody \notin Processes /\ Auth!TypeOK /\ Auth!LockIsOwned /\ Auth!Undamaged
    BY DEF Auth!IInv, Auth!ConstantsOK
<1>t. /\ authOp[p] \in Auth!Operations /\ authIssued \in Nat
      /\ authMemory[p] \in Auth!Tokens /\ authFile \in Auth!Tokens
    BY <1>a DEF Auth!TypeOK, Auth!CredentialsOK, Auth!TasksOK
<1>f. \/ authOp' = [authOp EXCEPT ![p].at = "release", ![p].tries = 0] /\ authDamage' = authDamage
      \/ /\ authOp' = [authOp EXCEPT ![p].at = "post"]
         /\ authFile \in {0, authOp[p].token} \/ authDamage' # {}
    BY DEF Auth!Reload, Auth!At, Auth!Goes, Auth!Damage, Auth!NearExpiry, Auth!server
<1>e. \/ authOp' = [authOp EXCEPT ![p] = [at |-> "release", does |-> authOp[p].does, token |-> authOp[p].token, tries |-> 0]] /\ authDamage' = authDamage
      \/ /\ authOp' = [authOp EXCEPT ![p].at = "post"]
         /\ authFile \in {0, authOp[p].token} \/ authDamage' # {}
    BY <1>a, <1>f, AuthReleased DEF Auth!TypeOK, Auth!TasksOK
<1>o. authOp' \in [Processes -> Auth!Operations']
    <2>1. authIssued' = authIssued
        BY DEF Auth!Reload, Auth!At, Auth!Goes, Auth!Damage, Auth!NearExpiry, Auth!server
    <2> QED
        BY <1>a, <1>t, <1>e, <2>1 DEF Auth!TypeOK, Auth!TasksOK, Auth!Operations, Auth!Tokens,
            Auth!Idle
<1>c. Auth!CredentialsOK'
    BY <1>a, <1>t DEF Auth!TypeOK, Auth!CredentialsOK, Auth!Operations, Auth!Tokens,
        Auth!Reload, Auth!At, Auth!Goes, Auth!Damage, Auth!NearExpiry, Auth!server
<1>l. authLogin' \in [Processes -> Auth!SignIns']
    BY <1>a DEF Auth!TypeOK, Auth!CredentialsOK, Auth!TasksOK, Auth!SignIns, Auth!Tokens,
        Auth!Reload, Auth!At, Auth!Goes, Auth!Damage, Auth!NearExpiry, Auth!server
<1>1. Auth!TypeOK'
    BY <1>a, <1>o, <1>c, <1>l DEF Auth!TypeOK, Auth!TasksOK, Auth!Reload, Auth!At, Auth!Goes,
        Auth!Damage, Auth!NearExpiry, Auth!server
<1>2. Auth!LockIsOwned'
    BY <1>a DEF Auth!LockIsOwned, Auth!Inside, Auth!TypeOK, Auth!TasksOK, Auth!Reload, Auth!At,
        Auth!Goes, Auth!Damage, Auth!NearExpiry, Auth!server, Auth!Signs
<1>3. ASSUME authDamage' = {}
      PROVE  /\ Auth!CredentialsSurvive'
             /\ \A q \in Processes : Auth!RefreshIsCurrent(q)' /\ Auth!GrantIsItsOwn(q)'
    <2>1. authDamage = {}
        BY <1>3 DEF Auth!Reload, Auth!At, Auth!Goes, Auth!Damage, Auth!NearExpiry, Auth!server
    <2>2. /\ Auth!CredentialsSurvive
          /\ \A q \in Processes : Auth!RefreshIsCurrent(q) /\ Auth!GrantIsItsOwn(q)
        BY <1>a, <2>1 DEF Auth!Undamaged
    <2>3. Auth!CredentialsSurvive'
        BY <1>a, <1>3, <2>2 DEF Auth!CredentialsSurvive, Auth!RefreshIsCurrent,
            Auth!GrantIsItsOwn, Auth!Granted, Auth!LockIsOwned, Auth!Inside, Auth!TypeOK,
            Auth!CredentialsOK, Auth!TasksOK, Auth!Operations, Auth!SignIns, Auth!Tokens,
            Auth!Reload, Auth!At, Auth!Goes, Auth!Damage, Auth!NearExpiry, Auth!server,
            Auth!Signs
    <2>e. /\ authOp'[p].at \in {"release", "post"} /\ (authOp'[p].at = "post" => authOp'[p].token = authFile)
          /\ authOp'[p].at # "none" => authOp'[p].does = "refresh"
          /\ \A q \in Processes : q # p => authOp'[q] = authOp[q]
          /\ UNCHANGED <<authFile, authAccepted, authOrphans, authLogin>>
        <3>1. UNCHANGED <<authFile, authAccepted, authOrphans, authLogin>>
            BY <1>3, <1>e DEF Auth!Reload, Auth!At, Auth!Goes, Auth!Damage, Auth!NearExpiry,
                Auth!server
        <3> QED
            BY <1>a, <1>3, <1>e, <1>t, <2>2, <3>1 DEF Auth!TypeOK, Auth!TasksOK,
                Auth!CredentialsOK, Auth!Operations, Auth!RefreshIsCurrent,
                Auth!CredentialsSurvive, Auth!LockIsOwned, Auth!Inside, Auth!Idle, Auth!Reload,
                Auth!At, Auth!Goes, Auth!Damage, Auth!NearExpiry, Auth!server
    <2>4. ASSUME NEW q \in Processes PROVE Auth!RefreshIsCurrent(q)'
        BY <1>a, <1>3, <2>2, <2>e DEF Auth!CredentialsSurvive, Auth!RefreshIsCurrent,
            Auth!LockIsOwned, Auth!Inside, Auth!TypeOK, Auth!CredentialsOK, Auth!TasksOK,
            Auth!Operations, Auth!SignIns, Auth!Tokens, Auth!At, Auth!Signs
    <2>5. ASSUME NEW q \in Processes PROVE Auth!GrantIsItsOwn(q)'
        BY <1>a, <1>3, <2>2, <2>e DEF Auth!RefreshIsCurrent, Auth!GrantIsItsOwn, Auth!Granted,
            Auth!LockIsOwned, Auth!Inside, Auth!TypeOK, Auth!CredentialsOK, Auth!TasksOK,
            Auth!Operations, Auth!SignIns, Auth!Tokens, Auth!At, Auth!Signs
    <2> QED
        BY <2>3, <2>4, <2>5
<1> QED
    BY <1>a, <1>1, <1>2, <1>3 DEF Auth!IInv, Auth!ConstantsOK, Auth!Undamaged

LEMMA AuthPostKeeps ==
    ASSUME Auth!IInv, NEW p \in Processes, Auth!Post(p)
    PROVE  Auth!IInv'
<1>a. Nobody \notin Processes /\ Auth!TypeOK /\ Auth!LockIsOwned /\ Auth!Undamaged
    BY DEF Auth!IInv, Auth!ConstantsOK
<1>t. /\ authOp[p] \in Auth!Operations /\ authIssued \in Nat
      /\ authMemory[p] \in Auth!Tokens /\ authFile \in Auth!Tokens
    BY <1>a DEF Auth!TypeOK, Auth!CredentialsOK, Auth!TasksOK
<1>o. authOp' \in [Processes -> Auth!Operations']
    BY <1>a, <1>t DEF Auth!TypeOK, Auth!CredentialsOK, Auth!TasksOK, Auth!Operations,
        Auth!Tokens, Auth!Post, Auth!At, Auth!Goes, Auth!Issue, Auth!server
<1>c. Auth!CredentialsOK'
    BY <1>a, <1>t DEF Auth!TypeOK, Auth!CredentialsOK, Auth!Operations, Auth!Tokens, Auth!Post,
        Auth!At, Auth!Goes, Auth!Issue, Auth!server
<1>l. authLogin' \in [Processes -> Auth!SignIns']
    BY <1>a DEF Auth!TypeOK, Auth!CredentialsOK, Auth!TasksOK, Auth!SignIns, Auth!Tokens,
        Auth!Post, Auth!At, Auth!Goes, Auth!Issue, Auth!server
<1>1. Auth!TypeOK'
    BY <1>a, <1>o, <1>c, <1>l DEF Auth!TypeOK, Auth!TasksOK, Auth!Post, Auth!At, Auth!Goes,
        Auth!Issue, Auth!server
<1>2. Auth!LockIsOwned'
    BY <1>a DEF Auth!LockIsOwned, Auth!Inside, Auth!TypeOK, Auth!TasksOK, Auth!Post, Auth!At,
        Auth!Goes, Auth!Issue, Auth!server, Auth!Signs
<1>3. ASSUME authDamage' = {}
      PROVE  /\ Auth!CredentialsSurvive'
             /\ \A q \in Processes : Auth!RefreshIsCurrent(q)' /\ Auth!GrantIsItsOwn(q)'
    <2>1. authDamage = {}
        BY <1>3 DEF Auth!Post, Auth!At, Auth!Goes, Auth!Issue, Auth!server
    <2>2. /\ Auth!CredentialsSurvive
          /\ \A q \in Processes : Auth!RefreshIsCurrent(q) /\ Auth!GrantIsItsOwn(q)
        BY <1>a, <2>1 DEF Auth!Undamaged
    <2>3. Auth!CredentialsSurvive'
        BY <1>a, <1>3, <2>2 DEF Auth!CredentialsSurvive, Auth!RefreshIsCurrent,
            Auth!GrantIsItsOwn, Auth!Granted, Auth!LockIsOwned, Auth!Inside, Auth!TypeOK,
            Auth!CredentialsOK, Auth!TasksOK, Auth!Operations, Auth!SignIns, Auth!Tokens,
            Auth!Post, Auth!At, Auth!Goes, Auth!Issue, Auth!server, Auth!Signs
    <2>4. ASSUME NEW q \in Processes PROVE Auth!RefreshIsCurrent(q)'
        BY <1>a, <1>3, <2>2 DEF Auth!CredentialsSurvive, Auth!RefreshIsCurrent,
            Auth!LockIsOwned, Auth!Inside, Auth!TypeOK, Auth!CredentialsOK, Auth!TasksOK,
            Auth!Operations, Auth!SignIns, Auth!Tokens, Auth!Post, Auth!At, Auth!Goes,
            Auth!Issue, Auth!server, Auth!Signs
    <2>5. ASSUME NEW q \in Processes PROVE Auth!GrantIsItsOwn(q)'
        BY <1>a, <1>3, <2>2 DEF Auth!RefreshIsCurrent, Auth!GrantIsItsOwn, Auth!Granted,
            Auth!LockIsOwned, Auth!Inside, Auth!TypeOK, Auth!CredentialsOK, Auth!TasksOK,
            Auth!Operations, Auth!SignIns, Auth!Tokens, Auth!Post, Auth!At, Auth!Goes,
            Auth!Issue, Auth!server, Auth!Signs
    <2> QED
        BY <2>3, <2>4, <2>5
<1> QED
    BY <1>a, <1>1, <1>2, <1>3 DEF Auth!IInv, Auth!ConstantsOK, Auth!Undamaged

LEMMA AuthPostFailsKeeps ==
    ASSUME Auth!IInv, NEW p \in Processes, Auth!PostFails(p)
    PROVE  Auth!IInv'
<1>a. Nobody \notin Processes /\ Auth!TypeOK /\ Auth!LockIsOwned /\ Auth!Undamaged
    BY DEF Auth!IInv, Auth!ConstantsOK
<1>1. Auth!TypeOK'
    BY <1>a DEF Auth!TypeOK, Auth!CredentialsOK, Auth!TasksOK, Auth!Operations, Auth!SignIns,
        Auth!Tokens, Auth!PostFails, Auth!At, Auth!Issue, Auth!Spend, Auth!Damage, Auth!server
<1>2. Auth!LockIsOwned'
    BY <1>a DEF Auth!LockIsOwned, Auth!Inside, Auth!TypeOK, Auth!TasksOK, Auth!PostFails,
        Auth!At, Auth!Issue, Auth!Spend, Auth!Damage, Auth!server, Auth!Signs
<1>3. ASSUME authDamage' = {}
      PROVE  /\ Auth!CredentialsSurvive'
             /\ \A q \in Processes : Auth!RefreshIsCurrent(q)' /\ Auth!GrantIsItsOwn(q)'
    <2>1. authDamage = {}
        BY <1>3 DEF Auth!PostFails, Auth!At, Auth!Issue, Auth!Spend, Auth!Damage, Auth!server
    <2>2. /\ Auth!CredentialsSurvive
          /\ \A q \in Processes : Auth!RefreshIsCurrent(q) /\ Auth!GrantIsItsOwn(q)
        BY <1>a, <2>1 DEF Auth!Undamaged
    <2>3. Auth!CredentialsSurvive'
        BY <1>a, <1>3, <2>2 DEF Auth!CredentialsSurvive, Auth!RefreshIsCurrent,
            Auth!GrantIsItsOwn, Auth!Granted, Auth!LockIsOwned, Auth!Inside, Auth!TypeOK,
            Auth!CredentialsOK, Auth!TasksOK, Auth!Operations, Auth!SignIns, Auth!Tokens,
            Auth!PostFails, Auth!At, Auth!Issue, Auth!Spend, Auth!Damage, Auth!server,
            Auth!Signs
    <2>4. ASSUME NEW q \in Processes PROVE Auth!RefreshIsCurrent(q)'
        BY <1>a, <1>3, <2>2 DEF Auth!CredentialsSurvive, Auth!RefreshIsCurrent,
            Auth!LockIsOwned, Auth!Inside, Auth!TypeOK, Auth!CredentialsOK, Auth!TasksOK,
            Auth!Operations, Auth!SignIns, Auth!Tokens, Auth!PostFails, Auth!At, Auth!Issue,
            Auth!Spend, Auth!Damage, Auth!server, Auth!Signs
    <2>5. ASSUME NEW q \in Processes PROVE Auth!GrantIsItsOwn(q)'
        BY <1>a, <1>3, <2>2 DEF Auth!RefreshIsCurrent, Auth!GrantIsItsOwn, Auth!Granted,
            Auth!LockIsOwned, Auth!Inside, Auth!TypeOK, Auth!CredentialsOK, Auth!TasksOK,
            Auth!Operations, Auth!SignIns, Auth!Tokens, Auth!PostFails, Auth!At, Auth!Issue,
            Auth!Spend, Auth!Damage, Auth!server, Auth!Signs
    <2> QED
        BY <2>3, <2>4, <2>5
<1> QED
    BY <1>a, <1>1, <1>2, <1>3 DEF Auth!IInv, Auth!ConstantsOK, Auth!Undamaged

LEMMA AuthWriteKeeps ==
    ASSUME Auth!IInv, NEW p \in Processes, Auth!Write(p)
    PROVE  Auth!IInv'
<1>a. Nobody \notin Processes /\ Auth!TypeOK /\ Auth!LockIsOwned /\ Auth!Undamaged
    BY DEF Auth!IInv, Auth!ConstantsOK
<1>t. /\ authOp[p] \in Auth!Operations /\ authIssued \in Nat
      /\ authMemory[p] \in Auth!Tokens /\ authFile \in Auth!Tokens
    BY <1>a DEF Auth!TypeOK, Auth!CredentialsOK, Auth!TasksOK
<1>f. authOp' = [authOp EXCEPT ![p].at = "release", ![p].tries = 0]
    BY DEF Auth!Write, Auth!At, Auth!server
<1>e. authOp' = [authOp EXCEPT ![p] = [at |-> "release", does |-> authOp[p].does, token |-> authOp[p].token, tries |-> 0]]
    BY <1>a, <1>f, AuthReleased DEF Auth!TypeOK, Auth!TasksOK
<1>o. authOp' \in [Processes -> Auth!Operations']
    <2>1. authIssued' = authIssued
        BY DEF Auth!Write, Auth!At, Auth!server
    <2> QED
        BY <1>a, <1>t, <1>e, <2>1 DEF Auth!TypeOK, Auth!TasksOK, Auth!Operations, Auth!Tokens,
            Auth!Idle
<1>c. Auth!CredentialsOK'
    BY <1>a, <1>t DEF Auth!TypeOK, Auth!CredentialsOK, Auth!Operations, Auth!Tokens, Auth!Write,
        Auth!At, Auth!server
<1>l. authLogin' \in [Processes -> Auth!SignIns']
    BY <1>a DEF Auth!TypeOK, Auth!CredentialsOK, Auth!TasksOK, Auth!SignIns, Auth!Tokens,
        Auth!Write, Auth!At, Auth!server
<1>1. Auth!TypeOK'
    BY <1>a, <1>o, <1>c, <1>l DEF Auth!TypeOK, Auth!TasksOK, Auth!Write, Auth!At, Auth!server
<1>2. Auth!LockIsOwned'
    BY <1>a DEF Auth!LockIsOwned, Auth!Inside, Auth!TypeOK, Auth!TasksOK, Auth!Write, Auth!At,
        Auth!server, Auth!Signs
<1>3. ASSUME authDamage' = {}
      PROVE  /\ Auth!CredentialsSurvive'
             /\ \A q \in Processes : Auth!RefreshIsCurrent(q)' /\ Auth!GrantIsItsOwn(q)'
    <2>1. authDamage = {}
        BY <1>3 DEF Auth!Write, Auth!At, Auth!server
    <2>2. /\ Auth!CredentialsSurvive
          /\ \A q \in Processes : Auth!RefreshIsCurrent(q) /\ Auth!GrantIsItsOwn(q)
        BY <1>a, <2>1 DEF Auth!Undamaged
    <2>3. Auth!CredentialsSurvive'
        BY <1>a, <1>3, <2>2 DEF Auth!CredentialsSurvive, Auth!RefreshIsCurrent,
            Auth!GrantIsItsOwn, Auth!Granted, Auth!LockIsOwned, Auth!Inside, Auth!TypeOK,
            Auth!CredentialsOK, Auth!TasksOK, Auth!Operations, Auth!SignIns, Auth!Tokens,
            Auth!Write, Auth!At, Auth!server, Auth!Signs
    <2>4. ASSUME NEW q \in Processes PROVE Auth!RefreshIsCurrent(q)'
        BY <1>a, <1>3, <2>2 DEF Auth!CredentialsSurvive, Auth!RefreshIsCurrent,
            Auth!LockIsOwned, Auth!Inside, Auth!TypeOK, Auth!CredentialsOK, Auth!TasksOK,
            Auth!Operations, Auth!SignIns, Auth!Tokens, Auth!Write, Auth!At, Auth!server,
            Auth!Signs
    <2>5. ASSUME NEW q \in Processes PROVE Auth!GrantIsItsOwn(q)'
        BY <1>a, <1>3, <2>2 DEF Auth!RefreshIsCurrent, Auth!GrantIsItsOwn, Auth!Granted,
            Auth!LockIsOwned, Auth!Inside, Auth!TypeOK, Auth!CredentialsOK, Auth!TasksOK,
            Auth!Operations, Auth!SignIns, Auth!Tokens, Auth!Write, Auth!At, Auth!server,
            Auth!Signs
    <2> QED
        BY <2>3, <2>4, <2>5
<1> QED
    BY <1>a, <1>1, <1>2, <1>3 DEF Auth!IInv, Auth!ConstantsOK, Auth!Undamaged

LEMMA AuthDropKeeps ==
    ASSUME Auth!IInv, NEW p \in Processes, Auth!Drop(p)
    PROVE  Auth!IInv'
<1>a. Nobody \notin Processes /\ Auth!TypeOK /\ Auth!LockIsOwned /\ Auth!Undamaged
    BY DEF Auth!IInv, Auth!ConstantsOK
<1>t. /\ authOp[p] \in Auth!Operations /\ authIssued \in Nat
      /\ authMemory[p] \in Auth!Tokens /\ authFile \in Auth!Tokens
    BY <1>a DEF Auth!TypeOK, Auth!CredentialsOK, Auth!TasksOK
<1>f. authOp' = [authOp EXCEPT ![p].at = "release", ![p].tries = 0]
    BY DEF Auth!Drop, Auth!At, Auth!server
<1>e. authOp' = [authOp EXCEPT ![p] = [at |-> "release", does |-> authOp[p].does, token |-> authOp[p].token, tries |-> 0]]
    BY <1>a, <1>f, AuthReleased DEF Auth!TypeOK, Auth!TasksOK
<1>o. authOp' \in [Processes -> Auth!Operations']
    <2>1. authIssued' = authIssued
        BY DEF Auth!Drop, Auth!At, Auth!server
    <2> QED
        BY <1>a, <1>t, <1>e, <2>1 DEF Auth!TypeOK, Auth!TasksOK, Auth!Operations, Auth!Tokens,
            Auth!Idle
<1>c. Auth!CredentialsOK'
    BY <1>a, <1>t DEF Auth!TypeOK, Auth!CredentialsOK, Auth!Operations, Auth!Tokens, Auth!Drop,
        Auth!At, Auth!server
<1>l. authLogin' \in [Processes -> Auth!SignIns']
    BY <1>a DEF Auth!TypeOK, Auth!CredentialsOK, Auth!TasksOK, Auth!SignIns, Auth!Tokens,
        Auth!Drop, Auth!At, Auth!server
<1>1. Auth!TypeOK'
    BY <1>a, <1>o, <1>c, <1>l DEF Auth!TypeOK, Auth!TasksOK, Auth!Drop, Auth!At, Auth!server
<1>2. Auth!LockIsOwned'
    BY <1>a DEF Auth!LockIsOwned, Auth!Inside, Auth!TypeOK, Auth!TasksOK, Auth!Drop, Auth!At,
        Auth!server, Auth!Signs
<1>3. ASSUME authDamage' = {}
      PROVE  /\ Auth!CredentialsSurvive'
             /\ \A q \in Processes : Auth!RefreshIsCurrent(q)' /\ Auth!GrantIsItsOwn(q)'
    <2>1. authDamage = {}
        BY <1>3 DEF Auth!Drop, Auth!At, Auth!server
    <2>2. /\ Auth!CredentialsSurvive
          /\ \A q \in Processes : Auth!RefreshIsCurrent(q) /\ Auth!GrantIsItsOwn(q)
        BY <1>a, <2>1 DEF Auth!Undamaged
    <2>3. Auth!CredentialsSurvive'
        BY <1>a, <1>3, <2>2 DEF Auth!CredentialsSurvive, Auth!RefreshIsCurrent,
            Auth!GrantIsItsOwn, Auth!Granted, Auth!LockIsOwned, Auth!Inside, Auth!TypeOK,
            Auth!CredentialsOK, Auth!TasksOK, Auth!Operations, Auth!SignIns, Auth!Tokens,
            Auth!Drop, Auth!At, Auth!server, Auth!Signs
    <2>4. ASSUME NEW q \in Processes PROVE Auth!RefreshIsCurrent(q)'
        BY <1>a, <1>3, <2>2 DEF Auth!CredentialsSurvive, Auth!RefreshIsCurrent,
            Auth!LockIsOwned, Auth!Inside, Auth!TypeOK, Auth!CredentialsOK, Auth!TasksOK,
            Auth!Operations, Auth!SignIns, Auth!Tokens, Auth!Drop, Auth!At, Auth!server,
            Auth!Signs
    <2>5. ASSUME NEW q \in Processes PROVE Auth!GrantIsItsOwn(q)'
        BY <1>a, <1>3, <2>2 DEF Auth!RefreshIsCurrent, Auth!GrantIsItsOwn, Auth!Granted,
            Auth!LockIsOwned, Auth!Inside, Auth!TypeOK, Auth!CredentialsOK, Auth!TasksOK,
            Auth!Operations, Auth!SignIns, Auth!Tokens, Auth!Drop, Auth!At, Auth!server,
            Auth!Signs
    <2> QED
        BY <2>3, <2>4, <2>5
<1> QED
    BY <1>a, <1>1, <1>2, <1>3 DEF Auth!IInv, Auth!ConstantsOK, Auth!Undamaged

LEMMA AuthReleaseKeeps ==
    ASSUME Auth!IInv, NEW p \in Processes, Auth!Release(p)
    PROVE  Auth!IInv'
<1>a. Nobody \notin Processes /\ Auth!TypeOK /\ Auth!LockIsOwned /\ Auth!Undamaged
    BY DEF Auth!IInv, Auth!ConstantsOK
<1>1. Auth!TypeOK'
    BY <1>a DEF Auth!TypeOK, Auth!CredentialsOK, Auth!TasksOK, Auth!Operations, Auth!SignIns,
        Auth!Tokens, Auth!Release, Auth!At, Auth!Idle, Auth!server
<1>2. Auth!LockIsOwned'
    BY <1>a DEF Auth!LockIsOwned, Auth!Inside, Auth!TypeOK, Auth!TasksOK, Auth!Release, Auth!At,
        Auth!Idle, Auth!server, Auth!Signs
<1>3. ASSUME authDamage' = {}
      PROVE  /\ Auth!CredentialsSurvive'
             /\ \A q \in Processes : Auth!RefreshIsCurrent(q)' /\ Auth!GrantIsItsOwn(q)'
    <2>1. authDamage = {}
        BY <1>3 DEF Auth!Release, Auth!At, Auth!Idle, Auth!server
    <2>2. /\ Auth!CredentialsSurvive
          /\ \A q \in Processes : Auth!RefreshIsCurrent(q) /\ Auth!GrantIsItsOwn(q)
        BY <1>a, <2>1 DEF Auth!Undamaged
    <2>3. Auth!CredentialsSurvive'
        BY <1>a, <1>3, <2>2 DEF Auth!CredentialsSurvive, Auth!RefreshIsCurrent,
            Auth!GrantIsItsOwn, Auth!Granted, Auth!LockIsOwned, Auth!Inside, Auth!TypeOK,
            Auth!CredentialsOK, Auth!TasksOK, Auth!Operations, Auth!SignIns, Auth!Tokens,
            Auth!Release, Auth!At, Auth!Idle, Auth!server, Auth!Signs
    <2>4. ASSUME NEW q \in Processes PROVE Auth!RefreshIsCurrent(q)'
        BY <1>a, <1>3, <2>2 DEF Auth!CredentialsSurvive, Auth!RefreshIsCurrent,
            Auth!LockIsOwned, Auth!Inside, Auth!TypeOK, Auth!CredentialsOK, Auth!TasksOK,
            Auth!Operations, Auth!SignIns, Auth!Tokens, Auth!Release, Auth!At, Auth!Idle,
            Auth!server, Auth!Signs
    <2>5. ASSUME NEW q \in Processes PROVE Auth!GrantIsItsOwn(q)'
        BY <1>a, <1>3, <2>2 DEF Auth!RefreshIsCurrent, Auth!GrantIsItsOwn, Auth!Granted,
            Auth!LockIsOwned, Auth!Inside, Auth!TypeOK, Auth!CredentialsOK, Auth!TasksOK,
            Auth!Operations, Auth!SignIns, Auth!Tokens, Auth!Release, Auth!At, Auth!Idle,
            Auth!server, Auth!Signs
    <2> QED
        BY <2>3, <2>4, <2>5
<1> QED
    BY <1>a, <1>1, <1>2, <1>3 DEF Auth!IInv, Auth!ConstantsOK, Auth!Undamaged

LEMMA AuthCancelKeeps ==
    ASSUME Auth!IInv, NEW p \in Processes, Auth!Cancel(p)
    PROVE  Auth!IInv'
<1>a. Nobody \notin Processes /\ Auth!TypeOK /\ Auth!LockIsOwned /\ Auth!Undamaged
    BY DEF Auth!IInv, Auth!ConstantsOK
<1>t. /\ authOp[p] \in Auth!Operations /\ authIssued \in Nat
      /\ authMemory[p] \in Auth!Tokens /\ authFile \in Auth!Tokens
    BY <1>a DEF Auth!TypeOK, Auth!CredentialsOK, Auth!TasksOK
<1>f. /\ authOp[p].does = "refresh"
      /\ \/ authOp' = [authOp EXCEPT ![p] = Auth!Idle]
         \/ /\ authOp' = [authOp EXCEPT ![p].at = "release", ![p].tries = 0] /\ Auth!Inside(p)
            /\ authOp[p].at \in {"write", "drop"} => authDamage' # {}
      /\ authDamage' # {} \/ authOrphans' = authOrphans
    BY DEF Auth!Inside, Auth!Cancel, Auth!At, Auth!Spend, Auth!Damage, Auth!Idle, Auth!server
<1>e. /\ authOp[p].does = "refresh"
      /\ \/ authOp' = [authOp EXCEPT ![p] = Auth!Idle]
         \/ /\ authOp' = [authOp EXCEPT ![p] = [at |-> "release", does |-> authOp[p].does, token |-> authOp[p].token, tries |-> 0]] /\ Auth!Inside(p)
            /\ authOp[p].at \in {"write", "drop"} => authDamage' # {}
      /\ authDamage' # {} \/ authOrphans' = authOrphans
    BY <1>a, <1>f, AuthReleased DEF Auth!TypeOK, Auth!TasksOK
<1>o. authOp' \in [Processes -> Auth!Operations']
    <2>1. authIssued' = authIssued
        BY DEF Auth!Cancel, Auth!At, Auth!Spend, Auth!Damage, Auth!Idle, Auth!server
    <2> QED
        BY <1>a, <1>t, <1>e, <2>1 DEF Auth!TypeOK, Auth!TasksOK, Auth!Operations, Auth!Tokens,
            Auth!Idle
<1>c. Auth!CredentialsOK'
    BY <1>a, <1>t DEF Auth!TypeOK, Auth!CredentialsOK, Auth!Operations, Auth!Tokens,
        Auth!Cancel, Auth!At, Auth!Spend, Auth!Damage, Auth!Idle, Auth!server
<1>l. authLogin' \in [Processes -> Auth!SignIns']
    BY <1>a DEF Auth!TypeOK, Auth!CredentialsOK, Auth!TasksOK, Auth!SignIns, Auth!Tokens,
        Auth!Cancel, Auth!At, Auth!Spend, Auth!Damage, Auth!Idle, Auth!server
<1>1. Auth!TypeOK'
    BY <1>a, <1>o, <1>c, <1>l DEF Auth!TypeOK, Auth!TasksOK, Auth!Cancel, Auth!At, Auth!Spend,
        Auth!Damage, Auth!Idle, Auth!server
<1>2. Auth!LockIsOwned'
    BY <1>a DEF Auth!LockIsOwned, Auth!Inside, Auth!TypeOK, Auth!TasksOK, Auth!Cancel, Auth!At,
        Auth!Spend, Auth!Damage, Auth!Idle, Auth!server, Auth!Signs
<1>3. ASSUME authDamage' = {}
      PROVE  /\ Auth!CredentialsSurvive'
             /\ \A q \in Processes : Auth!RefreshIsCurrent(q)' /\ Auth!GrantIsItsOwn(q)'
    <2>1. authDamage = {}
        BY <1>3 DEF Auth!Cancel, Auth!At, Auth!Spend, Auth!Damage, Auth!Idle, Auth!server
    <2>2. /\ Auth!CredentialsSurvive
          /\ \A q \in Processes : Auth!RefreshIsCurrent(q) /\ Auth!GrantIsItsOwn(q)
        BY <1>a, <2>1 DEF Auth!Undamaged
    <2>3. Auth!CredentialsSurvive'
        BY <1>a, <1>3, <2>2 DEF Auth!CredentialsSurvive, Auth!RefreshIsCurrent,
            Auth!GrantIsItsOwn, Auth!Granted, Auth!LockIsOwned, Auth!Inside, Auth!TypeOK,
            Auth!CredentialsOK, Auth!TasksOK, Auth!Operations, Auth!SignIns, Auth!Tokens,
            Auth!Cancel, Auth!At, Auth!Spend, Auth!Damage, Auth!Idle, Auth!server, Auth!Signs
    <2>e. /\ authOp'[p].at \in {"none", "release"}
          /\ authOp'[p].at # "none" => authOp'[p].does = "refresh"
          /\ \A q \in Processes : q # p => authOp'[q] = authOp[q]
          /\ UNCHANGED <<authFile, authAccepted, authOrphans, authLogin>>
        <3>1. UNCHANGED <<authFile, authAccepted, authOrphans, authLogin>>
            BY <1>3, <1>e DEF Auth!Cancel, Auth!At, Auth!Spend, Auth!Damage, Auth!Idle,
                Auth!server
        <3> QED
            BY <1>a, <1>3, <1>e, <1>t, <2>2, <3>1 DEF Auth!TypeOK, Auth!TasksOK,
                Auth!CredentialsOK, Auth!Operations, Auth!RefreshIsCurrent,
                Auth!CredentialsSurvive, Auth!LockIsOwned, Auth!Inside, Auth!Idle, Auth!Cancel,
                Auth!At, Auth!Spend, Auth!Damage, Auth!Idle, Auth!server
    <2>4. ASSUME NEW q \in Processes PROVE Auth!RefreshIsCurrent(q)'
        BY <1>a, <1>3, <2>2, <2>e DEF Auth!CredentialsSurvive, Auth!RefreshIsCurrent,
            Auth!LockIsOwned, Auth!Inside, Auth!TypeOK, Auth!CredentialsOK, Auth!TasksOK,
            Auth!Operations, Auth!SignIns, Auth!Tokens, Auth!Idle, Auth!At, Auth!Signs
    <2>5. ASSUME NEW q \in Processes PROVE Auth!GrantIsItsOwn(q)'
        BY <1>a, <1>3, <2>2, <2>e DEF Auth!RefreshIsCurrent, Auth!GrantIsItsOwn, Auth!Granted,
            Auth!LockIsOwned, Auth!Inside, Auth!TypeOK, Auth!CredentialsOK, Auth!TasksOK,
            Auth!Operations, Auth!SignIns, Auth!Tokens, Auth!Idle, Auth!At, Auth!Signs
    <2> QED
        BY <2>3, <2>4, <2>5
<1> QED
    BY <1>a, <1>1, <1>2, <1>3 DEF Auth!IInv, Auth!ConstantsOK, Auth!Undamaged

LEMMA AuthOrphanLandsKeeps ==
    ASSUME Auth!IInv, NEW p \in Processes, Auth!OrphanLands(p)
    PROVE  Auth!IInv'
<1>a. Nobody \notin Processes /\ Auth!TypeOK /\ Auth!LockIsOwned /\ Auth!Undamaged
    BY DEF Auth!IInv, Auth!ConstantsOK
<1>1. Auth!TypeOK'
    BY <1>a DEF Auth!TypeOK, Auth!CredentialsOK, Auth!TasksOK, Auth!Operations, Auth!SignIns,
        Auth!Tokens, Auth!OrphanLands, Auth!local, Auth!server
<1>2. Auth!LockIsOwned'
    BY <1>a DEF Auth!LockIsOwned, Auth!Inside, Auth!TypeOK, Auth!TasksOK, Auth!OrphanLands,
        Auth!local, Auth!server, Auth!At, Auth!Signs
<1>3. ASSUME authDamage' = {}
      PROVE  /\ Auth!CredentialsSurvive'
             /\ \A q \in Processes : Auth!RefreshIsCurrent(q)' /\ Auth!GrantIsItsOwn(q)'
    <2>1. authDamage = {}
        BY <1>3 DEF Auth!OrphanLands, Auth!local, Auth!server
    <2>2. /\ Auth!CredentialsSurvive
          /\ \A q \in Processes : Auth!RefreshIsCurrent(q) /\ Auth!GrantIsItsOwn(q)
        BY <1>a, <2>1 DEF Auth!Undamaged
    <2>3. Auth!CredentialsSurvive'
        BY <1>a, <1>3, <2>2 DEF Auth!CredentialsSurvive, Auth!RefreshIsCurrent,
            Auth!GrantIsItsOwn, Auth!Granted, Auth!LockIsOwned, Auth!Inside, Auth!TypeOK,
            Auth!CredentialsOK, Auth!TasksOK, Auth!Operations, Auth!SignIns, Auth!Tokens,
            Auth!OrphanLands, Auth!local, Auth!server, Auth!At, Auth!Signs
    <2>4. ASSUME NEW q \in Processes PROVE Auth!RefreshIsCurrent(q)'
        BY <1>a, <1>3, <2>2 DEF Auth!CredentialsSurvive, Auth!RefreshIsCurrent,
            Auth!LockIsOwned, Auth!Inside, Auth!TypeOK, Auth!CredentialsOK, Auth!TasksOK,
            Auth!Operations, Auth!SignIns, Auth!Tokens, Auth!OrphanLands, Auth!local,
            Auth!server, Auth!At, Auth!Signs
    <2>5. ASSUME NEW q \in Processes PROVE Auth!GrantIsItsOwn(q)'
        BY <1>a, <1>3, <2>2 DEF Auth!RefreshIsCurrent, Auth!GrantIsItsOwn, Auth!Granted,
            Auth!LockIsOwned, Auth!Inside, Auth!TypeOK, Auth!CredentialsOK, Auth!TasksOK,
            Auth!Operations, Auth!SignIns, Auth!Tokens, Auth!OrphanLands, Auth!local,
            Auth!server, Auth!At, Auth!Signs
    <2> QED
        BY <2>3, <2>4, <2>5
<1> QED
    BY <1>a, <1>1, <1>2, <1>3 DEF Auth!IInv, Auth!ConstantsOK, Auth!Undamaged

LEMMA AuthStartLoginKeeps ==
    ASSUME Auth!IInv, NEW p \in Processes, Auth!StartLogin(p)
    PROVE  Auth!IInv'
<1>a. Nobody \notin Processes /\ Auth!TypeOK /\ Auth!LockIsOwned /\ Auth!Undamaged
    BY DEF Auth!IInv, Auth!ConstantsOK
<1>1. Auth!TypeOK'
    BY <1>a DEF Auth!TypeOK, Auth!CredentialsOK, Auth!TasksOK, Auth!Operations, Auth!SignIns,
        Auth!Tokens, Auth!StartLogin, Auth!Signs, Auth!LoginGoes, Auth!Spend, Auth!server
<1>2. Auth!LockIsOwned'
    BY <1>a DEF Auth!LockIsOwned, Auth!Inside, Auth!TypeOK, Auth!TasksOK, Auth!StartLogin,
        Auth!Signs, Auth!LoginGoes, Auth!Spend, Auth!server, Auth!At
<1>3. ASSUME authDamage' = {}
      PROVE  /\ Auth!CredentialsSurvive'
             /\ \A q \in Processes : Auth!RefreshIsCurrent(q)' /\ Auth!GrantIsItsOwn(q)'
    <2>1. authDamage = {}
        BY <1>3 DEF Auth!StartLogin, Auth!Signs, Auth!LoginGoes, Auth!Spend, Auth!server
    <2>2. /\ Auth!CredentialsSurvive
          /\ \A q \in Processes : Auth!RefreshIsCurrent(q) /\ Auth!GrantIsItsOwn(q)
        BY <1>a, <2>1 DEF Auth!Undamaged
    <2>3. Auth!CredentialsSurvive'
        BY <1>a, <1>3, <2>2 DEF Auth!CredentialsSurvive, Auth!RefreshIsCurrent,
            Auth!GrantIsItsOwn, Auth!Granted, Auth!LockIsOwned, Auth!Inside, Auth!TypeOK,
            Auth!CredentialsOK, Auth!TasksOK, Auth!Operations, Auth!SignIns, Auth!Tokens,
            Auth!StartLogin, Auth!Signs, Auth!LoginGoes, Auth!Spend, Auth!server, Auth!At
    <2>4. ASSUME NEW q \in Processes PROVE Auth!RefreshIsCurrent(q)'
        BY <1>a, <1>3, <2>2 DEF Auth!CredentialsSurvive, Auth!RefreshIsCurrent,
            Auth!LockIsOwned, Auth!Inside, Auth!TypeOK, Auth!CredentialsOK, Auth!TasksOK,
            Auth!Operations, Auth!SignIns, Auth!Tokens, Auth!StartLogin, Auth!Signs,
            Auth!LoginGoes, Auth!Spend, Auth!server, Auth!At
    <2>5. ASSUME NEW q \in Processes PROVE Auth!GrantIsItsOwn(q)'
        BY <1>a, <1>3, <2>2 DEF Auth!RefreshIsCurrent, Auth!GrantIsItsOwn, Auth!Granted,
            Auth!LockIsOwned, Auth!Inside, Auth!TypeOK, Auth!CredentialsOK, Auth!TasksOK,
            Auth!Operations, Auth!SignIns, Auth!Tokens, Auth!StartLogin, Auth!Signs,
            Auth!LoginGoes, Auth!Spend, Auth!server, Auth!At
    <2> QED
        BY <2>3, <2>4, <2>5
<1> QED
    BY <1>a, <1>1, <1>2, <1>3 DEF Auth!IInv, Auth!ConstantsOK, Auth!Undamaged

LEMMA AuthExchangeCodeKeeps ==
    ASSUME Auth!IInv, NEW p \in Processes, Auth!ExchangeCode(p)
    PROVE  Auth!IInv'
<1>a. Nobody \notin Processes /\ Auth!TypeOK /\ Auth!LockIsOwned /\ Auth!Undamaged
    BY DEF Auth!IInv, Auth!ConstantsOK
<1>1. Auth!TypeOK'
    BY <1>a DEF Auth!TypeOK, Auth!CredentialsOK, Auth!TasksOK, Auth!Operations, Auth!SignIns,
        Auth!Tokens, Auth!ExchangeCode, Auth!Signs, Auth!Issue
<1>2. Auth!LockIsOwned'
    BY <1>a DEF Auth!LockIsOwned, Auth!Inside, Auth!TypeOK, Auth!TasksOK, Auth!ExchangeCode,
        Auth!Signs, Auth!Issue, Auth!At
<1>3. ASSUME authDamage' = {}
      PROVE  /\ Auth!CredentialsSurvive'
             /\ \A q \in Processes : Auth!RefreshIsCurrent(q)' /\ Auth!GrantIsItsOwn(q)'
    <2>1. authDamage = {}
        BY <1>3 DEF Auth!ExchangeCode, Auth!Signs, Auth!Issue
    <2>2. /\ Auth!CredentialsSurvive
          /\ \A q \in Processes : Auth!RefreshIsCurrent(q) /\ Auth!GrantIsItsOwn(q)
        BY <1>a, <2>1 DEF Auth!Undamaged
    <2>3. Auth!CredentialsSurvive'
        BY <1>a, <1>3, <2>2 DEF Auth!CredentialsSurvive, Auth!RefreshIsCurrent,
            Auth!GrantIsItsOwn, Auth!Granted, Auth!LockIsOwned, Auth!Inside, Auth!TypeOK,
            Auth!CredentialsOK, Auth!TasksOK, Auth!Operations, Auth!SignIns, Auth!Tokens,
            Auth!ExchangeCode, Auth!Signs, Auth!Issue, Auth!At
    <2>4. ASSUME NEW q \in Processes PROVE Auth!RefreshIsCurrent(q)'
        BY <1>a, <1>3, <2>2 DEF Auth!CredentialsSurvive, Auth!RefreshIsCurrent,
            Auth!LockIsOwned, Auth!Inside, Auth!TypeOK, Auth!CredentialsOK, Auth!TasksOK,
            Auth!Operations, Auth!SignIns, Auth!Tokens, Auth!ExchangeCode, Auth!Signs,
            Auth!Issue, Auth!At
    <2>5. ASSUME NEW q \in Processes PROVE Auth!GrantIsItsOwn(q)'
        BY <1>a, <1>3, <2>2 DEF Auth!RefreshIsCurrent, Auth!GrantIsItsOwn, Auth!Granted,
            Auth!LockIsOwned, Auth!Inside, Auth!TypeOK, Auth!CredentialsOK, Auth!TasksOK,
            Auth!Operations, Auth!SignIns, Auth!Tokens, Auth!ExchangeCode, Auth!Signs,
            Auth!Issue, Auth!At
    <2> QED
        BY <2>3, <2>4, <2>5
<1> QED
    BY <1>a, <1>1, <1>2, <1>3 DEF Auth!IInv, Auth!ConstantsOK, Auth!Undamaged

LEMMA AuthLoginLocksKeeps ==
    ASSUME Auth!IInv, NEW p \in Processes, Auth!LoginLocks(p)
    PROVE  Auth!IInv'
<1>a. Nobody \notin Processes /\ Auth!TypeOK /\ Auth!LockIsOwned /\ Auth!Undamaged
    BY DEF Auth!IInv, Auth!ConstantsOK
<1>1. Auth!TypeOK'
    BY <1>a DEF Auth!TypeOK, Auth!CredentialsOK, Auth!TasksOK, Auth!Operations, Auth!SignIns,
        Auth!Tokens, Auth!LoginLocks, Auth!Signs, Auth!LoginGoes, Auth!server
<1>2. Auth!LockIsOwned'
    BY <1>a DEF Auth!LockIsOwned, Auth!Inside, Auth!TypeOK, Auth!TasksOK, Auth!LoginLocks,
        Auth!Signs, Auth!LoginGoes, Auth!server, Auth!At
<1>3. ASSUME authDamage' = {}
      PROVE  /\ Auth!CredentialsSurvive'
             /\ \A q \in Processes : Auth!RefreshIsCurrent(q)' /\ Auth!GrantIsItsOwn(q)'
    <2>1. authDamage = {}
        BY <1>3 DEF Auth!LoginLocks, Auth!Signs, Auth!LoginGoes, Auth!server
    <2>2. /\ Auth!CredentialsSurvive
          /\ \A q \in Processes : Auth!RefreshIsCurrent(q) /\ Auth!GrantIsItsOwn(q)
        BY <1>a, <2>1 DEF Auth!Undamaged
    <2>3. Auth!CredentialsSurvive'
        BY <1>a, <1>3, <2>2 DEF Auth!CredentialsSurvive, Auth!RefreshIsCurrent,
            Auth!GrantIsItsOwn, Auth!Granted, Auth!LockIsOwned, Auth!Inside, Auth!TypeOK,
            Auth!CredentialsOK, Auth!TasksOK, Auth!Operations, Auth!SignIns, Auth!Tokens,
            Auth!LoginLocks, Auth!Signs, Auth!LoginGoes, Auth!server, Auth!At
    <2>4. ASSUME NEW q \in Processes PROVE Auth!RefreshIsCurrent(q)'
        BY <1>a, <1>3, <2>2 DEF Auth!CredentialsSurvive, Auth!RefreshIsCurrent,
            Auth!LockIsOwned, Auth!Inside, Auth!TypeOK, Auth!CredentialsOK, Auth!TasksOK,
            Auth!Operations, Auth!SignIns, Auth!Tokens, Auth!LoginLocks, Auth!Signs,
            Auth!LoginGoes, Auth!server, Auth!At
    <2>5. ASSUME NEW q \in Processes PROVE Auth!GrantIsItsOwn(q)'
        BY <1>a, <1>3, <2>2 DEF Auth!RefreshIsCurrent, Auth!GrantIsItsOwn, Auth!Granted,
            Auth!LockIsOwned, Auth!Inside, Auth!TypeOK, Auth!CredentialsOK, Auth!TasksOK,
            Auth!Operations, Auth!SignIns, Auth!Tokens, Auth!LoginLocks, Auth!Signs,
            Auth!LoginGoes, Auth!server, Auth!At
    <2> QED
        BY <2>3, <2>4, <2>5
<1> QED
    BY <1>a, <1>1, <1>2, <1>3 DEF Auth!IInv, Auth!ConstantsOK, Auth!Undamaged

LEMMA AuthLoginWritesKeeps ==
    ASSUME Auth!IInv, NEW p \in Processes, Auth!LoginWrites(p)
    PROVE  Auth!IInv'
<1>a. Nobody \notin Processes /\ Auth!TypeOK /\ Auth!LockIsOwned /\ Auth!Undamaged
    BY DEF Auth!IInv, Auth!ConstantsOK
<1>1. Auth!TypeOK'
    BY <1>a DEF Auth!TypeOK, Auth!CredentialsOK, Auth!TasksOK, Auth!Operations, Auth!SignIns,
        Auth!Tokens, Auth!LoginWrites, Auth!Signs, Auth!LoginGoes, Auth!server
<1>2. Auth!LockIsOwned'
    BY <1>a DEF Auth!LockIsOwned, Auth!Inside, Auth!TypeOK, Auth!TasksOK, Auth!LoginWrites,
        Auth!Signs, Auth!LoginGoes, Auth!server, Auth!At
<1>3. ASSUME authDamage' = {}
      PROVE  /\ Auth!CredentialsSurvive'
             /\ \A q \in Processes : Auth!RefreshIsCurrent(q)' /\ Auth!GrantIsItsOwn(q)'
    <2>1. authDamage = {}
        BY <1>3 DEF Auth!LoginWrites, Auth!Signs, Auth!LoginGoes, Auth!server
    <2>2. /\ Auth!CredentialsSurvive
          /\ \A q \in Processes : Auth!RefreshIsCurrent(q) /\ Auth!GrantIsItsOwn(q)
        BY <1>a, <2>1 DEF Auth!Undamaged
    <2>3. Auth!CredentialsSurvive'
        BY <1>a, <1>3, <2>2 DEF Auth!CredentialsSurvive, Auth!RefreshIsCurrent,
            Auth!GrantIsItsOwn, Auth!Granted, Auth!LockIsOwned, Auth!Inside, Auth!TypeOK,
            Auth!CredentialsOK, Auth!TasksOK, Auth!Operations, Auth!SignIns, Auth!Tokens,
            Auth!LoginWrites, Auth!Signs, Auth!LoginGoes, Auth!server, Auth!At
    <2>4. ASSUME NEW q \in Processes PROVE Auth!RefreshIsCurrent(q)'
        BY <1>a, <1>3, <2>2 DEF Auth!CredentialsSurvive, Auth!RefreshIsCurrent,
            Auth!LockIsOwned, Auth!Inside, Auth!TypeOK, Auth!CredentialsOK, Auth!TasksOK,
            Auth!Operations, Auth!SignIns, Auth!Tokens, Auth!LoginWrites, Auth!Signs,
            Auth!LoginGoes, Auth!server, Auth!At
    <2>5. ASSUME NEW q \in Processes PROVE Auth!GrantIsItsOwn(q)'
        BY <1>a, <1>3, <2>2 DEF Auth!RefreshIsCurrent, Auth!GrantIsItsOwn, Auth!Granted,
            Auth!LockIsOwned, Auth!Inside, Auth!TypeOK, Auth!CredentialsOK, Auth!TasksOK,
            Auth!Operations, Auth!SignIns, Auth!Tokens, Auth!LoginWrites, Auth!Signs,
            Auth!LoginGoes, Auth!server, Auth!At
    <2> QED
        BY <2>3, <2>4, <2>5
<1> QED
    BY <1>a, <1>1, <1>2, <1>3 DEF Auth!IInv, Auth!ConstantsOK, Auth!Undamaged

LEMMA AuthLoginSettlesKeeps ==
    ASSUME Auth!IInv, NEW p \in Processes, Auth!LoginSettles(p)
    PROVE  Auth!IInv'
<1>a. Nobody \notin Processes /\ Auth!TypeOK /\ Auth!LockIsOwned /\ Auth!Undamaged
    BY DEF Auth!IInv, Auth!ConstantsOK
<1>1. Auth!TypeOK'
    BY <1>a DEF Auth!TypeOK, Auth!CredentialsOK, Auth!TasksOK, Auth!Operations, Auth!SignIns,
        Auth!Tokens, Auth!LoginSettles, Auth!At, Auth!Signs, Auth!NoLogin, Auth!server
<1>2. Auth!LockIsOwned'
    BY <1>a DEF Auth!LockIsOwned, Auth!Inside, Auth!TypeOK, Auth!TasksOK, Auth!LoginSettles,
        Auth!At, Auth!Signs, Auth!NoLogin, Auth!server
<1>3. ASSUME authDamage' = {}
      PROVE  /\ Auth!CredentialsSurvive'
             /\ \A q \in Processes : Auth!RefreshIsCurrent(q)' /\ Auth!GrantIsItsOwn(q)'
    <2>1. authDamage = {}
        BY <1>3 DEF Auth!LoginSettles, Auth!At, Auth!Signs, Auth!NoLogin, Auth!server
    <2>2. /\ Auth!CredentialsSurvive
          /\ \A q \in Processes : Auth!RefreshIsCurrent(q) /\ Auth!GrantIsItsOwn(q)
        BY <1>a, <2>1 DEF Auth!Undamaged
    <2>3. Auth!CredentialsSurvive'
        BY <1>a, <1>3, <2>2 DEF Auth!CredentialsSurvive, Auth!RefreshIsCurrent,
            Auth!GrantIsItsOwn, Auth!Granted, Auth!LockIsOwned, Auth!Inside, Auth!TypeOK,
            Auth!CredentialsOK, Auth!TasksOK, Auth!Operations, Auth!SignIns, Auth!Tokens,
            Auth!LoginSettles, Auth!At, Auth!Signs, Auth!NoLogin, Auth!server
    <2>4. ASSUME NEW q \in Processes PROVE Auth!RefreshIsCurrent(q)'
        BY <1>a, <1>3, <2>2 DEF Auth!CredentialsSurvive, Auth!RefreshIsCurrent,
            Auth!LockIsOwned, Auth!Inside, Auth!TypeOK, Auth!CredentialsOK, Auth!TasksOK,
            Auth!Operations, Auth!SignIns, Auth!Tokens, Auth!LoginSettles, Auth!At, Auth!Signs,
            Auth!NoLogin, Auth!server
    <2>5. ASSUME NEW q \in Processes PROVE Auth!GrantIsItsOwn(q)'
        BY <1>a, <1>3, <2>2 DEF Auth!RefreshIsCurrent, Auth!GrantIsItsOwn, Auth!Granted,
            Auth!LockIsOwned, Auth!Inside, Auth!TypeOK, Auth!CredentialsOK, Auth!TasksOK,
            Auth!Operations, Auth!SignIns, Auth!Tokens, Auth!LoginSettles, Auth!At, Auth!Signs,
            Auth!NoLogin, Auth!server
    <2> QED
        BY <2>3, <2>4, <2>5
<1> QED
    BY <1>a, <1>1, <1>2, <1>3 DEF Auth!IInv, Auth!ConstantsOK, Auth!Undamaged

LEMMA AuthLoginFailsKeeps ==
    ASSUME Auth!IInv, NEW p \in Processes, Auth!LoginFails(p)
    PROVE  Auth!IInv'
<1>a. Nobody \notin Processes /\ Auth!TypeOK /\ Auth!LockIsOwned /\ Auth!Undamaged
    BY DEF Auth!IInv, Auth!ConstantsOK
<1>1. Auth!TypeOK'
    BY <1>a DEF Auth!TypeOK, Auth!CredentialsOK, Auth!TasksOK, Auth!Operations, Auth!SignIns,
        Auth!Tokens, Auth!LoginFails, Auth!NoLogin, Auth!server
<1>2. Auth!LockIsOwned'
    BY <1>a DEF Auth!LockIsOwned, Auth!Inside, Auth!TypeOK, Auth!TasksOK, Auth!LoginFails,
        Auth!NoLogin, Auth!server, Auth!At, Auth!Signs
<1>3. ASSUME authDamage' = {}
      PROVE  /\ Auth!CredentialsSurvive'
             /\ \A q \in Processes : Auth!RefreshIsCurrent(q)' /\ Auth!GrantIsItsOwn(q)'
    <2>1. authDamage = {}
        BY <1>3 DEF Auth!LoginFails, Auth!NoLogin, Auth!server
    <2>2. /\ Auth!CredentialsSurvive
          /\ \A q \in Processes : Auth!RefreshIsCurrent(q) /\ Auth!GrantIsItsOwn(q)
        BY <1>a, <2>1 DEF Auth!Undamaged
    <2>3. Auth!CredentialsSurvive'
        BY <1>a, <1>3, <2>2 DEF Auth!CredentialsSurvive, Auth!RefreshIsCurrent,
            Auth!GrantIsItsOwn, Auth!Granted, Auth!LockIsOwned, Auth!Inside, Auth!TypeOK,
            Auth!CredentialsOK, Auth!TasksOK, Auth!Operations, Auth!SignIns, Auth!Tokens,
            Auth!LoginFails, Auth!NoLogin, Auth!server, Auth!At, Auth!Signs
    <2>4. ASSUME NEW q \in Processes PROVE Auth!RefreshIsCurrent(q)'
        BY <1>a, <1>3, <2>2 DEF Auth!CredentialsSurvive, Auth!RefreshIsCurrent,
            Auth!LockIsOwned, Auth!Inside, Auth!TypeOK, Auth!CredentialsOK, Auth!TasksOK,
            Auth!Operations, Auth!SignIns, Auth!Tokens, Auth!LoginFails, Auth!NoLogin,
            Auth!server, Auth!At, Auth!Signs
    <2>5. ASSUME NEW q \in Processes PROVE Auth!GrantIsItsOwn(q)'
        BY <1>a, <1>3, <2>2 DEF Auth!RefreshIsCurrent, Auth!GrantIsItsOwn, Auth!Granted,
            Auth!LockIsOwned, Auth!Inside, Auth!TypeOK, Auth!CredentialsOK, Auth!TasksOK,
            Auth!Operations, Auth!SignIns, Auth!Tokens, Auth!LoginFails, Auth!NoLogin,
            Auth!server, Auth!At, Auth!Signs
    <2> QED
        BY <2>3, <2>4, <2>5
<1> QED
    BY <1>a, <1>1, <1>2, <1>3 DEF Auth!IInv, Auth!ConstantsOK, Auth!Undamaged

LEMMA AuthCancelLoginKeeps ==
    ASSUME Auth!IInv, NEW p \in Processes, Auth!CancelLogin(p)
    PROVE  Auth!IInv'
<1>a. Nobody \notin Processes /\ Auth!TypeOK /\ Auth!LockIsOwned /\ Auth!Undamaged
    BY DEF Auth!IInv, Auth!ConstantsOK
<1>1. Auth!TypeOK'
    BY <1>a DEF Auth!TypeOK, Auth!CredentialsOK, Auth!TasksOK, Auth!Operations, Auth!SignIns,
        Auth!Tokens, Auth!CancelLogin, Auth!Signs, Auth!Spend, Auth!Damage, Auth!NoLogin,
        Auth!DetachesLogin, Auth!server
<1>2. Auth!LockIsOwned'
    BY <1>a DEF Auth!LockIsOwned, Auth!Inside, Auth!TypeOK, Auth!TasksOK, Auth!CancelLogin,
        Auth!Signs, Auth!Spend, Auth!Damage, Auth!NoLogin, Auth!DetachesLogin, Auth!server,
        Auth!At
<1>3. ASSUME authDamage' = {}
      PROVE  /\ Auth!CredentialsSurvive'
             /\ \A q \in Processes : Auth!RefreshIsCurrent(q)' /\ Auth!GrantIsItsOwn(q)'
    <2>1. authDamage = {}
        BY <1>3 DEF Auth!CancelLogin, Auth!Signs, Auth!Spend, Auth!Damage, Auth!NoLogin,
            Auth!DetachesLogin, Auth!server
    <2>2. /\ Auth!CredentialsSurvive
          /\ \A q \in Processes : Auth!RefreshIsCurrent(q) /\ Auth!GrantIsItsOwn(q)
        BY <1>a, <2>1 DEF Auth!Undamaged
    <2>3. Auth!CredentialsSurvive'
        BY <1>a, <1>3, <2>2 DEF Auth!CredentialsSurvive, Auth!RefreshIsCurrent,
            Auth!GrantIsItsOwn, Auth!Granted, Auth!LockIsOwned, Auth!Inside, Auth!TypeOK,
            Auth!CredentialsOK, Auth!TasksOK, Auth!Operations, Auth!SignIns, Auth!Tokens,
            Auth!CancelLogin, Auth!Signs, Auth!Spend, Auth!Damage, Auth!NoLogin,
            Auth!DetachesLogin, Auth!server, Auth!At
    <2>4. ASSUME NEW q \in Processes PROVE Auth!RefreshIsCurrent(q)'
        BY <1>a, <1>3, <2>2 DEF Auth!CredentialsSurvive, Auth!RefreshIsCurrent,
            Auth!LockIsOwned, Auth!Inside, Auth!TypeOK, Auth!CredentialsOK, Auth!TasksOK,
            Auth!Operations, Auth!SignIns, Auth!Tokens, Auth!CancelLogin, Auth!Signs,
            Auth!Spend, Auth!Damage, Auth!NoLogin, Auth!DetachesLogin, Auth!server, Auth!At
    <2>5. ASSUME NEW q \in Processes PROVE Auth!GrantIsItsOwn(q)'
        BY <1>a, <1>3, <2>2 DEF Auth!RefreshIsCurrent, Auth!GrantIsItsOwn, Auth!Granted,
            Auth!LockIsOwned, Auth!Inside, Auth!TypeOK, Auth!CredentialsOK, Auth!TasksOK,
            Auth!Operations, Auth!SignIns, Auth!Tokens, Auth!CancelLogin, Auth!Signs,
            Auth!Spend, Auth!Damage, Auth!NoLogin, Auth!DetachesLogin, Auth!server, Auth!At
    <2> QED
        BY <2>3, <2>4, <2>5
<1> QED
    BY <1>a, <1>1, <1>2, <1>3 DEF Auth!IInv, Auth!ConstantsOK, Auth!Undamaged

LEMMA AuthDisconnectKeeps ==
    ASSUME Auth!IInv, NEW p \in Processes, Auth!Disconnect(p)
    PROVE  Auth!IInv'
<1>a. Nobody \notin Processes /\ Auth!TypeOK /\ Auth!LockIsOwned /\ Auth!Undamaged
    BY DEF Auth!IInv, Auth!ConstantsOK
<1>1. Auth!TypeOK'
    BY <1>a DEF Auth!TypeOK, Auth!CredentialsOK, Auth!TasksOK, Auth!Operations, Auth!SignIns,
        Auth!Tokens, Auth!Disconnect, Auth!At, Auth!Signs, Auth!Spend, Auth!Damage,
        Auth!NoLogin, Auth!DetachesLogin, Auth!server
<1>2. Auth!LockIsOwned'
    BY <1>a DEF Auth!LockIsOwned, Auth!Inside, Auth!TypeOK, Auth!TasksOK, Auth!Disconnect,
        Auth!At, Auth!Signs, Auth!Spend, Auth!Damage, Auth!NoLogin, Auth!DetachesLogin,
        Auth!server
<1>3. ASSUME authDamage' = {}
      PROVE  /\ Auth!CredentialsSurvive'
             /\ \A q \in Processes : Auth!RefreshIsCurrent(q)' /\ Auth!GrantIsItsOwn(q)'
    <2>1. authDamage = {}
        BY <1>3 DEF Auth!Disconnect, Auth!At, Auth!Signs, Auth!Spend, Auth!Damage, Auth!NoLogin,
            Auth!DetachesLogin, Auth!server
    <2>2. /\ Auth!CredentialsSurvive
          /\ \A q \in Processes : Auth!RefreshIsCurrent(q) /\ Auth!GrantIsItsOwn(q)
        BY <1>a, <2>1 DEF Auth!Undamaged
    <2>3. Auth!CredentialsSurvive'
        BY <1>a, <1>3, <2>2 DEF Auth!CredentialsSurvive, Auth!RefreshIsCurrent,
            Auth!GrantIsItsOwn, Auth!Granted, Auth!LockIsOwned, Auth!Inside, Auth!TypeOK,
            Auth!CredentialsOK, Auth!TasksOK, Auth!Operations, Auth!SignIns, Auth!Tokens,
            Auth!Disconnect, Auth!At, Auth!Signs, Auth!Spend, Auth!Damage, Auth!NoLogin,
            Auth!DetachesLogin, Auth!server
    <2>4. ASSUME NEW q \in Processes PROVE Auth!RefreshIsCurrent(q)'
        BY <1>a, <1>3, <2>2 DEF Auth!CredentialsSurvive, Auth!RefreshIsCurrent,
            Auth!LockIsOwned, Auth!Inside, Auth!TypeOK, Auth!CredentialsOK, Auth!TasksOK,
            Auth!Operations, Auth!SignIns, Auth!Tokens, Auth!Disconnect, Auth!At, Auth!Signs,
            Auth!Spend, Auth!Damage, Auth!NoLogin, Auth!DetachesLogin, Auth!server
    <2>5. ASSUME NEW q \in Processes PROVE Auth!GrantIsItsOwn(q)'
        BY <1>a, <1>3, <2>2 DEF Auth!RefreshIsCurrent, Auth!GrantIsItsOwn, Auth!Granted,
            Auth!LockIsOwned, Auth!Inside, Auth!TypeOK, Auth!CredentialsOK, Auth!TasksOK,
            Auth!Operations, Auth!SignIns, Auth!Tokens, Auth!Disconnect, Auth!At, Auth!Signs,
            Auth!Spend, Auth!Damage, Auth!NoLogin, Auth!DetachesLogin, Auth!server
    <2> QED
        BY <2>3, <2>4, <2>5
<1> QED
    BY <1>a, <1>1, <1>2, <1>3 DEF Auth!IInv, Auth!ConstantsOK, Auth!Undamaged

LEMMA AuthRevokeKeeps ==
    ASSUME Auth!IInv, NEW p \in Processes, Auth!Revoke(p)
    PROVE  Auth!IInv'
<1>a. Nobody \notin Processes /\ Auth!TypeOK /\ Auth!LockIsOwned /\ Auth!Undamaged
    BY DEF Auth!IInv, Auth!ConstantsOK
<1>1. Auth!TypeOK'
    BY <1>a DEF Auth!TypeOK, Auth!CredentialsOK, Auth!TasksOK, Auth!Operations, Auth!SignIns,
        Auth!Tokens, Auth!Revoke, Auth!At, Auth!Goes, Auth!Spend
<1>2. Auth!LockIsOwned'
    BY <1>a DEF Auth!LockIsOwned, Auth!Inside, Auth!TypeOK, Auth!TasksOK, Auth!Revoke, Auth!At,
        Auth!Goes, Auth!Spend, Auth!Signs
<1>3. ASSUME authDamage' = {}
      PROVE  /\ Auth!CredentialsSurvive'
             /\ \A q \in Processes : Auth!RefreshIsCurrent(q)' /\ Auth!GrantIsItsOwn(q)'
    <2>1. authDamage = {}
        BY <1>3 DEF Auth!Revoke, Auth!At, Auth!Goes, Auth!Spend
    <2>2. /\ Auth!CredentialsSurvive
          /\ \A q \in Processes : Auth!RefreshIsCurrent(q) /\ Auth!GrantIsItsOwn(q)
        BY <1>a, <2>1 DEF Auth!Undamaged
    <2>3. Auth!CredentialsSurvive'
        BY <1>a, <1>3, <2>2 DEF Auth!CredentialsSurvive, Auth!RefreshIsCurrent,
            Auth!GrantIsItsOwn, Auth!Granted, Auth!LockIsOwned, Auth!Inside, Auth!TypeOK,
            Auth!CredentialsOK, Auth!TasksOK, Auth!Operations, Auth!SignIns, Auth!Tokens,
            Auth!Revoke, Auth!At, Auth!Goes, Auth!Spend, Auth!Signs
    <2>4. ASSUME NEW q \in Processes PROVE Auth!RefreshIsCurrent(q)'
        BY <1>a, <1>3, <2>2 DEF Auth!CredentialsSurvive, Auth!RefreshIsCurrent,
            Auth!LockIsOwned, Auth!Inside, Auth!TypeOK, Auth!CredentialsOK, Auth!TasksOK,
            Auth!Operations, Auth!SignIns, Auth!Tokens, Auth!Revoke, Auth!At, Auth!Goes,
            Auth!Spend, Auth!Signs
    <2>5. ASSUME NEW q \in Processes PROVE Auth!GrantIsItsOwn(q)'
        BY <1>a, <1>3, <2>2 DEF Auth!RefreshIsCurrent, Auth!GrantIsItsOwn, Auth!Granted,
            Auth!LockIsOwned, Auth!Inside, Auth!TypeOK, Auth!CredentialsOK, Auth!TasksOK,
            Auth!Operations, Auth!SignIns, Auth!Tokens, Auth!Revoke, Auth!At, Auth!Goes,
            Auth!Spend, Auth!Signs
    <2> QED
        BY <2>3, <2>4, <2>5
<1> QED
    BY <1>a, <1>1, <1>2, <1>3 DEF Auth!IInv, Auth!ConstantsOK, Auth!Undamaged

LEMMA AuthUnlinkKeeps ==
    ASSUME Auth!IInv, NEW p \in Processes, Auth!Unlink(p)
    PROVE  Auth!IInv'
<1>a. Nobody \notin Processes /\ Auth!TypeOK /\ Auth!LockIsOwned /\ Auth!Undamaged
    BY DEF Auth!IInv, Auth!ConstantsOK
<1>1. Auth!TypeOK'
    BY <1>a DEF Auth!TypeOK, Auth!CredentialsOK, Auth!TasksOK, Auth!Operations, Auth!SignIns,
        Auth!Tokens, Auth!Unlink, Auth!At, Auth!Goes, Auth!server
<1>2. Auth!LockIsOwned'
    BY <1>a DEF Auth!LockIsOwned, Auth!Inside, Auth!TypeOK, Auth!TasksOK, Auth!Unlink, Auth!At,
        Auth!Goes, Auth!server, Auth!Signs
<1>3. ASSUME authDamage' = {}
      PROVE  /\ Auth!CredentialsSurvive'
             /\ \A q \in Processes : Auth!RefreshIsCurrent(q)' /\ Auth!GrantIsItsOwn(q)'
    <2>1. authDamage = {}
        BY <1>3 DEF Auth!Unlink, Auth!At, Auth!Goes, Auth!server
    <2>2. /\ Auth!CredentialsSurvive
          /\ \A q \in Processes : Auth!RefreshIsCurrent(q) /\ Auth!GrantIsItsOwn(q)
        BY <1>a, <2>1 DEF Auth!Undamaged
    <2>3. Auth!CredentialsSurvive'
        BY <1>a, <1>3, <2>2 DEF Auth!CredentialsSurvive, Auth!RefreshIsCurrent,
            Auth!GrantIsItsOwn, Auth!Granted, Auth!LockIsOwned, Auth!Inside, Auth!TypeOK,
            Auth!CredentialsOK, Auth!TasksOK, Auth!Operations, Auth!SignIns, Auth!Tokens,
            Auth!Unlink, Auth!At, Auth!Goes, Auth!server, Auth!Signs
    <2>4. ASSUME NEW q \in Processes PROVE Auth!RefreshIsCurrent(q)'
        BY <1>a, <1>3, <2>2 DEF Auth!CredentialsSurvive, Auth!RefreshIsCurrent,
            Auth!LockIsOwned, Auth!Inside, Auth!TypeOK, Auth!CredentialsOK, Auth!TasksOK,
            Auth!Operations, Auth!SignIns, Auth!Tokens, Auth!Unlink, Auth!At, Auth!Goes,
            Auth!server, Auth!Signs
    <2>5. ASSUME NEW q \in Processes PROVE Auth!GrantIsItsOwn(q)'
        BY <1>a, <1>3, <2>2 DEF Auth!RefreshIsCurrent, Auth!GrantIsItsOwn, Auth!Granted,
            Auth!LockIsOwned, Auth!Inside, Auth!TypeOK, Auth!CredentialsOK, Auth!TasksOK,
            Auth!Operations, Auth!SignIns, Auth!Tokens, Auth!Unlink, Auth!At, Auth!Goes,
            Auth!server, Auth!Signs
    <2> QED
        BY <2>3, <2>4, <2>5
<1> QED
    BY <1>a, <1>1, <1>2, <1>3 DEF Auth!IInv, Auth!ConstantsOK, Auth!Undamaged

LEMMA AuthCrashKeeps ==
    ASSUME Auth!IInv, NEW p \in Processes, Auth!Crash(p)
    PROVE  Auth!IInv'
<1>a. Nobody \notin Processes /\ Auth!TypeOK /\ Auth!LockIsOwned /\ Auth!Undamaged
    BY DEF Auth!IInv, Auth!ConstantsOK
<1>1. Auth!TypeOK'
    BY <1>a DEF Auth!TypeOK, Auth!CredentialsOK, Auth!TasksOK, Auth!Operations, Auth!SignIns,
        Auth!Tokens, Auth!Crash, Auth!At, Auth!Spend, Auth!Damage, Auth!Idle, Auth!NoLogin,
        Auth!server
<1>2. Auth!LockIsOwned'
    BY <1>a DEF Auth!LockIsOwned, Auth!Inside, Auth!TypeOK, Auth!TasksOK, Auth!Crash, Auth!At,
        Auth!Spend, Auth!Damage, Auth!Idle, Auth!NoLogin, Auth!server, Auth!Signs
<1>3. ASSUME authDamage' = {}
      PROVE  /\ Auth!CredentialsSurvive'
             /\ \A q \in Processes : Auth!RefreshIsCurrent(q)' /\ Auth!GrantIsItsOwn(q)'
    <2>1. authDamage = {}
        BY <1>3 DEF Auth!Crash, Auth!At, Auth!Spend, Auth!Damage, Auth!Idle, Auth!NoLogin,
            Auth!server
    <2>2. /\ Auth!CredentialsSurvive
          /\ \A q \in Processes : Auth!RefreshIsCurrent(q) /\ Auth!GrantIsItsOwn(q)
        BY <1>a, <2>1 DEF Auth!Undamaged
    <2>3. Auth!CredentialsSurvive'
        BY <1>a, <1>3, <2>2 DEF Auth!CredentialsSurvive, Auth!RefreshIsCurrent,
            Auth!GrantIsItsOwn, Auth!Granted, Auth!LockIsOwned, Auth!Inside, Auth!TypeOK,
            Auth!CredentialsOK, Auth!TasksOK, Auth!Operations, Auth!SignIns, Auth!Tokens,
            Auth!Crash, Auth!At, Auth!Spend, Auth!Damage, Auth!Idle, Auth!NoLogin, Auth!server,
            Auth!Signs
    <2>4. ASSUME NEW q \in Processes PROVE Auth!RefreshIsCurrent(q)'
        BY <1>a, <1>3, <2>2 DEF Auth!CredentialsSurvive, Auth!RefreshIsCurrent,
            Auth!LockIsOwned, Auth!Inside, Auth!TypeOK, Auth!CredentialsOK, Auth!TasksOK,
            Auth!Operations, Auth!SignIns, Auth!Tokens, Auth!Crash, Auth!At, Auth!Spend,
            Auth!Damage, Auth!Idle, Auth!NoLogin, Auth!server, Auth!Signs
    <2>5. ASSUME NEW q \in Processes PROVE Auth!GrantIsItsOwn(q)'
        BY <1>a, <1>3, <2>2 DEF Auth!RefreshIsCurrent, Auth!GrantIsItsOwn, Auth!Granted,
            Auth!LockIsOwned, Auth!Inside, Auth!TypeOK, Auth!CredentialsOK, Auth!TasksOK,
            Auth!Operations, Auth!SignIns, Auth!Tokens, Auth!Crash, Auth!At, Auth!Spend,
            Auth!Damage, Auth!Idle, Auth!NoLogin, Auth!server, Auth!Signs
    <2> QED
        BY <2>3, <2>4, <2>5
<1> QED
    BY <1>a, <1>1, <1>2, <1>3 DEF Auth!IInv, Auth!ConstantsOK, Auth!Undamaged

LEMMA AuthExpiresKeeps == Auth!IInv /\ Auth!Expires => Auth!IInv'
<1> SUFFICES ASSUME Auth!IInv, Auth!Expires PROVE Auth!IInv'
    OBVIOUS
<1>1. Auth!TypeOK /\ Auth!LockIsOwned /\ Auth!Undamaged
    BY DEF Auth!IInv
<1>2. UNCHANGED <<authFile, authMemory, authOp, authLogin, authHolder, authOrphans, authAccepted, authIssued, authDamage>> /\ authExpired' = authExpired + 1 /\ authExpired < authIssued
    BY DEF Auth!Expires, Auth!local
<1>3. Auth!TypeOK'
    BY <1>1, <1>2 DEF Auth!TypeOK, Auth!CredentialsOK, Auth!TasksOK, Auth!Tokens,
        Auth!Operations, Auth!SignIns
<1>4. Auth!LockIsOwned' /\ Auth!Undamaged'
    BY <1>1, <1>2 DEF Auth!LockIsOwned, Auth!Inside, Auth!Signs, Auth!Undamaged,
        Auth!CredentialsSurvive, Auth!RefreshIsCurrent, Auth!GrantIsItsOwn, Auth!Granted,
        Auth!At
<1> QED
    BY <1>3, <1>4 DEF Auth!IInv, Auth!ConstantsOK

LEMMA AuthInit == Auth!Init => Auth!IInv
<1> SUFFICES ASSUME Auth!Init PROVE Auth!IInv
    OBVIOUS
<1>1. Auth!TypeOK
    BY DEF Auth!Init, Auth!TypeOK, Auth!CredentialsOK, Auth!TasksOK, Auth!Tokens,
        Auth!Operations, Auth!SignIns, Auth!Idle, Auth!NoLogin
<1>2. Auth!LockIsOwned /\ Auth!Undamaged
    BY DEF Auth!Init, Auth!Idle, Auth!NoLogin, Auth!LockIsOwned, Auth!Inside, Auth!Signs,
        Auth!Undamaged, Auth!CredentialsSurvive, Auth!RefreshIsCurrent, Auth!GrantIsItsOwn,
        Auth!Granted, Auth!At
<1> QED
    BY <1>1, <1>2, RuntimeAssumption DEF Auth!IInv, Auth!ConstantsOK

LEMMA AuthNext == Auth!IInv /\ [Auth!Next]_(Auth!vars) => Auth!IInv'
<1> SUFFICES ASSUME Auth!IInv, [Auth!Next]_(Auth!vars) PROVE Auth!IInv'
    OBVIOUS
<1>1. ASSUME NEW p \in Processes, Auth!Step(p) PROVE Auth!IInv'
    BY <1>1, AuthLockKeeps, AuthReloadKeeps, AuthPostKeeps, AuthWriteKeeps, AuthDropKeeps,
        AuthReleaseKeeps, AuthRevokeKeeps, AuthUnlinkKeeps DEF Auth!Step
<1>2. ASSUME NEW p \in Processes, Auth!LoginStep(p) PROVE Auth!IInv'
    BY <1>2, AuthExchangeCodeKeeps, AuthLoginLocksKeeps, AuthLoginWritesKeeps,
        AuthLoginSettlesKeeps, AuthLoginFailsKeeps DEF Auth!LoginStep
<1>3. ASSUME NEW p \in Processes, Auth!Access(p) \/ Auth!RecoverUnauthorized(p) \/ Auth!LockTimesOut(p) \/ Auth!PostFails(p) \/ Auth!Cancel(p) \/ Auth!OrphanLands(p) PROVE Auth!IInv'
    BY <1>3, AuthAccessKeeps, AuthRecoverUnauthorizedKeeps, AuthLockTimesOutKeeps,
        AuthPostFailsKeeps, AuthCancelKeeps, AuthOrphanLandsKeeps
<1>4. ASSUME NEW p \in Processes, Auth!StartLogin(p) \/ Auth!CancelLogin(p) \/ Auth!Disconnect(p) \/ Auth!Crash(p) PROVE Auth!IInv'
    BY <1>4, AuthStartLoginKeeps, AuthCancelLoginKeeps, AuthDisconnectKeeps, AuthCrashKeeps
<1>5. CASE UNCHANGED Auth!vars
    <2>1. UNCHANGED <<authFile, authMemory, authOp, authLogin, authHolder, authOrphans, authAccepted, authIssued, authExpired, authDamage>>
        BY <1>5 DEF Auth!vars, Auth!server
    <2> QED
        BY <2>1 DEF Auth!IInv, Auth!TypeOK, Auth!CredentialsOK, Auth!TasksOK, Auth!Tokens,
            Auth!Operations, Auth!SignIns, Auth!LockIsOwned, Auth!Inside, Auth!Signs,
            Auth!Undamaged, Auth!CredentialsSurvive, Auth!RefreshIsCurrent, Auth!GrantIsItsOwn,
            Auth!Granted, Auth!At
<1> QED
    BY <1>1, <1>2, <1>3, <1>4, <1>5, AuthExpiresKeeps DEF Auth!Next

LEMMA AuthMove == [MCNext]_MCVars => [Auth!Next]_(Auth!vars)
BY DEF MCNext, MCVars, authVars, Auth!vars, Auth!server

\* _refresh_locked, _complete_login: the file keeps credentials that the server
\* takes, or whoever holds its lock is about to write them, however many processes
\* refresh and sign in at once.
THEOREM CredentialsAreKept == MCSpec => []CredentialsSurvive
<1>1. MCInit => Auth!IInv
    BY AuthInit DEF MCInit
<1>2. Auth!IInv /\ [MCNext]_MCVars => Auth!IInv'
    BY AuthMove, AuthNext
<1>3. Auth!IInv => CredentialsSurvive
    BY DEF Auth!IInv, Auth!Undamaged, CredentialsSurvive, Auth!CredentialsSurvive
<1> QED
    BY <1>1, <1>2, <1>3, PTL DEF MCSpec

(***************************************************************************)
(* The feed of session events                                              *)
(***************************************************************************)

FeedFacts == INSTANCE SessionEventsProofs WITH
    sequence <- feedSequence, closed <- feedClosed,
    subscriptions <- feedSubscriptions, queue <- feedQueue, seen <- feedSeen,
    feed <- feedFeed

LEMMA FeedMove == [MCNext]_MCVars => [FeedFacts!Next]_FeedFacts!vars
<1> SUFFICES ASSUME [MCNext]_MCVars PROVE [FeedFacts!Next]_FeedFacts!vars
    OBVIOUS
<1>1. [Feed!Next]_(Feed!vars)
    BY DEF MCNext, MCVars, feedVars, Feed!vars
<1>2. FeedFacts!vars = Feed!vars
    BY DEF FeedFacts!vars, Feed!vars
<1>3. Feed!Next => FeedFacts!Next
    <2>1. ASSUME NEW o \in Observers
          PROVE  /\ Feed!Subscribe(o) => FeedFacts!Subscribe(o)
                 /\ Feed!Take(o) => FeedFacts!Take(o)
                 /\ Feed!Leave(o) => FeedFacts!Leave(o)
        BY DEF Feed!Subscribe, FeedFacts!Subscribe, Feed!Take, FeedFacts!Take, Feed!Leave,
            FeedFacts!Leave, Feed!Signal, FeedFacts!Signal, Feed!Closed, FeedFacts!Closed
    <2>2. Feed!Publish => FeedFacts!Publish
        BY DEF Feed!Publish, FeedFacts!Publish, Feed!Signal, FeedFacts!Signal,
            Feed!Overflow, FeedFacts!Overflow, Feed!Event, FeedFacts!Event, Feed!Full, FeedFacts!Full
    <2>3. /\ Feed!DisconnectSubscribers => FeedFacts!DisconnectSubscribers
          /\ Feed!Close => FeedFacts!Close
        BY DEF Feed!DisconnectSubscribers, FeedFacts!DisconnectSubscribers, Feed!Close,
            FeedFacts!Close,
            Feed!Signal, FeedFacts!Signal, Feed!Closed, FeedFacts!Closed
    <2> QED
        BY <2>1, <2>2, <2>3 DEF Feed!Next, FeedFacts!Next
<1>4. UNCHANGED Feed!vars => UNCHANGED FeedFacts!vars
    BY DEF Feed!vars, FeedFacts!vars
<1> QED
    BY <1>1, <1>3, <1>4

\* EventHub, _events: a subscriber's queue holds every event it has not read, in
\* order, and an observer that was dropped is told so, for any observers and queues.
THEOREM FeedsMissNothing == MCSpec => []NoEventIsMissed
<1> USE RuntimeAssumption
<1>1. MCInit => FeedFacts!IInv
    <2>1. MCInit => FeedFacts!Init
        BY DEF MCInit, FeedFacts!Init, Feed!Init
    <2> QED
        BY <2>1, FeedFacts!InitInv
<1>2. FeedFacts!IInv /\ [MCNext]_MCVars => FeedFacts!IInv'
    BY FeedMove, FeedFacts!NextInv
<1>3. FeedFacts!IInv => NoEventIsMissed
    BY DEF FeedFacts!IInv, FeedFacts!NoEventIsMissed, NoEventIsMissed, Feed!NoEventIsMissed,
        Feed!GaplessFor, Feed!ToldFor, FeedFacts!GaplessFor, FeedFacts!ToldFor, Feed!Event,
        FeedFacts!Event, Feed!Closed, FeedFacts!Closed
<1> QED
    BY <1>1, <1>2, <1>3, PTL DEF MCSpec

(***************************************************************************)
(* Executions whose recovery is left to routing                            *)
(***************************************************************************)

RoutedFacts == INSTANCE ProviderAdmissionProofs WITH
    Executions <- RoutedExecutions, Coordinated <- FALSE, MaxAttempts <- 1,
    MaxConcurrency <- 2, RateLimit <- 2, LeaderMayVanish <- TRUE, pc <- admPc,
    state <- admState, attempts <- admAttempts, permit <- admPermit,
    phase <- admPhase, generation <- admGeneration, leader <- admLeader,
    waiters <- admWaiters, probing <- admProbing, ready <- admReady,
    slots <- admSlots, recent <- admRecent, abandons <- admAbandons

LEMMA RoutedMove ==
    part = "routed" /\ [MCNext]_MCVars => part' = "routed" /\ [RoutedFacts!Next]_RoutedFacts!vars
<1> SUFFICES ASSUME part = "routed", [MCNext]_MCVars
             PROVE  part' = "routed" /\ [RoutedFacts!Next]_RoutedFacts!vars
    OBVIOUS
<1>1. part' = "routed" /\ [Routed!Next]_(Routed!vars)
    BY DEF MCNext, MCVars, admissionVars, Routed!vars, Routed!episode
<1>2. ASSUME NEW e \in RoutedExecutions, Routed!Step(e) PROVE RoutedFacts!Step(e)
    <2>1. Routed!Start(e) => RoutedFacts!Start(e)
        BY DEF Routed!Start, RoutedFacts!Start, Routed!Goto, RoutedFacts!Goto, Routed!episode,
            RoutedFacts!episode
    <2>2. Routed!GateRefuse(e) => RoutedFacts!GateRefuse(e)
        BY DEF Routed!GateRefuse, RoutedFacts!GateRefuse, Routed!EnterGate,
            RoutedFacts!EnterGate, Routed!Goto, RoutedFacts!Goto, Routed!Become,
            RoutedFacts!Become, Routed!episode, RoutedFacts!episode
    <2>3. Routed!GatePass(e) => RoutedFacts!GatePass(e)
        BY DEF Routed!GatePass, RoutedFacts!GatePass, Routed!EnterGate, RoutedFacts!EnterGate,
            Routed!Goto, RoutedFacts!Goto, Routed!episode, RoutedFacts!episode
    <2>4. Routed!GateProbe(e) => RoutedFacts!GateProbe(e)
        BY DEF Routed!GateProbe, RoutedFacts!GateProbe, Routed!TakeLead, RoutedFacts!TakeLead,
            Routed!EnterGate, RoutedFacts!EnterGate, Routed!Goto, RoutedFacts!Goto
    <2>5. Routed!GateBackoff(e) => RoutedFacts!GateBackoff(e)
        BY DEF Routed!GateBackoff, RoutedFacts!GateBackoff, Routed!TakeLead,
            RoutedFacts!TakeLead, Routed!EnterGate, RoutedFacts!EnterGate, Routed!Goto,
            RoutedFacts!Goto
    <2>6. Routed!GateReopen(e) => RoutedFacts!GateReopen(e)
        BY DEF Routed!GateReopen, RoutedFacts!GateReopen, Routed!EnterGate,
            RoutedFacts!EnterGate, Routed!Goto, RoutedFacts!Goto
    <2>7. Routed!GateWait(e) => RoutedFacts!GateWait(e)
        BY DEF Routed!GateWait, RoutedFacts!GateWait, Routed!EnterGate, RoutedFacts!EnterGate,
            Routed!Goto, RoutedFacts!Goto
    <2>8. Routed!BackoffWake(e) => RoutedFacts!BackoffWake(e)
        BY DEF Routed!BackoffWake, RoutedFacts!BackoffWake, Routed!StillMine,
            RoutedFacts!StillMine, Routed!Goto, RoutedFacts!Goto
    <2>9. Routed!LimiterAdmit(e) => RoutedFacts!LimiterAdmit(e)
        BY DEF Routed!LimiterAdmit, RoutedFacts!LimiterAdmit, Routed!PermitIsCurrent,
            RoutedFacts!PermitIsCurrent, Routed!Goto, RoutedFacts!Goto, Routed!episode,
            RoutedFacts!episode
    <2>10. Routed!LimiterRefuse(e) => RoutedFacts!LimiterRefuse(e)
        BY DEF Routed!LimiterRefuse, RoutedFacts!LimiterRefuse, Routed!AbandonProbe,
            RoutedFacts!AbandonProbe, Routed!MatchingProbe, RoutedFacts!MatchingProbe,
            Routed!NotifyAll, RoutedFacts!NotifyAll, Routed!Goto, RoutedFacts!Goto,
            Routed!PermitIsCurrent, RoutedFacts!PermitIsCurrent
    <2>11. Routed!AcquireSlot(e) => RoutedFacts!AcquireSlot(e)
        BY DEF Routed!AcquireSlot, RoutedFacts!AcquireSlot, Routed!PermitIsCurrent,
            RoutedFacts!PermitIsCurrent, Routed!Goto, RoutedFacts!Goto, Routed!episode,
            RoutedFacts!episode
    <2>12. Routed!RefuseSlot(e) => RoutedFacts!RefuseSlot(e)
        BY DEF Routed!RefuseSlot, RoutedFacts!RefuseSlot, Routed!AbandonProbe,
            RoutedFacts!AbandonProbe, Routed!MatchingProbe, RoutedFacts!MatchingProbe,
            Routed!NotifyAll, RoutedFacts!NotifyAll, Routed!Goto, RoutedFacts!Goto,
            Routed!PermitIsCurrent, RoutedFacts!PermitIsCurrent
    <2>13. Routed!Accept(e) => RoutedFacts!Accept(e)
        BY DEF Routed!Accept, RoutedFacts!Accept, Routed!CloseMatching,
            RoutedFacts!CloseMatching, Routed!MatchingProbe, RoutedFacts!MatchingProbe,
            Routed!Goto, RoutedFacts!Goto, Routed!CloseEpisode, RoutedFacts!CloseEpisode,
            Routed!NotifyAll, RoutedFacts!NotifyAll, Routed!episode, RoutedFacts!episode
    <2>14. Routed!Reject(e) => RoutedFacts!Reject(e)
        BY DEF Routed!Reject, RoutedFacts!Reject, Routed!Become, RoutedFacts!Become,
            Routed!CloseMatching, RoutedFacts!CloseMatching, Routed!MatchingProbe,
            RoutedFacts!MatchingProbe, Routed!Goto, RoutedFacts!Goto, Routed!CloseEpisode,
            RoutedFacts!CloseEpisode, Routed!NotifyAll, RoutedFacts!NotifyAll, Routed!episode,
            RoutedFacts!episode
    <2>15. Routed!Correct(e) => RoutedFacts!Correct(e)
        BY DEF Routed!Correct, RoutedFacts!Correct, Routed!MatchingProbe,
            RoutedFacts!MatchingProbe, Routed!NotifyAll, RoutedFacts!NotifyAll, Routed!Goto,
            RoutedFacts!Goto, Routed!CanAttempt, RoutedFacts!CanAttempt
    <2>16. Routed!FailOpensEpisode(e) => RoutedFacts!FailOpensEpisode(e)
        BY DEF Routed!FailOpensEpisode, RoutedFacts!FailOpensEpisode, Routed!NotifyAll,
            RoutedFacts!NotifyAll, Routed!FailRetryably, RoutedFacts!FailRetryably,
            Routed!CanAttempt, RoutedFacts!CanAttempt
    <2>17. Routed!FailProbe(e) => RoutedFacts!FailProbe(e)
        BY DEF Routed!FailProbe, RoutedFacts!FailProbe, Routed!MatchingProbe,
            RoutedFacts!MatchingProbe, Routed!NotifyAll, RoutedFacts!NotifyAll,
            Routed!FailRetryably, RoutedFacts!FailRetryably, Routed!CanAttempt,
            RoutedFacts!CanAttempt
    <2>18. Routed!FailTooLate(e) => RoutedFacts!FailTooLate(e)
        BY DEF Routed!FailTooLate, RoutedFacts!FailTooLate, Routed!MatchingProbe,
            RoutedFacts!MatchingProbe, Routed!NotifyAll, RoutedFacts!NotifyAll, Routed!Become,
            RoutedFacts!Become, Routed!FailRetryably, RoutedFacts!FailRetryably,
            Routed!CanAttempt, RoutedFacts!CanAttempt, Routed!episode, RoutedFacts!episode
    <2>19. Routed!FailJoins(e) => RoutedFacts!FailJoins(e)
        BY DEF Routed!FailJoins, RoutedFacts!FailJoins, Routed!MatchingProbe,
            RoutedFacts!MatchingProbe, Routed!NotifyAll, RoutedFacts!NotifyAll,
            Routed!FailRetryably, RoutedFacts!FailRetryably, Routed!CanAttempt,
            RoutedFacts!CanAttempt
    <2>20. Routed!Exhaust(e) => RoutedFacts!Exhaust(e)
        BY DEF Routed!Exhaust, RoutedFacts!Exhaust, Routed!MatchingProbe,
            RoutedFacts!MatchingProbe, Routed!NotifyAll, RoutedFacts!NotifyAll,
            Routed!CanAttempt, RoutedFacts!CanAttempt, Routed!FailedBy, RoutedFacts!FailedBy
    <2>21. Routed!FailAlone(e) => RoutedFacts!FailAlone(e)
        BY DEF Routed!FailAlone, RoutedFacts!FailAlone, Routed!Goto, RoutedFacts!Goto,
            Routed!Become, RoutedFacts!Become, Routed!IsAlone, RoutedFacts!IsAlone,
            Routed!MatchingProbe, RoutedFacts!MatchingProbe, Routed!CanAttempt,
            RoutedFacts!CanAttempt, Routed!episode, RoutedFacts!episode
    <2>22. Routed!StreamCompletes(e) => RoutedFacts!StreamCompletes(e)
        BY DEF Routed!StreamCompletes, RoutedFacts!StreamCompletes, Routed!Goto,
            RoutedFacts!Goto, Routed!Become, RoutedFacts!Become, Routed!episode,
            RoutedFacts!episode
    <2>23. Routed!StreamBreaks(e) => RoutedFacts!StreamBreaks(e)
        BY DEF Routed!StreamBreaks, RoutedFacts!StreamBreaks, Routed!Goto, RoutedFacts!Goto,
            Routed!Become, RoutedFacts!Become, Routed!CanAttempt, RoutedFacts!CanAttempt,
            Routed!episode, RoutedFacts!episode
    <2>24. Routed!CancelWait(e) => RoutedFacts!CancelWait(e)
        BY DEF Routed!CancelWait, RoutedFacts!CancelWait, Routed!Goto, RoutedFacts!Goto,
            Routed!Become, RoutedFacts!Become, Routed!Waiting, RoutedFacts!Waiting
    <2>25. Routed!CancelOpen(e) => RoutedFacts!CancelOpen(e)
        BY DEF Routed!CancelOpen, RoutedFacts!CancelOpen, Routed!Goto, RoutedFacts!Goto,
            Routed!Become, RoutedFacts!Become, Routed!episode, RoutedFacts!episode
    <2>26. Routed!CancelBackoff(e) => RoutedFacts!CancelBackoff(e)
        BY DEF Routed!CancelBackoff, RoutedFacts!CancelBackoff, Routed!NotifyAll,
            RoutedFacts!NotifyAll, Routed!Goto, RoutedFacts!Goto, Routed!Become,
            RoutedFacts!Become
    <2>27. Routed!CancelAdmission(e) => RoutedFacts!CancelAdmission(e)
        BY DEF Routed!CancelAdmission, RoutedFacts!CancelAdmission, Routed!AbandonProbe,
            RoutedFacts!AbandonProbe, Routed!MatchingProbe, RoutedFacts!MatchingProbe,
            Routed!NotifyAll, RoutedFacts!NotifyAll, Routed!Goto, RoutedFacts!Goto,
            Routed!Become, RoutedFacts!Become
    <2>28. Routed!Interrupt(e) => RoutedFacts!Interrupt(e)
        BY DEF Routed!Interrupt, RoutedFacts!Interrupt, Routed!Goto, RoutedFacts!Goto,
            Routed!Become, RoutedFacts!Become, Routed!episode, RoutedFacts!episode
    <2>29. Routed!CancelClosing(e) => RoutedFacts!CancelClosing(e)
        BY DEF Routed!CancelClosing, RoutedFacts!CancelClosing, Routed!Goto, RoutedFacts!Goto,
            Routed!Become, RoutedFacts!Become, Routed!episode, RoutedFacts!episode
    <2>30. Routed!RunAbandon(e) => RoutedFacts!RunAbandon(e)
        BY DEF Routed!RunAbandon, RoutedFacts!RunAbandon, Routed!AbandonProbe,
            RoutedFacts!AbandonProbe, Routed!MatchingProbe, RoutedFacts!MatchingProbe,
            Routed!NotifyAll, RoutedFacts!NotifyAll, Routed!Goto, RoutedFacts!Goto
    <2>31. Routed!Release(e) => RoutedFacts!Release(e)
        BY DEF Routed!Release, RoutedFacts!Release, Routed!Goto, RoutedFacts!Goto,
            Routed!Become, RoutedFacts!Become, Routed!episode, RoutedFacts!episode
    <2>32. Routed!CloseAttempt(e) => RoutedFacts!CloseAttempt(e)
        BY DEF Routed!CloseAttempt, RoutedFacts!CloseAttempt, Routed!Goto, RoutedFacts!Goto,
            Routed!CanAttempt, RoutedFacts!CanAttempt, Routed!episode, RoutedFacts!episode
    <2> QED
        BY <1>2, <2>1, <2>2, <2>3, <2>4, <2>5, <2>6, <2>7, <2>8, <2>9, <2>10, <2>11, <2>12,
            <2>13, <2>14, <2>15, <2>16, <2>17, <2>18, <2>19, <2>20, <2>21, <2>22, <2>23, <2>24,
            <2>25, <2>26, <2>27, <2>28, <2>29, <2>30, <2>31, <2>32
            DEF Routed!Step, RoutedFacts!Step, Routed!Gate, RoutedFacts!Gate, Routed!Admission, RoutedFacts!Admission, Routed!Answer, RoutedFacts!Answer, Routed!Fail, RoutedFacts!Fail, Routed!Cancel, RoutedFacts!Cancel
<1>3. Routed!Time => RoutedFacts!Time
    BY DEF Routed!Time, RoutedFacts!Time, Routed!BackoffElapses, RoutedFacts!BackoffElapses,
        Routed!CooldownElapses, RoutedFacts!CooldownElapses, Routed!WindowSlides,
        RoutedFacts!WindowSlides, Routed!episode, RoutedFacts!episode
<1>4. Routed!Next => RoutedFacts!Next
    BY <1>2, <1>3 DEF Routed!Next, RoutedFacts!Next
<1>5. UNCHANGED Routed!vars => UNCHANGED RoutedFacts!vars
    BY DEF Routed!vars, RoutedFacts!vars, Routed!episode, RoutedFacts!episode
<1> QED
    BY <1>1, <1>4, <1>5

LEMMA RoutedPart == part # "routed" /\ [MCNext]_MCVars => part' # "routed"
BY DEF MCNext, MCVars

LEMMA RoutedAssumption ==
    /\ Nobody \notin RoutedExecutions /\ RoutedFacts!IsFiniteSet(RoutedExecutions)
    /\ 3 \in Nat \ {0} /\ 1 \in Nat \ {0} /\ 2 \in Nat \ {0} /\ TRUE \in BOOLEAN /\ FALSE \in BOOLEAN
BY RuntimeAssumption DEF IsFiniteSet, RoutedFacts!IsFiniteSet

\* ProviderAdmissionController, coordinated_recovery = False: with recovery left to
\* routing no execution has failed that made no call of its own.
THEOREM RoutedFailuresAreOwn == MCSpec => []OwnFailureOnly
<1> DEFINE Inv == part = "routed" => RoutedFacts!IInv /\ RoutedFacts!OwnInv
<1>1. MCInit => Inv
    <2>1. MCInit => (part = "routed" => RoutedFacts!Init)
        BY DEF MCInit, RoutedFacts!Init, Routed!Init
    <2> QED
        BY <2>1, RoutedFacts!InitIInv, RoutedFacts!InitOwnInv, RoutedAssumption
<1>2. Inv /\ [MCNext]_MCVars => Inv'
    BY RoutedMove, RoutedPart, RoutedFacts!NextIInv, RoutedFacts!NextOwnInv, RoutedAssumption
<1>3. Inv => OwnFailureOnly
    BY DEF RoutedFacts!OwnInv, OwnFailureOnly, Routed!OwnFailureOnly
<1> HIDE DEF Inv
<1> QED
    BY <1>1, <1>2, <1>3, PTL DEF MCSpec

(***************************************************************************)
(* Types                                                                   *)
(***************************************************************************)

AdmissionFacts == INSTANCE ProviderAdmissionProofs WITH
    Coordinated <- TRUE, MaxAttempts <- 3, MaxConcurrency <- 1,
    RateLimit <- 2, LeaderMayVanish <- FALSE, pc <- admPc, state <- admState,
    attempts <- admAttempts, permit <- admPermit, phase <- admPhase,
    generation <- admGeneration, leader <- admLeader, waiters <- admWaiters,
    probing <- admProbing, ready <- admReady, slots <- admSlots,
    recent <- admRecent, abandons <- admAbandons

LEMMA AdmissionMove ==
    part = "admission" /\ [MCNext]_MCVars => part' = "admission" /\ [AdmissionFacts!Next]_AdmissionFacts!vars
<1> SUFFICES ASSUME part = "admission", [MCNext]_MCVars
             PROVE  part' = "admission" /\ [AdmissionFacts!Next]_AdmissionFacts!vars
    OBVIOUS
<1>1. part' = "admission" /\ [Admission!Next]_(Admission!vars)
    BY DEF MCNext, MCVars, admissionVars, Admission!vars, Admission!episode
<1>2. ASSUME NEW e \in Executions, Admission!Step(e) PROVE AdmissionFacts!Step(e)
    <2>1. Admission!Start(e) => AdmissionFacts!Start(e)
        BY DEF Admission!Start, AdmissionFacts!Start, Admission!Goto, AdmissionFacts!Goto,
            Admission!episode, AdmissionFacts!episode
    <2>2. Admission!GateRefuse(e) => AdmissionFacts!GateRefuse(e)
        BY DEF Admission!GateRefuse, AdmissionFacts!GateRefuse, Admission!EnterGate,
            AdmissionFacts!EnterGate, Admission!Goto, AdmissionFacts!Goto, Admission!Become,
            AdmissionFacts!Become, Admission!episode, AdmissionFacts!episode
    <2>3. Admission!GatePass(e) => AdmissionFacts!GatePass(e)
        BY DEF Admission!GatePass, AdmissionFacts!GatePass, Admission!EnterGate,
            AdmissionFacts!EnterGate, Admission!Goto, AdmissionFacts!Goto, Admission!episode,
            AdmissionFacts!episode
    <2>4. Admission!GateProbe(e) => AdmissionFacts!GateProbe(e)
        BY DEF Admission!GateProbe, AdmissionFacts!GateProbe, Admission!TakeLead,
            AdmissionFacts!TakeLead, Admission!EnterGate, AdmissionFacts!EnterGate,
            Admission!Goto, AdmissionFacts!Goto
    <2>5. Admission!GateBackoff(e) => AdmissionFacts!GateBackoff(e)
        BY DEF Admission!GateBackoff, AdmissionFacts!GateBackoff, Admission!TakeLead,
            AdmissionFacts!TakeLead, Admission!EnterGate, AdmissionFacts!EnterGate,
            Admission!Goto, AdmissionFacts!Goto
    <2>6. Admission!GateReopen(e) => AdmissionFacts!GateReopen(e)
        BY DEF Admission!GateReopen, AdmissionFacts!GateReopen, Admission!EnterGate,
            AdmissionFacts!EnterGate, Admission!Goto, AdmissionFacts!Goto
    <2>7. Admission!GateWait(e) => AdmissionFacts!GateWait(e)
        BY DEF Admission!GateWait, AdmissionFacts!GateWait, Admission!EnterGate,
            AdmissionFacts!EnterGate, Admission!Goto, AdmissionFacts!Goto
    <2>8. Admission!BackoffWake(e) => AdmissionFacts!BackoffWake(e)
        BY DEF Admission!BackoffWake, AdmissionFacts!BackoffWake, Admission!StillMine,
            AdmissionFacts!StillMine, Admission!Goto, AdmissionFacts!Goto
    <2>9. Admission!LimiterAdmit(e) => AdmissionFacts!LimiterAdmit(e)
        BY DEF Admission!LimiterAdmit, AdmissionFacts!LimiterAdmit, Admission!PermitIsCurrent,
            AdmissionFacts!PermitIsCurrent, Admission!Goto, AdmissionFacts!Goto,
            Admission!episode, AdmissionFacts!episode
    <2>10. Admission!LimiterRefuse(e) => AdmissionFacts!LimiterRefuse(e)
        BY DEF Admission!LimiterRefuse, AdmissionFacts!LimiterRefuse, Admission!AbandonProbe,
            AdmissionFacts!AbandonProbe, Admission!MatchingProbe, AdmissionFacts!MatchingProbe,
            Admission!NotifyAll, AdmissionFacts!NotifyAll, Admission!Goto, AdmissionFacts!Goto,
            Admission!PermitIsCurrent, AdmissionFacts!PermitIsCurrent
    <2>11. Admission!AcquireSlot(e) => AdmissionFacts!AcquireSlot(e)
        BY DEF Admission!AcquireSlot, AdmissionFacts!AcquireSlot, Admission!PermitIsCurrent,
            AdmissionFacts!PermitIsCurrent, Admission!Goto, AdmissionFacts!Goto,
            Admission!episode, AdmissionFacts!episode
    <2>12. Admission!RefuseSlot(e) => AdmissionFacts!RefuseSlot(e)
        BY DEF Admission!RefuseSlot, AdmissionFacts!RefuseSlot, Admission!AbandonProbe,
            AdmissionFacts!AbandonProbe, Admission!MatchingProbe, AdmissionFacts!MatchingProbe,
            Admission!NotifyAll, AdmissionFacts!NotifyAll, Admission!Goto, AdmissionFacts!Goto,
            Admission!PermitIsCurrent, AdmissionFacts!PermitIsCurrent
    <2>13. Admission!Accept(e) => AdmissionFacts!Accept(e)
        BY DEF Admission!Accept, AdmissionFacts!Accept, Admission!CloseMatching,
            AdmissionFacts!CloseMatching, Admission!MatchingProbe, AdmissionFacts!MatchingProbe,
            Admission!Goto, AdmissionFacts!Goto, Admission!CloseEpisode,
            AdmissionFacts!CloseEpisode, Admission!NotifyAll, AdmissionFacts!NotifyAll,
            Admission!episode, AdmissionFacts!episode
    <2>14. Admission!Reject(e) => AdmissionFacts!Reject(e)
        BY DEF Admission!Reject, AdmissionFacts!Reject, Admission!Become, AdmissionFacts!Become,
            Admission!CloseMatching, AdmissionFacts!CloseMatching, Admission!MatchingProbe,
            AdmissionFacts!MatchingProbe, Admission!Goto, AdmissionFacts!Goto,
            Admission!CloseEpisode, AdmissionFacts!CloseEpisode, Admission!NotifyAll,
            AdmissionFacts!NotifyAll, Admission!episode, AdmissionFacts!episode
    <2>15. Admission!Correct(e) => AdmissionFacts!Correct(e)
        BY DEF Admission!Correct, AdmissionFacts!Correct, Admission!MatchingProbe,
            AdmissionFacts!MatchingProbe, Admission!NotifyAll, AdmissionFacts!NotifyAll,
            Admission!Goto, AdmissionFacts!Goto, Admission!CanAttempt, AdmissionFacts!CanAttempt
    <2>16. Admission!FailOpensEpisode(e) => AdmissionFacts!FailOpensEpisode(e)
        BY DEF Admission!FailOpensEpisode, AdmissionFacts!FailOpensEpisode, Admission!NotifyAll,
            AdmissionFacts!NotifyAll, Admission!FailRetryably, AdmissionFacts!FailRetryably,
            Admission!CanAttempt, AdmissionFacts!CanAttempt
    <2>17. Admission!FailProbe(e) => AdmissionFacts!FailProbe(e)
        BY DEF Admission!FailProbe, AdmissionFacts!FailProbe, Admission!MatchingProbe,
            AdmissionFacts!MatchingProbe, Admission!NotifyAll, AdmissionFacts!NotifyAll,
            Admission!FailRetryably, AdmissionFacts!FailRetryably, Admission!CanAttempt,
            AdmissionFacts!CanAttempt
    <2>18. Admission!FailTooLate(e) => AdmissionFacts!FailTooLate(e)
        BY DEF Admission!FailTooLate, AdmissionFacts!FailTooLate, Admission!MatchingProbe,
            AdmissionFacts!MatchingProbe, Admission!NotifyAll, AdmissionFacts!NotifyAll,
            Admission!Become, AdmissionFacts!Become, Admission!FailRetryably,
            AdmissionFacts!FailRetryably, Admission!CanAttempt, AdmissionFacts!CanAttempt,
            Admission!episode, AdmissionFacts!episode
    <2>19. Admission!FailJoins(e) => AdmissionFacts!FailJoins(e)
        BY DEF Admission!FailJoins, AdmissionFacts!FailJoins, Admission!MatchingProbe,
            AdmissionFacts!MatchingProbe, Admission!NotifyAll, AdmissionFacts!NotifyAll,
            Admission!FailRetryably, AdmissionFacts!FailRetryably, Admission!CanAttempt,
            AdmissionFacts!CanAttempt
    <2>20. Admission!Exhaust(e) => AdmissionFacts!Exhaust(e)
        BY DEF Admission!Exhaust, AdmissionFacts!Exhaust, Admission!MatchingProbe,
            AdmissionFacts!MatchingProbe, Admission!NotifyAll, AdmissionFacts!NotifyAll,
            Admission!CanAttempt, AdmissionFacts!CanAttempt, Admission!FailedBy,
            AdmissionFacts!FailedBy
    <2>21. Admission!FailAlone(e) => AdmissionFacts!FailAlone(e)
        BY DEF Admission!FailAlone, AdmissionFacts!FailAlone, Admission!Goto,
            AdmissionFacts!Goto, Admission!Become, AdmissionFacts!Become, Admission!IsAlone,
            AdmissionFacts!IsAlone, Admission!MatchingProbe, AdmissionFacts!MatchingProbe,
            Admission!CanAttempt, AdmissionFacts!CanAttempt, Admission!episode,
            AdmissionFacts!episode
    <2>22. Admission!StreamCompletes(e) => AdmissionFacts!StreamCompletes(e)
        BY DEF Admission!StreamCompletes, AdmissionFacts!StreamCompletes, Admission!Goto,
            AdmissionFacts!Goto, Admission!Become, AdmissionFacts!Become, Admission!episode,
            AdmissionFacts!episode
    <2>23. Admission!StreamBreaks(e) => AdmissionFacts!StreamBreaks(e)
        BY DEF Admission!StreamBreaks, AdmissionFacts!StreamBreaks, Admission!Goto,
            AdmissionFacts!Goto, Admission!Become, AdmissionFacts!Become, Admission!CanAttempt,
            AdmissionFacts!CanAttempt, Admission!episode, AdmissionFacts!episode
    <2>24. Admission!CancelWait(e) => AdmissionFacts!CancelWait(e)
        BY DEF Admission!CancelWait, AdmissionFacts!CancelWait, Admission!Goto,
            AdmissionFacts!Goto, Admission!Become, AdmissionFacts!Become, Admission!Waiting,
            AdmissionFacts!Waiting
    <2>25. Admission!CancelOpen(e) => AdmissionFacts!CancelOpen(e)
        BY DEF Admission!CancelOpen, AdmissionFacts!CancelOpen, Admission!Goto,
            AdmissionFacts!Goto, Admission!Become, AdmissionFacts!Become, Admission!episode,
            AdmissionFacts!episode
    <2>26. Admission!CancelBackoff(e) => AdmissionFacts!CancelBackoff(e)
        BY DEF Admission!CancelBackoff, AdmissionFacts!CancelBackoff, Admission!NotifyAll,
            AdmissionFacts!NotifyAll, Admission!Goto, AdmissionFacts!Goto, Admission!Become,
            AdmissionFacts!Become
    <2>27. Admission!CancelAdmission(e) => AdmissionFacts!CancelAdmission(e)
        BY DEF Admission!CancelAdmission, AdmissionFacts!CancelAdmission,
            Admission!AbandonProbe, AdmissionFacts!AbandonProbe, Admission!MatchingProbe,
            AdmissionFacts!MatchingProbe, Admission!NotifyAll, AdmissionFacts!NotifyAll,
            Admission!Goto, AdmissionFacts!Goto, Admission!Become, AdmissionFacts!Become
    <2>28. Admission!Interrupt(e) => AdmissionFacts!Interrupt(e)
        BY DEF Admission!Interrupt, AdmissionFacts!Interrupt, Admission!Goto,
            AdmissionFacts!Goto, Admission!Become, AdmissionFacts!Become, Admission!episode,
            AdmissionFacts!episode
    <2>29. Admission!CancelClosing(e) => AdmissionFacts!CancelClosing(e)
        BY DEF Admission!CancelClosing, AdmissionFacts!CancelClosing, Admission!Goto,
            AdmissionFacts!Goto, Admission!Become, AdmissionFacts!Become, Admission!episode,
            AdmissionFacts!episode
    <2>30. Admission!RunAbandon(e) => AdmissionFacts!RunAbandon(e)
        BY DEF Admission!RunAbandon, AdmissionFacts!RunAbandon, Admission!AbandonProbe,
            AdmissionFacts!AbandonProbe, Admission!MatchingProbe, AdmissionFacts!MatchingProbe,
            Admission!NotifyAll, AdmissionFacts!NotifyAll, Admission!Goto, AdmissionFacts!Goto
    <2>31. Admission!Release(e) => AdmissionFacts!Release(e)
        BY DEF Admission!Release, AdmissionFacts!Release, Admission!Goto, AdmissionFacts!Goto,
            Admission!Become, AdmissionFacts!Become, Admission!episode, AdmissionFacts!episode
    <2>32. Admission!CloseAttempt(e) => AdmissionFacts!CloseAttempt(e)
        BY DEF Admission!CloseAttempt, AdmissionFacts!CloseAttempt, Admission!Goto,
            AdmissionFacts!Goto, Admission!CanAttempt, AdmissionFacts!CanAttempt,
            Admission!episode, AdmissionFacts!episode
    <2> QED
        BY <1>2, <2>1, <2>2, <2>3, <2>4, <2>5, <2>6, <2>7, <2>8, <2>9, <2>10, <2>11, <2>12,
            <2>13, <2>14, <2>15, <2>16, <2>17, <2>18, <2>19, <2>20, <2>21, <2>22, <2>23, <2>24,
            <2>25, <2>26, <2>27, <2>28, <2>29, <2>30, <2>31, <2>32
            DEF Admission!Step, AdmissionFacts!Step, Admission!Gate, AdmissionFacts!Gate, Admission!Admission, AdmissionFacts!Admission, Admission!Answer, AdmissionFacts!Answer, Admission!Fail, AdmissionFacts!Fail, Admission!Cancel, AdmissionFacts!Cancel
<1>3. Admission!Time => AdmissionFacts!Time
    BY DEF Admission!Time, AdmissionFacts!Time, Admission!BackoffElapses,
        AdmissionFacts!BackoffElapses, Admission!CooldownElapses,
        AdmissionFacts!CooldownElapses, Admission!WindowSlides, AdmissionFacts!WindowSlides,
        Admission!episode, AdmissionFacts!episode
<1>4. Admission!Next => AdmissionFacts!Next
    BY <1>2, <1>3 DEF Admission!Next, AdmissionFacts!Next
<1>5. UNCHANGED Admission!vars => UNCHANGED AdmissionFacts!vars
    BY DEF Admission!vars, AdmissionFacts!vars, Admission!episode, AdmissionFacts!episode
<1> QED
    BY <1>1, <1>4, <1>5

LEMMA AdmissionPart == part # "admission" /\ [MCNext]_MCVars => part' # "admission"
BY DEF MCNext, MCVars

LEMMA AdmissionAssumption ==
    /\ Nobody \notin Executions /\ AdmissionFacts!IsFiniteSet(Executions)
    /\ 3 \in Nat \ {0} /\ 1 \in Nat \ {0} /\ 2 \in Nat \ {0} /\ TRUE \in BOOLEAN /\ FALSE \in BOOLEAN
BY RuntimeAssumption DEF IsFiniteSet, AdmissionFacts!IsFiniteSet

\* The constants and the variables of every part have the values their modules say.
THEOREM TypesAreKept == MCSpec => []TypesOK
<1> DEFINE AdmInv == part = "admission" => AdmissionFacts!IInv
           RoutedInv == part = "routed" => RoutedFacts!IInv
<1>1. MCSpec => []IInv
    <2>1. MCInit => IInv
        BY InitIInv DEF MCInit
    <2>2. [MCNext]_MCVars => [Next]_vars
        BY DEF MCNext, MCVars
    <2>3. IInv /\ [MCNext]_MCVars => IInv'
        BY <2>2, StepIInv
    <2> QED
        BY <2>1, <2>3, PTL DEF MCSpec
<1>2. MCSpec => []Code!IInv
    <2>1. MCInit => Code!IInv
        BY CodeInit DEF MCInit
    <2>2. Code!IInv /\ [MCNext]_MCVars => Code!IInv'
        BY CodeMove, CodeNext
    <2> QED
        BY <2>1, <2>2, PTL DEF MCSpec
<1>3. MCSpec => []FeedFacts!IInv
    <2>1. MCInit => FeedFacts!Init
        BY DEF MCInit, FeedFacts!Init, Feed!Init
    <2>2. MCInit => FeedFacts!IInv
        BY <2>1, FeedFacts!InitInv, RuntimeAssumption
    <2>3. FeedFacts!IInv /\ [MCNext]_MCVars => FeedFacts!IInv'
        BY FeedMove, FeedFacts!NextInv, RuntimeAssumption
    <2> QED
        BY <2>2, <2>3, PTL DEF MCSpec
<1>4. MCSpec => []Auth!IInv
    <2>1. MCInit => Auth!IInv
        BY AuthInit DEF MCInit
    <2>2. Auth!IInv /\ [MCNext]_MCVars => Auth!IInv'
        BY AuthMove, AuthNext
    <2> QED
        BY <2>1, <2>2, PTL DEF MCSpec
<1>5. MCSpec => []AdmInv
    <2>1. MCInit => (part = "admission" => AdmissionFacts!Init)
        BY DEF MCInit, AdmissionFacts!Init, Admission!Init
    <2>2. MCInit => AdmInv
        BY <2>1, AdmissionFacts!InitIInv, AdmissionAssumption
    <2>3. AdmInv /\ [MCNext]_MCVars => AdmInv'
        BY AdmissionMove, AdmissionPart, AdmissionFacts!NextIInv, AdmissionAssumption
    <2> HIDE DEF AdmInv
    <2> QED
        BY <2>2, <2>3, PTL DEF MCSpec
<1>6. MCSpec => []RoutedInv
    <2>1. MCInit => (part = "routed" => RoutedFacts!Init)
        BY DEF MCInit, RoutedFacts!Init, Routed!Init
    <2>2. MCInit => RoutedInv
        BY <2>1, RoutedFacts!InitIInv, RoutedAssumption
    <2>3. RoutedInv /\ [MCNext]_MCVars => RoutedInv'
        BY RoutedMove, RoutedPart, RoutedFacts!NextIInv, RoutedAssumption
    <2> HIDE DEF RoutedInv
    <2> QED
        BY <2>2, <2>3, PTL DEF MCSpec
<1>7. IInv /\ Code!IInv /\ FeedFacts!IInv /\ Auth!IInv /\ AdmInv /\ RoutedInv => TypesOK
    <2> SUFFICES ASSUME IInv, Code!IInv, FeedFacts!IInv, Auth!IInv, AdmInv, RoutedInv
                 PROVE  TypesOK
        OBVIOUS
    <2>1. TypeOK /\ Code!TypeOK /\ Auth!TypeOK
        BY DEF IInv, Code!IInv, Auth!IInv
    <2>2. Feed!TypeOK
        BY DEF FeedFacts!IInv, FeedFacts!TypeOK, Feed!TypeOK
    <2>3. part = "admission" => Admission!TypeOK
        BY DEF AdmissionFacts!IInv, AdmissionFacts!CoreInv, AdmissionFacts!TypeOK,
            Admission!TypeOK, AdmissionFacts!Places, Admission!Places,
            AdmissionFacts!AtGate, Admission!AtGate, AdmissionFacts!Holding, Admission!Holding
    <2>4. part = "routed" => Routed!TypeOK
        BY DEF RoutedFacts!IInv, RoutedFacts!CoreInv, RoutedFacts!TypeOK, Routed!TypeOK,
            RoutedFacts!Places, Routed!Places, RoutedFacts!AtGate,
            Routed!AtGate, RoutedFacts!Holding, Routed!Holding
    <2> QED
        BY <2>1, <2>2, <2>3, <2>4 DEF TypesOK
<1> HIDE DEF AdmInv, RoutedInv
<1> QED
    BY <1>1, <1>2, <1>3, <1>4, <1>5, <1>6, <1>7, PTL
=============================================================================
