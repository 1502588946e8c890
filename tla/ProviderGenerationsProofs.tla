--------------------- MODULE ProviderGenerationsProofs ---------------------
(***************************************************************************)
(* Proofs about ProviderGenerations for any number of runtimes and any set *)
(* of clients: its safety invariants, that the catalog file is written for *)
(* the current generation only, and that requests see nothing but the      *)
(* runtimes of RuntimeLifetimes.                                           *)
(*                                                                         *)
(* The argument: until everything that could start work has let go (the    *)
(* manager is Sealed), the current generation is open and not retired.     *)
(* Work and leases belong to generations in service, cleanups to retired   *)
(* ones without leases, and every runtime that is not closed is held by    *)
(* somebody.  A close() begins sealed, so that what it finds is all there  *)
(* is.                                                                     *)
(***************************************************************************)
EXTENDS ProviderGenerations, TLAPS

\* Nothing that is under way can start work or replace the current generation.
Sealed == closing /\ apply = NoApply /\ ~connecting /\ ~refreshing

InService(r) == r \in retired \/ (r = current /\ runtime[r] = "open")

HasCandidate == apply.phase \in {"committing", "publishing"}

\* A candidate is open and newer than what it will replace; the configuration is
\* ahead of the current generation between the commit and the publication only.
ApplyInv ==
    /\ apply.phase \in {"committing", "publishing", "reclaiming"} => apply.started
    /\ HasCandidate => /\ runtime[apply.runtime] = "open"
                       /\ current < apply.runtime
                       /\ \A q \in Unbuilt : apply.runtime < q
    /\ apply.phase = "discarding" => runtime[apply.runtime] \in {"closing", "closed"}
    /\ config = IF apply.phase = "publishing" THEN apply.runtime ELSE current

OrderInv ==
    /\ \A q \in Unbuilt : current < q
    /\ \A r \in retired : r <= current

PublicationInv == publishing # NoPublication => publishing.runtime = current

ServiceInv ==
    /\ ~Sealed => current \notin retired /\ runtime[current] = "open"
    /\ \A r \in Runtimes : work[r] # "none" => InService(r)
    /\ \A c \in Clients : lease[c] # NoRuntime =>
           InService(lease[c]) /\ runtime[lease[c]] = "open"

CleanupInv ==
    \A r \in Runtimes :
        /\ cleanup[r] # "none" => r \in retired /\ ~Leased(r) /\ (r = current => Sealed)
        /\ cleanup[r] = "calling" => work[r] = "none"

UnpublishedInv ==
    \A r \in unpublished \cup retry : runtime[r] \in {"closing", "closed"}

\* No runtime is forgotten before it is closed.
AccountedInv ==
    \A r \in Runtimes :
        \/ runtime[r] \in {"absent", "closed"}
        \/ r \in retired \cup unpublished
        \/ r = current
        \/ HasCandidate /\ r = apply.runtime

CloserInv ==
    /\ closer # NoCloser => /\ Sealed /\ ~closed
                            /\ retired \subseteq closer.targets
                            /\ current \in retired \/ runtime[current] = "closed"
    /\ closer.phase \in {"flushing", "draining", "cleaning", "retrying"} =>
           \A r \in Runtimes : work[r] = "none"
    /\ closer.phase \in {"draining", "cleaning", "retrying"} =>
           publishing = NoPublication
    /\ closed => /\ Sealed
                 /\ retired = {} /\ unpublished = {} /\ publishing = NoPublication
                 /\ runtime[current] = "closed"

IInv == /\ TypeOK /\ ApplyInv /\ OrderInv /\ PublicationInv /\ ServiceInv
        /\ CleanupInv /\ UnpublishedInv /\ AccountedInv /\ CloserInv

-----------------------------------------------------------------------------
(* What an update of the record of apply_admin_config leaves.              *)

ApplyType == [phase : ApplyPhases, runtime : Runtimes \cup {NoRuntime},
              started : BOOLEAN, cancel : {"no", "asked", "heard"}]

LEMMA NoApplyFields ==
    /\ NoApply \in ApplyType
    /\ NoApply.phase = "idle" /\ NoApply.cancel = "no" /\ NoApply.started = FALSE
    /\ NoApply.runtime = NoRuntime
  BY DEF NoApply, ApplyType, ApplyPhases

LEMMA PhaseFields ==
    ASSUME NEW a \in ApplyType, NEW p \in ApplyPhases
    PROVE  LET b == [a EXCEPT !.phase = p]
           IN /\ b \in ApplyType
              /\ b.phase = p /\ b.runtime = a.runtime
              /\ b.started = a.started /\ b.cancel = a.cancel
  BY DEF ApplyType

LEMMA DiscardFields ==
    ASSUME NEW a \in ApplyType, NEW r \in Runtimes,
           NEW b, b = [a EXCEPT !.phase = "discarding", !.runtime = r]
    PROVE  /\ b \in ApplyType
           /\ b.phase = "discarding" /\ b.runtime = r
           /\ b.started = a.started
  BY DEF ApplyType, ApplyPhases

LEMMA ReclaimFields ==
    ASSUME NEW a \in ApplyType, NEW r \in Runtimes,
           NEW b, b = [a EXCEPT !.phase = "reclaiming", !.runtime = r]
    PROVE  /\ b \in ApplyType
           /\ b.phase = "reclaiming" /\ b.runtime = r
           /\ b.started = a.started
  BY DEF ApplyType, ApplyPhases

LEMMA CommitFields ==
    ASSUME NEW a \in ApplyType, NEW r \in Runtimes,
           NEW b, b = [a EXCEPT !.phase = "committing", !.runtime = r, !.started = TRUE]
    PROVE  /\ b \in ApplyType
           /\ b.phase = "committing" /\ b.runtime = r /\ b.started
  BY DEF ApplyType, ApplyPhases

LEMMA CancelFields ==
    ASSUME NEW a \in ApplyType, NEW x \in {"no", "asked", "heard"}
    PROVE  LET b == [a EXCEPT !.cancel = x]
           IN /\ b \in ApplyType
              /\ b.phase = a.phase /\ b.runtime = a.runtime
              /\ b.started = a.started /\ b.cancel = x
  BY DEF ApplyType

-----------------------------------------------------------------------------
USE GenerationsAssumption
    DEF Runtimes, Unbuilt, IInv, TypeOK, ApplyInv, OrderInv, PublicationInv, ServiceInv, CleanupInv,
        UnpublishedInv, AccountedInv, CloserInv, Sealed, InService, HasCandidate,
        ApplyPhases, CloserPhases, NoApply, NoCloser, NoPublication, Leased,
        ReplaceLockFree, PublicationLockFree, Started, Cancelled, Reclaim,
        ToApply, ToCloser, held, locks, published, shutdown

-----------------------------------------------------------------------------
LEMMA InitIInv == Init => IInv
<1> SUFFICES ASSUME Init PROVE IInv
  OBVIOUS
<1>1. TypeOK
  <2>1. apply \in ApplyType /\ apply.phase = "idle"
    BY NoApplyFields DEF Init
  <2>2. /\ publishing = NoPublication /\ closer \in [phase : CloserPhases, targets : SUBSET Runtimes]
        /\ connecting \in BOOLEAN /\ refreshing \in BOOLEAN
        /\ closing \in BOOLEAN /\ closed \in BOOLEAN
    BY DEF Init
  <2>3. /\ runtime \in [Runtimes -> {"absent", "open", "closing", "closed"}]
        /\ work \in [Runtimes -> {"none", "running", "cancelled"}]
        /\ cleanup \in [Runtimes -> {"none", "stopping", "calling"}]
        /\ lease \in [Clients -> Runtimes \cup {NoRuntime}]
    BY DEF Init
  <2>4. /\ current \in Runtimes /\ config \in Runtimes
        /\ retired \subseteq Runtimes /\ unpublished \subseteq Runtimes
        /\ retry \subseteq Runtimes /\ queued \subseteq Runtimes
        /\ file \in Runtimes \cup {NoRuntime}
    BY DEF Init
  <2> QED
    BY <2>1, <2>2, <2>3, <2>4 DEF ApplyType
<1>2. ApplyInv /\ OrderInv /\ PublicationInv
  BY DEF Init
<1>3. ServiceInv /\ CleanupInv
  BY DEF Init
<1>4. UnpublishedInv /\ AccountedInv /\ CloserInv
  BY DEF Init
<1> QED
  BY <1>1, <1>2, <1>3, <1>4 DEF IInv

LEMMA StartPassStep ==
    ASSUME IInv, StartPass
    PROVE  IInv'
  BY DEF StartPass

LEMMA RefreshAsksStep ==
    ASSUME IInv, RefreshAsks
    PROVE  IInv'
  BY DEF RefreshAsks

LEMMA RefreshRunsStep ==
    ASSUME IInv, RefreshRuns
    PROVE  IInv'
<1>1. TypeOK'
  <2>1. work' \in [Runtimes -> {"none", "running", "cancelled"}]
    BY DEF RefreshRuns
  <2>2. connecting' \in BOOLEAN /\ refreshing' \in BOOLEAN
    BY DEF RefreshRuns
  <2> QED
    BY <2>1, <2>2 DEF RefreshRuns
<1>2. ApplyInv' /\ OrderInv' /\ PublicationInv'
  BY DEF RefreshRuns
<1>3. ServiceInv' /\ CleanupInv'
  BY DEF RefreshRuns
<1>4. UnpublishedInv' /\ AccountedInv' /\ CloserInv'
  BY DEF RefreshRuns
<1> QED
  BY <1>1, <1>2, <1>3, <1>4 DEF IInv

LEMMA ConnectBeginsStep ==
    ASSUME IInv, ConnectBegins
    PROVE  IInv'
  BY DEF ConnectBegins

LEMMA ConnectEndsStep ==
    ASSUME IInv, ConnectEnds
    PROVE  IInv'
<1>1. TypeOK'
  <2>1. work' \in [Runtimes -> {"none", "running", "cancelled"}]
    BY DEF ConnectEnds
  <2>2. connecting' \in BOOLEAN /\ refreshing' \in BOOLEAN
    BY DEF ConnectEnds
  <2> QED
    BY <2>1, <2>2 DEF ConnectEnds
<1>2. ApplyInv' /\ OrderInv' /\ PublicationInv'
  BY DEF ConnectEnds
<1>3. ServiceInv' /\ CleanupInv'
  BY DEF ConnectEnds
<1>4. UnpublishedInv' /\ AccountedInv' /\ CloserInv'
  BY DEF ConnectEnds
<1> QED
  BY <1>1, <1>2, <1>3, <1>4 DEF IInv

LEMMA ConnectCancelledStep ==
    ASSUME IInv, ConnectCancelled
    PROVE  IInv'
<1>1. TypeOK'
  <2>1. work' \in [Runtimes -> {"none", "running", "cancelled"}]
    BY DEF ConnectCancelled
  <2>2. connecting' \in BOOLEAN /\ refreshing' \in BOOLEAN
    BY DEF ConnectCancelled
  <2> QED
    BY <2>1, <2>2 DEF ConnectCancelled
<1>2. ApplyInv' /\ OrderInv' /\ PublicationInv'
  BY DEF ConnectCancelled
<1>3. ServiceInv' /\ CleanupInv'
  BY DEF ConnectCancelled
<1>4. UnpublishedInv' /\ AccountedInv' /\ CloserInv'
  BY DEF ConnectCancelled
<1> QED
  BY <1>1, <1>2, <1>3, <1>4 DEF IInv

LEMMA WorkEndsStep ==
    ASSUME IInv, NEW r \in Runtimes, WorkEnds(r)
    PROVE  IInv'
  BY DEF WorkEnds

LEMMA QueuePublicationStep ==
    ASSUME IInv, QueuePublication
    PROVE  IInv'
  BY DEF QueuePublication

LEMMA PublishBeginsStep ==
    ASSUME IInv, NEW r \in Runtimes, NEW by \in {"task", "pass"}, PublishBegins(r, by)
    PROVE  IInv'
  BY DEF PublishBegins

LEMMA PublicationDroppedStep ==
    ASSUME IInv, NEW r \in Runtimes, PublicationDropped(r)
    PROVE  IInv'
  BY DEF PublicationDropped

LEMMA PublishEndsStep ==
    ASSUME IInv, PublishEnds
    PROVE  IInv'
  BY DEF PublishEnds

LEMMA AcquireStep ==
    ASSUME IInv, NEW c \in Clients, Acquire(c)
    PROVE  IInv'
  BY DEF Acquire

LEMMA DiscoverStep ==
    ASSUME IInv, NEW c \in Clients, Discover(c)
    PROVE  IInv'
  BY DEF Discover

LEMMA ReleaseStep ==
    ASSUME IInv, NEW c \in Clients, Release(c)
    PROVE  IInv'
  BY DEF Release

LEMMA CleanupCallsStep ==
    ASSUME IInv, NEW r \in Runtimes, CleanupCalls(r)
    PROVE  IInv'
  BY DEF CleanupCalls

LEMMA CleanupSucceedsStep ==
    ASSUME IInv, NEW r \in Runtimes, CleanupSucceeds(r)
    PROVE  IInv'
  BY DEF CleanupSucceeds

LEMMA CleanupFailsStep ==
    ASSUME IInv, NEW r \in Runtimes, CleanupFails(r)
    PROVE  IInv'
  BY DEF CleanupFails

LEMMA ApplyBeginsStep ==
    ASSUME IInv, ApplyBegins
    PROVE  IInv'
<1>1. TypeOK'
  BY DEF ApplyBegins
<1>2. ApplyInv' /\ OrderInv' /\ PublicationInv'
  BY DEF ApplyBegins
<1>3. ServiceInv' /\ CleanupInv'
  BY DEF ApplyBegins
<1>4. UnpublishedInv' /\ AccountedInv' /\ CloserInv'
  BY DEF ApplyBegins
<1> QED
  BY <1>1, <1>2, <1>3, <1>4 DEF IInv

LEMMA CallerCancelledStep ==
    ASSUME IInv, CallerCancelled
    PROVE  IInv'
<1>1. TypeOK'
  <2>1. apply \in ApplyType /\ apply' = [apply EXCEPT !.cancel = "asked"]
    BY DEF CallerCancelled, ApplyType
  <2>2. apply' \in ApplyType /\ apply'.runtime = apply.runtime
    BY <2>1, CancelFields
  <2> QED
    BY <2>2 DEF CallerCancelled, ApplyType
<1>2. ApplyInv' /\ OrderInv' /\ PublicationInv'
  BY DEF CallerCancelled
<1>3. ServiceInv' /\ CleanupInv'
  BY DEF CallerCancelled
<1>4. UnpublishedInv' /\ AccountedInv' /\ CloserInv'
  BY DEF CallerCancelled
<1> QED
  BY <1>1, <1>2, <1>3, <1>4 DEF IInv

LEMMA CallerHearsStep ==
    ASSUME IInv, CallerHears
    PROVE  IInv'
<1>1. CASE apply.started
  <2>1. /\ apply' \in ApplyType
        /\ apply'.phase = apply.phase /\ apply'.runtime = apply.runtime
        /\ apply'.started = apply.started
    <3>1. apply \in ApplyType
      BY DEF ApplyType
    <3>2. apply' = [apply EXCEPT !.cancel = "heard"]
      BY <1>1 DEF CallerHears
    <3> QED
      BY <3>1, <3>2, CancelFields
  <2>2. TypeOK'
    BY <1>1, <2>1 DEF CallerHears, ApplyType
  <2>3. ApplyInv' /\ OrderInv' /\ PublicationInv'
    BY <1>1, <2>1 DEF CallerHears
  <2>4. ServiceInv' /\ CleanupInv'
    BY <1>1, <2>1 DEF CallerHears
  <2>5. UnpublishedInv' /\ AccountedInv' /\ CloserInv'
    BY <1>1, <2>1 DEF CallerHears
  <2> QED
    BY <2>2, <2>3, <2>4, <2>5 DEF IInv
<1>2. CASE ~apply.started
  <2>1. /\ apply' \in ApplyType
        /\ apply' = NoApply
    <3>1. apply \in ApplyType
      BY DEF ApplyType
    <3>2. apply' = NoApply
      BY <1>2 DEF CallerHears
    <3> QED
      BY <3>1, <3>2, NoApplyFields
  <2>2. TypeOK'
    BY <1>2, <2>1 DEF CallerHears, ApplyType
  <2>3. ApplyInv' /\ OrderInv' /\ PublicationInv'
    BY <1>2, <2>1 DEF CallerHears
  <2>4. ServiceInv' /\ CleanupInv'
    BY <1>2, <2>1 DEF CallerHears
  <2>5. UnpublishedInv' /\ AccountedInv' /\ CloserInv'
    BY <1>2, <2>1 DEF CallerHears
  <2> QED
    BY <2>2, <2>3, <2>4, <2>5 DEF IInv
<1> QED
  BY <1>1, <1>2

LEMMA ReplaceBeginsStep ==
    ASSUME IInv, ReplaceBegins
    PROVE  IInv'
<1>1. CASE closing
  <2>1. /\ apply' \in ApplyType
        /\ apply' = NoApply
    <3>1. apply \in ApplyType
      BY DEF ApplyType
    <3>2. apply' = NoApply
      BY <1>1 DEF ReplaceBegins
    <3> QED
      BY <3>1, <3>2, NoApplyFields
  <2>2. TypeOK'
    BY <1>1, <2>1 DEF ReplaceBegins, ApplyType
  <2>3. ApplyInv' /\ OrderInv' /\ PublicationInv'
    BY <1>1, <2>1 DEF ReplaceBegins
  <2>4. ServiceInv' /\ CleanupInv'
    BY <1>1, <2>1 DEF ReplaceBegins
  <2>5. UnpublishedInv' /\ AccountedInv' /\ CloserInv'
    BY <1>1, <2>1 DEF ReplaceBegins
  <2> QED
    BY <2>2, <2>3, <2>4, <2>5 DEF IInv
<1>2. CASE ~closing
  <2>1. /\ apply' \in ApplyType
        /\ apply'.phase = "retrying"
    <3>1. apply \in ApplyType
      BY DEF ApplyType
    <3>2. apply' = [apply EXCEPT !.phase = "retrying"]
      BY <1>2 DEF ReplaceBegins
    <3> QED
      BY <3>1, <3>2, PhaseFields
  <2>2. TypeOK'
    BY <1>2, <2>1 DEF ReplaceBegins, ApplyType
  <2>3. ApplyInv' /\ OrderInv' /\ PublicationInv'
    BY <1>2, <2>1 DEF ReplaceBegins
  <2>4. ServiceInv' /\ CleanupInv'
    BY <1>2, <2>1 DEF ReplaceBegins
  <2>5. UnpublishedInv' /\ AccountedInv' /\ CloserInv'
    BY <1>2, <2>1 DEF ReplaceBegins
  <2> QED
    BY <2>2, <2>3, <2>4, <2>5 DEF IInv
<1> QED
  BY <1>1, <1>2

LEMMA RetrySucceedsStep ==
    ASSUME IInv, NEW r \in Runtimes, RetrySucceeds(r)
    PROVE  IInv'
<1>1. TypeOK'
  BY DEF RetrySucceeds
<1>2. ApplyInv'
  BY DEF RetrySucceeds
<1>3. OrderInv' /\ PublicationInv'
  BY DEF RetrySucceeds
<1>4. ServiceInv' /\ CleanupInv'
  BY DEF RetrySucceeds
<1>5. UnpublishedInv' /\ AccountedInv' /\ CloserInv'
  BY DEF RetrySucceeds
<1> QED
  BY <1>1, <1>2, <1>3, <1>4, <1>5 DEF IInv

LEMMA RetryFailsStep ==
    ASSUME IInv, NEW r \in Runtimes, RetryFails(r)
    PROVE  IInv'
  BY DEF RetryFails

LEMMA ConstructsStep ==
    ASSUME IInv, NEW r \in Runtimes, Constructs(r)
    PROVE  IInv'
<1>1. /\ apply \in ApplyType /\ apply.phase = "retrying"
      /\ r \in Unbuilt /\ \A q \in Unbuilt : r <= q
      /\ UNCHANGED <<current, config, retired, lease, work, cleanup, retry,
                     connecting, refreshing, queued, publishing, file,
                     closing, closer, closed>>
  BY DEF Constructs, ApplyType
<1>2. CASE apply.cancel = "asked"
  <2>1. /\ apply' \in ApplyType
        /\ apply'.phase = "discarding" /\ apply'.runtime = r
    <3>1. apply' = [apply EXCEPT !.phase = "discarding", !.runtime = r]
      BY <1>2 DEF Constructs
    <3> QED
      BY <1>1, <3>1, DiscardFields
  <2>2. /\ runtime' = [runtime EXCEPT ![r] = "closing"]
        /\ unpublished' = unpublished \cup {r}
    BY <1>2 DEF Constructs
  <2>3. TypeOK'
    BY <2>1, <2>2, <1>1 DEF ApplyType
  <2>4. ApplyInv' /\ OrderInv' /\ PublicationInv'
    BY <2>1, <2>2, <1>1
  <2>5. ServiceInv' /\ CleanupInv'
    BY <2>1, <2>2, <1>1
  <2>6. UnpublishedInv' /\ AccountedInv' /\ CloserInv'
    BY <2>1, <2>2, <1>1
  <2> QED
    BY <2>3, <2>4, <2>5, <2>6 DEF IInv
<1>3. CASE apply.cancel # "asked"
  <2>1. /\ apply' \in ApplyType
        /\ apply'.phase = "committing" /\ apply'.runtime = r
        /\ apply'.started
    <3>1. apply' = [apply EXCEPT !.phase = "committing", !.runtime = r,
                                 !.started = TRUE]
      BY <1>3 DEF Constructs
    <3> QED
      BY <1>1, <3>1, CommitFields
  <2>2. /\ runtime' = [runtime EXCEPT ![r] = "open"]
        /\ UNCHANGED unpublished
    BY <1>3 DEF Constructs
  <2>3. TypeOK'
    BY <2>1, <2>2, <1>1 DEF ApplyType
  <2>4. ApplyInv' /\ OrderInv' /\ PublicationInv'
    BY <2>1, <2>2, <1>1
  <2>5. ServiceInv' /\ CleanupInv'
    BY <2>1, <2>2, <1>1
  <2>6. UnpublishedInv' /\ AccountedInv' /\ CloserInv'
    BY <2>1, <2>2, <1>1
  <2> QED
    BY <2>3, <2>4, <2>5, <2>6 DEF IInv
<1> QED
  BY <1>2, <1>3

LEMMA ConstructionFailsStep ==
    ASSUME IInv, ConstructionFails
    PROVE  IInv'
  BY DEF ConstructionFails

LEMMA CommitWritesStep ==
    ASSUME IInv, CommitWrites
    PROVE  IInv'
<1>1. TypeOK'
  <2>1. apply \in ApplyType /\ apply' = [apply EXCEPT !.phase = "publishing"]
    BY DEF CommitWrites, ApplyType
  <2>2. apply' \in ApplyType /\ apply'.runtime = apply.runtime
    BY <2>1, PhaseFields
  <2> QED
    BY <2>2 DEF CommitWrites, ApplyType
<1>2. ApplyInv' /\ OrderInv' /\ PublicationInv'
  BY DEF CommitWrites
<1>3. ServiceInv' /\ CleanupInv'
  BY DEF CommitWrites
<1>4. UnpublishedInv' /\ AccountedInv' /\ CloserInv'
  BY DEF CommitWrites
<1> QED
  BY <1>1, <1>2, <1>3, <1>4 DEF IInv

LEMMA CommitFailsStep ==
    ASSUME IInv, CommitFails
    PROVE  IInv'
<1>1. TypeOK'
  <2>1. apply' \in [phase : ApplyPhases, runtime : Runtimes \cup {NoRuntime},
                started : BOOLEAN, cancel : {"no", "asked", "heard"}]
    BY DEF CommitFails
  <2> QED
    BY <2>1 DEF CommitFails
<1>2. ApplyInv' /\ OrderInv' /\ PublicationInv'
  BY DEF CommitFails
<1>3. ServiceInv' /\ CleanupInv'
  BY DEF CommitFails
<1>4. UnpublishedInv' /\ AccountedInv' /\ CloserInv'
  BY DEF CommitFails
<1> QED
  BY <1>1, <1>2, <1>3, <1>4 DEF IInv

LEMMA DiscardSucceedsStep ==
    ASSUME IInv, DiscardSucceeds
    PROVE  IInv'
<1>1. TypeOK'
  BY DEF DiscardSucceeds
<1>2. ApplyInv' /\ OrderInv' /\ PublicationInv'
  BY DEF DiscardSucceeds
<1>3. ServiceInv' /\ CleanupInv'
  BY DEF DiscardSucceeds
<1>4. UnpublishedInv' /\ AccountedInv' /\ CloserInv'
  BY DEF DiscardSucceeds
<1> QED
  BY <1>1, <1>2, <1>3, <1>4 DEF IInv

LEMMA DiscardFailsStep ==
    ASSUME IInv, DiscardFails
    PROVE  IInv'
  BY DEF DiscardFails

LEMMA ReplacePublishesStep ==
    ASSUME IInv, ReplacePublishes
    PROVE  IInv'
<1>1. /\ apply \in ApplyType /\ apply.phase = "publishing"
      /\ publishing = NoPublication
      /\ current' = apply.runtime
      /\ retired' = retired \cup {current}
      /\ UNCHANGED <<runtime, config, unpublished, lease, retry, connecting,
                     refreshing, queued, publishing, file, closing, closer, closed>>
  BY DEF ReplacePublishes, ApplyType
<1>2. ~Sealed /\ cleanup[current] = "none" /\ cleanup[apply.runtime] = "none"
  BY <1>1
<1>3. CASE Leased(current)
  <2>1. apply' \in ApplyType /\ apply' = NoApply
    <3>1. apply' = NoApply
      BY <1>3 DEF ReplacePublishes
    <3> QED
      BY <3>1, NoApplyFields
  <2>2. work' = Started(work, apply.runtime) /\ UNCHANGED cleanup
    BY <1>3 DEF ReplacePublishes
  <2>3. TypeOK'
    BY <2>1, <2>2, <1>1, <1>2 DEF ApplyType
  <2>4. ApplyInv' /\ OrderInv' /\ PublicationInv'
    BY <2>1, <2>2, <1>1, <1>2
  <2>5. ServiceInv' /\ CleanupInv'
    BY <2>1, <2>2, <1>1, <1>2
  <2>6. UnpublishedInv' /\ AccountedInv' /\ CloserInv'
    BY <2>1, <2>2, <1>1, <1>2
  <2> QED
    BY <2>3, <2>4, <2>5, <2>6 DEF IInv
<1>4. CASE ~Leased(current)
  <2>1. /\ apply' \in ApplyType
        /\ apply'.phase = "reclaiming" /\ apply'.runtime = current
        /\ apply'.started = apply.started
    <3>1. apply' = [apply EXCEPT !.phase = "reclaiming", !.runtime = current]
      BY <1>4 DEF ReplacePublishes
    <3> QED
      BY <1>1, <3>1, ReclaimFields
  <2>2. /\ work' = Started(Cancelled(work, {current}), apply.runtime)
        /\ cleanup' = [cleanup EXCEPT ![current] = "stopping"]
    BY <1>4 DEF ReplacePublishes
  <2>3. TypeOK'
    BY <2>1, <2>2, <1>1, <1>2, <1>4 DEF ApplyType
  <2>4. ApplyInv' /\ OrderInv' /\ PublicationInv'
    BY <2>1, <2>2, <1>1, <1>2, <1>4
  <2>5. ServiceInv' /\ CleanupInv'
    BY <2>1, <2>2, <1>1, <1>2, <1>4
  <2>6. UnpublishedInv' /\ AccountedInv' /\ CloserInv'
    BY <2>1, <2>2, <1>1, <1>2, <1>4
  <2> QED
    BY <2>3, <2>4, <2>5, <2>6 DEF IInv
<1> QED
  BY <1>3, <1>4

LEMMA ReplaceReturnsStep ==
    ASSUME IInv, ReplaceReturns
    PROVE  IInv'
  BY DEF ReplaceReturns

LEMMA BeginShutdownStep ==
    ASSUME IInv, BeginShutdown
    PROVE  IInv'
  BY DEF BeginShutdown

LEMMA CloseBeginsStep ==
    ASSUME IInv, CloseBegins
    PROVE  IInv'
  BY DEF CloseBegins

LEMMA CloseStoppedStep ==
    ASSUME IInv, CloseStopped
    PROVE  IInv'
<1>1. TypeOK'
  BY DEF CloseStopped
<1>2. ApplyInv' /\ OrderInv' /\ PublicationInv'
  BY DEF CloseStopped
<1>3. ServiceInv' /\ CleanupInv'
  BY DEF CloseStopped
<1>4. UnpublishedInv' /\ AccountedInv' /\ CloserInv'
  BY DEF CloseStopped
<1> QED
  BY <1>1, <1>2, <1>3, <1>4 DEF IInv

LEMMA CloseFlushedStep ==
    ASSUME IInv, CloseFlushed
    PROVE  IInv'
  BY DEF CloseFlushed

LEMMA CloseDrainedStep ==
    ASSUME IInv, CloseDrained
    PROVE  IInv'
<1>1. TypeOK'
  BY DEF CloseDrained
<1>2. ApplyInv' /\ OrderInv' /\ PublicationInv'
  BY DEF CloseDrained
<1>3. ServiceInv' /\ CleanupInv'
  BY DEF CloseDrained
<1>4. UnpublishedInv' /\ AccountedInv' /\ CloserInv'
  BY DEF CloseDrained
<1> QED
  BY <1>1, <1>2, <1>3, <1>4 DEF IInv

LEMMA CloseCleanedStep ==
    ASSUME IInv, CloseCleaned
    PROVE  IInv'
<1>1. TypeOK'
  <2>1. closer' \in [phase : CloserPhases, targets : SUBSET Runtimes]
    BY DEF CloseCleaned
  <2>2. /\ retry' = unpublished
        /\ UNCHANGED <<runtime, current, config, retired, unpublished, lease, work,
                       cleanup, apply, connecting, refreshing, queued, publishing,
                       file, closing, closed>>
    BY DEF CloseCleaned
  <2> QED
    BY <2>1, <2>2
<1>2. ApplyInv' /\ OrderInv' /\ PublicationInv'
  BY DEF CloseCleaned
<1>3. ServiceInv' /\ CleanupInv'
  BY DEF CloseCleaned
<1>4. UnpublishedInv' /\ AccountedInv' /\ CloserInv'
  BY DEF CloseCleaned
<1> QED
  BY <1>1, <1>2, <1>3, <1>4 DEF IInv

LEMMA CloseReturnsStep ==
    ASSUME IInv, CloseReturns
    PROVE  IInv'
  BY DEF CloseReturns

LEMMA CloseCancelledStep ==
    ASSUME IInv, CloseCancelled
    PROVE  IInv'
  BY DEF CloseCancelled

-----------------------------------------------------------------------------
(* The invariant                                                           *)

LEMMA CatalogSteps == IInv /\ Catalog => IInv'
  BY StartPassStep, RefreshAsksStep, RefreshRunsStep, ConnectBeginsStep,
     ConnectEndsStep, ConnectCancelledStep, WorkEndsStep, QueuePublicationStep,
     PublishBeginsStep, PublicationDroppedStep, PublishEndsStep DEF Catalog

LEMMA LeasesSteps == IInv /\ Leases => IInv'
  BY AcquireStep, DiscoverStep, ReleaseStep, CleanupCallsStep,
     CleanupSucceedsStep, CleanupFailsStep DEF Leases, CleanupStep

LEMMA ReplacementSteps == IInv /\ Replacement => IInv'
  BY ApplyBeginsStep, CallerCancelledStep, CallerHearsStep, ReplaceBeginsStep,
     RetrySucceedsStep, RetryFailsStep, ConstructsStep, ConstructionFailsStep,
     CommitWritesStep, CommitFailsStep, DiscardSucceedsStep, DiscardFailsStep,
     ReplacePublishesStep, ReplaceReturnsStep DEF Replacement, RetryStep

LEMMA ShutdownSteps == IInv /\ Shutdown => IInv'
  BY BeginShutdownStep, CloseBeginsStep, CloseStoppedStep, CloseFlushedStep,
     CloseDrainedStep, CloseCleanedStep, CloseReturnsStep, CloseCancelledStep
     DEF Shutdown, CloserStep

LEMMA StepIInv == IInv /\ [Next]_vars => IInv'
<1>1. IInv /\ UNCHANGED vars => IInv'
  BY DEF vars
<1> QED
  BY <1>1, CatalogSteps, LeasesSteps, ReplacementSteps, ShutdownSteps DEF Next

-----------------------------------------------------------------------------
(* What steps may do                                                       *)

\* A step that requests cannot see.
Unseen == UNCHANGED <<runtime, current, lease>>

LEMMA CatalogUnseen == Catalog => Unseen
  BY DEF Catalog, Unseen, StartPass, RefreshAsks, RefreshRuns, ConnectBegins, ConnectEnds,
     ConnectCancelled, WorkEnds, QueuePublication, PublishBegins, PublicationDropped,
     PublishEnds

LEMMA ShutdownUnseen == Shutdown => Unseen
  BY DEF Shutdown, CloserStep, Unseen, BeginShutdown, CloseBegins, CloseStopped,
     CloseFlushed, CloseDrained, CloseCleaned, CloseReturns, CloseCancelled

LEMMA CatalogWrites == Catalog => file' = file \/ PublishEnds
  BY DEF Catalog, StartPass, RefreshAsks, RefreshRuns, ConnectBegins, ConnectEnds,
     ConnectCancelled, WorkEnds, QueuePublication, PublishBegins, PublicationDropped

LEMMA OthersDoNotWrite == Leases \/ Replacement \/ Shutdown => file' = file
<1>1. Leases => file' = file
  BY DEF Leases, CleanupStep, Acquire, Discover, Release, CleanupCalls, CleanupSucceeds,
     CleanupFails
<1>2. Replacement => file' = file
  BY DEF Replacement, RetryStep, ApplyBegins, CallerCancelled, CallerHears,
     ReplaceBegins, RetrySucceeds, RetryFails, Constructs, ConstructionFails,
     CommitWrites, CommitFails, DiscardSucceeds, DiscardFails, ReplacePublishes,
     ReplaceReturns
<1>3. Shutdown => file' = file
  BY DEF Shutdown, CloserStep, BeginShutdown, CloseBegins, CloseStopped,
     CloseFlushed, CloseDrained, CloseCleaned, CloseReturns, CloseCancelled
<1> QED
  BY <1>1, <1>2, <1>3

LEMMA WritesStep == IInv /\ [Next]_vars => file' = file \/ file' = current'
<1>1. IInv /\ PublishEnds => file' = file \/ file' = current'
  BY DEF PublishEnds
<1> QED
  BY <1>1, CatalogWrites, OthersDoNotWrite DEF Next, vars

LEMMA UnseenStep == Unseen => UNCHANGED Lifetimes!vars
  BY DEF Unseen, Lifetimes!vars

\* A runtime that nobody leases is closed, or was not open.
LEMMA DisposeStep ==
    ASSUME IInv, NEW r \in Runtimes, NEW x \in {"closing", "closed"},
           runtime[r] # "absent", ~Leased(r),
           runtime' = [runtime EXCEPT ![r] = x], UNCHANGED <<current, lease>>
    PROVE  Lifetimes!Dispose(r) \/ UNCHANGED Lifetimes!vars
<1>1. Runtimes \ Unbuilt' = Runtimes \ Unbuilt
  OBVIOUS
<1>2. CASE runtime[r] = "open"
  BY <1>1, <1>2 DEF Lifetimes!Dispose
<1>3. CASE runtime[r] # "open"
  BY <1>1, <1>3 DEF Lifetimes!vars
<1> QED
  BY <1>2, <1>3

LEMMA LeasesLifetimes ==
    ASSUME IInv, Leases
    PROVE  Lifetimes!Next \/ UNCHANGED Lifetimes!vars
<1>1. ASSUME NEW c \in Clients, Acquire(c)
      PROVE  Lifetimes!Enter(c)
  BY <1>1 DEF Acquire, Lifetimes!Enter
<1>2. ASSUME NEW c \in Clients, Discover(c)
      PROVE  UNCHANGED Lifetimes!vars
  BY <1>2, UnseenStep DEF Discover, Unseen
<1>3. ASSUME NEW c \in Clients, Release(c)
      PROVE  Lifetimes!Leave(c)
  BY <1>3 DEF Release, Lifetimes!Leave
<1>4. ASSUME NEW r \in Runtimes, CleanupStep(r)
      PROVE  Lifetimes!Dispose(r) \/ UNCHANGED Lifetimes!vars
  <2>1. cleanup[r] # "none" /\ UNCHANGED <<current, lease>>
    BY <1>4 DEF CleanupStep, CleanupCalls, CleanupSucceeds, CleanupFails
  <2>2. ~Leased(r) /\ runtime[r] # "absent"
    BY <2>1
  <2>3. \/ \E x \in {"closing", "closed"} : runtime' = [runtime EXCEPT ![r] = x]
        \/ UNCHANGED runtime
    BY <1>4 DEF CleanupStep, CleanupCalls, CleanupSucceeds, CleanupFails
  <2>4. CASE UNCHANGED runtime
    BY <2>1, <2>4, UnseenStep DEF Unseen
  <2>5. CASE \E x \in {"closing", "closed"} : runtime' = [runtime EXCEPT ![r] = x]
    <3>1. PICK x \in {"closing", "closed"} : runtime' = [runtime EXCEPT ![r] = x]
      BY <2>5
    <3> QED
      BY <2>1, <2>2, <3>1, DisposeStep
  <2> QED
    BY <2>3, <2>4, <2>5
<1> QED
  BY <1>1, <1>2, <1>3, <1>4 DEF Leases, Lifetimes!Next

LEMMA ReplacementLifetimes ==
    ASSUME IInv, Replacement
    PROVE  Lifetimes!Next \/ UNCHANGED Lifetimes!vars
<1>1. CASE \/ ApplyBegins \/ CallerCancelled \/ CallerHears \/ ReplaceBegins
           \/ ConstructionFails \/ CommitWrites \/ DiscardFails \/ ReplaceReturns
           \/ \E r \in retry : RetryFails(r)
  BY <1>1, UnseenStep DEF Unseen, ApplyBegins, CallerCancelled, CallerHears,
     ReplaceBegins, ConstructionFails, CommitWrites, DiscardFails, ReplaceReturns, RetryFails
<1>2. ASSUME NEW r \in retry, RetrySucceeds(r)
      PROVE  Lifetimes!Next \/ UNCHANGED Lifetimes!vars
  <2>1. r \in Runtimes /\ runtime[r] # "absent" /\ ~Leased(r)
    BY <1>2
  <2>2. runtime' = [runtime EXCEPT ![r] = "closed"] /\ UNCHANGED <<current, lease>>
    BY <1>2 DEF RetrySucceeds
  <2> QED
    BY <2>1, <2>2, DisposeStep DEF Lifetimes!Next
<1>3. ASSUME NEW r \in Runtimes, Constructs(r)
      PROVE  Lifetimes!Build(r)
  <2>1. /\ r \in Unbuilt /\ UNCHANGED <<current, lease>>
        /\ \E x \in {"open", "closing"} : runtime' = [runtime EXCEPT ![r] = x]
    BY <1>3 DEF Constructs
  <2> QED
    BY <2>1 DEF Lifetimes!Build
<1>4. CASE CommitFails \/ DiscardSucceeds
  <2>1. apply.runtime \in Runtimes /\ UNCHANGED <<current, lease>>
    BY <1>4 DEF CommitFails, DiscardSucceeds
  <2>2. PICK r \in Runtimes : r = apply.runtime
    BY <2>1
  <2>3. runtime[r] # "absent" /\ ~Leased(r)
    BY <1>4, <2>2 DEF CommitFails, DiscardSucceeds
  <2>4. PICK x \in {"closing", "closed"} : runtime' = [runtime EXCEPT ![r] = x]
    BY <1>4, <2>2 DEF CommitFails, DiscardSucceeds
  <2>5. Lifetimes!Dispose(r) \/ UNCHANGED Lifetimes!vars
    BY <2>1, <2>3, <2>4, DisposeStep
  <2> QED
    BY <2>5 DEF Lifetimes!Next
<1>5. CASE ReplacePublishes
  <2>1. /\ apply.runtime \in Runtimes /\ runtime[apply.runtime] = "open"
        /\ current < apply.runtime /\ current' = apply.runtime
        /\ UNCHANGED <<runtime, lease>>
    BY <1>5 DEF ReplacePublishes
  <2> QED
    BY <2>1 DEF Lifetimes!Next, Lifetimes!Publish
<1> QED
  BY <1>1, <1>2, <1>3, <1>4, <1>5 DEF Replacement, RetryStep, Lifetimes!Next

LEMMA LifetimesInit == Init => Lifetimes!Init
  BY DEF Init, Lifetimes!Init

LEMMA LifetimesStep == IInv /\ [Next]_vars => [Lifetimes!Next]_(Lifetimes!vars)
<1>1. UNCHANGED vars => Unseen
  BY DEF vars, Unseen
<1> QED
  BY <1>1, CatalogUnseen, ShutdownUnseen, UnseenStep, LeasesLifetimes,
     ReplacementLifetimes DEF Next

LEMMA SafetyFromIInv == IInv => TypeOK /\ ConfigIsCurrent /\ CloseLeavesNothing
  BY DEF ConfigIsCurrent, CloseLeavesNothing

-----------------------------------------------------------------------------
(* The theorems                                                            *)

HIDE DEF IInv, TypeOK

THEOREM Invariance == Spec => []IInv
  BY InitIInv, StepIInv, PTL DEF Spec

\* Every variable keeps its type, whatever happens.
THEOREM TypeCorrect == Spec => []TypeOK
  BY Invariance, SafetyFromIInv, PTL

\* apply_admin_config leaves the file and the served configuration in agreement.
THEOREM UpdatesAreWhole == Spec => []ConfigIsCurrent
  BY Invariance, SafetyFromIInv, PTL

\* close() of the manager returns only when there is nothing left to close.
THEOREM CloseIsComplete == Spec => []CloseLeavesNothing
  BY Invariance, SafetyFromIInv, PTL

\* So neither an update nor a close() is left half done.
THEOREM ManagerChangesAreWhole == Spec => []ChangesAreWhole
  BY UpdatesAreWhole, CloseIsComplete, PTL DEF ChangesAreWhole

\* _publish_generation writes for the current generation only.
THEOREM CatalogWritten == Spec => CatalogIsOfCurrent
  BY Invariance, WritesStep, PTL DEF Spec, CatalogIsOfCurrent

\* To its requests the manager is a succession of runtimes that are disposed of
\* when nobody uses them.
THEOREM ManagerImplementsLifetimes == Spec => ImplementsLifetimes
  BY Invariance, LifetimesInit, LifetimesStep, PTL DEF Spec, ImplementsLifetimes, Lifetimes!Spec
=============================================================================
