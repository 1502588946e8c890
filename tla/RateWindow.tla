----------------------------- MODULE RateWindow -----------------------------
(***************************************************************************)
(* StrictSlidingWindowLimiter (core/rate_limit.py) with its clock.         *)
(*                                                                         *)
(* The limiter's deque holds the acquisitions that have not been dropped   *)
(* yet: entry i of the deque is history[dropped + i].  No section under    *)
(* the limiter's lock awaits, so the lock is never contended; but the      *)
(* clock is read twice in one section, and time may pass in between: that  *)
(* is the place "appending", in which no other task runs.                  *)
(***************************************************************************)
EXTENDS Integers, Sequences, FiniteSets

CONSTANTS
    Tasks,    \* callers of acquire and acquire_if
    Limit,    \* rate_limit
    Window,   \* rate_window, in ticks of the clock
    MaxTime   \* bound: the last tick

ASSUME WindowAssumption ==
    /\ Limit \in Nat \ {0}
    /\ Window \in Nat \ {0}
    /\ MaxTime \in Nat

VARIABLES
    now,      \* time.monotonic()
    history,  \* the times of all acquisitions
    dropped,  \* how many of them have left the deque
    pc,       \* "trying", "appending", "sleeping" or "done"
    wake      \* when a sleeping task goes on

vars == <<now, history, dropped, pc, wake>>

Init == /\ now = 0
        /\ history = <<>>
        /\ dropped = 0
        /\ pc = [t \in Tasks |-> "trying"]
        /\ wake = [t \in Tasks |-> 0]

SectionFree == \A t \in Tasks : pc[t] # "appending"

\* Mutant: an acquisition is forgotten one tick early.
DropsTooSoon(d) ==
    /\ \A i \in dropped + 1 .. d : history[i] + Window <= now + 1
    /\ d < Len(history) => history[d + 1] + Window > now + 1

\* popleft while the oldest entry is at or before the cutoff: d entries are
\* gone afterwards.
DropsTo(d) ==
    /\ \A i \in dropped + 1 .. d : history[i] + Window <= now
    /\ d < Len(history) => history[d + 1] + Window > now

\* Mutant: the section admits at the limit.
AdmitAtLimit(t) ==
    /\ pc[t] = "trying"
    /\ SectionFree
    /\ \E d \in dropped .. Len(history) :
        /\ DropsTo(d)
        /\ Len(history) - d <= Limit
        /\ dropped' = d
    /\ pc' = [pc EXCEPT ![t] = "appending"]
    /\ UNCHANGED <<now, history, wake>>

\* There is capacity and the caller's condition still holds.
Admit(t) ==
    /\ pc[t] = "trying"
    /\ SectionFree
    /\ \E d \in dropped .. Len(history) :
        /\ DropsTo(d)
        /\ Len(history) - d < Limit
        /\ dropped' = d
    /\ pc' = [pc EXCEPT ![t] = "appending"]
    /\ UNCHANGED <<now, history, wake>>

\* The second reading of the clock, still in the same section.
Append_(t) ==
    /\ pc[t] = "appending"
    /\ history' = Append(history, now)
    /\ pc' = [pc EXCEPT ![t] = "done"]
    /\ UNCHANGED <<now, dropped, wake>>

\* There is capacity, but the caller's condition no longer holds.
Refuse(t) ==
    /\ pc[t] = "trying"
    /\ SectionFree
    /\ \E d \in dropped .. Len(history) :
        /\ DropsTo(d)
        /\ Len(history) - d < Limit
        /\ dropped' = d
    /\ pc' = [pc EXCEPT ![t] = "done"]
    /\ UNCHANGED <<now, history, wake>>

\* No capacity: sleep until the oldest acquisition leaves the window.
Sleep(t) ==
    /\ pc[t] = "trying"
    /\ SectionFree
    /\ \E d \in dropped .. Len(history) :
        /\ DropsTo(d)
        /\ Len(history) - d >= Limit
        /\ dropped' = d
        /\ wake' = [wake EXCEPT ![t] = history[d + 1] + Window]
    /\ pc' = [pc EXCEPT ![t] = "sleeping"]
    /\ UNCHANGED <<now, history>>

Wake(t) ==
    /\ pc[t] = "sleeping"
    /\ SectionFree
    /\ now >= wake[t]
    /\ pc' = [pc EXCEPT ![t] = "trying"]
    /\ UNCHANGED <<now, history, dropped, wake>>

CancelSleep(t) ==
    /\ pc[t] = "sleeping"
    /\ SectionFree
    /\ pc' = [pc EXCEPT ![t] = "done"]
    /\ UNCHANGED <<now, history, dropped, wake>>

Tick ==
    /\ now < MaxTime
    /\ now' = now + 1
    /\ UNCHANGED <<history, dropped, pc, wake>>

Next == \/ \E t \in Tasks : \/ Admit(t) \/ Append_(t) \/ Refuse(t)
                            \/ Sleep(t) \/ Wake(t) \/ CancelSleep(t)
        \/ Tick

Spec == Init /\ [][Next]_vars

-----------------------------------------------------------------------------
(* Properties.                                                             *)

TypeOK == /\ now \in Nat
          /\ history \in Seq(Nat)
          /\ dropped \in 0 .. Len(history)
          /\ pc \in [Tasks -> {"trying", "appending", "sleeping", "done"}]
          /\ wake \in [Tasks -> Nat]

\* The limiter's guarantee: no half-open interval of one window's length holds
\* more than Limit acquisitions, whatever slept, was refused or was cancelled
\* in between.
StrictWindow ==
    \A i \in 1 .. Len(history) - Limit : history[i + Limit] >= history[i] + Window

Recent == {i \in 1 .. Len(history) : history[i] + Window > now}

\* The limiter as the counter that ProviderAdmission uses: it admits only while
\* fewer than Limit acquisitions are recent, and never takes one back.
Quota == INSTANCE RateQuota WITH recent <- Cardinality(Recent)
ImplementsQuota == Quota!Spec
=============================================================================
