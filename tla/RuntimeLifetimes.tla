-------------------------- MODULE RuntimeLifetimes --------------------------
(***************************************************************************)
(* What ProviderRuntimeManager promises the requests it serves: provider   *)
(* runtimes are built one after another, one of them is current, a request *)
(* keeps the one that was current when it came, and a runtime is disposed  *)
(* of once, when nobody uses it.  Nothing here speaks of tasks, locks,     *)
(* retirement, commits or shutdown.                                        *)
(***************************************************************************)
EXTENDS Naturals

CONSTANTS Runtimes, Clients, NoRuntime

VARIABLES
    current,   \* the runtime that new requests get
    built,     \* every runtime there has been
    alive,     \* those that can still be used
    using      \* the runtime of each request

vars == <<current, built, alive, using>>

Init == /\ current = 1
        /\ built = {1}
        /\ alive = {1}
        /\ using = [c \in Clients |-> NoRuntime]

\* A runtime may be given up as soon as it is built.
Build(r) == /\ r \in Runtimes \ built
            /\ built' = built \cup {r}
            /\ alive' \in {alive, alive \cup {r}}
            /\ UNCHANGED <<current, using>>

\* What comes is newer than what it replaces, and can still be used.
Publish(r) == /\ r \in alive
              /\ r > current
              /\ current' = r
              /\ UNCHANGED <<built, alive, using>>

Enter(c) == /\ using[c] = NoRuntime
            /\ current \in alive
            /\ using' = [using EXCEPT ![c] = current]
            /\ UNCHANGED <<current, built, alive>>

Leave(c) == /\ using[c] # NoRuntime
            /\ using' = [using EXCEPT ![c] = NoRuntime]
            /\ UNCHANGED <<current, built, alive>>

Dispose(r) == /\ r \in alive
              /\ \A c \in Clients : using[c] # r
              /\ alive' = alive \ {r}
              /\ UNCHANGED <<current, built, using>>

Next == \/ \E r \in Runtimes : Build(r) \/ Publish(r) \/ Dispose(r)
        \/ \E c \in Clients : Enter(c) \/ Leave(c)

Spec == Init /\ [][Next]_vars
=============================================================================
