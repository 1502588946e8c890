-------------------------- MODULE OAuthCredentials --------------------------
(***************************************************************************)
(* ChatGPT credentials shared by FCC processes: OpenAIAuthManager          *)
(* (providers/openai_codex/auth.py) with its memory, the private file and  *)
(* its interprocess lock (core/interprocess_lock.py).                      *)
(*                                                                         *)
(* Credentials are numbered as the server issues them.  The server is      *)
(* external: a refresh token is accepted once and replaced, and access     *)
(* tokens come close to their expiry in the order they were issued.  What  *)
(* a process does under its state lock is op[p], its sign-in is login[p].  *)
(* A file operation that is cancelled goes on in its thread (orphans).     *)
(***************************************************************************)
EXTENDS Integers, FiniteSets

CONSTANTS
    Processes,
    Nobody,
    Budgets     \* bounds: how many tokens expire, sign-ins, disconnects, faults
                \* (an rpc that fails, a lock not had in time), cancellations and
                \* crashes there may be

VARIABLES
    file,       \* the credential file: 0 when there is none
    memory,     \* _credentials of every process
    holder,     \* who holds the file lock
    op,         \* refresh or disconnect under the state lock
    login,      \* _complete_login
    orphans,    \* writes (0: an unlink) of cancelled tasks that have yet to land
    accepted,   \* refresh tokens the server takes
    issued,     \* credentials issued
    expired,    \* those up to here are near their expiry
    damage,     \* what has happened that may cost the credentials
    left        \* what is left of the budget

local == <<memory, op, login>>
server == <<accepted, issued, expired>>
vars == <<file, memory, holder, op, login, orphans, server, damage, left>>

Idle == [at |-> "none", does |-> "nothing", token |-> 0, tries |-> 0]
NoLogin == [at |-> "none", token |-> 0]

Init ==
    /\ file = 1 /\ memory = [p \in Processes |-> 1]
    /\ holder = Nobody
    /\ op = [p \in Processes |-> Idle]
    /\ login = [p \in Processes |-> NoLogin]
    /\ orphans = [p \in Processes |-> {}]
    /\ accepted = {1} /\ issued = 1 /\ expired = 0
    /\ damage = {}
    /\ left \in Budgets

Spend(kind) == left[kind] > 0 /\ left' = [left EXCEPT ![kind] = @ - 1]
Damage(cause) == damage' = damage \cup {cause}

At(p, place) == op[p].at = place
Goes(p, place) == op' = [op EXCEPT ![p].at = place]
NearExpiry(token) == token <= expired

\* The server replaces a refresh token.
Issue(spent) == /\ issued' = issued + 1
                /\ accepted' = (accepted \ spent) \cup {issued + 1}
                /\ UNCHANGED expired

Expires ==
    /\ expired < issued
    /\ Spend("expiries")
    /\ expired' = expired + 1
    /\ UNCHANGED <<file, local, holder, orphans, accepted, issued, damage>>

-----------------------------------------------------------------------------
(* access, recover_unauthorized and _refresh_locked.                       *)

Refresh(p, tries) ==
    op' = [op EXCEPT ![p] = [at |-> "lock", does |-> "refresh", token |-> memory[p],
                             tries |-> tries]]

Access(p) ==
    /\ At(p, "none")
    /\ memory[p] # 0 /\ NearExpiry(memory[p])
    /\ Refresh(p, 1)
    /\ UNCHANGED <<file, memory, login, holder, orphans, server, damage, left>>

\* After a rejection: credentials that are newer in the file are enough.
RecoverUnauthorized(p) ==
    /\ At(p, "none")
    /\ memory[p] # 0 => NearExpiry(memory[p])
    /\ IF file \notin {0, memory[p]}
       THEN memory' = [memory EXCEPT ![p] = file] /\ UNCHANGED op
       ELSE memory[p] # 0 /\ Refresh(p, 2) /\ UNCHANGED memory
    /\ UNCHANGED <<file, login, holder, orphans, server, damage, left>>

Lock(p) ==
    /\ At(p, "lock") /\ holder = Nobody
    /\ holder' = p
    /\ Goes(p, IF op[p].does = "refresh" THEN "reload" ELSE "unlink")
    /\ UNCHANGED <<file, memory, login, orphans, server, damage, left>>

LockTimesOut(p) ==
    /\ At(p, "lock") /\ holder # Nobody
    /\ Spend("faults")
    /\ op' = [op EXCEPT ![p] = Idle]
    /\ UNCHANGED <<file, memory, login, holder, orphans, server, damage>>

\* Mutant: the file is not looked at before the refresh.
ReloadNothing(p) ==
    /\ At(p, "reload")
    /\ Goes(p, "post")
    /\ UNCHANGED <<file, memory, login, holder, orphans, server, damage, left>>

Reload(p) ==
    LET token == op[p].token IN
    /\ At(p, "reload")
    /\ IF file \notin {0, token} /\ ~NearExpiry(file)
       THEN /\ memory' = [memory EXCEPT ![p] = file]
            /\ op' = [op EXCEPT ![p].at = "release", ![p].tries = 0]
            /\ UNCHANGED damage
       ELSE /\ Goes(p, "post")
            /\ IF file \in {0, token} THEN UNCHANGED damage ELSE Damage("behind")
            /\ UNCHANGED memory
    /\ UNCHANGED <<file, login, holder, orphans, server, left>>

Post(p) ==
    LET token == op[p].token IN
    /\ At(p, "post")
    /\ IF token \in accepted
       THEN /\ Issue({token})
            /\ op' = [op EXCEPT ![p].at = "write", ![p].token = issued + 1]
       ELSE Goes(p, "drop") /\ UNCHANGED server
    /\ UNCHANGED <<file, memory, login, holder, orphans, damage, left>>

\* A transient failure: a retry takes the lock again, with the same credentials.
\* The server may have answered.
PostFails(p) ==
    /\ At(p, "post")
    /\ Spend("faults")
    /\ op' = [op EXCEPT ![p].at = "release", ![p].tries = op[p].tries - 1]
    /\ \/ UNCHANGED <<server, damage>>
       \/ op[p].token \in accepted /\ Issue({op[p].token}) /\ Damage("answer")
    /\ UNCHANGED <<file, memory, login, holder, orphans>>

Write(p) ==
    /\ At(p, "write")
    /\ file' = op[p].token
    /\ memory' = [memory EXCEPT ![p] = op[p].token]
    /\ op' = [op EXCEPT ![p].at = "release", ![p].tries = 0]
    /\ UNCHANGED <<login, holder, orphans, server, damage, left>>

\* The refresh token was refused.
Drop(p) ==
    /\ At(p, "drop")
    /\ file' = 0
    /\ memory' = [memory EXCEPT ![p] = 0]
    /\ op' = [op EXCEPT ![p].at = "release", ![p].tries = 0]
    /\ UNCHANGED <<login, holder, orphans, server, damage, left>>

Release(p) ==
    /\ At(p, "release")
    /\ holder' = Nobody
    /\ op' = [op EXCEPT ![p] = IF op[p].tries > 0 THEN [@ EXCEPT !.at = "lock"]
                               ELSE Idle]
    /\ memory' = IF op[p].does = "disconnect"
                 THEN [memory EXCEPT ![p] = 0] ELSE memory
    /\ UNCHANGED <<file, login, orphans, server, damage, left>>

\* The request is cancelled: its thread goes on, the lock is released.
Cancel(p) ==
    /\ op[p].does = "refresh"
    /\ Spend("cancels")
    /\ \/ At(p, "lock") /\ op' = [op EXCEPT ![p] = Idle] /\ UNCHANGED <<orphans, damage>>
       \/ /\ op[p].at \in {"reload", "post", "write", "drop"}
          /\ op' = [op EXCEPT ![p].at = "release", ![p].tries = 0]
          /\ IF op[p].at \in {"write", "drop"}
             THEN /\ \/ UNCHANGED orphans
                     \/ orphans' = [orphans EXCEPT ![p] = @ \cup
                                       {IF At(p, "drop") THEN 0 ELSE op[p].token}]
                  /\ Damage("cancelled")
             ELSE UNCHANGED <<orphans, damage>>
    /\ UNCHANGED <<file, memory, login, holder, server>>

OrphanLands(p) ==
    /\ \E token \in orphans[p] :
          /\ file' = token
          /\ orphans' = [orphans EXCEPT ![p] = @ \ {token}]
    /\ UNCHANGED <<local, holder, server, damage, left>>

-----------------------------------------------------------------------------
(* start_login, cancel_login and disconnect.                               *)

Signs(p, place) == login[p].at = place
LoginGoes(p, place) == login' = [login EXCEPT ![p].at = place]

StartLogin(p) ==
    /\ Signs(p, "none") /\ op[p].does # "disconnect"
    /\ Spend("logins")
    /\ LoginGoes(p, "grant")
    /\ UNCHANGED <<file, memory, op, holder, orphans, server, damage>>

ExchangeCode(p) ==
    /\ Signs(p, "grant")
    /\ Issue({})
    /\ login' = [login EXCEPT ![p] = [at |-> "lock", token |-> issued + 1]]
    /\ UNCHANGED <<file, memory, op, holder, orphans, damage, left>>

LoginLocks(p) ==
    /\ Signs(p, "lock") /\ holder = Nobody
    /\ holder' = p
    /\ LoginGoes(p, "write")
    /\ UNCHANGED <<file, memory, op, orphans, server, damage, left>>

LoginWrites(p) ==
    /\ Signs(p, "write")
    /\ file' = login[p].token
    /\ holder' = Nobody
    /\ LoginGoes(p, "settle")
    /\ UNCHANGED <<memory, op, orphans, server, damage, left>>

\* The state lock is taken for the memory, after the file lock was released.
LoginSettles(p) ==
    /\ Signs(p, "settle") /\ At(p, "none")
    /\ memory' = [memory EXCEPT ![p] = login[p].token]
    /\ login' = [login EXCEPT ![p] = NoLogin]
    /\ UNCHANGED <<file, op, holder, orphans, server, damage, left>>

\* A grant that does not come, a lock that is not had in time.
LoginFails(p) ==
    /\ login[p].at \in {"grant", "lock"}
    /\ login' = [login EXCEPT ![p] = NoLogin]
    /\ UNCHANGED <<file, memory, op, holder, orphans, server, damage, left>>

\* _detach_login_locked and _close_detached_login, which awaits the cancelled task.
DetachesLogin(p) ==
    /\ login' = [login EXCEPT ![p] = NoLogin]
    /\ IF Signs(p, "write")
       THEN /\ holder' = Nobody
            /\ \/ UNCHANGED orphans
               \/ orphans' = [orphans EXCEPT ![p] = @ \cup {login[p].token}]
       ELSE UNCHANGED <<holder, orphans>>

CancelLogin(p) ==
    /\ ~Signs(p, "none") /\ op[p].does # "disconnect"
    /\ Spend("cancels")
    /\ DetachesLogin(p)
    /\ IF Signs(p, "write") THEN Damage("cancelled") ELSE UNCHANGED damage
    /\ UNCHANGED <<file, memory, op, server>>

Disconnect(p) ==
    /\ At(p, "none")
    /\ Spend("disconnects")
    /\ op' = [op EXCEPT ![p] = [at |-> "revoke", does |-> "disconnect",
                                token |-> memory[p], tries |-> 0]]
    /\ DetachesLogin(p)
    /\ Damage("disconnect")
    /\ UNCHANGED <<file, memory, server>>

\* "Best-effort revoke".
Revoke(p) ==
    /\ At(p, "revoke")
    /\ \/ accepted' = accepted \ {op[p].token} /\ UNCHANGED left
       \/ op[p].token # 0 /\ Spend("faults") /\ UNCHANGED accepted
    /\ Goes(p, "lock")
    /\ UNCHANGED <<file, memory, login, holder, orphans, issued, expired, damage>>

Unlink(p) ==
    /\ At(p, "unlink")
    /\ file' = 0
    /\ Goes(p, "release")
    /\ UNCHANGED <<memory, login, holder, orphans, server, damage, left>>

\* A process that ends drops its lock, its threads and its memory; it starts with
\* what is in the file.
Crash(p) ==
    /\ Spend("crashes")
    /\ op' = [op EXCEPT ![p] = Idle]
    /\ login' = [login EXCEPT ![p] = NoLogin]
    /\ orphans' = [orphans EXCEPT ![p] = {}]
    /\ memory' = [memory EXCEPT ![p] = file]
    /\ holder' = IF holder = p THEN Nobody ELSE holder
    /\ IF At(p, "write") THEN Damage("crash") ELSE UNCHANGED damage
    /\ UNCHANGED <<file, server>>

-----------------------------------------------------------------------------

Step(p) == \/ Lock(p) \/ Reload(p) \/ Post(p) \/ Write(p) \/ Drop(p) \/ Release(p)
           \/ Revoke(p) \/ Unlink(p)
LoginStep(p) == \/ ExchangeCode(p) \/ LoginLocks(p) \/ LoginWrites(p)
                \/ LoginSettles(p) \/ LoginFails(p)

Next ==
    \/ \E p \in Processes :
          \/ Step(p) \/ LoginStep(p)
          \/ Access(p) \/ RecoverUnauthorized(p) \/ LockTimesOut(p) \/ PostFails(p)
          \/ Cancel(p) \/ OrphanLands(p) \/ StartLogin(p) \/ CancelLogin(p)
          \/ Disconnect(p) \/ Crash(p)
    \/ Expires

Spec == Init /\ [][Next]_vars

\* Threads and tasks run; a lock that is tried for thirty seconds is had when its
\* holders keep releasing it.
Fairness == \A p \in Processes : /\ WF_vars(Step(p)) /\ WF_vars(LoginStep(p))
                                 /\ SF_vars(Lock(p)) /\ WF_vars(OrphanLands(p))

FairSpec == Spec /\ Fairness

-----------------------------------------------------------------------------
(* Properties.                                                             *)

Tokens == 0 .. issued

CredentialsOK ==
    /\ file \in Tokens /\ memory \in [Processes -> Tokens]
    /\ orphans \in [Processes -> SUBSET Tokens]
    /\ issued \in Nat /\ accepted \subseteq 1 .. issued /\ expired \in Tokens

Operations == [at : {"none", "lock", "reload", "post", "write", "drop", "release",
                     "revoke", "unlink"},
               does : {"nothing", "refresh", "disconnect"},
               token : Tokens, tries : Int]
SignIns == [at : {"none", "grant", "lock", "write", "settle"}, token : Tokens]

TasksOK == op \in [Processes -> Operations] /\ login \in [Processes -> SignIns]

TypeOK == CredentialsOK /\ TasksOK /\ holder \in Processes \cup {Nobody}

\* However many processes refresh, sign in and retry at once, the file keeps
\* credentials that the server takes, or those that its lock's holder is about to
\* replace.  They are lost only by a disconnect, an answer that was lost, a
\* cancelled or crashed writer, or a process that is two lifetimes behind.
CredentialsSurvive ==
    damage = {} => \/ file \in accepted
                   \/ \E p \in Processes : holder = p /\ At(p, "write")

\* "Best-effort revoke, then always remove FCC-owned credentials": when the one
\* process there is has disconnected, and does not sign in, there is no file.
DisconnectRemoves ==
    \A p \in Processes :
        "disconnect" \in damage /\ op[p] = Idle /\ login[p] = NoLogin /\ memory[p] = 0
        => file = 0

\* Every lock is given back and every sign-in ends.
Settled == /\ holder = Nobody
           /\ \A p \in Processes : At(p, "none") /\ Signs(p, "none")

-----------------------------------------------------------------------------
(* What makes CredentialsSurvive inductive.                                *)

ConstantsOK == Nobody \notin Processes

\* Whoever is between Lock and Release, or writes a sign-in, holds the file lock.
Inside(p) == op[p].at \in {"reload", "post", "write", "drop", "release", "unlink"}

LockIsOwned ==
    \A p \in Processes : /\ Inside(p) => holder = p
                         /\ Signs(p, "write") => holder = p /\ ~Inside(p)

\* Nothing is removed, and what is posted is what the file holds.
RefreshIsCurrent(p) ==
    /\ orphans[p] = {}
    /\ op[p].at \notin {"drop", "revoke", "unlink"}
    /\ ~At(p, "none") => op[p].does = "refresh"
    /\ At(p, "post") => op[p].token = file
    /\ At(p, "write") => op[p].token \in accepted

\* Credentials of a sign-in that were not written yet are nobody else's.
Granted(p) == login[p].at \in {"lock", "write"}
GrantIsItsOwn(p) ==
    Granted(p) => /\ login[p].token \in accepted \ {file}
                  /\ \A q \in Processes :
                        /\ At(q, "write") => op[q].token # login[p].token
                        /\ q # p /\ Granted(q) => login[q].token # login[p].token

Undamaged ==
    damage = {} =>
        /\ CredentialsSurvive
        /\ \A p \in Processes : RefreshIsCurrent(p) /\ GrantIsItsOwn(p)

IInv == ConstantsOK /\ TypeOK /\ LockIsOwned /\ Undamaged
=============================================================================
