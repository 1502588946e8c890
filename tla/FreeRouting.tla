---------------------------- MODULE FreeRouting ----------------------------
(***************************************************************************)
(* Automatic routing: application/free_pool.py selects candidates outside  *)
(* their cooldowns, application/execution.py walks them until one answers, *)
(* core/fallback_order.py reorders what is left after a failure, and       *)
(* api/capacity_recovery.py starts further rounds within the budget of     *)
(* application/route_budget.py.  Requests share the cooldowns; a catalog   *)
(* refresh reads the account's quota and applies the answer later.         *)
(*                                                                         *)
(* A sort by health, context and preference is any order inside a billing  *)
(* category; failures are abstracted to the scope, length and reason of    *)
(* the cooldown record_failure derives from them.                          *)
(***************************************************************************)
EXTENDS Integers, Sequences, FiniteSets, SequencesExt

CONSTANTS
    Requests,
    Models,             \* the eligible catalog
    Provider, Billing,  \* functions on Models; billing is "free" or "paid"
    Orders,             \* the orders health and preferences may sort it into
    Selected,           \* the manual first choice, or NoModel
    NoModel,
    Contended,          \* bound: the models that other requests try
    QuotaProvider,      \* the provider whose account reports a daily quota
    Limit,              \* PROVIDER_FAILURE_LIMIT
    MaxCandidates,      \* candidates of one selection
    Short, Long,        \* cooldown lengths, in ticks
    MaxProbes           \* bound on the quota checks

VARIABLES
    cooldown,   \* [scope -> the ticks left of it and its reason]
    probe,      \* the quota check: "idle" or "asked"
    probes,     \* quota checks made
    pc,         \* where a request is
    cands,      \* candidates of its round, in their current order
    at,         \* index of the candidate being tried
    failure,    \* failure of that candidate, or "none"
    last,       \* last failure of the round
    out,        \* the model whose output reached the client, or NoModel
    failures,   \* RouteAttemptBudget.failures
    attempted   \* their sum when the round started

vars == <<cooldown, probe, probes, pc, cands, at, failure, last, out, failures, attempted>>

Providers == {Provider[m] : m \in Models}
Scopes == (Providers \X {"free", "paid"}) \union Models
Failures == {"rate", "quota", "down", "refused", "local"}

CooldownsOK ==
    /\ cooldown \in [Scopes -> [left : 0 .. Long, reason : Failures \union {"none"}]]
    /\ probe \in {"idle", "asked"} /\ probes \in 0 .. MaxProbes

WalksOK ==
    /\ pc \in [Requests -> {"select", "read", "flow", "close", "offered",
                            "done", "failed", "refused"}]
    /\ cands \in [Requests -> Seq(Models)]
    /\ at \in [Requests -> 1 .. MaxCandidates]
    /\ failure \in [Requests -> Failures \union {"none", "complete"}]
    /\ last \in [Requests -> Failures \union {"none"}]
    /\ out \in [Requests -> Models \union {NoModel}]

BudgetsOK ==
    /\ failures \in [Requests -> [Providers -> 0 .. Limit]]
    /\ attempted \in [Requests -> 0 .. Limit * Cardinality(Providers)]

TypeOK == CooldownsOK /\ WalksOK /\ BudgetsOK

NoCooldown == [left |-> 0, reason |-> "none"]

Init ==
    /\ cooldown = [s \in Scopes |-> NoCooldown]
    /\ probe = "idle" /\ probes = 0
    /\ pc = [r \in Requests |-> "select"]
    /\ cands = [r \in Requests |-> << >>]
    /\ at = [r \in Requests |-> 1]
    /\ failure = [r \in Requests |-> "none"]
    /\ last = [r \in Requests |-> "none"]
    /\ out = [r \in Requests |-> NoModel]
    /\ failures = [r \in Requests |-> [p \in Providers |-> 0]]
    /\ attempted = [r \in Requests |-> 0]

-----------------------------------------------------------------------------
(* Cooldowns.                                                              *)

\* The scopes whose cooldown holds a model back: its provider's, its billing
\* category's there, and its own.
ScopesOf(m) == {<<Provider[m], "free">>, <<Provider[m], Billing[m]>>, m}

\* FreeModelPool.cooldown: a spent free quota does not hold back paid models.
Cooling(cool, m) ==
    \E s \in ScopesOf(m) :
        /\ cool[s].left > 0
        /\ ~(Billing[m] # "free" /\ cool[s].reason = "quota")

\* Mutant: a provider may fail once more.
AllowsOnceMore(spent, p) == spent[p] <= Limit

\* RouteAttemptBudget.allows.
Allows(spent, p) == spent[p] < Limit

\* What record_failure stores: an outage is the model's, the rest is the
\* account's in that billing category.
FailureScope(m, kind) == IF kind = "down" THEN m ELSE <<Provider[m], Billing[m]>>
FailureTime(kind) == IF kind \in {"quota", "refused"} THEN Long ELSE Short

\* The provider reports a spent daily quota for its free models only.
MayReport(m, kind) == kind = "quota" => Provider[m] = QuotaProvider /\ Billing[m] = "free"

-----------------------------------------------------------------------------
(* select().                                                               *)

Eligible(r) == {m \in Models : ~Cooling(cooldown, m) /\ Allows(failures[r], Provider[m])}

\* Mutant: a category takes the first models it has.
FirstOnes(category, budget) == SubSeq(category, 1, Min({budget, Len(category)}))

\* reserve_provider_candidates: in order, keeping room for unseen providers.
Reserved(category, budget) ==
    LET all == {Provider[m] : m \in ToSet(category)}
        keep(chosen, m) ==
            LET seen == {Provider[c] : c \in ToSet(chosen)}
                room == budget - Len(chosen)
            IN  IF \/ room <= 0
                   \/ Provider[m] \in seen /\ room <= Cardinality(all \ seen)
                THEN chosen
                ELSE Append(chosen, m)
    IN  FoldLeft(keep, << >>, category)

\* The members of a set, in the order of s.
Only(s, S) == FoldLeft(LAMBDA kept, m : IF m \in S THEN Append(kept, m) ELSE kept, << >>, s)

\* The candidate list of select(): the manual choice first, then the billing
\* categories in their priority, each leaving a slot for the later ones.
Selection(r, order) ==
    LET eligible == Eligible(r)
        first == Only(order, eligible \intersect {Selected})
        of(b) == Only(order, {m \in eligible \ {Selected} : Billing[m] = b})
        paid == of("paid")
        room == MaxCandidates - Len(first)
        free == Reserved(of("free"), room - (IF paid = << >> THEN 0 ELSE 1))
    IN  first \o free \o Reserved(paid, room - Len(free))

\* The head of the loop in provider_body, from the i-th candidate of s on, with
\* the given budget and cooldowns: candidates over budget or cooling are passed
\* over.  When none is left the round fails: recoverably, as nothing was sent,
\* unless its last failure is lasting.
Walk(r, s, i, spent, cool, kind) ==
    LET usable == {j \in i .. Len(s) : Allows(spent, Provider[s[j]]) /\ ~Cooling(cool, s[j])}
    IN  /\ last' = [last EXCEPT ![r] = kind]
        /\ IF usable # {}
           THEN /\ cands' = [cands EXCEPT ![r] = s]
                /\ at' = [at EXCEPT ![r] = CHOOSE j \in usable : \A k \in usable : j <= k]
                /\ pc' = [pc EXCEPT ![r] = "read"]
           ELSE /\ cands' = [cands EXCEPT ![r] = << >>]
                /\ at' = [at EXCEPT ![r] = 1]
                /\ pc' = [pc EXCEPT ![r] = IF kind \in {"refused", "local"}
                                           THEN "failed" ELSE "offered"]

\* select(), and the first step of the walk.  Without an eligible model the
\* round fails recoverably.
Select(r) ==
    /\ pc[r] = "select"
    /\ IF Eligible(r) = {}
       THEN /\ pc' = [pc EXCEPT ![r] = "offered"]
            /\ UNCHANGED <<cands, at, last>>
       ELSE \E s \in {Selection(r, order) : order \in Orders} :
               Walk(r, s, 1, failures[r], cooldown, "none")
    /\ UNCHANGED <<cooldown, probe, probes, failure, out, failures, attempted>>

-----------------------------------------------------------------------------
(* provider_body(): candidate by candidate.                                *)

\* The first output commits the request to its candidate.
Output(r) ==
    /\ pc[r] = "read"
    /\ out' = [out EXCEPT ![r] = cands[r][at[r]]]
    /\ pc' = [pc EXCEPT ![r] = "flow"]
    /\ UNCHANGED <<cooldown, probe, probes, cands, at, failure, last, failures, attempted>>

\* The stream fails, before or after output, or completes after it; it is then
\* closed.
StreamEnds(r) ==
    /\ pc[r] \in {"read", "flow"}
    /\ \E kind \in Failures \union {"complete"} :
        /\ kind = "complete" => pc[r] = "flow"
        /\ MayReport(cands[r][at[r]], kind)
        /\ kind = "local" => pc[r] = "read"
        /\ failure' = [failure EXCEPT ![r] = kind]
    /\ pc' = [pc EXCEPT ![r] = "close"]
    /\ UNCHANGED <<cooldown, probe, probes, cands, at, last, out, failures, attempted>>

\* The request is over.
Over(r, how) ==
    /\ pc' = [pc EXCEPT ![r] = how]
    /\ cands' = [cands EXCEPT ![r] = << >>]
    /\ at' = [at EXCEPT ![r] = 1]
    /\ last' = [last EXCEPT ![r] = "none"]

\* Closing takes longer than its own deadline: the request fails at once, and
\* nothing is recorded of the candidate.
CloseTimesOut(r) ==
    /\ pc[r] = "close"
    /\ Over(r, "failed")
    /\ failure' = [failure EXCEPT ![r] = "none"]
    /\ UNCHANGED <<cooldown, probe, probes, out, failures, attempted>>

\* record_success.
Succeed(r) ==
    /\ pc[r] = "close" /\ failure[r] = "complete"
    /\ Over(r, "done")
    /\ failure' = [failure EXCEPT ![r] = "none"]
    /\ UNCHANGED <<cooldown, probe, probes, out, failures, attempted>>

\* Mutant: any other provider moves ahead, whatever it bills.
PreferAnyProvider(s, i) ==
    LET others == {j \in i + 1 .. Len(s) : Provider[s[j]] # Provider[s[i]]}
    IN  IF others = {} THEN s
        ELSE LET j == CHOOSE j \in others : \A k \in others : j >= k
             IN  SubSeq(s, 1, i) \o <<s[j]>> \o SubSeq(s, i + 1, j - 1)
                   \o SubSeq(s, j + 1, Len(s))

\* prefer_next_provider: the first model of another provider, in the category
\* that comes next, moves ahead of the failed one's siblings.
PreferNextProvider(s, i) ==
    LET others == {j \in i + 1 .. Len(s) :
                     /\ \A k \in i + 1 .. j : Billing[s[k]] = Billing[s[i + 1]]
                     /\ Provider[s[j]] # Provider[s[i]]}
    IN  IF others = {} THEN s
        ELSE LET j == CHOOSE j \in others : \A k \in others : j <= k
             IN  SubSeq(s, 1, i) \o <<s[j]>> \o SubSeq(s, i + 1, j - 1)
                   \o SubSeq(s, j + 1, Len(s))

\* The cooldown record_failure stores for a model.
Cooled(m, kind) ==
    [cooldown EXCEPT ![FailureScope(m, kind)] = [left |-> FailureTime(kind), reason |-> kind]]

\* record_failure, and on to the next candidate unless output was sent.  A
\* request that could not be converted says nothing about the provider.
Fail(r) ==
    /\ pc[r] = "close" /\ failure[r] \in Failures
    /\ LET m == cands[r][at[r]]
           kind == failure[r]
       IN  /\ IF kind = "local"
              THEN UNCHANGED <<cooldown, failures>>
              ELSE /\ failures' = [failures EXCEPT ![r][Provider[m]] = @ + 1]
                   /\ cooldown' = Cooled(m, kind)
           /\ IF out[r] = NoModel
              THEN Walk(r, PreferNextProvider(cands[r], at[r]), at[r] + 1,
                        failures'[r], cooldown', kind)
              ELSE Over(r, "failed")
    /\ failure' = [failure EXCEPT ![r] = "none"]
    /\ UNCHANGED <<probe, probes, out, attempted>>

\* Mutant: another round, whatever the last one used up.
NextRoundAlways(r) ==
    /\ pc[r] = "offered"
    /\ pc' = [pc EXCEPT ![r] = IF Eligible(r) # {} THEN "select" ELSE "refused"]
    /\ UNCHANGED <<cooldown, probe, probes, cands, at, failure, last, out, failures, attempted>>

\* CapacityRecovery.respond: another round while the last one used up some of
\* the budget and a route is left.
NextRound(r) ==
    /\ pc[r] = "offered"
    /\ LET sum == FoldFunction(+, 0, failures[r])
       IN  IF sum > attempted[r] /\ Eligible(r) # {}
           THEN /\ pc' = [pc EXCEPT ![r] = "select"]
                /\ attempted' = [attempted EXCEPT ![r] = sum]
           ELSE /\ pc' = [pc EXCEPT ![r] = "refused"]
                /\ UNCHANGED attempted
    /\ UNCHANGED <<cooldown, probe, probes, cands, at, failure, last, out, failures>>

-----------------------------------------------------------------------------
(* The refresh and the clock.                                              *)

\* _discover asks the provider for the account's remaining quota ...
AskQuota ==
    /\ probe = "idle" /\ probes < MaxProbes
    /\ probe' = "asked"
    /\ probes' = probes + 1
    /\ UNCHANGED <<cooldown, pc, cands, at, failure, last, out, failures, attempted>>

\* ... and applies the answer to the cooldowns it finds when it arrives: a
\* spent quota is recorded, never shorter than it was, and a restored one lifts
\* its cooldown; no answer changes nothing.
ApplyQuota ==
    /\ probe = "asked"
    /\ LET s == <<QuotaProvider, "free">>
           kept == IF cooldown[s].reason = "quota" THEN Max({cooldown[s].left, Short}) ELSE Short
       IN  \/ cooldown' = [cooldown EXCEPT ![s] = [left |-> kept, reason |-> "quota"]]
           \/ /\ cooldown[s].reason = "quota"
              /\ cooldown' = [cooldown EXCEPT ![s] = NoCooldown]
           \/ UNCHANGED cooldown
    /\ probe' = "idle"
    /\ UNCHANGED <<probes, pc, cands, at, failure, last, out, failures, attempted>>

\* A request of another interface fails one of its models.
OtherRequestFails ==
    /\ \E m \in Contended, kind \in Failures \ {"local"} :
           MayReport(m, kind) /\ cooldown' = Cooled(m, kind)
    /\ UNCHANGED <<probe, probes, pc, cands, at, failure, last, out, failures, attempted>>

\* Time passes for the cooldowns; one that has run out is as good as none.
Tick ==
    /\ \E s \in Scopes : cooldown[s].left > 0
    /\ cooldown' = [s \in Scopes |->
                       IF cooldown[s].left > 1 THEN [cooldown[s] EXCEPT !.left = @ - 1]
                       ELSE NoCooldown]
    /\ UNCHANGED <<probe, probes, pc, cands, at, failure, last, out, failures, attempted>>

-----------------------------------------------------------------------------

Step(r) ==
    \/ Select(r) \/ Output(r) \/ StreamEnds(r) \/ CloseTimesOut(r) \/ Succeed(r)
    \/ Fail(r) \/ NextRound(r)

Next == (\E r \in Requests : Step(r)) \/ AskQuota \/ ApplyQuota \/ OtherRequestFails \/ Tick

\* Every request goes on: provider streams end, by their progress timeout at
\* the latest.  Neither the clock nor the refresh is relied on.
Fairness == \A r \in Requests : WF_vars(Step(r))

Spec == Init /\ [][Next]_vars /\ Fairness

-----------------------------------------------------------------------------

\* The client sees the output of one model only: once it has seen some, the
\* request stays with that candidate and is never offered another round.
OneModelAnswers ==
    \A r \in Requests :
        out[r] # NoModel =>
            /\ pc[r] \in {"flow", "close", "done", "failed"}
            /\ pc[r] \in {"flow", "close"} => cands[r][at[r]] = out[r]

\* Whatever failures reorder, no candidate of a round is tried twice or lost,
\* and nothing paid is tried before what is free, the manual choice excepted.
FallbackIsFair ==
    \A r \in Requests : pc[r] \in {"read", "flow", "close"} =>
        LET s == cands[r]
            others == {i \in 1 .. Len(s) : s[i] # Selected}
        IN  /\ IsInjective(s)
            /\ \A i, j \in others : i < j => ~(Billing[s[i]] = "paid" /\ Billing[s[j]] = "free")

\* Fallback takes one model after another, and none out of turn.
FallbackIsOrderly == OneModelAnswers /\ FallbackIsFair

\* A large catalog starves no fallback: a selection uses all the room there is,
\* has a candidate of every billing category with an eligible model, and, within
\* the free ones, the manual choice aside, as many providers as fit.
RoomIsReserved ==
    [][\A r \in Requests : pc[r] = "select" /\ pc'[r] = "read" =>
        LET chosen == ToSet(cands'[r])
            free(S) == {m \in S \ {Selected} : Billing[m] = "free"}
            providers(S) == {Provider[m] : m \in S}
        IN  /\ Cardinality(chosen) = Min({MaxCandidates, Cardinality(Eligible(r))})
            /\ {Billing[m] : m \in chosen} = {Billing[m] : m \in Eligible(r)}
            /\ \/ providers(free(chosen)) = providers(free(Eligible(r)))
               \/ Cardinality(providers(free(chosen))) = Cardinality(free(chosen))
      ]_vars

-----------------------------------------------------------------------------
(* The inductive invariant of both.                                        *)

ConstantsOK ==
    /\ IsFiniteSet(Models) /\ NoModel \notin Models
    /\ DOMAIN Provider = Models
    /\ Billing \in [Models -> {"free", "paid"}]
    /\ \A order \in Orders : /\ order \in Seq(Models) /\ IsInjective(order)
                             /\ ToSet(order) = Models
    /\ Contended \subseteq Models
    /\ QuotaProvider \in Providers
    /\ Limit \in Nat \ {0} /\ MaxProbes \in Nat
    /\ MaxCandidates \in Nat /\ MaxCandidates >= 3
    /\ Short \in Nat \ {0} /\ Long \in Nat /\ Short <= Long

Walking(r) == pc[r] \in {"read", "flow", "close"}

\* A walk is at one of its candidates, and that one's provider may still fail.
WalkIsWithin ==
    \A r \in Requests :
        Walking(r) =>
            /\ at[r] \in 1 .. Len(cands[r]) /\ Len(cands[r]) <= MaxCandidates
            /\ Allows(failures[r], Provider[cands[r][at[r]]])

\* The manual choice comes first or not at all.
ChoiceIsFirst ==
    \A r \in Requests : Walking(r) => \A i \in 2 .. Len(cands[r]) : cands[r][i] # Selected

\* The stream that flows is that of the model that answers, and a stream that is
\* closed has ended in some way.
StreamIsTold ==
    \A r \in Requests :
        /\ pc[r] = "flow" => out[r] # NoModel
        /\ pc[r] = "close" => failure[r] # "none"

IInv ==
    /\ TypeOK /\ FallbackIsOrderly /\ WalkIsWithin /\ ChoiceIsFirst /\ StreamIsTold

\* Every request is answered, fails or is refused.
Routed == \A r \in Requests : pc[r] \in {"done", "failed", "refused"}
RoutingEnds == <>[]Routed
=============================================================================
