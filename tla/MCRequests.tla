----------------------------- MODULE MCRequests -----------------------------
(***************************************************************************)
(* The path of an HTTP request, one instance of each part for TLC: the     *)
(* request and its response, routing over the free models, the sliding     *)
(* window of a provider, and the stream of one of its answers.  They share *)
(* no state: a behaviour runs the one that was chosen in its initial       *)
(* state.                                                                  *)
(***************************************************************************)
EXTENDS RateWindow, TLC

CONSTANTS
    a1, a2, b1, ap, A, B,                               \* routing: models, providers
    Requests, Models, Provider, Billing, Orders, Selected, NoModel, Contended,
    QuotaProvider, FailureLimit, MaxCandidates, Short, Long, MaxProbes,
    Clients, NoRequest, MaxWaiting, MaxRounds,          \* requests
    MaxAttempts, MaxCorrections, MaxChunks, MaxTools    \* chat

VARIABLES
    part,
    routeCooldown, routeProbe, routeProbes, routePc, routeCands, routeAt,
    routeFailure, routeLast, routeOut, routeFailures, routeAttempted,
    reqApp, reqTry, reqMaker, reqMake, reqFate, reqResp, reqLate, reqHeld,
    reqOpen, reqLeft, reqStopped, reqExpired, reqInside, reqWaiting,
    reqRefresher, reqAttempts,
    chatApi, chatPc, chatLeft, chatCorrected, chatEpoch, chatChunks, chatOut,
    chatHeld, chatCommitted, chatSeen

routeVars == <<
    routeCooldown, routeProbe, routeProbes, routePc, routeCands, routeAt,
    routeFailure, routeLast, routeOut, routeFailures, routeAttempted>>
requestVars == <<
    reqApp, reqTry, reqMaker, reqMake, reqFate, reqResp, reqLate, reqHeld,
    reqOpen, reqLeft, reqStopped, reqExpired, reqInside, reqWaiting,
    reqRefresher, reqAttempts>>
chatVars == <<
    chatApi, chatPc, chatLeft, chatCorrected, chatEpoch, chatChunks, chatOut,
    chatHeld, chatCommitted, chatSeen>>

\* Two free models and a paid one, of two providers; a second free model of the
\* first comes before the other provider's.
MCProvider == a1 :> A @@ a2 :> A @@ b1 :> B @@ ap :> B
MCBilling == a1 :> "free" @@ a2 :> "free" @@ b1 :> "free" @@ ap :> "paid"
MCOrders == {<<a1, a2, b1, ap>>}

Routing == INSTANCE FreeRouting WITH
    Limit <- FailureLimit, cooldown <- routeCooldown, probe <- routeProbe,
    probes <- routeProbes, pc <- routePc, cands <- routeCands, at <- routeAt,
    failure <- routeFailure, last <- routeLast, out <- routeOut,
    failures <- routeFailures, attempted <- routeAttempted

Lifetime == INSTANCE RequestLifetime WITH
    Requests <- Clients, MaxAttempts <- MaxRounds, app <- reqApp,
    try <- reqTry, maker <- reqMaker, make <- reqMake, fate <- reqFate,
    resp <- reqResp, late <- reqLate, held <- reqHeld, open <- reqOpen,
    left <- reqLeft, stopped <- reqStopped, expired <- reqExpired,
    inside <- reqInside, waiting <- reqWaiting, refresher <- reqRefresher,
    attempts <- reqAttempts

Chat == INSTANCE ChatStream WITH
    api <- chatApi, pc <- chatPc, left <- chatLeft,
    corrected <- chatCorrected, epoch <- chatEpoch, chunks <- chatChunks,
    out <- chatOut, held <- chatHeld, committed <- chatCommitted,
    seen <- chatSeen

ASSUME PathAssumption == Lifetime!ConstantsOK /\ Routing!ConstantsOK /\ Chat!ConstantsOK

MCInit ==
    /\ part \in {"request", "routing", "chat", "window"}
    /\ Lifetime!Init /\ Chat!Init /\ Routing!Init /\ Init
    /\ part # "chat" => chatApi = "anthropic"

MCNext ==
    \/ part = "request" /\ Lifetime!Next /\ UNCHANGED <<part, routeVars, chatVars, vars>>
    \/ part = "routing" /\ Routing!Next /\ UNCHANGED <<part, requestVars, chatVars, vars>>
    \/ part = "chat" /\ Chat!Next /\ UNCHANGED <<part, requestVars, routeVars, vars>>
    \/ part = "window" /\ Next /\ UNCHANGED <<part, requestVars, routeVars, chatVars>>

MCVars == <<part, requestVars, routeVars, chatVars, vars>>

\* Fairness is that of the component that runs.
MCSpec ==
    /\ MCInit /\ [][MCNext]_MCVars
    /\ \A r \in Clients : WF_requestVars(part = "request" /\ Lifetime!Step(r))
    /\ \A r \in Requests : WF_routeVars(part = "routing" /\ Routing!Step(r))
    /\ WF_chatVars(part = "chat" /\ Chat!Next)

-----------------------------------------------------------------------------

\* The types of all of them.
TypesOK == TypeOK /\ Lifetime!TypeOK /\ Routing!TypeOK /\ Chat!TypeOK

\* See the components for what these say.
NothingIsLeaked   == Lifetime!NothingIsLeaked
FallbackIsOrderly == Routing!FallbackIsOrderly
RoomIsReserved    == Routing!RoomIsReserved
StreamIsWhole     == Chat!StreamIsWhole

\* Whatever the part, its requests end: RequestsEnd, RoutingEnds, StreamEnds.
RequestsSettle ==
    <>[]( /\ part = "request" => Lifetime!AllGone
          /\ part = "routing" => Routing!Routed
          /\ part = "chat" => Chat!Ended)
=============================================================================
