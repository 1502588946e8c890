--------------------------- MODULE RequestsProofs ---------------------------
(***************************************************************************)
(* What the parts of an HTTP request's path guarantee, for all values of   *)
(* their constants: the strict sliding window, requests and their          *)
(* responses, routing over the free models, and the stream of an answer.   *)
(***************************************************************************)
EXTENDS MCRequests, FoldLemmas, FiniteSetTheorems, WellFoundedInduction, TLAPS

(***************************************************************************)
(* The sliding window                                                      *)
(***************************************************************************)

\* Nothing leaves the deque while it is inside the window.
DroppedAreOld == \A i \in 1 .. dropped : history[i] + Window <= now

\* One task at a time is between the two readings of the clock, and the room
\* that it found is still there.
SectionIsExclusive ==
    \A t, u \in Tasks : pc[t] = "appending" /\ pc[u] = "appending" => t = u

SectionHasRoom ==
    \A t \in Tasks : pc[t] = "appending" => Len(history) - dropped < Limit

IInv == /\ TypeOK
        /\ StrictWindow
        /\ DroppedAreOld
        /\ SectionIsExclusive
        /\ SectionHasRoom

\* Dropping what is at or before the cutoff keeps DroppedAreOld.
LEMMA DropsAreOld ==
    ASSUME TypeOK, DroppedAreOld, NEW d \in dropped .. Len(history), DropsTo(d)
    PROVE  \A i \in 1 .. d : history[i] + Window <= now
<1> TAKE i \in 1 .. d
<1>1. CASE i \in 1 .. dropped
  BY <1>1 DEF DroppedAreOld
<1>2. CASE i \in dropped + 1 .. d
  BY <1>2 DEF DropsTo
<1> QED
  BY <1>1, <1>2 DEF TypeOK

\* What Admit, Refuse and Sleep have in common: they drop old entries, and a
\* task is in the section afterwards only if it found room.
LEMMA SectionKeepsIInv ==
    ASSUME WindowAssumption, IInv, NEW t \in Tasks, NEW d \in dropped .. Len(history),
           NEW place \in {"appending", "sleeping", "done"},
           SectionFree, DropsTo(d),
           dropped' = d,
           pc' = [pc EXCEPT ![t] = place],
           place = "appending" => Len(history) - d < Limit,
           history' = history,
           now' = now,
           wake' \in [Tasks -> Nat]
    PROVE  IInv'
<1>1. TypeOK'
  <2>1. pc' \in [Tasks -> {"trying", "appending", "sleeping", "done"}]
    BY DEF IInv, TypeOK
  <2>2. Len(history) \in Nat /\ d \in 0 .. Len(history)
    BY DEF IInv, TypeOK
  <2> QED
    BY <2>1, <2>2 DEF IInv, TypeOK
<1>2. StrictWindow'
  BY DEF IInv, StrictWindow
<1>3. DroppedAreOld'
  BY DropsAreOld DEF IInv, DroppedAreOld
<1>4. \A u \in Tasks : pc'[u] = "appending" => u = t /\ place = "appending"
  BY DEF SectionFree, IInv, TypeOK
<1>5. SectionIsExclusive'
  BY <1>4 DEF SectionIsExclusive
<1>6. SectionHasRoom'
  BY <1>4 DEF SectionHasRoom
<1> QED
  BY <1>1, <1>2, <1>3, <1>5, <1>6 DEF IInv

\* The acquisition that is recorded lies a window after the one Limit places
\* before it, because that one has been dropped.
LEMMA AppendKeepsIInv ==
    ASSUME WindowAssumption, IInv, NEW t \in Tasks, Append_(t)
    PROVE  IInv'
<1> USE DEF WindowAssumption
<1>1. /\ history' = Append(history, now)
      /\ Len(history') = Len(history) + 1
      /\ \A i \in 1 .. Len(history) : history'[i] = history[i]
      /\ history'[Len(history) + 1] = now
  BY DEF Append_, IInv, TypeOK
<1>2. TypeOK'
  BY <1>1 DEF Append_, IInv, TypeOK
<1>3. Len(history) - dropped < Limit
  BY DEF Append_, IInv, SectionHasRoom
<1>4. StrictWindow'
  <2> SUFFICES ASSUME NEW i \in 1 .. Len(history') - Limit
               PROVE  history'[i + Limit] >= history'[i] + Window
    BY DEF StrictWindow
  <2>1. CASE i + Limit <= Len(history)
    BY <1>1, <2>1 DEF IInv, StrictWindow, TypeOK
  <2>2. CASE i + Limit = Len(history) + 1
    <3>1. i \in 1 .. dropped
      BY <1>3, <2>2 DEF IInv, TypeOK
    <3>2. history[i] + Window <= now
      BY <3>1 DEF IInv, DroppedAreOld
    <3> QED
      BY <1>1, <2>2, <3>1, <3>2 DEF IInv, TypeOK
  <2>3. Len(history) \in Nat /\ i \in Int /\ i <= Len(history) + 1 - Limit
    BY <1>1 DEF IInv, TypeOK
  <2>4. i + Limit <= Len(history) \/ i + Limit = Len(history) + 1
    BY <2>3
  <2> QED
    BY <2>1, <2>2, <2>4
<1>5. DroppedAreOld'
  BY <1>1 DEF Append_, IInv, TypeOK, DroppedAreOld
<1>6. \A u \in Tasks : pc'[u] # "appending"
  BY DEF Append_, IInv, TypeOK, SectionIsExclusive
<1> QED
  BY <1>2, <1>4, <1>5, <1>6 DEF IInv, SectionIsExclusive, SectionHasRoom

LEMMA InitIInv == WindowAssumption /\ Init => IInv
BY DEF WindowAssumption, Init, IInv, TypeOK, StrictWindow, DroppedAreOld,
       SectionIsExclusive, SectionHasRoom

LEMMA NextIInv == WindowAssumption /\ IInv /\ [Next]_vars => IInv'
<1> SUFFICES ASSUME WindowAssumption, IInv, [Next]_vars
             PROVE  IInv'
  OBVIOUS
<1>1. ASSUME NEW t \in Tasks, Admit(t) PROVE IInv'
  <2>1. PICK d \in dropped .. Len(history) :
           DropsTo(d) /\ Len(history) - d < Limit /\ dropped' = d
    BY <1>1 DEF Admit
  <2> QED
    BY <1>1, <2>1, SectionKeepsIInv DEF Admit, IInv, TypeOK
<1>2. ASSUME NEW t \in Tasks, Refuse(t) PROVE IInv'
  <2>1. PICK d \in dropped .. Len(history) : DropsTo(d) /\ dropped' = d
    BY <1>2 DEF Refuse
  <2> QED
    BY <1>2, <2>1, SectionKeepsIInv DEF Refuse, IInv, TypeOK
<1>3. ASSUME NEW t \in Tasks, Sleep(t) PROVE IInv'
  <2>1. PICK d \in dropped .. Len(history) :
           /\ DropsTo(d)
           /\ Len(history) - d >= Limit
           /\ dropped' = d
           /\ wake' = [wake EXCEPT ![t] = history[d + 1] + Window]
    BY <1>3 DEF Sleep
  <2>2. history[d + 1] + Window \in Nat
    BY <2>1 DEF WindowAssumption, IInv, TypeOK
  <2>3. wake' \in [Tasks -> Nat]
    BY <2>1, <2>2 DEF IInv, TypeOK
  <2> QED
    BY <1>3, <2>1, <2>3, SectionKeepsIInv DEF Sleep
<1>4. ASSUME NEW t \in Tasks, Append_(t) PROVE IInv'
  BY <1>4, AppendKeepsIInv
<1>5. ASSUME NEW t \in Tasks, Wake(t) \/ CancelSleep(t) PROVE IInv'
  BY <1>5 DEF Wake, CancelSleep, IInv, TypeOK, StrictWindow, DroppedAreOld,
              SectionIsExclusive, SectionHasRoom
<1>6. CASE Tick
  BY <1>6 DEF Tick, WindowAssumption, IInv, TypeOK, StrictWindow, DroppedAreOld,
              SectionIsExclusive, SectionHasRoom
<1>7. CASE UNCHANGED vars
  BY <1>7 DEF vars, IInv, TypeOK, StrictWindow, DroppedAreOld,
              SectionIsExclusive, SectionHasRoom
<1> QED
  BY <1>1, <1>2, <1>3, <1>4, <1>5, <1>6, <1>7 DEF Next

\* "At most rate_limit acquisitions in any interval of length rate_window"
\* (the class docstring), for every history the limiter can produce.
THEOREM WindowIsStrict == Spec => []StrictWindow
<1>1. Init => IInv
  BY InitIInv, WindowAssumption
<1>2. IInv /\ [Next]_vars => IInv'
  BY NextIInv, WindowAssumption
<1>3. IInv => StrictWindow
  BY DEF IInv
<1> QED
  BY <1>1, <1>2, <1>3, PTL DEF Spec

LEMMA WindowMove == [MCNext]_MCVars => [Next]_vars
BY DEF MCNext, MCVars

\* The same on the whole path.
THEOREM PathWindowIsStrict == MCSpec => []StrictWindow
<1>1. MCInit => IInv
  BY InitIInv, WindowAssumption DEF MCInit
<1>2. IInv /\ [MCNext]_MCVars => IInv'
  BY NextIInv, WindowMove, WindowAssumption
<1>3. IInv => StrictWindow
  BY DEF IInv
<1> QED
  BY <1>1, <1>2, <1>3, PTL DEF MCSpec

\* Everything recent is still in the deque.
LEMMA RecentIsFew ==
    ASSUME IInv
    PROVE  /\ IsFiniteSet(Recent) /\ Cardinality(Recent) \in Nat
           /\ Cardinality(Recent) <= Len(history) - dropped
           /\ Recent \subseteq 1 .. Len(history)
<1>1. Len(history) \in Nat /\ dropped \in 0 .. Len(history)
    BY DEF IInv, TypeOK
<1>2. Recent \subseteq dropped + 1 .. Len(history)
    <2> SUFFICES ASSUME NEW i \in 1 .. Len(history), history[i] + Window > now
                 PROVE  i \in dropped + 1 .. Len(history)
        BY DEF Recent
    <2>1. history[i] \in Nat /\ now \in Nat /\ Window \in Nat
        BY WindowAssumption DEF IInv, TypeOK, WindowAssumption
    <2>2. i \notin 1 .. dropped
        BY <2>1 DEF IInv, DroppedAreOld
    <2> QED
        BY <1>1, <2>2
<1>3. /\ IsFiniteSet(dropped + 1 .. Len(history))
      /\ Cardinality(dropped + 1 .. Len(history)) = Len(history) - dropped
    <2>1. dropped + 1 \in Int /\ Len(history) \in Int /\ (dropped + 1 > Len(history) => Len(history) - dropped = 0)
          /\ Len(history) - (dropped + 1) + 1 = Len(history) - dropped
        BY <1>1
    <2> QED
        BY <2>1, FS_Interval
<1>4. Recent \subseteq 1 .. Len(history)
    BY DEF Recent
<1> QED
    BY <1>2, <1>3, <1>4, FS_Subset, FS_CardinalityType

\* A step of the limiter admits within the quota, lets time pass, or is none of
\* the quota's business.
LEMMA QuotaStep ==
    ASSUME IInv, [Next]_vars
    PROVE  [Quota!Admit \/ Quota!Slide]_(Cardinality(Recent))
<1>1. ASSUME NEW t \in Tasks, Append_(t) PROVE Quota!Admit
    <2>1. /\ Len(history) \in Nat /\ history \in Seq(Nat) /\ now \in Nat /\ now' = now
          /\ history' = Append(history, now) /\ Window \in Nat \ {0}
        BY <1>1, WindowAssumption DEF Append_, IInv, TypeOK, WindowAssumption
    <2>2. /\ Len(history') = Len(history) + 1
          /\ \A i \in 1 .. Len(history) : history'[i] = history[i]
          /\ history'[Len(history) + 1] = now
        BY <2>1
    <2>3. Recent' = Recent \cup {Len(history) + 1}
        BY <2>1, <2>2 DEF Recent
    <2>4. Len(history) + 1 \notin Recent
        BY <2>1 DEF Recent
    <2>5. Cardinality(Recent') = Cardinality(Recent) + 1
        BY <2>3, <2>4, RecentIsFew, FS_AddElement
    <2>6. Len(history) - dropped < Limit
        BY <1>1 DEF Append_, IInv, SectionHasRoom
    <2>7. Cardinality(Recent) < Limit
        BY <2>1, <2>6, RecentIsFew, WindowAssumption DEF WindowAssumption, IInv, TypeOK
    <2> QED
        BY <2>5, <2>7 DEF Quota!Admit
<1>2. CASE Tick
    <2>1. Recent' \subseteq Recent
        <3>1. /\ now \in Nat /\ history \in Seq(Nat) /\ Window \in Nat
              /\ now' = now + 1 /\ history' = history
            BY <1>2, WindowAssumption DEF Tick, IInv, TypeOK, WindowAssumption
        <3> QED
            BY <3>1 DEF Recent
    <2>2. /\ IsFiniteSet(Recent') /\ Cardinality(Recent') \in Nat
          /\ Cardinality(Recent') <= Cardinality(Recent)
        BY <2>1, RecentIsFew, FS_Subset, FS_CardinalityType
    <2>3. CASE Cardinality(Recent') = Cardinality(Recent)
        BY <2>3
    <2>4. CASE Cardinality(Recent') # Cardinality(Recent)
        <3>1. /\ Cardinality(Recent) > 0
              /\ Cardinality(Recent') \in 0 .. Cardinality(Recent) - 1
            BY <2>2, <2>4, RecentIsFew
        <3> QED
            BY <3>1 DEF Quota!Slide
    <2> QED
        BY <2>3, <2>4
<1>3. ASSUME UNCHANGED <<now, history>> PROVE Cardinality(Recent)' = Cardinality(Recent)
    BY <1>3 DEF Recent
<1>4. ASSUME NEW t \in Tasks, Admit(t) \/ Refuse(t) \/ Sleep(t) \/ Wake(t) \/ CancelSleep(t)
      PROVE  UNCHANGED <<now, history>>
    BY <1>4 DEF Admit, Refuse, Sleep, Wake, CancelSleep
<1> QED
    BY <1>1, <1>2, <1>3, <1>4 DEF Next, vars

\* The limiter with its clock implements the counter by which ProviderAdmission
\* knows it: it admits only while fewer than rate_limit acquisitions are recent.
THEOREM WindowImplementsQuota == MCSpec => ImplementsQuota
<1>1. MCInit => IInv /\ Quota!Init
    <2> SUFFICES ASSUME MCInit PROVE IInv /\ Quota!Init
        OBVIOUS
    <2>1. IInv
        BY InitIInv, WindowAssumption DEF MCInit
    <2>2. Recent = {}
        BY DEF MCInit, Init, Recent
    <2> QED
        BY <2>1, <2>2, FS_EmptySet DEF Quota!Init
<1>2. IInv /\ [MCNext]_MCVars => IInv'
    BY NextIInv, WindowMove, WindowAssumption
<1>3. IInv /\ [MCNext]_MCVars => [Quota!Admit \/ Quota!Slide]_(Cardinality(Recent))
    BY QuotaStep, WindowMove
<1> QED
    BY <1>1, <1>2, <1>3, PTL DEF MCSpec, ImplementsQuota, Quota!Spec

(***************************************************************************)
(* Requests and their responses                                            *)
(***************************************************************************)

LEMMA LifetimeConstants ==
    /\ Lifetime!IsFiniteSet(Clients) /\ NoRequest \notin Clients
    /\ MaxWaiting \in Nat /\ MaxRounds \in Nat \ {0}
BY PathAssumption DEF Lifetime!ConstantsOK

\* The instance counts as FiniteSets does.
LEMMA SameCount ==
    \A S : (Lifetime!IsFiniteSet(S) <=> IsFiniteSet(S)) /\ Lifetime!Cardinality(S) = Cardinality(S)
BY DEF Lifetime!IsFiniteSet, Lifetime!Cardinality, IsFiniteSet, Cardinality

\* The waiting room: a set of clients is finite, and grows and shrinks by one.
LEMMA CountOfClients ==
    /\ Lifetime!Cardinality(Clients) \in Nat
    /\ \A S \in SUBSET Clients :
          /\ Lifetime!IsFiniteSet(S) /\ Lifetime!Cardinality(S) \in Nat /\ Lifetime!Cardinality(S) <= Lifetime!Cardinality(Clients)
          /\ \A r \in Clients : r \notin S =>
                /\ Lifetime!Cardinality(S \cup {r}) = Lifetime!Cardinality(S) + 1
                /\ Lifetime!Cardinality(S \cup {r}) <= Lifetime!Cardinality(Clients)
          /\ \A r \in S :
                /\ Lifetime!Cardinality(S \ {r}) = Lifetime!Cardinality(S) - 1
                /\ Lifetime!Cardinality(S \ {r}) \in Nat
<1>1. Lifetime!IsFiniteSet(Clients) /\ Lifetime!Cardinality(Clients) \in Nat
    BY LifetimeConstants, FS_CardinalityType, SameCount
<1>2. ASSUME NEW S \in SUBSET Clients
      PROVE  Lifetime!IsFiniteSet(S) /\ Lifetime!Cardinality(S) \in Nat /\ Lifetime!Cardinality(S) <= Lifetime!Cardinality(Clients)
    BY <1>1, FS_Subset, FS_CardinalityType, SameCount
<1>3. ASSUME NEW S \in SUBSET Clients, NEW r \in Clients, r \notin S
      PROVE  /\ Lifetime!Cardinality(S \cup {r}) = Lifetime!Cardinality(S) + 1
             /\ Lifetime!Cardinality(S \cup {r}) <= Lifetime!Cardinality(Clients)
    <2>1. S \cup {r} \in SUBSET Clients
        OBVIOUS
    <2> QED
        BY <1>2, <1>3, <2>1, FS_AddElement, SameCount
<1>4. ASSUME NEW S \in SUBSET Clients, NEW r \in S
      PROVE  Lifetime!Cardinality(S \ {r}) = Lifetime!Cardinality(S) - 1 /\ Lifetime!Cardinality(S \ {r}) \in Nat
    <2>1. S \ {r} \in SUBSET Clients
        OBVIOUS
    <2> QED
        BY <1>2, <1>4, <2>1, FS_RemoveElement, SameCount
<1> QED
    BY <1>1, <1>2, <1>3, <1>4

LEMMA LifetimeInit == Lifetime!Init => Lifetime!IInv
<1> SUFFICES ASSUME Lifetime!Init PROVE Lifetime!IInv
    OBVIOUS
<1> USE LifetimeConstants DEF Lifetime!Init
<1>1. Lifetime!TasksOK /\ Lifetime!AnswersOK /\ Lifetime!FlagsOK
    BY DEF Lifetime!TasksOK, Lifetime!AnswersOK, Lifetime!FlagsOK, Lifetime!Kinds
<1>2. Lifetime!CountsOK
    BY CountOfClients DEF Lifetime!CountsOK
<1>3. Lifetime!OneMaker /\ Lifetime!AttemptsAreInside /\ Lifetime!StreamsAreAlone
    BY DEF Lifetime!OneMaker, Lifetime!AttemptsAreInside, Lifetime!StreamsAreAlone
<1>4. Lifetime!OwnedOnce
    BY DEF Lifetime!OwnedOnce, Lifetime!HasLease, Lifetime!HasBody, Lifetime!HasStream
<1>5. Lifetime!RoomIsCounted
    <2>1. {r \in Clients : reqInside[r]} = {}
        OBVIOUS
    <2> QED
        BY <2>1, FS_EmptySet, SameCount DEF Lifetime!RoomIsCounted
<1> QED
    BY <1>1, <1>2, <1>3, <1>4, <1>5 DEF Lifetime!IInv, Lifetime!TypeOK

\* While a task of the request is inside create(), no response of it is a
\* stream yet.
LEMMA MakingIsAlone ==
    ASSUME Lifetime!IInv, NEW r \in Clients, reqMake[r] # "idle"
    PROVE  /\ ~Lifetime!HasStream(r) /\ reqLate[r] = "none" /\ reqApp[r] \notin {"gone", "dispose"}
           /\ reqMaker[r] = "app" => reqTry[r] = "none" /\ ~reqInside[r] /\ reqApp[r] = "create"
           /\ reqMaker[r] = "try" => reqTry[r] = "create" /\ reqInside[r]
BY DEF Lifetime!IInv, Lifetime!TypeOK, Lifetime!TasksOK, Lifetime!AnswersOK, Lifetime!OneMaker,
    Lifetime!AttemptsAreInside, Lifetime!StreamsAreAlone, Lifetime!HasStream

\* The room is as full as it was.
LEMMA RoomStays ==
    ASSUME Lifetime!IInv, UNCHANGED <<reqInside, reqWaiting>>
    PROVE  Lifetime!RoomIsCounted'
BY DEF Lifetime!IInv, Lifetime!RoomIsCounted


\* create() ends: whatever it returns, its lease and its body go where the
\* result goes.
LEMMA ProducedKeeps ==
    ASSUME Lifetime!IInv, NEW r \in Clients, NEW kind \in Lifetime!Kinds \ {"none"}, Lifetime!Produced(r, kind),
           reqMake[r] # "idle",
           reqHeld' = [reqHeld EXCEPT ![r] = IF kind = "stream" THEN 1 ELSE 0],
           reqOpen' = [reqOpen EXCEPT ![r] = IF kind = "stream" THEN 1 ELSE 0],
           UNCHANGED <<reqMaker, reqLeft, reqStopped, reqExpired, reqInside, reqWaiting,
                       reqRefresher, reqAttempts>>
    PROVE  Lifetime!IInv'
<1> USE LifetimeConstants
<1>a. Lifetime!TasksOK
    BY DEF Lifetime!IInv, Lifetime!TypeOK
<1>b. Lifetime!AnswersOK
    BY DEF Lifetime!IInv, Lifetime!TypeOK
<1>c. Lifetime!CountsOK
    BY DEF Lifetime!IInv, Lifetime!TypeOK
<1>d. Lifetime!FlagsOK
    BY DEF Lifetime!IInv, Lifetime!TypeOK
<1>e. Lifetime!OneMaker
    BY DEF Lifetime!IInv, Lifetime!TypeOK
<1>f. Lifetime!AttemptsAreInside
    BY DEF Lifetime!IInv, Lifetime!TypeOK
<1>g. Lifetime!StreamsAreAlone
    BY DEF Lifetime!IInv, Lifetime!TypeOK
<1>h. Lifetime!OwnedOnce
    BY DEF Lifetime!IInv, Lifetime!TypeOK
<1>i. Lifetime!RoomIsCounted
    BY DEF Lifetime!IInv, Lifetime!TypeOK
<1>1. /\ reqMake' = [reqMake EXCEPT ![r] = "idle"]
      /\ reqFate' = [reqFate EXCEPT ![r] = "none"]
      /\ reqMaker[r] = "app" =>
            /\ reqApp' = [reqApp EXCEPT ![r] = reqApp'[r]]
            /\ reqApp'[r] \in {"gone", "offered", "send"}
            /\ reqApp'[r] = "gone" => kind # "stream"
            /\ reqApp'[r] = "offered" => kind = "safe"
            /\ kind = "stream" => reqApp'[r] = "send"
            /\ reqResp' = [reqResp EXCEPT ![r] = kind]
            /\ UNCHANGED <<reqTry, reqLate>>
      /\ reqMaker[r] # "app" =>
            /\ reqTry' = [reqTry EXCEPT ![r] = "done"]
            /\ reqLate' = [reqLate EXCEPT ![r] = kind]
            /\ UNCHANGED <<reqApp, reqResp>>
    BY DEF Lifetime!Produced, Lifetime!IInv, Lifetime!TypeOK, Lifetime!TasksOK
<1>x. /\ ~Lifetime!HasStream(r) /\ reqLate[r] = "none" /\ reqApp[r] \notin {"gone", "dispose"}
      /\ reqMaker[r] = "app" => reqTry[r] = "none" /\ ~reqInside[r] /\ reqApp[r] = "create"
      /\ reqMaker[r] = "try" => reqTry[r] = "create" /\ reqInside[r]
    BY MakingIsAlone
<1>2. Lifetime!TasksOK'
    BY <1>1, <1>a, <1>x DEF Lifetime!TasksOK
<1>3. Lifetime!AnswersOK'
    BY <1>1, <1>a, <1>b, <1>e, <1>x DEF Lifetime!TasksOK, Lifetime!AnswersOK, Lifetime!Kinds,
        Lifetime!OneMaker
<1>4. Lifetime!CountsOK'
    BY <1>1, <1>a, <1>c, <1>f, <1>g, <1>h, <1>x DEF Lifetime!TasksOK, Lifetime!CountsOK,
        Lifetime!AttemptsAreInside, Lifetime!StreamsAreAlone, Lifetime!OwnedOnce,
        Lifetime!HasLease, Lifetime!HasBody, Lifetime!HasStream
<1>5. Lifetime!FlagsOK'
    BY <1>1, <1>a, <1>d, <1>x DEF Lifetime!TasksOK, Lifetime!FlagsOK
<1>6. Lifetime!OneMaker'
    BY <1>1, <1>a, <1>b, <1>e, <1>f, <1>x DEF Lifetime!TasksOK, Lifetime!AnswersOK,
        Lifetime!Kinds, Lifetime!OneMaker, Lifetime!AttemptsAreInside
<1>7. Lifetime!AttemptsAreInside'
    BY <1>1, <1>a, <1>b, <1>c, <1>d, <1>e, <1>f, <1>g, <1>x DEF Lifetime!TasksOK,
        Lifetime!AnswersOK, Lifetime!Kinds, Lifetime!CountsOK, Lifetime!FlagsOK,
        Lifetime!OneMaker, Lifetime!AttemptsAreInside, Lifetime!StreamsAreAlone
<1>8. Lifetime!StreamsAreAlone'
    BY <1>1, <1>a, <1>b, <1>e, <1>f, <1>g, <1>x DEF Lifetime!TasksOK, Lifetime!AnswersOK,
        Lifetime!Kinds, Lifetime!OneMaker, Lifetime!AttemptsAreInside, Lifetime!StreamsAreAlone
<1>9. Lifetime!OwnedOnce'
    BY <1>1, <1>a, <1>b, <1>c, <1>e, <1>f, <1>g, <1>h, <1>x DEF Lifetime!TasksOK,
        Lifetime!AnswersOK, Lifetime!Kinds, Lifetime!CountsOK, Lifetime!OneMaker,
        Lifetime!AttemptsAreInside, Lifetime!StreamsAreAlone, Lifetime!OwnedOnce,
        Lifetime!HasLease, Lifetime!HasBody, Lifetime!HasStream
<1>10. Lifetime!RoomIsCounted'
    BY <1>1, RoomStays
<1> QED
    BY <1>2, <1>3, <1>4, <1>5, <1>6, <1>7, <1>8, <1>9, <1>10 DEF Lifetime!IInv, Lifetime!TypeOK

\* The lease is granted.
LEMMA LeaseGranted ==
    ASSUME Lifetime!IInv, NEW r \in Clients, reqMake[r] = "acquiring",
           reqMake' = [reqMake EXCEPT ![r] = "handling"],
           reqHeld' = [reqHeld EXCEPT ![r] = @ + 1],
           UNCHANGED <<reqApp, reqTry, reqMaker, reqFate, reqResp, reqLate, reqOpen, reqLeft,
                       reqStopped, reqExpired, reqInside, reqWaiting, reqRefresher, reqAttempts>>
    PROVE  Lifetime!IInv'
<1> USE LifetimeConstants
<1>a. Lifetime!TasksOK
    BY DEF Lifetime!IInv, Lifetime!TypeOK
<1>b. Lifetime!AnswersOK
    BY DEF Lifetime!IInv, Lifetime!TypeOK
<1>c. Lifetime!CountsOK
    BY DEF Lifetime!IInv, Lifetime!TypeOK
<1>d. Lifetime!FlagsOK
    BY DEF Lifetime!IInv, Lifetime!TypeOK
<1>e. Lifetime!OneMaker
    BY DEF Lifetime!IInv, Lifetime!TypeOK
<1>f. Lifetime!AttemptsAreInside
    BY DEF Lifetime!IInv, Lifetime!TypeOK
<1>g. Lifetime!StreamsAreAlone
    BY DEF Lifetime!IInv, Lifetime!TypeOK
<1>h. Lifetime!OwnedOnce
    BY DEF Lifetime!IInv, Lifetime!TypeOK
<1>i. Lifetime!RoomIsCounted
    BY DEF Lifetime!IInv, Lifetime!TypeOK
<1>1. /\ reqMake[r] = "acquiring"
      /\ reqMake' = [reqMake EXCEPT ![r] = "handling"]
      /\ reqHeld' = [reqHeld EXCEPT ![r] = @ + 1]
      /\ UNCHANGED <<reqApp, reqTry, reqMaker, reqFate, reqResp, reqLate, reqOpen,
                       reqLeft, reqStopped, reqExpired, reqInside, reqWaiting,
                       reqRefresher, reqAttempts>>
    OBVIOUS
<1>x. /\ ~Lifetime!HasStream(r) /\ reqLate[r] = "none"
    BY <1>1, MakingIsAlone
<1>2. Lifetime!TasksOK'
    BY <1>1, <1>a, <1>x DEF Lifetime!TasksOK
<1>3. Lifetime!AnswersOK'
    BY <1>1, <1>a, <1>b, <1>e, <1>x DEF Lifetime!TasksOK, Lifetime!AnswersOK, Lifetime!Kinds,
        Lifetime!OneMaker
<1>4. Lifetime!CountsOK'
    BY <1>1, <1>a, <1>c, <1>f, <1>g, <1>h, <1>x DEF Lifetime!TasksOK, Lifetime!CountsOK,
        Lifetime!AttemptsAreInside, Lifetime!StreamsAreAlone, Lifetime!OwnedOnce,
        Lifetime!HasLease, Lifetime!HasBody, Lifetime!HasStream
<1>5. Lifetime!FlagsOK'
    BY <1>1, <1>a, <1>d, <1>x DEF Lifetime!TasksOK, Lifetime!FlagsOK
<1>6. Lifetime!OneMaker'
    BY <1>1, <1>a, <1>b, <1>e, <1>f, <1>x DEF Lifetime!TasksOK, Lifetime!AnswersOK,
        Lifetime!Kinds, Lifetime!OneMaker, Lifetime!AttemptsAreInside
<1>7. Lifetime!AttemptsAreInside'
    BY <1>1, <1>a, <1>b, <1>c, <1>d, <1>e, <1>f, <1>g, <1>x DEF Lifetime!TasksOK,
        Lifetime!AnswersOK, Lifetime!Kinds, Lifetime!CountsOK, Lifetime!FlagsOK,
        Lifetime!OneMaker, Lifetime!AttemptsAreInside, Lifetime!StreamsAreAlone
<1>8. Lifetime!StreamsAreAlone'
    BY <1>1, <1>a, <1>b, <1>e, <1>f, <1>g, <1>x DEF Lifetime!TasksOK, Lifetime!AnswersOK,
        Lifetime!Kinds, Lifetime!OneMaker, Lifetime!AttemptsAreInside, Lifetime!StreamsAreAlone
<1>9. Lifetime!OwnedOnce'
    BY <1>1, <1>a, <1>b, <1>c, <1>e, <1>f, <1>g, <1>h, <1>x DEF Lifetime!TasksOK,
        Lifetime!AnswersOK, Lifetime!Kinds, Lifetime!CountsOK, Lifetime!OneMaker,
        Lifetime!AttemptsAreInside, Lifetime!StreamsAreAlone, Lifetime!OwnedOnce,
        Lifetime!HasLease, Lifetime!HasBody, Lifetime!HasStream
<1>10. Lifetime!RoomIsCounted'
    BY <1>1, RoomStays
<1> QED
    BY <1>2, <1>3, <1>4, <1>5, <1>6, <1>7, <1>8, <1>9, <1>10 DEF Lifetime!IInv, Lifetime!TypeOK

\* The body is opened.
LEMMA OpenBodyKeeps == ASSUME Lifetime!IInv, NEW r \in Clients, Lifetime!OpenBody(r) PROVE Lifetime!IInv'
<1> USE LifetimeConstants
<1>a. Lifetime!TasksOK
    BY DEF Lifetime!IInv, Lifetime!TypeOK
<1>b. Lifetime!AnswersOK
    BY DEF Lifetime!IInv, Lifetime!TypeOK
<1>c. Lifetime!CountsOK
    BY DEF Lifetime!IInv, Lifetime!TypeOK
<1>d. Lifetime!FlagsOK
    BY DEF Lifetime!IInv, Lifetime!TypeOK
<1>e. Lifetime!OneMaker
    BY DEF Lifetime!IInv, Lifetime!TypeOK
<1>f. Lifetime!AttemptsAreInside
    BY DEF Lifetime!IInv, Lifetime!TypeOK
<1>g. Lifetime!StreamsAreAlone
    BY DEF Lifetime!IInv, Lifetime!TypeOK
<1>h. Lifetime!OwnedOnce
    BY DEF Lifetime!IInv, Lifetime!TypeOK
<1>i. Lifetime!RoomIsCounted
    BY DEF Lifetime!IInv, Lifetime!TypeOK
<1>1. /\ reqMake[r] = "handling"
      /\ reqMake' = [reqMake EXCEPT ![r] = "reading"]
      /\ reqOpen' = [reqOpen EXCEPT ![r] = @ + 1]
      /\ UNCHANGED <<reqApp, reqTry, reqMaker, reqFate, reqResp, reqLate, reqHeld,
                       reqLeft, reqStopped, reqExpired, reqInside, reqWaiting,
                       reqRefresher, reqAttempts>>
    BY DEF Lifetime!OpenBody
<1>x. /\ ~Lifetime!HasStream(r) /\ reqLate[r] = "none"
    BY <1>1, MakingIsAlone
<1>2. Lifetime!TasksOK'
    BY <1>1, <1>a, <1>x DEF Lifetime!TasksOK
<1>3. Lifetime!AnswersOK'
    BY <1>1, <1>a, <1>b, <1>e, <1>x DEF Lifetime!TasksOK, Lifetime!AnswersOK, Lifetime!Kinds,
        Lifetime!OneMaker
<1>4. Lifetime!CountsOK'
    BY <1>1, <1>a, <1>c, <1>f, <1>g, <1>h, <1>x DEF Lifetime!TasksOK, Lifetime!CountsOK,
        Lifetime!AttemptsAreInside, Lifetime!StreamsAreAlone, Lifetime!OwnedOnce,
        Lifetime!HasLease, Lifetime!HasBody, Lifetime!HasStream
<1>5. Lifetime!FlagsOK'
    BY <1>1, <1>a, <1>d, <1>x DEF Lifetime!TasksOK, Lifetime!FlagsOK
<1>6. Lifetime!OneMaker'
    BY <1>1, <1>a, <1>b, <1>e, <1>f, <1>x DEF Lifetime!TasksOK, Lifetime!AnswersOK,
        Lifetime!Kinds, Lifetime!OneMaker, Lifetime!AttemptsAreInside
<1>7. Lifetime!AttemptsAreInside'
    BY <1>1, <1>a, <1>b, <1>c, <1>d, <1>e, <1>f, <1>g, <1>x DEF Lifetime!TasksOK,
        Lifetime!AnswersOK, Lifetime!Kinds, Lifetime!CountsOK, Lifetime!FlagsOK,
        Lifetime!OneMaker, Lifetime!AttemptsAreInside, Lifetime!StreamsAreAlone
<1>8. Lifetime!StreamsAreAlone'
    BY <1>1, <1>a, <1>b, <1>e, <1>f, <1>g, <1>x DEF Lifetime!TasksOK, Lifetime!AnswersOK,
        Lifetime!Kinds, Lifetime!OneMaker, Lifetime!AttemptsAreInside, Lifetime!StreamsAreAlone
<1>9. Lifetime!OwnedOnce'
    BY <1>1, <1>a, <1>b, <1>c, <1>e, <1>f, <1>g, <1>h, <1>x DEF Lifetime!TasksOK,
        Lifetime!AnswersOK, Lifetime!Kinds, Lifetime!CountsOK, Lifetime!OneMaker,
        Lifetime!AttemptsAreInside, Lifetime!StreamsAreAlone, Lifetime!OwnedOnce,
        Lifetime!HasLease, Lifetime!HasBody, Lifetime!HasStream
<1>10. Lifetime!RoomIsCounted'
    BY <1>1, RoomStays
<1> QED
    BY <1>2, <1>3, <1>4, <1>5, <1>6, <1>7, <1>8, <1>9, <1>10 DEF Lifetime!IInv, Lifetime!TypeOK

\* A stream that does not start is closed first, whatever create() ends with.
LEMMA ClosingKeeps ==
    ASSUME Lifetime!IInv, NEW r \in Clients, reqMake[r] = "reading",
           NEW kind \in {"safe", "error", "json", "cancel"},
           reqMake' = [reqMake EXCEPT ![r] = "closing"],
           reqFate' = [reqFate EXCEPT ![r] = kind],
           UNCHANGED <<reqApp, reqTry, reqMaker, reqResp, reqLate, reqHeld, reqOpen, reqLeft,
                       reqStopped, reqExpired, reqInside, reqWaiting, reqRefresher, reqAttempts>>
    PROVE  Lifetime!IInv'
<1> USE LifetimeConstants
<1>a. Lifetime!TasksOK
    BY DEF Lifetime!IInv, Lifetime!TypeOK
<1>b. Lifetime!AnswersOK
    BY DEF Lifetime!IInv, Lifetime!TypeOK
<1>c. Lifetime!CountsOK
    BY DEF Lifetime!IInv, Lifetime!TypeOK
<1>d. Lifetime!FlagsOK
    BY DEF Lifetime!IInv, Lifetime!TypeOK
<1>e. Lifetime!OneMaker
    BY DEF Lifetime!IInv, Lifetime!TypeOK
<1>f. Lifetime!AttemptsAreInside
    BY DEF Lifetime!IInv, Lifetime!TypeOK
<1>g. Lifetime!StreamsAreAlone
    BY DEF Lifetime!IInv, Lifetime!TypeOK
<1>h. Lifetime!OwnedOnce
    BY DEF Lifetime!IInv, Lifetime!TypeOK
<1>i. Lifetime!RoomIsCounted
    BY DEF Lifetime!IInv, Lifetime!TypeOK
<1>1. /\ reqMake[r] = "reading"
      /\ reqMake' = [reqMake EXCEPT ![r] = "closing"]
      /\ reqFate' = [reqFate EXCEPT ![r] = kind]
      /\ kind \in {"safe", "error", "json", "cancel"}
      /\ UNCHANGED <<reqApp, reqTry, reqMaker, reqResp, reqLate, reqHeld, reqOpen,
                       reqLeft, reqStopped, reqExpired, reqInside, reqWaiting,
                       reqRefresher, reqAttempts>>
    OBVIOUS
<1>x. /\ ~Lifetime!HasStream(r) /\ reqLate[r] = "none"
    BY <1>1, MakingIsAlone
<1>2. Lifetime!TasksOK'
    BY <1>1, <1>a, <1>x DEF Lifetime!TasksOK
<1>3. Lifetime!AnswersOK'
    BY <1>1, <1>a, <1>b, <1>e, <1>x DEF Lifetime!TasksOK, Lifetime!AnswersOK, Lifetime!Kinds,
        Lifetime!OneMaker
<1>4. Lifetime!CountsOK'
    BY <1>1, <1>a, <1>c, <1>f, <1>g, <1>h, <1>x DEF Lifetime!TasksOK, Lifetime!CountsOK,
        Lifetime!AttemptsAreInside, Lifetime!StreamsAreAlone, Lifetime!OwnedOnce,
        Lifetime!HasLease, Lifetime!HasBody, Lifetime!HasStream
<1>5. Lifetime!FlagsOK'
    BY <1>1, <1>a, <1>d, <1>x DEF Lifetime!TasksOK, Lifetime!FlagsOK
<1>6. Lifetime!OneMaker'
    BY <1>1, <1>a, <1>b, <1>e, <1>f, <1>x DEF Lifetime!TasksOK, Lifetime!AnswersOK,
        Lifetime!Kinds, Lifetime!OneMaker, Lifetime!AttemptsAreInside
<1>7. Lifetime!AttemptsAreInside'
    BY <1>1, <1>a, <1>b, <1>c, <1>d, <1>e, <1>f, <1>g, <1>x DEF Lifetime!TasksOK,
        Lifetime!AnswersOK, Lifetime!Kinds, Lifetime!CountsOK, Lifetime!FlagsOK,
        Lifetime!OneMaker, Lifetime!AttemptsAreInside, Lifetime!StreamsAreAlone
<1>8. Lifetime!StreamsAreAlone'
    BY <1>1, <1>a, <1>b, <1>e, <1>f, <1>g, <1>x DEF Lifetime!TasksOK, Lifetime!AnswersOK,
        Lifetime!Kinds, Lifetime!OneMaker, Lifetime!AttemptsAreInside, Lifetime!StreamsAreAlone
<1>9. Lifetime!OwnedOnce'
    BY <1>1, <1>a, <1>b, <1>c, <1>e, <1>f, <1>g, <1>h, <1>x DEF Lifetime!TasksOK,
        Lifetime!AnswersOK, Lifetime!Kinds, Lifetime!CountsOK, Lifetime!OneMaker,
        Lifetime!AttemptsAreInside, Lifetime!StreamsAreAlone, Lifetime!OwnedOnce,
        Lifetime!HasLease, Lifetime!HasBody, Lifetime!HasStream
<1>10. Lifetime!RoomIsCounted'
    BY <1>1, RoomStays
<1> QED
    BY <1>2, <1>3, <1>4, <1>5, <1>6, <1>7, <1>8, <1>9, <1>10 DEF Lifetime!IInv, Lifetime!TypeOK

\* The lease is granted or refused.
LEMMA AcquireKeeps == ASSUME Lifetime!IInv, NEW r \in Clients, Lifetime!Acquire(r) PROVE Lifetime!IInv'
<1>1. CASE /\ reqMake' = [reqMake EXCEPT ![r] = "handling"]
           /\ reqHeld' = [reqHeld EXCEPT ![r] = @ + 1]
           /\ UNCHANGED <<reqApp, reqTry, reqFate, reqResp, reqLate>>
    BY <1>1, LeaseGranted DEF Lifetime!Acquire
<1>2. CASE Lifetime!Produced(r, "error") /\ UNCHANGED reqHeld
    <2>1. /\ reqHeld \in [Clients -> Nat] /\ reqOpen \in [Clients -> Nat] /\ Lifetime!OwnedOnce
          /\ reqMake[r] = "acquiring"
        BY LifetimeConstants DEF Lifetime!IInv, Lifetime!TypeOK, Lifetime!CountsOK,
            Lifetime!Acquire
    <2>2. reqHeld[r] = 0 /\ reqOpen[r] = 0
        BY <2>1, MakingIsAlone DEF Lifetime!OwnedOnce, Lifetime!HasLease, Lifetime!HasBody
    <2>3. /\ reqHeld' = [reqHeld EXCEPT ![r] = 0]
          /\ reqOpen' = [reqOpen EXCEPT ![r] = 0]
          /\ UNCHANGED <<reqMaker, reqLeft, reqStopped, reqExpired, reqInside, reqWaiting,
                         reqRefresher, reqAttempts>>
        BY <1>2, <2>1, <2>2 DEF Lifetime!Acquire
    <2> QED
        BY <1>2, <2>1, <2>3, ProducedKeeps DEF Lifetime!Kinds
<1> QED
    BY <1>1, <1>2 DEF Lifetime!Acquire

\* The handler ends without a body.
LEMMA HandlerEndsKeeps == ASSUME Lifetime!IInv, NEW r \in Clients, Lifetime!HandlerEnds(r) PROVE Lifetime!IInv'
<1>1. /\ reqHeld \in [Clients -> Nat] /\ reqOpen \in [Clients -> Nat] /\ Lifetime!OwnedOnce
      /\ reqMake[r] = "handling"
    BY LifetimeConstants DEF Lifetime!IInv, Lifetime!TypeOK, Lifetime!CountsOK,
        Lifetime!HandlerEnds
<1>2. reqHeld[r] = 1 /\ reqOpen[r] = 0
    BY <1>1, MakingIsAlone DEF Lifetime!OwnedOnce, Lifetime!HasLease, Lifetime!HasBody
<1>3. PICK kind \in {"safe", "error", "broken", "json"} : Lifetime!Produced(r, kind)
    BY DEF Lifetime!HandlerEnds
<1>4. /\ reqHeld' = [reqHeld EXCEPT ![r] = 0]
      /\ reqOpen' = [reqOpen EXCEPT ![r] = 0]
      /\ UNCHANGED <<reqMaker, reqLeft, reqStopped, reqExpired, reqInside, reqWaiting,
                     reqRefresher, reqAttempts>>
    BY <1>1, <1>2 DEF Lifetime!HandlerEnds
<1> QED
    BY <1>1, <1>3, <1>4, ProducedKeeps DEF Lifetime!Kinds

\* The response takes over the lease and the body.
LEMMA FirstChunkKeeps == ASSUME Lifetime!IInv, NEW r \in Clients, Lifetime!FirstChunk(r) PROVE Lifetime!IInv'
<1>1. /\ reqHeld \in [Clients -> Nat] /\ reqOpen \in [Clients -> Nat] /\ Lifetime!OwnedOnce
      /\ reqMake[r] = "reading" /\ Lifetime!Produced(r, "stream")
    BY LifetimeConstants DEF Lifetime!IInv, Lifetime!TypeOK, Lifetime!CountsOK,
        Lifetime!FirstChunk
<1>2. reqHeld[r] = 1 /\ reqOpen[r] = 1
    BY <1>1 DEF Lifetime!OwnedOnce, Lifetime!HasLease, Lifetime!HasBody
<1>3. /\ reqHeld' = [reqHeld EXCEPT ![r] = 1]
      /\ reqOpen' = [reqOpen EXCEPT ![r] = 1]
      /\ UNCHANGED <<reqMaker, reqLeft, reqStopped, reqExpired, reqInside, reqWaiting,
                     reqRefresher, reqAttempts>>
    BY <1>1, <1>2 DEF Lifetime!FirstChunk
<1> QED
    BY <1>1, <1>3, ProducedKeeps DEF Lifetime!Kinds

\* The stream does not start.
LEMMA EndsBeforeStartKeeps == ASSUME Lifetime!IInv, NEW r \in Clients, Lifetime!EndsBeforeStart(r) PROVE Lifetime!IInv'
<1>1. PICK kind \in {"safe", "error", "json"} : reqFate' = [reqFate EXCEPT ![r] = kind]
    BY DEF Lifetime!EndsBeforeStart
<1> QED
    BY <1>1, ClosingKeeps DEF Lifetime!EndsBeforeStart

\* The body is closed and the lease released.
LEMMA PreStartClosedKeeps == ASSUME Lifetime!IInv, NEW r \in Clients, Lifetime!PreStartClosed(r) PROVE Lifetime!IInv'
<1>1. /\ reqHeld \in [Clients -> Nat] /\ reqOpen \in [Clients -> Nat] /\ Lifetime!OwnedOnce
      /\ reqFate \in [Clients -> Lifetime!Kinds] /\ Lifetime!OneMaker /\ reqMake[r] = "closing"
    BY LifetimeConstants DEF Lifetime!IInv, Lifetime!TypeOK, Lifetime!CountsOK,
        Lifetime!AnswersOK, Lifetime!PreStartClosed
<1>2. /\ reqHeld[r] = 1 /\ reqOpen[r] = 1 /\ reqFate[r] \in Lifetime!Kinds
      /\ reqFate[r] \notin {"none", "stream"}
    BY <1>1 DEF Lifetime!OwnedOnce, Lifetime!HasLease, Lifetime!HasBody, Lifetime!OneMaker
<1>3. /\ reqHeld' = [reqHeld EXCEPT ![r] = 0]
      /\ reqOpen' = [reqOpen EXCEPT ![r] = 0]
      /\ UNCHANGED <<reqMaker, reqLeft, reqStopped, reqExpired, reqInside, reqWaiting,
                     reqRefresher, reqAttempts>>
    BY <1>1, <1>2 DEF Lifetime!PreStartClosed
<1>4. PICK kind \in Lifetime!Kinds \ {"none", "stream"} : Lifetime!Produced(r, kind)
    BY <1>2 DEF Lifetime!PreStartClosed, Lifetime!Kinds
<1> QED
    BY <1>1, <1>3, <1>4, ProducedKeeps

\* A cancellation inside create() is only another way for it to end.
LEMMA CancelMakingKeeps == ASSUME Lifetime!IInv, NEW r \in Clients, Lifetime!CancelMaking(r) PROVE Lifetime!IInv'
<1>1. /\ reqHeld \in [Clients -> Nat] /\ reqOpen \in [Clients -> Nat] /\ Lifetime!OwnedOnce
      /\ reqMake[r] \in {"acquiring", "handling", "reading"}
    BY LifetimeConstants DEF Lifetime!IInv, Lifetime!TypeOK, Lifetime!CountsOK,
        Lifetime!CancelMaking
<1>2. CASE reqMake[r] = "reading"
    <2>1. /\ reqMake' = [reqMake EXCEPT ![r] = "closing"]
          /\ reqFate' = [reqFate EXCEPT ![r] = "cancel"]
          /\ UNCHANGED <<reqApp, reqTry, reqMaker, reqResp, reqLate, reqHeld, reqOpen, reqLeft,
                         reqStopped, reqExpired, reqInside, reqWaiting, reqRefresher, reqAttempts>>
        BY <1>2 DEF Lifetime!CancelMaking
    <2> QED
        BY <1>2, <2>1, ClosingKeeps
<1>3. CASE reqMake[r] \in {"acquiring", "handling"}
    <2>1. reqOpen[r] = 0 /\ reqHeld[r] = IF reqMake[r] = "handling" THEN 1 ELSE 0
        BY <1>1, <1>3, MakingIsAlone DEF Lifetime!OwnedOnce, Lifetime!HasLease, Lifetime!HasBody
    <2>2. /\ reqHeld' = [reqHeld EXCEPT ![r] = 0]
          /\ reqOpen' = [reqOpen EXCEPT ![r] = 0]
          /\ Lifetime!Produced(r, "cancel")
          /\ UNCHANGED <<reqMaker, reqLeft, reqStopped, reqExpired, reqInside, reqWaiting,
                         reqRefresher, reqAttempts>>
        BY <1>1, <1>3, <2>1 DEF Lifetime!CancelMaking
    <2> QED
        BY <1>3, <2>2, ProducedKeeps DEF Lifetime!Kinds
<1> QED
    BY <1>1, <1>2, <1>3

\* Another round is made by the application task, which has no attempt beside it.
LEMMA AnotherRoundKeeps == ASSUME Lifetime!IInv, NEW r \in Clients, Lifetime!AnotherRound(r) PROVE Lifetime!IInv'
<1> USE LifetimeConstants
<1>a. Lifetime!TasksOK
    BY DEF Lifetime!IInv, Lifetime!TypeOK
<1>b. Lifetime!AnswersOK
    BY DEF Lifetime!IInv, Lifetime!TypeOK
<1>c. Lifetime!CountsOK
    BY DEF Lifetime!IInv, Lifetime!TypeOK
<1>d. Lifetime!FlagsOK
    BY DEF Lifetime!IInv, Lifetime!TypeOK
<1>e. Lifetime!OneMaker
    BY DEF Lifetime!IInv, Lifetime!TypeOK
<1>f. Lifetime!AttemptsAreInside
    BY DEF Lifetime!IInv, Lifetime!TypeOK
<1>g. Lifetime!StreamsAreAlone
    BY DEF Lifetime!IInv, Lifetime!TypeOK
<1>h. Lifetime!OwnedOnce
    BY DEF Lifetime!IInv, Lifetime!TypeOK
<1>i. Lifetime!RoomIsCounted
    BY DEF Lifetime!IInv, Lifetime!TypeOK
<1>1. /\ reqApp[r] = "offered" /\ reqAttempts[r] < MaxRounds
      /\ reqApp' = [reqApp EXCEPT ![r] = "create"]
      /\ reqResp' = [reqResp EXCEPT ![r] = "none"]
      /\ reqMaker' = [reqMaker EXCEPT ![r] = "app"]
      /\ reqMake' = [reqMake EXCEPT ![r] = "acquiring"]
      /\ reqAttempts' = [reqAttempts EXCEPT ![r] = @ + 1]
      /\ UNCHANGED <<reqTry, reqFate, reqLate, reqHeld, reqOpen, reqLeft,
                       reqStopped, reqExpired, reqInside, reqWaiting, reqRefresher>>
    BY DEF Lifetime!AnotherRound, Lifetime!StartMaking, Lifetime!CanTryAgain
<1>2. Lifetime!TasksOK'
    BY <1>1, <1>a DEF Lifetime!TasksOK
<1>3. Lifetime!AnswersOK'
    BY <1>1, <1>a, <1>b, <1>e DEF Lifetime!TasksOK, Lifetime!AnswersOK, Lifetime!Kinds,
        Lifetime!OneMaker
<1>4. Lifetime!CountsOK'
    BY <1>1, <1>a, <1>c, <1>f, <1>g, <1>h DEF Lifetime!TasksOK, Lifetime!CountsOK,
        Lifetime!AttemptsAreInside, Lifetime!StreamsAreAlone, Lifetime!OwnedOnce,
        Lifetime!HasLease, Lifetime!HasBody, Lifetime!HasStream
<1>5. Lifetime!FlagsOK'
    BY <1>1, <1>a, <1>d DEF Lifetime!TasksOK, Lifetime!FlagsOK
<1>6. Lifetime!OneMaker'
    BY <1>1, <1>a, <1>b, <1>e, <1>f DEF Lifetime!TasksOK, Lifetime!AnswersOK, Lifetime!Kinds,
        Lifetime!OneMaker, Lifetime!AttemptsAreInside
<1>7. Lifetime!AttemptsAreInside'
    BY <1>1, <1>a, <1>b, <1>c, <1>d, <1>e, <1>f, <1>g DEF Lifetime!TasksOK, Lifetime!AnswersOK,
        Lifetime!Kinds, Lifetime!CountsOK, Lifetime!FlagsOK, Lifetime!OneMaker,
        Lifetime!AttemptsAreInside, Lifetime!StreamsAreAlone
<1>8. Lifetime!StreamsAreAlone'
    BY <1>1, <1>a, <1>b, <1>e, <1>f, <1>g DEF Lifetime!TasksOK, Lifetime!AnswersOK,
        Lifetime!Kinds, Lifetime!OneMaker, Lifetime!AttemptsAreInside, Lifetime!StreamsAreAlone
<1>9. Lifetime!OwnedOnce'
    BY <1>1, <1>a, <1>b, <1>c, <1>e, <1>f, <1>g, <1>h DEF Lifetime!TasksOK, Lifetime!AnswersOK,
        Lifetime!Kinds, Lifetime!CountsOK, Lifetime!OneMaker, Lifetime!AttemptsAreInside,
        Lifetime!StreamsAreAlone, Lifetime!OwnedOnce, Lifetime!HasLease, Lifetime!HasBody,
        Lifetime!HasStream
<1>10. Lifetime!RoomIsCounted'
    BY <1>1, RoomStays
<1> QED
    BY <1>2, <1>3, <1>4, <1>5, <1>6, <1>7, <1>8, <1>9, <1>10 DEF Lifetime!IInv, Lifetime!TypeOK

\* The recoverable response is sent after all.
LEMMA SendFirstKeeps == ASSUME Lifetime!IInv, NEW r \in Clients, Lifetime!SendFirst(r) PROVE Lifetime!IInv'
<1> USE LifetimeConstants
<1>a. Lifetime!TasksOK
    BY DEF Lifetime!IInv, Lifetime!TypeOK
<1>b. Lifetime!AnswersOK
    BY DEF Lifetime!IInv, Lifetime!TypeOK
<1>c. Lifetime!CountsOK
    BY DEF Lifetime!IInv, Lifetime!TypeOK
<1>d. Lifetime!FlagsOK
    BY DEF Lifetime!IInv, Lifetime!TypeOK
<1>e. Lifetime!OneMaker
    BY DEF Lifetime!IInv, Lifetime!TypeOK
<1>f. Lifetime!AttemptsAreInside
    BY DEF Lifetime!IInv, Lifetime!TypeOK
<1>g. Lifetime!StreamsAreAlone
    BY DEF Lifetime!IInv, Lifetime!TypeOK
<1>h. Lifetime!OwnedOnce
    BY DEF Lifetime!IInv, Lifetime!TypeOK
<1>i. Lifetime!RoomIsCounted
    BY DEF Lifetime!IInv, Lifetime!TypeOK
<1>1. /\ reqApp[r] = "offered"
      /\ reqApp' = [reqApp EXCEPT ![r] = "send"]
      /\ UNCHANGED <<reqTry, reqMaker, reqMake, reqFate, reqResp, reqLate, reqHeld,
                       reqOpen, reqLeft, reqStopped, reqExpired, reqInside,
                       reqWaiting, reqRefresher, reqAttempts>>
    BY DEF Lifetime!SendFirst
<1>2. Lifetime!TasksOK'
    BY <1>1, <1>a DEF Lifetime!TasksOK
<1>3. Lifetime!AnswersOK'
    BY <1>1, <1>a, <1>b, <1>e DEF Lifetime!TasksOK, Lifetime!AnswersOK, Lifetime!Kinds,
        Lifetime!OneMaker
<1>4. Lifetime!CountsOK'
    BY <1>1, <1>a, <1>c, <1>f, <1>g, <1>h DEF Lifetime!TasksOK, Lifetime!CountsOK,
        Lifetime!AttemptsAreInside, Lifetime!StreamsAreAlone, Lifetime!OwnedOnce,
        Lifetime!HasLease, Lifetime!HasBody, Lifetime!HasStream
<1>5. Lifetime!FlagsOK'
    BY <1>1, <1>a, <1>d DEF Lifetime!TasksOK, Lifetime!FlagsOK
<1>6. Lifetime!OneMaker'
    BY <1>1, <1>a, <1>b, <1>e, <1>f DEF Lifetime!TasksOK, Lifetime!AnswersOK, Lifetime!Kinds,
        Lifetime!OneMaker, Lifetime!AttemptsAreInside
<1>7. Lifetime!AttemptsAreInside'
    BY <1>1, <1>a, <1>b, <1>c, <1>d, <1>e, <1>f, <1>g DEF Lifetime!TasksOK, Lifetime!AnswersOK,
        Lifetime!Kinds, Lifetime!CountsOK, Lifetime!FlagsOK, Lifetime!OneMaker,
        Lifetime!AttemptsAreInside, Lifetime!StreamsAreAlone
<1>8. Lifetime!StreamsAreAlone'
    BY <1>1, <1>a, <1>b, <1>e, <1>f, <1>g DEF Lifetime!TasksOK, Lifetime!AnswersOK,
        Lifetime!Kinds, Lifetime!OneMaker, Lifetime!AttemptsAreInside, Lifetime!StreamsAreAlone
<1>9. Lifetime!OwnedOnce'
    BY <1>1, <1>a, <1>b, <1>c, <1>e, <1>f, <1>g, <1>h DEF Lifetime!TasksOK, Lifetime!AnswersOK,
        Lifetime!Kinds, Lifetime!CountsOK, Lifetime!OneMaker, Lifetime!AttemptsAreInside,
        Lifetime!StreamsAreAlone, Lifetime!OwnedOnce, Lifetime!HasLease, Lifetime!HasBody,
        Lifetime!HasStream
<1>10. Lifetime!RoomIsCounted'
    BY <1>1, RoomStays
<1> QED
    BY <1>2, <1>3, <1>4, <1>5, <1>6, <1>7, <1>8, <1>9, <1>10 DEF Lifetime!IInv, Lifetime!TypeOK

\* A place in the waiting room is taken only while there is one.
LEMMA EnterWaitKeeps == ASSUME Lifetime!IInv, NEW r \in Clients, Lifetime!EnterWait(r) PROVE Lifetime!IInv'
<1> USE LifetimeConstants
<1>a. Lifetime!TasksOK
    BY DEF Lifetime!IInv, Lifetime!TypeOK
<1>b. Lifetime!AnswersOK
    BY DEF Lifetime!IInv, Lifetime!TypeOK
<1>c. Lifetime!CountsOK
    BY DEF Lifetime!IInv, Lifetime!TypeOK
<1>d. Lifetime!FlagsOK
    BY DEF Lifetime!IInv, Lifetime!TypeOK
<1>e. Lifetime!OneMaker
    BY DEF Lifetime!IInv, Lifetime!TypeOK
<1>f. Lifetime!AttemptsAreInside
    BY DEF Lifetime!IInv, Lifetime!TypeOK
<1>g. Lifetime!StreamsAreAlone
    BY DEF Lifetime!IInv, Lifetime!TypeOK
<1>h. Lifetime!OwnedOnce
    BY DEF Lifetime!IInv, Lifetime!TypeOK
<1>i. Lifetime!RoomIsCounted
    BY DEF Lifetime!IInv, Lifetime!TypeOK
<1>1. /\ reqApp[r] = "offered" /\ reqWaiting < MaxWaiting
      /\ reqApp' = [reqApp EXCEPT ![r] = "wait"]
      /\ reqInside' = [reqInside EXCEPT ![r] = TRUE]
      /\ reqWaiting' = reqWaiting + 1
      /\ UNCHANGED <<reqTry, reqMaker, reqMake, reqFate, reqResp, reqLate, reqHeld,
                       reqOpen, reqLeft, reqStopped, reqExpired, reqRefresher,
                       reqAttempts>>
    BY DEF Lifetime!EnterWait
<1>x. reqWaiting + 1 <= Lifetime!Cardinality(Clients)
    <2>1. ~reqInside[r]
        BY <1>1, <1>f DEF Lifetime!AttemptsAreInside
    <2>2. {q \in Clients : reqInside[q]} \in SUBSET Clients
        OBVIOUS
    <2>3. r \notin {q \in Clients : reqInside[q]}
        BY <2>1
    <2> QED
        BY <2>2, <2>3, <1>i, CountOfClients DEF Lifetime!RoomIsCounted
<1>2. Lifetime!TasksOK'
    BY <1>1, <1>a, <1>x DEF Lifetime!TasksOK
<1>3. Lifetime!AnswersOK'
    BY <1>1, <1>a, <1>b, <1>e, <1>x DEF Lifetime!TasksOK, Lifetime!AnswersOK, Lifetime!Kinds,
        Lifetime!OneMaker
<1>4. Lifetime!CountsOK'
    BY <1>1, <1>a, <1>c, <1>f, <1>g, <1>h, <1>i, CountOfClients, <1>x DEF Lifetime!CountsOK,
        Lifetime!AttemptsAreInside, Lifetime!StreamsAreAlone, Lifetime!OwnedOnce,
        Lifetime!HasLease, Lifetime!HasBody, Lifetime!HasStream, Lifetime!RoomIsCounted
<1>5. Lifetime!FlagsOK'
    BY <1>1, <1>a, <1>d, <1>x DEF Lifetime!TasksOK, Lifetime!FlagsOK
<1>6. Lifetime!OneMaker'
    BY <1>1, <1>a, <1>b, <1>e, <1>f, <1>x DEF Lifetime!TasksOK, Lifetime!AnswersOK,
        Lifetime!Kinds, Lifetime!OneMaker, Lifetime!AttemptsAreInside
<1>7. Lifetime!AttemptsAreInside'
    BY <1>1, <1>a, <1>b, <1>c, <1>d, <1>e, <1>f, <1>g, <1>x DEF Lifetime!TasksOK,
        Lifetime!AnswersOK, Lifetime!Kinds, Lifetime!CountsOK, Lifetime!FlagsOK,
        Lifetime!OneMaker, Lifetime!AttemptsAreInside, Lifetime!StreamsAreAlone
<1>8. Lifetime!StreamsAreAlone'
    BY <1>1, <1>a, <1>b, <1>e, <1>f, <1>g, <1>x DEF Lifetime!TasksOK, Lifetime!AnswersOK,
        Lifetime!Kinds, Lifetime!OneMaker, Lifetime!AttemptsAreInside, Lifetime!StreamsAreAlone
<1>9. Lifetime!OwnedOnce'
    BY <1>1, <1>a, <1>b, <1>c, <1>e, <1>f, <1>g, <1>h, <1>x DEF Lifetime!TasksOK,
        Lifetime!AnswersOK, Lifetime!Kinds, Lifetime!CountsOK, Lifetime!OneMaker,
        Lifetime!AttemptsAreInside, Lifetime!StreamsAreAlone, Lifetime!OwnedOnce,
        Lifetime!HasLease, Lifetime!HasBody, Lifetime!HasStream
<1>10. Lifetime!RoomIsCounted'
    <2>1. ~reqInside[r]
        BY <1>1, <1>f DEF Lifetime!AttemptsAreInside
    <2>2. {q \in Clients : reqInside'[q]} = {q \in Clients : reqInside[q]} \cup {r}
        BY <1>1, <1>d DEF Lifetime!FlagsOK
    <2>3. {q \in Clients : reqInside[q]} \in SUBSET Clients
        OBVIOUS
    <2> QED
        BY <1>1, <1>c, <1>i, <2>1, <2>2, <2>3, CountOfClients DEF Lifetime!RoomIsCounted,
            Lifetime!CountsOK
<1> QED
    BY <1>2, <1>3, <1>4, <1>5, <1>6, <1>7, <1>8, <1>9, <1>10 DEF Lifetime!IInv, Lifetime!TypeOK

\* An attempt is started for a request that waits.
LEMMA StartAttemptKeeps == ASSUME Lifetime!IInv, NEW r \in Clients, Lifetime!StartAttempt(r) PROVE Lifetime!IInv'
<1> USE LifetimeConstants
<1>a. Lifetime!TasksOK
    BY DEF Lifetime!IInv, Lifetime!TypeOK
<1>b. Lifetime!AnswersOK
    BY DEF Lifetime!IInv, Lifetime!TypeOK
<1>c. Lifetime!CountsOK
    BY DEF Lifetime!IInv, Lifetime!TypeOK
<1>d. Lifetime!FlagsOK
    BY DEF Lifetime!IInv, Lifetime!TypeOK
<1>e. Lifetime!OneMaker
    BY DEF Lifetime!IInv, Lifetime!TypeOK
<1>f. Lifetime!AttemptsAreInside
    BY DEF Lifetime!IInv, Lifetime!TypeOK
<1>g. Lifetime!StreamsAreAlone
    BY DEF Lifetime!IInv, Lifetime!TypeOK
<1>h. Lifetime!OwnedOnce
    BY DEF Lifetime!IInv, Lifetime!TypeOK
<1>i. Lifetime!RoomIsCounted
    BY DEF Lifetime!IInv, Lifetime!TypeOK
<1>1. /\ reqApp[r] = "wait" /\ reqTry[r] = "none" /\ reqAttempts[r] < MaxRounds
      /\ reqTry' = [reqTry EXCEPT ![r] = "sleep"]
      /\ UNCHANGED <<reqApp, reqMaker, reqMake, reqFate, reqResp, reqLate, reqHeld,
                       reqOpen, reqLeft, reqStopped, reqExpired, reqInside,
                       reqWaiting, reqRefresher, reqAttempts>>
    BY DEF Lifetime!StartAttempt, Lifetime!CanTryAgain
<1>2. Lifetime!TasksOK'
    BY <1>1, <1>a DEF Lifetime!TasksOK
<1>3. Lifetime!AnswersOK'
    BY <1>1, <1>a, <1>b, <1>e DEF Lifetime!TasksOK, Lifetime!AnswersOK, Lifetime!Kinds,
        Lifetime!OneMaker
<1>4. Lifetime!CountsOK'
    BY <1>1, <1>a, <1>c, <1>f, <1>g, <1>h DEF Lifetime!TasksOK, Lifetime!CountsOK,
        Lifetime!AttemptsAreInside, Lifetime!StreamsAreAlone, Lifetime!OwnedOnce,
        Lifetime!HasLease, Lifetime!HasBody, Lifetime!HasStream
<1>5. Lifetime!FlagsOK'
    BY <1>1, <1>a, <1>d DEF Lifetime!TasksOK, Lifetime!FlagsOK
<1>6. Lifetime!OneMaker'
    BY <1>1, <1>a, <1>b, <1>e, <1>f DEF Lifetime!TasksOK, Lifetime!AnswersOK, Lifetime!Kinds,
        Lifetime!OneMaker, Lifetime!AttemptsAreInside
<1>7. Lifetime!AttemptsAreInside'
    BY <1>1, <1>a, <1>b, <1>c, <1>d, <1>e, <1>f, <1>g DEF Lifetime!TasksOK, Lifetime!AnswersOK,
        Lifetime!Kinds, Lifetime!CountsOK, Lifetime!FlagsOK, Lifetime!OneMaker,
        Lifetime!AttemptsAreInside, Lifetime!StreamsAreAlone
<1>8. Lifetime!StreamsAreAlone'
    BY <1>1, <1>a, <1>b, <1>e, <1>f, <1>g DEF Lifetime!TasksOK, Lifetime!AnswersOK,
        Lifetime!Kinds, Lifetime!OneMaker, Lifetime!AttemptsAreInside, Lifetime!StreamsAreAlone
<1>9. Lifetime!OwnedOnce'
    BY <1>1, <1>a, <1>b, <1>c, <1>e, <1>f, <1>g, <1>h DEF Lifetime!TasksOK, Lifetime!AnswersOK,
        Lifetime!Kinds, Lifetime!CountsOK, Lifetime!OneMaker, Lifetime!AttemptsAreInside,
        Lifetime!StreamsAreAlone, Lifetime!OwnedOnce, Lifetime!HasLease, Lifetime!HasBody,
        Lifetime!HasStream
<1>10. Lifetime!RoomIsCounted'
    BY <1>1, RoomStays
<1> QED
    BY <1>2, <1>3, <1>4, <1>5, <1>6, <1>7, <1>8, <1>9, <1>10 DEF Lifetime!IInv, Lifetime!TypeOK

\* The attempt goes on, or returns the response it was given.
LEMMA AttemptWakesKeeps == ASSUME Lifetime!IInv, NEW r \in Clients, Lifetime!AttemptWakes(r) PROVE Lifetime!IInv'
<1> USE LifetimeConstants
<1>a. Lifetime!TasksOK
    BY DEF Lifetime!IInv, Lifetime!TypeOK
<1>b. Lifetime!AnswersOK
    BY DEF Lifetime!IInv, Lifetime!TypeOK
<1>c. Lifetime!CountsOK
    BY DEF Lifetime!IInv, Lifetime!TypeOK
<1>d. Lifetime!FlagsOK
    BY DEF Lifetime!IInv, Lifetime!TypeOK
<1>e. Lifetime!OneMaker
    BY DEF Lifetime!IInv, Lifetime!TypeOK
<1>f. Lifetime!AttemptsAreInside
    BY DEF Lifetime!IInv, Lifetime!TypeOK
<1>g. Lifetime!StreamsAreAlone
    BY DEF Lifetime!IInv, Lifetime!TypeOK
<1>h. Lifetime!OwnedOnce
    BY DEF Lifetime!IInv, Lifetime!TypeOK
<1>i. Lifetime!RoomIsCounted
    BY DEF Lifetime!IInv, Lifetime!TypeOK
<1>1. /\ reqTry[r] = "sleep"
      /\ reqTry' = [reqTry EXCEPT ![r] = reqTry'[r]] /\ reqTry'[r] \in {"lock", "done"}
      /\ reqLate' = [reqLate EXCEPT ![r] = "none"]
      /\ UNCHANGED <<reqApp, reqMaker, reqMake, reqFate, reqResp, reqHeld, reqOpen,
                       reqLeft, reqStopped, reqExpired, reqInside, reqWaiting,
                       reqRefresher, reqAttempts>>
    BY DEF Lifetime!AttemptWakes, Lifetime!IInv, Lifetime!TypeOK, Lifetime!TasksOK,
        Lifetime!AnswersOK, Lifetime!AttemptsAreInside
<1>2. Lifetime!TasksOK'
    BY <1>1, <1>a DEF Lifetime!TasksOK
<1>3. Lifetime!AnswersOK'
    BY <1>1, <1>a, <1>b, <1>e DEF Lifetime!TasksOK, Lifetime!AnswersOK, Lifetime!Kinds,
        Lifetime!OneMaker
<1>4. Lifetime!CountsOK'
    BY <1>1, <1>a, <1>c, <1>f, <1>g, <1>h DEF Lifetime!TasksOK, Lifetime!CountsOK,
        Lifetime!AttemptsAreInside, Lifetime!StreamsAreAlone, Lifetime!OwnedOnce,
        Lifetime!HasLease, Lifetime!HasBody, Lifetime!HasStream
<1>5. Lifetime!FlagsOK'
    BY <1>1, <1>a, <1>d DEF Lifetime!TasksOK, Lifetime!FlagsOK
<1>6. Lifetime!OneMaker'
    BY <1>1, <1>a, <1>b, <1>e, <1>f DEF Lifetime!TasksOK, Lifetime!AnswersOK, Lifetime!Kinds,
        Lifetime!OneMaker, Lifetime!AttemptsAreInside
<1>7. Lifetime!AttemptsAreInside'
    BY <1>1, <1>a, <1>b, <1>c, <1>d, <1>e, <1>f, <1>g DEF Lifetime!TasksOK, Lifetime!AnswersOK,
        Lifetime!Kinds, Lifetime!CountsOK, Lifetime!FlagsOK, Lifetime!OneMaker,
        Lifetime!AttemptsAreInside, Lifetime!StreamsAreAlone
<1>8. Lifetime!StreamsAreAlone'
    BY <1>1, <1>a, <1>b, <1>e, <1>f, <1>g DEF Lifetime!TasksOK, Lifetime!AnswersOK,
        Lifetime!Kinds, Lifetime!OneMaker, Lifetime!AttemptsAreInside, Lifetime!StreamsAreAlone
<1>9. Lifetime!OwnedOnce'
    BY <1>1, <1>a, <1>b, <1>c, <1>e, <1>f, <1>g, <1>h DEF Lifetime!TasksOK, Lifetime!AnswersOK,
        Lifetime!Kinds, Lifetime!CountsOK, Lifetime!OneMaker, Lifetime!AttemptsAreInside,
        Lifetime!StreamsAreAlone, Lifetime!OwnedOnce, Lifetime!HasLease, Lifetime!HasBody,
        Lifetime!HasStream
<1>10. Lifetime!RoomIsCounted'
    BY <1>1, RoomStays
<1> QED
    BY <1>2, <1>3, <1>4, <1>5, <1>6, <1>7, <1>8, <1>9, <1>10 DEF Lifetime!IInv, Lifetime!TypeOK

\* One attempt refreshes at a time.
LEMMA TakeRefreshLockKeeps == ASSUME Lifetime!IInv, NEW r \in Clients, Lifetime!TakeRefreshLock(r) PROVE Lifetime!IInv'
<1> USE LifetimeConstants
<1>a. Lifetime!TasksOK
    BY DEF Lifetime!IInv, Lifetime!TypeOK
<1>b. Lifetime!AnswersOK
    BY DEF Lifetime!IInv, Lifetime!TypeOK
<1>c. Lifetime!CountsOK
    BY DEF Lifetime!IInv, Lifetime!TypeOK
<1>d. Lifetime!FlagsOK
    BY DEF Lifetime!IInv, Lifetime!TypeOK
<1>e. Lifetime!OneMaker
    BY DEF Lifetime!IInv, Lifetime!TypeOK
<1>f. Lifetime!AttemptsAreInside
    BY DEF Lifetime!IInv, Lifetime!TypeOK
<1>g. Lifetime!StreamsAreAlone
    BY DEF Lifetime!IInv, Lifetime!TypeOK
<1>h. Lifetime!OwnedOnce
    BY DEF Lifetime!IInv, Lifetime!TypeOK
<1>i. Lifetime!RoomIsCounted
    BY DEF Lifetime!IInv, Lifetime!TypeOK
<1>1. /\ reqTry[r] = "lock" /\ reqRefresher = NoRequest
      /\ reqTry' = [reqTry EXCEPT ![r] = "refresh"]
      /\ reqRefresher' = r
      /\ UNCHANGED <<reqApp, reqMaker, reqMake, reqFate, reqResp, reqLate, reqHeld,
                       reqOpen, reqLeft, reqStopped, reqExpired, reqInside,
                       reqWaiting, reqAttempts>>
    BY DEF Lifetime!TakeRefreshLock
<1>2. Lifetime!TasksOK'
    BY <1>1, <1>a DEF Lifetime!TasksOK
<1>3. Lifetime!AnswersOK'
    BY <1>1, <1>a, <1>b, <1>e DEF Lifetime!TasksOK, Lifetime!AnswersOK, Lifetime!Kinds,
        Lifetime!OneMaker
<1>4. Lifetime!CountsOK'
    BY <1>1, <1>a, <1>c, <1>f, <1>g, <1>h DEF Lifetime!TasksOK, Lifetime!CountsOK,
        Lifetime!AttemptsAreInside, Lifetime!StreamsAreAlone, Lifetime!OwnedOnce,
        Lifetime!HasLease, Lifetime!HasBody, Lifetime!HasStream
<1>5. Lifetime!FlagsOK'
    BY <1>1, <1>a, <1>d DEF Lifetime!TasksOK, Lifetime!FlagsOK
<1>6. Lifetime!OneMaker'
    BY <1>1, <1>a, <1>b, <1>e, <1>f DEF Lifetime!TasksOK, Lifetime!AnswersOK, Lifetime!Kinds,
        Lifetime!OneMaker, Lifetime!AttemptsAreInside
<1>7. Lifetime!AttemptsAreInside'
    BY <1>1, <1>a, <1>b, <1>c, <1>d, <1>e, <1>f, <1>g DEF Lifetime!TasksOK, Lifetime!AnswersOK,
        Lifetime!Kinds, Lifetime!CountsOK, Lifetime!FlagsOK, Lifetime!OneMaker,
        Lifetime!AttemptsAreInside, Lifetime!StreamsAreAlone
<1>8. Lifetime!StreamsAreAlone'
    BY <1>1, <1>a, <1>b, <1>e, <1>f, <1>g DEF Lifetime!TasksOK, Lifetime!AnswersOK,
        Lifetime!Kinds, Lifetime!OneMaker, Lifetime!AttemptsAreInside, Lifetime!StreamsAreAlone
<1>9. Lifetime!OwnedOnce'
    BY <1>1, <1>a, <1>b, <1>c, <1>e, <1>f, <1>g, <1>h DEF Lifetime!TasksOK, Lifetime!AnswersOK,
        Lifetime!Kinds, Lifetime!CountsOK, Lifetime!OneMaker, Lifetime!AttemptsAreInside,
        Lifetime!StreamsAreAlone, Lifetime!OwnedOnce, Lifetime!HasLease, Lifetime!HasBody,
        Lifetime!HasStream
<1>10. Lifetime!RoomIsCounted'
    BY <1>1, RoomStays
<1> QED
    BY <1>2, <1>3, <1>4, <1>5, <1>6, <1>7, <1>8, <1>9, <1>10 DEF Lifetime!IInv, Lifetime!TypeOK

\* The attempt calls create() while the application task waits.
LEMMA RefreshedKeeps == ASSUME Lifetime!IInv, NEW r \in Clients, Lifetime!Refreshed(r) PROVE Lifetime!IInv'
<1> USE LifetimeConstants
<1>a. Lifetime!TasksOK
    BY DEF Lifetime!IInv, Lifetime!TypeOK
<1>b. Lifetime!AnswersOK
    BY DEF Lifetime!IInv, Lifetime!TypeOK
<1>c. Lifetime!CountsOK
    BY DEF Lifetime!IInv, Lifetime!TypeOK
<1>d. Lifetime!FlagsOK
    BY DEF Lifetime!IInv, Lifetime!TypeOK
<1>e. Lifetime!OneMaker
    BY DEF Lifetime!IInv, Lifetime!TypeOK
<1>f. Lifetime!AttemptsAreInside
    BY DEF Lifetime!IInv, Lifetime!TypeOK
<1>g. Lifetime!StreamsAreAlone
    BY DEF Lifetime!IInv, Lifetime!TypeOK
<1>h. Lifetime!OwnedOnce
    BY DEF Lifetime!IInv, Lifetime!TypeOK
<1>i. Lifetime!RoomIsCounted
    BY DEF Lifetime!IInv, Lifetime!TypeOK
<1>1. /\ reqTry[r] = "refresh"
      /\ reqRefresher' = NoRequest
      /\ reqTry' = [reqTry EXCEPT ![r] = "create"]
      /\ reqMaker' = [reqMaker EXCEPT ![r] = "try"]
      /\ reqMake' = [reqMake EXCEPT ![r] = "acquiring"]
      /\ reqAttempts' = [reqAttempts EXCEPT ![r] = @ + 1]
      /\ UNCHANGED <<reqApp, reqFate, reqResp, reqLate, reqHeld, reqOpen, reqLeft,
                       reqStopped, reqExpired, reqInside, reqWaiting>>
    BY DEF Lifetime!Refreshed, Lifetime!StartMaking
<1>2. Lifetime!TasksOK'
    BY <1>1, <1>a DEF Lifetime!TasksOK
<1>3. Lifetime!AnswersOK'
    BY <1>1, <1>a, <1>b, <1>e DEF Lifetime!TasksOK, Lifetime!AnswersOK, Lifetime!Kinds,
        Lifetime!OneMaker
<1>4. Lifetime!CountsOK'
    BY <1>1, <1>a, <1>c, <1>f, <1>g, <1>h DEF Lifetime!TasksOK, Lifetime!CountsOK,
        Lifetime!AttemptsAreInside, Lifetime!StreamsAreAlone, Lifetime!OwnedOnce,
        Lifetime!HasLease, Lifetime!HasBody, Lifetime!HasStream
<1>5. Lifetime!FlagsOK'
    BY <1>1, <1>a, <1>d DEF Lifetime!TasksOK, Lifetime!FlagsOK
<1>6. Lifetime!OneMaker'
    BY <1>1, <1>a, <1>b, <1>e, <1>f DEF Lifetime!TasksOK, Lifetime!AnswersOK, Lifetime!Kinds,
        Lifetime!OneMaker, Lifetime!AttemptsAreInside
<1>7. Lifetime!AttemptsAreInside'
    BY <1>1, <1>a, <1>b, <1>c, <1>d, <1>e, <1>f, <1>g DEF Lifetime!TasksOK, Lifetime!AnswersOK,
        Lifetime!Kinds, Lifetime!CountsOK, Lifetime!FlagsOK, Lifetime!OneMaker,
        Lifetime!AttemptsAreInside, Lifetime!StreamsAreAlone
<1>8. Lifetime!StreamsAreAlone'
    BY <1>1, <1>a, <1>b, <1>e, <1>f, <1>g DEF Lifetime!TasksOK, Lifetime!AnswersOK,
        Lifetime!Kinds, Lifetime!OneMaker, Lifetime!AttemptsAreInside, Lifetime!StreamsAreAlone
<1>9. Lifetime!OwnedOnce'
    BY <1>1, <1>a, <1>b, <1>c, <1>e, <1>f, <1>g, <1>h DEF Lifetime!TasksOK, Lifetime!AnswersOK,
        Lifetime!Kinds, Lifetime!CountsOK, Lifetime!OneMaker, Lifetime!AttemptsAreInside,
        Lifetime!StreamsAreAlone, Lifetime!OwnedOnce, Lifetime!HasLease, Lifetime!HasBody,
        Lifetime!HasStream
<1>10. Lifetime!RoomIsCounted'
    BY <1>1, RoomStays
<1> QED
    BY <1>2, <1>3, <1>4, <1>5, <1>6, <1>7, <1>8, <1>9, <1>10 DEF Lifetime!IInv, Lifetime!TypeOK

\* A cancelled attempt gives the lock back.
LEMMA AttemptStopsKeeps == ASSUME Lifetime!IInv, NEW r \in Clients, Lifetime!AttemptStops(r) PROVE Lifetime!IInv'
<1> USE LifetimeConstants
<1>a. Lifetime!TasksOK
    BY DEF Lifetime!IInv, Lifetime!TypeOK
<1>b. Lifetime!AnswersOK
    BY DEF Lifetime!IInv, Lifetime!TypeOK
<1>c. Lifetime!CountsOK
    BY DEF Lifetime!IInv, Lifetime!TypeOK
<1>d. Lifetime!FlagsOK
    BY DEF Lifetime!IInv, Lifetime!TypeOK
<1>e. Lifetime!OneMaker
    BY DEF Lifetime!IInv, Lifetime!TypeOK
<1>f. Lifetime!AttemptsAreInside
    BY DEF Lifetime!IInv, Lifetime!TypeOK
<1>g. Lifetime!StreamsAreAlone
    BY DEF Lifetime!IInv, Lifetime!TypeOK
<1>h. Lifetime!OwnedOnce
    BY DEF Lifetime!IInv, Lifetime!TypeOK
<1>i. Lifetime!RoomIsCounted
    BY DEF Lifetime!IInv, Lifetime!TypeOK
<1>1. /\ reqTry[r] \in {"sleep", "lock", "refresh"}
      /\ reqTry' = [reqTry EXCEPT ![r] = "done"]
      /\ reqLate' = [reqLate EXCEPT ![r] = "cancel"]
      /\ reqRefresher' = IF reqRefresher = r THEN NoRequest ELSE reqRefresher
      /\ UNCHANGED <<reqApp, reqMaker, reqMake, reqFate, reqResp, reqHeld, reqOpen,
                       reqLeft, reqStopped, reqExpired, reqInside, reqWaiting,
                       reqAttempts>>
    BY DEF Lifetime!AttemptStops
<1>2. Lifetime!TasksOK'
    BY <1>1, <1>a DEF Lifetime!TasksOK
<1>3. Lifetime!AnswersOK'
    BY <1>1, <1>a, <1>b, <1>e DEF Lifetime!TasksOK, Lifetime!AnswersOK, Lifetime!Kinds,
        Lifetime!OneMaker
<1>4. Lifetime!CountsOK'
    BY <1>1, <1>a, <1>c, <1>f, <1>g, <1>h DEF Lifetime!TasksOK, Lifetime!CountsOK,
        Lifetime!AttemptsAreInside, Lifetime!StreamsAreAlone, Lifetime!OwnedOnce,
        Lifetime!HasLease, Lifetime!HasBody, Lifetime!HasStream
<1>5. Lifetime!FlagsOK'
    BY <1>1, <1>a, <1>d DEF Lifetime!TasksOK, Lifetime!FlagsOK
<1>6. Lifetime!OneMaker'
    BY <1>1, <1>a, <1>b, <1>e, <1>f DEF Lifetime!TasksOK, Lifetime!AnswersOK, Lifetime!Kinds,
        Lifetime!OneMaker, Lifetime!AttemptsAreInside
<1>7. Lifetime!AttemptsAreInside'
    BY <1>1, <1>a, <1>b, <1>c, <1>d, <1>e, <1>f, <1>g DEF Lifetime!TasksOK, Lifetime!AnswersOK,
        Lifetime!Kinds, Lifetime!CountsOK, Lifetime!FlagsOK, Lifetime!OneMaker,
        Lifetime!AttemptsAreInside, Lifetime!StreamsAreAlone
<1>8. Lifetime!StreamsAreAlone'
    BY <1>1, <1>a, <1>b, <1>e, <1>f, <1>g DEF Lifetime!TasksOK, Lifetime!AnswersOK,
        Lifetime!Kinds, Lifetime!OneMaker, Lifetime!AttemptsAreInside, Lifetime!StreamsAreAlone
<1>9. Lifetime!OwnedOnce'
    BY <1>1, <1>a, <1>b, <1>c, <1>e, <1>f, <1>g, <1>h DEF Lifetime!TasksOK, Lifetime!AnswersOK,
        Lifetime!Kinds, Lifetime!CountsOK, Lifetime!OneMaker, Lifetime!AttemptsAreInside,
        Lifetime!StreamsAreAlone, Lifetime!OwnedOnce, Lifetime!HasLease, Lifetime!HasBody,
        Lifetime!HasStream
<1>10. Lifetime!RoomIsCounted'
    BY <1>1, RoomStays
<1> QED
    BY <1>2, <1>3, <1>4, <1>5, <1>6, <1>7, <1>8, <1>9, <1>10 DEF Lifetime!IInv, Lifetime!TypeOK

\* The deadline passes.
LEMMA ExpireKeeps == ASSUME Lifetime!IInv, NEW r \in Clients, Lifetime!Expire(r) PROVE Lifetime!IInv'
<1> USE LifetimeConstants
<1>a. Lifetime!TasksOK
    BY DEF Lifetime!IInv, Lifetime!TypeOK
<1>b. Lifetime!AnswersOK
    BY DEF Lifetime!IInv, Lifetime!TypeOK
<1>c. Lifetime!CountsOK
    BY DEF Lifetime!IInv, Lifetime!TypeOK
<1>d. Lifetime!FlagsOK
    BY DEF Lifetime!IInv, Lifetime!TypeOK
<1>e. Lifetime!OneMaker
    BY DEF Lifetime!IInv, Lifetime!TypeOK
<1>f. Lifetime!AttemptsAreInside
    BY DEF Lifetime!IInv, Lifetime!TypeOK
<1>g. Lifetime!StreamsAreAlone
    BY DEF Lifetime!IInv, Lifetime!TypeOK
<1>h. Lifetime!OwnedOnce
    BY DEF Lifetime!IInv, Lifetime!TypeOK
<1>i. Lifetime!RoomIsCounted
    BY DEF Lifetime!IInv, Lifetime!TypeOK
<1>1. /\ reqApp[r] = "wait"
      /\ reqExpired' = [reqExpired EXCEPT ![r] = TRUE]
      /\ UNCHANGED <<reqApp, reqTry, reqMaker, reqMake, reqFate, reqResp, reqLate,
                       reqHeld, reqOpen, reqLeft, reqStopped, reqInside, reqWaiting,
                       reqRefresher, reqAttempts>>
    BY DEF Lifetime!Expire
<1>2. Lifetime!TasksOK'
    BY <1>1, <1>a DEF Lifetime!TasksOK
<1>3. Lifetime!AnswersOK'
    BY <1>1, <1>a, <1>b, <1>e DEF Lifetime!TasksOK, Lifetime!AnswersOK, Lifetime!Kinds,
        Lifetime!OneMaker
<1>4. Lifetime!CountsOK'
    BY <1>1, <1>a, <1>c, <1>f, <1>g, <1>h DEF Lifetime!TasksOK, Lifetime!CountsOK,
        Lifetime!AttemptsAreInside, Lifetime!StreamsAreAlone, Lifetime!OwnedOnce,
        Lifetime!HasLease, Lifetime!HasBody, Lifetime!HasStream
<1>5. Lifetime!FlagsOK'
    BY <1>1, <1>a, <1>d DEF Lifetime!TasksOK, Lifetime!FlagsOK
<1>6. Lifetime!OneMaker'
    BY <1>1, <1>a, <1>b, <1>e, <1>f DEF Lifetime!TasksOK, Lifetime!AnswersOK, Lifetime!Kinds,
        Lifetime!OneMaker, Lifetime!AttemptsAreInside
<1>7. Lifetime!AttemptsAreInside'
    BY <1>1, <1>a, <1>b, <1>c, <1>d, <1>e, <1>f, <1>g DEF Lifetime!TasksOK, Lifetime!AnswersOK,
        Lifetime!Kinds, Lifetime!CountsOK, Lifetime!FlagsOK, Lifetime!OneMaker,
        Lifetime!AttemptsAreInside, Lifetime!StreamsAreAlone
<1>8. Lifetime!StreamsAreAlone'
    BY <1>1, <1>a, <1>b, <1>e, <1>f, <1>g DEF Lifetime!TasksOK, Lifetime!AnswersOK,
        Lifetime!Kinds, Lifetime!OneMaker, Lifetime!AttemptsAreInside, Lifetime!StreamsAreAlone
<1>9. Lifetime!OwnedOnce'
    BY <1>1, <1>a, <1>b, <1>c, <1>e, <1>f, <1>g, <1>h DEF Lifetime!TasksOK, Lifetime!AnswersOK,
        Lifetime!Kinds, Lifetime!CountsOK, Lifetime!OneMaker, Lifetime!AttemptsAreInside,
        Lifetime!StreamsAreAlone, Lifetime!OwnedOnce, Lifetime!HasLease, Lifetime!HasBody,
        Lifetime!HasStream
<1>10. Lifetime!RoomIsCounted'
    BY <1>1, RoomStays
<1> QED
    BY <1>2, <1>3, <1>4, <1>5, <1>6, <1>7, <1>8, <1>9, <1>10 DEF Lifetime!IInv, Lifetime!TypeOK

\* The result of an attempt, and what it owns, is taken by the application task.
LEMMA TakeResultKeeps == ASSUME Lifetime!IInv, NEW r \in Clients, Lifetime!TakeResult(r) PROVE Lifetime!IInv'
<1> USE LifetimeConstants
<1>a. Lifetime!TasksOK
    BY DEF Lifetime!IInv, Lifetime!TypeOK
<1>b. Lifetime!AnswersOK
    BY DEF Lifetime!IInv, Lifetime!TypeOK
<1>c. Lifetime!CountsOK
    BY DEF Lifetime!IInv, Lifetime!TypeOK
<1>d. Lifetime!FlagsOK
    BY DEF Lifetime!IInv, Lifetime!TypeOK
<1>e. Lifetime!OneMaker
    BY DEF Lifetime!IInv, Lifetime!TypeOK
<1>f. Lifetime!AttemptsAreInside
    BY DEF Lifetime!IInv, Lifetime!TypeOK
<1>g. Lifetime!StreamsAreAlone
    BY DEF Lifetime!IInv, Lifetime!TypeOK
<1>h. Lifetime!OwnedOnce
    BY DEF Lifetime!IInv, Lifetime!TypeOK
<1>i. Lifetime!RoomIsCounted
    BY DEF Lifetime!IInv, Lifetime!TypeOK
<1>1. /\ reqApp[r] = "wait" /\ reqTry[r] = "done"
      /\ reqApp' = [reqApp EXCEPT ![r] = reqApp'[r]] /\ reqApp'[r] \in {"reap", "wait", "send"}
      /\ reqApp'[r] = "wait" => reqLate[r] = "safe"
      /\ reqApp'[r] = "reap" => UNCHANGED <<reqTry, reqResp, reqLate>>
      /\ reqApp'[r] # "reap" =>
            /\ reqResp' = [reqResp EXCEPT ![r] = IF reqLate[r] = "none" THEN reqResp[r] ELSE reqLate[r]]
            /\ reqLate' = [reqLate EXCEPT ![r] = "none"]
            /\ reqTry' = [reqTry EXCEPT ![r] = "none"]
      /\ UNCHANGED <<reqMaker, reqMake, reqFate, reqHeld, reqOpen, reqLeft,
                       reqStopped, reqExpired, reqInside, reqWaiting, reqRefresher,
                       reqAttempts>>
    BY DEF Lifetime!TakeResult, Lifetime!IInv, Lifetime!TypeOK, Lifetime!TasksOK
<1>2. Lifetime!TasksOK'
    BY <1>1, <1>a DEF Lifetime!TasksOK
<1>3. Lifetime!AnswersOK'
    BY <1>1, <1>a, <1>b, <1>e DEF Lifetime!TasksOK, Lifetime!AnswersOK, Lifetime!Kinds,
        Lifetime!OneMaker
<1>4. Lifetime!CountsOK'
    BY <1>1, <1>a, <1>c, <1>f, <1>g, <1>h DEF Lifetime!TasksOK, Lifetime!CountsOK,
        Lifetime!AttemptsAreInside, Lifetime!StreamsAreAlone, Lifetime!OwnedOnce,
        Lifetime!HasLease, Lifetime!HasBody, Lifetime!HasStream
<1>5. Lifetime!FlagsOK'
    BY <1>1, <1>a, <1>d DEF Lifetime!TasksOK, Lifetime!FlagsOK
<1>6. Lifetime!OneMaker'
    BY <1>1, <1>a, <1>b, <1>e, <1>f DEF Lifetime!TasksOK, Lifetime!AnswersOK, Lifetime!Kinds,
        Lifetime!OneMaker, Lifetime!AttemptsAreInside
<1>7. Lifetime!AttemptsAreInside'
    BY <1>1, <1>a, <1>b, <1>c, <1>d, <1>e, <1>f, <1>g DEF Lifetime!TasksOK, Lifetime!AnswersOK,
        Lifetime!Kinds, Lifetime!CountsOK, Lifetime!FlagsOK, Lifetime!OneMaker,
        Lifetime!AttemptsAreInside, Lifetime!StreamsAreAlone
<1>8. Lifetime!StreamsAreAlone'
    BY <1>1, <1>a, <1>b, <1>e, <1>f, <1>g DEF Lifetime!TasksOK, Lifetime!AnswersOK,
        Lifetime!Kinds, Lifetime!OneMaker, Lifetime!AttemptsAreInside, Lifetime!StreamsAreAlone
<1>9. Lifetime!OwnedOnce'
    BY <1>1, <1>a, <1>b, <1>c, <1>e, <1>f, <1>g, <1>h DEF Lifetime!TasksOK, Lifetime!AnswersOK,
        Lifetime!Kinds, Lifetime!CountsOK, Lifetime!OneMaker, Lifetime!AttemptsAreInside,
        Lifetime!StreamsAreAlone, Lifetime!OwnedOnce, Lifetime!HasLease, Lifetime!HasBody,
        Lifetime!HasStream
<1>10. Lifetime!RoomIsCounted'
    BY <1>1, RoomStays
<1> QED
    BY <1>2, <1>3, <1>4, <1>5, <1>6, <1>7, <1>8, <1>9, <1>10 DEF Lifetime!IInv, Lifetime!TypeOK

\* The deadline finds no result: an error is sent, and the attempt goes on.
LEMMA TimeOutKeeps == ASSUME Lifetime!IInv, NEW r \in Clients, Lifetime!TimeOut(r) PROVE Lifetime!IInv'
<1> USE LifetimeConstants
<1>a. Lifetime!TasksOK
    BY DEF Lifetime!IInv, Lifetime!TypeOK
<1>b. Lifetime!AnswersOK
    BY DEF Lifetime!IInv, Lifetime!TypeOK
<1>c. Lifetime!CountsOK
    BY DEF Lifetime!IInv, Lifetime!TypeOK
<1>d. Lifetime!FlagsOK
    BY DEF Lifetime!IInv, Lifetime!TypeOK
<1>e. Lifetime!OneMaker
    BY DEF Lifetime!IInv, Lifetime!TypeOK
<1>f. Lifetime!AttemptsAreInside
    BY DEF Lifetime!IInv, Lifetime!TypeOK
<1>g. Lifetime!StreamsAreAlone
    BY DEF Lifetime!IInv, Lifetime!TypeOK
<1>h. Lifetime!OwnedOnce
    BY DEF Lifetime!IInv, Lifetime!TypeOK
<1>i. Lifetime!RoomIsCounted
    BY DEF Lifetime!IInv, Lifetime!TypeOK
<1>1. /\ reqApp[r] = "wait" /\ reqTry[r] # "done"
      /\ reqApp' = [reqApp EXCEPT ![r] = "send"]
      /\ reqResp' = [reqResp EXCEPT ![r] = "timeout"]
      /\ UNCHANGED <<reqTry, reqMaker, reqMake, reqFate, reqLate, reqHeld, reqOpen,
                       reqLeft, reqStopped, reqExpired, reqInside, reqWaiting,
                       reqRefresher, reqAttempts>>
    BY DEF Lifetime!TimeOut
<1>2. Lifetime!TasksOK'
    BY <1>1, <1>a DEF Lifetime!TasksOK
<1>3. Lifetime!AnswersOK'
    BY <1>1, <1>a, <1>b, <1>e DEF Lifetime!TasksOK, Lifetime!AnswersOK, Lifetime!Kinds,
        Lifetime!OneMaker
<1>4. Lifetime!CountsOK'
    BY <1>1, <1>a, <1>c, <1>f, <1>g, <1>h DEF Lifetime!TasksOK, Lifetime!CountsOK,
        Lifetime!AttemptsAreInside, Lifetime!StreamsAreAlone, Lifetime!OwnedOnce,
        Lifetime!HasLease, Lifetime!HasBody, Lifetime!HasStream
<1>5. Lifetime!FlagsOK'
    BY <1>1, <1>a, <1>d DEF Lifetime!TasksOK, Lifetime!FlagsOK
<1>6. Lifetime!OneMaker'
    BY <1>1, <1>a, <1>b, <1>e, <1>f DEF Lifetime!TasksOK, Lifetime!AnswersOK, Lifetime!Kinds,
        Lifetime!OneMaker, Lifetime!AttemptsAreInside
<1>7. Lifetime!AttemptsAreInside'
    BY <1>1, <1>a, <1>b, <1>c, <1>d, <1>e, <1>f, <1>g DEF Lifetime!TasksOK, Lifetime!AnswersOK,
        Lifetime!Kinds, Lifetime!CountsOK, Lifetime!FlagsOK, Lifetime!OneMaker,
        Lifetime!AttemptsAreInside, Lifetime!StreamsAreAlone
<1>8. Lifetime!StreamsAreAlone'
    BY <1>1, <1>a, <1>b, <1>e, <1>f, <1>g DEF Lifetime!TasksOK, Lifetime!AnswersOK,
        Lifetime!Kinds, Lifetime!OneMaker, Lifetime!AttemptsAreInside, Lifetime!StreamsAreAlone
<1>9. Lifetime!OwnedOnce'
    BY <1>1, <1>a, <1>b, <1>c, <1>e, <1>f, <1>g, <1>h DEF Lifetime!TasksOK, Lifetime!AnswersOK,
        Lifetime!Kinds, Lifetime!CountsOK, Lifetime!OneMaker, Lifetime!AttemptsAreInside,
        Lifetime!StreamsAreAlone, Lifetime!OwnedOnce, Lifetime!HasLease, Lifetime!HasBody,
        Lifetime!HasStream
<1>10. Lifetime!RoomIsCounted'
    BY <1>1, RoomStays
<1> QED
    BY <1>2, <1>3, <1>4, <1>5, <1>6, <1>7, <1>8, <1>9, <1>10 DEF Lifetime!IInv, Lifetime!TypeOK

\* A stream that ends is cleaned up.
LEMMA StreamEndsKeeps == ASSUME Lifetime!IInv, NEW r \in Clients, Lifetime!StreamEnds(r) PROVE Lifetime!IInv'
<1> USE LifetimeConstants
<1>a. Lifetime!TasksOK
    BY DEF Lifetime!IInv, Lifetime!TypeOK
<1>b. Lifetime!AnswersOK
    BY DEF Lifetime!IInv, Lifetime!TypeOK
<1>c. Lifetime!CountsOK
    BY DEF Lifetime!IInv, Lifetime!TypeOK
<1>d. Lifetime!FlagsOK
    BY DEF Lifetime!IInv, Lifetime!TypeOK
<1>e. Lifetime!OneMaker
    BY DEF Lifetime!IInv, Lifetime!TypeOK
<1>f. Lifetime!AttemptsAreInside
    BY DEF Lifetime!IInv, Lifetime!TypeOK
<1>g. Lifetime!StreamsAreAlone
    BY DEF Lifetime!IInv, Lifetime!TypeOK
<1>h. Lifetime!OwnedOnce
    BY DEF Lifetime!IInv, Lifetime!TypeOK
<1>i. Lifetime!RoomIsCounted
    BY DEF Lifetime!IInv, Lifetime!TypeOK
<1>1. /\ reqApp[r] = "send" /\ reqResp[r] = "stream"
      /\ reqApp' = [reqApp EXCEPT ![r] = "clean"]
      /\ UNCHANGED <<reqTry, reqMaker, reqMake, reqFate, reqResp, reqLate, reqHeld,
                       reqOpen, reqLeft, reqStopped, reqExpired, reqInside,
                       reqWaiting, reqRefresher, reqAttempts>>
    BY DEF Lifetime!StreamEnds
<1>2. Lifetime!TasksOK'
    BY <1>1, <1>a DEF Lifetime!TasksOK
<1>3. Lifetime!AnswersOK'
    BY <1>1, <1>a, <1>b, <1>e DEF Lifetime!TasksOK, Lifetime!AnswersOK, Lifetime!Kinds,
        Lifetime!OneMaker
<1>4. Lifetime!CountsOK'
    BY <1>1, <1>a, <1>c, <1>f, <1>g, <1>h DEF Lifetime!TasksOK, Lifetime!CountsOK,
        Lifetime!AttemptsAreInside, Lifetime!StreamsAreAlone, Lifetime!OwnedOnce,
        Lifetime!HasLease, Lifetime!HasBody, Lifetime!HasStream
<1>5. Lifetime!FlagsOK'
    BY <1>1, <1>a, <1>d DEF Lifetime!TasksOK, Lifetime!FlagsOK
<1>6. Lifetime!OneMaker'
    BY <1>1, <1>a, <1>b, <1>e, <1>f DEF Lifetime!TasksOK, Lifetime!AnswersOK, Lifetime!Kinds,
        Lifetime!OneMaker, Lifetime!AttemptsAreInside
<1>7. Lifetime!AttemptsAreInside'
    BY <1>1, <1>a, <1>b, <1>c, <1>d, <1>e, <1>f, <1>g DEF Lifetime!TasksOK, Lifetime!AnswersOK,
        Lifetime!Kinds, Lifetime!CountsOK, Lifetime!FlagsOK, Lifetime!OneMaker,
        Lifetime!AttemptsAreInside, Lifetime!StreamsAreAlone
<1>8. Lifetime!StreamsAreAlone'
    BY <1>1, <1>a, <1>b, <1>e, <1>f, <1>g DEF Lifetime!TasksOK, Lifetime!AnswersOK,
        Lifetime!Kinds, Lifetime!OneMaker, Lifetime!AttemptsAreInside, Lifetime!StreamsAreAlone
<1>9. Lifetime!OwnedOnce'
    BY <1>1, <1>a, <1>b, <1>c, <1>e, <1>f, <1>g, <1>h DEF Lifetime!TasksOK, Lifetime!AnswersOK,
        Lifetime!Kinds, Lifetime!CountsOK, Lifetime!OneMaker, Lifetime!AttemptsAreInside,
        Lifetime!StreamsAreAlone, Lifetime!OwnedOnce, Lifetime!HasLease, Lifetime!HasBody,
        Lifetime!HasStream
<1>10. Lifetime!RoomIsCounted'
    BY <1>1, RoomStays
<1> QED
    BY <1>2, <1>3, <1>4, <1>5, <1>6, <1>7, <1>8, <1>9, <1>10 DEF Lifetime!IInv, Lifetime!TypeOK

\* The cleanup closes the body and releases the lease.
LEMMA CleanedKeeps == ASSUME Lifetime!IInv, NEW r \in Clients, Lifetime!Cleaned(r) PROVE Lifetime!IInv'
<1> USE LifetimeConstants
<1>a. Lifetime!TasksOK
    BY DEF Lifetime!IInv, Lifetime!TypeOK
<1>b. Lifetime!AnswersOK
    BY DEF Lifetime!IInv, Lifetime!TypeOK
<1>c. Lifetime!CountsOK
    BY DEF Lifetime!IInv, Lifetime!TypeOK
<1>d. Lifetime!FlagsOK
    BY DEF Lifetime!IInv, Lifetime!TypeOK
<1>e. Lifetime!OneMaker
    BY DEF Lifetime!IInv, Lifetime!TypeOK
<1>f. Lifetime!AttemptsAreInside
    BY DEF Lifetime!IInv, Lifetime!TypeOK
<1>g. Lifetime!StreamsAreAlone
    BY DEF Lifetime!IInv, Lifetime!TypeOK
<1>h. Lifetime!OwnedOnce
    BY DEF Lifetime!IInv, Lifetime!TypeOK
<1>i. Lifetime!RoomIsCounted
    BY DEF Lifetime!IInv, Lifetime!TypeOK
<1>1. /\ reqApp[r] = "clean"
      /\ reqApp' = [reqApp EXCEPT ![r] = reqApp'[r]]
      /\ reqApp'[r] = IF reqInside[r] THEN "reap" ELSE "gone"
      /\ reqOpen' = [reqOpen EXCEPT ![r] = @ - 1]
      /\ reqHeld' = [reqHeld EXCEPT ![r] = @ - 1]
      /\ UNCHANGED <<reqTry, reqMaker, reqMake, reqFate, reqResp, reqLate, reqLeft,
                       reqStopped, reqExpired, reqInside, reqWaiting, reqRefresher,
                       reqAttempts>>
    BY DEF Lifetime!Cleaned, Lifetime!AfterResponse, Lifetime!IInv, Lifetime!TypeOK,
        Lifetime!TasksOK
<1>2. Lifetime!TasksOK'
    BY <1>1, <1>a DEF Lifetime!TasksOK
<1>3. Lifetime!AnswersOK'
    BY <1>1, <1>a, <1>b, <1>e DEF Lifetime!TasksOK, Lifetime!AnswersOK, Lifetime!Kinds,
        Lifetime!OneMaker
<1>4. Lifetime!CountsOK'
    BY <1>1, <1>a, <1>c, <1>f, <1>g, <1>h DEF Lifetime!TasksOK, Lifetime!CountsOK,
        Lifetime!AttemptsAreInside, Lifetime!StreamsAreAlone, Lifetime!OwnedOnce,
        Lifetime!HasLease, Lifetime!HasBody, Lifetime!HasStream
<1>5. Lifetime!FlagsOK'
    BY <1>1, <1>a, <1>d DEF Lifetime!TasksOK, Lifetime!FlagsOK
<1>6. Lifetime!OneMaker'
    BY <1>1, <1>a, <1>b, <1>e, <1>f DEF Lifetime!TasksOK, Lifetime!AnswersOK, Lifetime!Kinds,
        Lifetime!OneMaker, Lifetime!AttemptsAreInside
<1>7. Lifetime!AttemptsAreInside'
    BY <1>1, <1>a, <1>b, <1>c, <1>d, <1>e, <1>f, <1>g DEF Lifetime!TasksOK, Lifetime!AnswersOK,
        Lifetime!Kinds, Lifetime!CountsOK, Lifetime!FlagsOK, Lifetime!OneMaker,
        Lifetime!AttemptsAreInside, Lifetime!StreamsAreAlone
<1>8. Lifetime!StreamsAreAlone'
    BY <1>1, <1>a, <1>b, <1>e, <1>f, <1>g DEF Lifetime!TasksOK, Lifetime!AnswersOK,
        Lifetime!Kinds, Lifetime!OneMaker, Lifetime!AttemptsAreInside, Lifetime!StreamsAreAlone
<1>9. Lifetime!OwnedOnce'
    BY <1>1, <1>a, <1>b, <1>c, <1>e, <1>f, <1>g, <1>h DEF Lifetime!TasksOK, Lifetime!AnswersOK,
        Lifetime!Kinds, Lifetime!CountsOK, Lifetime!OneMaker, Lifetime!AttemptsAreInside,
        Lifetime!StreamsAreAlone, Lifetime!OwnedOnce, Lifetime!HasLease, Lifetime!HasBody,
        Lifetime!HasStream
<1>10. Lifetime!RoomIsCounted'
    BY <1>1, RoomStays
<1> QED
    BY <1>2, <1>3, <1>4, <1>5, <1>6, <1>7, <1>8, <1>9, <1>10 DEF Lifetime!IInv, Lifetime!TypeOK

\* A response without a body is sent or dropped.
LEMMA ResponseEndsKeeps == ASSUME Lifetime!IInv, NEW r \in Clients, Lifetime!ResponseEnds(r) PROVE Lifetime!IInv'
<1> USE LifetimeConstants
<1>a. Lifetime!TasksOK
    BY DEF Lifetime!IInv, Lifetime!TypeOK
<1>b. Lifetime!AnswersOK
    BY DEF Lifetime!IInv, Lifetime!TypeOK
<1>c. Lifetime!CountsOK
    BY DEF Lifetime!IInv, Lifetime!TypeOK
<1>d. Lifetime!FlagsOK
    BY DEF Lifetime!IInv, Lifetime!TypeOK
<1>e. Lifetime!OneMaker
    BY DEF Lifetime!IInv, Lifetime!TypeOK
<1>f. Lifetime!AttemptsAreInside
    BY DEF Lifetime!IInv, Lifetime!TypeOK
<1>g. Lifetime!StreamsAreAlone
    BY DEF Lifetime!IInv, Lifetime!TypeOK
<1>h. Lifetime!OwnedOnce
    BY DEF Lifetime!IInv, Lifetime!TypeOK
<1>i. Lifetime!RoomIsCounted
    BY DEF Lifetime!IInv, Lifetime!TypeOK
<1>1. /\ reqApp[r] = "send" /\ reqResp[r] # "stream"
      /\ reqApp' = [reqApp EXCEPT ![r] = reqApp'[r]]
      /\ reqApp'[r] = IF reqInside[r] THEN "reap" ELSE "gone"
      /\ UNCHANGED <<reqTry, reqMaker, reqMake, reqFate, reqResp, reqLate, reqHeld,
                       reqOpen, reqLeft, reqStopped, reqExpired, reqInside,
                       reqWaiting, reqRefresher, reqAttempts>>
    BY DEF Lifetime!ResponseEnds, Lifetime!AfterResponse, Lifetime!IInv, Lifetime!TypeOK,
        Lifetime!TasksOK
<1>2. Lifetime!TasksOK'
    BY <1>1, <1>a DEF Lifetime!TasksOK
<1>3. Lifetime!AnswersOK'
    BY <1>1, <1>a, <1>b, <1>e DEF Lifetime!TasksOK, Lifetime!AnswersOK, Lifetime!Kinds,
        Lifetime!OneMaker
<1>4. Lifetime!CountsOK'
    BY <1>1, <1>a, <1>c, <1>f, <1>g, <1>h DEF Lifetime!TasksOK, Lifetime!CountsOK,
        Lifetime!AttemptsAreInside, Lifetime!StreamsAreAlone, Lifetime!OwnedOnce,
        Lifetime!HasLease, Lifetime!HasBody, Lifetime!HasStream
<1>5. Lifetime!FlagsOK'
    BY <1>1, <1>a, <1>d DEF Lifetime!TasksOK, Lifetime!FlagsOK
<1>6. Lifetime!OneMaker'
    BY <1>1, <1>a, <1>b, <1>e, <1>f DEF Lifetime!TasksOK, Lifetime!AnswersOK, Lifetime!Kinds,
        Lifetime!OneMaker, Lifetime!AttemptsAreInside
<1>7. Lifetime!AttemptsAreInside'
    BY <1>1, <1>a, <1>b, <1>c, <1>d, <1>e, <1>f, <1>g DEF Lifetime!TasksOK, Lifetime!AnswersOK,
        Lifetime!Kinds, Lifetime!CountsOK, Lifetime!FlagsOK, Lifetime!OneMaker,
        Lifetime!AttemptsAreInside, Lifetime!StreamsAreAlone
<1>8. Lifetime!StreamsAreAlone'
    BY <1>1, <1>a, <1>b, <1>e, <1>f, <1>g DEF Lifetime!TasksOK, Lifetime!AnswersOK,
        Lifetime!Kinds, Lifetime!OneMaker, Lifetime!AttemptsAreInside, Lifetime!StreamsAreAlone
<1>9. Lifetime!OwnedOnce'
    BY <1>1, <1>a, <1>b, <1>c, <1>e, <1>f, <1>g, <1>h DEF Lifetime!TasksOK, Lifetime!AnswersOK,
        Lifetime!Kinds, Lifetime!CountsOK, Lifetime!OneMaker, Lifetime!AttemptsAreInside,
        Lifetime!StreamsAreAlone, Lifetime!OwnedOnce, Lifetime!HasLease, Lifetime!HasBody,
        Lifetime!HasStream
<1>10. Lifetime!RoomIsCounted'
    BY <1>1, RoomStays
<1> QED
    BY <1>2, <1>3, <1>4, <1>5, <1>6, <1>7, <1>8, <1>9, <1>10 DEF Lifetime!IInv, Lifetime!TypeOK

\* The client leaves.
LEMMA ClientLeavesKeeps == ASSUME Lifetime!IInv, NEW r \in Clients, Lifetime!ClientLeaves(r) PROVE Lifetime!IInv'
<1> USE LifetimeConstants
<1>a. Lifetime!TasksOK
    BY DEF Lifetime!IInv, Lifetime!TypeOK
<1>b. Lifetime!AnswersOK
    BY DEF Lifetime!IInv, Lifetime!TypeOK
<1>c. Lifetime!CountsOK
    BY DEF Lifetime!IInv, Lifetime!TypeOK
<1>d. Lifetime!FlagsOK
    BY DEF Lifetime!IInv, Lifetime!TypeOK
<1>e. Lifetime!OneMaker
    BY DEF Lifetime!IInv, Lifetime!TypeOK
<1>f. Lifetime!AttemptsAreInside
    BY DEF Lifetime!IInv, Lifetime!TypeOK
<1>g. Lifetime!StreamsAreAlone
    BY DEF Lifetime!IInv, Lifetime!TypeOK
<1>h. Lifetime!OwnedOnce
    BY DEF Lifetime!IInv, Lifetime!TypeOK
<1>i. Lifetime!RoomIsCounted
    BY DEF Lifetime!IInv, Lifetime!TypeOK
<1>1. /\ reqLeft' = [reqLeft EXCEPT ![r] = TRUE]
      /\ UNCHANGED <<reqApp, reqTry, reqMaker, reqMake, reqFate, reqResp, reqLate,
                       reqHeld, reqOpen, reqStopped, reqExpired, reqInside,
                       reqWaiting, reqRefresher, reqAttempts>>
    BY DEF Lifetime!ClientLeaves
<1>2. Lifetime!TasksOK'
    BY <1>1, <1>a DEF Lifetime!TasksOK
<1>3. Lifetime!AnswersOK'
    BY <1>1, <1>a, <1>b, <1>e DEF Lifetime!TasksOK, Lifetime!AnswersOK, Lifetime!Kinds,
        Lifetime!OneMaker
<1>4. Lifetime!CountsOK'
    BY <1>1, <1>a, <1>c, <1>f, <1>g, <1>h DEF Lifetime!TasksOK, Lifetime!CountsOK,
        Lifetime!AttemptsAreInside, Lifetime!StreamsAreAlone, Lifetime!OwnedOnce,
        Lifetime!HasLease, Lifetime!HasBody, Lifetime!HasStream
<1>5. Lifetime!FlagsOK'
    BY <1>1, <1>a, <1>d DEF Lifetime!TasksOK, Lifetime!FlagsOK
<1>6. Lifetime!OneMaker'
    BY <1>1, <1>a, <1>b, <1>e, <1>f DEF Lifetime!TasksOK, Lifetime!AnswersOK, Lifetime!Kinds,
        Lifetime!OneMaker, Lifetime!AttemptsAreInside
<1>7. Lifetime!AttemptsAreInside'
    BY <1>1, <1>a, <1>b, <1>c, <1>d, <1>e, <1>f, <1>g DEF Lifetime!TasksOK, Lifetime!AnswersOK,
        Lifetime!Kinds, Lifetime!CountsOK, Lifetime!FlagsOK, Lifetime!OneMaker,
        Lifetime!AttemptsAreInside, Lifetime!StreamsAreAlone
<1>8. Lifetime!StreamsAreAlone'
    BY <1>1, <1>a, <1>b, <1>e, <1>f, <1>g DEF Lifetime!TasksOK, Lifetime!AnswersOK,
        Lifetime!Kinds, Lifetime!OneMaker, Lifetime!AttemptsAreInside, Lifetime!StreamsAreAlone
<1>9. Lifetime!OwnedOnce'
    BY <1>1, <1>a, <1>b, <1>c, <1>e, <1>f, <1>g, <1>h DEF Lifetime!TasksOK, Lifetime!AnswersOK,
        Lifetime!Kinds, Lifetime!CountsOK, Lifetime!OneMaker, Lifetime!AttemptsAreInside,
        Lifetime!StreamsAreAlone, Lifetime!OwnedOnce, Lifetime!HasLease, Lifetime!HasBody,
        Lifetime!HasStream
<1>10. Lifetime!RoomIsCounted'
    BY <1>1, RoomStays
<1> QED
    BY <1>2, <1>3, <1>4, <1>5, <1>6, <1>7, <1>8, <1>9, <1>10 DEF Lifetime!IInv, Lifetime!TypeOK

\* The cancellation lands between two rounds or in the recovery loop.
LEMMA CancelAppKeeps == ASSUME Lifetime!IInv, NEW r \in Clients, Lifetime!CancelApp(r) PROVE Lifetime!IInv'
<1> USE LifetimeConstants
<1>a. Lifetime!TasksOK
    BY DEF Lifetime!IInv, Lifetime!TypeOK
<1>b. Lifetime!AnswersOK
    BY DEF Lifetime!IInv, Lifetime!TypeOK
<1>c. Lifetime!CountsOK
    BY DEF Lifetime!IInv, Lifetime!TypeOK
<1>d. Lifetime!FlagsOK
    BY DEF Lifetime!IInv, Lifetime!TypeOK
<1>e. Lifetime!OneMaker
    BY DEF Lifetime!IInv, Lifetime!TypeOK
<1>f. Lifetime!AttemptsAreInside
    BY DEF Lifetime!IInv, Lifetime!TypeOK
<1>g. Lifetime!StreamsAreAlone
    BY DEF Lifetime!IInv, Lifetime!TypeOK
<1>h. Lifetime!OwnedOnce
    BY DEF Lifetime!IInv, Lifetime!TypeOK
<1>i. Lifetime!RoomIsCounted
    BY DEF Lifetime!IInv, Lifetime!TypeOK
<1>1. /\ reqApp[r] \in {"offered", "wait"}
      /\ reqApp' = [reqApp EXCEPT ![r] = reqApp'[r]]
      /\ reqApp'[r] = IF reqInside[r] THEN "reap" ELSE "gone"
      /\ UNCHANGED <<reqTry, reqMaker, reqMake, reqFate, reqResp, reqLate, reqHeld,
                       reqOpen, reqLeft, reqStopped, reqExpired, reqInside,
                       reqWaiting, reqRefresher, reqAttempts>>
    BY DEF Lifetime!CancelApp, Lifetime!AfterResponse, Lifetime!IInv, Lifetime!TypeOK,
        Lifetime!TasksOK
<1>2. Lifetime!TasksOK'
    BY <1>1, <1>a DEF Lifetime!TasksOK
<1>3. Lifetime!AnswersOK'
    BY <1>1, <1>a, <1>b, <1>e DEF Lifetime!TasksOK, Lifetime!AnswersOK, Lifetime!Kinds,
        Lifetime!OneMaker
<1>4. Lifetime!CountsOK'
    BY <1>1, <1>a, <1>c, <1>f, <1>g, <1>h DEF Lifetime!TasksOK, Lifetime!CountsOK,
        Lifetime!AttemptsAreInside, Lifetime!StreamsAreAlone, Lifetime!OwnedOnce,
        Lifetime!HasLease, Lifetime!HasBody, Lifetime!HasStream
<1>5. Lifetime!FlagsOK'
    BY <1>1, <1>a, <1>d DEF Lifetime!TasksOK, Lifetime!FlagsOK
<1>6. Lifetime!OneMaker'
    BY <1>1, <1>a, <1>b, <1>e, <1>f DEF Lifetime!TasksOK, Lifetime!AnswersOK, Lifetime!Kinds,
        Lifetime!OneMaker, Lifetime!AttemptsAreInside
<1>7. Lifetime!AttemptsAreInside'
    BY <1>1, <1>a, <1>b, <1>c, <1>d, <1>e, <1>f, <1>g DEF Lifetime!TasksOK, Lifetime!AnswersOK,
        Lifetime!Kinds, Lifetime!CountsOK, Lifetime!FlagsOK, Lifetime!OneMaker,
        Lifetime!AttemptsAreInside, Lifetime!StreamsAreAlone
<1>8. Lifetime!StreamsAreAlone'
    BY <1>1, <1>a, <1>b, <1>e, <1>f, <1>g DEF Lifetime!TasksOK, Lifetime!AnswersOK,
        Lifetime!Kinds, Lifetime!OneMaker, Lifetime!AttemptsAreInside, Lifetime!StreamsAreAlone
<1>9. Lifetime!OwnedOnce'
    BY <1>1, <1>a, <1>b, <1>c, <1>e, <1>f, <1>g, <1>h DEF Lifetime!TasksOK, Lifetime!AnswersOK,
        Lifetime!Kinds, Lifetime!CountsOK, Lifetime!OneMaker, Lifetime!AttemptsAreInside,
        Lifetime!StreamsAreAlone, Lifetime!OwnedOnce, Lifetime!HasLease, Lifetime!HasBody,
        Lifetime!HasStream
<1>10. Lifetime!RoomIsCounted'
    BY <1>1, RoomStays
<1> QED
    BY <1>2, <1>3, <1>4, <1>5, <1>6, <1>7, <1>8, <1>9, <1>10 DEF Lifetime!IInv, Lifetime!TypeOK

\* The attempt is cancelled.
LEMMA StopAttemptKeeps == ASSUME Lifetime!IInv, NEW r \in Clients, Lifetime!StopAttempt(r) PROVE Lifetime!IInv'
<1> USE LifetimeConstants
<1>a. Lifetime!TasksOK
    BY DEF Lifetime!IInv, Lifetime!TypeOK
<1>b. Lifetime!AnswersOK
    BY DEF Lifetime!IInv, Lifetime!TypeOK
<1>c. Lifetime!CountsOK
    BY DEF Lifetime!IInv, Lifetime!TypeOK
<1>d. Lifetime!FlagsOK
    BY DEF Lifetime!IInv, Lifetime!TypeOK
<1>e. Lifetime!OneMaker
    BY DEF Lifetime!IInv, Lifetime!TypeOK
<1>f. Lifetime!AttemptsAreInside
    BY DEF Lifetime!IInv, Lifetime!TypeOK
<1>g. Lifetime!StreamsAreAlone
    BY DEF Lifetime!IInv, Lifetime!TypeOK
<1>h. Lifetime!OwnedOnce
    BY DEF Lifetime!IInv, Lifetime!TypeOK
<1>i. Lifetime!RoomIsCounted
    BY DEF Lifetime!IInv, Lifetime!TypeOK
<1>1. /\ reqStopped' = [reqStopped EXCEPT ![r] = TRUE]
      /\ UNCHANGED <<reqApp, reqTry, reqMaker, reqMake, reqFate, reqResp, reqLate,
                       reqHeld, reqOpen, reqLeft, reqExpired, reqInside, reqWaiting,
                       reqRefresher, reqAttempts>>
    BY DEF Lifetime!StopAttempt
<1>2. Lifetime!TasksOK'
    BY <1>1, <1>a DEF Lifetime!TasksOK
<1>3. Lifetime!AnswersOK'
    BY <1>1, <1>a, <1>b, <1>e DEF Lifetime!TasksOK, Lifetime!AnswersOK, Lifetime!Kinds,
        Lifetime!OneMaker
<1>4. Lifetime!CountsOK'
    BY <1>1, <1>a, <1>c, <1>f, <1>g, <1>h DEF Lifetime!TasksOK, Lifetime!CountsOK,
        Lifetime!AttemptsAreInside, Lifetime!StreamsAreAlone, Lifetime!OwnedOnce,
        Lifetime!HasLease, Lifetime!HasBody, Lifetime!HasStream
<1>5. Lifetime!FlagsOK'
    BY <1>1, <1>a, <1>d DEF Lifetime!TasksOK, Lifetime!FlagsOK
<1>6. Lifetime!OneMaker'
    BY <1>1, <1>a, <1>b, <1>e, <1>f DEF Lifetime!TasksOK, Lifetime!AnswersOK, Lifetime!Kinds,
        Lifetime!OneMaker, Lifetime!AttemptsAreInside
<1>7. Lifetime!AttemptsAreInside'
    BY <1>1, <1>a, <1>b, <1>c, <1>d, <1>e, <1>f, <1>g DEF Lifetime!TasksOK, Lifetime!AnswersOK,
        Lifetime!Kinds, Lifetime!CountsOK, Lifetime!FlagsOK, Lifetime!OneMaker,
        Lifetime!AttemptsAreInside, Lifetime!StreamsAreAlone
<1>8. Lifetime!StreamsAreAlone'
    BY <1>1, <1>a, <1>b, <1>e, <1>f, <1>g DEF Lifetime!TasksOK, Lifetime!AnswersOK,
        Lifetime!Kinds, Lifetime!OneMaker, Lifetime!AttemptsAreInside, Lifetime!StreamsAreAlone
<1>9. Lifetime!OwnedOnce'
    BY <1>1, <1>a, <1>b, <1>c, <1>e, <1>f, <1>g, <1>h DEF Lifetime!TasksOK, Lifetime!AnswersOK,
        Lifetime!Kinds, Lifetime!CountsOK, Lifetime!OneMaker, Lifetime!AttemptsAreInside,
        Lifetime!StreamsAreAlone, Lifetime!OwnedOnce, Lifetime!HasLease, Lifetime!HasBody,
        Lifetime!HasStream
<1>10. Lifetime!RoomIsCounted'
    BY <1>1, RoomStays
<1> QED
    BY <1>2, <1>3, <1>4, <1>5, <1>6, <1>7, <1>8, <1>9, <1>10 DEF Lifetime!IInv, Lifetime!TypeOK

\* The wait ends with its attempt, and a stream that nobody took is disposed of.
LEMMA ReapKeeps == ASSUME Lifetime!IInv, NEW r \in Clients, Lifetime!Reap(r) PROVE Lifetime!IInv'
<1> USE LifetimeConstants
<1>a. Lifetime!TasksOK
    BY DEF Lifetime!IInv, Lifetime!TypeOK
<1>b. Lifetime!AnswersOK
    BY DEF Lifetime!IInv, Lifetime!TypeOK
<1>c. Lifetime!CountsOK
    BY DEF Lifetime!IInv, Lifetime!TypeOK
<1>d. Lifetime!FlagsOK
    BY DEF Lifetime!IInv, Lifetime!TypeOK
<1>e. Lifetime!OneMaker
    BY DEF Lifetime!IInv, Lifetime!TypeOK
<1>f. Lifetime!AttemptsAreInside
    BY DEF Lifetime!IInv, Lifetime!TypeOK
<1>g. Lifetime!StreamsAreAlone
    BY DEF Lifetime!IInv, Lifetime!TypeOK
<1>h. Lifetime!OwnedOnce
    BY DEF Lifetime!IInv, Lifetime!TypeOK
<1>i. Lifetime!RoomIsCounted
    BY DEF Lifetime!IInv, Lifetime!TypeOK
<1>1. /\ reqApp[r] = "reap" /\ reqTry[r] \in {"none", "done"}
      /\ reqApp' = [reqApp EXCEPT ![r] = IF reqLate[r] = "stream" THEN "dispose" ELSE "gone"]
      /\ reqLate[r] = "stream" => UNCHANGED <<reqInside, reqWaiting>>
      /\ reqLate[r] # "stream" =>
            /\ reqInside' = [reqInside EXCEPT ![r] = FALSE]
            /\ reqWaiting' = reqWaiting - 1
      /\ UNCHANGED <<reqTry, reqMaker, reqMake, reqFate, reqResp, reqLate, reqHeld,
                       reqOpen, reqLeft, reqStopped, reqExpired, reqRefresher,
                       reqAttempts>>
    BY DEF Lifetime!Reap
<1>x. reqWaiting - 1 \in 0 .. Lifetime!Cardinality(Clients)
    <2>1. reqInside[r]
        BY <1>1, <1>f DEF Lifetime!AttemptsAreInside
    <2> DEFINE S == {q \in Clients : reqInside[q]}
    <2>2. S \in SUBSET Clients /\ r \in S
        BY <2>1
    <2>3. reqWaiting = Lifetime!Cardinality(S)
        BY <1>i DEF Lifetime!RoomIsCounted
    <2> HIDE DEF S
    <2>4. /\ Lifetime!Cardinality(S) \in Nat /\ Lifetime!Cardinality(S) <= Lifetime!Cardinality(Clients)
          /\ Lifetime!Cardinality(S \ {r}) = Lifetime!Cardinality(S) - 1 /\ Lifetime!Cardinality(S \ {r}) \in Nat
        BY <2>2, CountOfClients
    <2> QED
        BY <2>3, <2>4, CountOfClients
<1>2. Lifetime!TasksOK'
    BY <1>1, <1>a, <1>x DEF Lifetime!TasksOK
<1>3. Lifetime!AnswersOK'
    BY <1>1, <1>a, <1>b, <1>e, <1>x DEF Lifetime!TasksOK, Lifetime!AnswersOK, Lifetime!Kinds,
        Lifetime!OneMaker
<1>4. Lifetime!CountsOK'
    BY <1>1, <1>a, <1>c, <1>f, <1>g, <1>h, <1>i, CountOfClients, <1>x DEF Lifetime!CountsOK,
        Lifetime!AttemptsAreInside, Lifetime!StreamsAreAlone, Lifetime!OwnedOnce,
        Lifetime!HasLease, Lifetime!HasBody, Lifetime!HasStream, Lifetime!RoomIsCounted
<1>5. Lifetime!FlagsOK'
    BY <1>1, <1>a, <1>d, <1>x DEF Lifetime!TasksOK, Lifetime!FlagsOK
<1>6. Lifetime!OneMaker'
    BY <1>1, <1>a, <1>b, <1>e, <1>f, <1>x DEF Lifetime!TasksOK, Lifetime!AnswersOK,
        Lifetime!Kinds, Lifetime!OneMaker, Lifetime!AttemptsAreInside
<1>7. Lifetime!AttemptsAreInside'
    BY <1>1, <1>a, <1>b, <1>c, <1>d, <1>e, <1>f, <1>g, <1>x DEF Lifetime!TasksOK,
        Lifetime!AnswersOK, Lifetime!Kinds, Lifetime!CountsOK, Lifetime!FlagsOK,
        Lifetime!OneMaker, Lifetime!AttemptsAreInside, Lifetime!StreamsAreAlone
<1>8. Lifetime!StreamsAreAlone'
    BY <1>1, <1>a, <1>b, <1>e, <1>f, <1>g, <1>x DEF Lifetime!TasksOK, Lifetime!AnswersOK,
        Lifetime!Kinds, Lifetime!OneMaker, Lifetime!AttemptsAreInside, Lifetime!StreamsAreAlone
<1>9. Lifetime!OwnedOnce'
    BY <1>1, <1>a, <1>b, <1>c, <1>e, <1>f, <1>g, <1>h, <1>x DEF Lifetime!TasksOK,
        Lifetime!AnswersOK, Lifetime!Kinds, Lifetime!CountsOK, Lifetime!OneMaker,
        Lifetime!AttemptsAreInside, Lifetime!StreamsAreAlone, Lifetime!OwnedOnce,
        Lifetime!HasLease, Lifetime!HasBody, Lifetime!HasStream
<1>10. Lifetime!RoomIsCounted'
    <2>1. CASE reqLate[r] # "stream"
        <3>1. reqInside[r]
            BY <1>1, <1>f DEF Lifetime!AttemptsAreInside
        <3>2. {q \in Clients : reqInside'[q]} = {q \in Clients : reqInside[q]} \ {r}
            BY <1>1, <2>1, <1>d DEF Lifetime!FlagsOK
        <3>3. {q \in Clients : reqInside[q]} \in SUBSET Clients /\ r \in {q \in Clients : reqInside[q]}
            BY <3>1
        <3>4. reqWaiting' = reqWaiting - 1
            BY <1>1, <2>1
        <3> QED
            BY <1>c, <1>i, <3>2, <3>3, <3>4, CountOfClients DEF Lifetime!RoomIsCounted,
                Lifetime!CountsOK
    <2>2. CASE reqLate[r] = "stream"
        BY <1>1, <2>2, RoomStays
    <2> QED
        BY <2>1, <2>2
<1> QED
    BY <1>2, <1>3, <1>4, <1>5, <1>6, <1>7, <1>8, <1>9, <1>10 DEF Lifetime!IInv, Lifetime!TypeOK

\* What nobody took is closed and released.
LEMMA DisposeKeeps == ASSUME Lifetime!IInv, NEW r \in Clients, Lifetime!Dispose(r) PROVE Lifetime!IInv'
<1> USE LifetimeConstants
<1>a. Lifetime!TasksOK
    BY DEF Lifetime!IInv, Lifetime!TypeOK
<1>b. Lifetime!AnswersOK
    BY DEF Lifetime!IInv, Lifetime!TypeOK
<1>c. Lifetime!CountsOK
    BY DEF Lifetime!IInv, Lifetime!TypeOK
<1>d. Lifetime!FlagsOK
    BY DEF Lifetime!IInv, Lifetime!TypeOK
<1>e. Lifetime!OneMaker
    BY DEF Lifetime!IInv, Lifetime!TypeOK
<1>f. Lifetime!AttemptsAreInside
    BY DEF Lifetime!IInv, Lifetime!TypeOK
<1>g. Lifetime!StreamsAreAlone
    BY DEF Lifetime!IInv, Lifetime!TypeOK
<1>h. Lifetime!OwnedOnce
    BY DEF Lifetime!IInv, Lifetime!TypeOK
<1>i. Lifetime!RoomIsCounted
    BY DEF Lifetime!IInv, Lifetime!TypeOK
<1>1. /\ reqApp[r] = "dispose"
      /\ reqApp' = [reqApp EXCEPT ![r] = "gone"]
      /\ reqOpen' = [reqOpen EXCEPT ![r] = @ - 1]
      /\ reqHeld' = [reqHeld EXCEPT ![r] = @ - 1]
      /\ reqLate' = [reqLate EXCEPT ![r] = "none"]
      /\ reqInside' = [reqInside EXCEPT ![r] = FALSE]
      /\ reqWaiting' = reqWaiting - 1
      /\ UNCHANGED <<reqTry, reqMaker, reqMake, reqFate, reqResp, reqLeft,
                       reqStopped, reqExpired, reqRefresher, reqAttempts>>
    BY DEF Lifetime!Dispose
<1>x. reqWaiting - 1 \in 0 .. Lifetime!Cardinality(Clients)
    <2>1. reqInside[r]
        BY <1>1, <1>f DEF Lifetime!AttemptsAreInside
    <2> DEFINE S == {q \in Clients : reqInside[q]}
    <2>2. S \in SUBSET Clients /\ r \in S
        BY <2>1
    <2>3. reqWaiting = Lifetime!Cardinality(S)
        BY <1>i DEF Lifetime!RoomIsCounted
    <2> HIDE DEF S
    <2>4. /\ Lifetime!Cardinality(S) \in Nat /\ Lifetime!Cardinality(S) <= Lifetime!Cardinality(Clients)
          /\ Lifetime!Cardinality(S \ {r}) = Lifetime!Cardinality(S) - 1 /\ Lifetime!Cardinality(S \ {r}) \in Nat
        BY <2>2, CountOfClients
    <2> QED
        BY <2>3, <2>4, CountOfClients
<1>2. Lifetime!TasksOK'
    BY <1>1, <1>a, <1>x DEF Lifetime!TasksOK
<1>3. Lifetime!AnswersOK'
    BY <1>1, <1>a, <1>b, <1>e, <1>x DEF Lifetime!TasksOK, Lifetime!AnswersOK, Lifetime!Kinds,
        Lifetime!OneMaker
<1>4. Lifetime!CountsOK'
    BY <1>1, <1>a, <1>c, <1>f, <1>g, <1>h, <1>i, CountOfClients, <1>x DEF Lifetime!CountsOK,
        Lifetime!AttemptsAreInside, Lifetime!StreamsAreAlone, Lifetime!OwnedOnce,
        Lifetime!HasLease, Lifetime!HasBody, Lifetime!HasStream, Lifetime!RoomIsCounted
<1>5. Lifetime!FlagsOK'
    BY <1>1, <1>a, <1>d, <1>x DEF Lifetime!TasksOK, Lifetime!FlagsOK
<1>6. Lifetime!OneMaker'
    BY <1>1, <1>a, <1>b, <1>e, <1>f, <1>x DEF Lifetime!TasksOK, Lifetime!AnswersOK,
        Lifetime!Kinds, Lifetime!OneMaker, Lifetime!AttemptsAreInside
<1>7. Lifetime!AttemptsAreInside'
    BY <1>1, <1>a, <1>b, <1>c, <1>d, <1>e, <1>f, <1>g, <1>x DEF Lifetime!TasksOK,
        Lifetime!AnswersOK, Lifetime!Kinds, Lifetime!CountsOK, Lifetime!FlagsOK,
        Lifetime!OneMaker, Lifetime!AttemptsAreInside, Lifetime!StreamsAreAlone
<1>8. Lifetime!StreamsAreAlone'
    BY <1>1, <1>a, <1>b, <1>e, <1>f, <1>g, <1>x DEF Lifetime!TasksOK, Lifetime!AnswersOK,
        Lifetime!Kinds, Lifetime!OneMaker, Lifetime!AttemptsAreInside, Lifetime!StreamsAreAlone
<1>9. Lifetime!OwnedOnce'
    BY <1>1, <1>a, <1>b, <1>c, <1>e, <1>f, <1>g, <1>h, <1>x DEF Lifetime!TasksOK,
        Lifetime!AnswersOK, Lifetime!Kinds, Lifetime!CountsOK, Lifetime!OneMaker,
        Lifetime!AttemptsAreInside, Lifetime!StreamsAreAlone, Lifetime!OwnedOnce,
        Lifetime!HasLease, Lifetime!HasBody, Lifetime!HasStream
<1>10. Lifetime!RoomIsCounted'
    <2>1. CASE TRUE
        <3>1. reqInside[r]
            BY <1>1, <1>f DEF Lifetime!AttemptsAreInside
        <3>2. {q \in Clients : reqInside'[q]} = {q \in Clients : reqInside[q]} \ {r}
            BY <1>1, <2>1, <1>d DEF Lifetime!FlagsOK
        <3>3. {q \in Clients : reqInside[q]} \in SUBSET Clients /\ r \in {q \in Clients : reqInside[q]}
            BY <3>1
        <3>4. reqWaiting' = reqWaiting - 1
            BY <1>1, <2>1
        <3> QED
            BY <1>c, <1>i, <3>2, <3>3, <3>4, CountOfClients DEF Lifetime!RoomIsCounted,
                Lifetime!CountsOK
    <2> QED
        BY <2>1
<1> QED
    BY <1>2, <1>3, <1>4, <1>5, <1>6, <1>7, <1>8, <1>9, <1>10 DEF Lifetime!IInv, Lifetime!TypeOK

LEMMA LifetimeStep == Lifetime!IInv /\ [Lifetime!Next]_Lifetime!vars => Lifetime!IInv'
<1> SUFFICES ASSUME Lifetime!IInv, [Lifetime!Next]_Lifetime!vars PROVE Lifetime!IInv'
    OBVIOUS
<1>1. ASSUME UNCHANGED Lifetime!vars PROVE Lifetime!IInv'
    BY <1>1 DEF Lifetime!vars, Lifetime!IInv, Lifetime!TypeOK, Lifetime!TasksOK,
        Lifetime!AnswersOK, Lifetime!CountsOK, Lifetime!FlagsOK, Lifetime!OneMaker,
        Lifetime!AttemptsAreInside, Lifetime!StreamsAreAlone, Lifetime!OwnedOnce,
        Lifetime!HasLease, Lifetime!HasBody, Lifetime!HasStream, Lifetime!RoomIsCounted
<1>2. ASSUME NEW r \in Clients, Lifetime!Step(r) PROVE Lifetime!IInv'
    BY <1>2, AcquireKeeps, HandlerEndsKeeps, OpenBodyKeeps, FirstChunkKeeps,
        EndsBeforeStartKeeps, PreStartClosedKeeps, CancelMakingKeeps, AnotherRoundKeeps,
        SendFirstKeeps, EnterWaitKeeps, StartAttemptKeeps, AttemptWakesKeeps,
        TakeRefreshLockKeeps, RefreshedKeeps, AttemptStopsKeeps, ExpireKeeps, TakeResultKeeps,
        TimeOutKeeps, StreamEndsKeeps, CleanedKeeps, ResponseEndsKeeps, CancelAppKeeps,
        StopAttemptKeeps, ReapKeeps, DisposeKeeps DEF Lifetime!Step
<1>3. ASSUME NEW r \in Clients, Lifetime!ClientLeaves(r) PROVE Lifetime!IInv'
    BY <1>3, ClientLeavesKeeps
<1> QED
    BY <1>1, <1>2, <1>3 DEF Lifetime!Next

LEMMA LifetimeMove == [MCNext]_MCVars => [Lifetime!Next]_Lifetime!vars
BY DEF MCNext, MCVars, requestVars, Lifetime!vars

LEMMA LifetimeInvariant == MCSpec => []Lifetime!IInv
<1>1. MCInit => Lifetime!IInv
    BY LifetimeInit DEF MCInit
<1>2. Lifetime!IInv /\ [MCNext]_MCVars => Lifetime!IInv'
    BY LifetimeStep, LifetimeMove
<1> QED
    BY <1>1, <1>2, PTL DEF MCSpec

\* What api/request_lifetime.py and api/capacity_recovery.py promise together:
\* whenever a request is over, and however it ended, its leases, its bodies,
\* its attempts and its place in the waiting room are given back.
THEOREM RequestsLeaveNothing == MCSpec => []NothingIsLeaked
<1>1. Lifetime!IInv => NothingIsLeaked
    <2> SUFFICES ASSUME Lifetime!IInv PROVE NothingIsLeaked
        OBVIOUS
    <2>1. Lifetime!TasksOK /\ Lifetime!FlagsOK /\ Lifetime!OneMaker /\ Lifetime!AttemptsAreInside /\ Lifetime!StreamsAreAlone /\ Lifetime!OwnedOnce
          /\ Lifetime!RoomIsCounted
        BY DEF Lifetime!IInv, Lifetime!TypeOK
    <2>2. ASSUME NEW r \in Clients PROVE Lifetime!BodyIsLeased(r)
        BY <2>1 DEF Lifetime!BodyIsLeased, Lifetime!OwnedOnce, Lifetime!HasLease,
            Lifetime!HasBody
    <2>3. ASSUME NEW r \in Clients, reqApp[r] = "gone"
          PROVE  /\ reqHeld[r] = 0 /\ reqOpen[r] = 0
                 /\ reqTry[r] \in {"none", "done"} /\ reqMake[r] = "idle"
                 /\ ~reqInside[r] /\ reqRefresher # r
        BY <2>1, <2>3 DEF Lifetime!TasksOK, Lifetime!FlagsOK, Lifetime!OneMaker,
            Lifetime!AttemptsAreInside, Lifetime!StreamsAreAlone, Lifetime!OwnedOnce,
            Lifetime!HasLease, Lifetime!HasBody, Lifetime!HasStream
    <2> QED
        BY <2>1, <2>2, <2>3 DEF NothingIsLeaked, Lifetime!NothingIsLeaked,
            Lifetime!RoomIsCounted
<1> QED
    BY <1>1, LifetimeInvariant, PTL

(***************************************************************************)
(* Routing: what a selection is                                            *)
(***************************************************************************)

LEMMA MaxIsTop == \A S : Routing!Max(S) = Top(S)
BY DEF Routing!Max, Top

\* Only, as it goes through the sequence.
LEMMA OnlySteps ==
    ASSUME NEW M, NEW s \in Seq(M), NEW E
    PROVE  \E f : /\ Routing!Only(s, E) = f[1 .. Len(s)]
                  /\ f[1 .. 0] = << >>
                  /\ \A k \in 1 .. Len(s) :
                        f[1 .. k] = IF s[k] \in E THEN Append(f[1 .. k - 1], s[k])
                                    ELSE f[1 .. k - 1]
<1> DEFINE n == Len(s)
           X == Seq(M)
           g == [p \in X \X (1 .. n) |-> IF s[p[2]] \in E THEN Append(p[1], s[p[2]]) ELSE p[1]]
           It == CHOOSE f : f = [q \in SUBSET (1 .. n) |->
                     IF q = {} THEN << >>
                     ELSE IF s[Top(q)] \in E THEN Append(f[q \ {Top(q)}], s[Top(q)])
                     ELSE f[q \ {Top(q)}]]
<1>1. n \in Nat /\ << >> \in X /\ g \in [X \X (1 .. n) -> X]
    OBVIOUS
<1>2. PICK f : IsFold(f, n, X, << >>, g)
    <2> HIDE DEF g, X, n
    <2> QED
        BY <1>1, FoldExists
<1>3. ASSUME NEW q \in SUBSET (1 .. n)
      PROVE  f[q] = IF q = {} THEN << >>
                    ELSE IF s[Top(q)] \in E THEN Append(f[q \ {Top(q)}], s[Top(q)])
                    ELSE f[q \ {Top(q)}]
    <2>1. CASE q = {}
        BY <1>2, <2>1 DEF IsFold
    <2>2. CASE q # {}
        <3>1. Top(q) \in 1 .. n /\ q \ {Top(q)} \in SUBSET (1 .. n)
            BY <1>1, <2>2, Beginnings
        <3>2. <<f[q \ {Top(q)}], Top(q)>> \in X \X (1 .. n)
            BY <1>2, <3>1 DEF IsFold
        <3>3. f[q] = g[<<f[q \ {Top(q)}], Top(q)>>]
            BY <1>2, <2>2 DEF IsFold
        <3> QED
            BY <2>2, <3>2, <3>3
    <2> QED
        BY <2>1, <2>2
<1>4. f = [q \in SUBSET (1 .. n) |->
             IF q = {} THEN << >>
             ELSE IF s[Top(q)] \in E THEN Append(f[q \ {Top(q)}], s[Top(q)])
             ELSE f[q \ {Top(q)}]]
    <2>1. f = [q \in SUBSET (1 .. n) |-> f[q]]
        BY <1>2 DEF IsFold
    <2> QED
        BY <1>3, <2>1
<1>5. It = [q \in SUBSET (1 .. n) |->
             IF q = {} THEN << >>
             ELSE IF s[Top(q)] \in E THEN Append(It[q \ {Top(q)}], s[Top(q)])
             ELSE It[q \ {Top(q)}]]
    BY <1>4
<1>6. Routing!Only(s, E) = It[1 .. n]
    <2>1. DOMAIN s = 1 .. n
        OBVIOUS
    <2> QED
        BY <2>1, MaxIsTop DEF Routing!Only, Routing!FoldLeft, Routing!MapThenFoldSet
<1>7. It[1 .. 0] = << >>
    BY <1>1, <1>5, Beginnings
<1>8. ASSUME NEW k \in 1 .. n
      PROVE  It[1 .. k] = IF s[k] \in E THEN Append(It[1 .. k - 1], s[k]) ELSE It[1 .. k - 1]
    <2>1. /\ 1 .. k \in SUBSET (1 .. n) /\ 1 .. k # {}
          /\ Top(1 .. k) = k /\ (1 .. k) \ {k} = 1 .. k - 1
        BY <1>1, Beginnings
    <2> HIDE DEF It
    <2>2. It[1 .. k] = IF s[Top(1 .. k)] \in E
                       THEN Append(It[(1 .. k) \ {Top(1 .. k)}], s[Top(1 .. k)])
                       ELSE It[(1 .. k) \ {Top(1 .. k)}]
        BY <1>5, <2>1
    <2> QED
        BY <2>1, <2>2
<1> HIDE DEF It
<1> QED
    BY <1>6, <1>7, <1>8

\* Appending an element, and putting two sequences together.
LEMMA AppendIs ==
    ASSUME NEW M, NEW s \in Seq(M), NEW e \in M
    PROVE  /\ Append(s, e) \in Seq(M) /\ Len(Append(s, e)) = Len(s) + 1
           /\ Routing!ToSet(Append(s, e)) = Routing!ToSet(s) \cup {e}
           /\ Routing!IsInjective(s) /\ e \notin Routing!ToSet(s) => Routing!IsInjective(Append(s, e))
<1>1. /\ DOMAIN s = 1 .. Len(s) /\ Len(s) \in Nat
      /\ DOMAIN Append(s, e) = 1 .. Len(s) + 1 /\ Append(s, e)[Len(s) + 1] = e
      /\ \A i \in 1 .. Len(s) : Append(s, e)[i] = s[i]
    OBVIOUS
<1>2. 1 .. Len(s) + 1 = (1 .. Len(s)) \cup {Len(s) + 1}
    BY <1>1
<1>3. Routing!ToSet(Append(s, e)) = Routing!ToSet(s) \cup {e}
    BY <1>1, <1>2 DEF Routing!ToSet
<1>4. ASSUME Routing!IsInjective(s), e \notin Routing!ToSet(s) PROVE Routing!IsInjective(Append(s, e))
    <2> SUFFICES ASSUME NEW a \in 1 .. Len(s) + 1, NEW b \in 1 .. Len(s) + 1,
                        Append(s, e)[a] = Append(s, e)[b]
                 PROVE  a = b
        BY <1>1 DEF Routing!IsInjective
    <2>1. CASE a \in 1 .. Len(s) /\ b \in 1 .. Len(s)
        BY <1>1, <1>4, <2>1 DEF Routing!IsInjective
    <2>2. CASE a = Len(s) + 1 /\ b = Len(s) + 1
        BY <2>2
    <2>3. CASE a \in 1 .. Len(s) /\ b = Len(s) + 1
        BY <1>1, <1>4, <2>3 DEF Routing!ToSet
    <2>4. CASE a = Len(s) + 1 /\ b \in 1 .. Len(s)
        BY <1>1, <1>4, <2>4 DEF Routing!ToSet
    <2> QED
        BY <1>2, <2>1, <2>2, <2>3, <2>4
<1> QED
    BY <1>1, <1>3, <1>4

LEMMA ConcatIs ==
    ASSUME NEW M, NEW s \in Seq(M), NEW t \in Seq(M)
    PROVE  /\ s \o t \in Seq(M) /\ Len(s \o t) = Len(s) + Len(t)
           /\ Routing!ToSet(s \o t) = Routing!ToSet(s) \cup Routing!ToSet(t)
           /\ Routing!IsInjective(s) /\ Routing!IsInjective(t) /\ Routing!ToSet(s) \cap Routing!ToSet(t) = {}
                 => Routing!IsInjective(s \o t)
           /\ \A i \in 1 .. Len(s) : (s \o t)[i] = s[i]
           /\ \A i \in Len(s) + 1 .. Len(s) + Len(t) :
                 i - Len(s) \in 1 .. Len(t) /\ (s \o t)[i] = t[i - Len(s)]
<1>1. /\ DOMAIN s = 1 .. Len(s) /\ Len(s) \in Nat
      /\ DOMAIN t = 1 .. Len(t) /\ Len(t) \in Nat
      /\ s \o t \in Seq(M) /\ Len(s \o t) = Len(s) + Len(t)
      /\ DOMAIN (s \o t) = 1 .. Len(s) + Len(t)
      /\ \A i \in 1 .. Len(s) : (s \o t)[i] = s[i]
      /\ \A i \in Len(s) + 1 .. Len(s) + Len(t) : (s \o t)[i] = t[i - Len(s)]
    OBVIOUS
<1>2. /\ \A i \in Len(s) + 1 .. Len(s) + Len(t) : i - Len(s) \in 1 .. Len(t)
      /\ \A j \in 1 .. Len(t) : /\ j + Len(s) \in Len(s) + 1 .. Len(s) + Len(t)
                                /\ (j + Len(s)) - Len(s) = j
      /\ 1 .. Len(s) + Len(t) = (1 .. Len(s)) \cup (Len(s) + 1 .. Len(s) + Len(t))
    BY <1>1
<1>3. Routing!ToSet(s \o t) = Routing!ToSet(s) \cup Routing!ToSet(t)
    <2>1. ASSUME NEW i \in 1 .. Len(s) + Len(t)
          PROVE  (s \o t)[i] \in Routing!ToSet(s) \cup Routing!ToSet(t)
        BY <1>1, <1>2 DEF Routing!ToSet
    <2>2. ASSUME NEW i \in 1 .. Len(s) PROVE s[i] \in Routing!ToSet(s \o t)
        BY <1>1, <1>2 DEF Routing!ToSet
    <2>3. ASSUME NEW j \in 1 .. Len(t) PROVE t[j] \in Routing!ToSet(s \o t)
        <3>1. (s \o t)[j + Len(s)] = t[j] /\ j + Len(s) \in 1 .. Len(s) + Len(t)
            BY <1>1, <1>2
        <3> QED
            BY <3>1, <1>1 DEF Routing!ToSet
    <2> QED
        BY <1>1, <2>1, <2>2, <2>3 DEF Routing!ToSet
<1>4. ASSUME Routing!IsInjective(s), Routing!IsInjective(t), Routing!ToSet(s) \cap Routing!ToSet(t) = {}
      PROVE  Routing!IsInjective(s \o t)
    <2> SUFFICES ASSUME NEW a \in 1 .. Len(s) + Len(t), NEW b \in 1 .. Len(s) + Len(t),
                        (s \o t)[a] = (s \o t)[b]
                 PROVE  a = b
        BY <1>1 DEF Routing!IsInjective
    <2>1. CASE a \in 1 .. Len(s) /\ b \in 1 .. Len(s)
        BY <1>1, <1>4, <2>1 DEF Routing!IsInjective
    <2>2. CASE a \notin 1 .. Len(s) /\ b \notin 1 .. Len(s)
        <3>1. /\ a - Len(s) \in DOMAIN t /\ b - Len(s) \in DOMAIN t
              /\ t[a - Len(s)] = t[b - Len(s)]
            BY <1>1, <1>2, <2>2
        <3>2. a - Len(s) = b - Len(s)
            BY <1>4, <3>1 DEF Routing!IsInjective
        <3> QED
            BY <1>1, <3>2
    <2>3. CASE a \in 1 .. Len(s) /\ b \notin 1 .. Len(s)
        <3>1. (s \o t)[a] \in Routing!ToSet(s) /\ (s \o t)[b] \in Routing!ToSet(t)
            BY <1>1, <1>2, <2>3 DEF Routing!ToSet
        <3> QED
            BY <1>4, <3>1
    <2>4. CASE a \notin 1 .. Len(s) /\ b \in 1 .. Len(s)
        <3>1. (s \o t)[a] \in Routing!ToSet(t) /\ (s \o t)[b] \in Routing!ToSet(s)
            BY <1>1, <1>2, <2>4 DEF Routing!ToSet
        <3> QED
            BY <1>4, <3>1
    <2> QED
        BY <2>1, <2>2, <2>3, <2>4
<1> QED
    BY <1>1, <1>2, <1>3, <1>4

LEMMA EmptyIs ==
    \A M : << >> \in Seq(M) /\ Routing!ToSet(<< >>) = {} /\ Routing!IsInjective(<< >>) /\ Len(<< >>) = 0
BY DEF Routing!ToSet, Routing!IsInjective

\* A sequence without repetition is as long as its set is large.
LEMMA LengthIsCount ==
    ASSUME NEW M, NEW s \in Seq(M), Routing!IsInjective(s)
    PROVE  /\ IsFiniteSet(Routing!ToSet(s)) /\ Cardinality(Routing!ToSet(s)) = Len(s)
<1>1. Len(s) \in Nat /\ DOMAIN s = 1 .. Len(s)
    OBVIOUS
<1>2. s \in Bijection(1 .. Len(s), Routing!ToSet(s))
    BY <1>1 DEF Routing!ToSet, Routing!IsInjective, Bijection, Injection, Surjection,
        IsInjective
<1>3. ExistsBijection(1 .. Len(s), Routing!ToSet(s))
    BY <1>2 DEF ExistsBijection
<1> QED
    BY <1>1, <1>3, FS_CountingElements, FS_NatBijection

\* Only keeps the members of the set, and each once.
LEMMA OnlyIs ==
    ASSUME NEW M, NEW s \in Seq(M), NEW E, Routing!IsInjective(s)
    PROVE  /\ Routing!Only(s, E) \in Seq(M) /\ Routing!IsInjective(Routing!Only(s, E))
           /\ Routing!ToSet(Routing!Only(s, E)) = Routing!ToSet(s) \cap E
<1>1. PICK f : /\ Routing!Only(s, E) = f[1 .. Len(s)]
               /\ f[1 .. 0] = << >>
               /\ \A k \in 1 .. Len(s) :
                     f[1 .. k] = IF s[k] \in E THEN Append(f[1 .. k - 1], s[k])
                                 ELSE f[1 .. k - 1]
    BY OnlySteps
<1> DEFINE Begun(k) == {s[i] : i \in 1 .. k}
           Holds(k) == /\ f[1 .. k] \in Seq(M) /\ Routing!IsInjective(f[1 .. k])
                       /\ Routing!ToSet(f[1 .. k]) = Begun(k) \cap E
           P == {k \in Nat : k <= Len(s) => Holds(k)}
<1>2. Holds(0)
    BY <1>1, EmptyIs
<1>3. ASSUME NEW k \in Nat, k + 1 <= Len(s), Holds(k) PROVE Holds(k + 1)
    <2>1. /\ k + 1 \in 1 .. Len(s) /\ (k + 1) - 1 = k /\ s[k + 1] \in M /\ DOMAIN s = 1 .. Len(s)
          /\ \A i \in 1 .. k : i \in 1 .. Len(s) /\ i # k + 1
        BY <1>3
    <2>2. 1 .. k + 1 = (1 .. k) \cup {k + 1}
        BY <2>1
    <2>3. Begun(k + 1) = Begun(k) \cup {s[k + 1]}
        BY <2>2
    <2>4. s[k + 1] \notin Begun(k)
        BY <2>1 DEF Routing!IsInjective
    <2>5. f[1 .. k + 1] = IF s[k + 1] \in E THEN Append(f[1 .. k], s[k + 1]) ELSE f[1 .. k]
        BY <1>1, <2>1
    <2> DEFINE prev == f[1 .. k]
               next == f[1 .. k + 1]
    <2>6. /\ prev \in Seq(M) /\ Routing!IsInjective(prev) /\ Routing!ToSet(prev) = Begun(k) \cap E
          /\ next = IF s[k + 1] \in E THEN Append(prev, s[k + 1]) ELSE prev
        BY <1>3, <2>5
    <2> HIDE DEF prev, next, Begun
    <2>7. next \in Seq(M) /\ Routing!IsInjective(next) /\ Routing!ToSet(next) = Begun(k + 1) \cap E
        <3>1. CASE s[k + 1] \in E
            BY <3>1, <2>1, <2>3, <2>4, <2>6, AppendIs
        <3>2. CASE s[k + 1] \notin E
            BY <3>2, <2>3, <2>6
        <3> QED
            BY <3>1, <3>2
    <2> QED
        BY <2>7 DEF next
<1> HIDE DEF Holds
<1>4. P \in SUBSET Nat /\ 0 \in P /\ \A k \in P : k + 1 \in P
    BY <1>2, <1>3
<1> HIDE DEF P
<1>5. P = Nat /\ Len(s) \in Nat
    BY <1>4, Induction
<1>6. Holds(Len(s))
    BY <1>5 DEF P
<1>7. Begun(Len(s)) = Routing!ToSet(s)
    BY DEF Routing!ToSet
<1> HIDE DEF Begun
<1> QED
    BY <1>1, <1>6, <1>7 DEF Holds

\* When reserve_provider_candidates passes a model over: the room that is left
\* is spoken for.
ProvidersOf(s) == {Provider[m] : m \in Routing!ToSet(s)}
Skips(chosen, m, all, budget) ==
    \/ budget - Len(chosen) <= 0
    \/ /\ Provider[m] \in ProvidersOf(chosen)
       /\ budget - Len(chosen) <= Routing!Cardinality(all \ ProvidersOf(chosen))

\* Reserved, as it goes through the category.
LEMMA ReservedSteps ==
    ASSUME NEW s \in Seq(Models), NEW budget \in Int
    PROVE  \E f : /\ Routing!Reserved(s, budget) = f[1 .. Len(s)]
                  /\ f[1 .. 0] = << >>
                  /\ \A k \in 1 .. Len(s) :
                        f[1 .. k] = IF Skips(f[1 .. k - 1], s[k], ProvidersOf(s), budget)
                                    THEN f[1 .. k - 1]
                                    ELSE Append(f[1 .. k - 1], s[k])
<1> DEFINE n == Len(s)
           X == Seq(Models)
           all == ProvidersOf(s)
           step(chosen, m) == IF Skips(chosen, m, all, budget) THEN chosen ELSE Append(chosen, m)
           g == [p \in X \X (1 .. n) |-> step(p[1], s[p[2]])]
           It == CHOOSE f : f = [q \in SUBSET (1 .. n) |->
                     IF q = {} THEN << >> ELSE step(f[q \ {Top(q)}], s[Top(q)])]
<1>1. n \in Nat /\ << >> \in X /\ g \in [X \X (1 .. n) -> X]
    <2>1. ASSUME NEW c \in X, NEW i \in 1 .. n PROVE step(c, s[i]) \in X
        OBVIOUS
    <2> HIDE DEF step
    <2> QED
        BY <2>1
<1>2. PICK f : IsFold(f, n, X, << >>, g)
    <2> HIDE DEF g, X, n
    <2> QED
        BY <1>1, FoldExists
<1>3. ASSUME NEW q \in SUBSET (1 .. n)
      PROVE  f[q] = IF q = {} THEN << >> ELSE step(f[q \ {Top(q)}], s[Top(q)])
    <2> HIDE DEF step
    <2>1. CASE q = {}
        BY <1>2, <2>1 DEF IsFold
    <2>2. CASE q # {}
        <3>1. Top(q) \in 1 .. n /\ q \ {Top(q)} \in SUBSET (1 .. n)
            BY <1>1, <2>2, Beginnings
        <3>2. <<f[q \ {Top(q)}], Top(q)>> \in X \X (1 .. n)
            BY <1>2, <3>1 DEF IsFold
        <3>3. f[q] = g[<<f[q \ {Top(q)}], Top(q)>>]
            BY <1>2, <2>2 DEF IsFold
        <3> QED
            BY <2>2, <3>2, <3>3
    <2> QED
        BY <2>1, <2>2
<1>4. f = [q \in SUBSET (1 .. n) |->
             IF q = {} THEN << >> ELSE step(f[q \ {Top(q)}], s[Top(q)])]
    <2>1. f = [q \in SUBSET (1 .. n) |-> f[q]]
        BY <1>2 DEF IsFold
    <2> HIDE DEF step
    <2> QED
        BY <1>3, <2>1
<1>5. It = [q \in SUBSET (1 .. n) |->
             IF q = {} THEN << >> ELSE step(It[q \ {Top(q)}], s[Top(q)])]
    <2> HIDE DEF step
    <2> QED
        BY <1>4
<1>6. Routing!Reserved(s, budget) = It[1 .. n]
    <2>1. DOMAIN s = 1 .. n
        OBVIOUS
    <2> QED
        BY <2>1, MaxIsTop DEF Routing!Reserved, Routing!FoldLeft, Routing!MapThenFoldSet, Skips,
            ProvidersOf
<1> HIDE DEF step
<1>7. It[1 .. 0] = << >>
    BY <1>1, <1>5, Beginnings
<1>8. ASSUME NEW k \in 1 .. n
      PROVE  It[1 .. k] = step(It[1 .. k - 1], s[k])
    <2>1. /\ 1 .. k \in SUBSET (1 .. n) /\ 1 .. k # {}
          /\ Top(1 .. k) = k /\ (1 .. k) \ {k} = 1 .. k - 1
        BY <1>1, Beginnings
    <2> HIDE DEF It
    <2>2. It[1 .. k] = step(It[(1 .. k) \ {Top(1 .. k)}], s[Top(1 .. k)])
        BY <1>5, <2>1
    <2> QED
        BY <2>1, <2>2
<1> HIDE DEF It
<1> QED
    BY <1>6, <1>7, <1>8 DEF step

LEMMA SameRoutingCount ==
    \A S : (Routing!IsFiniteSet(S) <=> IsFiniteSet(S)) /\ Routing!Cardinality(S) = Cardinality(S)
BY DEF Routing!IsFiniteSet, Routing!Cardinality, IsFiniteSet, Cardinality

LEMMA RoutingConstants ==
    /\ IsFiniteSet(Models) /\ NoModel \notin Models
    /\ DOMAIN Provider = Models
    /\ Billing \in [Models -> {"free", "paid"}]
    /\ \A order \in Orders : /\ order \in Seq(Models) /\ Routing!IsInjective(order)
                             /\ Routing!ToSet(order) = Models
    /\ Contended \subseteq Models
    /\ QuotaProvider \in Routing!Providers
    /\ FailureLimit \in Nat \ {0} /\ MaxProbes \in Nat
    /\ MaxCandidates \in Nat /\ MaxCandidates >= 3
    /\ Short \in Nat \ {0} /\ Long \in Nat /\ Short <= Long
BY PathAssumption, SameRoutingCount DEF Routing!ConstantsOK

\* What is left of a finite set, and what one more element does to it.
LEMMA RestIs ==
    ASSUME NEW T, IsFiniteSet(T), NEW S \in SUBSET T
    PROVE  /\ IsFiniteSet(S) /\ Cardinality(S) \in Nat
           /\ Cardinality(T) \in Nat /\ Cardinality(T \ S) \in Nat
           /\ Cardinality(T) = Cardinality(S) + Cardinality(T \ S)
           /\ Cardinality(T \ S) = 0 => S = T
<1>1. IsFiniteSet(S) /\ IsFiniteSet(T \ S) /\ Cardinality(S) \in Nat
      /\ Cardinality(T \ S) \in Nat /\ Cardinality(T) \in Nat
    BY FS_Subset, FS_Difference, FS_CardinalityType
<1>2. Cardinality(T \ S) = Cardinality(T) - Cardinality(T \cap S) /\ T \cap S = S
    BY FS_Difference
<1>3. Cardinality(T \ S) = 0 => S = T
    <2>1. Cardinality(T \ S) = 0 => T \ S = {}
        BY <1>1, FS_EmptySet
    <2> QED
        BY <2>1
<1>4. Cardinality(T \ S) = Cardinality(T) - Cardinality(S)
    BY <1>2
<1>5. Cardinality(T) = Cardinality(S) + Cardinality(T \ S)
    BY <1>1, <1>4
<1> QED
    BY <1>1, <1>3, <1>5

LEMMA OneMore ==
    ASSUME NEW T, IsFiniteSet(T), NEW S \in SUBSET T, NEW p \in T, p \notin S
    PROVE  /\ Cardinality(S \cup {p}) = Cardinality(S) + 1
           /\ Cardinality(T \ (S \cup {p})) = Cardinality(T \ S) - 1
           /\ Cardinality(T \ S) >= 1
<1>1. IsFiniteSet(S) /\ IsFiniteSet(T \ S) /\ Cardinality(T \ S) \in Nat
    BY FS_Subset, FS_Difference, FS_CardinalityType
<1>2. T \ (S \cup {p}) = (T \ S) \ {p} /\ p \in T \ S
    OBVIOUS
<1>3. /\ Cardinality(S \cup {p}) = Cardinality(S) + 1
      /\ Cardinality((T \ S) \ {p}) = Cardinality(T \ S) - 1
    BY <1>1, <1>2, FS_AddElement, FS_RemoveElement
<1>4. (T \ S) \ {p} \in SUBSET (T \ S)
    OBVIOUS
<1>5. Cardinality((T \ S) \ {p}) \in Nat
    BY <1>1, <1>4, FS_Subset, FS_CardinalityType
<1>6. Cardinality(T \ S) >= 1
    BY <1>1, <1>3, <1>5
<1> QED
    BY <1>2, <1>3, <1>6

LEMMA ProvidersAreFew ==
    ASSUME NEW s \in Seq(Models)
    PROVE  /\ IsFiniteSet(Routing!ToSet(s)) /\ Routing!ToSet(s) \in SUBSET Models
           /\ IsFiniteSet(ProvidersOf(s)) /\ Cardinality(ProvidersOf(s)) \in Nat
<1>1. Routing!ToSet(s) \in SUBSET Models
    BY DEF Routing!ToSet
<1>2. IsFiniteSet(Routing!ToSet(s))
    BY <1>1, RoutingConstants, FS_Subset
<1> DEFINE f == [m \in Routing!ToSet(s) |-> Provider[m]]
<1>3. f \in Surjection(Routing!ToSet(s), ProvidersOf(s))
    BY DEF ProvidersOf, Surjection
<1>4. IsFiniteSet(ProvidersOf(s))
    BY <1>2, <1>3, FS_Surjection
<1> QED
    BY <1>1, <1>2, <1>4, FS_CardinalityType

\* What Reserved keeps: models of the category, each once; as many as there are
\* and as fit; of every provider, or else each of another one.
LEMMA ReservedIs ==
    ASSUME NEW s \in Seq(Models), NEW budget \in Nat, Routing!IsInjective(s)
    PROVE  /\ Routing!Reserved(s, budget) \in Seq(Models) /\ Routing!IsInjective(Routing!Reserved(s, budget))
           /\ Routing!ToSet(Routing!Reserved(s, budget)) \subseteq Routing!ToSet(s)
           /\ \/ Len(Routing!Reserved(s, budget)) = Len(s) /\ Len(s) <= budget
              \/ Len(Routing!Reserved(s, budget)) = budget /\ budget <= Len(s)
           /\ \/ ProvidersOf(Routing!Reserved(s, budget)) = ProvidersOf(s)
              \/ Cardinality(ProvidersOf(Routing!Reserved(s, budget))) = Len(Routing!Reserved(s, budget))
<1>1. PICK f : /\ Routing!Reserved(s, budget) = f[1 .. Len(s)]
               /\ f[1 .. 0] = << >>
               /\ \A k \in 1 .. Len(s) :
                     f[1 .. k] = IF Skips(f[1 .. k - 1], s[k], ProvidersOf(s), budget)
                                 THEN f[1 .. k - 1]
                                 ELSE Append(f[1 .. k - 1], s[k])
    BY ReservedSteps
<1> DEFINE all == ProvidersOf(s)
           Begun(k) == {s[i] : i \in 1 .. k}
           Room(c) == budget - Len(c)
           Rest(c) == Cardinality(all \ ProvidersOf(c))
           Sound(c, k) == /\ c \in Seq(Models) /\ Routing!IsInjective(c) /\ Routing!ToSet(c) \subseteq Begun(k)
                          /\ Len(c) <= k /\ Len(c) <= budget
           \* Every provider fits: those that were met have a candidate, and room is
           \* kept for the others.
           Ample(c, k) == /\ Room(c) >= Rest(c)
                          /\ Room(c) = Rest(c) \/ Len(c) = k
                          /\ \A m \in Begun(k) : Provider[m] \in ProvidersOf(c)
           \* They do not: nobody has two.
           Tight(c, k) == /\ Cardinality(ProvidersOf(c)) = Len(c)
                          /\ \/ Len(c) = budget
                             \/ \A m \in Begun(k) : Provider[m] \in ProvidersOf(c)
           Holds(k) == /\ Sound(f[1 .. k], k)
                       /\ budget >= Cardinality(all) => Ample(f[1 .. k], k)
                       /\ budget < Cardinality(all) => Tight(f[1 .. k], k)
           P == {k \in Nat : k <= Len(s) => Holds(k)}
<1>2. /\ Len(s) \in Nat /\ DOMAIN s = 1 .. Len(s)
      /\ IsFiniteSet(all) /\ Cardinality(all) \in Nat
      /\ \A k \in 1 .. Len(s) : s[k] \in Models /\ Provider[s[k]] \in all
    <2>1. \A k \in 1 .. Len(s) : s[k] \in Routing!ToSet(s) /\ s[k] \in Models
        BY DEF Routing!ToSet
    <2>2. \A k \in 1 .. Len(s) : Provider[s[k]] \in all
        BY <2>1 DEF ProvidersOf
    <2>3. IsFiniteSet(all) /\ Cardinality(all) \in Nat
        BY ProvidersAreFew
    <2> HIDE DEF all
    <2> QED
        BY <2>1, <2>2, <2>3
<1>3. ASSUME NEW c \in Seq(Models), NEW k \in 0 .. Len(s), Routing!ToSet(c) \subseteq Begun(k)
      PROVE  /\ ProvidersOf(c) \in SUBSET all
             /\ Cardinality(ProvidersOf(c)) \in Nat /\ Rest(c) \in Nat
             /\ Cardinality(all) = Cardinality(ProvidersOf(c)) + Rest(c)
             /\ Rest(c) = 0 => ProvidersOf(c) = all
    <2>1. Begun(k) \subseteq Routing!ToSet(s)
        <3>1. \A i \in 1 .. k : i \in 1 .. Len(s)
            BY <1>2
        <3> QED
            BY <1>2, <3>1 DEF Routing!ToSet
    <2>2. ProvidersOf(c) \in SUBSET all
        BY <1>3, <2>1 DEF ProvidersOf
    <2> QED
        BY <1>2, <2>2, RestIs
<1>4. Holds(0)
    <2>1. Begun(0) = {} /\ ProvidersOf(<< >>) = {} /\ all \ {} = all
        BY EmptyIs DEF ProvidersOf
    <2>2. Sound(<< >>, 0)
        BY EmptyIs
    <2>3. Rest(<< >>) = Cardinality(all) /\ Room(<< >>) = budget
        <3>1. all \ ProvidersOf(<< >>) = all
            BY <2>1
        <3>2. Len(<< >>) = 0
            BY EmptyIs
        <3>3. Rest(<< >>) = Cardinality(all)
            BY <3>1, Zenon
        <3>4. Room(<< >>) = budget
            BY <3>2
        <3> HIDE DEF Rest, Room
        <3> QED
            BY <3>3, <3>4
    <2>4. budget >= Cardinality(all) => Ample(<< >>, 0)
        BY <2>1, <2>3
    <2>5. Tight(<< >>, 0)
        BY <2>1, FS_EmptySet
    <2> QED
        BY <1>1, <2>2, <2>4, <2>5
<1>5. ASSUME NEW k \in Nat, k + 1 <= Len(s), Holds(k) PROVE Holds(k + 1)
    <2> DEFINE c == f[1 .. k]
               d == f[1 .. k + 1]
               m == s[k + 1]
    <2>1. /\ k + 1 \in 1 .. Len(s) /\ (k + 1) - 1 = k /\ k \in 0 .. Len(s)
          /\ m \in Models /\ Provider[m] \in all
          /\ \A i \in 1 .. k : i \in 1 .. Len(s) /\ i # k + 1
        BY <1>2, <1>5
    <2>2. 1 .. k + 1 = (1 .. k) \cup {k + 1}
        BY <2>1
    <2>3. Begun(k + 1) = Begun(k) \cup {m}
        BY <2>2
    <2>4. m \notin Begun(k)
        BY <1>2, <2>1 DEF Routing!IsInjective
    <2>5. d = IF Skips(c, m, all, budget) THEN c ELSE Append(c, m)
        BY <1>1, <2>1
    <2>6. /\ Sound(c, k)
          /\ budget >= Cardinality(all) => Ample(c, k)
          /\ budget < Cardinality(all) => Tight(c, k)
        BY <1>5
    <2> HIDE DEF c, d, m, Begun
    <2>7. /\ ProvidersOf(c) \in SUBSET all
          /\ Cardinality(ProvidersOf(c)) \in Nat /\ Rest(c) \in Nat
          /\ Cardinality(all) = Cardinality(ProvidersOf(c)) + Rest(c)
          /\ Rest(c) = 0 => ProvidersOf(c) = all
          /\ Len(c) \in Nat /\ Room(c) \in Int
        BY <1>3, <2>1, <2>6
    <2>8. Skips(c, m, all, budget) <=>
             \/ Room(c) <= 0
             \/ Provider[m] \in ProvidersOf(c) /\ Room(c) <= Rest(c)
        <3>1. Routing!Cardinality(all \ ProvidersOf(c)) = Rest(c)
            BY SameRoutingCount
        <3>2. Skips(c, m, all, budget) <=>
                 \/ Room(c) <= 0
                 \/ /\ Provider[m] \in ProvidersOf(c)
                    /\ Room(c) <= Routing!Cardinality(all \ ProvidersOf(c))
            BY DEF Skips
        <3> HIDE DEF all, Rest, Room
        <3> QED
            BY <3>1, <3>2
    <2>9. ASSUME Skips(c, m, all, budget)
          PROVE  /\ Sound(d, k + 1)
                 /\ budget >= Cardinality(all) => Ample(d, k + 1)
                 /\ budget < Cardinality(all) => Tight(d, k + 1)
        <3>1. d = c
            BY <2>5, <2>9
        <3>2. Sound(c, k + 1)
            BY <2>1, <2>3, <2>6, <2>7
        <3>3. ASSUME budget >= Cardinality(all) PROVE Ample(c, k + 1)
            <4>1. Room(c) = Rest(c)
                BY <2>6, <2>7, <2>8, <2>9, <3>3
            <4>2. Provider[m] \in ProvidersOf(c)
                BY <2>1, <2>7, <2>8, <2>9, <4>1
            <4> QED
                BY <2>3, <2>6, <3>3, <4>1, <4>2
        <3>4. ASSUME budget < Cardinality(all) PROVE Tight(c, k + 1)
            <4>1. Len(c) = budget \/ Provider[m] \in ProvidersOf(c)
                BY <2>6, <2>7, <2>8, <2>9
            <4> QED
                BY <2>3, <2>6, <3>4, <4>1
        <3> QED
            BY <3>1, <3>2, <3>3, <3>4
    <2>10. ASSUME ~Skips(c, m, all, budget)
           PROVE  /\ Sound(d, k + 1)
                  /\ budget >= Cardinality(all) => Ample(d, k + 1)
                  /\ budget < Cardinality(all) => Tight(d, k + 1)
        <3>1. d = Append(c, m)
            BY <2>5, <2>10
        <3>2. /\ d \in Seq(Models) /\ Len(d) = Len(c) + 1
              /\ Routing!ToSet(d) = Routing!ToSet(c) \cup {m}
              /\ Routing!IsInjective(d)
            BY <2>1, <2>4, <2>6, <3>1, AppendIs
        <3>3. Room(c) > 0 /\ Room(d) = Room(c) - 1
            BY <2>7, <2>8, <2>10, <3>2
        <3>4. Sound(d, k + 1)
            BY <2>1, <2>3, <2>6, <2>7, <3>2, <3>3
        <3>5. ProvidersOf(d) = ProvidersOf(c) \cup {Provider[m]}
            BY <3>2 DEF ProvidersOf
        <3>6. \A q \in Begun(k + 1) :
                 q \in Begun(k) \/ Provider[q] \in ProvidersOf(d)
            BY <2>3, <3>5
        <3>7. CASE Provider[m] \in ProvidersOf(c)
            <4>1. ProvidersOf(d) = ProvidersOf(c) /\ Rest(d) = Rest(c)
                BY <3>5, <3>7
            <4>2. Room(c) > Rest(c)
                BY <2>7, <2>8, <2>10, <3>7
            <4>3. ASSUME budget >= Cardinality(all) PROVE Ample(d, k + 1)
                BY <2>1, <2>6, <2>7, <3>2, <3>3, <3>6, <4>1, <4>2, <4>3
            <4>4. budget >= Cardinality(all)
                <5> SUFFICES ASSUME budget < Cardinality(all) PROVE FALSE
                    BY <1>2
                <5>1. Cardinality(ProvidersOf(c)) = Len(c)
                    BY <2>6
                <5> QED
                    BY <2>7, <4>2, <5>1
            <4> QED
                BY <1>2, <3>4, <4>3, <4>4
        <3>8. CASE Provider[m] \notin ProvidersOf(c)
            <4>1. /\ Cardinality(ProvidersOf(d)) = Cardinality(ProvidersOf(c)) + 1
                  /\ Rest(d) = Rest(c) - 1
                <5> DEFINE S == ProvidersOf(c)
                           p == Provider[m]
                <5>1. p \in all \ S /\ S \in SUBSET all /\ ProvidersOf(d) = S \cup {p}
                    BY <2>1, <2>7, <3>5, <3>8
                <5> HIDE DEF all, S, p
                <5>2. /\ Cardinality(S \cup {p}) = Cardinality(S) + 1
                      /\ Cardinality(all \ (S \cup {p})) = Cardinality(all \ S) - 1
                    <6>1. IsFiniteSet(all)
                        BY <1>2
                    <6>2. S \in SUBSET all /\ p \in all /\ p \notin S
                        BY <5>1
                    <6> QED
                        BY <6>1, <6>2, OneMore
                <5> QED
                    BY <5>1, <5>2 DEF S
            <4>2. ASSUME budget >= Cardinality(all) PROVE Ample(d, k + 1)
                BY <2>1, <2>6, <2>7, <3>2, <3>3, <3>5, <3>6, <4>1, <4>2
            <4>3. ASSUME budget < Cardinality(all) PROVE Tight(d, k + 1)
                <5>1. Cardinality(ProvidersOf(d)) = Len(d)
                    BY <2>6, <3>2, <4>1, <4>3
                <5>2. Len(c) # budget
                    BY <2>7, <3>3
                <5>3. \A q \in Begun(k + 1) : Provider[q] \in ProvidersOf(d)
                    BY <2>6, <3>5, <3>6, <4>3, <5>2
                <5> QED
                    BY <5>1, <5>3
            <4> QED
                BY <3>4, <4>2, <4>3
        <3> QED
            BY <3>7, <3>8
    <2> QED
        BY <2>9, <2>10 DEF c, d
<1> HIDE DEF Holds
<1>6. P \in SUBSET Nat /\ 0 \in P /\ \A k \in P : k + 1 \in P
    BY <1>4, <1>5
<1> HIDE DEF P
<1>7. P = Nat
    BY <1>6, Induction
<1>8. Holds(Len(s))
    BY <1>2, <1>7 DEF P
<1> DEFINE c == f[1 .. Len(s)]
<1>9. /\ Sound(c, Len(s))
      /\ budget >= Cardinality(all) => Ample(c, Len(s))
      /\ budget < Cardinality(all) => Tight(c, Len(s))
    BY <1>8 DEF Holds
<1>10. Begun(Len(s)) = Routing!ToSet(s)
    BY <1>2 DEF Routing!ToSet
<1> HIDE DEF c, Begun
<1>11. /\ ProvidersOf(c) \in SUBSET all
       /\ Cardinality(ProvidersOf(c)) \in Nat /\ Rest(c) \in Nat
       /\ Cardinality(all) = Cardinality(ProvidersOf(c)) + Rest(c)
       /\ Len(c) \in Nat
    BY <1>2, <1>3, <1>9
<1>12. (\A m \in Routing!ToSet(s) : Provider[m] \in ProvidersOf(c)) => ProvidersOf(c) = all
    BY <1>11 DEF ProvidersOf
<1>13. CASE budget >= Cardinality(all)
    <2>1. Ample(c, Len(s)) /\ Sound(c, Len(s))
        BY <1>9, <1>13
    <2>2. ProvidersOf(c) = all
        BY <1>10, <1>12, <2>1
    <2>3. Rest(c) = 0
        BY <1>11, <2>2
    <2>4. Len(c) = budget \/ Len(c) = Len(s)
        BY <1>11, <2>1, <2>3
    <2> QED
        BY <1>1, <1>2, <1>10, <1>11, <2>1, <2>2, <2>4 DEF c
<1>14. CASE budget < Cardinality(all)
    <2>1. Tight(c, Len(s)) /\ Sound(c, Len(s))
        BY <1>9, <1>14
    <2>2. ASSUME Len(c) # budget PROVE FALSE
        <3>1. ProvidersOf(c) = all
            BY <1>10, <1>12, <2>1, <2>2
        <3> QED
            BY <1>11, <1>14, <2>1, <3>1
    <2> QED
        BY <1>1, <1>2, <1>10, <1>11, <2>1, <2>2 DEF c
<1> QED
    BY <1>2, <1>13, <1>14

LEMMA LeastOfTwo ==
    \A x, y \in Int : /\ Routing!Min({x, y}) = IF x <= y THEN x ELSE y
                      /\ Routing!Max({x, y}) = IF x >= y THEN x ELSE y
<1> SUFFICES ASSUME NEW x \in Int, NEW y \in Int
             PROVE  /\ Routing!Min({x, y}) = IF x <= y THEN x ELSE y
                    /\ Routing!Max({x, y}) = IF x >= y THEN x ELSE y
    OBVIOUS
<1>1. PICK least \in {x, y} : \A z \in {x, y} : least <= z
    OBVIOUS
<1>2. PICK most \in {x, y} : \A z \in {x, y} : most >= z
    OBVIOUS
<1>3. Routing!Min({x, y}) \in {x, y} /\ \A z \in {x, y} : Routing!Min({x, y}) <= z
    BY <1>1 DEF Routing!Min
<1>4. Routing!Max({x, y}) \in {x, y} /\ \A z \in {x, y} : Routing!Max({x, y}) >= z
    BY <1>2 DEF Routing!Max
<1> QED
    BY <1>3, <1>4

\* Where the manual choice may stand, and which of the others is tried first.
ChoiceFirst(s) == \A i \in 2 .. Len(s) : s[i] # Selected
FreeFirst(s) == \A i, j \in {k \in 1 .. Len(s) : s[k] # Selected} :
                   i < j => ~(Billing[s[i]] = "paid" /\ Billing[s[j]] = "free")

LEMMA EligibleAre ==
    ASSUME NEW r
    PROVE  /\ Routing!Eligible(r) \in SUBSET Models /\ IsFiniteSet(Routing!Eligible(r))
           /\ Cardinality(Routing!Eligible(r)) \in Nat
<1>1. Routing!Eligible(r) \in SUBSET Models
    BY DEF Routing!Eligible
<1> QED
    BY <1>1, RoutingConstants, FS_Subset, FS_CardinalityType

\* What is kept of so many free and paid models beside the first choice.
Fits(first, ofFree, ofPaid, free, paid) ==
    \E room, budget \in Nat :
        /\ room = MaxCandidates - first
        /\ budget = room - (IF ofPaid = 0 THEN 0 ELSE 1)
        /\ free <= budget
        /\ \/ free = ofFree
           \/ free = budget /\ budget <= ofFree
        /\ paid <= room - free
        /\ \/ paid = ofPaid
           \/ paid = room - free /\ paid <= ofPaid

\* The parts a selection from the models of E is made of: the manual choice, the
\* other free and paid models, and what is kept of these.
Parts(E, first, ofFree, ofPaid, free, paid) ==
    /\ /\ Routing!IsInjective(first) /\ Routing!IsInjective(ofFree) /\ Routing!IsInjective(ofPaid)
       /\ Routing!IsInjective(free) /\ Routing!IsInjective(paid)
    /\ Routing!ToSet(first) = E \cap {Selected} /\ Len(first) <= 1
    /\ Routing!ToSet(ofFree) = {m \in E \ {Selected} : Billing[m] = "free"}
    /\ Routing!ToSet(ofPaid) = {m \in E \ {Selected} : Billing[m] = "paid"}
    /\ Routing!ToSet(free) \subseteq Routing!ToSet(ofFree) /\ Routing!ToSet(paid) \subseteq Routing!ToSet(ofPaid)
    /\ Fits(Len(first), Len(ofFree), Len(ofPaid), Len(free), Len(paid))
    /\ \/ ProvidersOf(free) = ProvidersOf(ofFree)
       \/ Cardinality(ProvidersOf(free)) = Len(free)

LEMMA SelectionParts ==
    ASSUME NEW r, NEW order \in Orders
    PROVE  \E first, ofFree, ofPaid, free, paid \in Seq(Models) :
              /\ Routing!Selection(r, order) = (first \o free) \o paid
              /\ Parts(Routing!Eligible(r), first, ofFree, ofPaid, free, paid)
<1> DEFINE E == Routing!Eligible(r)
           Of(b) == {m \in E \ {Selected} : Billing[m] = b}
           first == Routing!Only(order, E \cap {Selected})
           ofFree == Routing!Only(order, Of("free"))
           ofPaid == Routing!Only(order, Of("paid"))
           room == MaxCandidates - Len(first)
           budget == room - (IF ofPaid = << >> THEN 0 ELSE 1)
           free == Routing!Reserved(ofFree, budget)
           paid == Routing!Reserved(ofPaid, room - Len(free))
<1>1. order \in Seq(Models) /\ Routing!IsInjective(order) /\ Routing!ToSet(order) = Models
    BY RoutingConstants
<1>2. E \in SUBSET Models
    BY EligibleAre
<1>3. Routing!Selection(r, order) = (first \o free) \o paid
    BY DEF Routing!Selection
<1> HIDE DEF E
<1>4. /\ first \in Seq(Models) /\ Routing!IsInjective(first)
      /\ Routing!ToSet(first) = Models \cap (E \cap {Selected})
    BY <1>1, OnlyIs
<1>5. /\ ofFree \in Seq(Models) /\ Routing!IsInjective(ofFree)
      /\ Routing!ToSet(ofFree) = Models \cap Of("free")
    BY <1>1, OnlyIs
<1>6. /\ ofPaid \in Seq(Models) /\ Routing!IsInjective(ofPaid)
      /\ Routing!ToSet(ofPaid) = Models \cap Of("paid")
    BY <1>1, OnlyIs
<1>7. /\ Routing!ToSet(first) = E \cap {Selected}
      /\ Routing!ToSet(ofFree) = Of("free") /\ Routing!ToSet(ofPaid) = Of("paid")
    BY <1>2, <1>4, <1>5, <1>6
<1>8. Len(first) \in Nat /\ Len(first) <= 1
    <2>1. \A i \in 1 .. Len(first) : first[i] = Selected
        BY <1>4 DEF Routing!ToSet
    <2> HIDE DEF first
    <2>2. \A i, j \in 1 .. Len(first) : i = j
        BY <1>4, <2>1 DEF Routing!IsInjective
    <2>3. Len(first) \in Nat
        BY <1>4
    <2> QED
        BY <2>2, <2>3
<1> HIDE DEF first, ofFree, ofPaid
<1>9. (ofPaid = << >>) <=> (Len(ofPaid) = 0)
    BY <1>6
<1>10. budget \in Nat /\ budget = room - (IF Len(ofPaid) = 0 THEN 0 ELSE 1)
    BY <1>8, <1>9, RoutingConstants
<1> HIDE DEF budget
<1>11. /\ free \in Seq(Models) /\ Routing!IsInjective(free) /\ Routing!ToSet(free) \subseteq Routing!ToSet(ofFree)
       /\ \/ Len(free) = Len(ofFree) /\ Len(ofFree) <= budget
          \/ Len(free) = budget /\ budget <= Len(ofFree)
       /\ \/ ProvidersOf(free) = ProvidersOf(ofFree)
          \/ Cardinality(ProvidersOf(free)) = Len(free)
    BY <1>5, <1>10, ReservedIs
<1> HIDE DEF free
<1>12. room - Len(free) \in Nat
    BY <1>8, <1>10, <1>11, RoutingConstants
<1>13. /\ paid \in Seq(Models) /\ Routing!IsInjective(paid) /\ Routing!ToSet(paid) \subseteq Routing!ToSet(ofPaid)
       /\ \/ Len(paid) = Len(ofPaid) /\ Len(ofPaid) <= room - Len(free)
          \/ Len(paid) = room - Len(free) /\ room - Len(free) <= Len(ofPaid)
    BY <1>6, <1>12, ReservedIs
<1> HIDE DEF paid
<1>14. /\ Len(free) <= budget
       /\ \/ Len(free) = Len(ofFree)
          \/ Len(free) = budget /\ budget <= Len(ofFree)
       /\ Len(paid) <= room - Len(free)
       /\ \/ Len(paid) = Len(ofPaid)
          \/ Len(paid) = room - Len(free) /\ Len(paid) <= Len(ofPaid)
    <2>1. Len(free) \in Nat /\ Len(paid) \in Nat /\ Len(ofFree) \in Nat /\ Len(ofPaid) \in Nat
        BY <1>5, <1>6, <1>11, <1>13
    <2>2. room \in Int
        BY <1>8, RoutingConstants
    <2> HIDE DEF room
    <2>3. Len(free) <= budget
        BY <1>10, <1>11, <2>1
    <2>4. \/ Len(free) = Len(ofFree)
          \/ Len(free) = budget /\ budget <= Len(ofFree)
        BY <1>11
    <2>5. Len(paid) <= room - Len(free)
        BY <1>13, <2>1, <2>2
    <2>6. \/ Len(paid) = Len(ofPaid)
          \/ Len(paid) = room - Len(free) /\ Len(paid) <= Len(ofPaid)
        BY <1>13, <2>1, <2>2
    <2> QED
        BY <2>3, <2>4, <2>5, <2>6
<1>15. Fits(Len(first), Len(ofFree), Len(ofPaid), Len(free), Len(paid))
    <2>1. room \in Nat /\ room = MaxCandidates - Len(first)
        BY <1>8, RoutingConstants
    <2> HIDE DEF room
    <2> QED
        BY <2>1, <1>10, <1>14 DEF Fits
<1>17. Parts(E, first, ofFree, ofPaid, free, paid)
    BY <1>4, <1>5, <1>6, <1>7, <1>8, <1>11, <1>13, <1>15 DEF Parts
<1> HIDE DEF E
<1>16. \E x1, x2, x3, x4, x5 \in Seq(Models) :
          Routing!Selection(r, order) = (x1 \o x4) \o x5 /\ Parts(E, x1, x2, x3, x4, x5)
    BY <1>3, <1>4, <1>5, <1>6, <1>11, <1>13, <1>17
<1> QED
    BY <1>16 DEF E

\* The room is used: for the first choice, for what is kept of the free models
\* and of the paid ones, where paid ones have at least one place.
LEMMA RoomIsUsed ==
    ASSUME NEW first \in Nat, first <= 1,
           NEW ofFree \in Nat, NEW ofPaid \in Nat, NEW free \in Nat, NEW paid \in Nat,
           Fits(first, ofFree, ofPaid, free, paid)
    PROVE  /\ (first + free) + paid <= MaxCandidates
           /\ (first + free) + paid <= (first + ofFree) + ofPaid
           /\ \/ (first + free) + paid = MaxCandidates
              \/ (first + free) + paid = (first + ofFree) + ofPaid
           /\ ofFree > 0 => free > 0
           /\ ofPaid > 0 => paid > 0
BY RoutingConstants DEF Fits

\* Two parts without a model in common.
LEMMA JoinIs ==
    ASSUME NEW s \in Seq(Models), NEW t \in Seq(Models),
           Routing!IsInjective(s), Routing!IsInjective(t), Routing!ToSet(s) \cap Routing!ToSet(t) = {}
    PROVE  /\ s \o t \in Seq(Models) /\ Len(s \o t) = Len(s) + Len(t)
           /\ Routing!ToSet(s \o t) = Routing!ToSet(s) \cup Routing!ToSet(t) /\ Routing!IsInjective(s \o t)
           /\ \A i \in 1 .. Len(s) : (s \o t)[i] = s[i]
           /\ \A i \in Len(s) + 1 .. Len(s) + Len(t) :
                 i - Len(s) \in 1 .. Len(t) /\ (s \o t)[i] = t[i - Len(s)]
BY ConcatIs

\* What a selection s from E is: eligible models, each once, in order, as many as
\* there are and as fit; of every billing category, and among the free ones of
\* every provider or else of another one each.
Chosen(s, E) ==
    LET free(S) == {m \in S \ {Selected} : Billing[m] = "free"}
        providers(S) == {Provider[m] : m \in S}
    IN  /\ s \in Seq(Models) /\ Routing!IsInjective(s) /\ Len(s) <= MaxCandidates
        /\ ChoiceFirst(s) /\ FreeFirst(s)
        /\ Routing!Cardinality(Routing!ToSet(s)) = Routing!Min({MaxCandidates, Routing!Cardinality(E)})
        /\ {Billing[m] : m \in Routing!ToSet(s)} = {Billing[m] : m \in E}
        /\ \/ providers(free(Routing!ToSet(s))) = providers(free(E))
           \/ Routing!Cardinality(providers(free(Routing!ToSet(s)))) = Routing!Cardinality(free(Routing!ToSet(s)))

LEMMA SelectionIs ==
    ASSUME NEW r, NEW order \in Orders
    PROVE  Chosen(Routing!Selection(r, order), Routing!Eligible(r))
<1> DEFINE E == Routing!Eligible(r)
           s == Routing!Selection(r, order)
           Free(S) == {m \in S \ {Selected} : Billing[m] = "free"}
           Paid(S) == {m \in S \ {Selected} : Billing[m] = "paid"}
           Of(S) == {Provider[m] : m \in S}
<1>p. PICK first \in Seq(Models), ofFree \in Seq(Models), ofPaid \in Seq(Models),
           free \in Seq(Models), paid \in Seq(Models) :
         s = (first \o free) \o paid /\ Parts(E, first, ofFree, ofPaid, free, paid)
    BY SelectionParts
<1>1. /\ s = (first \o free) \o paid
      /\ /\ Routing!IsInjective(first) /\ Routing!IsInjective(ofFree) /\ Routing!IsInjective(ofPaid)
         /\ Routing!IsInjective(free) /\ Routing!IsInjective(paid)
      /\ Routing!ToSet(first) = E \cap {Selected} /\ Len(first) <= 1
      /\ Routing!ToSet(ofFree) = Free(E) /\ Routing!ToSet(ofPaid) = Paid(E)
      /\ Routing!ToSet(free) \subseteq Routing!ToSet(ofFree) /\ Routing!ToSet(paid) \subseteq Routing!ToSet(ofPaid)
      /\ \/ ProvidersOf(free) = ProvidersOf(ofFree)
         \/ Cardinality(ProvidersOf(free)) = Len(free)
    BY <1>p DEF Parts
<1>2. E \in SUBSET Models /\ IsFiniteSet(E) /\ Cardinality(E) \in Nat
    BY EligibleAre
<1> HIDE DEF E, s
<1>3. \A m \in Models : Billing[m] \in {"free", "paid"}
    BY RoutingConstants
<1>4. /\ Len(first) \in Nat /\ Len(free) \in Nat /\ Len(paid) \in Nat
      /\ Len(ofFree) \in Nat /\ Len(ofPaid) \in Nat /\ MaxCandidates \in Nat /\ MaxCandidates >= 3
    BY <1>1, RoutingConstants
<1>c. /\ (Len(first) + Len(free)) + Len(paid) <= MaxCandidates
      /\ (Len(first) + Len(free)) + Len(paid) <= (Len(first) + Len(ofFree)) + Len(ofPaid)
      /\ \/ (Len(first) + Len(free)) + Len(paid) = MaxCandidates
         \/ (Len(first) + Len(free)) + Len(paid) = (Len(first) + Len(ofFree)) + Len(ofPaid)
      /\ Len(ofFree) > 0 => Len(free) > 0
      /\ Len(ofPaid) > 0 => Len(paid) > 0
    <2>1. Fits(Len(first), Len(ofFree), Len(ofPaid), Len(free), Len(paid))
        BY <1>p DEF Parts
    <2> QED
        BY <1>1, <1>4, <2>1, RoomIsUsed
<1> DEFINE both == first \o free
           ofBoth == first \o ofFree
           all == ofBoth \o ofPaid
<1>5. /\ Routing!ToSet(first) \cap Routing!ToSet(ofFree) = {} /\ Routing!ToSet(first) \cap Routing!ToSet(free) = {}
      /\ (Routing!ToSet(first) \cup Routing!ToSet(ofFree)) \cap Routing!ToSet(ofPaid) = {}
      /\ (Routing!ToSet(first) \cup Routing!ToSet(free)) \cap Routing!ToSet(paid) = {}
      /\ E = (Routing!ToSet(first) \cup Routing!ToSet(ofFree)) \cup Routing!ToSet(ofPaid)
    BY <1>1, <1>2, <1>3
<1>6. /\ both \in Seq(Models) /\ Len(both) = Len(first) + Len(free)
      /\ Routing!ToSet(both) = Routing!ToSet(first) \cup Routing!ToSet(free) /\ Routing!IsInjective(both)
      /\ \A i \in 1 .. Len(first) : both[i] = first[i]
      /\ \A i \in Len(first) + 1 .. Len(first) + Len(free) :
            i - Len(first) \in 1 .. Len(free) /\ both[i] = free[i - Len(first)]
    BY <1>1, <1>5, JoinIs
<1>7. /\ ofBoth \in Seq(Models) /\ Len(ofBoth) = Len(first) + Len(ofFree)
      /\ Routing!ToSet(ofBoth) = Routing!ToSet(first) \cup Routing!ToSet(ofFree) /\ Routing!IsInjective(ofBoth)
    BY <1>1, <1>5, JoinIs
<1> HIDE DEF both, ofBoth
<1>8. /\ s \in Seq(Models) /\ Len(s) = (Len(first) + Len(free)) + Len(paid)
      /\ Routing!ToSet(s) = (Routing!ToSet(first) \cup Routing!ToSet(free)) \cup Routing!ToSet(paid) /\ Routing!IsInjective(s)
      /\ \A i \in 1 .. Len(both) : s[i] = both[i]
      /\ \A i \in Len(both) + 1 .. Len(both) + Len(paid) :
            i - Len(both) \in 1 .. Len(paid) /\ s[i] = paid[i - Len(both)]
    <2>1. s = both \o paid
        BY <1>1 DEF both
    <2>2. Routing!ToSet(both) \cap Routing!ToSet(paid) = {}
        BY <1>5, <1>6
    <2>3. /\ both \o paid \in Seq(Models) /\ Len(both \o paid) = Len(both) + Len(paid)
          /\ Routing!ToSet(both \o paid) = Routing!ToSet(both) \cup Routing!ToSet(paid)
          /\ Routing!IsInjective(both \o paid)
          /\ \A i \in 1 .. Len(both) : (both \o paid)[i] = both[i]
          /\ \A i \in Len(both) + 1 .. Len(both) + Len(paid) :
                i - Len(both) \in 1 .. Len(paid) /\ (both \o paid)[i] = paid[i - Len(both)]
        <3>1. /\ both \in Seq(Models) /\ paid \in Seq(Models)
              /\ Routing!IsInjective(both) /\ Routing!IsInjective(paid)
            BY <1>1, <1>6
        <3> QED
            BY <2>2, <3>1, JoinIs
    <2> QED
        BY <1>6, <2>1, <2>3
<1>9. /\ all \in Seq(Models) /\ Len(all) = (Len(first) + Len(ofFree)) + Len(ofPaid)
      /\ Routing!ToSet(all) = E /\ Routing!IsInjective(all)
    <2>1. Routing!ToSet(ofBoth) \cap Routing!ToSet(ofPaid) = {}
        BY <1>5, <1>7
    <2>2. /\ all \in Seq(Models) /\ Len(all) = Len(ofBoth) + Len(ofPaid)
          /\ Routing!ToSet(all) = Routing!ToSet(ofBoth) \cup Routing!ToSet(ofPaid) /\ Routing!IsInjective(all)
        BY <1>1, <1>7, <2>1, JoinIs
    <2> QED
        BY <1>5, <1>7, <2>2
<1> HIDE DEF all
<1>10. /\ Cardinality(E) = (Len(first) + Len(ofFree)) + Len(ofPaid)
       /\ Cardinality(Routing!ToSet(s)) = Len(s) /\ Cardinality(Routing!ToSet(free)) = Len(free)
    BY <1>1, <1>8, <1>9, LengthIsCount
<1>11. Len(s) <= MaxCandidates
    BY <1>c, <1>8
<1>12. Cardinality(Routing!ToSet(s)) = Routing!Min({MaxCandidates, Cardinality(E)})
    <2>1. /\ Len(s) <= Cardinality(E)
          /\ Len(s) = MaxCandidates \/ Len(s) = Cardinality(E)
        BY <1>c, <1>8, <1>10
    <2>2. Cardinality(E) \in Int /\ MaxCandidates \in Int /\ Len(s) \in Int
        BY <1>2, <1>4, <1>8
    <2>3. Routing!Min({MaxCandidates, Cardinality(E)}) =
            IF MaxCandidates <= Cardinality(E) THEN MaxCandidates ELSE Cardinality(E)
        BY <2>2, LeastOfTwo
    <2> QED
        BY <1>10, <1>11, <2>1, <2>2, <2>3
<1>13. /\ \A i \in 1 .. Len(first) : s[i] = Selected
       /\ \A i \in 1 .. Len(s) : i > Len(first) /\ i <= Len(both) =>
                s[i] # Selected /\ Billing[s[i]] = "free"
       /\ \A i \in 1 .. Len(s) : i > Len(both) => s[i] # Selected /\ Billing[s[i]] = "paid"
    <2>1. \A i \in 1 .. Len(first) : first[i] \in Routing!ToSet(first)
        BY <1>1 DEF Routing!ToSet
    <2>2. \A i \in 1 .. Len(free) : free[i] \in Routing!ToSet(free)
        BY <1>1 DEF Routing!ToSet
    <2>3. \A i \in 1 .. Len(paid) : paid[i] \in Routing!ToSet(paid)
        BY <1>1 DEF Routing!ToSet
    <2>4. ASSUME NEW i \in 1 .. Len(first) PROVE s[i] = Selected
        <3>1. s[i] = first[i]
            BY <1>4, <1>6, <1>8
        <3> QED
            BY <1>1, <2>1, <3>1
    <2>5. ASSUME NEW i \in 1 .. Len(s), i > Len(first), i <= Len(both)
          PROVE  s[i] # Selected /\ Billing[s[i]] = "free"
        <3>1. i - Len(first) \in 1 .. Len(free) /\ s[i] = free[i - Len(first)]
            BY <1>4, <1>6, <1>8, <2>5
        <3> QED
            BY <1>1, <2>2, <3>1
    <2>6. ASSUME NEW i \in 1 .. Len(s), i > Len(both)
          PROVE  s[i] # Selected /\ Billing[s[i]] = "paid"
        <3>1. i - Len(both) \in 1 .. Len(paid) /\ s[i] = paid[i - Len(both)]
            BY <1>4, <1>6, <1>8, <2>6
        <3> QED
            BY <1>1, <2>3, <3>1
    <2> QED
        BY <2>4, <2>5, <2>6
<1>14. ChoiceFirst(s)
    BY <1>1, <1>4, <1>6, <1>8, <1>13 DEF ChoiceFirst
<1>15. FreeFirst(s)
    <2> SUFFICES ASSUME NEW i \in 1 .. Len(s), NEW j \in 1 .. Len(s),
                        s[i] # Selected, i < j,
                        Billing[s[i]] = "paid", Billing[s[j]] = "free"
                 PROVE  FALSE
        BY DEF FreeFirst
    <2>1. i > Len(both)
        <3>1. Len(first) \in Nat /\ Len(both) \in Nat /\ i \in Int
            BY <1>4, <1>6, <1>8
        <3>2. CASE i <= Len(first)
            BY <1>13, <3>1, <3>2
        <3>3. CASE i > Len(first) /\ i <= Len(both)
            BY <1>13, <3>3
        <3> QED
            BY <3>1, <3>2, <3>3
    <2>2. j > Len(both)
        BY <2>1, <1>4, <1>6
    <2> QED
        BY <1>13, <2>2
<1>16. {Billing[m] : m \in Routing!ToSet(s)} = {Billing[m] : m \in E}
    <2>1. Routing!ToSet(s) \subseteq E
        BY <1>1, <1>5, <1>8
    <2>2. ASSUME NEW m \in E PROVE \E x \in Routing!ToSet(s) : Billing[x] = Billing[m]
        <3>1. CASE m = Selected
            BY <1>1, <1>8, <3>1
        <3>2. CASE m # Selected /\ Billing[m] = "free"
            <4>1. Len(ofFree) > 0
                <5>1. m \in Routing!ToSet(ofFree)
                    BY <1>1, <3>2
                <5> QED
                    BY <1>1, <1>4, <5>1 DEF Routing!ToSet
            <4>2. 1 \in 1 .. Len(free)
                BY <1>c, <1>4, <4>1
            <4>3. free[1] \in Routing!ToSet(free)
                BY <1>1, <4>2 DEF Routing!ToSet
            <4> QED
                BY <1>1, <1>8, <3>2, <4>3
        <3>3. CASE m # Selected /\ Billing[m] = "paid"
            <4>1. Len(ofPaid) > 0
                <5>1. m \in Routing!ToSet(ofPaid)
                    BY <1>1, <3>3
                <5> QED
                    BY <1>1, <1>4, <5>1 DEF Routing!ToSet
            <4>2. 1 \in 1 .. Len(paid)
                BY <1>c, <1>4, <4>1
            <4>3. paid[1] \in Routing!ToSet(paid)
                BY <1>1, <4>2 DEF Routing!ToSet
            <4> QED
                BY <1>1, <1>8, <3>3, <4>3
        <3> QED
            BY <1>2, <1>3, <3>1, <3>2, <3>3
    <2> QED
        BY <2>1, <2>2
<1>17. \/ Of(Free(Routing!ToSet(s))) = Of(Free(E))
       \/ Cardinality(Of(Free(Routing!ToSet(s)))) = Cardinality(Free(Routing!ToSet(s)))
    <2>1. Free(Routing!ToSet(s)) = Routing!ToSet(free)
        BY <1>1, <1>8
    <2>2. ProvidersOf(free) = Of(Routing!ToSet(free)) /\ ProvidersOf(ofFree) = Of(Routing!ToSet(ofFree))
        BY DEF ProvidersOf
    <2> HIDE DEF Of, Free
    <2> QED
        BY <1>1, <1>10, <2>1, <2>2
<1> HIDE DEF Of, Free
<1>18. /\ Routing!Cardinality(Routing!ToSet(s)) = Routing!Min({MaxCandidates, Routing!Cardinality(E)})
       /\ \/ Of(Free(Routing!ToSet(s))) = Of(Free(E))
          \/ Routing!Cardinality(Of(Free(Routing!ToSet(s)))) = Routing!Cardinality(Free(Routing!ToSet(s)))
    BY <1>12, <1>17, SameRoutingCount
<1> QED
    BY <1>8, <1>11, <1>14, <1>15, <1>16, <1>18 DEF Chosen, E, s, Of, Free

LEMMA SliceIs ==
    ASSUME NEW s \in Seq(Models), NEW a \in 0 .. Len(s), NEW b \in a .. Len(s)
    PROVE  /\ SubSeq(s, a + 1, b) \in Seq(Models) /\ Len(SubSeq(s, a + 1, b)) = b - a
           /\ \A k \in 1 .. b - a : SubSeq(s, a + 1, b)[k] = s[a + k]
OBVIOUS

\* What prefer_next_provider moves: one candidate, ahead of those of its billing
\* category that follow the failed one.
Moved(s, i, j) ==
    SubSeq(s, 1, i) \o <<s[j]>> \o SubSeq(s, i + 1, j - 1) \o SubSeq(s, j + 1, Len(s))

LEMMA MovedAhead ==
    ASSUME NEW s \in Seq(Models), NEW i \in 1 .. Len(s), NEW j \in i + 1 .. Len(s),
           NEW t, t = Moved(s, i, j)
    PROVE  /\ t \in Seq(Models) /\ Len(t) = Len(s)
           /\ \A k \in 1 .. i : t[k] = s[k]
           /\ t[i + 1] = s[j]
           /\ \A k \in i + 2 .. j : t[k] = s[k - 1]
           /\ \A k \in j + 1 .. Len(s) : t[k] = s[k]
<1> DEFINE u == SubSeq(s, 1, i)
           v == <<s[j]>>
           w == SubSeq(s, i + 1, j - 1)
           x == SubSeq(s, j + 1, Len(s))
<1>1. /\ Len(s) \in Nat /\ i \in Nat /\ j \in Nat /\ i >= 1 /\ i < j /\ j <= Len(s)
      /\ \A k \in 1 .. Len(s) : s[k] \in Models
    OBVIOUS
<1>2. u \in Seq(Models) /\ Len(u) = i /\ \A k \in 1 .. i : u[k] = s[k]
    BY <1>1
<1>3. v \in Seq(Models) /\ Len(v) = 1 /\ v[1] = s[j]
    BY <1>1
<1>4. /\ w \in Seq(Models) /\ Len(w) = (j - 1) - i
      /\ \A k \in 1 .. (j - 1) - i : w[k] = s[i + k]
    <2>1. i \in 0 .. Len(s) /\ j - 1 \in i .. Len(s)
        BY <1>1
    <2> QED
        BY <2>1, SliceIs
<1>5. /\ x \in Seq(Models) /\ Len(x) = Len(s) - j
      /\ \A k \in 1 .. Len(s) - j : x[k] = s[j + k]
    BY <1>1, SliceIs
<1> HIDE DEF u, v, w, x
<1> DEFINE uv == u \o v
           uvw == uv \o w
<1>6. /\ uv \in Seq(Models) /\ Len(uv) = i + 1
      /\ \A k \in 1 .. i : uv[k] = s[k]
      /\ uv[i + 1] = s[j]
    <2>1. /\ uv \in Seq(Models) /\ Len(uv) = Len(u) + Len(v)
          /\ \A k \in 1 .. Len(u) : uv[k] = u[k]
          /\ \A k \in Len(u) + 1 .. Len(u) + Len(v) : uv[k] = v[k - Len(u)]
        <3>1. u \in Seq(Models) /\ v \in Seq(Models)
            BY <1>2, <1>3
        <3> QED
            BY <3>1, ConcatIs
    <2>2. i + 1 \in Len(u) + 1 .. Len(u) + Len(v) /\ (i + 1) - Len(u) = 1
        BY <1>1, <1>2, <1>3
    <2> HIDE DEF uv
    <2> QED
        BY <1>1, <1>2, <1>3, <2>1, <2>2
<1> HIDE DEF uv
<1>7. /\ uvw \in Seq(Models) /\ Len(uvw) = j
      /\ \A k \in 1 .. i + 1 : uvw[k] = uv[k]
      /\ \A k \in i + 2 .. j : uvw[k] = s[k - 1]
    <2>1. /\ uvw \in Seq(Models) /\ Len(uvw) = Len(uv) + Len(w)
          /\ \A k \in 1 .. Len(uv) : uvw[k] = uv[k]
          /\ \A k \in Len(uv) + 1 .. Len(uv) + Len(w) : uvw[k] = w[k - Len(uv)]
        <3>1. uv \in Seq(Models) /\ w \in Seq(Models)
            BY <1>4, <1>6
        <3> QED
            BY <3>1, ConcatIs
    <2> HIDE DEF uvw
    <2>2. ASSUME NEW k \in i + 2 .. j PROVE uvw[k] = s[k - 1]
        <3>1. /\ k \in Int /\ k - (i + 1) \in 1 .. (j - 1) - i /\ i + (k - (i + 1)) = k - 1
              /\ k \in Len(uv) + 1 .. Len(uv) + Len(w)
            BY <1>1, <1>4, <1>6
        <3>2. uvw[k] = w[k - (i + 1)]
            BY <1>6, <2>1, <3>1
        <3> QED
            BY <1>4, <3>1, <3>2
    <2>3. Len(uv) + Len(w) = j
        BY <1>1, <1>4, <1>6
    <2> QED
        BY <1>6, <2>1, <2>2, <2>3
<1> HIDE DEF uvw
<1>8. t = uvw \o x
    BY DEF u, v, w, x, uv, uvw, Moved
<1>9. /\ t \in Seq(Models) /\ Len(t) = Len(s)
      /\ \A k \in 1 .. j : t[k] = uvw[k]
      /\ \A k \in j + 1 .. Len(s) : t[k] = s[k]
    <2>1. /\ t \in Seq(Models) /\ Len(t) = Len(uvw) + Len(x)
          /\ \A k \in 1 .. Len(uvw) : t[k] = uvw[k]
          /\ \A k \in Len(uvw) + 1 .. Len(uvw) + Len(x) : t[k] = x[k - Len(uvw)]
        <3> DEFINE ux == uvw \o x
        <3>1. /\ ux \in Seq(Models) /\ Len(ux) = Len(uvw) + Len(x)
              /\ \A k \in 1 .. Len(uvw) : ux[k] = uvw[k]
              /\ \A k \in Len(uvw) + 1 .. Len(uvw) + Len(x) : ux[k] = x[k - Len(uvw)]
            <4>1. uvw \in Seq(Models) /\ x \in Seq(Models)
                BY <1>5, <1>7
            <4> QED
                BY <4>1, ConcatIs
        <3>2. t = ux
            BY <1>8
        <3> QED
            BY <3>1, <3>2
    <2>2. ASSUME NEW k \in j + 1 .. Len(s) PROVE t[k] = s[k]
        <3>1. /\ k \in Int /\ k - j \in 1 .. Len(s) - j /\ j + (k - j) = k
              /\ k \in Len(uvw) + 1 .. Len(uvw) + Len(x)
            BY <1>1, <1>5, <1>7
        <3>2. t[k] = x[k - j]
            BY <1>7, <2>1, <3>1
        <3> QED
            BY <1>5, <3>1, <3>2
    <2>3. Len(uvw) + Len(x) = Len(s)
        BY <1>1, <1>5, <1>7
    <2> QED
        BY <1>7, <2>1, <2>2, <2>3
<1>10. /\ \A k \in 1 .. i : t[k] = s[k]
       /\ t[i + 1] = s[j]
       /\ \A k \in i + 2 .. j : t[k] = s[k - 1]
       /\ \A k \in j + 1 .. Len(s) : t[k] = s[k]
    <2>1. \A k \in 1 .. i : k \in 1 .. j /\ k \in 1 .. i + 1
        BY <1>1
    <2>2. i + 1 \in 1 .. j /\ i + 1 \in 1 .. i + 1
        BY <1>1
    <2>3. \A k \in i + 2 .. j : k \in 1 .. j
        BY <1>1
    <2>4. \A k \in 1 .. i : t[k] = s[k]
        BY <1>6, <1>7, <1>9, <2>1
    <2>5. t[i + 1] = s[j]
        BY <1>6, <1>7, <1>9, <2>2
    <2>6. \A k \in i + 2 .. j : t[k] = s[k - 1]
        BY <1>7, <1>9, <2>3
    <2> QED
        BY <1>9, <2>4, <2>5, <2>6
<1> QED
    BY <1>9, <1>10

\* It leaves the order of the categories, and the first candidate.
Orderly(t, n) ==
    t \in Seq(Models) /\ Len(t) = n /\ Routing!IsInjective(t) /\ ChoiceFirst(t) /\ FreeFirst(t)

LEMMA PreferenceIs ==
    ASSUME NEW s \in Seq(Models), NEW i \in 1 .. Len(s), Routing!IsInjective(s),
           ChoiceFirst(s), FreeFirst(s)
    PROVE  Orderly(Routing!PreferNextProvider(s, i), Len(s))
<1> DEFINE t == Routing!PreferNextProvider(s, i)
           others == {j \in i + 1 .. Len(s) :
                        /\ \A k \in i + 1 .. j : Billing[s[k]] = Billing[s[i + 1]]
                        /\ Provider[s[j]] # Provider[s[i]]}
           first == CHOOSE j \in others : \A k \in others : j <= k
<1>1. CASE others = {}
    BY <1>1 DEF Routing!PreferNextProvider, Orderly
<1>2. CASE others # {}
    <2>1. others \in SUBSET Nat
        OBVIOUS
    <2>2. first \in others
        BY <1>2, <2>1, LeastNumber
    <2>3. t = Moved(s, i, first)
        BY <1>2 DEF Routing!PreferNextProvider, Moved
    <2>4. /\ first \in i + 1 .. Len(s)
          /\ \A k \in i + 1 .. first : Billing[s[k]] = Billing[s[i + 1]]
        BY <2>2
    <2> HIDE DEF others, first, t
    <2> DEFINE j == first
               From(k) == IF k <= i \/ k > j THEN k ELSE IF k = i + 1 THEN j ELSE k - 1
    <2>a. /\ t \in Seq(Models) /\ Len(t) = Len(s)
          /\ \A k \in 1 .. i : t[k] = s[k]
          /\ t[i + 1] = s[j]
          /\ \A k \in i + 2 .. j : t[k] = s[k - 1]
          /\ \A k \in j + 1 .. Len(s) : t[k] = s[k]
        BY <2>3, <2>4, MovedAhead
    <2>6. /\ Len(s) \in Nat /\ i \in Nat /\ i >= 1 /\ j \in Nat /\ i < j /\ j <= Len(s)
          /\ \A k \in i + 1 .. j : Billing[s[k]] = Billing[s[i + 1]]
          /\ DOMAIN s = 1 .. Len(s) /\ DOMAIN t = 1 .. Len(s)
        BY <2>4, <2>a
    <2> HIDE DEF j
    <2>5. /\ t \in Seq(Models) /\ Len(t) = Len(s)
          /\ \A k \in 1 .. Len(s) : t[k] = s[From(k)]
        <3> SUFFICES ASSUME NEW k \in 1 .. Len(s) PROVE t[k] = s[From(k)]
            BY <2>a
        <3>1. CASE k <= i
            <4>1. From(k) = k /\ k \in 1 .. i
                BY <3>1, <2>6
            <4> QED
                BY <4>1, <2>a
        <3>2. CASE k > j
            <4>1. From(k) = k /\ k \in j + 1 .. Len(s)
                BY <3>2, <2>6
            <4> QED
                BY <4>1, <2>a
        <3>3. CASE k = i + 1
            <4>1. From(k) = j
                BY <3>3, <2>6
            <4> QED
                BY <3>3, <4>1, <2>a
        <3>4. CASE k > i + 1 /\ k <= j
            <4>1. From(k) = k - 1 /\ k \in i + 2 .. j
                BY <3>4, <2>6
            <4> QED
                BY <4>1, <2>a
        <3> QED
            BY <2>6, <3>1, <3>2, <3>3, <3>4
    <2>7. /\ \A k \in 1 .. Len(s) : From(k) \in 1 .. Len(s)
          /\ \A k \in 2 .. Len(s) : From(k) \in 2 .. Len(s)
        BY <2>6
    <2>8. \A k, l \in 1 .. Len(s) : From(k) = From(l) => k = l
        BY <2>6
    <2>9. \A k \in 1 .. Len(s) : Billing[s[From(k)]] = Billing[s[k]]
        <3> SUFFICES ASSUME NEW k \in 1 .. Len(s) PROVE Billing[s[From(k)]] = Billing[s[k]]
            OBVIOUS
        <3>1. CASE k <= i \/ k > j
            BY <3>1
        <3>2. CASE i < k /\ k <= j
            <4>1. k \in i + 1 .. j /\ From(k) \in i + 1 .. j
                BY <2>6, <3>2
            <4> QED
                BY <2>6, <4>1
        <3> QED
            BY <2>6, <3>1, <3>2
    <2>10. \A k, l \in 2 .. Len(s) : From(k) < From(l) \/ k >= l \/ Billing[s[k]] = Billing[s[l]]
        <3> SUFFICES ASSUME NEW k \in 2 .. Len(s), NEW l \in 2 .. Len(s),
                            ~(From(k) < From(l)), k < l
                     PROVE  Billing[s[k]] = Billing[s[l]]
            BY <2>6
        <3>1. CASE k <= i
            <4>1. From(k) = k /\ (From(l) = l \/ From(l) >= i + 1)
                BY <2>6, <3>1
            <4> QED
                BY <2>6, <3>1, <4>1
        <3>2. CASE l > j
            <4>1. From(l) = l /\ (From(k) = k \/ From(k) <= j)
                BY <2>6, <3>2
            <4> QED
                BY <2>6, <3>2, <4>1
        <3>3. CASE k > i /\ l <= j
            <4>1. k \in i + 1 .. j /\ l \in i + 1 .. j
                BY <2>6, <3>3
            <4> QED
                BY <2>6, <4>1
        <3> QED
            BY <2>6, <3>1, <3>2, <3>3
    <2> HIDE DEF From
    <2>11. Routing!IsInjective(t)
        <3> SUFFICES ASSUME NEW k \in 1 .. Len(s), NEW l \in 1 .. Len(s), t[k] = t[l]
                     PROVE  k = l
            BY <2>6 DEF Routing!IsInjective
        <3>1. s[From(k)] = s[From(l)]
            BY <2>5
        <3>2. From(k) = From(l)
            BY <2>6, <2>7, <3>1 DEF Routing!IsInjective
        <3> QED
            BY <2>8, <3>2
    <2>12. ChoiceFirst(t)
        <3> SUFFICES ASSUME NEW k \in 2 .. Len(s) PROVE t[k] # Selected
            BY <2>5 DEF ChoiceFirst
        <3>1. t[k] = s[From(k)] /\ From(k) \in 2 .. Len(s)
            BY <2>5, <2>6, <2>7
        <3> QED
            BY <3>1 DEF ChoiceFirst
    <2>13. FreeFirst(t)
        <3> SUFFICES ASSUME NEW k \in 1 .. Len(s), NEW l \in 1 .. Len(s), k < l,
                            t[k] # Selected, t[l] # Selected,
                            Billing[t[k]] = "paid", Billing[t[l]] = "free"
                     PROVE  FALSE
            BY <2>5 DEF FreeFirst
        <3>1. Billing[s[k]] = "paid" /\ Billing[s[l]] = "free"
            BY <2>5, <2>9
        <3>2. l \in 2 .. Len(s)
            BY <2>6
        <3>3. s[l] # Selected
            BY <3>2 DEF ChoiceFirst
        <3>4. CASE k = 1
            <4>1. From(1) = 1
                BY <2>6 DEF From
            <4>2. s[1] # Selected
                BY <2>5, <3>4, <4>1
            <4> QED
                BY <3>1, <3>3, <3>4, <4>2 DEF FreeFirst
        <3>5. CASE k # 1
            <4>1. k \in 2 .. Len(s)
                BY <3>5, <2>6
            <4>2. s[k] # Selected
                BY <4>1 DEF ChoiceFirst
            <4> QED
                BY <3>1, <3>3, <4>2 DEF FreeFirst
        <3> QED
            BY <3>4, <3>5
    <2> QED
        BY <2>5, <2>11, <2>12, <2>13 DEF t, Orderly
<1> QED
    BY <1>1, <1>2

\* The recursive function inside a sum: its elements are taken in any order.
AnyOf(S) == CHOOSE x \in S : TRUE
IsSum(g, f, D) ==
    \A S \in D : g[S] = IF S = {} THEN 0 ELSE f[AnyOf(S)] + g[S \ {AnyOf(S)}]

SumsUp(g, f, T) ==
    g = [S \in SUBSET T |-> IF S = {} THEN 0 ELSE f[AnyOf(S)] + g[S \ {AnyOf(S)}]]

SubsetsAre(T) ==
    /\ \A S \in SUBSET T : IsFiniteSet(S) /\ Cardinality(S) \in Nat
                           /\ Cardinality(S) <= Cardinality(T)
    /\ \A S \in SUBSET T : Cardinality(S) = 0 <=> S = {}
    /\ \A S \in SUBSET T : S # {} => /\ AnyOf(S) \in S
                                     /\ S \ {AnyOf(S)} \in SUBSET T
                                     /\ Cardinality(S \ {AnyOf(S)}) = Cardinality(S) - 1

LEMMA SubsetsOfFinite ==
    ASSUME NEW T, IsFiniteSet(T)
    PROVE  SubsetsAre(T)
<1>1. \A S \in SUBSET T : IsFiniteSet(S) /\ Cardinality(S) \in Nat
                           /\ Cardinality(S) <= Cardinality(T)
    BY FS_Subset, FS_CardinalityType
<1>2. \A S \in SUBSET T : Cardinality(S) = 0 <=> S = {}
    BY <1>1, FS_EmptySet
<1>3. ASSUME NEW S \in SUBSET T, S # {}
      PROVE  /\ AnyOf(S) \in S /\ S \ {AnyOf(S)} \in SUBSET T
             /\ Cardinality(S \ {AnyOf(S)}) = Cardinality(S) - 1
    <2>1. AnyOf(S) \in S
        BY <1>3 DEF AnyOf
    <2>2. Cardinality(S \ {AnyOf(S)}) = Cardinality(S) - 1
        BY <1>1, <2>1, FS_RemoveElement
    <2> QED
        BY <2>1, <2>2
<1> QED
    BY <1>1, <1>2, <1>3 DEF SubsetsAre

\* It exists.
LEMMA SumExists ==
    ASSUME NEW T, IsFiniteSet(T), NEW f
    PROVE  \E g : SumsUp(g, f, T)
<1> DEFINE Layer(n) == {S \in SUBSET T : Cardinality(S) <= n}
           Has(n) == \E g : g = [S \in Layer(n) |-> g[S]] /\ IsSum(g, f, Layer(n))
           P == {n \in Nat : Has(n)}
<1>1. SubsetsAre(T)
    BY SubsetsOfFinite
<1>3. Has(0)
    <2> DEFINE g == [S \in Layer(0) |-> 0]
    <2>1. \A S \in Layer(0) : S = {}
        BY <1>1 DEF SubsetsAre
    <2>2. IsSum(g, f, Layer(0))
        BY <2>1 DEF IsSum
    <2> QED
        BY <2>2
<1>4. ASSUME NEW n \in Nat, Has(n) PROVE Has(n + 1)
    <2>1. PICK g : g = [S \in Layer(n) |-> g[S]] /\ IsSum(g, f, Layer(n))
        BY <1>4
    <2> DEFINE h == [S \in Layer(n + 1) |-> IF S = {} THEN 0
                                            ELSE f[AnyOf(S)] + g[S \ {AnyOf(S)}]]
    <2>2. ASSUME NEW S \in Layer(n + 1), S # {}
          PROVE  S \ {AnyOf(S)} \in Layer(n) /\ S \ {AnyOf(S)} \in Layer(n + 1)
        BY <1>1, <2>2 DEF SubsetsAre
    <2>3. \A S \in Layer(n) : S \in Layer(n + 1) /\ h[S] = g[S]
        <3> SUFFICES ASSUME NEW S \in Layer(n) PROVE S \in Layer(n + 1) /\ h[S] = g[S]
            OBVIOUS
        <3>1. S \in Layer(n + 1)
            BY <1>1 DEF SubsetsAre
        <3>2. g[S] = IF S = {} THEN 0 ELSE f[AnyOf(S)] + g[S \ {AnyOf(S)}]
            BY <2>1 DEF IsSum
        <3> HIDE DEF Layer
        <3> QED
            BY <3>1, <3>2
    <2>4. ASSUME NEW S \in Layer(n + 1)
          PROVE  h[S] = IF S = {} THEN 0 ELSE f[AnyOf(S)] + h[S \ {AnyOf(S)}]
        <3>1. CASE S = {}
            BY <3>1
        <3>2. CASE S # {}
            BY <2>2, <2>3, <3>2
        <3> QED
            BY <3>1, <3>2
    <2>5. h = [S \in Layer(n + 1) |-> h[S]]
        OBVIOUS
    <2> HIDE DEF h
    <2>6. IsSum(h, f, Layer(n + 1))
        <3> HIDE DEF Layer
        <3> QED
            BY <2>4 DEF IsSum
    <2> QED
        BY <2>5, <2>6
<1> HIDE DEF Has
<1>5. P \in SUBSET Nat /\ 0 \in P /\ \A n \in P : n + 1 \in P
    BY <1>3, <1>4
<1> HIDE DEF P
<1>6. P = Nat /\ Cardinality(T) \in Nat
    BY <1>1, <1>5, Induction DEF SubsetsAre
<1>7. Has(Cardinality(T))
    BY <1>6 DEF P
<1>8. PICK g : g = [S \in Layer(Cardinality(T)) |-> g[S]] /\ IsSum(g, f, Layer(Cardinality(T)))
    BY <1>7 DEF Has
<1>9. Layer(Cardinality(T)) = SUBSET T
    BY <1>1 DEF SubsetsAre
<1>11. g = [S \in SUBSET T |-> IF S = {} THEN 0 ELSE f[AnyOf(S)] + g[S \ {AnyOf(S)}]]
    <2>1. g = [S \in SUBSET T |-> g[S]]
        BY <1>8, <1>9
    <2>2. \A S \in SUBSET T : g[S] = IF S = {} THEN 0 ELSE f[AnyOf(S)] + g[S \ {AnyOf(S)}]
        BY <1>8, <1>9 DEF IsSum
    <2> QED
        BY <2>1, <2>2
<1> QED
    BY <1>11 DEF SumsUp

\* So many terms of at most L make so much.
LEMMA SumIsSmall ==
    ASSUME NEW T, IsFiniteSet(T), NEW L \in Nat, NEW f \in [T -> 0 .. L],
           NEW g, IsSum(g, f, SUBSET T)
    PROVE  g[T] \in 0 .. L * Cardinality(T)
<1> DEFINE Small(n) == \A S \in SUBSET T : Cardinality(S) <= n => g[S] \in 0 .. L * Cardinality(S)
           P == {n \in Nat : Small(n)}
<1>1. SubsetsAre(T)
    BY SubsetsOfFinite
<1>2. ASSUME NEW S \in SUBSET T, S = {} PROVE g[S] \in 0 .. L * Cardinality(S)
    <2>1. g[S] = 0
        BY <1>2 DEF IsSum
    <2>2. Cardinality(S) = 0
        BY <1>1, <1>2 DEF SubsetsAre
    <2>3. L * 0 = 0
        OBVIOUS
    <2> QED
        BY <2>1, <2>2, <2>3
<1>3. Small(0)
    BY <1>1, <1>2 DEF SubsetsAre
<1>4. ASSUME NEW n \in Nat, Small(n) PROVE Small(n + 1)
    <2> SUFFICES ASSUME NEW S \in SUBSET T, Cardinality(S) <= n + 1, S # {}
                 PROVE  g[S] \in 0 .. L * Cardinality(S)
        BY <1>2
    <2> DEFINE R == S \ {AnyOf(S)}
               c == Cardinality(R)
               x == f[AnyOf(S)]
               y == g[R]
    <2>1. g[S] = x + y
        BY DEF IsSum
    <2>2. R \in SUBSET T /\ c \in Nat /\ c <= n /\ Cardinality(S) = c + 1 /\ AnyOf(S) \in T
        BY <1>1 DEF SubsetsAre
    <2>3. x \in 0 .. L /\ y \in 0 .. L * c
        BY <1>4, <2>2
    <2> HIDE DEF R, c, x, y
    <2>4. L * (c + 1) = L * c + L /\ L * c \in Nat
        BY <2>2
    <2> QED
        BY <2>1, <2>2, <2>3, <2>4
<1> HIDE DEF Small
<1>5. P \in SUBSET Nat /\ 0 \in P /\ \A n \in P : n + 1 \in P
    BY <1>3, <1>4
<1> HIDE DEF P
<1>6. P = Nat /\ Cardinality(T) \in Nat
    BY <1>1, <1>5, Induction DEF SubsetsAre
<1> QED
    BY <1>6 DEF P, Small

LEMMA ProvidersAreFinite ==
    /\ IsFiniteSet(Routing!Providers) /\ \A m \in Models : Provider[m] \in Routing!Providers
<1> DEFINE f == [m \in Models |-> Provider[m]]
<1>1. f \in Surjection(Models, Routing!Providers)
    BY DEF Routing!Providers, Surjection
<1> QED
    BY <1>1, RoutingConstants, FS_Surjection DEF Routing!Providers

\* What a request has used up of its budget.
LEMMA SumIsBounded ==
    ASSUME NEW f \in [Routing!Providers -> 0 .. FailureLimit]
    PROVE  Routing!FoldFunction(+, 0, f) \in 0 .. FailureLimit * Routing!Cardinality(Routing!Providers)
<1> DEFINE T == Routing!Providers
           It == CHOOSE g : g = [S \in SUBSET T |-> IF S = {} THEN 0
                                             ELSE f[AnyOf(S)] + g[S \ {AnyOf(S)}]]
<1>1. IsFiniteSet(T) /\ FailureLimit \in Nat
    BY ProvidersAreFinite, RoutingConstants
<1> HIDE DEF T
<1>2. It = [S \in SUBSET T |-> IF S = {} THEN 0 ELSE f[AnyOf(S)] + It[S \ {AnyOf(S)}]]
    <2>1. PICK g : SumsUp(g, f, T)
        BY <1>1, SumExists
    <2> QED
        BY <2>1 DEF SumsUp
<1>3. Routing!FoldFunction(+, 0, f) = It[T]
    <2>1. DOMAIN f = T
        BY DEF T
    <2> QED
        BY <2>1 DEF Routing!FoldFunction, Routing!FoldFunctionOnSet, Routing!MapThenFoldSet,
            AnyOf
<1> HIDE DEF It
<1>4. IsSum(It, f, SUBSET T)
    BY <1>2 DEF IsSum
<1>5. It[T] \in 0 .. FailureLimit * Cardinality(T)
    BY <1>1, <1>4, SumIsSmall DEF T
<1> QED
    BY <1>3, <1>5, SameRoutingCount DEF T

(***************************************************************************)
(* Routing: how requests walk their candidates                             *)
(***************************************************************************)

\* What the invariant says of one request.
WalksWell(r) ==
    /\ Routing!IsInjective(routeCands[r]) /\ FreeFirst(routeCands[r]) /\ ChoiceFirst(routeCands[r])
    /\ routeAt[r] \in 1 .. Len(routeCands[r]) /\ Len(routeCands[r]) <= MaxCandidates
    /\ Routing!Allows(routeFailures[r], Provider[routeCands[r][routeAt[r]]])
Sane(r) ==
    /\ routeOut[r] # NoModel =>
          /\ routePc[r] \in {"flow", "close", "done", "failed"}
          /\ routePc[r] \in {"flow", "close"} => routeCands[r][routeAt[r]] = routeOut[r]
    /\ routePc[r] \in {"read", "flow", "close"} => WalksWell(r)
    /\ routePc[r] = "flow" => routeOut[r] # NoModel
    /\ routePc[r] = "close" => routeFailure[r] # "none"

LEMMA SaneIs ==
    Routing!IInv <=> /\ Routing!CooldownsOK /\ Routing!WalksOK /\ Routing!BudgetsOK
              /\ \A r \in Requests : Sane(r)
BY DEF Routing!IInv, Routing!TypeOK, Routing!FallbackIsOrderly, Routing!OneModelAnswers,
    Routing!FallbackIsFair, Routing!WalkIsWithin, Routing!ChoiceIsFirst, Routing!StreamIsTold,
    Routing!Walking, Sane, WalksWell, FreeFirst, ChoiceFirst

LEMMA SaneNext ==
    Routing!IInv' <=> /\ Routing!CooldownsOK' /\ Routing!WalksOK' /\ Routing!BudgetsOK'
               /\ \A r \in Requests : Sane(r)'
BY DEF Routing!IInv, Routing!TypeOK, Routing!FallbackIsOrderly, Routing!OneModelAnswers,
    Routing!FallbackIsFair, Routing!WalkIsWithin, Routing!ChoiceIsFirst, Routing!StreamIsTold,
    Routing!Walking, Sane, WalksWell, FreeFirst, ChoiceFirst

LEMMA OthersStay ==
    ASSUME NEW q, Sane(q), routePc'[q] = routePc[q], routeCands'[q] = routeCands[q],
           routeAt'[q] = routeAt[q], routeFailure'[q] = routeFailure[q],
           routeOut'[q] = routeOut[q], routeFailures'[q] = routeFailures[q]
    PROVE  Sane(q)'
BY DEF Sane, WalksWell

LEMMA RoutingInit == Routing!Init => Routing!IInv
<1> SUFFICES ASSUME Routing!Init PROVE Routing!IInv
    OBVIOUS
<1> USE RoutingConstants DEF Routing!Init
<1>1. Routing!CooldownsOK
    BY DEF Routing!CooldownsOK, Routing!NoCooldown, Routing!Failures
<1>2. Routing!WalksOK
    BY DEF Routing!WalksOK, Routing!Failures
<1>3. Routing!BudgetsOK
    <2>1. FailureLimit * Routing!Cardinality(Routing!Providers) \in Nat
        BY ProvidersAreFinite, SameRoutingCount, FS_CardinalityType
    <2> QED
        BY <2>1 DEF Routing!BudgetsOK
<1>4. \A r \in Requests : Sane(r)
    BY DEF Sane
<1> QED
    BY <1>1, <1>2, <1>3, <1>4, SaneIs

\* A step of the walk, U being the usable candidates: it stands at the first, or
\* the round is over.
Walked(r, s, U, kind) ==
    /\ routeLast' = [routeLast EXCEPT ![r] = kind]
    /\ IF U # {}
       THEN /\ routeCands' = [routeCands EXCEPT ![r] = s]
            /\ routeAt' = [routeAt EXCEPT ![r] = CHOOSE j \in U : \A k \in U : j <= k]
            /\ routePc' = [routePc EXCEPT ![r] = "read"]
       ELSE /\ routeCands' = [routeCands EXCEPT ![r] = << >>]
            /\ routeAt' = [routeAt EXCEPT ![r] = 1]
            /\ routePc' = [routePc EXCEPT ![r] = IF kind \in {"refused", "local"}
                                                 THEN "failed" ELSE "offered"]

Went(r, s, U) ==
    \E some \in Seq(Models), j \in 1 .. MaxCandidates, how \in {"read", "offered", "failed"} :
        /\ routeCands' = [routeCands EXCEPT ![r] = some]
        /\ routeAt' = [routeAt EXCEPT ![r] = j]
        /\ routePc' = [routePc EXCEPT ![r] = how]
        /\ how = "read" => some = s /\ j \in U

LEMMA WalkIs ==
    ASSUME NEW r, NEW s \in Seq(Models), Len(s) <= MaxCandidates,
           NEW U \in SUBSET (1 .. Len(s)), NEW kind, Walked(r, s, U, kind)
    PROVE  /\ routeLast' = [routeLast EXCEPT ![r] = kind]
           /\ Went(r, s, U)
<1> DEFINE least == CHOOSE j \in U : \A k \in U : j <= k
<1>1. Len(s) \in Nat /\ U \in SUBSET Nat
    OBVIOUS
<1>2. CASE U # {}
    <2>1. least \in U
        BY <1>1, <1>2, LeastNumber
    <2>2. least \in 1 .. MaxCandidates
        <3> HIDE DEF least
        <3>1. least \in 1 .. Len(s)
            BY <2>1
        <3> QED
            BY <1>1, <3>1, RoutingConstants
    <2>3. /\ routeLast' = [routeLast EXCEPT ![r] = kind]
          /\ routeCands' = [routeCands EXCEPT ![r] = s]
          /\ routeAt' = [routeAt EXCEPT ![r] = least]
          /\ routePc' = [routePc EXCEPT ![r] = "read"]
        BY <1>2 DEF Walked
    <2> HIDE DEF least
    <2> QED
        BY <2>1, <2>2, <2>3 DEF Went
<1>3. CASE U = {}
    <2> DEFINE how == IF kind \in {"refused", "local"} THEN "failed" ELSE "offered"
    <2>1. << >> \in Seq(Models) /\ 1 \in 1 .. MaxCandidates
        BY RoutingConstants
    <2>2. how \in {"read", "offered", "failed"} /\ how # "read"
        OBVIOUS
    <2>3. /\ routeLast' = [routeLast EXCEPT ![r] = kind]
          /\ routeCands' = [routeCands EXCEPT ![r] = << >>]
          /\ routeAt' = [routeAt EXCEPT ![r] = 1]
          /\ routePc' = [routePc EXCEPT ![r] = how]
        BY <1>3 DEF Walked
    <2> HIDE DEF how
    <2> QED
        BY <2>1, <2>2, <2>3 DEF Went
<1> QED
    BY <1>2, <1>3

LEMMA CooledIs ==
    ASSUME Routing!CooldownsOK, NEW m \in Models, NEW kind \in Routing!Failures
    PROVE  Routing!Cooled(m, kind) \in [Routing!Scopes -> [left : 0 .. Long, reason : Routing!Failures \cup {"none"}]]
<1>1. Routing!FailureScope(m, kind) \in Routing!Scopes
    BY ProvidersAreFinite, RoutingConstants DEF Routing!FailureScope, Routing!Scopes
<1>2. Routing!FailureTime(kind) \in 0 .. Long
    BY RoutingConstants DEF Routing!FailureTime
<1>3. [left |-> Routing!FailureTime(kind), reason |-> kind]
         \in [left : 0 .. Long, reason : Routing!Failures \cup {"none"}]
    BY <1>2
<1> QED
    BY <1>1, <1>3 DEF Routing!CooldownsOK, Routing!Cooled

LEMMA OutputKeeps ==
    ASSUME Routing!IInv, NEW r \in Requests, Routing!Output(r)
    PROVE  Routing!IInv'
<1>a. Routing!CooldownsOK /\ Routing!WalksOK /\ Routing!BudgetsOK
    BY SaneIs
<1>s. \A q \in Requests : Sane(q)
    BY SaneIs
<1>1. /\ routePc[r] = "read"
      /\ routeOut' = [routeOut EXCEPT ![r] = routeCands[r][routeAt[r]]]
      /\ routePc' = [routePc EXCEPT ![r] = "flow"]
      /\ UNCHANGED <<routeCooldown, routeProbe, routeProbes, routeCands, routeAt, routeFailure, routeLast, routeFailures, routeAttempted>>
    BY DEF Routing!Output, Routing!Over
<1>w. routeCands[r][routeAt[r]] \in Models
    BY <1>a, <1>s, <1>1 DEF Routing!WalksOK, Sane, WalksWell
<1>2. Routing!CooldownsOK'
    BY <1>a, <1>1 DEF Routing!CooldownsOK
<1>3. Routing!WalksOK'
    BY <1>a, <1>1, <1>w, RoutingConstants DEF Routing!WalksOK, Routing!Failures
<1>4. Routing!BudgetsOK'
    BY <1>a, <1>1 DEF Routing!BudgetsOK
<1>o. ASSUME NEW q \in Requests \ {r} PROVE Sane(q)'
    BY <1>a, <1>s, <1>1, OthersStay DEF Routing!WalksOK, Routing!BudgetsOK
<1>5. Sane(r)'
    BY <1>a, <1>s, <1>1, <1>w, RoutingConstants DEF Routing!WalksOK, Routing!BudgetsOK, Sane,
        WalksWell
<1> QED
    BY <1>2, <1>3, <1>4, <1>o, <1>5, SaneNext

LEMMA RouteStreamEndsKeeps ==
    ASSUME Routing!IInv, NEW r \in Requests, Routing!StreamEnds(r)
    PROVE  Routing!IInv'
<1>a. Routing!CooldownsOK /\ Routing!WalksOK /\ Routing!BudgetsOK
    BY SaneIs
<1>s. \A q \in Requests : Sane(q)
    BY SaneIs
<1>1. /\ routePc[r] \in {"read", "flow"}
      /\ \E kind \in Routing!Failures \cup {"complete"} :
            routeFailure' = [routeFailure EXCEPT ![r] = kind]
      /\ routePc' = [routePc EXCEPT ![r] = "close"]
      /\ UNCHANGED <<routeCooldown, routeProbe, routeProbes, routeCands, routeAt, routeLast, routeOut, routeFailures, routeAttempted>>
    BY DEF Routing!StreamEnds, Routing!Over
<1>2. Routing!CooldownsOK'
    BY <1>a, <1>1 DEF Routing!CooldownsOK
<1>3. Routing!WalksOK'
    BY <1>a, <1>1, RoutingConstants DEF Routing!WalksOK, Routing!Failures
<1>4. Routing!BudgetsOK'
    BY <1>a, <1>1 DEF Routing!BudgetsOK
<1>o. ASSUME NEW q \in Requests \ {r} PROVE Sane(q)'
    BY <1>a, <1>s, <1>1, OthersStay DEF Routing!WalksOK, Routing!BudgetsOK
<1>5. Sane(r)'
    BY <1>a, <1>s, <1>1 DEF Routing!WalksOK, Routing!BudgetsOK, Sane, WalksWell,
        Routing!Failures
<1> QED
    BY <1>2, <1>3, <1>4, <1>o, <1>5, SaneNext

LEMMA CloseTimesOutKeeps ==
    ASSUME Routing!IInv, NEW r \in Requests, Routing!CloseTimesOut(r)
    PROVE  Routing!IInv'
<1>a. Routing!CooldownsOK /\ Routing!WalksOK /\ Routing!BudgetsOK
    BY SaneIs
<1>s. \A q \in Requests : Sane(q)
    BY SaneIs
<1>1. /\ routePc[r] = "close"
      /\ routePc' = [routePc EXCEPT ![r] = "failed"]
      /\ routeCands' = [routeCands EXCEPT ![r] = << >>]
      /\ routeAt' = [routeAt EXCEPT ![r] = 1]
      /\ routeLast' = [routeLast EXCEPT ![r] = "none"]
      /\ routeFailure' = [routeFailure EXCEPT ![r] = "none"]
      /\ UNCHANGED <<routeCooldown, routeProbe, routeProbes, routeOut, routeFailures, routeAttempted>>
    BY DEF Routing!CloseTimesOut, Routing!Over
<1>2. Routing!CooldownsOK'
    BY <1>a, <1>1 DEF Routing!CooldownsOK
<1>3. Routing!WalksOK'
    BY <1>a, <1>1, RoutingConstants DEF Routing!WalksOK, Routing!Failures
<1>4. Routing!BudgetsOK'
    BY <1>a, <1>1 DEF Routing!BudgetsOK
<1>o. ASSUME NEW q \in Requests \ {r} PROVE Sane(q)'
    BY <1>a, <1>s, <1>1, OthersStay DEF Routing!WalksOK, Routing!BudgetsOK
<1>5. Sane(r)'
    BY <1>a, <1>s, <1>1 DEF Routing!WalksOK, Routing!BudgetsOK, Sane, WalksWell
<1> QED
    BY <1>2, <1>3, <1>4, <1>o, <1>5, SaneNext

LEMMA SucceedKeeps ==
    ASSUME Routing!IInv, NEW r \in Requests, Routing!Succeed(r)
    PROVE  Routing!IInv'
<1>a. Routing!CooldownsOK /\ Routing!WalksOK /\ Routing!BudgetsOK
    BY SaneIs
<1>s. \A q \in Requests : Sane(q)
    BY SaneIs
<1>1. /\ routePc[r] = "close" /\ routeFailure[r] = "complete"
      /\ routePc' = [routePc EXCEPT ![r] = "done"]
      /\ routeCands' = [routeCands EXCEPT ![r] = << >>]
      /\ routeAt' = [routeAt EXCEPT ![r] = 1]
      /\ routeLast' = [routeLast EXCEPT ![r] = "none"]
      /\ routeFailure' = [routeFailure EXCEPT ![r] = "none"]
      /\ UNCHANGED <<routeCooldown, routeProbe, routeProbes, routeOut, routeFailures, routeAttempted>>
    BY DEF Routing!Succeed, Routing!Over
<1>2. Routing!CooldownsOK'
    BY <1>a, <1>1 DEF Routing!CooldownsOK
<1>3. Routing!WalksOK'
    BY <1>a, <1>1, RoutingConstants DEF Routing!WalksOK, Routing!Failures
<1>4. Routing!BudgetsOK'
    BY <1>a, <1>1 DEF Routing!BudgetsOK
<1>o. ASSUME NEW q \in Requests \ {r} PROVE Sane(q)'
    BY <1>a, <1>s, <1>1, OthersStay DEF Routing!WalksOK, Routing!BudgetsOK
<1>5. Sane(r)'
    BY <1>a, <1>s, <1>1 DEF Routing!WalksOK, Routing!BudgetsOK, Sane, WalksWell
<1> QED
    BY <1>2, <1>3, <1>4, <1>o, <1>5, SaneNext

\* The walk a selection begins.
LEMMA SelectIs ==
    ASSUME Routing!IInv, NEW r \in Requests, Routing!Select(r)
    PROVE  /\ routePc[r] = "select"
           /\ routeLast' = routeLast \/ routeLast' = [routeLast EXCEPT ![r] = "none"]
           /\ \E some \in Seq(Models), j \in 1 .. MaxCandidates,
                 how \in {"read", "offered", "failed"} :
                 /\ \/ routeCands' = [routeCands EXCEPT ![r] = some]
                    \/ how = "offered" /\ routeCands' = routeCands
                 /\ \/ routeAt' = [routeAt EXCEPT ![r] = j]
                    \/ how = "offered" /\ routeAt' = routeAt
                 /\ routePc' = [routePc EXCEPT ![r] = how]
                 /\ how = "read" =>
                       /\ \E order \in Orders : some = Routing!Selection(r, order)
                       /\ j \in 1 .. Len(some) /\ Routing!Allows(routeFailures[r], Provider[some[j]])
           /\ UNCHANGED <<routeCooldown, routeProbe, routeProbes, routeFailure, routeOut,
                          routeFailures, routeAttempted>>
<1>1. CASE Routing!Eligible(r) = {}
    <2>1. /\ routePc[r] = "select" /\ routePc' = [routePc EXCEPT ![r] = "offered"]
          /\ UNCHANGED <<routeCooldown, routeProbe, routeProbes, routeFailure, routeOut,
                         routeFailures, routeAttempted, routeCands, routeAt, routeLast>>
        BY <1>1 DEF Routing!Select
    <2>2. << >> \in Seq(Models) /\ 1 \in 1 .. MaxCandidates
        BY RoutingConstants
    <2> QED
        BY <2>1, <2>2
<1>2. CASE Routing!Eligible(r) # {}
    <2>1. /\ routePc[r] = "select"
          /\ UNCHANGED <<routeCooldown, routeProbe, routeProbes, routeFailure, routeOut,
                         routeFailures, routeAttempted>>
        BY <1>2 DEF Routing!Select
    <2> DEFINE Usable(s) == {j \in 1 .. Len(s) : /\ Routing!Allows(routeFailures[r], Provider[s[j]])
                                                 /\ ~Routing!Cooling(routeCooldown, s[j])}
    <2>2. PICK order, s, U :
             order \in Orders /\ s = Routing!Selection(r, order) /\ U = Usable(s) /\ Walked(r, s, U, "none")
        <3>1. PICK s \in {Routing!Selection(r, o) : o \in Orders} : Walked(r, s, Usable(s), "none")
            BY <1>2 DEF Routing!Select, Routing!Walk, Walked
        <3>2. PICK o \in Orders : s = Routing!Selection(r, o)
            BY <3>1
        <3> HIDE DEF Usable
        <3>3. \E U : U = Usable(s) /\ Walked(r, s, U, "none")
            BY <3>1 DEF Walked
        <3> QED
            BY <3>2, <3>3
    <2>3. s \in Seq(Models) /\ Len(s) <= MaxCandidates
        <3>1. Chosen(s, Routing!Eligible(r))
            BY <2>2, SelectionIs
        <3> QED
            BY <3>1 DEF Chosen
    <2>4. U \in SUBSET (1 .. Len(s))
        BY <2>2
    <2>w. Walked(r, s, U, "none")
        BY <2>2
    <2>5. routeLast' = [routeLast EXCEPT ![r] = "none"]
        BY <2>w, <2>3, <2>4, WalkIs
    <2>6. PICK some \in Seq(Models), k \in 1 .. MaxCandidates,
               how \in {"read", "offered", "failed"} :
             /\ routeCands' = [routeCands EXCEPT ![r] = some]
             /\ routeAt' = [routeAt EXCEPT ![r] = k]
             /\ routePc' = [routePc EXCEPT ![r] = how]
             /\ how = "read" => some = s /\ k \in U
        <3>1. Went(r, s, U)
            BY <2>w, <2>3, <2>4, WalkIs
        <3> QED
            BY <3>1 DEF Went
    <2>7. how = "read" =>
             /\ \E o \in Orders : some = Routing!Selection(r, o)
             /\ k \in 1 .. Len(some) /\ Routing!Allows(routeFailures[r], Provider[some[k]])
        BY <2>2, <2>6
    <2> QED
        BY <2>1, <2>5, <2>6, <2>7
<1> QED
    BY <1>1, <1>2

LEMMA SelectKeeps ==
    ASSUME Routing!IInv, NEW r \in Requests, Routing!Select(r)
    PROVE  Routing!IInv'
<1>a. Routing!CooldownsOK /\ Routing!WalksOK /\ Routing!BudgetsOK
    BY SaneIs
<1>s. \A q \in Requests : Sane(q)
    BY SaneIs
<1>w. PICK some \in Seq(Models), j \in 1 .. MaxCandidates,
           how \in {"read", "offered", "failed"} :
         /\ \/ routeCands' = [routeCands EXCEPT ![r] = some]
            \/ how = "offered" /\ routeCands' = routeCands
         /\ \/ routeAt' = [routeAt EXCEPT ![r] = j]
            \/ how = "offered" /\ routeAt' = routeAt
         /\ routePc' = [routePc EXCEPT ![r] = how]
         /\ how = "read" =>
               /\ \E order \in Orders : some = Routing!Selection(r, order)
               /\ j \in 1 .. Len(some) /\ Routing!Allows(routeFailures[r], Provider[some[j]])
    BY SelectIs
<1>1. /\ \/ routeCands' = [routeCands EXCEPT ![r] = some]
         \/ how = "offered" /\ routeCands' = routeCands
      /\ \/ routeAt' = [routeAt EXCEPT ![r] = j]
         \/ how = "offered" /\ routeAt' = routeAt
      /\ routePc' = [routePc EXCEPT ![r] = how]
      /\ routePc[r] = "select"
      /\ routeLast' = routeLast \/ routeLast' = [routeLast EXCEPT ![r] = "none"]
      /\ UNCHANGED <<routeCooldown, routeProbe, routeProbes, routeFailure, routeOut,
                     routeFailures, routeAttempted>>
    BY <1>w, SelectIs
<1>2. Routing!CooldownsOK'
    BY <1>a, <1>1 DEF Routing!CooldownsOK
<1>3. Routing!WalksOK'
    <2>1. routePc' \in [Requests -> {"select", "read", "flow", "close", "offered",
                                    "done", "failed", "refused"}]
        BY <1>a, <1>1 DEF Routing!WalksOK
    <2>2. routeCands' \in [Requests -> Seq(Models)]
        BY <1>a, <1>1 DEF Routing!WalksOK
    <2>3. routeAt' \in [Requests -> 1 .. MaxCandidates]
        BY <1>a, <1>1 DEF Routing!WalksOK
    <2>4. routeLast' \in [Requests -> Routing!Failures \cup {"none"}]
        BY <1>a, <1>1 DEF Routing!WalksOK
    <2> QED
        BY <1>a, <1>1, <2>1, <2>2, <2>3, <2>4 DEF Routing!WalksOK
<1>4. Routing!BudgetsOK'
    BY <1>a, <1>1 DEF Routing!BudgetsOK
<1>o. ASSUME NEW q \in Requests \ {r} PROVE Sane(q)'
    BY <1>a, <1>s, <1>1, OthersStay DEF Routing!WalksOK, Routing!BudgetsOK
<1>5. Sane(r)'
    <2>1. routePc'[r] = how /\ routeOut'[r] = NoModel
        BY <1>a, <1>s, <1>1 DEF Routing!WalksOK, Sane
    <2>2. CASE how # "read"
        BY <2>1, <2>2 DEF Sane
    <2>3. CASE how = "read"
        <3>1. /\ routeCands'[r] = some /\ routeAt'[r] = j
              /\ routeFailures'[r] = routeFailures[r]
            BY <1>a, <1>1, <2>3 DEF Routing!WalksOK, Routing!BudgetsOK
        <3>2. /\ Routing!IsInjective(some) /\ Len(some) <= MaxCandidates
              /\ ChoiceFirst(some) /\ FreeFirst(some)
            <4>1. PICK order \in Orders : some = Routing!Selection(r, order)
                BY <1>w, <2>3
            <4>2. Chosen(some, Routing!Eligible(r))
                BY <4>1, SelectionIs
            <4> QED
                BY <4>2 DEF Chosen
        <3>3. WalksWell(r)'
            BY <1>w, <2>3, <3>1, <3>2 DEF WalksWell, Routing!Allows, FreeFirst, ChoiceFirst,
                Routing!IsInjective
        <3> QED
            BY <2>1, <2>3, <3>3 DEF Sane
    <2> QED
        BY <2>2, <2>3
<1> QED
    BY <1>2, <1>3, <1>4, <1>o, <1>5, SaneNext

LEMMA NextRoundKeeps ==
    ASSUME Routing!IInv, NEW r \in Requests, Routing!NextRound(r)
    PROVE  Routing!IInv'
<1>a. Routing!CooldownsOK /\ Routing!WalksOK /\ Routing!BudgetsOK
    BY SaneIs
<1>s. \A q \in Requests : Sane(q)
    BY SaneIs
<1>f. Routing!FoldFunction(+, 0, routeFailures[r]) \in 0 .. FailureLimit * Routing!Cardinality(Routing!Providers)
    BY <1>a, SumIsBounded DEF Routing!BudgetsOK
<1>1. /\ routePc[r] = "offered"
      /\ \/ routePc' = [routePc EXCEPT ![r] = "select"]
         \/ routePc' = [routePc EXCEPT ![r] = "refused"]
      /\ \/ routeAttempted' = routeAttempted
         \/ routeAttempted' = [routeAttempted EXCEPT
                                  ![r] = Routing!FoldFunction(+, 0, routeFailures[r])]
      /\ UNCHANGED <<routeCooldown, routeProbe, routeProbes, routeCands, routeAt, routeFailure, routeLast, routeOut, routeFailures>>
    BY DEF Routing!NextRound
<1>2. Routing!CooldownsOK'
    BY <1>a, <1>1 DEF Routing!CooldownsOK
<1>3. Routing!WalksOK'
    BY <1>a, <1>1, RoutingConstants DEF Routing!WalksOK, Routing!Failures
<1>4. Routing!BudgetsOK'
    <2> DEFINE sum == Routing!FoldFunction(+, 0, routeFailures[r])
    <2> HIDE DEF sum
    <2>1. /\ routeAttempted' = routeAttempted \/ routeAttempted' = [routeAttempted EXCEPT ![r] = sum]
          /\ sum \in 0 .. FailureLimit * Routing!Cardinality(Routing!Providers)
          /\ routeFailures' = routeFailures
        BY <1>1, <1>f DEF sum
    <2> QED
        BY <1>a, <2>1 DEF Routing!BudgetsOK
<1>o. ASSUME NEW q \in Requests \ {r} PROVE Sane(q)'
    BY <1>a, <1>s, <1>1, OthersStay DEF Routing!WalksOK, Routing!BudgetsOK
<1>5. Sane(r)'
    BY <1>a, <1>s, <1>1 DEF Routing!WalksOK, Routing!BudgetsOK, Sane, WalksWell
<1> QED
    BY <1>2, <1>3, <1>4, <1>o, <1>5, SaneNext

\* What a failure records of the candidate.
LEMMA FailureIs ==
    ASSUME Routing!IInv, NEW r \in Requests, Routing!Fail(r)
    PROVE  /\ Routing!CooldownsOK' /\ Routing!BudgetsOK'
           /\ \A q \in Requests : q # r => routeFailures'[q] = routeFailures[q]
           /\ routePc[r] = "close" /\ routeFailure[r] \in Routing!Failures /\ WalksWell(r)
           /\ routeFailure' = [routeFailure EXCEPT ![r] = "none"]
           /\ UNCHANGED <<routeProbe, routeProbes, routeOut, routeAttempted>>
<1>a. Routing!CooldownsOK /\ Routing!WalksOK /\ Routing!BudgetsOK
    BY SaneIs
<1>s. \A q \in Requests : Sane(q)
    BY SaneIs
<1>1. /\ routePc[r] = "close" /\ routeFailure[r] \in Routing!Failures
      /\ routeFailure' = [routeFailure EXCEPT ![r] = "none"]
      /\ UNCHANGED <<routeProbe, routeProbes, routeOut, routeAttempted>>
    BY DEF Routing!Fail
<1>2. WalksWell(r)
    BY <1>s, <1>1 DEF Sane
<1> DEFINE m == routeCands[r][routeAt[r]]
           kind == routeFailure[r]
<1>3. m \in Models /\ Provider[m] \in Routing!Providers
    BY <1>a, <1>2, ProvidersAreFinite DEF Routing!WalksOK, WalksWell
<1>4. \/ UNCHANGED <<routeCooldown, routeFailures>>
      \/ /\ routeFailures' = [routeFailures EXCEPT ![r][Provider[m]] = @ + 1]
         /\ routeCooldown' = Routing!Cooled(m, kind)
    BY DEF Routing!Fail
<1>5. routeFailures[r][Provider[m]] < FailureLimit
    BY <1>2 DEF WalksWell, Routing!Allows
<1>6. Routing!Cooled(m, kind) \in [Routing!Scopes -> [left : 0 .. Long, reason : Routing!Failures \cup {"none"}]]
    <2> HIDE DEF m, kind
    <2>1. kind \in Routing!Failures
        BY <1>1 DEF kind
    <2> QED
        BY <1>a, <1>3, <2>1, CooledIs
<1> HIDE DEF m, kind
<1>7. Routing!CooldownsOK'
    BY <1>a, <1>1, <1>4, <1>6 DEF Routing!CooldownsOK
<1>8. Routing!BudgetsOK'
    <2>1. routeFailures' \in [Requests -> [Routing!Providers -> 0 .. FailureLimit]]
        <3>1. CASE UNCHANGED <<routeCooldown, routeFailures>>
            BY <1>a, <3>1 DEF Routing!BudgetsOK
        <3>2. CASE routeFailures' = [routeFailures EXCEPT ![r][Provider[m]] = @ + 1]
            <4>1. routeFailures[r][Provider[m]] + 1 \in 0 .. FailureLimit
                BY <1>a, <1>3, <1>5, RoutingConstants DEF Routing!BudgetsOK
            <4> QED
                BY <1>a, <1>3, <3>2, <4>1 DEF Routing!BudgetsOK
        <3> QED
            BY <1>4, <3>1, <3>2
    <2> QED
        BY <1>a, <1>1, <2>1 DEF Routing!BudgetsOK
<1>9. \A q \in Requests : q # r => routeFailures'[q] = routeFailures[q]
    BY <1>a, <1>4 DEF Routing!BudgetsOK
<1> QED
    BY <1>1, <1>2, <1>7, <1>8, <1>9

LEMMA FailKeeps ==
    ASSUME Routing!IInv, NEW r \in Requests, Routing!Fail(r)
    PROVE  Routing!IInv'
<1>a. Routing!CooldownsOK /\ Routing!WalksOK /\ Routing!BudgetsOK
    BY SaneIs
<1>s. \A q \in Requests : Sane(q)
    BY SaneIs
<1>f. /\ Routing!CooldownsOK' /\ Routing!BudgetsOK'
      /\ \A q \in Requests : q # r => routeFailures'[q] = routeFailures[q]
      /\ routePc[r] = "close" /\ routeFailure[r] \in Routing!Failures /\ WalksWell(r)
      /\ routeFailure' = [routeFailure EXCEPT ![r] = "none"]
      /\ UNCHANGED <<routeProbe, routeProbes, routeOut, routeAttempted>>
    BY FailureIs
<1>1. CASE routeOut[r] # NoModel
    <2>1. /\ routePc' = [routePc EXCEPT ![r] = "failed"]
          /\ routeCands' = [routeCands EXCEPT ![r] = << >>]
          /\ routeAt' = [routeAt EXCEPT ![r] = 1]
          /\ routeLast' = [routeLast EXCEPT ![r] = "none"]
        BY <1>1 DEF Routing!Fail, Routing!Over
    <2>2. Routing!WalksOK'
        BY <1>a, <1>f, <2>1, RoutingConstants DEF Routing!WalksOK, Routing!Failures
    <2>3. ASSUME NEW q \in Requests, q # r PROVE Sane(q)'
        BY <1>a, <1>f, <1>s, <2>1, <2>3, OthersStay DEF Routing!WalksOK
    <2>4. Sane(r)'
        BY <1>a, <1>f, <2>1 DEF Routing!WalksOK, Sane
    <2> QED
        BY <1>f, <2>2, <2>3, <2>4, SaneNext
<1>2. CASE routeOut[r] = NoModel
    <2> DEFINE Usable(s) == {j \in routeAt[r] + 1 .. Len(s) :
                               /\ Routing!Allows(routeFailures'[r], Provider[s[j]])
                               /\ ~Routing!Cooling(routeCooldown', s[j])}
               t == Routing!PreferNextProvider(routeCands[r], routeAt[r])
    <2>1. Walked(r, t, Usable(t), routeFailure[r])
        BY <1>2 DEF Routing!Fail, Routing!Walk, Walked
    <2> HIDE DEF Usable, t
    <2>2. PICK s, U, kind : /\ s = t /\ U = Usable(t) /\ kind = routeFailure[r]
                            /\ Walked(r, s, U, kind)
        <3>1. \E s, U, kind : /\ s = t /\ U = Usable(t) /\ kind = routeFailure[r]
                              /\ Walked(r, s, U, kind)
            BY <2>1 DEF Walked
        <3> QED
            BY <3>1
    <2>3. Orderly(s, Len(routeCands[r])) /\ Len(routeCands[r]) <= MaxCandidates
        <3>1. /\ routeCands[r] \in Seq(Models) /\ routeAt[r] \in 1 .. Len(routeCands[r])
              /\ Routing!IsInjective(routeCands[r]) /\ ChoiceFirst(routeCands[r])
              /\ FreeFirst(routeCands[r]) /\ Len(routeCands[r]) <= MaxCandidates
            BY <1>a, <1>f DEF Routing!WalksOK, WalksWell
        <3>2. Orderly(t, Len(routeCands[r]))
            BY <3>1, PreferenceIs DEF t
        <3> QED
            BY <2>2, <3>1, <3>2
    <2>4. s \in Seq(Models) /\ Len(s) <= MaxCandidates
        BY <2>3 DEF Orderly
    <2>5. U \in SUBSET (1 .. Len(s)) /\ \A j \in U : Routing!Allows(routeFailures'[r], Provider[s[j]])
        <3>1. routeAt[r] \in Nat
            BY <1>a DEF Routing!WalksOK
        <3> QED
            BY <2>2, <2>4, <3>1 DEF Usable
    <2>w. Walked(r, s, U, kind)
        BY <2>2
    <2>6. Went(r, s, U) /\ routeLast' = [routeLast EXCEPT ![r] = kind] /\ kind \in Routing!Failures
        <3>1. Went(r, s, U) /\ routeLast' = [routeLast EXCEPT ![r] = kind]
            BY <2>4, <2>5, <2>w, WalkIs
        <3> QED
            BY <1>f, <2>2, <3>1
    <2>7. PICK some \in Seq(Models), j \in 1 .. MaxCandidates,
               how \in {"read", "offered", "failed"} :
             /\ routeCands' = [routeCands EXCEPT ![r] = some]
             /\ routeAt' = [routeAt EXCEPT ![r] = j]
             /\ routePc' = [routePc EXCEPT ![r] = how]
             /\ how = "read" => some = s /\ j \in U
        BY <2>6 DEF Went
    <2>8. Routing!WalksOK'
        BY <1>a, <1>f, <2>6, <2>7 DEF Routing!WalksOK, Routing!Failures
    <2>9. ASSUME NEW q \in Requests, q # r PROVE Sane(q)'
        BY <1>a, <1>f, <1>s, <2>7, <2>9, OthersStay DEF Routing!WalksOK
    <2>10. Sane(r)'
        <3>1. routePc'[r] = how /\ routeOut'[r] = NoModel
            BY <1>a, <1>2, <1>f, <2>7 DEF Routing!WalksOK
        <3>2. CASE how # "read"
            BY <3>1, <3>2 DEF Sane
        <3>3. CASE how = "read"
            <4>1. /\ routeCands'[r] = s /\ routeAt'[r] = j /\ j \in 1 .. Len(s)
                  /\ Routing!Allows(routeFailures'[r], Provider[s[j]])
                BY <1>a, <2>5, <2>7, <3>3 DEF Routing!WalksOK
            <4>2. Routing!IsInjective(s) /\ ChoiceFirst(s) /\ FreeFirst(s)
                BY <2>3 DEF Orderly
            <4>3. WalksWell(r)'
                BY <2>4, <4>1, <4>2
                DEF WalksWell, Routing!Allows, FreeFirst, ChoiceFirst, Routing!IsInjective
            <4> QED
                BY <3>1, <3>3, <4>3 DEF Sane
        <3> QED
            BY <3>2, <3>3
    <2> QED
        BY <1>f, <2>8, <2>9, <2>10, SaneNext
<1> QED
    BY <1>1, <1>2

LEMMA AskQuotaKeeps ==
    ASSUME Routing!IInv, Routing!AskQuota
    PROVE  Routing!IInv'
<1>a. Routing!CooldownsOK /\ Routing!WalksOK /\ Routing!BudgetsOK
    BY SaneIs
<1>s. \A q \in Requests : Sane(q)
    BY SaneIs
<1>1. /\ UNCHANGED <<routeCooldown, routePc, routeCands, routeAt, routeFailure, routeLast, routeOut, routeFailures, routeAttempted>>
    BY DEF Routing!AskQuota
<1>2. Routing!CooldownsOK'
    BY <1>a, <1>1, RoutingConstants DEF Routing!CooldownsOK, Routing!AskQuota
<1>3. Routing!WalksOK' /\ Routing!BudgetsOK'
    BY <1>a, <1>1 DEF Routing!WalksOK, Routing!BudgetsOK
<1>4. ASSUME NEW q \in Requests PROVE Sane(q)'
    BY <1>s, <1>1, OthersStay
<1> QED
    BY <1>2, <1>3, <1>4, SaneNext

LEMMA ApplyQuotaKeeps ==
    ASSUME Routing!IInv, Routing!ApplyQuota
    PROVE  Routing!IInv'
<1>a. Routing!CooldownsOK /\ Routing!WalksOK /\ Routing!BudgetsOK
    BY SaneIs
<1>s. \A q \in Requests : Sane(q)
    BY SaneIs
<1>1. /\ UNCHANGED <<routeProbes, routePc, routeCands, routeAt, routeFailure, routeLast, routeOut, routeFailures, routeAttempted>>
    BY DEF Routing!ApplyQuota
<1>2. Routing!CooldownsOK'
    <2> DEFINE s == <<QuotaProvider, "free">>
               kept == IF routeCooldown[s].reason = "quota"
                       THEN Routing!Max({routeCooldown[s].left, Short}) ELSE Short
    <2>1. s \in Routing!Scopes
        BY RoutingConstants DEF Routing!Scopes
    <2>2. /\ routeCooldown[s].left \in 0 .. Long
          /\ routeCooldown[s].left \in Int /\ Short \in Int
        BY <1>a, <2>1, RoutingConstants DEF Routing!CooldownsOK
    <2>3. kept \in 0 .. Long
        <3>1. Routing!Max({routeCooldown[s].left, Short}) =
                 IF routeCooldown[s].left >= Short THEN routeCooldown[s].left ELSE Short
            BY <2>2, LeastOfTwo
        <3> QED
            BY <2>2, <3>1, RoutingConstants
    <2>4. /\ \/ routeCooldown' = [routeCooldown EXCEPT ![s] = [left |-> kept, reason |-> "quota"]]
             \/ routeCooldown' = [routeCooldown EXCEPT ![s] = Routing!NoCooldown]
             \/ routeCooldown' = routeCooldown
          /\ routeProbe' = "idle"
        BY DEF Routing!ApplyQuota
    <2>5. Routing!NoCooldown \in [left : 0 .. Long, reason : Routing!Failures \cup {"none"}]
        BY RoutingConstants DEF Routing!NoCooldown
    <2>6. [left |-> kept, reason |-> "quota"]
             \in [left : 0 .. Long, reason : Routing!Failures \cup {"none"}]
        BY <2>3 DEF Routing!Failures
    <2> HIDE DEF s, kept
    <2> QED
        BY <1>a, <1>1, <2>1, <2>4, <2>5, <2>6 DEF Routing!CooldownsOK
<1>3. Routing!WalksOK' /\ Routing!BudgetsOK'
    BY <1>a, <1>1 DEF Routing!WalksOK, Routing!BudgetsOK
<1>4. ASSUME NEW q \in Requests PROVE Sane(q)'
    BY <1>s, <1>1, OthersStay
<1> QED
    BY <1>2, <1>3, <1>4, SaneNext

LEMMA OtherRequestFailsKeeps ==
    ASSUME Routing!IInv, Routing!OtherRequestFails
    PROVE  Routing!IInv'
<1>a. Routing!CooldownsOK /\ Routing!WalksOK /\ Routing!BudgetsOK
    BY SaneIs
<1>s. \A q \in Requests : Sane(q)
    BY SaneIs
<1>1. /\ UNCHANGED <<routeProbe, routeProbes, routePc, routeCands, routeAt, routeFailure, routeLast, routeOut, routeFailures, routeAttempted>>
    BY DEF Routing!OtherRequestFails
<1>2. Routing!CooldownsOK'
    <2>1. PICK m \in Contended, kind \in Routing!Failures \ {"local"} : routeCooldown' = Routing!Cooled(m, kind)
        BY DEF Routing!OtherRequestFails
    <2>2. m \in Models /\ kind \in Routing!Failures
        BY RoutingConstants
    <2> QED
        BY <1>a, <1>1, <2>1, <2>2, CooledIs DEF Routing!CooldownsOK
<1>3. Routing!WalksOK' /\ Routing!BudgetsOK'
    BY <1>a, <1>1 DEF Routing!WalksOK, Routing!BudgetsOK
<1>4. ASSUME NEW q \in Requests PROVE Sane(q)'
    BY <1>s, <1>1, OthersStay
<1> QED
    BY <1>2, <1>3, <1>4, SaneNext

LEMMA TickKeeps ==
    ASSUME Routing!IInv, Routing!Tick
    PROVE  Routing!IInv'
<1>a. Routing!CooldownsOK /\ Routing!WalksOK /\ Routing!BudgetsOK
    BY SaneIs
<1>s. \A q \in Requests : Sane(q)
    BY SaneIs
<1>1. /\ UNCHANGED <<routeProbe, routeProbes, routePc, routeCands, routeAt, routeFailure, routeLast, routeOut, routeFailures, routeAttempted>>
    BY DEF Routing!Tick
<1>2. Routing!CooldownsOK'
    <2>1. routeCooldown' = [s \in Routing!Scopes |->
                              IF routeCooldown[s].left > 1
                              THEN [routeCooldown[s] EXCEPT !.left = @ - 1]
                              ELSE Routing!NoCooldown]
        BY DEF Routing!Tick
    <2>2. Routing!NoCooldown \in [left : 0 .. Long, reason : Routing!Failures \cup {"none"}]
        BY RoutingConstants DEF Routing!NoCooldown
    <2>3. ASSUME NEW s \in Routing!Scopes, routeCooldown[s].left > 1
          PROVE  [routeCooldown[s] EXCEPT !.left = @ - 1]
                    \in [left : 0 .. Long, reason : Routing!Failures \cup {"none"}]
        <3>1. routeCooldown[s] \in [left : 0 .. Long, reason : Routing!Failures \cup {"none"}]
            BY <1>a DEF Routing!CooldownsOK
        <3> DEFINE c == routeCooldown[s]
        <3> HIDE DEF c
        <3>2. /\ c \in [left : 0 .. Long, reason : Routing!Failures \cup {"none"}] /\ c.left > 1
              /\ Long \in Nat
            BY <2>3, <3>1, RoutingConstants DEF c
        <3>3. c.left \in 0 .. Long /\ c.left - 1 \in 0 .. Long
            BY <3>2
        <3>4. [c EXCEPT !.left = @ - 1] \in [left : 0 .. Long, reason : Routing!Failures \cup {"none"}]
            BY <3>2, <3>3
        <3> QED
            BY <3>4 DEF c
    <2> QED
        BY <1>a, <1>1, <2>1, <2>2, <2>3 DEF Routing!CooldownsOK
<1>3. Routing!WalksOK' /\ Routing!BudgetsOK'
    BY <1>a, <1>1 DEF Routing!WalksOK, Routing!BudgetsOK
<1>4. ASSUME NEW q \in Requests PROVE Sane(q)'
    BY <1>s, <1>1, OthersStay
<1> QED
    BY <1>2, <1>3, <1>4, SaneNext

LEMMA RoutingStep == Routing!IInv /\ [Routing!Next]_(Routing!vars) => Routing!IInv'
<1> SUFFICES ASSUME Routing!IInv, [Routing!Next]_(Routing!vars) PROVE Routing!IInv'
    OBVIOUS
<1>1. ASSUME NEW r \in Requests, Routing!Step(r) PROVE Routing!IInv'
    BY <1>1, SelectKeeps, OutputKeeps, RouteStreamEndsKeeps, CloseTimesOutKeeps, SucceedKeeps,
        FailKeeps, NextRoundKeeps DEF Routing!Step
<1>2. CASE Routing!AskQuota
    BY <1>2, AskQuotaKeeps
<1>3. CASE Routing!ApplyQuota
    BY <1>3, ApplyQuotaKeeps
<1>4. CASE Routing!OtherRequestFails
    BY <1>4, OtherRequestFailsKeeps
<1>5. CASE Routing!Tick
    BY <1>5, TickKeeps
<1>6. CASE UNCHANGED Routing!vars
    <2>1. UNCHANGED routeVars
        BY <1>6 DEF Routing!vars, routeVars
    <2>2. Routing!CooldownsOK' /\ Routing!WalksOK' /\ Routing!BudgetsOK'
        BY <2>1, SaneIs DEF Routing!CooldownsOK, Routing!WalksOK, Routing!BudgetsOK, routeVars
    <2>3. ASSUME NEW q \in Requests PROVE Sane(q)'
        BY <2>1, SaneIs, OthersStay DEF routeVars
    <2> QED
        BY <2>2, <2>3, SaneNext
<1> QED
    BY <1>1, <1>2, <1>3, <1>4, <1>5, <1>6 DEF Routing!Next

\* Only a selection leads from "select" to "read".
LEMMA ReadIsSelected ==
    ASSUME Routing!IInv, Routing!Next, NEW r \in Requests, routePc[r] = "select", routePc'[r] = "read"
    PROVE  Chosen(routeCands'[r], Routing!Eligible(r))
<1>a. Routing!WalksOK
    BY SaneIs
<1>1. PICK q \in Requests : Routing!Step(q)
    BY DEF Routing!Next, Routing!AskQuota, Routing!ApplyQuota, Routing!OtherRequestFails,
        Routing!Tick
<1>2. q = r
    <2> SUFFICES ASSUME q # r PROVE FALSE
        OBVIOUS
    <2>1. CASE Routing!Select(q)
        BY <1>a, <2>1, SelectIs DEF Routing!WalksOK
    <2>2. CASE Routing!Fail(q)
        <3>1. \E how : routePc' = [routePc EXCEPT ![q] = how]
            BY <2>2 DEF Routing!Fail, Routing!Walk, Routing!Over
        <3> QED
            BY <1>a, <3>1 DEF Routing!WalksOK
    <2>3. CASE ~Routing!Select(q) /\ ~Routing!Fail(q)
        BY <1>1, <1>a, <2>3 DEF Routing!WalksOK, Routing!Step, Routing!Output,
            Routing!StreamEnds, Routing!CloseTimesOut, Routing!Succeed, Routing!NextRound,
            Routing!Over
    <2> QED
        BY <2>1, <2>2, <2>3
<1>3. Routing!Select(r)
    BY <1>1, <1>2 DEF Routing!Step, Routing!Output, Routing!StreamEnds, Routing!CloseTimesOut,
        Routing!Succeed, Routing!Fail, Routing!NextRound
<1>4. PICK some \in Seq(Models), how \in {"read", "offered", "failed"} :
         /\ \/ routeCands' = [routeCands EXCEPT ![r] = some]
            \/ how = "offered" /\ routeCands' = routeCands
         /\ routePc' = [routePc EXCEPT ![r] = how]
         /\ how = "read" => \E order \in Orders : some = Routing!Selection(r, order)
    BY <1>3, SelectIs
<1>5. how = "read" /\ routeCands'[r] = some
    BY <1>4, <1>a DEF Routing!WalksOK
<1>6. PICK order \in Orders : some = Routing!Selection(r, order)
    BY <1>4, <1>5
<1>7. Chosen(some, Routing!Eligible(r))
    BY <1>6, SelectionIs
<1> QED
    BY <1>5, <1>7

\* What a round offers.
Reserves(r) ==
    routePc[r] = "select" /\ routePc'[r] = "read" =>
        LET chosen == Routing!ToSet(routeCands'[r])
            free(S) == {m \in S \ {Selected} : Billing[m] = "free"}
            providers(S) == {Provider[m] : m \in S}
        IN  /\ Routing!Cardinality(chosen) = Routing!Min({MaxCandidates, Routing!Cardinality(Routing!Eligible(r))})
            /\ {Billing[m] : m \in chosen} = {Billing[m] : m \in Routing!Eligible(r)}
            /\ \/ providers(free(chosen)) = providers(free(Routing!Eligible(r)))
               \/ Routing!Cardinality(providers(free(chosen))) = Routing!Cardinality(free(chosen))

LEMMA RoundIsReserved ==
    ASSUME Routing!IInv, [Routing!Next]_(Routing!vars)
    PROVE  [\A r \in Requests : Reserves(r)]_(Routing!vars)
<1> SUFFICES ASSUME Routing!Next, NEW r \in Requests, routePc[r] = "select", routePc'[r] = "read"
             PROVE  Reserves(r)
    BY DEF Reserves
<1>1. Chosen(routeCands'[r], Routing!Eligible(r))
    BY ReadIsSelected
<1> QED
    BY <1>1 DEF Chosen, Reserves

LEMMA RoutingMove == [MCNext]_MCVars => [Routing!Next]_(Routing!vars)
BY DEF Routing!vars, MCNext, MCVars, routeVars

LEMMA RoutingInvariant == MCSpec => []Routing!IInv
<1>1. MCInit => Routing!IInv
    BY RoutingInit DEF MCInit
<1>2. Routing!IInv /\ [MCNext]_MCVars => Routing!IInv'
    BY RoutingStep, RoutingMove
<1> QED
    BY <1>1, <1>2, PTL DEF MCSpec

\* provider_body, prefer_next_provider: whatever fails and however often, a
\* client sees the output of one model, and fallback takes one model after
\* another, none twice, free ones before paid ones.
THEOREM FallbackStaysOrderly == MCSpec => []FallbackIsOrderly
<1>1. Routing!IInv => FallbackIsOrderly
    BY DEF Routing!IInv, FallbackIsOrderly
<1> QED
    BY <1>1, RoutingInvariant, PTL

\* select, reserve_provider_candidates: a selection uses all the room there is,
\* leaves no billing category out, and prefers unseen providers.
THEOREM RoomStaysReserved == MCSpec => RoomIsReserved
<1>1. Routing!IInv /\ [MCNext]_MCVars => [\A r \in Requests : Reserves(r)]_(Routing!vars)
    BY RoutingMove, RoundIsReserved
<1>2. [][\A r \in Requests : Reserves(r)]_(Routing!vars) => RoomIsReserved
    BY DEF Routing!RoomIsReserved, Routing!vars, RoomIsReserved, Reserves
<1> QED
    BY <1>1, <1>2, RoutingInvariant, PTL DEF MCSpec

(***************************************************************************)
(* The stream of an answer: what its events show of its blocks             *)
(***************************************************************************)

LEMMA ChatConstants ==
    /\ MaxAttempts \in Nat \ {0} /\ MaxTools \in Nat \ {0}
    /\ MaxCorrections \in Nat /\ MaxChunks \in Nat
BY PathAssumption DEF Chat!ConstantsOK

\* ShowsBlocks, taken apart and said of the places of the events.
Events == Seq(Chat!Event)
OfBlock(e, b) == e.kind # "message" /\ e.block = b
IsContent(e) == e.kind \in {"text", "reasoning"}

KindsFit(s, n, T) ==
    \A k \in 1 .. Len(s) :
        /\ s[k].kind = "message" => s[k].what = "start"
        /\ s[k].kind # "message" =>
              /\ s[k].what \in {"open", "delta", "stop"} /\ s[k].block < n
              /\ s[k].kind = "tool" <=> s[k].block \in T
AllOpened(s, n) ==
    \A b \in 0 .. n - 1 : \E k \in 1 .. Len(s) : OfBlock(s[k], b) /\ s[k].what = "open"
Framed(s) ==
    \A j, k \in 1 .. Len(s) :
        j < k /\ s[j].kind # "message" /\ s[k].kind # "message" /\ s[j].block = s[k].block
        => s[j].what # "stop" /\ s[k].what # "open"
OpenAre(s, n, O) ==
    \A b \in 0 .. n - 1 :
        b \in O <=> \A k \in 1 .. Len(s) : OfBlock(s[k], b) => s[k].what # "stop"
InTurn(s) ==
    \A j, k \in 1 .. Len(s) :
        IsContent(s[j]) /\ IsContent(s[k]) /\ s[j].block < s[k].block => j < k
LastIsOpen(s, O, T) ==
    \A b \in O \ T : \A k \in 1 .. Len(s) : IsContent(s[k]) => s[k].block <= b

Shows(s, n, O, T) ==
    /\ O \subseteq 0 .. n - 1 /\ KindsFit(s, n, T) /\ AllOpened(s, n) /\ Framed(s)
    /\ OpenAre(s, n, O) /\ InTurn(s) /\ LastIsOpen(s, O, T)

LEMMA EventIs ==
    ASSUME NEW s \in Events, NEW k \in 1 .. Len(s)
    PROVE  /\ s[k] \in Chat!Event /\ s[k].block \in Nat
           /\ s[k].kind \in {"message", "text", "reasoning", "tool"}
           /\ s[k].what \in {"start", "open", "delta", "stop", "finish", "fail"}
<1>1. s[k] \in Chat!Event
    BY DEF Events
<1> QED
    BY <1>1 DEF Chat!Event

LEMMA ShowsIs ==
    ASSUME NEW s \in Events, NEW n \in Nat, NEW O, NEW T
    PROVE  Chat!ShowsBlocks(s, n, O, T) <=> Shows(s, n, O, T)
<1>1. DOMAIN s = 1 .. Len(s)
    BY DEF Events
<1>2. \A k \in 1 .. Len(s) :
         /\ s[k].block \in Nat
         /\ s[k].block < n => s[k].block \in 0 .. n - 1
    BY EventIs
<1>3. ASSUME Chat!ShowsBlocks(s, n, O, T) PROVE Shows(s, n, O, T)
    <2>1. O \subseteq 0 .. n - 1 /\ KindsFit(s, n, T)
        BY <1>1, <1>3 DEF Chat!ShowsBlocks, KindsFit
    <2>2. AllOpened(s, n)
        BY <1>1, <1>3 DEF Chat!ShowsBlocks, AllOpened, OfBlock
    <2>3. Framed(s)
        <3> SUFFICES ASSUME NEW j \in 1 .. Len(s), NEW k \in 1 .. Len(s), j < k,
                            s[j].kind # "message", s[k].kind # "message",
                            s[j].block = s[k].block
                     PROVE  s[j].what # "stop" /\ s[k].what # "open"
            BY DEF Framed
        <3>1. s[j].block \in 0 .. n - 1
            BY <1>2, <2>1 DEF KindsFit
        <3>2. \A b \in 0 .. n - 1 :
                 \A i, m \in {l \in DOMAIN s : s[l].kind # "message" /\ s[l].block = b} :
                    i < m => s[i].what # "stop" /\ s[m].what # "open"
            BY <1>3 DEF Chat!ShowsBlocks
        <3>3. /\ j \in {l \in DOMAIN s : s[l].kind # "message" /\ s[l].block = s[j].block}
              /\ k \in {l \in DOMAIN s : s[l].kind # "message" /\ s[l].block = s[j].block}
            BY <1>1
        <3> QED
            BY <3>1, <3>2, <3>3
    <2>4. OpenAre(s, n, O)
        BY <1>1, <1>3 DEF Chat!ShowsBlocks, OpenAre, OfBlock
    <2>5. InTurn(s) /\ LastIsOpen(s, O, T)
        BY <1>1, <1>3 DEF Chat!ShowsBlocks, InTurn, LastIsOpen, IsContent
    <2> QED
        BY <2>1, <2>2, <2>3, <2>4, <2>5 DEF Shows
<1>4. ASSUME Shows(s, n, O, T) PROVE Chat!ShowsBlocks(s, n, O, T)
    <2>1. \A k \in DOMAIN s :
              IF s[k].kind = "message" THEN s[k].what = "start"
              ELSE /\ s[k].what \in {"open", "delta", "stop"} /\ s[k].block < n
                   /\ s[k].kind = "tool" <=> s[k].block \in T
        BY <1>1, <1>4 DEF Shows, KindsFit
    <2>2. \A b \in 0 .. n - 1 :
              \E k \in {j \in DOMAIN s : s[j].kind # "message" /\ s[j].block = b} : s[k].what = "open"
        BY <1>1, <1>4 DEF Shows, AllOpened, OfBlock
    <2>3. \A b \in 0 .. n - 1 :
              \A j, k \in {i \in DOMAIN s : s[i].kind # "message" /\ s[i].block = b} :
                  j < k => s[j].what # "stop" /\ s[k].what # "open"
        BY <1>1, <1>4 DEF Shows, Framed
    <2>4. \A b \in 0 .. n - 1 :
              b \in O <=> \A k \in {j \in DOMAIN s : s[j].kind # "message" /\ s[j].block = b} :
                              s[k].what # "stop"
        BY <1>1, <1>4 DEF Shows, OpenAre, OfBlock
    <2>5. /\ \A j, k \in {i \in DOMAIN s : s[i].kind \in {"text", "reasoning"}} :
                 s[j].block < s[k].block => j < k
          /\ \A b \in O \ T, k \in {i \in DOMAIN s : s[i].kind \in {"text", "reasoning"}} :
                 s[k].block <= b
        BY <1>1, <1>4 DEF Shows, InTurn, LastIsOpen, IsContent
    <2> QED
        BY <1>4, <2>1, <2>2, <2>3, <2>4, <2>5 DEF Chat!ShowsBlocks, Shows
<1> QED
    BY <1>3, <1>4

LEMMA OneMoreEvent ==
    ASSUME NEW s \in Events, NEW e \in Chat!Event, NEW t, t = Append(s, e)
    PROVE  /\ t \in Events /\ Len(t) = Len(s) + 1 /\ Len(s) \in Nat /\ t[Len(s) + 1] = e
           /\ \A k \in 1 .. Len(s) : t[k] = s[k]
           /\ 1 .. Len(t) = (1 .. Len(s)) \cup {Len(s) + 1}
           /\ t # << >>
BY DEF Events

\* A block is opened, with the next number.
LEMMA OpeningShows ==
    ASSUME NEW s \in Events, NEW n \in Nat, NEW O, NEW T, Shows(s, n, O, T), T \subseteq 0 .. n - 1,
           NEW e \in Chat!Event, e.what = "open", e.block = n, e.kind # "message",
           e.kind = "tool" \/ O \subseteq T, NEW t, t = Append(s, e)
    PROVE  Shows(t, n + 1, O \cup {n}, IF e.kind = "tool" THEN T \cup {n} ELSE T)
<1> DEFINE T2 == IF e.kind = "tool" THEN T \cup {n} ELSE T
           O2 == O \cup {n}
<1>1. /\ t \in Events /\ Len(t) = Len(s) + 1 /\ Len(s) \in Nat /\ t[Len(s) + 1] = e
      /\ \A k \in 1 .. Len(s) : t[k] = s[k] /\ s[k].block \in Nat
      /\ 1 .. Len(t) = (1 .. Len(s)) \cup {Len(s) + 1}
    <2>1. \A k \in 1 .. Len(s) : s[k].block \in Nat
        BY EventIs
    <2>2. /\ t \in Events /\ Len(t) = Len(s) + 1 /\ Len(s) \in Nat /\ t[Len(s) + 1] = e
          /\ \A k \in 1 .. Len(s) : t[k] = s[k]
          /\ 1 .. Len(t) = (1 .. Len(s)) \cup {Len(s) + 1}
        BY DEF Events
    <2> QED
        BY <2>1, <2>2
<1>2. \A k \in 1 .. Len(s) : s[k].kind # "message" => s[k].block # n /\ s[k].block < n
    BY DEF Shows, KindsFit
<1>3. 0 .. (n + 1) - 1 = (0 .. n - 1) \cup {n} /\ n \notin 0 .. n - 1
    OBVIOUS
<1>4. O2 \subseteq 0 .. (n + 1) - 1
    BY <1>3 DEF Shows
<1>5. n \in T2 <=> e.kind = "tool"
    BY <1>3
<1>6. \A b \in 0 .. n - 1 : b # n /\ (b \in O2 <=> b \in O) /\ (b \in T2 <=> b \in T)
    OBVIOUS
<1> HIDE DEF T2, O2
<1>7. KindsFit(t, n + 1, T2)
    <2>1. ASSUME NEW k \in 1 .. Len(s), s[k].kind # "message"
          PROVE  /\ s[k].block < n + 1
                 /\ s[k].kind = "tool" <=> s[k].block \in T2
        <3>1. s[k].block < n /\ s[k].block \in 0 .. n - 1
            BY <1>1, <1>2, <2>1
        <3> QED
            BY <1>1, <1>6, <2>1, <3>1 DEF Shows, KindsFit
    <2> QED
        BY <1>1, <1>5, <2>1 DEF Shows, KindsFit
<1>8. AllOpened(t, n + 1)
    <2> SUFFICES ASSUME NEW b \in 0 .. (n + 1) - 1
                 PROVE  \E k \in 1 .. Len(t) : OfBlock(t[k], b) /\ t[k].what = "open"
        BY DEF AllOpened
    <2>1. CASE b = n
        BY <1>1, <2>1 DEF OfBlock
    <2>2. CASE b \in 0 .. n - 1
        <3>1. PICK k \in 1 .. Len(s) : OfBlock(s[k], b) /\ s[k].what = "open"
            BY <2>2 DEF Shows, AllOpened
        <3> QED
            BY <1>1, <3>1
    <2> QED
        BY <1>3, <2>1, <2>2
<1>9. Framed(t)
    <2> SUFFICES ASSUME NEW j \in 1 .. Len(t), NEW k \in 1 .. Len(t), j < k,
                        t[j].kind # "message", t[k].kind # "message", t[j].block = t[k].block
                 PROVE  t[j].what # "stop" /\ t[k].what # "open"
        BY DEF Framed
    <2>1. j \in 1 .. Len(s) /\ k \in 1 .. Len(s)
        BY <1>1, <1>2
    <2> QED
        BY <1>1, <2>1 DEF Shows, Framed
<1>10. OpenAre(t, n + 1, O2)
    <2> SUFFICES ASSUME NEW b \in 0 .. (n + 1) - 1
                 PROVE  b \in O2 <=> \A k \in 1 .. Len(t) : OfBlock(t[k], b) => t[k].what # "stop"
        BY DEF OpenAre
    <2>1. CASE b = n
        <3>1. \A k \in 1 .. Len(s) : ~OfBlock(s[k], b)
            BY <1>2, <2>1 DEF OfBlock
        <3> QED
            BY <1>1, <2>1, <3>1 DEF O2
    <2>2. CASE b \in 0 .. n - 1
        <3>1. ~OfBlock(e, b)
            BY <1>6, <2>2 DEF OfBlock
        <3>2. b \in O <=> \A k \in 1 .. Len(s) : OfBlock(s[k], b) => s[k].what # "stop"
            BY <2>2 DEF Shows, OpenAre
        <3> QED
            BY <1>1, <1>6, <2>2, <3>1, <3>2
    <2> QED
        BY <1>3, <2>1, <2>2
<1>11. InTurn(t)
    <2> SUFFICES ASSUME NEW j \in 1 .. Len(t), NEW k \in 1 .. Len(t),
                        IsContent(t[j]), IsContent(t[k]), t[j].block < t[k].block
                 PROVE  j < k
        BY DEF InTurn
    <2>1. j \in 1 .. Len(s)
        <3> SUFFICES ASSUME j = Len(s) + 1 PROVE FALSE
            BY <1>1
        <3>1. k \in 1 .. Len(s) /\ s[k].kind # "message"
            BY <1>1 DEF IsContent
        <3> QED
            BY <1>1, <1>2, <3>1
    <2>2. CASE k = Len(s) + 1
        BY <1>1, <2>1, <2>2
    <2>3. CASE k \in 1 .. Len(s)
        BY <1>1, <2>1, <2>3 DEF Shows, InTurn
    <2> QED
        BY <1>1, <2>2, <2>3
<1>12. LastIsOpen(t, O2, T2)
    <2> SUFFICES ASSUME NEW b \in O2 \ T2, NEW k \in 1 .. Len(t), IsContent(t[k])
                 PROVE  t[k].block <= b
        BY DEF LastIsOpen
    <2>1. CASE e.kind = "tool"
        <3>1. b \in O \ T /\ k \in 1 .. Len(s)
            BY <1>1, <2>1 DEF O2, T2, IsContent
        <3> QED
            BY <1>1, <3>1 DEF Shows, LastIsOpen
    <2>2. CASE e.kind # "tool"
        <3>1. b = n
            BY <2>2 DEF O2, T2
        <3> QED
            BY <1>1, <1>2, <3>1 DEF IsContent
    <2> QED
        BY <2>1, <2>2
<1> QED
    BY <1>4, <1>7, <1>8, <1>9, <1>10, <1>11, <1>12 DEF Shows, O2, T2

\* An open block gets more, or is closed.
LEMMA AddingShows ==
    ASSUME NEW s \in Events, NEW n \in Nat, NEW O, NEW T, Shows(s, n, O, T),
           NEW e \in Chat!Event, e.what \in {"delta", "stop"}, e.block \in O, e.kind # "message",
           e.kind = "tool" <=> e.block \in T, NEW t, t = Append(s, e)
    PROVE  Shows(t, n, IF e.what = "stop" THEN O \ {e.block} ELSE O, T)
<1> DEFINE O2 == IF e.what = "stop" THEN O \ {e.block} ELSE O
           c == e.block
<1>1. /\ t \in Events /\ Len(t) = Len(s) + 1 /\ Len(s) \in Nat /\ t[Len(s) + 1] = e
      /\ \A k \in 1 .. Len(s) : t[k] = s[k] /\ s[k].block \in Nat
      /\ 1 .. Len(t) = (1 .. Len(s)) \cup {Len(s) + 1}
    <2>1. \A k \in 1 .. Len(s) : s[k].block \in Nat
        BY EventIs
    <2>2. /\ t \in Events /\ Len(t) = Len(s) + 1 /\ Len(s) \in Nat /\ t[Len(s) + 1] = e
          /\ \A k \in 1 .. Len(s) : t[k] = s[k]
          /\ 1 .. Len(t) = (1 .. Len(s)) \cup {Len(s) + 1}
        BY DEF Events
    <2> QED
        BY <2>1, <2>2
<1>2. c \in 0 .. n - 1 /\ c \in O
    BY DEF Shows
<1>3. \A k \in 1 .. Len(s) : OfBlock(s[k], c) => s[k].what # "stop"
    BY <1>2 DEF Shows, OpenAre
<1>4. \A b : b \in O2 => b \in O
    OBVIOUS
<1>5. \A b : b # c => (b \in O2 <=> b \in O)
    OBVIOUS
<1>6. c \in O2 <=> e.what # "stop"
    BY <1>2
<1> HIDE DEF O2
<1>7. O2 \subseteq 0 .. n - 1
    BY <1>4 DEF Shows
<1>8. KindsFit(t, n, T)
    BY <1>1, <1>2 DEF Shows, KindsFit
<1>9. AllOpened(t, n)
    <2> SUFFICES ASSUME NEW b \in 0 .. n - 1
                 PROVE  \E k \in 1 .. Len(t) : OfBlock(t[k], b) /\ t[k].what = "open"
        BY DEF AllOpened
    <2>1. PICK k \in 1 .. Len(s) : OfBlock(s[k], b) /\ s[k].what = "open"
        BY DEF Shows, AllOpened
    <2> QED
        BY <1>1, <2>1
<1>10. Framed(t)
    <2> SUFFICES ASSUME NEW j \in 1 .. Len(t), NEW k \in 1 .. Len(t), j < k,
                        t[j].kind # "message", t[k].kind # "message", t[j].block = t[k].block
                 PROVE  t[j].what # "stop" /\ t[k].what # "open"
        BY DEF Framed
    <2>1. j \in 1 .. Len(s)
        BY <1>1
    <2>2. CASE k \in 1 .. Len(s)
        BY <1>1, <2>1, <2>2 DEF Shows, Framed
    <2>3. CASE k = Len(s) + 1
        BY <1>1, <1>3, <2>1, <2>3 DEF OfBlock
    <2> QED
        BY <1>1, <2>2, <2>3
<1>11. OpenAre(t, n, O2)
    <2> SUFFICES ASSUME NEW b \in 0 .. n - 1
                 PROVE  b \in O2 <=> \A k \in 1 .. Len(t) : OfBlock(t[k], b) => t[k].what # "stop"
        BY DEF OpenAre
    <2>1. CASE b = c
        <3>1. OfBlock(e, b)
            BY <2>1 DEF OfBlock
        <3> QED
            BY <1>1, <1>3, <1>6, <2>1, <3>1
    <2>2. CASE b # c
        <3>1. ~OfBlock(e, b)
            BY <2>2 DEF OfBlock
        <3>2. b \in O <=> \A k \in 1 .. Len(s) : OfBlock(s[k], b) => s[k].what # "stop"
            BY DEF Shows, OpenAre
        <3> QED
            BY <1>1, <1>5, <2>2, <3>1, <3>2
    <2> QED
        BY <2>1, <2>2
<1>12. ASSUME e.kind # "tool" PROVE \A k \in 1 .. Len(s) : IsContent(s[k]) => s[k].block <= c
    <2>1. c \in O \ T
        BY <1>2, <1>12
    <2> QED
        BY <2>1 DEF Shows, LastIsOpen
<1>13. InTurn(t)
    <2> SUFFICES ASSUME NEW j \in 1 .. Len(t), NEW k \in 1 .. Len(t),
                        IsContent(t[j]), IsContent(t[k]), t[j].block < t[k].block
                 PROVE  j < k
        BY DEF InTurn
    <2>1. j \in 1 .. Len(s)
        <3> SUFFICES ASSUME j = Len(s) + 1 PROVE FALSE
            BY <1>1
        <3>1. k \in 1 .. Len(s) /\ t[j] = e /\ t[k] = s[k] /\ c \in Nat
            BY <1>1, <1>2
        <3>2. e.kind # "tool"
            BY <3>1 DEF IsContent
        <3>3. s[k].block <= c /\ s[k].block \in Nat
            BY <1>1, <1>12, <3>1, <3>2
        <3> QED
            BY <3>1, <3>3
    <2>2. CASE k = Len(s) + 1
        BY <1>1, <2>1, <2>2
    <2>3. CASE k \in 1 .. Len(s)
        BY <1>1, <2>1, <2>3 DEF Shows, InTurn
    <2> QED
        BY <1>1, <2>2, <2>3
<1>14. LastIsOpen(t, O2, T)
    <2> SUFFICES ASSUME NEW b \in O2 \ T, NEW k \in 1 .. Len(t), IsContent(t[k])
                 PROVE  t[k].block <= b
        BY DEF LastIsOpen
    <2>1. b \in O \ T /\ b \in 0 .. n - 1
        BY <1>4, <1>7
    <2>2. CASE k \in 1 .. Len(s)
        BY <1>1, <2>1, <2>2 DEF Shows, LastIsOpen
    <2>3. CASE k = Len(s) + 1
        <3>1. t[k] = e /\ e.kind # "tool" /\ c \in O \ T
            BY <1>1, <1>2, <2>3 DEF IsContent
        <3>2. PICK m \in 1 .. Len(s) : OfBlock(s[m], c) /\ s[m].what = "open"
            BY <1>2 DEF Shows, AllOpened
        <3>3. IsContent(s[m]) /\ s[m].block = c
            BY <3>1, <3>2, EventIs DEF Shows, KindsFit, OfBlock, IsContent
        <3> QED
            BY <2>1, <3>1, <3>3 DEF Shows, LastIsOpen
    <2> QED
        BY <1>1, <2>2, <2>3
<1> QED
    BY <1>7, <1>8, <1>9, <1>10, <1>11, <1>13, <1>14 DEF Shows, O2

\* The start of the message, or its end.
LEMMA StartShows ==
    ASSUME NEW e \in Chat!Event, e.kind = "message", e.what = "start"
    PROVE  Shows(<<e>>, 0, {}, {})
<1> DEFINE s == <<e>>
<1>1. Len(s) = 1 /\ s[1] = e
    OBVIOUS
<1>2. \A k \in 1 .. Len(s) : s[k].kind = "message" /\ s[k].what = "start"
    BY <1>1
<1>3. 0 .. 0 - 1 = {}
    OBVIOUS
<1> HIDE DEF s
<1> QED
    BY <1>2, <1>3 DEF Shows, KindsFit, AllOpened, Framed, OpenAre, InTurn, LastIsOpen, IsContent, s

LEMMA NothingShows == Shows(<<>>, 0, {}, {})
<1>1. 1 .. Len(<<>>) = {} /\ 0 .. 0 - 1 = {}
    OBVIOUS
<1> QED
    BY <1>1 DEF Shows, KindsFit, AllOpened, Framed, OpenAre, InTurn, LastIsOpen

(***************************************************************************)
(* The stream of an answer: the contract                                   *)
(***************************************************************************)

PlacesOf(s, b) == {k \in DOMAIN s : s[k].kind # "message" /\ s[k].block = b}

\* The first place of a block is where it is opened; where it is closed, its last.
LEMMA PlacesOfBlock ==
    ASSUME NEW s \in Events, NEW n \in Nat, NEW O, NEW T, Shows(s, n, O, T),
           NEW k \in DOMAIN s, s[k].kind # "message"
    PROVE  /\ s[k].block \in 0 .. n - 1 /\ PlacesOf(s, s[k].block) \subseteq Nat
           /\ \E f \in PlacesOf(s, s[k].block) :
                /\ Chat!Min(PlacesOf(s, s[k].block)) = f /\ s[f].what = "open"
                /\ \A j \in PlacesOf(s, s[k].block) : s[j].what = "open" => j = f
           /\ s[k].what = "stop" => Chat!Max(PlacesOf(s, s[k].block)) = k
<1> DEFINE b == s[k].block
           P == PlacesOf(s, b)
<1>1. DOMAIN s = 1 .. Len(s) /\ Len(s) \in Nat /\ k \in 1 .. Len(s)
    BY DEF Events
<1>2. b \in Nat /\ b < n
    BY <1>1, EventIs DEF Shows, KindsFit
<1>3. b \in 0 .. n - 1
    BY <1>2
<1>4. P \subseteq Nat /\ \A j \in P : j \in 1 .. Len(s) /\ s[j].kind # "message" /\ s[j].block = b
    BY <1>1 DEF PlacesOf
<1>5. \A i, j \in P : i < j => s[i].what # "stop" /\ s[j].what # "open"
    BY <1>4 DEF Shows, Framed
<1>6. PICK f \in P : s[f].what = "open"
    <2>1. PICK f \in 1 .. Len(s) : OfBlock(s[f], b) /\ s[f].what = "open"
        BY <1>3 DEF Shows, AllOpened
    <2> QED
        BY <1>1, <2>1 DEF PlacesOf, OfBlock
<1>7. k \in P
    BY <1>1 DEF PlacesOf
<1> HIDE DEF P, b
<1>8. \A j \in P : f <= j /\ (s[j].what = "open" => j = f)
    BY <1>4, <1>5, <1>6
<1>9. Chat!Min(P) = f
    <2>1. \A x \in P : (\A y \in P : x <= y) => x = f
        BY <1>4, <1>6, <1>8
    <2> QED
        BY <1>6, <1>8, <2>1 DEF Chat!Min
<1>10. ASSUME s[k].what = "stop" PROVE Chat!Max(P) = k
    <2>1. \A j \in P : k >= j
        <3> SUFFICES ASSUME NEW j \in P, ~(k >= j) PROVE FALSE
            OBVIOUS
        <3>1. k \in Nat /\ j \in Nat
            BY <1>4, <1>7
        <3>2. k < j
            BY <3>1
        <3> QED
            BY <1>5, <1>7, <1>10, <3>2
    <2>2. \A x \in P : (\A y \in P : x >= y) => x = k
        BY <1>4, <1>7, <2>1
    <2> QED
        BY <1>7, <2>1, <2>2 DEF Chat!Max
<1> QED
    BY <1>3, <1>4, <1>6, <1>8, <1>9, <1>10 DEF P, b

\* What WellFormed says of the blocks, of the places of their events.
BlocksOf(s) == {s[k].block : k \in {j \in DOMAIN s : s[j].kind # "message"}}
PlacesAs(s, what, b) == {k \in PlacesOf(s, b) : s[k].what = what}
ContentOf(s) == {b \in BlocksOf(s) : \E k \in PlacesOf(s, b) : s[k].kind # "tool"}

BlocksAreFramed(s) ==
    /\ \A b \in BlocksOf(s) : /\ PlacesAs(s, "open", b) = {Chat!Min(PlacesOf(s, b))}
                              /\ PlacesAs(s, "stop", b) \subseteq {Chat!Max(PlacesOf(s, b))}
    /\ \A a, b \in ContentOf(s) :
          a < b => /\ PlacesAs(s, "stop", a) # {}
                   /\ Chat!Max(PlacesOf(s, a)) < Chat!Min(PlacesOf(s, b))
BlocksAreClosed(s) == \A b \in BlocksOf(s) : PlacesAs(s, "stop", b) # {}

LEMMA ShownAreFramed ==
    ASSUME NEW s \in Events, NEW n \in Nat, NEW O, NEW T, Shows(s, n, O, T)
    PROVE  BlocksAreFramed(s) /\ (O = {} => BlocksAreClosed(s))
<1>1. DOMAIN s = 1 .. Len(s)
    BY DEF Events
<1>2. ASSUME NEW b \in BlocksOf(s)
      PROVE  /\ b \in 0 .. n - 1 /\ PlacesOf(s, b) \subseteq Nat
             /\ \E f \in PlacesOf(s, b) :
                   /\ Chat!Min(PlacesOf(s, b)) = f /\ s[f].what = "open"
                   /\ \A j \in PlacesOf(s, b) : s[j].what = "open" => j = f
             /\ \A k \in PlacesOf(s, b) : s[k].what = "stop" => Chat!Max(PlacesOf(s, b)) = k
    <2>1. PICK k \in DOMAIN s : s[k].kind # "message" /\ s[k].block = b
        BY DEF BlocksOf
    <2>2. \A j \in PlacesOf(s, b) : j \in DOMAIN s /\ s[j].kind # "message" /\ s[j].block = b
        BY DEF PlacesOf
    <2>3. /\ b \in 0 .. n - 1 /\ PlacesOf(s, b) \subseteq Nat
          /\ \E f \in PlacesOf(s, b) :
                   /\ Chat!Min(PlacesOf(s, b)) = f /\ s[f].what = "open"
                   /\ \A j \in PlacesOf(s, b) : s[j].what = "open" => j = f
        BY <2>1, PlacesOfBlock
    <2>4. \A j \in PlacesOf(s, b) : s[j].what = "stop" => Chat!Max(PlacesOf(s, b)) = j
        BY <2>2, PlacesOfBlock
    <2> QED
        BY <2>3, <2>4
<1>3. ASSUME NEW b \in BlocksOf(s), b \notin O PROVE PlacesAs(s, "stop", b) # {}
    <2>1. PICK k \in 1 .. Len(s) : OfBlock(s[k], b) /\ s[k].what = "stop"
        BY <1>2, <1>3 DEF Shows, OpenAre
    <2> QED
        BY <1>1, <2>1 DEF PlacesAs, PlacesOf, OfBlock
<1>4. ASSUME NEW b \in BlocksOf(s)
      PROVE  /\ PlacesAs(s, "open", b) = {Chat!Min(PlacesOf(s, b))}
             /\ PlacesAs(s, "stop", b) \subseteq {Chat!Max(PlacesOf(s, b))}
    BY <1>2 DEF PlacesAs
<1>5. ASSUME NEW a \in ContentOf(s), NEW b \in ContentOf(s), a < b
      PROVE  /\ PlacesAs(s, "stop", a) # {}
             /\ Chat!Max(PlacesOf(s, a)) < Chat!Min(PlacesOf(s, b))
    <2>1. a \in BlocksOf(s) /\ b \in BlocksOf(s)
        BY DEF ContentOf
    <2>2. ASSUME NEW c \in ContentOf(s)
          PROVE  c \notin T /\ \A k \in PlacesOf(s, c) : k \in 1 .. Len(s) /\ IsContent(s[k]) /\ s[k].block = c
        <3>1. PICK m \in PlacesOf(s, c) : s[m].kind # "tool"
            BY DEF ContentOf
        <3>2. \A k \in PlacesOf(s, c) : k \in 1 .. Len(s) /\ s[k].kind # "message" /\ s[k].block = c
            BY <1>1 DEF PlacesOf
        <3>3. c \notin T
            BY <3>1, <3>2 DEF Shows, KindsFit
        <3>4. \A k \in PlacesOf(s, c) : s[k].kind # "tool"
            BY <3>2, <3>3 DEF Shows, KindsFit
        <3> QED
            BY <3>2, <3>3, <3>4, EventIs DEF IsContent
    <2>3. PICK f \in PlacesOf(s, b) : Chat!Min(PlacesOf(s, b)) = f
        BY <1>2, <2>1
    <2>4. a \notin O
        <3> SUFFICES ASSUME a \in O \ T PROVE FALSE
            BY <2>2
        <3>1. s[f].block <= a
            BY <2>2, <2>3 DEF Shows, LastIsOpen
        <3>2. a \in Nat /\ b \in Nat /\ s[f].block = b
            BY <1>2, <2>1, <2>2, <2>3
        <3> QED
            BY <1>5, <3>1, <3>2
    <2>5. PICK l \in PlacesAs(s, "stop", a) : TRUE
        BY <1>3, <2>1, <2>4
    <2>6. l \in PlacesOf(s, a) /\ Chat!Max(PlacesOf(s, a)) = l
        BY <1>2, <2>1 DEF PlacesAs
    <2>7. l < f
        BY <1>5, <2>2, <2>3, <2>6 DEF Shows, InTurn
    <2> QED
        BY <2>3, <2>5, <2>6, <2>7
<1>6. O = {} => BlocksAreClosed(s)
    BY <1>3 DEF BlocksAreClosed
<1> QED
    BY <1>4, <1>5, <1>6 DEF BlocksAreFramed

\* The end of the message is of no block.
LEMMA EndIsOfNoBlock ==
    ASSUME NEW s \in Events, NEW e \in Chat!Event, e.kind = "message", NEW t, t = Append(s, e)
    PROVE  /\ BlocksAreFramed(s) => BlocksAreFramed(t)
           /\ BlocksAreClosed(s) => BlocksAreClosed(t)
<1>1. /\ DOMAIN s = 1 .. Len(s) /\ DOMAIN t = 1 .. Len(s) + 1 /\ Len(s) \in Nat
      /\ t[Len(s) + 1] = e /\ \A k \in 1 .. Len(s) : t[k] = s[k]
    BY DEF Events
<1>2. \A k \in DOMAIN t : t[k].kind # "message" => k \in DOMAIN s
    BY <1>1
<1>3. \A k \in DOMAIN s : k \in DOMAIN t /\ t[k] = s[k]
    BY <1>1
<1>4. \A b : PlacesOf(t, b) = PlacesOf(s, b)
    BY <1>2, <1>3 DEF PlacesOf
<1>5. BlocksOf(t) = BlocksOf(s)
    BY <1>2, <1>3 DEF BlocksOf
<1>6. \A b : \A k \in PlacesOf(s, b) : t[k] = s[k]
    BY <1>3 DEF PlacesOf
<1>7. \A what, b : PlacesAs(t, what, b) = PlacesAs(s, what, b)
    BY <1>4, <1>6 DEF PlacesAs
<1>8. ContentOf(t) = ContentOf(s)
    BY <1>4, <1>5, <1>6 DEF ContentOf
<1>9. BlocksAreFramed(s) => BlocksAreFramed(t)
    BY <1>4, <1>5, <1>7, <1>8 DEF BlocksAreFramed
<1>10. BlocksAreClosed(s) => BlocksAreClosed(t)
    BY <1>5, <1>7 DEF BlocksAreClosed
<1> QED
    BY <1>9, <1>10

EndsOf(s) == {k \in DOMAIN s : s[k].what \in {"finish", "fail"}}

\* WellFormed, in these words; also of the state after a step.
LEMMA WellFormedIs ==
    ASSUME BlocksAreFramed(chatSeen), chatPc \in {"done", "failed"} => BlocksAreClosed(chatSeen),
           EndsOf(chatSeen) \subseteq {Len(chatSeen)}, EndsOf(chatSeen) # {} <=> chatPc = "done"
    PROVE  Chat!WellFormed(chatSeen)
BY DEF Chat!WellFormed, BlocksAreFramed, BlocksAreClosed, EndsOf, PlacesAs, PlacesOf, BlocksOf, ContentOf

LEMMA WellFormedNext ==
    ASSUME BlocksAreFramed(chatSeen'), chatPc' \in {"done", "failed"} => BlocksAreClosed(chatSeen'),
           EndsOf(chatSeen') \subseteq {Len(chatSeen')}, EndsOf(chatSeen') # {} <=> chatPc' = "done"
    PROVE  Chat!WellFormed(chatSeen)'
BY DEF Chat!WellFormed, BlocksAreFramed, BlocksAreClosed, EndsOf, PlacesAs, PlacesOf, BlocksOf, ContentOf

\* A stream that goes on, or that a failure left, has no end.
LEMMA NoEnds ==
    ASSUME NEW s \in Events, NEW n \in Nat, NEW O, NEW T, Shows(s, n, O, T)
    PROVE  EndsOf(s) = {}
BY EventIs DEF Events, EndsOf, Shows, KindsFit

LEMMA GoesOnWell ==
    ASSUME chatSeen' \in Events, NEW n \in Nat, NEW O, NEW T, Shows(chatSeen', n, O, T),
           chatPc' # "done", chatPc' = "failed" => O = {}
    PROVE  Chat!WellFormed(chatSeen)'
BY ShownAreFramed, NoEnds, WellFormedNext

LEMMA EndsWell ==
    ASSUME NEW s \in Events, NEW n \in Nat, NEW T, Shows(s, n, {}, T),
           NEW e \in Chat!Event, e.kind = "message", e.what \in {"finish", "fail"},
           chatSeen' = Append(s, e), chatPc' = "done"
    PROVE  Chat!WellFormed(chatSeen)'
<1> DEFINE t == Append(s, e)
<1>1. BlocksAreFramed(t) /\ BlocksAreClosed(t)
    BY ShownAreFramed, EndIsOfNoBlock
<1>2. EndsOf(t) = {Len(t)}
    <2>1. /\ DOMAIN s = 1 .. Len(s) /\ DOMAIN t = 1 .. Len(s) + 1 /\ Len(s) \in Nat
          /\ t[Len(s) + 1] = e /\ \A k \in 1 .. Len(s) : t[k] = s[k] /\ Len(t) = Len(s) + 1
        BY DEF Events
    <2>2. EndsOf(s) = {}
        BY NoEnds
    <2> HIDE DEF t
    <2>3. \A k \in 1 .. Len(s) : t[k].what \notin {"finish", "fail"}
        BY <2>1, <2>2 DEF EndsOf
    <2> QED
        BY <2>1, <2>3 DEF EndsOf
<1>3. t = chatSeen'
    OBVIOUS
<1> HIDE DEF t
<1> QED
    BY <1>1, <1>2, <1>3, WellFormedNext

(***************************************************************************)
(* The stream of an answer: its output                                     *)
(***************************************************************************)

\* The events of the assembler, with those of the step being computed.
EventKinds == {"message", "text", "reasoning", "tool"}
EventWhats == {"start", "open", "delta", "stop", "finish", "fail"}
StreamKnown == chatSeen \in Events /\ chatHeld \in Events /\ chatEpoch \in Nat
Sent(o) == chatSeen \o chatHeld \o o.new
EventOf(kind, what, b) == [epoch |-> chatEpoch, kind |-> kind, what |-> what, block |-> b]

LEMMA SentIs ==
    ASSUME StreamKnown, NEW o \in Chat!Outputs
    PROVE  Sent(o) \in Events
BY DEF StreamKnown, Events, Sent, Chat!Outputs

LEMMA EmitIs ==
    ASSUME StreamKnown, NEW o \in Chat!Outputs, NEW kind \in EventKinds, NEW what \in EventWhats, NEW b \in Nat,
           NEW u, u = Chat!Emit(o, kind, what, b)
    PROVE  /\ u \in Chat!Outputs /\ EventOf(kind, what, b) \in Chat!Event
           /\ Sent(u) = Append(Sent(o), EventOf(kind, what, b))
           /\ u.started = o.started /\ u.next = o.next /\ u.content = o.content /\ u.block = o.block
           /\ u.said = o.said /\ u.tools = o.tools
<1> DEFINE e == EventOf(kind, what, b)
<1>1. e \in Chat!Event
    BY DEF EventOf, StreamKnown, Chat!Event, EventKinds, EventWhats
<1>2. u = [o EXCEPT !.new = Append(o.new, e)]
    BY DEF Chat!Emit, EventOf
<1>3. o.new \in Events /\ Append(o.new, e) \in Events
    BY <1>1 DEF Chat!Outputs, Events
<1> HIDE DEF e
<1>4. u \in Chat!Outputs
    BY <1>2, <1>3 DEF Chat!Outputs, Events
<1>5. u.new = Append(o.new, e)
    BY <1>2 DEF Chat!Outputs
<1>6. Sent(u) = Append(Sent(o), e)
    <2> DEFINE s == chatSeen \o chatHeld
               n == o.new
    <2>1. s \in Events /\ n \in Events
        BY <1>3 DEF StreamKnown, Events
    <2> HIDE DEF s, n
    <2>2. s \o Append(n, e) = Append(s \o n, e)
        BY <1>1, <2>1 DEF Events
    <2> QED
        BY <1>5, <2>2 DEF Sent, s, n
<1> QED
    BY <1>1, <1>2, <1>4, <1>6 DEF Chat!Outputs, e

\* An output whose message has started, and its events with it.
Fine(o) == o \in Chat!Outputs /\ o.started /\ Sent(o) # << >> /\ Chat!Begun(Sent(o))

\* What events show of an output, in the words above.
Linked(o) ==
    /\ Shows(Sent(o), o.next, Chat!OpenBlocks(o), Chat!ToolBlocks(o))
    /\ \A i \in Chat!Known(o) : o.tools[i].block < o.next
    /\ \A i, j \in Chat!Known(o) : o.tools[i].block = o.tools[j].block => i = j
    /\ o.content # "none" => o.block \notin Chat!ToolBlocks(o)

LEMMA LinkedIs ==
    ASSUME StreamKnown, NEW o \in Chat!Outputs
    PROVE  Linked(o) <=> Chat!ShowsOutput(Sent(o), o)
<1>1. Sent(o) \in Events /\ o.next \in Nat
    BY SentIs DEF Chat!Outputs
<1>2. Chat!ShowsBlocks(Sent(o), o.next, Chat!OpenBlocks(o), Chat!ToolBlocks(o))
      <=> Shows(Sent(o), o.next, Chat!OpenBlocks(o), Chat!ToolBlocks(o))
    BY <1>1, ShowsIs
<1> QED
    BY <1>2 DEF Linked, Chat!ShowsOutput

LEMMA ToolIs ==
    ASSUME NEW o \in Chat!Outputs, NEW i \in Chat!Tools
    PROVE  /\ o.tools[i] \in Chat!ToolStates /\ o.tools[i].block \in Nat
           /\ o.tools[i].state \in {"absent", "open", "closed"}
           /\ o.tools[i].from \in {"none", "native", "text"}
           /\ o.tools[i].args \in {"none", "buffered", "partial", "complete"}
           /\ i \in Chat!Known(o) <=> o.tools[i].state # "absent"
<1>1. o.tools[i] \in Chat!ToolStates
    BY DEF Chat!Outputs
<1> QED
    BY <1>1 DEF Chat!ToolStates, Chat!Known

LEMMA LinkedBlocks ==
    ASSUME NEW o \in Chat!Outputs, Linked(o)
    PROVE  /\ Chat!ToolBlocks(o) \subseteq 0 .. o.next - 1 /\ o.next \in Nat
           /\ o.content = "none" => Chat!OpenBlocks(o) \subseteq Chat!ToolBlocks(o)
<1>1. o.next \in Nat
    BY DEF Chat!Outputs
<1>2. \A i \in Chat!Known(o) : i \in Chat!Tools /\ o.tools[i].block \in Nat /\ o.tools[i].block < o.next
    BY ToolIs DEF Linked, Chat!Known
<1>3. \A i \in Chat!Known(o) : o.tools[i].block \in 0 .. o.next - 1
    BY <1>1, <1>2
<1>4. Chat!ToolBlocks(o) \subseteq 0 .. o.next - 1
    BY <1>3 DEF Chat!ToolBlocks
<1>5. ASSUME o.content = "none" PROVE Chat!OpenBlocks(o) \subseteq Chat!ToolBlocks(o)
    BY <1>5 DEF Chat!OpenBlocks, Chat!ToolBlocks, Chat!Known
<1> QED
    BY <1>1, <1>4, <1>5

\* An event other than the start, after the start.
LEMMA EmitFine ==
    ASSUME StreamKnown, NEW o, Fine(o), NEW v \in Chat!Outputs, v.new = o.new, v.started,
           NEW kind \in EventKinds, NEW what \in EventWhats \ {"start"}, NEW b \in Nat,
           NEW u, u = Chat!Emit(v, kind, what, b)
    PROVE  Fine(u) /\ Sent(u) = Append(Sent(o), EventOf(kind, what, b))
<1> DEFINE e == EventOf(kind, what, b)
           s == Sent(o)
           t == Sent(u)
<1>0. what \in EventWhats
    OBVIOUS
<1>a. /\ u \in Chat!Outputs /\ EventOf(kind, what, b) \in Chat!Event
      /\ Sent(u) = Append(Sent(v), EventOf(kind, what, b))
      /\ u.started = v.started
    BY <1>0, EmitIs
<1>1. /\ u \in Chat!Outputs /\ e \in Chat!Event /\ t = Append(Sent(v), e) /\ u.started
    BY <1>a
<1>2. Sent(v) = s
    BY DEF Sent
<1>3. s \in Events /\ s # << >> /\ Chat!Begun(s)
    BY SentIs DEF Fine
<1>4. e.epoch = chatEpoch /\ e.what # "start"
    BY DEF EventOf
<1> HIDE DEF e, s, t
<1>5. t = Append(s, e) /\ s \in Seq(Chat!Event)
    BY <1>1, <1>2, <1>3 DEF Events
<1>6. Len(s) \in Nat \ {0} /\ DOMAIN s = 1 .. Len(s) /\ DOMAIN t = 1 .. Len(s) + 1
      /\ t[Len(s) + 1] = e /\ (\A k \in 1 .. Len(s) : t[k] = s[k]) /\ t # << >>
    BY <1>1, <1>3, <1>5
<1>7. Chat!Begun(t)
    <2> SUFFICES ASSUME NEW k \in 1 .. Len(s) + 1
                 PROVE  t[k].epoch = chatEpoch /\ (t[k].what = "start" <=> k = 1)
        BY <1>6 DEF Chat!Begun
    <2>1. CASE k \in 1 .. Len(s)
        BY <1>3, <1>6, <2>1 DEF Chat!Begun
    <2>2. CASE k = Len(s) + 1
        BY <1>4, <1>6, <2>2
    <2> QED
        BY <1>6, <2>1, <2>2
<1> QED
    BY <1>1, <1>5, <1>6, <1>7 DEF Fine, s, t, e

\* close_content_blocks.
LEMMA CloseContentIs ==
    ASSUME StreamKnown, NEW o, Fine(o), NEW u, u = Chat!CloseContent(o)
    PROVE  /\ Fine(u) /\ u.content = "none" /\ u.next = o.next /\ u.tools = o.tools
           /\ u.said = o.said
           /\ Linked(o) => Linked(u)
<1>0. o \in Chat!Outputs
    BY DEF Fine
<1>1. CASE o.content = "none"
    BY <1>1 DEF Chat!CloseContent
<1>2. CASE o.content # "none"
    <2> DEFINE v == [o EXCEPT !.content = "none"]
               b == o.block
               kind == o.content
               e == EventOf(kind, "stop", b)
    <2>1. /\ v \in Chat!Outputs /\ v.new = o.new /\ v.started /\ v.content = "none"
          /\ v.next = o.next /\ v.tools = o.tools /\ v.said = o.said
          /\ kind \in {"text", "reasoning"} /\ b \in Nat /\ b = o.block
        BY <1>0, <1>2 DEF Chat!Outputs, Fine
    <2>w. kind \in EventKinds /\ "stop" \in EventWhats /\ "stop" \in EventWhats \ {"start"}
        BY <2>1 DEF EventKinds, EventWhats
    <2>2. u = Chat!Emit(v, kind, "stop", b)
        BY <1>2 DEF Chat!CloseContent
    <2> HIDE DEF v, kind, b
    <2>3. Fine(u) /\ Sent(u) = Append(Sent(o), e)
        BY <2>1, <2>2, <2>w, EmitFine
    <2>e. /\ e \in Chat!Event
          /\ u.next = v.next /\ u.content = v.content /\ u.block = v.block
          /\ u.said = v.said /\ u.tools = v.tools
        BY <2>1, <2>2, <2>w, EmitIs, Z3
    <2>4. /\ u.content = "none" /\ u.next = o.next /\ u.tools = o.tools /\ u.said = o.said
          /\ e \in Chat!Event
        BY <2>1, <2>e
    <2>v. e.what = "stop" /\ e.block = b /\ e.kind \in {"text", "reasoning"}
        BY <2>1 DEF EventOf
    <2> HIDE DEF e
    <2>5. ASSUME Linked(o) PROVE Linked(u)
        <3> DEFINE s == Sent(o)
                   n == o.next
                   O == Chat!OpenBlocks(o)
                   T == Chat!ToolBlocks(o)
        <3>1. Shows(s, n, O, T) /\ s \in Events /\ n \in Nat
            BY <1>0, <2>5, SentIs DEF Linked, Chat!Outputs
        <3>2. b \in O /\ b \notin T
            BY <1>2, <2>1, <2>5 DEF Linked, Chat!OpenBlocks
        <3>3. e.what \in {"delta", "stop"} /\ e.what = "stop" /\ e.block = b /\ e.kind # "message" /\ e.kind # "tool"
            BY <2>v
        <3>4. Chat!ToolBlocks(u) = T /\ Chat!Known(u) = Chat!Known(o)
            BY <2>4 DEF Chat!ToolBlocks, Chat!Known
        <3>5. Chat!OpenBlocks(u) = O \ {b}
            <4>1. \A i \in Chat!Tools : o.tools[i].state = "open" => o.tools[i].block # b
                BY <3>2 DEF Chat!ToolBlocks, Chat!Known
            <4> QED
                BY <1>2, <2>1, <2>4, <4>1 DEF Chat!OpenBlocks
        <3> HIDE DEF s, n, O, T
        <3>6. Shows(Append(s, e), n, O \ {b}, T)
            BY <2>4, <3>1, <3>2, <3>3, AddingShows
        <3>7. Shows(Sent(u), u.next, Chat!OpenBlocks(u), Chat!ToolBlocks(u))
            BY <2>3, <2>4, <3>4, <3>5, <3>6 DEF s, n
        <3> QED
            BY <2>4, <2>5, <3>4, <3>7 DEF Linked
    <2> QED
        BY <2>3, <2>4, <2>5
<1> QED
    BY <1>1, <1>2

\* ensure_text_block, ensure_reasoning_block.
LEMMA EnsureIs ==
    ASSUME StreamKnown, NEW o, Fine(o), NEW kind \in {"text", "reasoning"},
           NEW u, u = Chat!Ensure(o, kind)
    PROVE  /\ Fine(u) /\ u.content = kind /\ u.tools = o.tools /\ u.said = o.said
           /\ Linked(o) => Linked(u) /\ u.next > 0
<1>0. o \in Chat!Outputs
    BY DEF Fine
<1>1. CASE o.content = kind
    <2>1. u = o
        BY <1>1 DEF Chat!Ensure
    <2>2. Linked(o) => o.next > 0
        <3> SUFFICES ASSUME Linked(o) PROVE o.next > 0
            OBVIOUS
        <3>1. o.block \in Chat!OpenBlocks(o)
            BY <1>1 DEF Chat!OpenBlocks
        <3>2. o.block \in 0 .. o.next - 1
            BY <3>1 DEF Linked, Shows
        <3> QED
            BY <1>0, <3>2 DEF Chat!Outputs
    <2> QED
        BY <1>0, <1>1, <2>1, <2>2 DEF Chat!Outputs
<1>2. CASE o.content # kind
    <2> DEFINE c == Chat!CloseContent(o)
               n == c.next
               v == [c EXCEPT !.content = kind, !.block = n, !.next = @ + 1]
               e == EventOf(kind, "open", n)
    <2>1. /\ Fine(c) /\ c.content = "none" /\ c.next = o.next /\ c.tools = o.tools
          /\ c.said = o.said /\ (Linked(o) => Linked(c)) /\ c \in Chat!Outputs
        <3>1. /\ Fine(c) /\ c.content = "none" /\ c.next = o.next /\ c.tools = o.tools
              /\ c.said = o.said /\ (Linked(o) => Linked(c))
            BY CloseContentIs, Z3
        <3> QED
            BY <3>1 DEF Fine
    <2>2. u = Chat!Emit(v, kind, "open", n)
        BY <1>2 DEF Chat!Ensure
    <2> HIDE DEF c
    <2>n. n \in Nat /\ n + 1 \in Nat
        BY <2>1 DEF Chat!Outputs
    <2>3. /\ v \in Chat!Outputs /\ v.new = c.new /\ v.started /\ v.content = kind
          /\ v.next = n + 1 /\ v.tools = o.tools /\ v.said = o.said /\ v.block = n
        BY <2>1, <2>n DEF Chat!Outputs, Fine
    <2>w. kind \in EventKinds /\ "open" \in EventWhats /\ "open" \in EventWhats \ {"start"}
        BY DEF EventKinds, EventWhats
    <2>m. n = c.next
        OBVIOUS
    <2> HIDE DEF v, n
    <2>4. Fine(u) /\ Sent(u) = Append(Sent(c), e)
        BY <2>1, <2>2, <2>3, <2>n, <2>w, EmitFine
    <2>e. /\ e \in Chat!Event
          /\ u.next = v.next /\ u.content = v.content /\ u.block = v.block
          /\ u.said = v.said /\ u.tools = v.tools
        BY <2>2, <2>3, <2>n, <2>w, EmitIs, Z3
    <2>5. /\ u.content = kind /\ u.next = n + 1 /\ u.tools = o.tools /\ u.said = o.said
          /\ e \in Chat!Event /\ u.block = n
        BY <2>3, <2>e
    <2>v. e.what = "open" /\ e.block = n /\ e.kind # "message" /\ e.kind # "tool"
        BY DEF EventOf
    <2> HIDE DEF e
    <2>6. ASSUME Linked(o) PROVE Linked(u)
        <3> DEFINE s == Sent(c)
                   O == Chat!OpenBlocks(c)
                   T == Chat!ToolBlocks(c)
        <3>1. Shows(s, n, O, T) /\ s \in Events /\ n \in Nat /\ T \subseteq 0 .. n - 1 /\ O \subseteq T
            BY <2>1, <2>6, <2>m, SentIs, LinkedBlocks DEF Linked
        <3>2. e.what = "open" /\ e.block = n /\ e.kind # "message" /\ e.kind # "tool"
            BY <2>v
        <3>3. Chat!ToolBlocks(u) = T /\ Chat!Known(u) = Chat!Known(c)
            BY <2>1, <2>5 DEF Chat!ToolBlocks, Chat!Known
        <3>4. Chat!OpenBlocks(u) = O \cup {n}
            BY <2>1, <2>5 DEF Chat!OpenBlocks
        <3>5. n \notin T
            BY <3>1
        <3>6. \A i \in Chat!Known(c) : c.tools[i].block \in Nat /\ c.tools[i].block < n
            BY <2>1, <2>6, <2>m, ToolIs DEF Linked, Chat!Known
        <3> HIDE DEF s, O, T
        <3>7. Shows(Append(s, e), n + 1, O \cup {n}, T)
            BY <2>5, <3>1, <3>2, OpeningShows
        <3>8. Shows(Sent(u), u.next, Chat!OpenBlocks(u), Chat!ToolBlocks(u))
            BY <2>4, <2>5, <3>3, <3>4, <3>7 DEF s
        <3>9. \A i \in Chat!Known(u) : u.tools[i].block < u.next
            BY <2>1, <2>5, <3>1, <3>3, <3>6
        <3> QED
            BY <2>1, <2>5, <2>6, <3>3, <3>5, <3>8, <3>9 DEF Linked
    <2> QED
        BY <2>1, <2>n, <2>4, <2>5, <2>6
<1> QED
    BY <1>1, <1>2

\* A delta of text or reasoning.
LEMMA SayIs ==
    ASSUME StreamKnown, NEW o, Fine(o), NEW kind \in {"text", "reasoning"},
           NEW u, u = Chat!Say(o, kind)
    PROVE  /\ Fine(u) /\ u.tools = o.tools /\ u.said = o.said \cup {kind}
           /\ Linked(o) => Linked(u) /\ u.next > 0
<1> DEFINE c == Chat!Ensure(o, kind)
           b == c.block
           v == [c EXCEPT !.said = @ \union {kind}]
           e == EventOf(kind, "delta", b)
<1>1. /\ Fine(c) /\ c.content = kind /\ c.tools = o.tools /\ c.said = o.said
      /\ Linked(o) => Linked(c) /\ c.next > 0
    BY EnsureIs, Z3
<1>2. u = Chat!Emit(v, kind, "delta", b)
    BY DEF Chat!Say
<1> HIDE DEF c
<1>3. /\ v \in Chat!Outputs /\ v.new = c.new /\ v.started /\ v.content = kind
      /\ v.next = c.next /\ v.tools = o.tools /\ v.said = o.said \cup {kind} /\ v.block = b /\ b \in Nat
      /\ c \in Chat!Outputs
    BY <1>1 DEF Chat!Outputs, Fine
<1>w. kind \in EventKinds /\ "delta" \in EventWhats /\ "delta" \in EventWhats \ {"start"}
    BY DEF EventKinds, EventWhats
<1>b. b = c.block
    OBVIOUS
<1> HIDE DEF v, b
<1>4. Fine(u) /\ Sent(u) = Append(Sent(c), e)
    BY <1>1, <1>2, <1>3, <1>w, EmitFine
<1>c. v \in Chat!Outputs /\ b \in Nat
    BY <1>3
<1>e. /\ e \in Chat!Event
      /\ u.next = v.next /\ u.content = v.content /\ u.block = v.block
      /\ u.said = v.said /\ u.tools = v.tools
    BY <1>2, <1>c, <1>w, EmitIs, Z3
<1>5. /\ u.content = kind /\ u.next = c.next /\ u.tools = o.tools /\ u.said = o.said \cup {kind}
      /\ e \in Chat!Event /\ u.block = b
    BY <1>3, <1>e
<1>v. e.what = "delta" /\ e.what # "stop" /\ e.block = b /\ e.kind # "message" /\ e.kind # "tool"
    BY DEF EventOf
<1> HIDE DEF e
<1>6. ASSUME Linked(o) PROVE Linked(u)
    <2> DEFINE s == Sent(c)
               n == c.next
               O == Chat!OpenBlocks(c)
               T == Chat!ToolBlocks(c)
    <2>1. Shows(s, n, O, T) /\ s \in Events /\ n \in Nat /\ b \in O /\ b \notin T
        BY <1>1, <1>3, <1>b, <1>6, SentIs DEF Linked, Chat!OpenBlocks, Chat!Outputs
    <2>2. e.what \in {"delta", "stop"} /\ e.what # "stop" /\ e.block = b /\ e.kind # "message" /\ e.kind # "tool"
        BY <1>v
    <2>3. Chat!ToolBlocks(u) = T /\ Chat!Known(u) = Chat!Known(c) /\ Chat!OpenBlocks(u) = O
        BY <1>1, <1>5, <1>b DEF Chat!ToolBlocks, Chat!Known, Chat!OpenBlocks
    <2> HIDE DEF s, n, O, T
    <2>4. Shows(Append(s, e), n, O, T)
        BY <1>5, <2>1, <2>2, AddingShows
    <2>5. Shows(Sent(u), u.next, Chat!OpenBlocks(u), Chat!ToolBlocks(u))
        BY <1>4, <1>5, <2>3, <2>4 DEF s, n
    <2> QED
        BY <1>1, <1>5, <1>6, <2>1, <2>3, <2>5 DEF Linked, T
<1> QED
    BY <1>1, <1>4, <1>5, <1>6

\* start_tool_block.
LEMMA StartToolIs ==
    ASSUME StreamKnown, NEW o, Fine(o), o.content = "none", NEW i \in Chat!Tools,
           o.tools[i].state = "absent", NEW from \in {"native", "text"},
           NEW u, u = Chat!StartTool(o, i, from)
    PROVE  /\ Fine(u) /\ u.content = "none" /\ u.next = o.next + 1 /\ u.said = o.said
           /\ u.tools[i].state = "open" /\ u.tools[i].args = "none" /\ u.tools[i].from = from
           /\ \A j \in Chat!Tools : j # i => u.tools[j] = o.tools[j]
           /\ Linked(o) => Linked(u)
<1> DEFINE n == o.next
           t == [block |-> n, state |-> "open", args |-> "none", from |-> from]
           v == [o EXCEPT !.tools[i] = t, !.next = @ + 1]
           e == EventOf("tool", "open", n)
<1>1. o \in Chat!Outputs /\ n \in Nat /\ n + 1 \in Nat /\ n = o.next
    BY DEF Fine, Chat!Outputs
<1>2. u = Chat!Emit(v, "tool", "open", n)
    BY DEF Chat!StartTool
<1>3. /\ t \in Chat!ToolStates /\ t.block = n /\ t.state = "open" /\ t.args = "none" /\ t.from = from
    BY <1>1 DEF Chat!ToolStates
<1> HIDE DEF t, n
<1>4. /\ v \in Chat!Outputs /\ v.new = o.new /\ v.started /\ v.content = "none"
      /\ v.next = n + 1 /\ v.said = o.said /\ v.block = o.block
      /\ v.tools[i] = t
      /\ \A j \in Chat!Tools : j # i => v.tools[j] = o.tools[j]
    BY <1>1, <1>3 DEF Chat!Outputs, Fine
<1>5. /\ "tool" \in EventKinds /\ "open" \in EventWhats /\ "open" \in EventWhats \ {"start"}
    BY DEF EventKinds, EventWhats
<1> HIDE DEF v
<1>6. Fine(u) /\ Sent(u) = Append(Sent(o), e)
    BY <1>1, <1>2, <1>4, <1>5, EmitFine
<1>7. v \in Chat!Outputs /\ n \in Nat
    BY <1>1, <1>4
<1>8. /\ e \in Chat!Event
      /\ u.next = v.next /\ u.content = v.content /\ u.block = v.block
      /\ u.said = v.said /\ u.tools = v.tools
    BY <1>2, <1>5, <1>7, EmitIs, Z3
<1>9. e.what = "open" /\ e.block = n /\ e.kind # "message" /\ e.kind = "tool"
    BY DEF EventOf
<1> HIDE DEF e
<1>10. /\ u.content = "none" /\ u.next = n + 1 /\ u.said = o.said /\ u.block = o.block
       /\ u.tools[i] = t
       /\ \A j \in Chat!Tools : j # i => u.tools[j] = o.tools[j]
    BY <1>4, <1>8
<1>11. ASSUME Linked(o) PROVE Linked(u)
    <2> DEFINE s == Sent(o)
               O == Chat!OpenBlocks(o)
               T == Chat!ToolBlocks(o)
    <2>1. Shows(s, n, O, T) /\ s \in Events /\ T \subseteq 0 .. n - 1
        BY <1>1, <1>11, SentIs, LinkedBlocks DEF Linked
    <2>2. Chat!Known(u) = Chat!Known(o) \cup {i} /\ i \notin Chat!Known(o)
        BY <1>3, <1>10 DEF Chat!Known
    <2>3. \A j \in Chat!Known(o) : j \in Chat!Tools /\ j # i /\ u.tools[j] = o.tools[j]
        BY <1>10, <2>2 DEF Chat!Known
    <2>4. Chat!ToolBlocks(u) = T \cup {n}
        BY <1>3, <1>10, <2>2, <2>3 DEF Chat!ToolBlocks
    <2>5. Chat!OpenBlocks(u) = O \cup {n}
        BY <1>3, <1>10 DEF Chat!OpenBlocks
    <2>6. \A j \in Chat!Known(o) : o.tools[j].block \in Nat /\ o.tools[j].block < n
        BY <1>1, <1>11, ToolIs DEF Linked, Chat!Known
    <2> HIDE DEF s, O, T
    <2>7. Shows(Append(s, e), n + 1, O \cup {n}, T \cup {n})
        BY <1>1, <1>8, <1>9, <2>1, OpeningShows
    <2>8. Shows(Sent(u), u.next, Chat!OpenBlocks(u), Chat!ToolBlocks(u))
        BY <1>6, <1>10, <2>4, <2>5, <2>7 DEF s
    <2>9. \A j \in Chat!Known(u) : u.tools[j].block < u.next
        BY <1>1, <1>3, <1>10, <2>2, <2>3, <2>6
    <2>10. ASSUME NEW j \in Chat!Known(u), NEW k \in Chat!Known(u), u.tools[j].block = u.tools[k].block
           PROVE  j = k
        <3>1. CASE j = i /\ k = i
            BY <3>1
        <3>2. CASE j \in Chat!Known(o) /\ k \in Chat!Known(o)
            BY <1>11, <2>3, <2>10, <3>2 DEF Linked
        <3>3. CASE j = i /\ k \in Chat!Known(o)
            BY <1>1, <1>3, <1>10, <2>3, <2>6, <2>10, <3>3
        <3>4. CASE j \in Chat!Known(o) /\ k = i
            BY <1>1, <1>3, <1>10, <2>3, <2>6, <2>10, <3>4
        <3> QED
            BY <2>2, <3>1, <3>2, <3>3, <3>4
    <2> QED
        BY <1>10, <2>8, <2>9, <2>10 DEF Linked
<1> QED
    BY <1>1, <1>3, <1>6, <1>10, <1>11

\* Only the arguments of a tool call change: the blocks are what they were.
LEMMA ArgumentsAre ==
    ASSUME NEW o \in Chat!Outputs, NEW i \in Chat!Tools,
           NEW args \in {"none", "buffered", "partial", "complete"},
           NEW v, v = [o EXCEPT !.tools[i].args = args]
    PROVE  /\ v \in Chat!Outputs /\ v.new = o.new /\ v.next = o.next /\ v.content = o.content
           /\ v.block = o.block /\ v.said = o.said
           /\ v.started <=> o.started
           /\ v.tools[i].args = args
           /\ \A j \in Chat!Tools : /\ v.tools[j].state = o.tools[j].state
                                    /\ v.tools[j].block = o.tools[j].block
                                    /\ v.tools[j].from = o.tools[j].from
                                    /\ j # i => v.tools[j].args = o.tools[j].args
<1> DEFINE t == [o.tools[i] EXCEPT !.args = args]
<1>1. o.tools[i] \in Chat!ToolStates
    BY ToolIs
<1>2. /\ t \in Chat!ToolStates /\ t.args = args /\ t.state = o.tools[i].state
      /\ t.block = o.tools[i].block /\ t.from = o.tools[i].from
    BY <1>1 DEF Chat!ToolStates
<1>3. v = [o EXCEPT !.tools = [o.tools EXCEPT ![i] = t]]
    BY DEF Chat!Outputs
<1> HIDE DEF t
<1>4. o.tools \in [Chat!Tools -> Chat!ToolStates]
    BY DEF Chat!Outputs
<1> DEFINE ts == [o.tools EXCEPT ![i] = t]
<1>5. /\ ts \in [Chat!Tools -> Chat!ToolStates] /\ ts[i] = t
      /\ \A j \in Chat!Tools : j # i => ts[j] = o.tools[j]
    BY <1>2, <1>4
<1> HIDE DEF ts
<1>6. v = [o EXCEPT !.tools = ts]
    BY <1>3 DEF ts
<1>7. /\ v \in Chat!Outputs /\ v.new = o.new /\ v.next = o.next /\ v.content = o.content
      /\ v.block = o.block /\ v.said = o.said /\ v.tools = ts
      /\ v.started <=> o.started
    BY <1>5, <1>6 DEF Chat!Outputs
<1> QED
    BY <1>2, <1>5, <1>7

LEMMA SameBlocks ==
    ASSUME NEW o, NEW u, u.next = o.next, u.content = o.content, u.block = o.block,
           \A j \in Chat!Tools : /\ u.tools[j].state = o.tools[j].state
                                 /\ u.tools[j].block = o.tools[j].block
    PROVE  /\ Chat!Known(u) = Chat!Known(o) /\ Chat!ToolBlocks(u) = Chat!ToolBlocks(o)
           /\ Chat!OpenBlocks(u) = Chat!OpenBlocks(o)
           /\ Linked(o) /\ Shows(Sent(u), o.next, Chat!OpenBlocks(o), Chat!ToolBlocks(o)) => Linked(u)
<1>1. Chat!Known(u) = Chat!Known(o)
    BY DEF Chat!Known
<1>2. \A j \in Chat!Known(o) : u.tools[j].block = o.tools[j].block
    BY DEF Chat!Known
<1>3. Chat!ToolBlocks(u) = Chat!ToolBlocks(o)
    BY <1>1, <1>2 DEF Chat!ToolBlocks
<1>4. Chat!OpenBlocks(u) = Chat!OpenBlocks(o)
    BY DEF Chat!OpenBlocks
<1>5. ASSUME Linked(o), Shows(Sent(u), o.next, Chat!OpenBlocks(o), Chat!ToolBlocks(o))
      PROVE  Linked(u)
    BY <1>1, <1>2, <1>3, <1>4, <1>5 DEF Linked
<1> QED
    BY <1>1, <1>3, <1>4, <1>5

\* emit_tool_delta.
LEMMA ToolDeltaIs ==
    ASSUME StreamKnown, NEW o, Fine(o), NEW i \in Chat!Tools, NEW args \in {"partial", "complete"},
           NEW u, u = Chat!ToolDelta(o, i, args)
    PROVE  /\ Fine(u) /\ u.next = o.next /\ u.content = o.content /\ u.block = o.block
           /\ u.said = o.said /\ u.tools[i].args = args
           /\ \A j \in Chat!Tools : /\ u.tools[j].state = o.tools[j].state
                                    /\ u.tools[j].block = o.tools[j].block
                                    /\ u.tools[j].from = o.tools[j].from
                                    /\ j # i => u.tools[j].args = o.tools[j].args
           /\ Linked(o) /\ o.tools[i].state = "open" => Linked(u)
<1> DEFINE v == [o EXCEPT !.tools[i].args = args]
           b == o.tools[i].block
           e == EventOf("tool", "delta", b)
<1>0. args \in {"none", "buffered", "partial", "complete"} /\ o \in Chat!Outputs /\ o.started
    BY DEF Fine
<1>1. /\ v \in Chat!Outputs /\ v.new = o.new /\ v.next = o.next /\ v.content = o.content
      /\ v.block = o.block /\ v.said = o.said
      /\ v.started <=> o.started
      /\ v.tools[i].args = args
      /\ \A j \in Chat!Tools : /\ v.tools[j].state = o.tools[j].state
                               /\ v.tools[j].block = o.tools[j].block
                               /\ v.tools[j].from = o.tools[j].from
                               /\ j # i => v.tools[j].args = o.tools[j].args
    BY <1>0, ArgumentsAre
<1>2. u = Chat!Emit(v, "tool", "delta", b)
    BY DEF Chat!ToolDelta
<1>3. b \in Nat /\ b = o.tools[i].block
    BY <1>0, ToolIs
<1>4. /\ "tool" \in EventKinds /\ "delta" \in EventWhats /\ "delta" \in EventWhats \ {"start"}
    BY DEF EventKinds, EventWhats
<1> HIDE DEF v, b
<1>5. Fine(u) /\ Sent(u) = Append(Sent(o), e)
    BY <1>0, <1>1, <1>2, <1>3, <1>4, EmitFine
<1>6. v \in Chat!Outputs
    BY <1>1
<1>7. /\ e \in Chat!Event
      /\ u.next = v.next /\ u.content = v.content /\ u.block = v.block
      /\ u.said = v.said /\ u.tools = v.tools
    BY <1>2, <1>3, <1>4, <1>6, EmitIs, Z3
<1>8. e.what \in {"delta", "stop"} /\ e.what # "stop" /\ e.block = b /\ e.kind # "message" /\ e.kind = "tool"
    BY DEF EventOf
<1> HIDE DEF e
<1>9. /\ u.next = o.next /\ u.content = o.content /\ u.block = o.block
      /\ \A j \in Chat!Tools : /\ u.tools[j].state = o.tools[j].state
                               /\ u.tools[j].block = o.tools[j].block
    BY <1>1, <1>7
<1>10. ASSUME Linked(o), o.tools[i].state = "open" PROVE Linked(u)
    <2> DEFINE s == Sent(o)
               n == o.next
               O == Chat!OpenBlocks(o)
               T == Chat!ToolBlocks(o)
    <2>1. Shows(s, n, O, T) /\ s \in Events /\ n \in Nat
        BY <1>0, <1>10, SentIs, LinkedBlocks DEF Linked
    <2>2. b \in O /\ b \in T
        BY <1>3, <1>10 DEF Chat!OpenBlocks, Chat!ToolBlocks, Chat!Known
    <2> HIDE DEF s, n, O, T
    <2>3. Shows(Append(s, e), n, O, T)
        BY <1>7, <1>8, <2>1, <2>2, AddingShows
    <2> QED
        BY <1>5, <1>9, <1>10, <2>3, SameBlocks DEF s, n, O, T
<1> QED
    BY <1>1, <1>5, <1>7, <1>9, <1>10

\* The tool calls of u are those of o: the same, of the same kind.
SameCalls(o, u) ==
    \A j \in Chat!Tools : /\ u.tools[j].state = "absent" <=> o.tools[j].state = "absent"
                          /\ u.tools[j].from = o.tools[j].from
                          /\ u.tools[j].args = o.tools[j].args

\* A tool call's block is closed if it is open.
LEMMA StopToolIs ==
    ASSUME StreamKnown, NEW o, Fine(o), NEW i \in Chat!Tools, NEW u, u = Chat!StopTool(o, i)
    PROVE  /\ Fine(u) /\ u.next = o.next /\ u.content = o.content /\ u.said = o.said
           /\ SameCalls(o, u) /\ u.tools[i].state # "open"
           /\ \A j \in Chat!Tools : j # i => u.tools[j] = o.tools[j]
           /\ o.tools[i].state = "open" => u.tools[i].state = "closed"
           /\ Linked(o) => Linked(u)
<1>0. o \in Chat!Outputs /\ o.started
    BY DEF Fine
<1>1. CASE o.tools[i].state # "open"
    BY <1>1 DEF Chat!StopTool, SameCalls
<1>2. CASE o.tools[i].state = "open"
    <2> DEFINE v == [o EXCEPT !.tools[i].state = "closed"]
               t == [o.tools[i] EXCEPT !.state = "closed"]
               ts == [o.tools EXCEPT ![i] = t]
               b == o.tools[i].block
               e == EventOf("tool", "stop", b)
    <2>1. o.tools[i] \in Chat!ToolStates /\ b \in Nat /\ b = o.tools[i].block
        BY <1>0, ToolIs
    <2>2. /\ t \in Chat!ToolStates /\ t.state = "closed" /\ t.block = b
          /\ t.args = o.tools[i].args /\ t.from = o.tools[i].from
        BY <2>1 DEF Chat!ToolStates
    <2>3. v = [o EXCEPT !.tools = ts]
        BY <1>0 DEF Chat!Outputs
    <2> HIDE DEF t, b
    <2>4. /\ ts \in [Chat!Tools -> Chat!ToolStates] /\ ts[i] = t
          /\ \A j \in Chat!Tools : j # i => ts[j] = o.tools[j]
        BY <1>0, <2>2 DEF Chat!Outputs
    <2>5. u = Chat!Emit(v, "tool", "stop", b)
        BY <1>2 DEF Chat!StopTool, b
    <2> HIDE DEF ts
    <2>6. /\ v \in Chat!Outputs /\ v.new = o.new /\ v.next = o.next /\ v.content = o.content
          /\ v.block = o.block /\ v.said = o.said /\ v.tools = ts
          /\ v.started <=> o.started
        BY <1>0, <2>3, <2>4 DEF Chat!Outputs
    <2>7. /\ "tool" \in EventKinds /\ "stop" \in EventWhats /\ "stop" \in EventWhats \ {"start"}
        BY DEF EventKinds, EventWhats
    <2> HIDE DEF v
    <2>8. v \in Chat!Outputs /\ b \in Nat
        BY <2>1, <2>6
    <2>9. Fine(u) /\ Sent(u) = Append(Sent(o), e)
        BY <1>0, <2>5, <2>6, <2>7, <2>8, EmitFine
    <2>10. /\ e \in Chat!Event
           /\ u.next = v.next /\ u.content = v.content /\ u.block = v.block
           /\ u.said = v.said /\ u.tools = v.tools
        BY <2>5, <2>7, <2>8, EmitIs, Z3
    <2>11. e.what \in {"delta", "stop"} /\ e.what = "stop" /\ e.block = b /\ e.kind # "message" /\ e.kind = "tool"
        BY DEF EventOf
    <2> HIDE DEF e
    <2>12. /\ u.next = o.next /\ u.content = o.content /\ u.block = o.block /\ u.said = o.said
           /\ u.tools[i] = t
           /\ \A j \in Chat!Tools : j # i => u.tools[j] = o.tools[j]
        BY <2>4, <2>6, <2>10
    <2>13. SameCalls(o, u)
        BY <1>2, <2>2, <2>12 DEF SameCalls
    <2>14. ASSUME Linked(o) PROVE Linked(u)
        <3> DEFINE s == Sent(o)
                   n == o.next
                   O == Chat!OpenBlocks(o)
                   T == Chat!ToolBlocks(o)
        <3>1. Shows(s, n, O, T) /\ s \in Events /\ n \in Nat
            BY <1>0, <2>14, SentIs, LinkedBlocks DEF Linked
        <3>2. b \in O /\ b \in T
            BY <1>2, <2>1 DEF Chat!OpenBlocks, Chat!ToolBlocks, Chat!Known
        <3>3. \A j \in Chat!Tools : u.tools[j].block = o.tools[j].block
            BY <2>1, <2>2, <2>12
        <3>4. Chat!Known(u) = Chat!Known(o)
            BY <2>13 DEF Chat!Known, SameCalls
        <3>5. \A j \in Chat!Known(o) : j \in Chat!Tools
            BY DEF Chat!Known
        <3>6. Chat!ToolBlocks(u) = T
            BY <3>3, <3>4, <3>5 DEF Chat!ToolBlocks
        <3>7. \A j \in Chat!Tools : o.tools[j].state = "open" /\ j # i => o.tools[j].block # b
            BY <1>2, <2>1, <2>14 DEF Linked, Chat!Known
        <3>8. o.content # "none" => o.block # b
            BY <2>14, <3>2 DEF Linked
        <3>9. Chat!OpenBlocks(u) = O \ {b}
            BY <1>2, <2>1, <2>2, <2>12, <3>7, <3>8 DEF Chat!OpenBlocks
        <3> HIDE DEF s, n, O, T
        <3>10. Shows(Append(s, e), n, O \ {b}, T)
            BY <2>10, <2>11, <3>1, <3>2, AddingShows
        <3>11. Shows(Sent(u), u.next, Chat!OpenBlocks(u), Chat!ToolBlocks(u))
            BY <2>9, <2>12, <3>6, <3>9, <3>10 DEF s, n
        <3> QED
            BY <2>12, <2>14, <3>3, <3>4, <3>5, <3>6, <3>11 DEF Linked, T
    <2> QED
        BY <2>2, <2>9, <2>12, <2>13, <2>14
<1> QED
    BY <1>1, <1>2

(***************************************************************************)
(* The stream of an answer: what is done to all of its tool calls          *)
(***************************************************************************)

LEMMA ChatMaxIsTop == \A S : Chat!Max(S) = Top(S)
BY DEF Chat!Max, Top

Fines == {o \in Chat!Outputs : Fine(o)}

\* CloseAll, as it goes through the tool calls.
LEMMA CloseAllSteps ==
    ASSUME StreamKnown, NEW o, Fine(o)
    PROVE  \E f : /\ Chat!CloseAll(o) = f[1 .. MaxTools]
                  /\ f[1 .. 0] = Chat!CloseContent(o)
                  /\ \A k \in 1 .. MaxTools : f[1 .. k] = Chat!StopTool(f[1 .. k - 1], k - 1)
<1> DEFINE n == MaxTools
           X == Fines
           b == Chat!CloseContent(o)
           g == [p \in X \X (1 .. n) |-> Chat!StopTool(p[1], Chat!ToolOrder[p[2]])]
           It == CHOOSE f : f = [q \in SUBSET (1 .. n) |->
                     IF q = {} THEN b
                     ELSE Chat!StopTool(f[q \ {Top(q)}], Chat!ToolOrder[Top(q)])]
<1>0. n \in Nat /\ \A k \in 1 .. n : Chat!ToolOrder[k] = k - 1 /\ Chat!ToolOrder[k] \in Chat!Tools
    BY ChatConstants DEF Chat!ToolOrder, Chat!Tools
<1>1. b \in X
    BY CloseContentIs DEF Fines, Fine
<1>2. g \in [X \X (1 .. n) -> X]
    <2>1. ASSUME NEW x \in X, NEW k \in 1 .. n
          PROVE  Chat!StopTool(x, Chat!ToolOrder[k]) \in X
        <3>1. Fine(x) /\ Chat!ToolOrder[k] \in Chat!Tools
            BY <1>0 DEF Fines
        <3>2. Fine(Chat!StopTool(x, Chat!ToolOrder[k]))
            BY <3>1, StopToolIs
        <3> QED
            BY <3>2 DEF Fines, Fine
    <2> QED
        BY <2>1
<1> HIDE DEF b
<1>3. PICK f : IsFold(f, n, X, b, g)
    <2> HIDE DEF g, X, n
    <2> QED
        BY <1>0, <1>1, <1>2, FoldExists
<1>4. ASSUME NEW q \in SUBSET (1 .. n)
      PROVE  f[q] = IF q = {} THEN b
                    ELSE Chat!StopTool(f[q \ {Top(q)}], Chat!ToolOrder[Top(q)])
    <2>1. CASE q = {}
        BY <1>3, <2>1 DEF IsFold
    <2>2. CASE q # {}
        <3>1. Top(q) \in 1 .. n /\ q \ {Top(q)} \in SUBSET (1 .. n)
            BY <1>0, <2>2, Beginnings
        <3>2. <<f[q \ {Top(q)}], Top(q)>> \in X \X (1 .. n)
            BY <1>3, <3>1 DEF IsFold
        <3>3. f[q] = g[<<f[q \ {Top(q)}], Top(q)>>]
            BY <1>3, <2>2 DEF IsFold
        <3> QED
            BY <2>2, <3>2, <3>3
    <2> QED
        BY <2>1, <2>2
<1>5. f = [q \in SUBSET (1 .. n) |->
             IF q = {} THEN b
             ELSE Chat!StopTool(f[q \ {Top(q)}], Chat!ToolOrder[Top(q)])]
    <2>1. f = [q \in SUBSET (1 .. n) |-> f[q]]
        BY <1>3 DEF IsFold
    <2> QED
        BY <1>4, <2>1
<1>6. It = [q \in SUBSET (1 .. n) |->
             IF q = {} THEN b
             ELSE Chat!StopTool(It[q \ {Top(q)}], Chat!ToolOrder[Top(q)])]
    BY <1>5
<1>7. Chat!CloseAll(o) = It[1 .. n]
    <2>1. DOMAIN Chat!ToolOrder = 1 .. n
        BY DEF Chat!ToolOrder
    <2> QED
        BY <2>1, ChatMaxIsTop DEF Chat!CloseAll, Chat!FoldLeft, Chat!MapThenFoldSet, b
<1>8. It[1 .. 0] = b
    <2>1. 1 .. 0 = {} /\ {} \in SUBSET (1 .. n)
        BY <1>0, Beginnings
    <2> HIDE DEF It
    <2> QED
        BY <1>6, <2>1
<1>9. ASSUME NEW k \in 1 .. n
      PROVE  It[1 .. k] = Chat!StopTool(It[1 .. k - 1], k - 1)
    <2>1. /\ 1 .. k \in SUBSET (1 .. n) /\ 1 .. k # {}
          /\ Top(1 .. k) = k /\ (1 .. k) \ {k} = 1 .. k - 1
        BY <1>0, Beginnings
    <2> HIDE DEF It
    <2>2. It[1 .. k] = Chat!StopTool(It[(1 .. k) \ {Top(1 .. k)}], Chat!ToolOrder[Top(1 .. k)])
        BY <1>6, <2>1
    <2> QED
        BY <1>0, <2>1, <2>2
<1> HIDE DEF It
<1> QED
    BY <1>7, <1>8, <1>9 DEF b

\* Released and Repaired, too.
Release(s, i) == IF s.tools[i].args = "buffered" THEN Chat!ToolDelta(s, i, "partial") ELSE s
Repair(s, i, calls) == IF i \in calls THEN Chat!ToolDelta(s, i, "complete") ELSE s

LEMMA ReleaseIsFine ==
    ASSUME StreamKnown, NEW o, Fine(o), NEW i \in Chat!Tools
    PROVE  Fine(Release(o, i))
BY ToolDeltaIs DEF Release

LEMMA RepairIsFine ==
    ASSUME StreamKnown, NEW o, Fine(o), NEW i \in Chat!Tools, NEW calls
    PROVE  Fine(Repair(o, i, calls))
BY ToolDeltaIs DEF Repair

LEMMA ReleasedSteps ==
    ASSUME StreamKnown, NEW o, Fine(o)
    PROVE  \E f : /\ Chat!Released(o) = f[1 .. MaxTools]
                  /\ f[1 .. 0] = o
                  /\ \A k \in 1 .. MaxTools : f[1 .. k] = Release(f[1 .. k - 1], k - 1)
<1> DEFINE n == MaxTools
           X == Fines
           b == o
           g == [p \in X \X (1 .. n) |-> Release(p[1], Chat!ToolOrder[p[2]])]
           It == CHOOSE f : f = [q \in SUBSET (1 .. n) |->
                     IF q = {} THEN b
                     ELSE Release(f[q \ {Top(q)}], Chat!ToolOrder[Top(q)])]
<1>0. n \in Nat /\ \A k \in 1 .. n : Chat!ToolOrder[k] = k - 1 /\ Chat!ToolOrder[k] \in Chat!Tools
    BY ChatConstants DEF Chat!ToolOrder, Chat!Tools
<1>1. b \in X
    BY DEF Fines, Fine
<1>2. g \in [X \X (1 .. n) -> X]
    <2>1. ASSUME NEW x \in X, NEW k \in 1 .. n
          PROVE  Release(x, Chat!ToolOrder[k]) \in X
        <3>1. Fine(x) /\ Chat!ToolOrder[k] \in Chat!Tools
            BY <1>0 DEF Fines
        <3>2. Fine(Release(x, Chat!ToolOrder[k]))
            BY <3>1, ReleaseIsFine
        <3> QED
            BY <3>2 DEF Fines, Fine
    <2> QED
        BY <2>1
<1> HIDE DEF b
<1>3. PICK f : IsFold(f, n, X, b, g)
    <2> HIDE DEF g, X, n
    <2> QED
        BY <1>0, <1>1, <1>2, FoldExists
<1>4. ASSUME NEW q \in SUBSET (1 .. n)
      PROVE  f[q] = IF q = {} THEN b
                    ELSE Release(f[q \ {Top(q)}], Chat!ToolOrder[Top(q)])
    <2>1. CASE q = {}
        BY <1>3, <2>1 DEF IsFold
    <2>2. CASE q # {}
        <3>1. Top(q) \in 1 .. n /\ q \ {Top(q)} \in SUBSET (1 .. n)
            BY <1>0, <2>2, Beginnings
        <3>2. <<f[q \ {Top(q)}], Top(q)>> \in X \X (1 .. n)
            BY <1>3, <3>1 DEF IsFold
        <3>3. f[q] = g[<<f[q \ {Top(q)}], Top(q)>>]
            BY <1>3, <2>2 DEF IsFold
        <3> QED
            BY <2>2, <3>2, <3>3
    <2> QED
        BY <2>1, <2>2
<1>5. f = [q \in SUBSET (1 .. n) |->
             IF q = {} THEN b
             ELSE Release(f[q \ {Top(q)}], Chat!ToolOrder[Top(q)])]
    <2>1. f = [q \in SUBSET (1 .. n) |-> f[q]]
        BY <1>3 DEF IsFold
    <2> QED
        BY <1>4, <2>1
<1>6. It = [q \in SUBSET (1 .. n) |->
             IF q = {} THEN b
             ELSE Release(It[q \ {Top(q)}], Chat!ToolOrder[Top(q)])]
    BY <1>5
<1>7. Chat!Released(o) = It[1 .. n]
    <2>1. DOMAIN Chat!ToolOrder = 1 .. n
        BY DEF Chat!ToolOrder
    <2> QED
        BY <2>1, ChatMaxIsTop DEF Chat!Released, Chat!FoldLeft, Chat!MapThenFoldSet, b, Release
<1>8. It[1 .. 0] = b
    <2>1. 1 .. 0 = {} /\ {} \in SUBSET (1 .. n)
        BY <1>0, Beginnings
    <2> HIDE DEF It
    <2> QED
        BY <1>6, <2>1
<1>9. ASSUME NEW k \in 1 .. n
      PROVE  It[1 .. k] = Release(It[1 .. k - 1], k - 1)
    <2>1. /\ 1 .. k \in SUBSET (1 .. n) /\ 1 .. k # {}
          /\ Top(1 .. k) = k /\ (1 .. k) \ {k} = 1 .. k - 1
        BY <1>0, Beginnings
    <2> HIDE DEF It
    <2>2. It[1 .. k] = Release(It[(1 .. k) \ {Top(1 .. k)}], Chat!ToolOrder[Top(1 .. k)])
        BY <1>6, <2>1
    <2> QED
        BY <1>0, <2>1, <2>2
<1> HIDE DEF It
<1> QED
    BY <1>7, <1>8, <1>9 DEF b

LEMMA RepairedSteps ==
    ASSUME StreamKnown, NEW o, Fine(o), NEW calls
    PROVE  \E f : /\ Chat!Repaired(o, calls) = f[1 .. MaxTools]
                  /\ f[1 .. 0] = o
                  /\ \A k \in 1 .. MaxTools : f[1 .. k] = Repair(f[1 .. k - 1], k - 1, calls)
<1> DEFINE n == MaxTools
           X == Fines
           b == o
           g == [p \in X \X (1 .. n) |-> Repair(p[1], Chat!ToolOrder[p[2]], calls)]
           It == CHOOSE f : f = [q \in SUBSET (1 .. n) |->
                     IF q = {} THEN b
                     ELSE Repair(f[q \ {Top(q)}], Chat!ToolOrder[Top(q)], calls)]
<1>0. n \in Nat /\ \A k \in 1 .. n : Chat!ToolOrder[k] = k - 1 /\ Chat!ToolOrder[k] \in Chat!Tools
    BY ChatConstants DEF Chat!ToolOrder, Chat!Tools
<1>1. b \in X
    BY DEF Fines, Fine
<1>2. g \in [X \X (1 .. n) -> X]
    <2>1. ASSUME NEW x \in X, NEW k \in 1 .. n
          PROVE  Repair(x, Chat!ToolOrder[k], calls) \in X
        <3>1. Fine(x) /\ Chat!ToolOrder[k] \in Chat!Tools
            BY <1>0 DEF Fines
        <3>2. Fine(Repair(x, Chat!ToolOrder[k], calls))
            BY <3>1, RepairIsFine
        <3> QED
            BY <3>2 DEF Fines, Fine
    <2> QED
        BY <2>1
<1> HIDE DEF b
<1>3. PICK f : IsFold(f, n, X, b, g)
    <2> HIDE DEF g, X, n
    <2> QED
        BY <1>0, <1>1, <1>2, FoldExists
<1>4. ASSUME NEW q \in SUBSET (1 .. n)
      PROVE  f[q] = IF q = {} THEN b
                    ELSE Repair(f[q \ {Top(q)}], Chat!ToolOrder[Top(q)], calls)
    <2>1. CASE q = {}
        BY <1>3, <2>1 DEF IsFold
    <2>2. CASE q # {}
        <3>1. Top(q) \in 1 .. n /\ q \ {Top(q)} \in SUBSET (1 .. n)
            BY <1>0, <2>2, Beginnings
        <3>2. <<f[q \ {Top(q)}], Top(q)>> \in X \X (1 .. n)
            BY <1>3, <3>1 DEF IsFold
        <3>3. f[q] = g[<<f[q \ {Top(q)}], Top(q)>>]
            BY <1>3, <2>2 DEF IsFold
        <3> QED
            BY <2>2, <3>2, <3>3
    <2> QED
        BY <2>1, <2>2
<1>5. f = [q \in SUBSET (1 .. n) |->
             IF q = {} THEN b
             ELSE Repair(f[q \ {Top(q)}], Chat!ToolOrder[Top(q)], calls)]
    <2>1. f = [q \in SUBSET (1 .. n) |-> f[q]]
        BY <1>3 DEF IsFold
    <2> QED
        BY <1>4, <2>1
<1>6. It = [q \in SUBSET (1 .. n) |->
             IF q = {} THEN b
             ELSE Repair(It[q \ {Top(q)}], Chat!ToolOrder[Top(q)], calls)]
    BY <1>5
<1>7. Chat!Repaired(o, calls) = It[1 .. n]
    <2>1. DOMAIN Chat!ToolOrder = 1 .. n
        BY DEF Chat!ToolOrder
    <2> QED
        BY <2>1, ChatMaxIsTop DEF Chat!Repaired, Chat!FoldLeft, Chat!MapThenFoldSet, b, Repair
<1>8. It[1 .. 0] = b
    <2>1. 1 .. 0 = {} /\ {} \in SUBSET (1 .. n)
        BY <1>0, Beginnings
    <2> HIDE DEF It
    <2> QED
        BY <1>6, <2>1
<1>9. ASSUME NEW k \in 1 .. n
      PROVE  It[1 .. k] = Repair(It[1 .. k - 1], k - 1, calls)
    <2>1. /\ 1 .. k \in SUBSET (1 .. n) /\ 1 .. k # {}
          /\ Top(1 .. k) = k /\ (1 .. k) \ {k} = 1 .. k - 1
        BY <1>0, Beginnings
    <2> HIDE DEF It
    <2>2. It[1 .. k] = Repair(It[(1 .. k) \ {Top(1 .. k)}], Chat!ToolOrder[Top(1 .. k)], calls)
        BY <1>6, <2>1
    <2> QED
        BY <1>0, <2>1, <2>2
<1> HIDE DEF It
<1> QED
    BY <1>7, <1>8, <1>9 DEF b

\* Tool calls that make the contract void: see Mixed.
MixedTools(o) ==
    \/ {"native", "text"} \subseteq {o.tools[i].from : i \in Chat!Tools}
    \/ \E i \in Chat!Tools : o.tools[i].from = "text" /\ o.tools[i].args # "complete"

LEMMA MixedIs == /\ Chat!Mixed <=> MixedTools(chatOut)
                 /\ Chat!Mixed' <=> MixedTools(chatOut')
BY DEF Chat!Mixed, MixedTools

LEMMA SameMixed ==
    ASSUME NEW o, NEW u, SameCalls(o, u)
    PROVE  MixedTools(o) <=> MixedTools(u)
<1>1. {o.tools[i].from : i \in Chat!Tools} = {u.tools[i].from : i \in Chat!Tools}
    BY DEF SameCalls
<1> QED
    BY <1>1 DEF MixedTools, SameCalls

\* Every block is closed.
LEMMA CloseAllIs ==
    ASSUME StreamKnown, NEW o, Fine(o), NEW u, u = Chat!CloseAll(o)
    PROVE  /\ Fine(u) /\ SameCalls(o, u) /\ Chat!OpenBlocks(u) = {}
           /\ Linked(o) => Linked(u)
<1> DEFINE c == Chat!CloseContent(o)
<1>1. PICK f : /\ Chat!CloseAll(o) = f[1 .. MaxTools] /\ f[1 .. 0] = c
               /\ \A k \in 1 .. MaxTools : f[1 .. k] = Chat!StopTool(f[1 .. k - 1], k - 1)
    BY CloseAllSteps
<1>2. /\ Fine(c) /\ c.content = "none" /\ c.tools = o.tools
      /\ Linked(o) => Linked(c)
    <2>1. /\ Fine(c) /\ c.content = "none" /\ c.next = o.next /\ c.tools = o.tools
          /\ c.said = o.said
          /\ Linked(o) => Linked(c)
        BY CloseContentIs, Z3
    <2> QED
        BY <2>1
<1> HIDE DEF c
<1> DEFINE Holds(k) == /\ Fine(f[1 .. k]) /\ f[1 .. k].content = "none" /\ SameCalls(o, f[1 .. k])
                       /\ \A j \in Chat!Tools : j < k => f[1 .. k].tools[j].state # "open"
                       /\ Linked(o) => Linked(f[1 .. k])
           P == {k \in Nat : k <= MaxTools => Holds(k)}
<1>3. Holds(0)
    <2>1. SameCalls(o, c)
        BY <1>2 DEF SameCalls
    <2>2. \A j \in Chat!Tools : ~(j < 0)
        BY ChatConstants DEF Chat!Tools
    <2> QED
        BY <1>1, <1>2, <2>1, <2>2
<1>4. ASSUME NEW k \in Nat, k + 1 <= MaxTools, Holds(k) PROVE Holds(k + 1)
    <2> DEFINE s == f[1 .. k]
               t == f[1 .. k + 1]
    <2>1. k + 1 \in 1 .. MaxTools /\ (k + 1) - 1 = k /\ k \in Chat!Tools
        BY <1>4, ChatConstants DEF Chat!Tools
    <2>2. t = Chat!StopTool(s, k)
        BY <1>1, <2>1
    <2>3. /\ Fine(s) /\ s.content = "none" /\ SameCalls(o, s)
          /\ \A j \in Chat!Tools : j < k => s.tools[j].state # "open"
          /\ Linked(o) => Linked(s)
        BY <1>4
    <2> HIDE DEF s, t
    <2>4. /\ Fine(t) /\ t.content = s.content
          /\ SameCalls(s, t) /\ t.tools[k].state # "open"
          /\ \A j \in Chat!Tools : j # k => t.tools[j] = s.tools[j]
          /\ Linked(s) => Linked(t)
        BY <2>1, <2>2, <2>3, StopToolIs
    <2>5. SameCalls(o, t)
        BY <2>3, <2>4 DEF SameCalls
    <2>6. ASSUME NEW j \in Chat!Tools, j < k + 1 PROVE t.tools[j].state # "open"
        <3>1. j = k \/ (j # k /\ j < k)
            BY <2>6 DEF Chat!Tools
        <3> QED
            BY <2>3, <2>4, <3>1
    <2> QED
        BY <2>3, <2>4, <2>5, <2>6 DEF t
<1> HIDE DEF Holds
<1>5. P \in SUBSET Nat /\ 0 \in P /\ \A k \in P : k + 1 \in P
    BY <1>3, <1>4, ChatConstants
<1> HIDE DEF P
<1>6. MaxTools \in P
    BY <1>5, Induction, ChatConstants
<1>7. Holds(MaxTools)
    BY <1>6, ChatConstants DEF P
<1>8. /\ Fine(u) /\ u.content = "none" /\ SameCalls(o, u)
      /\ \A j \in Chat!Tools : j < MaxTools => u.tools[j].state # "open"
      /\ Linked(o) => Linked(u)
    BY <1>1, <1>7 DEF Holds
<1>9. \A j \in Chat!Tools : j < MaxTools
    BY ChatConstants DEF Chat!Tools
<1> QED
    BY <1>8, <1>9 DEF Chat!OpenBlocks

\* Arguments are added to tool calls: u has the calls of o and their blocks.
Touched(o, u) ==
    /\ Fine(u) /\ u.next = o.next /\ u.content = o.content /\ u.block = o.block
    /\ \A j \in Chat!Tools : /\ u.tools[j].state = o.tools[j].state
                             /\ u.tools[j].block = o.tools[j].block
    /\ MixedTools(o) => MixedTools(u)

\* Of u and o only the arguments of tool call i differ.
OnlyArguments(o, u, i) ==
    /\ u.next = o.next /\ u.content = o.content /\ u.block = o.block
    /\ \A j \in Chat!Tools : /\ u.tools[j].state = o.tools[j].state
                             /\ u.tools[j].block = o.tools[j].block
                             /\ u.tools[j].from = o.tools[j].from
                             /\ j # i => u.tools[j].args = o.tools[j].args

LEMMA DeltaIs ==
    ASSUME StreamKnown, NEW o, Fine(o), NEW i \in Chat!Tools, NEW args \in {"partial", "complete"},
           NEW u, u = Chat!ToolDelta(o, i, args)
    PROVE  /\ Fine(u) /\ OnlyArguments(o, u, i) /\ u.tools[i].args = args
           /\ Linked(o) /\ o.tools[i].state = "open" => Linked(u)
<1>1. /\ Fine(u) /\ u.next = o.next /\ u.content = o.content /\ u.block = o.block
      /\ u.tools[i].args = args
      /\ \A j \in Chat!Tools : /\ u.tools[j].state = o.tools[j].state
                               /\ u.tools[j].block = o.tools[j].block
                               /\ u.tools[j].from = o.tools[j].from
                               /\ j # i => u.tools[j].args = o.tools[j].args
    <2>1. CASE args = "partial"
        <3>1. u = Chat!ToolDelta(o, i, "partial")
            BY <2>1
        <3> QED
            BY <2>1, <3>1, ToolDeltaIs
    <2>2. CASE args = "complete"
        <3>1. u = Chat!ToolDelta(o, i, "complete")
            BY <2>2
        <3> QED
            BY <2>2, <3>1, ToolDeltaIs
    <2> QED
        BY <2>1, <2>2
<1>2. Linked(o) /\ o.tools[i].state = "open" => Linked(u)
    BY ToolDeltaIs
<1> QED
    BY <1>1, <1>2 DEF OnlyArguments

LEMMA DeltaTouches ==
    ASSUME StreamKnown, NEW o, Fine(o), NEW i \in Chat!Tools, NEW args \in {"partial", "complete"},
           args = "partial" \/ o.tools[i].from # "text", NEW u, u = Chat!ToolDelta(o, i, args)
    PROVE  /\ Touched(o, u)
           /\ \A j \in Chat!Tools : /\ u.tools[j].from = o.tools[j].from
                                    /\ j # i => u.tools[j].args = o.tools[j].args
<1>1. Fine(u) /\ OnlyArguments(o, u, i) /\ u.tools[i].args = args
    BY DeltaIs
<1>2. {o.tools[j].from : j \in Chat!Tools} = {u.tools[j].from : j \in Chat!Tools}
    BY <1>1 DEF OnlyArguments
<1>3. ASSUME NEW j \in Chat!Tools, o.tools[j].from = "text", o.tools[j].args # "complete"
      PROVE  u.tools[j].from = "text" /\ u.tools[j].args # "complete"
    BY <1>1, <1>3 DEF OnlyArguments
<1>4. MixedTools(o) => MixedTools(u)
    BY <1>2, <1>3 DEF MixedTools
<1> QED
    BY <1>1, <1>4 DEF Touched, OnlyArguments

LEMMA TouchedTwice ==
    ASSUME NEW o, NEW s, NEW u, Touched(o, s), Touched(s, u)
    PROVE  Touched(o, u)
BY DEF Touched
\* Buffered arguments go out.
LEMMA ReleasedIs ==
    ASSUME StreamKnown, NEW o, Fine(o), NEW u, u = Chat!Released(o)
    PROVE  /\ Touched(o, u)
           /\ Linked(o) /\ (\A i \in Chat!Tools : o.tools[i].args = "buffered" => o.tools[i].state = "open")
              => Linked(u)
<1> DEFINE Opened == \A i \in Chat!Tools : o.tools[i].args = "buffered" => o.tools[i].state = "open"
<1>1. PICK f : /\ Chat!Released(o) = f[1 .. MaxTools] /\ f[1 .. 0] = o
               /\ \A k \in 1 .. MaxTools : f[1 .. k] = Release(f[1 .. k - 1], k - 1)
    BY ReleasedSteps
<1> DEFINE Holds(k) == /\ Touched(o, f[1 .. k])
                       /\ \A j \in Chat!Tools : j >= k => f[1 .. k].tools[j].args = o.tools[j].args
                       /\ Linked(o) /\ Opened => Linked(f[1 .. k])
           P == {k \in Nat : k <= MaxTools => Holds(k)}
<1>2. Holds(0)
    BY <1>1 DEF Touched
<1>3. ASSUME NEW k \in Nat, k + 1 <= MaxTools, Holds(k) PROVE Holds(k + 1)
    <2> DEFINE s == f[1 .. k]
               t == f[1 .. k + 1]
    <2>1. k + 1 \in 1 .. MaxTools /\ (k + 1) - 1 = k /\ k \in Chat!Tools
        BY <1>3, ChatConstants DEF Chat!Tools
    <2>2. t = Release(s, k)
        BY <1>1, <2>1
    <2>3. /\ Touched(o, s) /\ Fine(s) /\ s.tools[k].args = o.tools[k].args
          /\ s.tools[k].state = o.tools[k].state
          /\ \A j \in Chat!Tools : j >= k + 1 => s.tools[j].args = o.tools[j].args
          /\ Linked(o) /\ Opened => Linked(s)
        BY <1>3, <2>1 DEF Touched, Chat!Tools
    <2>4. CASE s.tools[k].args # "buffered"
        BY <2>2, <2>3, <2>4 DEF Release, t
    <2>5. CASE s.tools[k].args = "buffered"
        <3>1. t = Chat!ToolDelta(s, k, "partial")
            BY <2>2, <2>5 DEF Release
        <3> HIDE DEF s, t
        <3>a. Fine(s) /\ k \in Chat!Tools
            BY <2>1, <2>3
        <3>b. Touched(s, t) /\ \A j \in Chat!Tools : j # k => t.tools[j].args = s.tools[j].args
            BY <3>1, <3>a, DeltaTouches
        <3>c. Linked(s) /\ s.tools[k].state = "open" => Linked(t)
            BY <3>1, <3>a, ToolDeltaIs
        <3>4. Opened => s.tools[k].state = "open"
            BY <2>1, <2>3, <2>5
        <3>5. \A j \in Chat!Tools : j >= k + 1 => j # k
            BY <2>1 DEF Chat!Tools
        <3> QED
            BY <2>3, <3>4, <3>5, <3>b, <3>c, TouchedTwice DEF t
    <2> QED
        BY <2>4, <2>5
<1> HIDE DEF Holds
<1>4. P \in SUBSET Nat /\ 0 \in P /\ \A k \in P : k + 1 \in P
    BY <1>2, <1>3, ChatConstants
<1> HIDE DEF P
<1>5. MaxTools \in P
    BY <1>4, Induction, ChatConstants
<1>6. Holds(MaxTools)
    BY <1>5, ChatConstants DEF P
<1> QED
    BY <1>1, <1>6 DEF Holds

\* Native tool calls get the rest of their arguments.
LEMMA RepairedIs ==
    ASSUME StreamKnown, NEW o, Fine(o), NEW calls, \A i \in calls : o.tools[i].from = "native",
           NEW u, u = Chat!Repaired(o, calls)
    PROVE  /\ Touched(o, u)
           /\ Linked(o) /\ (\A i \in calls : o.tools[i].state = "open") => Linked(u)
<1> DEFINE Opened == \A i \in calls : o.tools[i].state = "open"
<1>1. PICK f : /\ Chat!Repaired(o, calls) = f[1 .. MaxTools] /\ f[1 .. 0] = o
               /\ \A k \in 1 .. MaxTools : f[1 .. k] = Repair(f[1 .. k - 1], k - 1, calls)
    BY RepairedSteps
<1> DEFINE Holds(k) == /\ Touched(o, f[1 .. k])
                       /\ \A j \in Chat!Tools : f[1 .. k].tools[j].from = o.tools[j].from
                       /\ Linked(o) /\ Opened => Linked(f[1 .. k])
           P == {k \in Nat : k <= MaxTools => Holds(k)}
<1>2. Holds(0)
    BY <1>1 DEF Touched
<1>3. ASSUME NEW k \in Nat, k + 1 <= MaxTools, Holds(k) PROVE Holds(k + 1)
    <2> DEFINE s == f[1 .. k]
               t == f[1 .. k + 1]
    <2>1. k + 1 \in 1 .. MaxTools /\ (k + 1) - 1 = k /\ k \in Chat!Tools
        BY <1>3, ChatConstants DEF Chat!Tools
    <2>2. t = Repair(s, k, calls)
        BY <1>1, <2>1
    <2>3. /\ Touched(o, s) /\ Fine(s)
          /\ s.tools[k].state = o.tools[k].state
          /\ \A j \in Chat!Tools : s.tools[j].from = o.tools[j].from
          /\ Linked(o) /\ Opened => Linked(s)
        BY <1>3, <2>1 DEF Touched
    <2>4. CASE k \notin calls
        BY <2>2, <2>3, <2>4 DEF Repair, t
    <2>5. CASE k \in calls
        <3>1. t = Chat!ToolDelta(s, k, "complete")
            BY <2>2, <2>5 DEF Repair
        <3> HIDE DEF s, t
        <3>2. s.tools[k].from # "text"
            BY <2>1, <2>3, <2>5
        <3>3. Touched(s, t)
            BY <2>1, <2>3, <3>1, <3>2, DeltaTouches
        <3>a. Fine(s) /\ k \in Chat!Tools
            BY <2>1, <2>3
        <3>b. Touched(s, t) /\ \A j \in Chat!Tools : t.tools[j].from = s.tools[j].from
            BY <3>1, <3>2, <3>a, DeltaTouches
        <3>c. Linked(s) /\ s.tools[k].state = "open" => Linked(t)
            BY <3>1, <3>a, ToolDeltaIs
        <3>5. Opened => s.tools[k].state = "open"
            BY <2>3, <2>5
        <3> QED
            BY <2>3, <3>5, <3>b, <3>c, TouchedTwice DEF t
    <2> QED
        BY <2>4, <2>5
<1> HIDE DEF Holds
<1>4. P \in SUBSET Nat /\ 0 \in P /\ \A k \in P : k + 1 \in P
    BY <1>2, <1>3, ChatConstants
<1> HIDE DEF P
<1>5. MaxTools \in P
    BY <1>4, Induction, ChatConstants
<1>6. Holds(MaxTools)
    BY <1>5, ChatConstants DEF P
<1> QED
    BY <1>1, <1>6 DEF Holds

(***************************************************************************)
(* The stream of an answer: what the client has seen                       *)
(***************************************************************************)

\* Every event that there is has been shown.
LEMMA ShowIs ==
    ASSUME StreamKnown, NEW u, Fine(u), Chat!Show(u), chatEpoch' = chatEpoch, chatPc' # "create"
    PROVE  /\ chatOut' \in Chat!Outputs /\ chatOut'.new = << >> /\ chatOut'.tools = u.tools
           /\ chatSeen' = Sent(u) /\ chatSeen' \in Events /\ chatSeen' # << >>
           /\ chatHeld' = << >> /\ chatCommitted' = TRUE
           /\ Chat!OneEpochIsSeen'
<1>1. chatOut' = [u EXCEPT !.new = << >>] /\ u \in Chat!Outputs
    BY DEF Chat!Show, Fine
<1>2. chatOut' \in Chat!Outputs /\ chatOut'.new = << >> /\ chatOut'.tools = u.tools
    <2> DEFINE v == [u EXCEPT !.new = << >>]
    <2>1. << >> \in Seq(Chat!Event)
        OBVIOUS
    <2>2. v \in Chat!Outputs
        BY <1>1, <2>1 DEF Chat!Outputs
    <2>3. v.new = << >> /\ v.tools = u.tools
        BY <1>1 DEF Chat!Outputs
    <2> QED
        BY <1>1, <2>2, <2>3
<1>3. /\ chatSeen' = chatSeen \o chatHeld \o u.new
      /\ chatHeld' = << >> /\ chatCommitted' = TRUE
    BY DEF Chat!Show
<1>4. chatSeen' = Sent(u) /\ chatSeen' \in Events /\ chatSeen' # << >> /\ Chat!Begun(Sent(u))
    BY <1>1, <1>3, SentIs DEF Sent, Fine
<1>5. Chat!OneEpochIsSeen'
    BY <1>4 DEF Chat!OneEpochIsSeen, Chat!Begun
<1> QED
    BY <1>2, <1>3, <1>4, <1>5

\* The stream ends with an event.
LEMMA FinishedIsWhole ==
    ASSUME StreamKnown, NEW o, Fine(o), NEW what \in {"finish", "fail"},
           Chat!Show(Chat!Finish(o, what)), chatEpoch' = chatEpoch, chatPc' = "done",
           MixedTools(o) \/ Linked(o)
    PROVE  /\ chatOut' \in Chat!Outputs /\ chatOut'.new = << >>
           /\ chatSeen' \in Events /\ chatSeen' # << >> /\ chatHeld' = << >> /\ chatCommitted' = TRUE
           /\ Chat!StreamIsWhole'
<1> DEFINE c == Chat!CloseAll(o)
           u == Chat!Emit(c, "message", what, 0)
           e == EventOf("message", what, 0)
<1>1. Fine(c) /\ SameCalls(o, c) /\ Chat!OpenBlocks(c) = {} /\ (Linked(o) => Linked(c))
    BY CloseAllIs
<1>2. Chat!Show(u)
    BY DEF Chat!Finish
<1> HIDE DEF c
<1>3. /\ "message" \in EventKinds /\ what \in EventWhats \ {"start"} /\ what \in EventWhats /\ 0 \in Nat
      /\ c \in Chat!Outputs /\ c.started
    BY <1>1 DEF EventKinds, EventWhats, Fine
<1>4. Fine(u) /\ Sent(u) = Append(Sent(c), e)
    BY <1>1, <1>3, EmitFine
<1>5. e \in Chat!Event /\ u.tools = c.tools
    BY <1>3, EmitIs, Z3
<1>6. e.kind = "message" /\ e.what = what
    BY DEF EventOf
<1> HIDE DEF u, e
<1>7. /\ chatOut' \in Chat!Outputs /\ chatOut'.new = << >> /\ chatOut'.tools = u.tools
      /\ chatSeen' = Sent(u) /\ chatSeen' \in Events /\ chatSeen' # << >>
      /\ chatHeld' = << >> /\ chatCommitted' = TRUE
      /\ Chat!OneEpochIsSeen'
    BY <1>2, <1>4, ShowIs
<1>8. MixedTools(o) => Chat!Mixed'
    <2>1. SameCalls(o, chatOut')
        BY <1>1, <1>5, <1>7 DEF SameCalls
    <2> QED
        BY <2>1, SameMixed, MixedIs
<1>9. ASSUME Linked(o) PROVE Chat!WellFormed(chatSeen)'
    <2>1. Sent(c) \in Events /\ c.next \in Nat /\ Shows(Sent(c), c.next, {}, Chat!ToolBlocks(c))
        BY <1>1, <1>3, <1>9, SentIs DEF Linked, Chat!Outputs
    <2> QED
        BY <1>4, <1>5, <1>6, <1>7, <2>1, EndsWell
<1> QED
    BY <1>7, <1>8, <1>9 DEF Chat!StreamIsWhole, Chat!UnmixedStreamContract

\* An Anthropic stream that fails has its blocks closed.
LEMMA ClosedIsWhole ==
    ASSUME StreamKnown, NEW o, Fine(o),
           Chat!Show(Chat!CloseAll(o)), chatEpoch' = chatEpoch, chatPc' = "failed",
           MixedTools(o) \/ Linked(o)
    PROVE  /\ chatOut' \in Chat!Outputs /\ chatOut'.new = << >>
           /\ chatSeen' \in Events /\ chatSeen' # << >> /\ chatHeld' = << >> /\ chatCommitted' = TRUE
           /\ Chat!StreamIsWhole'
<1> DEFINE c == Chat!CloseAll(o)
<1>1. Fine(c) /\ SameCalls(o, c) /\ Chat!OpenBlocks(c) = {} /\ (Linked(o) => Linked(c))
    BY CloseAllIs
<1> HIDE DEF c
<1>2. /\ chatOut' \in Chat!Outputs /\ chatOut'.new = << >> /\ chatOut'.tools = c.tools
      /\ chatSeen' = Sent(c) /\ chatSeen' \in Events /\ chatSeen' # << >>
      /\ chatHeld' = << >> /\ chatCommitted' = TRUE
      /\ Chat!OneEpochIsSeen'
    BY <1>1, ShowIs DEF c
<1>3. MixedTools(o) => Chat!Mixed'
    <2>1. SameCalls(o, chatOut')
        BY <1>1, <1>2 DEF SameCalls
    <2> QED
        BY <2>1, SameMixed, MixedIs
<1>4. ASSUME Linked(o) PROVE Chat!WellFormed(chatSeen)'
    <2>1. c.next \in Nat /\ Shows(chatSeen', c.next, {}, Chat!ToolBlocks(c))
        BY <1>1, <1>2, <1>4 DEF Linked, Chat!Outputs, Fine
    <2> QED
        BY <1>2, <2>1, GoesOnWell
<1> QED
    BY <1>2, <1>3, <1>4 DEF Chat!StreamIsWhole, Chat!UnmixedStreamContract
(***************************************************************************)
(* The stream of an answer: its steps                                      *)
(***************************************************************************)

LEMMA ReadingIs ==
    ASSUME Chat!IInv, Chat!Reading
    PROVE  /\ StreamKnown /\ chatOut \in Chat!Outputs /\ chatOut.new = << >>
           /\ Sent(chatOut) = chatSeen \o chatHeld
           /\ chatOut.started <=> Sent(chatOut) # << >>
           /\ chatOut.started => Fine(chatOut)
           /\ chatOut.next > 0 \/ chatPc = "recover" => chatOut.started
           /\ Chat!ToolsInOrder(chatOut)
           /\ MixedTools(chatOut) \/ (Linked(chatOut) /\ Chat!ToolsAsRead(chatOut))
           /\ chatEpoch + chatLeft <= MaxAttempts
<1>1. StreamKnown /\ chatOut \in Chat!Outputs /\ chatOut.new = << >>
    BY DEF Chat!IInv, Chat!TypeOK, StreamKnown, Events
<1>2. Sent(chatOut) = chatSeen \o chatHeld
    <2>1. chatSeen \o chatHeld \in Events
        BY <1>1 DEF StreamKnown, Events
    <2> DEFINE s == chatSeen \o chatHeld
    <2>2. s \in Seq(Chat!Event)
        BY <2>1 DEF Events
    <2> HIDE DEF s
    <2>3. s \o << >> = s
        BY <2>2
    <2> QED
        BY <1>1, <2>3 DEF Sent, s
<1>3. /\ chatEpoch + chatLeft <= MaxAttempts
      /\ Chat!Begun(Sent(chatOut))
      /\ chatOut.started <=> Sent(chatOut) # << >>
      /\ chatOut.next > 0 \/ chatPc = "recover" => chatOut.started
      /\ Chat!ToolsInOrder(chatOut)
      /\ Chat!Mixed \/ (Chat!ShowsOutput(Sent(chatOut), chatOut) /\ Chat!ToolsAsRead(chatOut))
    BY <1>2 DEF Chat!IInv
<1>4. MixedTools(chatOut) \/ (Linked(chatOut) /\ Chat!ToolsAsRead(chatOut))
    BY <1>1, <1>3, LinkedIs, MixedIs
<1>5. chatOut.started => Fine(chatOut)
    BY <1>1, <1>3 DEF Fine
<1> QED
    BY <1>1, <1>2, <1>3, <1>4, <1>5

\* While nothing was shown, nothing is wrong with it.
LEMMA NothingSeenIsWhole ==
    ASSUME chatSeen' = << >>, chatPc' # "done"
    PROVE  Chat!StreamIsWhole'
<1>1. chatSeen' \in Events
    BY DEF Events
<1>2. Shows(chatSeen', 0, {}, {}) /\ 0 \in Nat
    BY NothingShows
<1>3. Chat!WellFormed(chatSeen)'
    BY <1>1, <1>2, GoesOnWell
<1>4. Chat!OneEpochIsSeen'
    BY DEF Chat!OneEpochIsSeen
<1> QED
    BY <1>3, <1>4 DEF Chat!StreamIsWhole, Chat!UnmixedStreamContract

\* A request that ends.
LEMMA EndedKeepsIInv ==
    ASSUME Chat!IInv, chatPc' \in {"done", "failed"},
           chatOut' \in Chat!Outputs, chatOut'.new = << >>, chatSeen' \in Events, chatHeld' = << >>,
           chatCommitted' \in BOOLEAN,
           chatCommitted' => chatSeen' # << >>, ~chatCommitted' => chatSeen' = << >>,
           chatLeft' \in 0 .. chatLeft, UNCHANGED <<chatApi, chatCorrected, chatEpoch, chatChunks>>,
           Chat!StreamIsWhole'
    PROVE  Chat!IInv'
<1>1. << >> \in Seq(Chat!Event)
    OBVIOUS
<1>2. chatLeft' \in 0 .. MaxAttempts
    BY ChatConstants DEF Chat!IInv, Chat!TypeOK
<1>3. Chat!TypeOK'
    BY <1>1, <1>2 DEF Chat!IInv, Chat!TypeOK, Events
<1>4. chatPc' # "create" /\ ~Chat!Reading'
    BY DEF Chat!Reading
<1> QED
    BY <1>3, <1>4 DEF Chat!IInv

\* The final error.
LEMMA FinalErrorKeepsIInv ==
    ASSUME Chat!IInv, Chat!Reading, NEW o \in Chat!Outputs, o.new = << >>,
           Sent(chatOut) # << >> => Fine(o), MixedTools(o) \/ Linked(o),
           NEW salvage \in BOOLEAN, Chat!FinalError(o, salvage),
           chatLeft' \in 0 .. chatLeft, UNCHANGED <<chatApi, chatCorrected, chatEpoch, chatChunks>>
    PROVE  Chat!IInv'
<1>1. /\ StreamKnown /\ chatCommitted \in BOOLEAN
      /\ IF chatCommitted THEN chatHeld = << >> /\ chatSeen # << >> ELSE chatSeen = << >>
      /\ Sent(chatOut) = chatSeen \o chatHeld
    BY ReadingIs DEF Chat!IInv, Chat!TypeOK
<1>2. CASE ~chatCommitted /\ ~(chatHeld # << >> /\ salvage)
    <2>1. /\ chatPc' = "failed" /\ chatOut' = [o EXCEPT !.new = << >>] /\ chatHeld' = << >>
          /\ chatCommitted' = chatCommitted /\ chatSeen' = chatSeen
        BY <1>2 DEF Chat!FinalError
    <2>2. chatOut' = o
        BY <2>1 DEF Chat!Outputs
    <2>3. chatSeen' = << >> /\ chatSeen' \in Events /\ ~chatCommitted'
        BY <1>1, <1>2, <2>1 DEF Events
    <2>4. Chat!StreamIsWhole'
        BY <2>1, <2>3, NothingSeenIsWhole
    <2> QED
        BY <1>1, <2>1, <2>2, <2>3, <2>4, EndedKeepsIInv
<1>3. CASE chatCommitted \/ (chatHeld # << >> /\ salvage)
    <2>1. chatSeen \o chatHeld # << >>
        <3>1. chatSeen \in Seq(Chat!Event) /\ chatHeld \in Seq(Chat!Event) /\ (chatSeen # << >> \/ chatHeld # << >>)
            BY <1>1, <1>3 DEF StreamKnown, Events
        <3> QED
            BY <3>1
    <2>2. Fine(o)
        BY <1>1, <2>1
    <2>3. CASE chatApi = "responses"
        <3>1. Chat!Show(Chat!Finish(o, "fail")) /\ chatPc' = "done"
            BY <1>3, <2>3 DEF Chat!FinalError
        <3>2. /\ chatOut' \in Chat!Outputs /\ chatOut'.new = << >>
              /\ chatSeen' \in Events /\ chatSeen' # << >> /\ chatHeld' = << >> /\ chatCommitted' = TRUE
              /\ Chat!StreamIsWhole'
            BY <1>1, <2>2, <3>1, FinishedIsWhole
        <3> QED
            BY <3>1, <3>2, EndedKeepsIInv
    <2>4. CASE chatApi # "responses"
        <3>1. Chat!Show(Chat!CloseAll(o)) /\ chatPc' = "failed"
            BY <1>3, <2>4 DEF Chat!FinalError
        <3>2. /\ chatOut' \in Chat!Outputs /\ chatOut'.new = << >>
              /\ chatSeen' \in Events /\ chatSeen' # << >> /\ chatHeld' = << >> /\ chatCommitted' = TRUE
              /\ Chat!StreamIsWhole'
            BY <1>1, <2>2, <3>1, ClosedIsWhole
        <3> QED
            BY <3>1, <3>2, EndedKeepsIInv
    <2> QED
        BY <2>3, <2>4
<1> QED
    BY <1>2, <1>3

\* A request that ends with all it has to say.
LEMMA FinishKeepsIInv ==
    ASSUME Chat!IInv, Chat!Reading, NEW o, Fine(o), MixedTools(o) \/ Linked(o),
           Chat!Show(Chat!Finish(o, "finish")), chatPc' = "done",
           chatLeft' \in 0 .. chatLeft, UNCHANGED <<chatApi, chatCorrected, chatEpoch, chatChunks>>
    PROVE  Chat!IInv'
<1>1. StreamKnown
    BY ReadingIs
<1>2. /\ chatOut' \in Chat!Outputs /\ chatOut'.new = << >>
      /\ chatSeen' \in Events /\ chatSeen' # << >> /\ chatHeld' = << >> /\ chatCommitted' = TRUE
      /\ Chat!StreamIsWhole'
    BY <1>1, FinishedIsWhole
<1> QED
    BY <1>2, EndedKeepsIInv

LEMMA LeftIs ==
    ASSUME Chat!IInv
    PROVE  /\ chatLeft \in Nat /\ chatLeft \in 0 .. chatLeft /\ chatLeft \in 0 .. MaxAttempts
           /\ chatEpoch \in Nat /\ chatEpoch \in 1 .. MaxAttempts
           /\ \A n : n \in 0 .. chatLeft => chatLeft - n \in 0 .. chatLeft
BY ChatConstants DEF Chat!IInv, Chat!TypeOK

LEMMA CompleteKeepsIInv ==
    ASSUME Chat!IInv, Chat!Complete
    PROVE  Chat!IInv'
<1> DEFINE silent == ~Chat!Generated \/ (Chat!Known(chatOut) = {} /\ chatOut.said = {"reasoning"})
           o == IF silent THEN Chat!Say(chatOut, "text") ELSE chatOut
           r == Chat!Released(o)
<1>1. Chat!Reading /\ chatOut.started
    BY DEF Chat!Complete, Chat!Reading
<1>2. /\ StreamKnown /\ Fine(chatOut) /\ chatOut \in Chat!Outputs
      /\ MixedTools(chatOut) \/ (Linked(chatOut) /\ Chat!ToolsAsRead(chatOut))
    BY <1>1, ReadingIs
<1>3. /\ Chat!Show(Chat!Finish(r, "finish")) /\ chatPc' = "done"
      /\ UNCHANGED <<chatApi, chatLeft, chatCorrected, chatEpoch, chatChunks>>
    BY DEF Chat!Complete
<1>4. Fine(o) /\ o.tools = chatOut.tools /\ (Linked(chatOut) => Linked(o))
    <2>1. CASE silent
        <3>1. o = Chat!Say(chatOut, "text") /\ "text" \in {"text", "reasoning"}
            BY <2>1
        <3> HIDE DEF o
        <3> QED
            BY <1>2, <3>1, SayIs
    <2>2. CASE ~silent
        BY <1>2, <2>2
    <2> QED
        BY <2>1, <2>2
<1> HIDE DEF o
<1>5. /\ Touched(o, r)
      /\ Linked(o) /\ (\A i \in Chat!Tools : o.tools[i].args = "buffered" => o.tools[i].state = "open")
         => Linked(r)
    BY <1>2, <1>4, ReleasedIs
<1> HIDE DEF r
<1>6. MixedTools(chatOut) => MixedTools(r)
    <2>1. SameCalls(chatOut, o)
        BY <1>4 DEF SameCalls
    <2> QED
        BY <1>5, <2>1, SameMixed DEF Touched
<1>7. ASSUME ~MixedTools(chatOut)
      PROVE  Linked(r)
    <2>1. ASSUME NEW i \in Chat!Tools, o.tools[i].args = "buffered" PROVE o.tools[i].state = "open"
        <3>1. chatOut.tools[i].from # "text"
            BY <1>4, <1>7, <2>1 DEF MixedTools
        <3>2. /\ i \in Chat!Known(chatOut)
              /\ chatOut.tools[i].state # "absent" => chatOut.tools[i].from # "none"
            BY <1>1, <1>4, <2>1, ReadingIs DEF Chat!ToolsInOrder
        <3> QED
            BY <1>2, <1>4, <1>7, <2>1, <3>1, <3>2, ToolIs DEF Chat!ToolsAsRead
    <2> QED
        BY <1>2, <1>4, <1>5, <1>7, <2>1
<1>8. Fine(r)
    BY <1>5 DEF Touched
<1> QED
    BY <1>1, <1>3, <1>6, <1>7, <1>8, FinishKeepsIInv, LeftIs
\* The message starts with the first chunk.
LEMMA StartedIs ==
    ASSUME Chat!IInv, Chat!Reading, NEW c, c = Chat!Started
    PROVE  /\ Fine(c) /\ c.tools = chatOut.tools
           /\ MixedTools(chatOut) \/ Linked(c)
           /\ chatOut.started => c = chatOut
<1>1. /\ StreamKnown /\ chatOut \in Chat!Outputs /\ chatOut.new = << >>
      /\ chatOut.started <=> Sent(chatOut) # << >>
      /\ chatOut.started => Fine(chatOut)
      /\ chatOut.next > 0 => chatOut.started
      /\ MixedTools(chatOut) \/ (Linked(chatOut) /\ Chat!ToolsAsRead(chatOut))
    BY ReadingIs
<1>2. CASE chatOut.started
    BY <1>1, <1>2 DEF Chat!Started
<1>3. CASE ~chatOut.started
    <2> DEFINE v == [chatOut EXCEPT !.started = TRUE]
               e == EventOf("message", "start", 0)
    <2>1. c = Chat!Emit(v, "message", "start", 0)
        BY <1>3 DEF Chat!Started
    <2>2. /\ v \in Chat!Outputs /\ v.new = << >> /\ v.started = TRUE /\ v.tools = chatOut.tools
          /\ v.next = chatOut.next /\ v.content = chatOut.content /\ v.block = chatOut.block
        BY <1>1 DEF Chat!Outputs
    <2>3. "message" \in EventKinds /\ "start" \in EventWhats /\ 0 \in Nat
        BY DEF EventKinds, EventWhats
    <2>4. Sent(v) = Sent(chatOut)
        BY <1>1, <2>2 DEF Sent
    <2> HIDE DEF v
    <2>s. StreamKnown
        BY <1>1
    <2>a. v \in Chat!Outputs
        BY <2>2
    <2>b. /\ c \in Chat!Outputs /\ e \in Chat!Event
          /\ Sent(c) = Append(Sent(v), e)
        BY <2>1, <2>3, <2>a, <2>s, EmitIs
    <2>d. c.started = v.started
        BY <2>1, <2>2 DEF Chat!Emit, Chat!Outputs
    <2>c. /\ c.next = v.next /\ c.content = v.content /\ c.block = v.block
          /\ c.said = v.said /\ c.tools = v.tools
        BY <1>1, <2>1, <2>3, <2>a, EmitIs, Z3
    <2>5. /\ c \in Chat!Outputs /\ e \in Chat!Event /\ c.started
          /\ Sent(c) = Append(Sent(v), e)
          /\ c.next = v.next /\ c.content = v.content /\ c.block = v.block
          /\ c.said = v.said /\ c.tools = v.tools
        BY <2>2, <2>b, <2>c, <2>d
    <2>6. Sent(c) = <<e>>
        <3>1. Sent(v) = << >>
            BY <1>1, <1>3, <2>4
        <3> QED
            BY <2>5, <3>1
    <2>7. e.kind = "message" /\ e.what = "start" /\ e.epoch = chatEpoch
        BY DEF EventOf
    <2> HIDE DEF e
    <2>8. Chat!Begun(Sent(c))
        BY <2>6, <2>7 DEF Chat!Begun
    <2>9. ASSUME Linked(chatOut) PROVE Linked(c)
        <3>1. chatOut.next = 0
            BY <1>1, <1>3 DEF Chat!Outputs
        <3>2. 0 .. 0 - 1 = {}
            OBVIOUS
        <3>3. Chat!ToolBlocks(chatOut) = {}
            BY <1>1, <2>9, <3>1, <3>2, LinkedBlocks
        <3>4. Chat!OpenBlocks(chatOut) = {}
            BY <2>9, <3>1, <3>2 DEF Linked, Shows
        <3>5. /\ c.next = chatOut.next /\ c.content = chatOut.content /\ c.block = chatOut.block
              /\ \A j \in Chat!Tools : /\ c.tools[j].state = chatOut.tools[j].state
                                       /\ c.tools[j].block = chatOut.tools[j].block
            BY <2>2, <2>5
        <3>6. Shows(Sent(c), 0, {}, {})
            BY <2>5, <2>6, <2>7, StartShows
        <3> QED
            BY <2>9, <3>1, <3>3, <3>4, <3>5, <3>6, SameBlocks
    <2> QED
        BY <1>1, <1>3, <2>2, <2>5, <2>6, <2>8, <2>9 DEF Fine
<1> QED
    BY <1>2, <1>3

\* What was assembled of a chunk is held back or shown.
LEMMA FedKeepsIInv ==
    ASSUME Chat!IInv, chatPc = "read", NEW u, Fine(u), Chat!Fed(u), Chat!ToolsInOrder(u),
           MixedTools(u) \/ (Linked(u) /\ Chat!ToolsAsRead(u))
    PROVE  Chat!IInv'
<1>1. Chat!Reading
    BY DEF Chat!Reading
<1>2. /\ StreamKnown /\ chatEpoch + chatLeft <= MaxAttempts /\ u \in Chat!Outputs /\ u.started
      /\ Sent(u) # << >> /\ Chat!Begun(Sent(u)) /\ Sent(u) \in Events
    BY <1>1, ReadingIs, SentIs DEF Fine
<1>3. /\ chatOut' = [u EXCEPT !.new = << >>] /\ Chat!Push(u)
      /\ UNCHANGED <<chatApi, chatPc, chatLeft, chatCorrected, chatEpoch>>
      /\ chatChunks < MaxChunks /\ chatChunks' = chatChunks + 1
    BY DEF Chat!Fed, Chat!Push
<1>4. /\ chatOut' \in Chat!Outputs /\ chatOut'.new = << >> /\ chatOut'.started = u.started
      /\ chatOut'.next = u.next /\ chatOut'.content = u.content /\ chatOut'.block = u.block
      /\ chatOut'.tools = u.tools
    <2> DEFINE v == [u EXCEPT !.new = << >>]
    <2>1. << >> \in Seq(Chat!Event)
        OBVIOUS
    <2>2. v \in Chat!Outputs
        BY <1>2, <2>1 DEF Chat!Outputs
    <2>3. /\ v.new = << >> /\ v.started = u.started /\ v.next = u.next /\ v.content = u.content
          /\ v.block = u.block /\ v.tools = u.tools
        BY <1>2 DEF Chat!Outputs
    <2> QED
        BY <1>3, <2>2, <2>3
<1>5. /\ chatHeld' \in Events /\ chatCommitted' \in BOOLEAN
      /\ IF chatCommitted' THEN chatHeld' = << >> /\ chatSeen' = Sent(u)
         ELSE chatSeen' = << >> /\ chatHeld' = Sent(u)
    <2>1. chatSeen \in Seq(Chat!Event) /\ chatHeld \in Seq(Chat!Event) /\ u.new \in Seq(Chat!Event)
        BY <1>2 DEF StreamKnown, Events, Chat!Outputs
    <2>2. CASE /\ chatCommitted' = TRUE /\ chatSeen' = chatSeen \o chatHeld \o u.new /\ chatHeld' = << >>
        BY <2>2 DEF Sent, Events
    <2>3. CASE /\ ~chatCommitted /\ chatHeld' = chatHeld \o u.new
               /\ UNCHANGED <<chatCommitted, chatSeen>>
        <3>1. chatSeen = << >>
            BY <2>3 DEF Chat!IInv
        <3>2. chatSeen \o chatHeld \o u.new = chatHeld \o u.new
            BY <2>1, <3>1
        <3>3. chatHeld' = Sent(u) /\ chatSeen' = << >> /\ chatCommitted' = FALSE
            <4>1. chatCommitted \in BOOLEAN
                BY DEF Chat!IInv, Chat!TypeOK
            <4> QED
                BY <2>3, <3>1, <3>2, <4>1 DEF Sent
        <3> QED
            BY <1>2, <3>3
    <2> QED
        BY <1>3, <2>2, <2>3 DEF Chat!Push
<1>6. chatSeen' \o chatHeld' = Sent(u) /\ chatSeen' \in Events
    <2> DEFINE s == Sent(u)
    <2>1. s \in Seq(Chat!Event) /\ << >> \in Seq(Chat!Event)
        BY <1>2 DEF Events
    <2> HIDE DEF s
    <2>2. s \o << >> = s /\ << >> \o s = s
        BY <2>1
    <2> QED
        BY <1>5, <2>1, <2>2 DEF s, Events
<1>7. Chat!TypeOK'
    <2>1. chatChunks' \in 0 .. MaxChunks
        BY <1>3, ChatConstants DEF Chat!IInv, Chat!TypeOK
    <2> QED
        BY <1>3, <1>4, <1>5, <1>6, <2>1 DEF Chat!IInv, Chat!TypeOK, Events
<1>8. MixedTools(u) <=> Chat!Mixed'
    <2>1. SameCalls(u, chatOut')
        BY <1>4 DEF SameCalls
    <2> QED
        BY <2>1, SameMixed, MixedIs
<1>9. Chat!StreamIsWhole'
    <2>1. CASE ~chatCommitted'
        BY <1>3, <1>5, <2>1, NothingSeenIsWhole
    <2>2. CASE chatCommitted'
        <3>1. chatSeen' = Sent(u)
            BY <1>5, <2>2
        <3>2. Chat!OneEpochIsSeen'
            BY <1>2, <1>3, <3>1 DEF Chat!OneEpochIsSeen, Chat!Begun
        <3>3. ASSUME Linked(u) PROVE Chat!WellFormed(chatSeen)'
            <4>1. u.next \in Nat /\ Shows(chatSeen', u.next, Chat!OpenBlocks(u), Chat!ToolBlocks(u))
                BY <1>2, <3>1, <3>3 DEF Linked, Chat!Outputs
            <4> QED
                BY <1>3, <1>6, <4>1, GoesOnWell
        <3> QED
            BY <1>8, <3>2, <3>3 DEF Chat!StreamIsWhole, Chat!UnmixedStreamContract
    <2> QED
        BY <2>1, <2>2
<1>10. Chat!Begun(chatSeen \o chatHeld)'
    BY <1>2, <1>3, <1>6 DEF Chat!Begun
<1>11. Chat!ToolsInOrder(chatOut')
    BY <1>4 DEF Chat!ToolsInOrder, Chat!Known
<1>12. Chat!Mixed' \/ (Chat!ShowsOutput(chatSeen' \o chatHeld', chatOut') /\ Chat!ToolsAsRead(chatOut'))
    <2>1. ASSUME Linked(u), Chat!ToolsAsRead(u)
          PROVE  Chat!ShowsOutput(chatSeen' \o chatHeld', chatOut') /\ Chat!ToolsAsRead(chatOut')
        <3>1. Chat!ShowsOutput(Sent(u), u)
            BY <1>2, <2>1, LinkedIs
        <3>2. /\ Chat!Known(chatOut') = Chat!Known(u) /\ Chat!ToolBlocks(chatOut') = Chat!ToolBlocks(u)
              /\ Chat!OpenBlocks(chatOut') = Chat!OpenBlocks(u)
            BY <1>4 DEF Chat!Known, Chat!ToolBlocks, Chat!OpenBlocks
        <3> QED
            BY <1>4, <1>6, <2>1, <3>1, <3>2 DEF Chat!ShowsOutput, Chat!ToolsAsRead
    <2> QED
        BY <1>8, <2>1
<1>13. chatOut'.started <=> chatSeen' \o chatHeld' # << >>
    BY <1>2, <1>4, <1>6
<1>14. /\ chatEpoch' + chatLeft' <= MaxAttempts
       /\ chatPc' = "read" /\ chatOut'.started
    BY <1>2, <1>3, <1>4
<1>15. IF chatCommitted' THEN chatHeld' = << >> /\ chatSeen' # << >> ELSE chatSeen' = << >>
    BY <1>2, <1>5
<1> QED
    BY <1>7, <1>9, <1>10, <1>11, <1>12, <1>13, <1>14, <1>15 DEF Chat!IInv

\* A chunk of text, reasoning, or neither.
LEMMA FeedContentKeepsIInv ==
    ASSUME Chat!IInv, Chat!FeedContent
    PROVE  Chat!IInv'
<1> DEFINE c == Chat!Started
<1>1. chatPc = "read" /\ Chat!Reading
    BY DEF Chat!FeedContent, Chat!Reading
<1>2. /\ Fine(c) /\ c.tools = chatOut.tools
      /\ MixedTools(chatOut) \/ Linked(c)
    BY <1>1, StartedIs
<1>3. /\ StreamKnown /\ Chat!ToolsInOrder(chatOut)
      /\ MixedTools(chatOut) \/ (Linked(chatOut) /\ Chat!ToolsAsRead(chatOut))
    BY <1>1, ReadingIs
<1> HIDE DEF c
<1>4. ASSUME NEW u, Fine(u), u.tools = chatOut.tools, MixedTools(chatOut) \/ Linked(u), Chat!Fed(u)
      PROVE  Chat!IInv'
    <2>1. Chat!ToolsInOrder(u)
        BY <1>3, <1>4 DEF Chat!ToolsInOrder, Chat!Known
    <2>2. Chat!ToolsAsRead(chatOut) => Chat!ToolsAsRead(u)
        BY <1>4 DEF Chat!ToolsAsRead, Chat!Known
    <2>3. MixedTools(chatOut) => MixedTools(u)
        BY <1>4 DEF MixedTools
    <2> QED
        BY <1>1, <1>3, <1>4, <2>1, <2>2, <2>3, FedKeepsIInv
<1>5. ASSUME NEW kind \in {"text", "reasoning"}, Chat!Fed(Chat!Say(c, kind))
      PROVE  Chat!IInv'
    <2> DEFINE u == Chat!Say(c, kind)
    <2>1. Fine(u) /\ u.tools = c.tools /\ (Linked(c) => Linked(u))
        BY <1>2, <1>3, SayIs
    <2> HIDE DEF u
    <2> QED
        BY <1>2, <1>4, <1>5, <2>1 DEF u
<1>6. ASSUME Chat!Fed(c) PROVE Chat!IInv'
    BY <1>2, <1>4, <1>6
<1> QED
    BY <1>5, <1>6 DEF Chat!FeedContent, c
\* One tool call is new, or has changed; the others are as they were.
LEMMA OneMoreCall ==
    ASSUME NEW o \in Chat!Outputs, Chat!ToolsInOrder(o), NEW i \in Chat!Tools, i > 0 => i - 1 \in Chat!Known(o),
           NEW u, u.tools[i].state # "absent", u.tools[i].from # "none",
           \A j \in Chat!Tools : j # i => /\ u.tools[j].state = o.tools[j].state
                                          /\ u.tools[j].from = o.tools[j].from
                                          /\ u.tools[j].args = o.tools[j].args
    PROVE  /\ Chat!ToolsInOrder(u)
           /\ /\ Chat!ToolsAsRead(o)
              /\ u.tools[i].state = (IF u.tools[i].from = "native" THEN "open" ELSE "closed")
              => Chat!ToolsAsRead(u)
           /\ /\ MixedTools(o)
              /\ \/ i \notin Chat!Known(o)
                 \/ /\ u.tools[i].from = o.tools[i].from
                    /\ u.tools[i].from = "text" => u.tools[i].args # "complete"
              => MixedTools(u)
<1>1. Chat!Known(u) = Chat!Known(o) \cup {i}
    BY DEF Chat!Known
<1>2. Chat!ToolsInOrder(u)
    <2>1. \A j \in Chat!Known(u) : j > 0 => j - 1 \in Chat!Known(u)
        BY <1>1 DEF Chat!ToolsInOrder
    <2>2. \A j \in Chat!Tools : u.tools[j].state = "absent" <=> u.tools[j].from = "none"
        BY DEF Chat!ToolsInOrder
    <2>3. \A j \in Chat!Tools \ Chat!Known(u) : u.tools[j].args = "none"
        BY <1>1 DEF Chat!ToolsInOrder
    <2> QED
        BY <2>1, <2>2, <2>3 DEF Chat!ToolsInOrder
<1>3. ASSUME Chat!ToolsAsRead(o),
             u.tools[i].state = (IF u.tools[i].from = "native" THEN "open" ELSE "closed")
      PROVE  Chat!ToolsAsRead(u)
    <2> SUFFICES ASSUME NEW j \in Chat!Known(u)
                 PROVE  u.tools[j].state = (IF u.tools[j].from = "native" THEN "open" ELSE "closed")
        BY DEF Chat!ToolsAsRead
    <2>1. CASE j = i
        BY <1>3, <2>1
    <2>2. CASE j # i
        <3>1. j \in Chat!Known(o) /\ j \in Chat!Tools
            BY <1>1, <2>2 DEF Chat!Known
        <3> QED
            BY <1>3, <2>2, <3>1 DEF Chat!ToolsAsRead
    <2> QED
        BY <2>1, <2>2
<1>4. ASSUME MixedTools(o),
             \/ i \notin Chat!Known(o)
             \/ /\ u.tools[i].from = o.tools[i].from
                /\ u.tools[i].from = "text" => u.tools[i].args # "complete"
      PROVE  MixedTools(u)
    <2>1. \/ o.tools[i].from = "none"
          \/ /\ u.tools[i].from = o.tools[i].from
             /\ u.tools[i].from = "text" => u.tools[i].args # "complete"
        BY <1>4 DEF Chat!ToolsInOrder, Chat!Known
    <2>2. ASSUME NEW j \in Chat!Tools, o.tools[j].from \in {"native", "text"}
          PROVE  u.tools[j].from = o.tools[j].from
        BY <2>1, <2>2
    <2>3. CASE {"native", "text"} \subseteq {o.tools[j].from : j \in Chat!Tools}
        <3>1. PICK j \in Chat!Tools, k \in Chat!Tools : o.tools[j].from = "native" /\ o.tools[k].from = "text"
            BY <2>3
        <3>2. u.tools[j].from = "native" /\ u.tools[k].from = "text"
            BY <2>2, <3>1
        <3> QED
            BY <3>2 DEF MixedTools
    <2>4. CASE \E j \in Chat!Tools : o.tools[j].from = "text" /\ o.tools[j].args # "complete"
        <3>1. PICK j \in Chat!Tools : o.tools[j].from = "text" /\ o.tools[j].args # "complete"
            BY <2>4
        <3>2. u.tools[j].from = "text" /\ u.tools[j].args # "complete"
            BY <2>1, <3>1
        <3> QED
            BY <3>2 DEF MixedTools
    <2> QED
        BY <1>4, <2>3, <2>4 DEF MixedTools
<1> QED
    BY <1>2, <1>3, <1>4

\* The first block of a chunk with a tool call: text and reasoning are closed.
LEMMA CallStarts ==
    ASSUME Chat!IInv, Chat!Reading, NEW c, c = Chat!CloseContent(Chat!Started)
    PROVE  /\ Fine(c) /\ c.content = "none" /\ c.tools = chatOut.tools
           /\ MixedTools(chatOut) \/ Linked(c)
<1> DEFINE s == Chat!Started
<1>1. /\ Fine(s) /\ s.tools = chatOut.tools
      /\ MixedTools(chatOut) \/ Linked(s)
    BY StartedIs
<1>2. StreamKnown
    BY ReadingIs
<1> HIDE DEF s
<1>3. /\ Fine(c) /\ c.content = "none" /\ c.next = s.next /\ c.tools = s.tools
      /\ c.said = s.said
      /\ Linked(s) => Linked(c)
    BY <1>1, <1>2, CloseContentIs, Z3 DEF s
<1> QED
    BY <1>1, <1>3

\* What is done with the arguments of a tool call.
ArgumentKinds == {"none", "buffered", "partial", "complete"}
Argued(o, i, args) ==
    CASE args = "none" -> o
      [] args = "buffered" -> [o EXCEPT !.tools[i].args = args]
      [] OTHER -> Chat!ToolDelta(o, i, args)

LEMMA ArgumentsGo ==
    ASSUME StreamKnown, NEW o, Fine(o), NEW i \in Chat!Tools,
           NEW args \in ArgumentKinds,
           NEW u, u = Argued(o, i, args)
    PROVE  /\ Fine(u) /\ OnlyArguments(o, u, i)
           /\ args # "none" => u.tools[i].args = args
           /\ Linked(o) /\ o.tools[i].state = "open" => Linked(u)
<1>1. CASE args = "none"
    BY <1>1 DEF Argued, OnlyArguments
<1>2. CASE args = "buffered"
    <2>1. u = [o EXCEPT !.tools[i].args = args] /\ o \in Chat!Outputs
        BY <1>2 DEF Fine, Argued
    <2>2. /\ u \in Chat!Outputs /\ u.new = o.new /\ u.next = o.next /\ u.content = o.content
          /\ u.block = o.block /\ u.said = o.said
          /\ u.started <=> o.started
          /\ u.tools[i].args = args
          /\ \A j \in Chat!Tools : /\ u.tools[j].state = o.tools[j].state
                                   /\ u.tools[j].block = o.tools[j].block
                                   /\ u.tools[j].from = o.tools[j].from
                                   /\ j # i => u.tools[j].args = o.tools[j].args
        BY <1>2, <2>1, ArgumentsAre
    <2>3. Sent(u) = Sent(o)
        BY <2>2 DEF Sent
    <2>4. Fine(u)
        BY <2>2, <2>3 DEF Fine
    <2>5. ASSUME Linked(o) PROVE Linked(u)
        <3>1. Shows(Sent(u), o.next, Chat!OpenBlocks(o), Chat!ToolBlocks(o))
            BY <2>3, <2>5 DEF Linked
        <3>2. /\ u.next = o.next /\ u.content = o.content /\ u.block = o.block
              /\ \A j \in Chat!Tools : /\ u.tools[j].state = o.tools[j].state
                                       /\ u.tools[j].block = o.tools[j].block
            BY <2>2
        <3> QED
            BY <2>5, <3>1, <3>2, SameBlocks
    <2> QED
        BY <2>2, <2>4, <2>5 DEF OnlyArguments
<1>3. CASE args = "partial"
    <2>1. u = Chat!ToolDelta(o, i, "partial")
        BY <1>3 DEF Argued
    <2>2. /\ Fine(u) /\ OnlyArguments(o, u, i) /\ u.tools[i].args = "partial"
          /\ Linked(o) /\ o.tools[i].state = "open" => Linked(u)
        BY <2>1, DeltaIs
    <2> QED
        BY <1>3, <2>2
<1>4. CASE args = "complete"
    <2>1. u = Chat!ToolDelta(o, i, "complete")
        BY <1>4 DEF Argued
    <2>2. /\ Fine(u) /\ OnlyArguments(o, u, i) /\ u.tools[i].args = "complete"
          /\ Linked(o) /\ o.tools[i].state = "open" => Linked(u)
        BY <2>1, DeltaIs
    <2> QED
        BY <1>4, <2>2
<1> QED
    BY <1>1, <1>2, <1>3, <1>4 DEF ArgumentKinds

\* process_tool_call.
LEMMA FeedToolKeepsIInv ==
    ASSUME Chat!IInv, Chat!FeedTool
    PROVE  Chat!IInv'
<1> DEFINE c == Chat!CloseContent(Chat!Started)
<1>1. chatPc = "read" /\ Chat!Reading
    BY DEF Chat!FeedTool, Chat!Reading
<1>2. /\ Fine(c) /\ c.content = "none" /\ c.tools = chatOut.tools
      /\ MixedTools(chatOut) \/ Linked(c)
    BY <1>1, CallStarts
<1>3. /\ StreamKnown /\ chatOut \in Chat!Outputs /\ Chat!ToolsInOrder(chatOut)
      /\ MixedTools(chatOut) \/ (Linked(chatOut) /\ Chat!ToolsAsRead(chatOut))
    BY <1>1, ReadingIs
<1>4. PICK i \in Chat!Tools, args \in ArgumentKinds :
          LET known == i \in Chat!Known(chatOut)
              o == IF known THEN c ELSE Chat!StartTool(c, i, "native")
          IN  /\ i > 0 => i - 1 \in Chat!Known(chatOut)
              /\ known => args # "none"
              /\ o.tools[i].from = "text" => args = "partial"
              /\ Chat!Fed(Argued(o, i, args))
    BY ZenonT(30) DEF Chat!FeedTool, Argued, ArgumentKinds
<1> DEFINE o == IF i \in Chat!Known(chatOut) THEN c ELSE Chat!StartTool(c, i, "native")
           u == Argued(o, i, args)
<1>5. /\ i > 0 => i - 1 \in Chat!Known(chatOut)
      /\ i \in Chat!Known(chatOut) => args # "none"
      /\ o.tools[i].from = "text" => args = "partial"
      /\ Chat!Fed(u)
    BY <1>4
<1> HIDE DEF c
<1>6. /\ Fine(o) /\ (Linked(c) => Linked(o))
      /\ \A j \in Chat!Tools : j # i => o.tools[j] = chatOut.tools[j]
      /\ i \in Chat!Known(chatOut) => o.tools[i] = chatOut.tools[i]
      /\ i \notin Chat!Known(chatOut) => o.tools[i].state = "open" /\ o.tools[i].from = "native"
    <2>1. CASE i \in Chat!Known(chatOut)
        BY <1>2, <2>1
    <2>2. CASE i \notin Chat!Known(chatOut)
        <3>1. c.tools[i].state = "absent"
            BY <1>2, <2>2 DEF Chat!Known
        <3>2. o = Chat!StartTool(c, i, "native") /\ "native" \in {"native", "text"}
            BY <2>2
        <3> HIDE DEF o
        <3>3. /\ Fine(o) /\ o.content = "none" /\ o.next = c.next + 1 /\ o.said = c.said
              /\ o.tools[i].state = "open" /\ o.tools[i].args = "none" /\ o.tools[i].from = "native"
              /\ \A j \in Chat!Tools : j # i => o.tools[j] = c.tools[j]
              /\ Linked(c) => Linked(o)
            BY <1>2, <1>3, <3>1, <3>2, StartToolIs
        <3> QED
            BY <1>2, <2>2, <3>3
    <2> QED
        BY <2>1, <2>2
<1> HIDE DEF o
<1>a. /\ Fine(u) /\ OnlyArguments(o, u, i)
      /\ args # "none" => u.tools[i].args = args
      /\ Linked(o) /\ o.tools[i].state = "open" => Linked(u)
    <2>1. StreamKnown /\ Fine(o)
        BY <1>3, <1>6
    <2> QED
        BY <2>1, ArgumentsGo
<1>7. /\ Fine(u)
      /\ \A j \in Chat!Tools : /\ u.tools[j].state = o.tools[j].state
                               /\ u.tools[j].from = o.tools[j].from
                               /\ j # i => u.tools[j].args = o.tools[j].args
      /\ args # "none" => u.tools[i].args = args
      /\ Linked(o) /\ o.tools[i].state = "open" => Linked(u)
    BY <1>a DEF OnlyArguments
<1> HIDE DEF u
<1>8. u.tools[i].state # "absent" /\ u.tools[i].from # "none"
    BY <1>3, <1>6, <1>7 DEF Chat!ToolsInOrder, Chat!Known
<1>9. \A j \in Chat!Tools : j # i => /\ u.tools[j].state = chatOut.tools[j].state
                                     /\ u.tools[j].from = chatOut.tools[j].from
                                     /\ u.tools[j].args = chatOut.tools[j].args
    BY <1>6, <1>7
<1>10. /\ Chat!ToolsInOrder(u)
       /\ /\ Chat!ToolsAsRead(chatOut)
          /\ u.tools[i].state = (IF u.tools[i].from = "native" THEN "open" ELSE "closed")
          => Chat!ToolsAsRead(u)
       /\ /\ MixedTools(chatOut)
          /\ \/ i \notin Chat!Known(chatOut)
             \/ /\ u.tools[i].from = chatOut.tools[i].from
                /\ u.tools[i].from = "text" => u.tools[i].args # "complete"
          => MixedTools(u)
    BY <1>3, <1>5, <1>8, <1>9, OneMoreCall
<1>11. u.tools[i].from = "text" => u.tools[i].args = "partial"
    BY <1>5, <1>7
<1>12. MixedTools(chatOut) => MixedTools(u)
    BY <1>6, <1>7, <1>10, <1>11
<1>13. ASSUME ~MixedTools(u) PROVE Linked(u) /\ Chat!ToolsAsRead(u)
    <2>1. u.tools[i].from # "text"
        BY <1>11, <1>13 DEF MixedTools
    <2>2. Linked(o) /\ Chat!ToolsAsRead(chatOut)
        BY <1>2, <1>3, <1>6, <1>12, <1>13
    <2>3. o.tools[i].from = "native" /\ o.tools[i].state = "open"
        <3>1. CASE i \notin Chat!Known(chatOut)
            BY <1>6, <3>1
        <3>2. CASE i \in Chat!Known(chatOut)
            <4>1. chatOut.tools[i].from = "native"
                BY <1>3, <1>6, <1>7, <1>8, <2>1, <3>2, ToolIs
            <4> QED
                BY <1>6, <2>2, <3>2, <4>1 DEF Chat!ToolsAsRead
        <3> QED
            BY <3>1, <3>2
    <2> QED
        BY <1>7, <1>10, <2>2, <2>3
<1> QED
    BY <1>1, <1>5, <1>7, <1>10, <1>13, FedKeepsIInv
\* Calls that are numbered in order: the next number is how many there are.
LEMMA CallsAreNumbered ==
    ASSUME NEW K \in SUBSET Chat!Tools, \A i \in K : i > 0 => i - 1 \in K, NEW n, n = Chat!Cardinality(K)
    PROVE  n \in Nat /\ n \notin K /\ (n > 0 => n - 1 \in K)
<1>0. IsFiniteSet(Chat!Tools) /\ MaxTools \in Nat
    <2>1. 0 \in Int /\ MaxTools - 1 \in Int
        BY ChatConstants
    <2> QED
        BY <2>1, FS_Interval, ChatConstants DEF Chat!Tools
<1>1. IsFiniteSet(K) /\ n = Cardinality(K) /\ n \in Nat
    <2>1. IsFiniteSet(K)
        BY <1>0, FS_Subset
    <2> QED
        BY <2>1, FS_CardinalityType DEF Chat!Cardinality, Cardinality
<1>2. \A i \in K : i \in Nat
    BY DEF Chat!Tools
<1>3. ASSUME NEW i \in K PROVE 0 .. i \subseteq K
    <2> DEFINE P == {k \in Nat : k <= i => i - k \in K}
    <2>1. i \in Nat
        BY <1>2
    <2>2. P \in SUBSET Nat /\ 0 \in P
        BY <2>1
    <2>3. ASSUME NEW k \in P PROVE k + 1 \in P
        <3>1. k \in Nat
            OBVIOUS
        <3>2. CASE k + 1 <= i
            <4>1. i - k \in K /\ i - k > 0 /\ (i - k) - 1 = i - (k + 1)
                BY <2>1, <3>1, <3>2
            <4> QED
                BY <3>1, <4>1
        <3> QED
            BY <2>1, <3>1, <3>2
    <2> HIDE DEF P
    <2>4. P = Nat
        BY <2>2, <2>3, Induction
    <2> SUFFICES ASSUME NEW j \in 0 .. i PROVE j \in K
        OBVIOUS
    <2>5. i - j \in P /\ i - j <= i /\ i - (i - j) = j
        BY <2>1, <2>4
    <2> QED
        BY <2>5 DEF P
<1>4. n \notin K
    <2> SUFFICES ASSUME n \in K PROVE FALSE
        OBVIOUS
    <2>1. 0 .. n \subseteq K
        BY <1>3
    <2>2. Cardinality(0 .. n) = n + 1
        BY <1>1, FS_Interval
    <2>3. Cardinality(0 .. n) <= Cardinality(K)
        BY <1>1, <2>1, FS_Subset
    <2> QED
        BY <1>1, <2>2, <2>3
<1>5. ASSUME n > 0 PROVE n - 1 \in K
    <2> SUFFICES ASSUME n - 1 \notin K PROVE FALSE
        OBVIOUS
    <2>1. K \subseteq 0 .. n - 2
        <3> SUFFICES ASSUME NEW i \in K PROVE i \in 0 .. n - 2
            OBVIOUS
        <3>1. i \in Nat /\ 0 .. i \subseteq K /\ n - 1 \in Nat
            BY <1>1, <1>2, <1>3, <1>5
        <3>2. ~(n - 1 <= i)
            BY <3>1
        <3> QED
            BY <1>1, <3>1, <3>2
    <2>2. IsFiniteSet(0 .. n - 2) /\ Cardinality(0 .. n - 2) = n - 1
        <3>1. 0 \in Int /\ n - 2 \in Int /\ (0 > n - 2 => n - 1 = 0) /\ (n - 2) - 0 + 1 = n - 1
            BY <1>1, <1>5
        <3> QED
            BY <3>1, FS_Interval
    <2>3. Cardinality(K) <= Cardinality(0 .. n - 2)
        BY <2>1, <2>2, FS_Subset
    <2> QED
        BY <1>1, <2>2, <2>3
<1> QED
    BY <1>1, <1>4, <1>5

\* A whole block of a tool call, of given arguments.
LEMMA WholeCallIs ==
    ASSUME StreamKnown, NEW c, Fine(c), c.content = "none", NEW i \in Chat!Tools,
           c.tools[i].state = "absent", NEW from \in {"native", "text"},
           NEW u, u = Chat!ToolDelta(Chat!StartTool(c, i, from), i, "complete")
    PROVE  /\ Fine(u) /\ u.tools[i].state = "open" /\ u.tools[i].args = "complete" /\ u.tools[i].from = from
           /\ \A j \in Chat!Tools : j # i => /\ u.tools[j].state = c.tools[j].state
                                             /\ u.tools[j].from = c.tools[j].from
                                             /\ u.tools[j].args = c.tools[j].args
           /\ Linked(c) => Linked(u)
<1> DEFINE a == Chat!StartTool(c, i, from)
<1>1. /\ Fine(a) /\ a.content = "none" /\ a.next = c.next + 1 /\ a.said = c.said
      /\ a.tools[i].state = "open" /\ a.tools[i].args = "none" /\ a.tools[i].from = from
      /\ \A j \in Chat!Tools : j # i => a.tools[j] = c.tools[j]
      /\ Linked(c) => Linked(a)
    BY StartToolIs
<1>2. u = Chat!ToolDelta(a, i, "complete")
    OBVIOUS
<1> HIDE DEF a
<1>3. /\ Fine(u) /\ OnlyArguments(a, u, i) /\ u.tools[i].args = "complete"
      /\ Linked(a) /\ a.tools[i].state = "open" => Linked(u)
    BY <1>1, <1>2, DeltaIs
<1> QED
    BY <1>1, <1>3 DEF OnlyArguments

\* iter_heuristic_tool_use_events.
LEMMA FeedTextToolKeepsIInv ==
    ASSUME Chat!IInv, Chat!FeedTextTool
    PROVE  Chat!IInv'
<1> DEFINE c == Chat!CloseContent(Chat!Started)
           i == Chat!Cardinality(Chat!Known(chatOut))
           b == Chat!ToolDelta(Chat!StartTool(c, i, "text"), i, "complete")
           u == Chat!StopTool(b, i)
<1>1. chatPc = "read" /\ Chat!Reading
    BY DEF Chat!FeedTextTool, Chat!Reading
<1>2. /\ Fine(c) /\ c.content = "none" /\ c.tools = chatOut.tools
      /\ MixedTools(chatOut) \/ Linked(c)
    BY <1>1, CallStarts
<1>3. /\ StreamKnown /\ chatOut \in Chat!Outputs /\ Chat!ToolsInOrder(chatOut)
      /\ MixedTools(chatOut) \/ (Linked(chatOut) /\ Chat!ToolsAsRead(chatOut))
    BY <1>1, ReadingIs
<1>4. i < MaxTools /\ Chat!Fed(u)
    BY DEF Chat!FeedTextTool
<1>5. i \in Nat /\ i \notin Chat!Known(chatOut) /\ (i > 0 => i - 1 \in Chat!Known(chatOut))
    BY <1>3, CallsAreNumbered DEF Chat!ToolsInOrder, Chat!Known
<1> HIDE DEF c, i
<1>6. i \in Chat!Tools /\ c.tools[i].state = "absent"
    BY <1>2, <1>4, <1>5, ChatConstants DEF Chat!Tools, Chat!Known
<1>7. /\ Fine(b) /\ b.tools[i].state = "open" /\ b.tools[i].args = "complete" /\ b.tools[i].from = "text"
      /\ \A j \in Chat!Tools : j # i => /\ b.tools[j].state = c.tools[j].state
                                        /\ b.tools[j].from = c.tools[j].from
                                        /\ b.tools[j].args = c.tools[j].args
      /\ Linked(c) => Linked(b)
    BY <1>2, <1>3, <1>6, WholeCallIs
<1> HIDE DEF b
<1>8. /\ Fine(u) /\ u.next = b.next /\ u.content = b.content /\ u.said = b.said
      /\ SameCalls(b, u) /\ u.tools[i].state # "open"
      /\ \A j \in Chat!Tools : j # i => u.tools[j] = b.tools[j]
      /\ b.tools[i].state = "open" => u.tools[i].state = "closed"
      /\ Linked(b) => Linked(u)
    BY <1>3, <1>6, <1>7, StopToolIs
<1> HIDE DEF u
<1>9. u.tools[i].state = "closed" /\ u.tools[i].from = "text"
    BY <1>6, <1>7, <1>8 DEF SameCalls
<1>10. \A j \in Chat!Tools : j # i => /\ u.tools[j].state = chatOut.tools[j].state
                                      /\ u.tools[j].from = chatOut.tools[j].from
                                      /\ u.tools[j].args = chatOut.tools[j].args
    BY <1>2, <1>7, <1>8
<1>11. u.tools[i].state # "absent" /\ u.tools[i].from # "none"
    BY <1>9
<1>12. /\ Chat!ToolsInOrder(u)
       /\ /\ Chat!ToolsAsRead(chatOut)
          /\ u.tools[i].state = (IF u.tools[i].from = "native" THEN "open" ELSE "closed")
          => Chat!ToolsAsRead(u)
       /\ /\ MixedTools(chatOut)
          /\ \/ i \notin Chat!Known(chatOut)
             \/ /\ u.tools[i].from = chatOut.tools[i].from
                /\ u.tools[i].from = "text" => u.tools[i].args # "complete"
          => MixedTools(u)
    BY <1>3, <1>5, <1>6, <1>10, <1>11, OneMoreCall
<1> QED
    BY <1>1, <1>2, <1>3, <1>4, <1>5, <1>7, <1>8, <1>9, <1>12, FedKeepsIInv

\* _recovery_events with tool calls.
LEMMA RecoverToolsKeepsIInv ==
    ASSUME Chat!IInv, Chat!RecoverTools
    PROVE  Chat!IInv'
<1>1. chatPc = "recover" /\ Chat!Reading
    BY DEF Chat!RecoverTools, Chat!Reading
<1>2. /\ StreamKnown /\ chatOut \in Chat!Outputs /\ Chat!ToolsInOrder(chatOut)
      /\ Fine(chatOut) /\ chatOut.new = << >>
      /\ MixedTools(chatOut) \/ (Linked(chatOut) /\ Chat!ToolsAsRead(chatOut))
    BY <1>1, ReadingIs
<1>3. PICK calls \in SUBSET {i \in Chat!Unfinished(chatOut) : chatOut.tools[i].from = "native"}, n \in 0 .. chatLeft :
          /\ chatLeft' = chatLeft - n
          /\ IF calls = Chat!Unfinished(chatOut)
             THEN Chat!Show(Chat!Finish(Chat!Repaired(chatOut, calls), "finish")) /\ chatPc' = "done"
             ELSE Chat!FinalError([Chat!Repaired(chatOut, calls) EXCEPT !.new = << >>], FALSE)
    BY DEF Chat!RecoverTools
<1>4. UNCHANGED <<chatApi, chatCorrected, chatEpoch, chatChunks>>
    BY DEF Chat!RecoverTools
<1>5. chatLeft' \in 0 .. chatLeft
    BY <1>3, LeftIs
<1> DEFINE o == Chat!Repaired(chatOut, calls)
           v == [o EXCEPT !.new = << >>]
<1>6. \A i \in calls : i \in Chat!Known(chatOut) /\ chatOut.tools[i].from = "native"
    BY DEF Chat!Unfinished
<1>7. /\ Touched(chatOut, o)
      /\ Linked(chatOut) /\ (\A i \in calls : chatOut.tools[i].state = "open") => Linked(o)
    BY <1>2, <1>6, RepairedIs
<1>8. Chat!ToolsAsRead(chatOut) => \A i \in calls : chatOut.tools[i].state = "open"
    BY <1>6 DEF Chat!ToolsAsRead
<1>9. CASE calls = Chat!Unfinished(chatOut)
    <2>1. Chat!Show(Chat!Finish(o, "finish")) /\ chatPc' = "done"
        BY <1>3, <1>9
    <2> HIDE DEF o
    <2>2. Fine(o) /\ (MixedTools(o) \/ Linked(o))
        BY <1>2, <1>7, <1>8 DEF Touched
    <2> QED
        BY <1>1, <1>4, <1>5, <2>1, <2>2, FinishKeepsIInv
<1>10. CASE calls # Chat!Unfinished(chatOut)
    <2>1. Chat!FinalError(v, FALSE)
        BY <1>3, <1>10
    <2> HIDE DEF o
    <2>2. /\ Fine(o) /\ o \in Chat!Outputs /\ o.started /\ o.next = chatOut.next /\ o.content = chatOut.content
          /\ o.block = chatOut.block
          /\ \A j \in Chat!Tools : /\ o.tools[j].state = chatOut.tools[j].state
                                   /\ o.tools[j].block = chatOut.tools[j].block
          /\ MixedTools(chatOut) => MixedTools(o)
        BY <1>7 DEF Touched, Fine
    <2>3. << >> \in Seq(Chat!Event)
        OBVIOUS
    <2>4. v \in Chat!Outputs
        BY <2>2, <2>3 DEF Chat!Outputs
    <2>5. /\ v.new = << >> /\ v.started = o.started /\ v.next = o.next /\ v.content = o.content /\ v.block = o.block
          /\ v.tools = o.tools
        BY <2>2 DEF Chat!Outputs
    <2>6. Sent(v) = Sent(chatOut)
        BY <1>2, <2>5 DEF Sent
    <2> HIDE DEF v
    <2>7. Fine(v)
        BY <1>2, <2>2, <2>4, <2>5, <2>6 DEF Fine
    <2>8. MixedTools(chatOut) => MixedTools(v)
        <3>1. SameCalls(o, v)
            BY <2>5 DEF SameCalls
        <3> QED
            BY <2>2, <3>1, SameMixed
    <2>9. ASSUME Linked(chatOut) PROVE Linked(v)
        <3>1. Shows(Sent(v), chatOut.next, Chat!OpenBlocks(chatOut), Chat!ToolBlocks(chatOut))
            BY <2>6, <2>9 DEF Linked
        <3>2. /\ v.next = chatOut.next /\ v.content = chatOut.content /\ v.block = chatOut.block
              /\ \A j \in Chat!Tools : /\ v.tools[j].state = chatOut.tools[j].state
                                       /\ v.tools[j].block = chatOut.tools[j].block
            BY <2>2, <2>5
        <3> QED
            BY <2>9, <3>1, <3>2, SameBlocks
    <2>10. MixedTools(v) \/ Linked(v)
        BY <1>2, <2>8, <2>9
    <2> QED
        BY <1>1, <1>4, <1>5, <2>1, <2>4, <2>5, <2>7, <2>10, FinalErrorKeepsIInv
<1> QED
    BY <1>9, <1>10
\* _recovery_events with text.
LEMMA RecoverTextKeepsIInv ==
    ASSUME Chat!IInv, Chat!RecoverText
    PROVE  Chat!IInv'
<1>1. chatPc = "recover" /\ Chat!Reading /\ Chat!Known(chatOut) = {} /\ chatLeft > 0
    BY DEF Chat!RecoverText, Chat!Reading
<1>2. /\ StreamKnown /\ chatOut \in Chat!Outputs /\ Chat!ToolsInOrder(chatOut)
      /\ Fine(chatOut) /\ chatOut.new = << >>
      /\ MixedTools(chatOut) \/ (Linked(chatOut) /\ Chat!ToolsAsRead(chatOut))
    BY <1>1, ReadingIs
<1>3. chatLeft' \in 0 .. chatLeft
    <2>1. chatLeft' \in 0 .. chatLeft - 1 /\ chatLeft \in Nat
        BY LeftIs DEF Chat!RecoverText
    <2> QED
        BY <2>1
<1>4. UNCHANGED <<chatApi, chatCorrected, chatEpoch, chatChunks>>
    BY DEF Chat!RecoverText
<1>5. Linked(chatOut)
    <2>1. \A i \in Chat!Tools : chatOut.tools[i].state = "absent" /\ chatOut.tools[i].from = "none"
        BY <1>1, <1>2 DEF Chat!ToolsInOrder, Chat!Known
    <2>2. ~MixedTools(chatOut)
        BY <2>1 DEF MixedTools
    <2> QED
        BY <1>2, <2>2
<1>6. PICK got \in SUBSET {"reasoning", "text", "tool"} :
          LET r == IF "reasoning" \in got THEN Chat!Say(chatOut, "reasoning") ELSE chatOut
              t == IF "text" \in got THEN Chat!Say(r, "text") ELSE r
              o == IF "tool" \in got
                   THEN Chat!ToolDelta(Chat!StartTool(Chat!CloseContent(t), 0, "native"), 0, "complete") ELSE t
          IN  IF got # {}
              THEN Chat!Show(Chat!Finish(o, "finish")) /\ chatPc' = "done"
              ELSE Chat!FinalError(chatOut, FALSE)
    BY DEF Chat!RecoverText
<1> DEFINE r == IF "reasoning" \in got THEN Chat!Say(chatOut, "reasoning") ELSE chatOut
           t == IF "text" \in got THEN Chat!Say(r, "text") ELSE r
           o == IF "tool" \in got
                THEN Chat!ToolDelta(Chat!StartTool(Chat!CloseContent(t), 0, "native"), 0, "complete") ELSE t
<1>7. CASE got # {}
    <2>1. Chat!Show(Chat!Finish(o, "finish")) /\ chatPc' = "done"
        BY <1>6, <1>7
    <2>2. ASSUME NEW p, Fine(p), Linked(p), p.tools = chatOut.tools, NEW kind \in {"text", "reasoning"},
                 NEW q, q = Chat!Say(p, kind)
          PROVE  Fine(q) /\ Linked(q) /\ q.tools = chatOut.tools
        BY <1>2, <2>2, SayIs
    <2>3. Fine(r) /\ Linked(r) /\ r.tools = chatOut.tools
        <3>1. CASE "reasoning" \in got
            <4>1. r = Chat!Say(chatOut, "reasoning")
                BY <3>1
            <4> HIDE DEF r
            <4> QED
                BY <1>2, <1>5, <2>2, <4>1
        <3>2. CASE "reasoning" \notin got
            BY <1>2, <1>5, <3>2
        <3> QED
            BY <3>1, <3>2
    <2> HIDE DEF r
    <2>4. Fine(t) /\ Linked(t) /\ t.tools = chatOut.tools
        <3>1. CASE "text" \in got
            <4>1. t = Chat!Say(r, "text")
                BY <3>1
            <4> HIDE DEF t
            <4> QED
                BY <2>2, <2>3, <4>1
        <3>2. CASE "text" \notin got
            BY <2>3, <3>2
        <3> QED
            BY <3>1, <3>2
    <2> HIDE DEF t
    <2>5. Fine(o) /\ Linked(o)
        <3>1. CASE "tool" \in got
            <4> DEFINE c == Chat!CloseContent(t)
            <4>1. /\ Fine(c) /\ c.content = "none" /\ c.next = t.next /\ c.tools = t.tools
                  /\ c.said = t.said
                  /\ Linked(t) => Linked(c)
                BY <1>2, <2>4, CloseContentIs, Z3
            <4>2. o = Chat!ToolDelta(Chat!StartTool(c, 0, "native"), 0, "complete")
                BY <3>1
            <4> HIDE DEF c, o
            <4>3. 0 \in Chat!Tools /\ "native" \in {"native", "text"}
                BY ChatConstants DEF Chat!Tools
            <4>4. c.tools[0].state = "absent"
                BY <1>1, <2>4, <4>1, <4>3 DEF Chat!Known
            <4>5. Fine(o) /\ (Linked(c) => Linked(o))
                BY <1>2, <4>1, <4>2, <4>3, <4>4, WholeCallIs
            <4> QED
                BY <2>4, <4>1, <4>5
        <3>2. CASE "tool" \notin got
            BY <2>4, <3>2
        <3> QED
            BY <3>1, <3>2
    <2> HIDE DEF o
    <2> QED
        BY <1>1, <1>3, <1>4, <2>1, <2>5, FinishKeepsIInv
<1>8. CASE got = {}
    <2>1. Chat!FinalError(chatOut, FALSE) /\ FALSE \in BOOLEAN
        BY <1>6, <1>8
    <2> QED
        BY <1>1, <1>2, <1>3, <1>4, <1>5, <2>1, FinalErrorKeepsIInv
<1> QED
    BY <1>7, <1>8

\* A failure that is not retryable, or beyond recovery.
LEMMA FailKeepsIInv ==
    ASSUME Chat!IInv, Chat!Fail
    PROVE  Chat!IInv'
<1>1. /\ Chat!Reading /\ Chat!FinalError(chatOut, Chat!Salvageable)
      /\ UNCHANGED <<chatApi, chatLeft, chatCorrected, chatEpoch, chatChunks>>
    BY DEF Chat!Fail, Chat!Reading
<1>2. /\ chatOut \in Chat!Outputs /\ chatOut.new = << >>
      /\ Sent(chatOut) # << >> => Fine(chatOut)
      /\ MixedTools(chatOut) \/ Linked(chatOut)
    BY <1>1, ReadingIs
<1>3. Chat!Salvageable \in BOOLEAN
    BY DEF Chat!Salvageable
<1> QED
    BY <1>1, <1>2, <1>3, LeftIs, FinalErrorKeepsIInv

LEMMA NewOutputIs ==
    /\ Chat!NewOutput \in Chat!Outputs /\ Chat!NewOutput.new = << >> /\ Chat!NewOutput.started = FALSE
    /\ Chat!NewOutput.next = 0 /\ Chat!NewOutput.content = "none" /\ Chat!Known(Chat!NewOutput) = {}
    /\ \A i \in Chat!Tools : Chat!NewOutput.tools[i] = Chat!NoTool
<1>1. Chat!NoTool \in Chat!ToolStates
    BY DEF Chat!NoTool, Chat!ToolStates
<1>2. << >> \in Seq(Chat!Event)
    OBVIOUS
<1>3. \A i \in Chat!Tools : Chat!NewOutput.tools[i] = Chat!NoTool
    BY DEF Chat!NewOutput
<1>4. Chat!Known(Chat!NewOutput) = {}
    BY <1>3 DEF Chat!Known, Chat!NoTool
<1> QED
    BY <1>1, <1>2, <1>3, <1>4 DEF Chat!NewOutput, Chat!Outputs

\* _create_stream opens the upstream stream.
LEMMA CreateKeepsIInv ==
    ASSUME Chat!IInv, Chat!Create
    PROVE  Chat!IInv'
<1>1. /\ chatPc = "create" /\ chatPc' = "read" /\ chatLeft > 0 /\ chatLeft' \in 0 .. chatLeft - 1
      /\ UNCHANGED <<chatApi, chatCorrected, chatEpoch, chatChunks, chatOut, chatHeld, chatCommitted, chatSeen>>
    BY DEF Chat!Create
<1>2. /\ chatOut = Chat!NewOutput /\ chatHeld = << >> /\ chatSeen = << >>
      /\ chatEpoch + chatLeft <= MaxAttempts + 1
    BY <1>1 DEF Chat!IInv
<1>3. chatLeft' \in 0 .. MaxAttempts /\ chatEpoch' + chatLeft' <= MaxAttempts
    BY <1>1, <1>2, LeftIs, ChatConstants
<1>4. Chat!TypeOK'
    BY <1>1, <1>3 DEF Chat!IInv, Chat!TypeOK
<1>5. Chat!StreamIsWhole'
    BY <1>1, <1>2, NothingSeenIsWhole
<1>6. chatSeen' \o chatHeld' = << >>
    BY <1>1, <1>2
<1>7. Chat!Begun(chatSeen \o chatHeld)'
    BY <1>6 DEF Chat!Begun
<1>8. ~chatOut'.started /\ ~(chatOut'.next > 0)
    BY <1>1, <1>2, NewOutputIs
<1>9. Chat!ToolsInOrder(chatOut') /\ Chat!ToolsAsRead(chatOut')
    BY <1>1, <1>2, NewOutputIs DEF Chat!ToolsInOrder, Chat!ToolsAsRead, Chat!NoTool
<1>10. Chat!ShowsOutput(chatSeen' \o chatHeld', chatOut')
    <2>1. Chat!ToolBlocks(chatOut') = {}
        BY <1>1, <1>2, NewOutputIs DEF Chat!ToolBlocks
    <2>2. Chat!OpenBlocks(chatOut') = {}
        BY <1>1, <1>2, NewOutputIs DEF Chat!OpenBlocks, Chat!NoTool
    <2>3. << >> \in Events /\ 0 \in Nat
        BY DEF Events
    <2>4. Chat!ShowsBlocks(<< >>, 0, {}, {})
        BY <2>3, NothingShows, ShowsIs
    <2> QED
        BY <1>1, <1>2, <1>6, <2>1, <2>2, <2>4, NewOutputIs DEF Chat!ShowsOutput
<1>11. IF chatCommitted' THEN chatHeld' = << >> /\ chatSeen' # << >> ELSE chatSeen' = << >>
    BY <1>1 DEF Chat!IInv
<1> QED
    BY <1>1, <1>3, <1>4, <1>5, <1>6, <1>7, <1>8, <1>9, <1>10, <1>11 DEF Chat!IInv

\* It fails.
LEMMA CreateFailsKeepsIInv ==
    ASSUME Chat!IInv, Chat!CreateFails
    PROVE  Chat!IInv'
<1>1. /\ chatPc = "create" /\ chatPc' = "failed" /\ chatLeft' \in 0 .. chatLeft /\ chatHeld' = << >>
      /\ UNCHANGED <<chatApi, chatCorrected, chatEpoch, chatChunks, chatOut, chatCommitted, chatSeen>>
    BY DEF Chat!CreateFails
<1>2. /\ chatSeen = << >> /\ ~chatCommitted /\ chatCommitted \in BOOLEAN
      /\ chatOut \in Chat!Outputs /\ chatOut.new = << >>
    BY <1>1 DEF Chat!IInv, Chat!TypeOK
<1>3. Chat!StreamIsWhole'
    BY <1>1, <1>2, NothingSeenIsWhole
<1>4. chatSeen' \in Events
    BY <1>1, <1>2 DEF Events
<1> QED
    BY <1>1, <1>2, <1>3, <1>4, EndedKeepsIInv

\* A fresh assembler, while nothing was shown.
LEMMA NewEpochKeepsIInv ==
    ASSUME Chat!IInv, chatPc = "read", ~chatCommitted, chatLeft > 0, Chat!NewEpoch,
           chatCorrected' \in 0 .. MaxCorrections
    PROVE  Chat!IInv'
<1>1. /\ chatEpoch' = chatEpoch + 1 /\ chatChunks' = 0 /\ chatOut' = Chat!NewOutput /\ chatHeld' = << >>
      /\ chatPc' = "create" /\ UNCHANGED <<chatApi, chatLeft, chatCommitted, chatSeen>>
    BY DEF Chat!NewEpoch
<1>2. chatEpoch + chatLeft <= MaxAttempts /\ chatSeen = << >>
    BY ReadingIs DEF Chat!IInv, Chat!Reading
<1>3. chatEpoch' \in 1 .. MaxAttempts /\ chatEpoch' + chatLeft' <= MaxAttempts + 1
    BY <1>1, <1>2, LeftIs, ChatConstants
<1>4. Chat!TypeOK'
    <2>1. << >> \in Seq(Chat!Event) /\ 0 \in 0 .. MaxChunks
        BY ChatConstants
    <2> QED
        BY <1>1, <1>3, <2>1, NewOutputIs DEF Chat!IInv, Chat!TypeOK
<1>5. Chat!StreamIsWhole'
    BY <1>1, <1>2, NothingSeenIsWhole
<1>6. ~Chat!Reading'
    BY <1>1 DEF Chat!Reading
<1> QED
    BY <1>1, <1>2, <1>3, <1>4, <1>5, <1>6 DEF Chat!IInv

LEMMA WellFormedGives ==
    ASSUME Chat!WellFormed(chatSeen)
    PROVE  /\ BlocksAreFramed(chatSeen) /\ (chatPc \in {"done", "failed"} => BlocksAreClosed(chatSeen))
           /\ EndsOf(chatSeen) \subseteq {Len(chatSeen)}
           /\ EndsOf(chatSeen) # {} <=> chatPc = "done"
BY DEF Chat!WellFormed, BlocksAreFramed, BlocksAreClosed, EndsOf, PlacesAs, PlacesOf, BlocksOf, ContentOf

LEMMA StaysWhole ==
    ASSUME Chat!StreamIsWhole, UNCHANGED <<chatOut, chatSeen, chatEpoch>>,
           chatPc' = chatPc \/ (chatPc = "read" /\ chatPc' = "recover")
    PROVE  Chat!StreamIsWhole'
<1>1. Chat!OneEpochIsSeen'
    BY DEF Chat!StreamIsWhole, Chat!OneEpochIsSeen
<1>2. Chat!Mixed => Chat!Mixed'
    BY DEF Chat!Mixed
<1>3. ASSUME Chat!WellFormed(chatSeen) PROVE Chat!WellFormed(chatSeen)'
    <2>1. /\ BlocksAreFramed(chatSeen) /\ (chatPc \in {"done", "failed"} => BlocksAreClosed(chatSeen))
          /\ EndsOf(chatSeen) \subseteq {Len(chatSeen)}
          /\ EndsOf(chatSeen) # {} <=> chatPc = "done"
        BY <1>3, WellFormedGives
    <2>2. /\ chatPc' \in {"done", "failed"} <=> chatPc \in {"done", "failed"}
          /\ chatPc' = "done" <=> chatPc = "done"
        OBVIOUS
    <2>3. chatSeen' = chatSeen
        OBVIOUS
    <2>4. /\ BlocksAreFramed(chatSeen') /\ (chatPc' \in {"done", "failed"} => BlocksAreClosed(chatSeen'))
          /\ EndsOf(chatSeen') \subseteq {Len(chatSeen')}
          /\ EndsOf(chatSeen') # {} <=> chatPc' = "done"
        BY <2>1, <2>2, <2>3
    <2> QED
        BY <2>4, WellFormedNext
<1> QED
    BY <1>1, <1>2, <1>3 DEF Chat!StreamIsWhole, Chat!UnmixedStreamContract

\* The stream that failed after it was shown is to be continued or repaired.
LEMMA RecoverKeepsIInv ==
    ASSUME Chat!IInv, Chat!Recover
    PROVE  Chat!IInv'
<1>1. /\ chatPc = "read" /\ chatPc' = "recover" /\ Chat!CanRecover
      /\ UNCHANGED <<chatApi, chatLeft, chatCorrected, chatEpoch, chatChunks, chatOut, chatHeld, chatCommitted, chatSeen>>
    BY DEF Chat!Recover
<1>2. chatOut.started
    BY <1>1, ReadingIs DEF Chat!CanRecover, Chat!Generated, Chat!Reading
<1>3. Chat!TypeOK'
    BY <1>1 DEF Chat!IInv, Chat!TypeOK
<1>4. Chat!StreamIsWhole'
    BY <1>1, StaysWhole DEF Chat!IInv
<1>5. Chat!Begun(chatSeen \o chatHeld)'
    BY <1>1 DEF Chat!IInv, Chat!Reading, Chat!Begun
<1>6. Chat!Mixed => Chat!Mixed'
    BY <1>1 DEF Chat!Mixed
<1> QED
    BY <1>1, <1>2, <1>3, <1>4, <1>5, <1>6 DEF Chat!IInv, Chat!Reading

(***************************************************************************)
(* The stream of an answer: the invariant                                  *)
(***************************************************************************)

LEMMA ChatInit == Chat!Init => Chat!IInv
<1> SUFFICES ASSUME Chat!Init PROVE Chat!IInv
    OBVIOUS
<1>1. /\ chatApi \in {"anthropic", "responses"} /\ chatPc = "create" /\ chatLeft = MaxAttempts
      /\ chatCorrected = 0 /\ chatEpoch = 1 /\ chatChunks = 0 /\ chatOut = Chat!NewOutput
      /\ chatHeld = << >> /\ chatCommitted = FALSE /\ chatSeen = << >>
    BY DEF Chat!Init
<1>2. Chat!TypeOK
    <2>1. << >> \in Seq(Chat!Event)
        OBVIOUS
    <2>2. /\ MaxAttempts \in 0 .. MaxAttempts /\ 1 \in 1 .. MaxAttempts
          /\ 0 \in 0 .. MaxCorrections /\ 0 \in 0 .. MaxChunks
        BY ChatConstants
    <2> QED
        BY <1>1, <2>1, <2>2, NewOutputIs DEF Chat!TypeOK
<1>3. Chat!StreamIsWhole
    <2>1. Chat!OneEpochIsSeen
        BY <1>1 DEF Chat!OneEpochIsSeen
    <2>2. << >> \in Events /\ 0 \in Nat
        BY DEF Events
    <2>3. BlocksAreFramed(chatSeen) /\ EndsOf(chatSeen) = {}
        BY <1>1, <2>2, NothingShows, ShownAreFramed, NoEnds
    <2>4. Chat!WellFormed(chatSeen)
        BY <1>1, <2>3, WellFormedIs
    <2> QED
        BY <2>1, <2>4 DEF Chat!StreamIsWhole, Chat!UnmixedStreamContract
<1> QED
    BY <1>1, <1>2, <1>3, ChatConstants DEF Chat!IInv, Chat!Reading

LEMMA ChatStep == Chat!IInv /\ [Chat!Next]_(Chat!vars) => Chat!IInv'
<1> SUFFICES ASSUME Chat!IInv, [Chat!Next]_(Chat!vars) PROVE Chat!IInv'
    OBVIOUS
<1>1. CASE Chat!Correct
    <2>1. chatCorrected' \in 0 .. MaxCorrections
        BY <1>1, ChatConstants DEF Chat!Correct, Chat!IInv, Chat!TypeOK
    <2> QED
        BY <1>1, <2>1, NewEpochKeepsIInv DEF Chat!Correct
<1>2. CASE Chat!EarlyRetry
    <2>1. chatCorrected' \in 0 .. MaxCorrections
        BY <1>2 DEF Chat!EarlyRetry, Chat!IInv, Chat!TypeOK
    <2> QED
        BY <1>2, <2>1, NewEpochKeepsIInv DEF Chat!EarlyRetry, Chat!CanRetry
<1>3. CASE UNCHANGED Chat!vars
    <2>1. UNCHANGED <<chatApi, chatPc, chatLeft, chatCorrected, chatEpoch, chatChunks, chatOut, chatHeld,
                      chatCommitted, chatSeen>>
        BY <1>3 DEF Chat!vars
    <2>2. Chat!TypeOK'
        BY <2>1 DEF Chat!IInv, Chat!TypeOK
    <2>3. Chat!StreamIsWhole'
        BY <2>1, StaysWhole DEF Chat!IInv
    <2>4. Chat!Reading' => Chat!Reading
        BY <2>1 DEF Chat!Reading
    <2>5. Chat!Mixed => Chat!Mixed'
        BY <2>1 DEF Chat!Mixed
    <2>6. Chat!Begun(chatSeen \o chatHeld) => Chat!Begun(chatSeen \o chatHeld)'
        BY <2>1 DEF Chat!Begun
    <2> QED
        BY <2>1, <2>2, <2>3, <2>4, <2>5, <2>6 DEF Chat!IInv
<1> QED
    BY <1>1, <1>2, <1>3, CreateKeepsIInv, CreateFailsKeepsIInv, FailKeepsIInv, RecoverToolsKeepsIInv,
       RecoverTextKeepsIInv, RecoverKeepsIInv, FeedContentKeepsIInv, FeedToolKeepsIInv,
       FeedTextToolKeepsIInv, CompleteKeepsIInv DEF Chat!Next

LEMMA ChatMove == [MCNext]_MCVars => [Chat!Next]_(Chat!vars)
BY DEF MCNext, MCVars, chatVars, Chat!vars

LEMMA ChatInvariant == MCSpec => []Chat!IInv
<1>1. MCInit => Chat!IInv
    BY ChatInit DEF MCInit
<1>2. Chat!IInv /\ [MCNext]_MCVars => Chat!IInv'
    BY ChatStep, ChatMove
<1> QED
    BY <1>1, <1>2, PTL DEF MCSpec

\* What a client receives is the stream of one assembler and, unless native tool
\* calls are mixed with calls written out as text, keeps the contract of
\* core/anthropic/stream_contracts.py, whatever fails and is retried on the way
\* (providers/openai_chat/transport.py).
THEOREM StreamsAreWhole == MCSpec => []StreamIsWhole
<1>1. Chat!IInv => StreamIsWhole
    BY DEF Chat!IInv, StreamIsWhole
<1> QED
    BY <1>1, ChatInvariant, PTL

\* The types of all the parts of a request's path.
THEOREM PathTypesAreKept == MCSpec => []TypesOK
<1>1. MCInit => IInv
    BY InitIInv, WindowAssumption DEF MCInit
<1>2. IInv /\ [MCNext]_MCVars => IInv'
    BY NextIInv, WindowMove, WindowAssumption
<1>3. MCSpec => []IInv
    BY <1>1, <1>2, PTL DEF MCSpec
<1>4. IInv /\ Lifetime!IInv /\ Routing!IInv /\ Chat!IInv => TypesOK
    BY DEF IInv, Lifetime!IInv, Routing!IInv, Chat!IInv, TypesOK
<1> QED
    BY <1>3, <1>4, LifetimeInvariant, RoutingInvariant, ChatInvariant, PTL
=============================================================================
