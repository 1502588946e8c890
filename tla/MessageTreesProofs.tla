------------------------- MODULE MessageTreesProofs -------------------------
(***************************************************************************)
(* The conversation trees, for any messages, trees and claims: no turn is  *)
(* left waiting for nobody, a message is found where it is, now and after  *)
(* a restart, and what lost its turn can no longer write.                  *)
(***************************************************************************)
EXTENDS MessageTrees, FoldLemmas, FiniteSetTheorems, TLAPS

(***************************************************************************)
(* Queues                                                                  *)
(***************************************************************************)

\* No turn is in the queue twice.
OnceEach(q) == \A i, j \in DOMAIN q : q[i] = q[j] => i = j
Members(q)  == {q[i] : i \in DOMAIN q}

\* Dequeued, as it goes through the queue.
LEMMA DequeuedSteps ==
    ASSUME NEW M, NEW s \in Seq(M), NEW E
    PROVE  \E f : /\ Dequeued(s, E) = f[1 .. Len(s)]
                  /\ f[1 .. 0] = << >>
                  /\ \A k \in 1 .. Len(s) :
                        f[1 .. k] = IF s[k] \in E THEN f[1 .. k - 1]
                                    ELSE Append(f[1 .. k - 1], s[k])
<1> DEFINE n == Len(s)
           X == Seq(M)
           g == [p \in X \X (1 .. n) |-> IF s[p[2]] \in E THEN p[1] ELSE Append(p[1], s[p[2]])]
           It == CHOOSE f : f = [q \in SUBSET (1 .. n) |->
                     IF q = {} THEN << >>
                     ELSE IF s[Top(q)] \in E THEN f[q \ {Top(q)}]
                     ELSE Append(f[q \ {Top(q)}], s[Top(q)])]
<1>1. n \in Nat /\ << >> \in X /\ g \in [X \X (1 .. n) -> X]
    OBVIOUS
<1>2. PICK f : IsFold(f, n, X, << >>, g)
    <2> HIDE DEF g, X, n
    <2> QED
        BY <1>1, FoldExists
<1>3. ASSUME NEW q \in SUBSET (1 .. n)
      PROVE  f[q] = IF q = {} THEN << >>
                    ELSE IF s[Top(q)] \in E THEN f[q \ {Top(q)}]
                    ELSE Append(f[q \ {Top(q)}], s[Top(q)])
    <2>1. CASE q = {}
        BY <1>2, <2>1 DEF IsFold
    <2>2. CASE q # {}
        <3>1. Top(q) \in 1 .. n /\ q \ {Top(q)} \in SUBSET (1 .. n)
            BY <1>1, <2>2, Beginnings
        <3>2. <<f[q \ {Top(q)}], Top(q)>> \in X \X (1 .. n)
            BY <1>2, <3>1 DEF IsFold
        <3>3. f[q] = g[<<f[q \ {Top(q)}], Top(q)>>]
            BY <1>2, <2>2 DEF IsFold
        <3> QED
            BY <2>2, <3>2, <3>3
    <2> QED
        BY <2>1, <2>2
<1>4. f = [q \in SUBSET (1 .. n) |->
             IF q = {} THEN << >>
             ELSE IF s[Top(q)] \in E THEN f[q \ {Top(q)}]
             ELSE Append(f[q \ {Top(q)}], s[Top(q)])]
    <2>1. f = [q \in SUBSET (1 .. n) |-> f[q]]
        BY <1>2 DEF IsFold
    <2> QED
        BY <1>3, <2>1
<1>5. It = [q \in SUBSET (1 .. n) |->
             IF q = {} THEN << >>
             ELSE IF s[Top(q)] \in E THEN It[q \ {Top(q)}]
             ELSE Append(It[q \ {Top(q)}], s[Top(q)])]
    BY <1>4
<1>6. Dequeued(s, E) = It[1 .. n]
    <2>1. DOMAIN s = 1 .. n
        OBVIOUS
    <2>2. \A S : Max(S) = Top(S)
        BY DEF Max, Top
    <2> QED
        BY <2>1, <2>2 DEF Dequeued, FoldLeft, MapThenFoldSet
<1>7. It[1 .. 0] = << >>
    BY <1>1, <1>5, Beginnings
<1>8. ASSUME NEW k \in 1 .. n
      PROVE  It[1 .. k] = IF s[k] \in E THEN It[1 .. k - 1] ELSE Append(It[1 .. k - 1], s[k])
    <2>1. /\ 1 .. k \in SUBSET (1 .. n) /\ 1 .. k # {}
          /\ Top(1 .. k) = k /\ (1 .. k) \ {k} = 1 .. k - 1
        BY <1>1, Beginnings
    <2> HIDE DEF It
    <2>2. It[1 .. k] = IF s[Top(1 .. k)] \in E
                       THEN It[(1 .. k) \ {Top(1 .. k)}]
                       ELSE Append(It[(1 .. k) \ {Top(1 .. k)}], s[Top(1 .. k)])
        BY <1>5, <2>1
    <2> QED
        BY <2>1, <2>2
<1> HIDE DEF It
<1> QED
    BY <1>6, <1>7, <1>8

LEMMA AppendIs ==
    ASSUME NEW M, NEW s \in Seq(M), NEW e \in M
    PROVE  /\ Append(s, e) \in Seq(M)
           /\ Members(Append(s, e)) = Members(s) \cup {e}
           /\ OnceEach(s) /\ e \notin Members(s) => OnceEach(Append(s, e))
<1>1. /\ DOMAIN s = 1 .. Len(s) /\ Len(s) \in Nat
      /\ DOMAIN Append(s, e) = 1 .. Len(s) + 1 /\ Append(s, e)[Len(s) + 1] = e
      /\ \A i \in 1 .. Len(s) : Append(s, e)[i] = s[i]
    OBVIOUS
<1>2. 1 .. Len(s) + 1 = (1 .. Len(s)) \cup {Len(s) + 1}
    BY <1>1
<1>3. Members(Append(s, e)) = Members(s) \cup {e}
    BY <1>1, <1>2 DEF Members
<1>4. ASSUME OnceEach(s), e \notin Members(s) PROVE OnceEach(Append(s, e))
    <2> SUFFICES ASSUME NEW a \in 1 .. Len(s) + 1, NEW b \in 1 .. Len(s) + 1,
                        Append(s, e)[a] = Append(s, e)[b]
                 PROVE  a = b
        BY <1>1 DEF OnceEach
    <2>1. CASE a \in 1 .. Len(s) /\ b \in 1 .. Len(s)
        BY <1>1, <1>4, <2>1 DEF OnceEach
    <2>2. CASE a = Len(s) + 1 /\ b = Len(s) + 1
        BY <2>2
    <2>3. CASE a \in 1 .. Len(s) /\ b = Len(s) + 1
        BY <1>1, <1>4, <2>3 DEF Members
    <2>4. CASE a = Len(s) + 1 /\ b \in 1 .. Len(s)
        BY <1>1, <1>4, <2>4 DEF Members
    <2> QED
        BY <1>2, <2>1, <2>2, <2>3, <2>4
<1> QED
    BY <1>1, <1>3, <1>4

LEMMA EmptyIs ==
    \A M : << >> \in Seq(M) /\ Members(<< >>) = {} /\ OnceEach(<< >>)
BY DEF Members, OnceEach

LEMMA NoMembers ==
    ASSUME NEW M, NEW s \in Seq(M), Members(s) = {}
    PROVE  s = << >>
<1>1. Len(s) \in Nat /\ DOMAIN s = 1 .. Len(s)
    OBVIOUS
<1>2. Len(s) \notin 1 .. Len(s)
    BY <1>1 DEF Members
<1>3. Len(s) = 0
    BY <1>1, <1>2
<1> QED
    BY <1>3

\* A sequence without repetition is as long as its set is large.
LEMMA LengthIsCount ==
    ASSUME NEW M, NEW s \in Seq(M), OnceEach(s)
    PROVE  Cardinality(Members(s)) = Len(s)
<1>1. Len(s) \in Nat /\ DOMAIN s = 1 .. Len(s)
    OBVIOUS
<1>2. s \in Bijection(1 .. Len(s), Members(s))
    BY <1>1 DEF Members, OnceEach, Bijection, Injection, Surjection, IsInjective
<1>3. ExistsBijection(1 .. Len(s), Members(s))
    BY <1>2 DEF ExistsBijection
<1> QED
    BY <1>1, <1>3, FS_CountingElements, FS_NatBijection

\* Dequeued takes out the members of the set, and nothing comes twice.
LEMMA DequeuedIs ==
    ASSUME NEW M, NEW s \in Seq(M), NEW E, OnceEach(s)
    PROVE  /\ Dequeued(s, E) \in Seq(M) /\ OnceEach(Dequeued(s, E))
           /\ Members(Dequeued(s, E)) = Members(s) \ E
<1>1. PICK f : /\ Dequeued(s, E) = f[1 .. Len(s)]
               /\ f[1 .. 0] = << >>
               /\ \A k \in 1 .. Len(s) :
                     f[1 .. k] = IF s[k] \in E THEN f[1 .. k - 1]
                                 ELSE Append(f[1 .. k - 1], s[k])
    BY DequeuedSteps
<1> DEFINE Begun(k) == {s[i] : i \in 1 .. k}
           Kept(k) == /\ f[1 .. k] \in Seq(M) /\ OnceEach(f[1 .. k])
                      /\ Members(f[1 .. k]) = Begun(k) \ E
           P == {k \in Nat : k <= Len(s) => Kept(k)}
<1>2. Kept(0)
    BY <1>1, EmptyIs
<1>3. ASSUME NEW k \in Nat, k + 1 <= Len(s), Kept(k) PROVE Kept(k + 1)
    <2>1. /\ k + 1 \in 1 .. Len(s) /\ (k + 1) - 1 = k /\ s[k + 1] \in M /\ DOMAIN s = 1 .. Len(s)
          /\ \A i \in 1 .. k : i \in 1 .. Len(s) /\ i # k + 1
        BY <1>3
    <2>2. 1 .. k + 1 = (1 .. k) \cup {k + 1}
        BY <2>1
    <2>3. Begun(k + 1) = Begun(k) \cup {s[k + 1]}
        BY <2>2
    <2>4. s[k + 1] \notin Begun(k)
        BY <2>1 DEF OnceEach
    <2>5. f[1 .. k + 1] = IF s[k + 1] \in E THEN f[1 .. k] ELSE Append(f[1 .. k], s[k + 1])
        BY <1>1, <2>1
    <2> DEFINE prev == f[1 .. k]
               next == f[1 .. k + 1]
    <2>6. /\ prev \in Seq(M) /\ OnceEach(prev) /\ Members(prev) = Begun(k) \ E
          /\ next = IF s[k + 1] \in E THEN prev ELSE Append(prev, s[k + 1])
        BY <1>3, <2>5
    <2> HIDE DEF prev, next, Begun
    <2>7. next \in Seq(M) /\ OnceEach(next) /\ Members(next) = Begun(k + 1) \ E
        <3>1. CASE s[k + 1] \notin E
            BY <3>1, <2>1, <2>3, <2>4, <2>6, AppendIs
        <3>2. CASE s[k + 1] \in E
            BY <3>2, <2>3, <2>6
        <3> QED
            BY <3>1, <3>2
    <2> QED
        BY <2>7 DEF next
<1> HIDE DEF Kept
<1>4. P \in SUBSET Nat /\ 0 \in P /\ \A k \in P : k + 1 \in P
    BY <1>2, <1>3
<1> HIDE DEF P
<1>5. P = Nat /\ Len(s) \in Nat
    BY <1>4, Induction
<1>6. Kept(Len(s))
    BY <1>5 DEF P
<1>7. Begun(Len(s)) = Members(s)
    BY DEF Members
<1> HIDE DEF Begun
<1> QED
    BY <1>1, <1>6, <1>7 DEF Kept

LEMMA InQueueIs ==
    \A tr, n : InQueue(tr, n) <=> n \in Members(tr.queue)
BY DEF InQueue, Members

(***************************************************************************)
(* Messages and graphs                                                     *)
(***************************************************************************)

\* Two messages of a node are different, and so are those of two nodes.
LEMMA RefFacts ==
    /\ \A n \in Nodes : /\ Prompt(n) \in Refs /\ Prompt(n)[1] = "prompt" /\ Prompt(n)[2] = n
                        /\ Status(n) \in Refs /\ Status(n)[1] = "status" /\ Status(n)[2] = n
    /\ \A n, m \in Nodes : /\ Prompt(n) = Prompt(m) <=> n = m
                           /\ Status(n) = Status(m) <=> n = m
                           /\ Prompt(n) # Status(m)
    /\ NoRef \notin Refs
    /\ \A x \in Refs : /\ x[2] \in Nodes /\ x[1] \in {"prompt", "status"}
                       /\ x = IF x[1] = "status" THEN Status(x[2]) ELSE Prompt(x[2])
BY DEF Refs, Prompt, Status, NoRef

\* A graph has messages of its own nodes only.
Tidy(g) == g.status \subseteq Present(g)

LEMMA GraphIs ==
    ASSUME NEW g \in Graphs
    PROVE  /\ g.status \in SUBSET Nodes /\ g.state \in [Nodes -> States]
           /\ g.reply \in [Nodes -> Refs \cup {NoRef}]
           /\ Present(g) \subseteq Nodes
           /\ \A n \in Nodes : n \in Present(g) <=> g.state[n] # "absent"
BY DEF Graphs, Present

LEMMA RefsOfIs ==
    ASSUME NEW g \in Graphs
    PROVE  /\ RefsOf(g) \subseteq Refs
           /\ \A n \in Nodes : /\ Prompt(n) \in RefsOf(g) <=> n \in Present(g)
                               /\ Status(n) \in RefsOf(g) <=> n \in g.status
<1>1. g.status \subseteq Nodes /\ Present(g) \subseteq Nodes
    BY GraphIs
<1> QED
    BY <1>1, RefFacts DEF RefsOf

LEMMA NoGraphIs ==
    /\ NoGraph \in Graphs /\ Present(NoGraph) = {} /\ RefsOf(NoGraph) = {}
    /\ \A n \in Nodes : NoGraph.state[n] = "absent" /\ NoGraph.reply[n] = NoRef
    /\ NoGraph.status = {}
<1>1. NoGraph \in Graphs /\ Present(NoGraph) = {} /\ NoGraph.status = {}
    BY DEF NoGraph, Graphs, States, Present
<1> QED
    BY <1>1 DEF NoGraph, RefsOf

\* A graph that has no message of any kind, and nothing left of one, is the
\* graph of no tree.
LEMMA EmptyGraph ==
    ASSUME NEW g \in Graphs, \A n \in Nodes : g.state[n] = "absent" /\ g.reply[n] = NoRef,
           g.status = {}
    PROVE  g = NoGraph
<1>1. g = [state |-> g.state, reply |-> g.reply, status |-> g.status]
    BY DEF Graphs
<1>2. g.state = [n \in Nodes |-> "absent"] /\ g.reply = [n \in Nodes |-> NoRef]
    BY GraphIs
<1> QED
    BY <1>1, <1>2 DEF NoGraph

\* The subtree of a message is the least set that has it and is closed.
LEMMA SubtreeIs ==
    ASSUME NEW g \in Graphs, NEW ref \in Refs
    PROVE  LET T == ReplySubtree(g, ref)
           IN /\ ref \in T /\ T \subseteq Refs /\ ClosedUnderReplies(g, T)
              /\ \A S \in SUBSET Refs : ref \in S /\ ClosedUnderReplies(g, S) => T \subseteq S
<1> DEFINE T == ReplySubtree(g, ref)
<1>1. ref \in T /\ T \subseteq Refs
    BY DEF ReplySubtree
<1>2. ASSUME NEW S \in SUBSET Refs, ref \in S, ClosedUnderReplies(g, S) PROVE T \subseteq S
    BY <1>2 DEF ReplySubtree
<1>3. ASSUME NEW n \in g.status, Prompt(n) \in T PROVE Status(n) \in T
    <2>1. Status(n) \in Refs
        BY GraphIs, RefFacts
    <2>2. ASSUME NEW S \in SUBSET Refs, ref \in S, ClosedUnderReplies(g, S)
          PROVE  Status(n) \in S
        BY <1>2, <1>3, <2>2 DEF ClosedUnderReplies
    <2> QED
        BY <2>1, <2>2 DEF ReplySubtree
<1>4. ASSUME NEW n \in Nodes, g.reply[n] \in T PROVE Prompt(n) \in T
    <2>1. Prompt(n) \in Refs
        BY RefFacts
    <2>2. ASSUME NEW S \in SUBSET Refs, ref \in S, ClosedUnderReplies(g, S)
          PROVE  Prompt(n) \in S
        BY <1>2, <1>4, <2>2 DEF ClosedUnderReplies
    <2> QED
        BY <2>1, <2>2 DEF ReplySubtree
<1>5. ClosedUnderReplies(g, T)
    BY <1>3, <1>4 DEF ClosedUnderReplies
<1> HIDE DEF T
<1>6. /\ ref \in T /\ T \subseteq Refs /\ ClosedUnderReplies(g, T)
      /\ \A S \in SUBSET Refs : ref \in S /\ ClosedUnderReplies(g, S) => T \subseteq S
    BY <1>1, <1>2, <1>5
<1> QED
    BY <1>6 DEF T

\* A status message is in the subtree of another one only with its prompt.
LEMMA StatusReason ==
    ASSUME NEW g \in Graphs, NEW ref \in Refs, NEW n \in Nodes,
           Status(n) \in ReplySubtree(g, ref), ref # Status(n)
    PROVE  Prompt(n) \in ReplySubtree(g, ref)
<1> SUFFICES ASSUME Prompt(n) \notin ReplySubtree(g, ref) PROVE FALSE
    OBVIOUS
<1> DEFINE T == ReplySubtree(g, ref)
           S == T \ {Status(n)}
<1>1. /\ ref \in T /\ T \subseteq Refs /\ ClosedUnderReplies(g, T)
      /\ \A U \in SUBSET Refs : ref \in U /\ ClosedUnderReplies(g, U) => T \subseteq U
    BY SubtreeIs
<1>2. \A k \in Nodes : Prompt(k) # Status(n)
    BY RefFacts
<1>3. \A k \in g.status : k \in Nodes /\ (Status(k) = Status(n) => k = n)
    BY GraphIs, RefFacts
<1>4. Status(n) \in T /\ Prompt(n) \notin T
    OBVIOUS
<1> HIDE DEF T
<1>5. ClosedUnderReplies(g, S)
    BY <1>1, <1>2, <1>3, <1>4 DEF ClosedUnderReplies
<1> QED
    BY <1>1, <1>4, <1>5

\* Only replies and status messages count.
LEMMA SameShape ==
    ASSUME NEW g, NEW h, h.reply = g.reply, h.status = g.status, NEW ref
    PROVE  ReplySubtree(h, ref) = ReplySubtree(g, ref)
<1>1. \A S : ClosedUnderReplies(h, S) <=> ClosedUnderReplies(g, S)
    BY DEF ClosedUnderReplies
<1> QED
    BY <1>1 DEF ReplySubtree

\* What a sane graph says, without its types.
LEMMA SaneIs ==
    ASSUME NEW g \in Graphs, NEW r \in Nodes
    PROVE  Sane(g, r) <=>
             /\ r \in Present(g) /\ g.reply[r] = NoRef
             /\ \A n \in Present(g) \ {r} : g.reply[n] \in RefsOf(g)
             /\ \A n \in Present(g) : Prompt(n) \in ReplySubtree(g, Prompt(r))
             /\ \A n \in Nodes : g.state[n] \in Runnable => n \in g.status
             /\ g.status \subseteq Present(g)
             /\ \A n \in Nodes : n \notin Present(g) => g.reply[n] = NoRef
<1>1. \A n \in Nodes : g.state[n] \in Runnable => n \in Present(g)
    BY GraphIs DEF Runnable
<1>2. Present(g) \subseteq Nodes
    BY GraphIs
<1> QED
    BY <1>1, <1>2 DEF Sane, Accepted

\* The messages of a sane graph are closed under replies.
LEMMA RefsAreClosed ==
    ASSUME NEW g \in Graphs, NEW r \in Nodes, Sane(g, r)
    PROVE  ClosedUnderReplies(g, RefsOf(g))
<1>1. \A n \in g.status : Status(n) \in RefsOf(g)
    BY RefsOfIs, GraphIs
<1>2. ASSUME NEW n \in Nodes, g.reply[n] \in RefsOf(g) PROVE Prompt(n) \in RefsOf(g)
    <2>1. g.reply[n] # NoRef
        BY <1>2, RefsOfIs, RefFacts
    <2>2. n \in Present(g)
        BY <2>1, SaneIs
    <2> QED
        BY <2>2, RefsOfIs
<1> QED
    BY <1>1, <1>2 DEF ClosedUnderReplies

LEMMA SubtreeInTree ==
    ASSUME NEW g \in Graphs, NEW r \in Nodes, Sane(g, r), NEW ref \in RefsOf(g)
    PROVE  ReplySubtree(g, ref) \subseteq RefsOf(g)
<1>1. RefsOf(g) \in SUBSET Refs /\ ref \in Refs
    BY RefsOfIs
<1> QED
    BY <1>1, RefsAreClosed, SubtreeIs

\* A change of states that neither adds nor removes a node, and makes no node
\* runnable, leaves a sane graph with the messages it had.
LEMMA StatesChange ==
    ASSUME NEW g \in Graphs, NEW h \in Graphs, NEW r \in Nodes,
           h.reply = g.reply, h.status = g.status,
           \A n \in Nodes : /\ h.state[n] = "absent" <=> g.state[n] = "absent"
                            /\ h.state[n] \in Runnable => g.state[n] \in Runnable
    PROVE  /\ Present(h) = Present(g) /\ RefsOf(h) = RefsOf(g)
           /\ Sane(g, r) => Sane(h, r)
<1>1. Present(h) = Present(g)
    BY DEF Present
<1>2. RefsOf(h) = RefsOf(g)
    BY <1>1 DEF RefsOf
<1>3. ASSUME Sane(g, r) PROVE Sane(h, r)
    BY <1>1, <1>2, <1>3, SaneIs, SameShape
<1> QED
    BY <1>1, <1>2, <1>3

LEMMA MarkErrorsIs ==
    ASSUME NEW g \in Graphs, NEW E
    PROVE  /\ MarkErrors(g, E) \in Graphs
           /\ MarkErrors(g, E).reply = g.reply /\ MarkErrors(g, E).status = g.status
           /\ \A n \in Nodes : MarkErrors(g, E).state[n] =
                 IF n \in E /\ g.state[n] \in Runnable THEN "error" ELSE g.state[n]
BY DEF MarkErrors, Graphs, States

LEMMA MarkErrorsKeeps ==
    ASSUME NEW g \in Graphs, NEW E, NEW r \in Nodes
    PROVE  /\ Present(MarkErrors(g, E)) = Present(g) /\ RefsOf(MarkErrors(g, E)) = RefsOf(g)
           /\ Sane(g, r) => Sane(MarkErrors(g, E), r)
<1> DEFINE h == MarkErrors(g, E)
<1>1. /\ h \in Graphs /\ h.reply = g.reply /\ h.status = g.status
      /\ \A n \in Nodes : /\ h.state[n] = "absent" <=> g.state[n] = "absent"
                          /\ h.state[n] \in Runnable => g.state[n] \in Runnable
    BY MarkErrorsIs DEF Runnable
<1> HIDE DEF h
<1>2. /\ Present(h) = Present(g) /\ RefsOf(h) = RefsOf(g) /\ (Sane(g, r) => Sane(h, r))
    BY <1>1, StatesChange
<1> QED
    BY <1>2 DEF h

\* The state of one node.
LEMMA StateIs ==
    ASSUME NEW g \in Graphs, NEW n \in Nodes, NEW s \in States
    PROVE  LET h == [g EXCEPT !.state[n] = s]
           IN /\ h \in Graphs /\ h.reply = g.reply /\ h.status = g.status
              /\ \A m \in Nodes : h.state[m] = IF m = n THEN s ELSE g.state[m]
BY DEF Graphs

LEMMA StateKeeps ==
    ASSUME NEW g \in Graphs, NEW n \in Nodes, NEW s \in States \ {"absent"},
           g.state[n] # "absent", s \in Runnable => g.state[n] \in Runnable, NEW r \in Nodes
    PROVE  LET h == [g EXCEPT !.state[n] = s]
           IN /\ Present(h) = Present(g) /\ RefsOf(h) = RefsOf(g)
              /\ Sane(g, r) => Sane(h, r)
<1> DEFINE h == [g EXCEPT !.state[n] = s]
<1>1. /\ h \in Graphs /\ h.reply = g.reply /\ h.status = g.status
      /\ \A m \in Nodes : h.state[m] = IF m = n THEN s ELSE g.state[m]
    BY StateIs
<1> HIDE DEF h
<1>2. /\ Present(h) = Present(g) /\ RefsOf(h) = RefsOf(g) /\ (Sane(g, r) => Sane(h, r))
    BY <1>1, StatesChange
<1> QED
    BY <1>2 DEF h

\* A new conversation
LEMMA NewRootIs ==
    ASSUME NEW n \in Nodes
    PROVE  LET g == NewRoot(n).graph
           IN /\ g \in Graphs /\ Sane(g, n) /\ g.state[n] = "pending" /\ g.status = {n}
              /\ \A m \in Nodes : m # n => g.state[m] = "absent"
              /\ RefsOf(g) = {Prompt(n), Status(n)}
              /\ NewRoot(n) \in Trees
              /\ NewRoot(n).queue = << >> /\ NewRoot(n).active = NoActive
<1> DEFINE g == NewRoot(n).graph
<1>1. g = [state |-> [m \in Nodes |-> IF m = n THEN "pending" ELSE "absent"],
           reply |-> [m \in Nodes |-> NoRef], status |-> {n}]
    BY DEF NewRoot, NoTree, NoGraph
<1>2. NewRoot(n).queue = << >> /\ NewRoot(n).active = NoActive
    BY DEF NewRoot, NoTree
<1>a. g \in Graphs => NewRoot(n) \in Trees
    <2>1. << >> \in Seq(Nodes) /\ NoActive \in Actives
        BY DEF NoActive, Actives
    <2> QED
        BY <1>2, <2>1 DEF NewRoot, NoTree, Trees
<1> HIDE DEF g
<1>3. /\ g \in Graphs /\ g.state[n] = "pending" /\ g.status = {n}
      /\ \A m \in Nodes : m # n => g.state[m] = "absent"
      /\ \A m \in Nodes : g.reply[m] = NoRef
    BY <1>1 DEF Graphs, States
<1>4. Present(g) = {n}
    BY <1>3 DEF Present
<1>5. RefsOf(g) = {Prompt(n), Status(n)}
    BY <1>3, <1>4 DEF RefsOf
<1>6. Prompt(n) \in ReplySubtree(g, Prompt(n))
    BY <1>3, SubtreeIs, RefFacts
<1>7. Sane(g, n)
    BY <1>3, <1>4, <1>6, SaneIs DEF Runnable
<1> QED
    BY <1>2, <1>a, <1>3, <1>5, <1>7 DEF g

\* A reply to a message of the tree
LEMMA AddNodeIs ==
    ASSUME NEW g \in Graphs, NEW r \in Nodes, Sane(g, r), NEW n \in Nodes, g.state[n] = "absent",
           NEW ref \in RefsOf(g)
    PROVE  LET h == AddNode(g, n, ref)
           IN /\ h \in Graphs /\ Sane(h, r) /\ h.status = g.status \cup {n}
              /\ \A m \in Nodes : h.state[m] = IF m = n THEN "pending" ELSE g.state[m]
              /\ RefsOf(h) = RefsOf(g) \cup {Prompt(n), Status(n)}
<1> DEFINE h == AddNode(g, n, ref)
<1>1. ref \in Refs
    BY RefsOfIs
<1>2. /\ h \in Graphs /\ h.status = g.status \cup {n}
      /\ \A m \in Nodes : /\ h.state[m] = IF m = n THEN "pending" ELSE g.state[m]
                          /\ h.reply[m] = IF m = n THEN ref ELSE g.reply[m]
    BY <1>1 DEF AddNode, Graphs, States
<1> HIDE DEF h
<1>3. Present(h) = Present(g) \cup {n}
    BY <1>2 DEF Present
<1>4. RefsOf(h) = RefsOf(g) \cup {Prompt(n), Status(n)}
    BY <1>2, <1>3 DEF RefsOf
<1>5. /\ n \notin Present(g) /\ r \in Present(g) /\ r # n /\ g.reply[n] = NoRef
      /\ NoRef \notin Refs
    BY SaneIs, GraphIs, RefFacts
<1>6. ASSUME NEW S \in SUBSET Refs, Prompt(r) \in S, ClosedUnderReplies(h, S)
      PROVE  \A m \in Present(h) : Prompt(m) \in S
    <2>1. ClosedUnderReplies(g, S)
        <3>1. ASSUME NEW m \in g.status, Prompt(m) \in S PROVE Status(m) \in S
            BY <1>2, <1>6, <3>1 DEF ClosedUnderReplies
        <3>2. ASSUME NEW m \in Nodes, g.reply[m] \in S PROVE Prompt(m) \in S
            <4>1. m # n
                BY <3>2, <1>5
            <4> QED
                BY <1>2, <1>6, <3>2, <4>1 DEF ClosedUnderReplies
        <3> QED
            BY <3>1, <3>2 DEF ClosedUnderReplies
    <2>2. ReplySubtree(g, Prompt(r)) \subseteq S
        BY <1>6, <2>1, SubtreeIs, RefFacts
    <2>3. \A m \in Present(g) : Prompt(m) \in S
        BY <2>2, SaneIs
    <2>4. ref \in S
        <3>1. CASE \E m \in Present(g) : ref = Prompt(m)
            BY <2>3, <3>1
        <3>2. CASE \E m \in g.status : ref = Status(m)
            <4>1. PICK m \in g.status : ref = Status(m)
                BY <3>2
            <4>2. m \in Present(g) /\ m \in h.status
                BY <1>2, SaneIs
            <4> QED
                BY <1>6, <2>3, <4>1, <4>2 DEF ClosedUnderReplies
        <3> QED
            BY <3>1, <3>2 DEF RefsOf
    <2>5. Prompt(n) \in S
        BY <1>2, <1>6, <2>4 DEF ClosedUnderReplies
    <2> QED
        BY <1>3, <2>3, <2>5
<1>7. \A m \in Present(h) : Prompt(m) \in ReplySubtree(h, Prompt(r))
    <2> TAKE m \in Present(h)
    <2>1. Prompt(m) \in Refs
        BY <1>2, GraphIs, RefFacts
    <2>2. \A S \in SUBSET Refs : Prompt(r) \in S /\ ClosedUnderReplies(h, S) => Prompt(m) \in S
        BY <1>6
    <2> QED
        BY <2>1, <2>2 DEF ReplySubtree
<1>8. \A m \in Present(h) \ {r} : h.reply[m] \in RefsOf(h)
    BY <1>2, <1>3, <1>4, SaneIs, GraphIs
<1>9. Sane(h, r)
    <2>1. r \in Present(h) /\ h.reply[r] = NoRef
        BY <1>2, <1>3, <1>5, SaneIs
    <2>2. \A m \in Nodes : h.state[m] \in Runnable => m \in h.status
        BY <1>2, SaneIs
    <2>3. h.status \subseteq Present(h)
        BY <1>2, <1>3, SaneIs
    <2>4. \A m \in Nodes : m \notin Present(h) => h.reply[m] = NoRef
        BY <1>2, <1>3, SaneIs
    <2> QED
        BY <1>2, <1>7, <1>8, <2>1, <2>2, <2>3, <2>4, SaneIs
<1> QED
    BY <1>2, <1>4, <1>9 DEF h

(***************************************************************************)
(* A clear inside a tree                                                   *)
(***************************************************************************)

\* What RemoveMessageSubtree leaves of the graph.
Cleared(tr, ref) ==
    LET failed == MarkErrors(tr.graph, AffectedNodes(tr, ref))
    IN  RemoveNodes(IF ref[1] = "status" THEN ClearStatus(failed, ref[2]) ELSE failed,
                    RemovedNodes(tr, ref))

LEMMA ClearedStates ==
    ASSUME NEW tr \in Trees, NEW ref \in Refs
    PROVE  LET g == tr.graph
               h == Cleared(tr, ref)
               gone == RemovedNodes(tr, ref)
               hit == AffectedNodes(tr, ref)
           IN /\ h \in Graphs
              /\ \A n \in Nodes : h.reply[n] = IF n \in gone THEN NoRef ELSE g.reply[n]
              /\ \A n \in Nodes : n \in h.status <=> n \in g.status \ gone /\ Status(n) # ref
              /\ \A n \in Nodes : h.state[n] = IF n \in gone THEN "absent"
                                               ELSE IF (n \in hit /\ g.state[n] \in Runnable) \/ ref = Status(n)
                                               THEN "error" ELSE g.state[n]
<1> DEFINE g == tr.graph
           gone == RemovedNodes(tr, ref)
           hit == AffectedNodes(tr, ref)
           f == MarkErrors(g, hit)
           c == IF ref[1] = "status" THEN ClearStatus(f, ref[2]) ELSE f
           h == RemoveNodes(c, gone)
<1>1. g \in Graphs
    BY DEF Trees
<1>2. gone \subseteq Nodes
    BY DEF RemovedNodes
<1> HIDE DEF g, gone, hit
<1>3. /\ f \in Graphs /\ f.reply = g.reply /\ f.status = g.status
      /\ \A n \in Nodes : f.state[n] = IF n \in hit /\ g.state[n] \in Runnable THEN "error"
                                       ELSE g.state[n]
    BY <1>1, MarkErrorsIs
<1> HIDE DEF f
<1>4. \A n \in Nodes : ref = Status(n) <=> ref[1] = "status" /\ ref[2] = n
    BY RefFacts
<1>5. /\ c \in Graphs /\ c.reply = g.reply
      /\ \A n \in Nodes : n \in c.status <=> n \in g.status /\ Status(n) # ref
      /\ \A n \in Nodes : c.state[n] = IF (n \in hit /\ g.state[n] \in Runnable) \/ ref = Status(n)
                                       THEN "error" ELSE g.state[n]
    <2>1. CASE ref[1] = "status"
        <3>1. c = [f EXCEPT !.status = @ \ {ref[2]}, !.state[ref[2]] = "error"]
            BY <2>1 DEF ClearStatus
        <3>2. /\ c \in Graphs /\ c.reply = f.reply /\ c.status = f.status \ {ref[2]}
              /\ \A n \in Nodes : c.state[n] = IF n = ref[2] THEN "error" ELSE f.state[n]
            <4> HIDE DEF c
            <4> QED
                BY <3>1, <1>3 DEF Graphs, States
        <3> HIDE DEF c
        <3> QED
            BY <2>1, <3>2, <1>3, <1>4
    <2>2. CASE ref[1] # "status"
        BY <2>2, <1>3, <1>4
    <2> QED
        BY <2>1, <2>2
<1> HIDE DEF c
<1>6. /\ h \in Graphs
      /\ \A n \in Nodes : h.reply[n] = IF n \in gone THEN NoRef ELSE c.reply[n]
      /\ h.status = c.status \ gone
      /\ \A n \in Nodes : h.state[n] = IF n \in gone THEN "absent" ELSE c.state[n]
    BY <1>2, <1>5 DEF RemoveNodes, Graphs, States
<1>7. h = Cleared(tr, ref)
    BY DEF Cleared, h, c, f, g, gone, hit
<1> HIDE DEF h
<1>8. /\ h \in Graphs
      /\ \A n \in Nodes : h.reply[n] = IF n \in gone THEN NoRef ELSE g.reply[n]
      /\ \A n \in Nodes : n \in h.status <=> n \in g.status \ gone /\ Status(n) # ref
      /\ \A n \in Nodes : h.state[n] = IF n \in gone THEN "absent"
                                       ELSE IF (n \in hit /\ g.state[n] \in Runnable) \/ ref = Status(n)
                                       THEN "error" ELSE g.state[n]
    BY <1>5, <1>6
<1> QED
    BY <1>7, <1>8 DEF g, gone, hit

\* It removes exactly the subtree, and leaves a sane tree behind.
LEMMA ClearedIs ==
    ASSUME NEW tr \in Trees, NEW r \in Nodes, Sane(tr.graph, r), NEW ref \in RefsOf(tr.graph),
           r \notin RemovedNodes(tr, ref)
    PROVE  LET T == ReplySubtree(tr.graph, ref)
           IN /\ RefsOf(Cleared(tr, ref)) = RefsOf(tr.graph) \ T
              /\ Sane(Cleared(tr, ref), r)
<1> DEFINE g == tr.graph
           h == Cleared(tr, ref)
           T == ReplySubtree(g, ref)
           gone == RemovedNodes(tr, ref)
           hit == AffectedNodes(tr, ref)
<1>1. g \in Graphs /\ ref \in Refs
    BY RefsOfIs DEF Trees
<1>2. /\ \A n \in Nodes : n \in gone <=> Prompt(n) \in T
      /\ gone \subseteq hit
    BY DEF RemovedNodes, AffectedNodes
<1>3. /\ h \in Graphs
      /\ \A n \in Nodes : h.reply[n] = IF n \in gone THEN NoRef ELSE g.reply[n]
      /\ \A n \in Nodes : n \in h.status <=> n \in g.status \ gone /\ Status(n) # ref
      /\ \A n \in Nodes : h.state[n] = IF n \in gone THEN "absent"
                                       ELSE IF (n \in hit /\ g.state[n] \in Runnable) \/ ref = Status(n)
                                       THEN "error" ELSE g.state[n]
    BY <1>1, ClearedStates
<1>4. ref \in T /\ T \subseteq Refs /\ ClosedUnderReplies(g, T)
    BY <1>1, SubtreeIs
<1>5. T \subseteq RefsOf(g)
    BY <1>1, SubtreeInTree
<1>6. \A n \in Nodes : Status(n) \in T /\ ref # Status(n) => n \in gone
    BY <1>1, <1>2, StatusReason
<1>7. \A n \in Nodes : ref = Status(n) => n \in Present(g)
    BY <1>1, RefsOfIs, SaneIs
<1>8. r \notin gone /\ Sane(g, r)
    OBVIOUS
<1>d. \A n \in Nodes : ref = Status(n) => n \in hit
    <2>1. \A n \in Nodes : ref = Status(n) => ref[1] = "status" /\ ref[2] = n
        BY RefFacts
    <2> QED
        BY <2>1 DEF AffectedNodes
<1> HIDE DEF g, h, T, gone, hit
<1>9. \A n \in Nodes : n \in Present(h) <=> n \in Present(g) \ gone
    <2>1. \A n \in Nodes : n \in Present(h) <=> h.state[n] # "absent"
        BY <1>3, GraphIs
    <2>2. \A n \in Nodes : n \in Present(g) <=> g.state[n] # "absent"
        BY <1>1, GraphIs
    <2> QED
        BY <1>3, <1>7, <2>1, <2>2 DEF Runnable
<1>10. \A n \in Nodes : /\ Prompt(n) \in RefsOf(h) <=> Prompt(n) \in RefsOf(g) \ T
                        /\ Status(n) \in RefsOf(h) <=> Status(n) \in RefsOf(g) \ T
    <2> TAKE n \in Nodes
    <2>1. /\ Prompt(n) \in RefsOf(h) <=> n \in Present(h)
          /\ Status(n) \in RefsOf(h) <=> n \in h.status
          /\ Prompt(n) \in RefsOf(g) <=> n \in Present(g)
          /\ Status(n) \in RefsOf(g) <=> n \in g.status
        BY <1>1, <1>3, RefsOfIs
    <2>2. n \in g.status /\ n \in gone => Status(n) \in T
        BY <1>2, <1>4 DEF ClosedUnderReplies
    <2> QED
        BY <1>2, <1>3, <1>4, <1>6, <1>9, <2>1, <2>2
<1>11. RefsOf(h) = RefsOf(g) \ T
    <2>1. RefsOf(h) \subseteq Refs /\ RefsOf(g) \subseteq Refs
        BY <1>1, <1>3, RefsOfIs
    <2>2. \A x \in Refs : \E n \in Nodes : x = Prompt(n) \/ x = Status(n)
        BY RefFacts
    <2> QED
        BY <1>10, <2>1, <2>2
<1>12. ASSUME NEW S \in SUBSET Refs, Prompt(r) \in S, ClosedUnderReplies(h, S)
       PROVE  \A n \in Present(h) : Prompt(n) \in S
    <2>1. ClosedUnderReplies(g, S \cup T)
        <3>1. ASSUME NEW n \in g.status, Prompt(n) \in S \cup T PROVE Status(n) \in S \cup T
            <4>1. n \in Nodes
                BY <1>1, GraphIs
            <4>2. CASE Prompt(n) \in T
                BY <4>2, <1>4 DEF ClosedUnderReplies
            <4>3. CASE Prompt(n) \notin T /\ ref = Status(n)
                BY <4>3, <1>4
            <4>4. CASE Prompt(n) \notin T /\ ref # Status(n)
                BY <3>1, <4>1, <4>4, <1>2, <1>3, <1>12 DEF ClosedUnderReplies
            <4> QED
                BY <4>2, <4>3, <4>4
        <3>2. ASSUME NEW n \in Nodes, g.reply[n] \in S \cup T PROVE Prompt(n) \in S \cup T
            <4>1. CASE g.reply[n] \in T \/ n \in gone
                BY <4>1, <1>2, <1>4 DEF ClosedUnderReplies
            <4>2. CASE g.reply[n] \notin T /\ n \notin gone
                BY <3>2, <4>2, <1>3, <1>12 DEF ClosedUnderReplies
            <4> QED
                BY <4>1, <4>2
        <3> QED
            BY <3>1, <3>2 DEF ClosedUnderReplies
    <2>2. S \cup T \in SUBSET Refs /\ Prompt(r) \in S \cup T /\ Prompt(r) \in Refs
        BY <1>4, <1>12
    <2>3. ReplySubtree(g, Prompt(r)) \subseteq S \cup T
        BY <1>1, <2>1, <2>2, SubtreeIs
    <2>4. \A n \in Present(g) : Prompt(n) \in S \cup T
        BY <1>1, <1>8, <2>3, SaneIs
    <2>5. Present(h) \subseteq Nodes
        BY <1>3, GraphIs
    <2> QED
        BY <1>2, <1>9, <2>4, <2>5
<1>13. \A n \in Present(h) : Prompt(n) \in ReplySubtree(h, Prompt(r))
    <2> TAKE n \in Present(h)
    <2>1. Prompt(n) \in Refs
        BY <1>3, GraphIs, RefFacts
    <2>2. \A S \in SUBSET Refs : Prompt(r) \in S /\ ClosedUnderReplies(h, S) => Prompt(n) \in S
        BY <1>12
    <2> QED
        BY <2>1, <2>2 DEF ReplySubtree
<1>14. Sane(h, r)
    <2>0. Present(h) \subseteq Nodes /\ Present(g) \subseteq Nodes
        BY <1>1, <1>3, GraphIs
    <2>1. r \in Present(h) /\ h.reply[r] = NoRef
        BY <1>1, <1>3, <1>8, <1>9, SaneIs
    <2>2. \A n \in Nodes : h.state[n] \in Runnable => n \in h.status
        <3> SUFFICES ASSUME NEW n \in Nodes, h.state[n] \in Runnable PROVE n \in h.status
            OBVIOUS
        <3>1. n \notin gone /\ ref # Status(n) /\ g.state[n] \in Runnable
            BY <1>3 DEF Runnable
        <3> QED
            BY <3>1, <1>1, <1>3, <1>8, SaneIs
    <2>3. h.status \subseteq Present(h)
        <3>1. h.status \subseteq Nodes
            BY <1>3, GraphIs
        <3> QED
            BY <3>1, <1>1, <1>3, <1>8, <1>9, SaneIs
    <2>4. \A n \in Nodes : n \notin Present(h) => h.reply[n] = NoRef
        BY <1>1, <1>3, <1>8, <1>9, SaneIs
    <2>5. \A n \in Present(h) \ {r} : h.reply[n] \in RefsOf(h)
        <3> SUFFICES ASSUME NEW n \in Present(h) \ {r} PROVE h.reply[n] \in RefsOf(h)
            OBVIOUS
        <3>1. n \in Nodes /\ n \notin gone /\ n \in Present(g)
            BY <2>0, <1>9
        <3>2. h.reply[n] = g.reply[n] /\ g.reply[n] \in RefsOf(g)
            BY <3>1, <1>1, <1>3, <1>8, SaneIs
        <3>3. g.reply[n] \notin T
            BY <3>1, <1>2, <1>4 DEF ClosedUnderReplies
        <3> QED
            BY <3>2, <3>3, <1>11
    <2> QED
        BY <1>3, <1>13, <2>1, <2>2, <2>3, <2>4, <2>5, SaneIs
<1> QED
    BY <1>11, <1>14 DEF g, h, T

(***************************************************************************)
(* Trees and their operations                                              *)
(***************************************************************************)

\* The trees as they are kept: their queue and claim in order, and, of a tree
\* that is there, the graph.
Good(tr, r) == QueueSane(tr) /\ ClaimSane(tr) /\ (tr # NoTree => Sane(tr.graph, r))

LEMMA TreesAreGood == TreesAreSane <=> \A r \in Nodes : Good(tree[r], r)
BY DEF TreesAreSane, Good

LEMMA TreeIs ==
    ASSUME NEW tr \in Trees
    PROVE  /\ tr.graph \in Graphs /\ tr.queue \in Seq(Nodes) /\ tr.active \in Actives
           /\ tr = [graph |-> tr.graph, queue |-> tr.queue, active |-> tr.active]
           /\ tr.active.claim \in Claims \cup {NoClaim}
           /\ tr.active.node \in Nodes \cup {NoNode} /\ tr.active.cancelled \in BOOLEAN
BY DEF Trees, Actives

LEMMA ClaimIds == NoClaim \notin Claims /\ Claims \subseteq Nat
BY TreesAssumption DEF NoClaim, Claims

LEMMA NoTreeIs ==
    /\ NoTree \in Trees /\ NoTree.graph = NoGraph /\ NoTree.queue = << >>
    /\ NoTree.active = NoActive /\ NoActive \in Actives
    /\ NoActive.claim = NoClaim /\ NoActive.node = NoNode /\ ~NoActive.cancelled
<1>1. /\ NoActive \in Actives /\ NoActive.claim = NoClaim /\ NoActive.node = NoNode
      /\ ~NoActive.cancelled
    BY DEF NoActive, Actives
<1> QED
    BY <1>1, NoGraphIs, EmptyIs DEF NoTree, Trees

LEMMA NoTreeIsGood == \A r \in Nodes : Good(NoTree, r)
<1> SUFFICES ASSUME NEW r \in Nodes PROVE QueueSane(NoTree) /\ ClaimSane(NoTree)
    BY DEF Good
<1>1. QueueSane(NoTree)
    BY NoTreeIs, NoGraphIs DEF QueueSane, InQueue
<1>2. ClaimSane(NoTree)
    BY NoTreeIs DEF ClaimSane
<1> QED
    BY <1>1, <1>2

\* A tree is busy exactly when it has a claim, and then a node.
LEMMA BusyIs ==
    ASSUME NEW tr \in Trees, ClaimSane(tr)
    PROVE  /\ tr.active = NoActive <=> tr.active.claim = NoClaim
           /\ tr.active # NoActive => tr.active.claim \in Claims /\ tr.active.node \in Nodes
           /\ tr.active.node \in Nodes <=> tr.active # NoActive
<1>1. NoActive.node \notin Nodes /\ NoActive.claim \notin Claims
    BY TreesAssumption, NoTreeIs, ClaimIds
<1> QED
    BY <1>1, NoTreeIs, ClaimIds DEF ClaimSane

\* A tree that is there has a message; its root, for one.
LEMMA TreeIsThere ==
    ASSUME NEW tr \in Trees, NEW r \in Nodes, Good(tr, r)
    PROVE  /\ tr # NoTree => Prompt(r) \in RefsOf(tr.graph) /\ r \in Present(tr.graph)
           /\ RefsOf(tr.graph) # {} => tr # NoTree
           /\ tr.active # NoActive => tr # NoTree
           /\ tr.graph.status \subseteq Present(tr.graph)
           /\ \A n \in Nodes : /\ tr.graph.state[n] \in Runnable => n \in tr.graph.status
                               /\ Status(n) \in RefsOf(tr.graph) => Prompt(n) \in RefsOf(tr.graph)
<1>1. tr.graph \in Graphs
    BY TreeIs
<1>2. CASE tr = NoTree
    BY <1>2, NoTreeIs, NoGraphIs DEF Runnable
<1>3. CASE tr # NoTree
    <2>1. Sane(tr.graph, r)
        BY <1>3 DEF Good
    <2> QED
        BY <1>1, <1>3, <2>1, SaneIs, RefsOfIs, NoTreeIs, NoGraphIs
<1> QED
    BY <1>2, <1>3

\* QueueSane, by the members of the queue.
LEMMA QueueSaneIs ==
    ASSUME NEW tr
    PROVE  QueueSane(tr) <=>
             /\ OnceEach(tr.queue)
             /\ \A n \in Nodes : tr.graph.state[n] = "pending" <=> n \in Members(tr.queue)
             /\ tr.queue # << >> => tr.active # NoActive
             /\ \A n \in Nodes : tr.graph.state[n] = "in_progress" => n = tr.active.node
BY InQueueIs DEF QueueSane, OnceEach

\* What is taken out of the queue is not pending any more.
LEMMA QueueShrinks ==
    ASSUME NEW tr \in Trees, QueueSane(tr), NEW u \in Trees, NEW E,
           u.queue = Dequeued(tr.queue, E), u.active.node = tr.active.node,
           tr.active # NoActive => u.active # NoActive,
           \A n \in Nodes : /\ u.graph.state[n] = "pending"
                               <=> tr.graph.state[n] = "pending" /\ n \notin E
                            /\ u.graph.state[n] = "in_progress"
                               => tr.graph.state[n] = "in_progress"
    PROVE  QueueSane(u)
<1>1. /\ OnceEach(tr.queue) /\ tr.queue \in Seq(Nodes)
      /\ \A n \in Nodes : tr.graph.state[n] = "pending" <=> n \in Members(tr.queue)
      /\ tr.queue # << >> => tr.active # NoActive
      /\ \A n \in Nodes : tr.graph.state[n] = "in_progress" => n = tr.active.node
    BY QueueSaneIs, TreeIs
<1>2. OnceEach(u.queue) /\ Members(u.queue) = Members(tr.queue) \ E
    BY <1>1, DequeuedIs
<1>3. ASSUME tr.queue = << >> PROVE u.queue = << >>
    <2>1. u.queue \in Seq(Nodes) /\ Members(u.queue) = {}
        BY <1>2, <1>3, EmptyIs, TreeIs
    <2> QED
        BY <2>1, NoMembers
<1> QED
    BY <1>1, <1>2, <1>3, QueueSaneIs

\* An active record is a value of three fields.
LEMMA ActiveIs ==
    ASSUME NEW a \in Actives, NEW b \in BOOLEAN
    PROVE  LET e == [a EXCEPT !.cancelled = b]
           IN /\ e \in Actives /\ e.claim = a.claim /\ e.node = a.node /\ e.cancelled = b
BY DEF Actives

LEMMA SameActive ==
    ASSUME NEW a \in Actives, NEW e \in Actives, e.claim = a.claim, e.node = a.node,
           e.cancelled <=> a.cancelled
    PROVE  e = a
BY DEF Actives

\* Only the claim decides whether a tree is busy.
LEMMA StaysBusy ==
    ASSUME NEW tr \in Trees, ClaimSane(tr), NEW u \in Trees,
           u.active.claim = tr.active.claim
    PROVE  tr.active # NoActive => u.active # NoActive
BY BusyIs, NoTreeIs

\* claim: the turn that starts
LEMMA ClaimedIs ==
    ASSUME NEW tr \in Trees, NEW n \in Nodes, NEW c \in Claims
    PROVE  /\ Claimed(tr, n, c) \in Trees /\ Claimed(tr, n, c).queue = tr.queue
           /\ Claimed(tr, n, c).graph.status = tr.graph.status
           /\ \A m \in Nodes : Claimed(tr, n, c).graph.state[m] =
                 IF m = n THEN "in_progress" ELSE tr.graph.state[m]
           /\ tr.graph.state[n] = "pending" => RefsOf(Claimed(tr, n, c).graph) = RefsOf(tr.graph)
           /\ \A r \in Nodes : tr.graph.state[n] = "pending" /\ Sane(tr.graph, r)
                                => Sane(Claimed(tr, n, c).graph, r)
           /\ Claimed(tr, n, c).active \in Actives /\ Claimed(tr, n, c).active # NoActive
           /\ Claimed(tr, n, c).active.claim = c /\ Claimed(tr, n, c).active.node = n
           /\ ~Claimed(tr, n, c).active.cancelled
<1>1. tr.graph \in Graphs
    BY TreeIs
<1> DEFINE h == [tr.graph EXCEPT !.state[n] = "in_progress"]
<1>2. /\ h \in Graphs /\ h.status = tr.graph.status
      /\ \A m \in Nodes : h.state[m] = IF m = n THEN "in_progress" ELSE tr.graph.state[m]
    BY <1>1, StateIs DEF States
<1>b. ASSUME tr.graph.state[n] = "pending", NEW r \in Nodes
      PROVE  RefsOf(h) = RefsOf(tr.graph) /\ (Sane(tr.graph, r) => Sane(h, r))
    BY <1>1, <1>b, StateKeeps DEF States, Runnable
<1>c. tr.graph.state[n] = "pending" => RefsOf(h) = RefsOf(tr.graph)
    BY <1>b
<1>3. Claimed(tr, n, c).graph = h
    BY DEF Claimed, Trees
<1>4. /\ Claimed(tr, n, c).queue = tr.queue
      /\ Claimed(tr, n, c).active = [claim |-> c, node |-> n, cancelled |-> FALSE]
    BY DEF Claimed, Trees
<1> DEFINE a == [claim |-> c, node |-> n, cancelled |-> FALSE]
<1>5. a \in Actives /\ a.claim = c /\ a.node = n /\ ~a.cancelled
    BY DEF Actives
<1> HIDE DEF a
<1>6. a # NoActive
    BY <1>5, NoTreeIs, ClaimIds
<1>7. Claimed(tr, n, c) \in Trees
    BY <1>2, <1>5 DEF Claimed, Trees, a
<1> HIDE DEF h
<1> QED
    BY <1>2, <1>b, <1>c, <1>3, <1>4, <1>5, <1>6, <1>7 DEF a

\* A turn that takes the claim of a tree that was idle or has just let its
\* claim go: nothing else of it is in progress, and the turn is in the queue no
\* more.
LEMMA ClaimedKeeps ==
    ASSUME NEW tr \in Trees, NEW r \in Nodes, Sane(tr.graph, r), OnceEach(tr.queue),
           NEW n \in Nodes, NEW c \in Claims, tr.graph.state[n] = "pending",
           n \notin Members(tr.queue),
           \A m \in Nodes : tr.graph.state[m] = "pending" <=> m = n \/ m \in Members(tr.queue),
           \A m \in Nodes : tr.graph.state[m] # "in_progress"
    PROVE  Good(Claimed(tr, n, c), r) /\ RefsOf(Claimed(tr, n, c).graph) = RefsOf(tr.graph)
<1> DEFINE u == Claimed(tr, n, c)
<1>1. /\ u \in Trees /\ u.queue = tr.queue /\ u.active # NoActive
      /\ u.active.claim = c /\ u.active.node = n /\ ~u.active.cancelled
    BY ClaimedIs
<1>2. tr.graph \in Graphs
    BY TreeIs
<1>3. /\ u.graph.status = tr.graph.status
      /\ \A m \in Nodes : u.graph.state[m] = IF m = n THEN "in_progress" ELSE tr.graph.state[m]
    BY ClaimedIs
<1>4. RefsOf(u.graph) = RefsOf(tr.graph) /\ Sane(u.graph, r)
    BY ClaimedIs
<1> HIDE DEF u
<1>5. QueueSane(u)
    BY <1>1, <1>3, QueueSaneIs
<1>6. n \in tr.graph.status
    BY <1>2, SaneIs DEF Runnable
<1>7. ClaimSane(u)
    BY <1>1, <1>3, <1>6 DEF ClaimSane
<1> QED
    BY <1>4, <1>5, <1>7 DEF u, Good

\* FinishAndClaimNext, when no turn is in progress any more: the first turn
\* that waits takes the claim over, or the tree is idle.
LEMMA FinishIs ==
    ASSUME NEW tr \in Trees, NEW r \in Nodes, Good(tr, r), NEW c \in Claims,
           tr.active.claim = c, \A n \in Nodes : tr.graph.state[n] # "in_progress"
    PROVE  LET u == FinishAndClaimNext(tr, c)
           IN /\ u \in Trees /\ Good(u, r) /\ RefsOf(u.graph) = RefsOf(tr.graph)
              /\ u.active.claim = c => /\ u.active.node \in Nodes /\ ~u.active.cancelled
                                       /\ u # NoTree
              /\ u.active.claim # c => u.active = NoActive
              /\ u # NoTree
              /\ \A m \in Nodes : u.graph.state[m] \in {tr.graph.state[m], "in_progress"}
<1> DEFINE q == tr.queue
           pending == {i \in DOMAIN q : tr.graph.state[q[i]] = "pending"}
           first == CHOOSE i \in pending : \A j \in pending : i <= j
           idle == [tr EXCEPT !.active = NoActive]
<1>1. /\ tr.active # NoActive /\ tr # NoTree /\ Sane(tr.graph, r)
      /\ QueueSane(tr) /\ ClaimSane(tr)
    BY NoTreeIs, ClaimIds DEF Good
<1>2. /\ OnceEach(q) /\ q \in Seq(Nodes) /\ tr.graph \in Graphs
      /\ \A n \in Nodes : tr.graph.state[n] = "pending" <=> n \in Members(q)
    BY <1>1, QueueSaneIs, TreeIs
<1>3. /\ DOMAIN q = 1 .. Len(q) /\ Len(q) \in Nat /\ \A i \in DOMAIN q : q[i] \in Nodes
    BY <1>2
<1>4. pending = DOMAIN q
    BY <1>2, <1>3 DEF Members
<1>5. FinishAndClaimNext(tr, c) =
         IF pending = {} THEN [idle EXCEPT !.queue = <<>>]
         ELSE Claimed([idle EXCEPT !.queue = SubSeq(@, first + 1, Len(@))], q[first], c)
    BY DEF FinishAndClaimNext
<1>6. /\ idle \in Trees /\ idle.graph = tr.graph /\ idle.queue = q /\ idle.active = NoActive
    BY NoTreeIs DEF Trees
<1>7. CASE pending = {}
    <2> DEFINE u == [idle EXCEPT !.queue = <<>>]
    <2>1. /\ u \in Trees /\ u.graph = tr.graph /\ u.queue = << >> /\ u.active = NoActive
        BY <1>6, EmptyIs DEF Trees
    <2>2. FinishAndClaimNext(tr, c) = u
        BY <1>5, <1>7
    <2> HIDE DEF u
    <2>3. Members(q) = {}
        BY <1>4, <1>7 DEF Members
    <2>4. QueueSane(u)
        BY <1>2, <2>1, <2>3, EmptyIs, QueueSaneIs
    <2>5. ClaimSane(u)
        BY <2>1 DEF ClaimSane
    <2>6. u.graph # NoGraph
        BY <1>1, <2>1, <1>2, SaneIs, NoGraphIs
    <2>7. u # NoTree /\ u.active.claim # c
        BY <2>1, <2>6, NoTreeIs, ClaimIds
    <2> QED
        BY <1>1, <2>1, <2>2, <2>4, <2>5, <2>7 DEF Good
<1>8. CASE pending # {}
    <2>1. 1 \in pending /\ \A j \in pending : 1 <= j /\ (j <= 1 => j = 1)
        BY <1>3, <1>4, <1>8
    <2>2. first = 1
        BY <2>1
    <2> HIDE DEF first
    <2> DEFINE rest == SubSeq(q, 2, Len(q))
               v == [idle EXCEPT !.queue = rest]
               n == q[1]
    <2>3. FinishAndClaimNext(tr, c) = Claimed(v, n, c)
        <3>0. first + 1 = 2
            BY <2>2
        <3> HIDE DEF idle
        <3>1. [idle EXCEPT !.queue = SubSeq(@, first + 1, Len(@))] = v
            BY <3>0, <1>6
        <3> QED
            BY <1>5, <1>8, <2>2, <3>1
    <2>4. n \in Nodes /\ tr.graph.state[n] = "pending"
        BY <1>3, <2>1
    <2>5. /\ rest \in Seq(Nodes) /\ DOMAIN rest = 1 .. Len(q) - 1
          /\ \A i \in 1 .. Len(q) - 1 : rest[i] = q[i + 1] /\ i + 1 \in DOMAIN q
        BY <1>2, <1>3, <2>1
    <2>6. \A i \in DOMAIN q : i # 1 => i - 1 \in 1 .. Len(q) - 1 /\ (i - 1) + 1 = i
        BY <1>3
    <2> HIDE DEF rest
    <2>7. OnceEach(rest)
        <3> SUFFICES ASSUME NEW i \in 1 .. Len(q) - 1, NEW j \in 1 .. Len(q) - 1, rest[i] = rest[j]
                     PROVE  i = j
            BY <2>5 DEF OnceEach
        <3>1. i + 1 \in DOMAIN q /\ j + 1 \in DOMAIN q /\ q[i + 1] = q[j + 1]
            BY <2>5
        <3>2. i + 1 = j + 1
            BY <1>2, <3>1 DEF OnceEach
        <3> QED
            BY <3>2
    <2>8. Members(q) = Members(rest) \cup {n} /\ n \notin Members(rest)
        <3>1. ASSUME NEW i \in 1 .. Len(q) - 1 PROVE rest[i] \in Members(q) /\ rest[i] # n
            <4>1. i + 1 \in DOMAIN q /\ rest[i] = q[i + 1] /\ i + 1 # 1 /\ 1 \in DOMAIN q
                BY <2>1, <2>5
            <4>2. q[i + 1] # q[1]
                BY <1>2, <4>1 DEF OnceEach
            <4> QED
                BY <4>1, <4>2 DEF Members
        <3>2. \A i \in DOMAIN q : i # 1 => q[i] \in Members(rest)
            BY <2>5, <2>6 DEF Members
        <3>3. Members(rest) \subseteq Members(q) /\ n \notin Members(rest) /\ n \in Members(q)
            <4>1. 1 \in DOMAIN q
                BY <2>1
            <4> QED
                BY <2>5, <3>1, <4>1 DEF Members
        <3>4. \A x \in Members(q) : x = n \/ x \in Members(rest)
            BY <3>2 DEF Members
        <3> QED
            BY <3>3, <3>4
    <2> HIDE DEF rest, n
    <2>9. v \in Trees /\ v.graph = tr.graph /\ v.queue = rest
        BY <1>6, <2>5 DEF Trees
    <2> HIDE DEF v
    <2>10. \A m \in Nodes : v.graph.state[m] = "pending" <=> m = n \/ m \in Members(v.queue)
        BY <1>2, <2>8, <2>9
    <2>11. Good(Claimed(v, n, c), r) /\ RefsOf(Claimed(v, n, c).graph) = RefsOf(v.graph)
        BY <1>1, <2>4, <2>7, <2>8, <2>9, <2>10, ClaimedKeeps
    <2>12. /\ Claimed(v, n, c) \in Trees /\ Claimed(v, n, c).active.claim = c
           /\ Claimed(v, n, c).active.node = n /\ ~Claimed(v, n, c).active.cancelled
           /\ Claimed(v, n, c).active # NoActive
           /\ \A m \in Nodes : Claimed(v, n, c).graph.state[m] =
                 IF m = n THEN "in_progress" ELSE v.graph.state[m]
        <3>1. v \in Trees /\ n \in Nodes /\ c \in Claims
            BY <2>4, <2>9
        <3> QED
            BY <3>1, ClaimedIs
    <2> QED
        BY <2>3, <2>4, <2>9, <2>11, <2>12, NoTreeIs
<1> QED
    BY <1>7, <1>8

\* The graph of a tree, and its graph and queue together, replaced
LEMMA WithGraph ==
    ASSUME NEW tr \in Trees, NEW h \in Graphs
    PROVE  LET u == [tr EXCEPT !.graph = h]
           IN /\ u \in Trees /\ u.graph = h /\ u.queue = tr.queue /\ u.active = tr.active
BY DEF Trees

\* admit, of a new conversation
LEMMA RootIs ==
    ASSUME NEW n \in Nodes, NEW c \in Claims
    PROVE  LET u == EnqueueOrClaim(NewRoot(n), n, c)
           IN /\ u \in Trees /\ Good(u, n) /\ RefsOf(u.graph) = {Prompt(n), Status(n)}
              /\ u.active.claim = c /\ u.active.node = n /\ ~u.active.cancelled
<1> DEFINE t == NewRoot(n)
           u == EnqueueOrClaim(t, n, c)
<1>1. /\ t \in Trees /\ t.queue = << >> /\ t.active = NoActive /\ Sane(t.graph, n)
      /\ t.graph.state[n] = "pending" /\ RefsOf(t.graph) = {Prompt(n), Status(n)}
      /\ \A m \in Nodes : m # n => t.graph.state[m] = "absent"
    BY NewRootIs
<1> HIDE DEF t
<1>2. u = Claimed(t, n, c)
    BY <1>1 DEF EnqueueOrClaim
<1> HIDE DEF u
<1>3. OnceEach(t.queue) /\ Members(t.queue) = {}
    BY <1>1, EmptyIs
<1>4. Good(u, n) /\ RefsOf(u.graph) = RefsOf(t.graph)
    BY <1>1, <1>2, <1>3, ClaimedKeeps
<1>5. u \in Trees /\ u.active.claim = c /\ u.active.node = n /\ ~u.active.cancelled
    BY <1>1, <1>2, ClaimedIs
<1> QED
    BY <1>1, <1>4, <1>5 DEF u, t

\* A reply in the tree
WithReply(tr, n, ref) == [tr EXCEPT !.graph = AddNode(@, n, ref)]

\* admit, of a reply: an idle tree claims it, a busy one lets it wait.
LEMMA ReplyIs ==
    ASSUME NEW tr \in Trees, NEW r \in Nodes, Good(tr, r), tr # NoTree, NEW n \in Nodes,
           tr.graph.state[n] = "absent", NEW ref \in RefsOf(tr.graph), NEW c,
           tr.active = NoActive => c \in Claims,
           NEW u, u = EnqueueOrClaim(WithReply(tr, n, ref), n, c)
    PROVE  /\ u \in Trees /\ Good(u, r)
           /\ RefsOf(u.graph) = RefsOf(tr.graph) \cup {Prompt(n), Status(n)}
           /\ tr.active # NoActive => u.active = tr.active
           /\ tr.active = NoActive => /\ u.active.claim = c /\ u.active.node = n
                                      /\ ~u.active.cancelled
           /\ u.graph.state[n] # "absent"
           /\ \A m \in Nodes : m # n => u.graph.state[m] = tr.graph.state[m]
<1> DEFINE g == tr.graph
           h == AddNode(g, n, ref)
           t == [tr EXCEPT !.graph = h]
<1>1. g \in Graphs /\ Sane(g, r) /\ QueueSane(tr) /\ ClaimSane(tr)
    BY TreeIs DEF Good
<1>2. /\ h \in Graphs /\ Sane(h, r) /\ h.status = g.status \cup {n}
      /\ \A m \in Nodes : h.state[m] = IF m = n THEN "pending" ELSE g.state[m]
      /\ RefsOf(h) = RefsOf(g) \cup {Prompt(n), Status(n)}
    BY <1>1, AddNodeIs
<1> HIDE DEF h
<1>3. t \in Trees /\ t.graph = h /\ t.queue = tr.queue /\ t.active = tr.active
    BY <1>2, WithGraph
<1>4. WithReply(tr, n, ref) = t
    BY DEF h, WithReply
<1>5. /\ OnceEach(tr.queue) /\ tr.queue \in Seq(Nodes)
      /\ \A m \in Nodes : g.state[m] = "pending" <=> m \in Members(tr.queue)
      /\ tr.queue # << >> => tr.active # NoActive
      /\ \A m \in Nodes : g.state[m] = "in_progress" => m = tr.active.node
    BY <1>1, QueueSaneIs, TreeIs
<1>6. n \notin Members(tr.queue) /\ g.state[n] = "absent"
    BY <1>5
<1>h. t.graph.state[n] = "pending" /\ h.state[n] = "pending"
    BY <1>2, <1>3
<1>i. u = EnqueueOrClaim(t, n, c)
    BY <1>4
<1> HIDE DEF t
<1>7. CASE tr.active = NoActive
    <2>1. u = Claimed(t, n, c) /\ c \in Claims
        BY <1>7, <1>3, <1>h, <1>i DEF EnqueueOrClaim
    <2>2. \A m \in Nodes : t.graph.state[m] # "in_progress"
        BY <1>2, <1>3, <1>5, <1>7, BusyIs, <1>1
    <2>3. \A m \in Nodes : t.graph.state[m] = "pending" <=> m = n \/ m \in Members(t.queue)
        BY <1>2, <1>3, <1>5
    <2>4. Good(u, r) /\ RefsOf(u.graph) = RefsOf(t.graph)
        BY <1>2, <1>3, <1>5, <1>6, <1>h, <2>1, <2>2, <2>3, ClaimedKeeps
    <2>5. /\ u \in Trees /\ u.active.claim = c /\ u.active.node = n /\ ~u.active.cancelled
          /\ \A m \in Nodes : u.graph.state[m] = IF m = n THEN "in_progress" ELSE t.graph.state[m]
        BY <1>3, <2>1, ClaimedIs
    <2> QED
        BY <1>2, <1>3, <1>7, <2>4, <2>5
<1>8. CASE tr.active # NoActive
    <2>1. u = [t EXCEPT !.queue = Append(@, n)]
        BY <1>8, <1>3, <1>6, <1>h, <1>i, InQueueIs DEF EnqueueOrClaim
    <2>2. /\ Append(tr.queue, n) \in Seq(Nodes)
          /\ Members(Append(tr.queue, n)) = Members(tr.queue) \cup {n}
          /\ OnceEach(Append(tr.queue, n))
        BY <1>5, <1>6, AppendIs
    <2>3. u \in Trees /\ u.graph = h /\ u.queue = Append(tr.queue, n) /\ u.active = tr.active
        BY <1>3, <2>1, <2>2 DEF Trees
    <2>4. \A m \in Nodes : u.graph.state[m] = "pending" <=> m \in Members(u.queue)
        BY <1>2, <1>5, <2>2, <2>3
    <2>5. \A m \in Nodes : u.graph.state[m] = "in_progress" => m = u.active.node
        BY <1>2, <1>5, <2>3
    <2>6. QueueSane(u)
        BY <1>8, <2>2, <2>3, <2>4, <2>5, QueueSaneIs
    <2>7. ClaimSane(u)
        <3>1. /\ tr.active.claim \in Claims /\ tr.active.node \in Nodes
              /\ IF tr.active.cancelled THEN g.state[tr.active.node] # "in_progress"
                 ELSE /\ g.state[tr.active.node] \notin {"pending", "absent"}
                      /\ tr.active.node \in g.status
            BY <1>1, <1>8 DEF ClaimSane
        <3> QED
            BY <1>2, <1>6, <2>3, <3>1 DEF ClaimSane
    <2>8. Good(u, r)
        BY <1>2, <2>3, <2>6, <2>7 DEF Good
    <2> QED
        BY <1>2, <1>8, <2>3, <2>8
<1> QED
    BY <1>7, <1>8

\* admit, of a message that is there: a turn that waits is in the queue.
LEMMA DuplicateIs ==
    ASSUME NEW tr \in Trees, QueueSane(tr), NEW n \in Nodes, NEW c
    PROVE  EnqueueOrClaim(tr, n, c) = tr
<1>1. /\ tr.graph.state[n] = "pending" => n \in Members(tr.queue)
      /\ tr.queue # << >> => tr.active # NoActive
    BY QueueSaneIs
<1>2. n \in Members(tr.queue) => tr.queue # << >>
    BY EmptyIs
<1> QED
    BY <1>1, <1>2, InQueueIs DEF EnqueueOrClaim

\* cancel_node
LEMMA CancelNodeIs ==
    ASSUME NEW tr \in Trees, NEW r \in Nodes, Good(tr, r), tr # NoTree, NEW n \in Nodes
    PROVE  LET u == CancelNode(tr, n)
           IN /\ u \in Trees /\ Good(u, r) /\ RefsOf(u.graph) = RefsOf(tr.graph)
              /\ u.active.claim = tr.active.claim /\ u.active.node = tr.active.node
              /\ u.active.cancelled <=> tr.active.cancelled \/ tr.active.node = n
              /\ \A m \in Nodes : u.graph.state[m] =
                    IF m = n /\ tr.graph.state[m] \in Runnable THEN "error" ELSE tr.graph.state[m]
<1> DEFINE g == tr.graph
           u == CancelNode(tr, n)
           b == tr.active.cancelled \/ tr.active.node = n
           h == MarkErrors(g, {n})
           q == Dequeued(tr.queue, {n})
           a == [tr.active EXCEPT !.cancelled = b]
<1>1. /\ g \in Graphs /\ Sane(g, r) /\ QueueSane(tr) /\ ClaimSane(tr) /\ OnceEach(tr.queue)
      /\ tr.queue \in Seq(Nodes) /\ tr.active \in Actives
    BY TreeIs, QueueSaneIs DEF Good
<1>2. /\ h \in Graphs /\ h.status = g.status
      /\ \A m \in Nodes : h.state[m] = IF m = n /\ g.state[m] \in Runnable THEN "error" ELSE g.state[m]
      /\ Sane(h, r) /\ RefsOf(h) = RefsOf(g)
    BY <1>1, MarkErrorsIs, MarkErrorsKeeps
<1>3. q \in Seq(Nodes)
    BY <1>1, DequeuedIs
<1>4. /\ a \in Actives /\ a.claim = tr.active.claim /\ a.node = tr.active.node /\ (a.cancelled <=> b)
    <2>1. b \in BOOLEAN
        BY TreeIs
    <2> QED
        BY <1>1, <2>1, ActiveIs
<1>5. a = [tr.active EXCEPT !.cancelled = @ \/ tr.active.node = n]
    BY <1>1 DEF Actives
<1>6. u.graph = h /\ u.queue = q /\ u.active = a
    BY <1>5 DEF CancelNode, Trees
<1>7. u \in Trees
    BY <1>2, <1>3, <1>4, <1>5 DEF CancelNode, Trees
<1> HIDE DEF a, b, h, u
<1>8. tr.active # NoActive => u.active # NoActive
    BY <1>1, <1>4, <1>6, <1>7, StaysBusy
<1>9. QueueSane(u)
    <2>1. \A m \in Nodes : /\ u.graph.state[m] = "pending"
                               <=> tr.graph.state[m] = "pending" /\ m \notin {n}
                           /\ u.graph.state[m] = "in_progress" => tr.graph.state[m] = "in_progress"
        BY <1>2, <1>6 DEF Runnable
    <2> QED
        BY <1>1, <1>4, <1>6, <1>7, <1>8, <2>1, QueueShrinks
<1>10. ClaimSane(u)
    <2> SUFFICES ASSUME u.active # NoActive
                 PROVE  /\ u.active.claim \in Claims /\ u.active.node \in Nodes
                        /\ IF u.active.cancelled THEN u.graph.state[u.active.node] # "in_progress"
                           ELSE /\ u.graph.state[u.active.node] \notin {"pending", "absent"}
                                /\ u.active.node \in u.graph.status
        BY DEF ClaimSane
    <2>1. tr.active # NoActive
        <3>1. ASSUME tr.active = NoActive PROVE u.active = NoActive
            <4>1. ~b /\ ~tr.active.cancelled
                BY <3>1, NoTreeIs, TreesAssumption DEF b
            <4> QED
                BY <1>1, <1>4, <1>6, <4>1, <3>1, SameActive
        <3> QED
            BY <3>1
    <2>2. /\ tr.active.claim \in Claims /\ tr.active.node \in Nodes
          /\ IF tr.active.cancelled THEN g.state[tr.active.node] # "in_progress"
             ELSE /\ g.state[tr.active.node] \notin {"pending", "absent"}
                  /\ tr.active.node \in g.status
        BY <1>1, <2>1 DEF ClaimSane
    <2> QED
        BY <1>2, <1>4, <1>6, <2>2 DEF b, Runnable
<1> QED
    BY <1>2, <1>4, <1>6, <1>7, <1>9, <1>10 DEF Good, b, u

\* cancel_all
LEMMA CancelAllIs ==
    ASSUME NEW tr \in Trees, NEW r \in Nodes, Good(tr, r), tr # NoTree
    PROVE  LET u == CancelAll(tr)
           IN /\ u \in Trees /\ Good(u, r) /\ RefsOf(u.graph) = RefsOf(tr.graph)
              /\ u.active.claim = tr.active.claim /\ u.active.node = tr.active.node
              /\ tr.active # NoActive => u.active.cancelled
              /\ tr.active = NoActive => u.active = NoActive
              /\ \A m \in Nodes : u.graph.state[m] =
                    IF tr.graph.state[m] \in Runnable THEN "error" ELSE tr.graph.state[m]
<1> DEFINE g == tr.graph
           u == CancelAll(tr)
           b == tr.active # NoActive
           h == MarkErrors(g, Nodes)
           a == [tr.active EXCEPT !.cancelled = b]
<1>1. /\ g \in Graphs /\ Sane(g, r) /\ QueueSane(tr) /\ ClaimSane(tr) /\ tr.active \in Actives
    BY TreeIs DEF Good
<1>2. /\ h \in Graphs /\ h.status = g.status
      /\ \A m \in Nodes : h.state[m] = IF g.state[m] \in Runnable THEN "error" ELSE g.state[m]
      /\ Sane(h, r) /\ RefsOf(h) = RefsOf(g)
    BY <1>1, MarkErrorsIs, MarkErrorsKeeps
<1>4. /\ a \in Actives /\ a.claim = tr.active.claim /\ a.node = tr.active.node /\ (a.cancelled <=> b)
    <2>1. b \in BOOLEAN
        OBVIOUS
    <2> HIDE DEF b
    <2> QED
        BY <1>1, <2>1, ActiveIs
<1>6. u.graph = h /\ u.queue = << >> /\ u.active = a
    BY DEF CancelAll, Trees
<1>7. u \in Trees
    BY <1>2, <1>4, EmptyIs DEF CancelAll, Trees
<1>5. tr.active = NoActive => a = tr.active
    <2>1. b <=> tr.active # NoActive
        BY DEF b
    <2> HIDE DEF a, b
    <2> QED
        BY <1>1, <1>4, <2>1, NoTreeIs, SameActive
<1>a. b <=> tr.active # NoActive
    BY DEF b
<1> HIDE DEF a, b, h, u
<1>8. \A m \in Nodes : u.graph.state[m] \notin Runnable
    BY <1>2, <1>6 DEF Runnable
<1>9. QueueSane(u)
    BY <1>6, <1>8, EmptyIs, QueueSaneIs DEF Runnable
<1>10. ClaimSane(u)
    <2> SUFFICES ASSUME u.active # NoActive
                 PROVE  /\ u.active.claim \in Claims /\ u.active.node \in Nodes
                        /\ u.active.cancelled /\ u.graph.state[u.active.node] # "in_progress"
        BY DEF ClaimSane
    <2>1. tr.active # NoActive
        BY <1>5, <1>6
    <2>2. tr.active.claim \in Claims /\ tr.active.node \in Nodes
        BY <1>1, <2>1 DEF ClaimSane
    <2> QED
        BY <1>4, <1>6, <1>8, <1>a, <2>1, <2>2 DEF Runnable
<1> QED
    BY <1>2, <1>4, <1>5, <1>6, <1>7, <1>9, <1>10, <1>a DEF Good, u

\* remove_message_subtree, when the root is not removed
LEMMA RemoveIs ==
    ASSUME NEW tr \in Trees, NEW r \in Nodes, Good(tr, r), tr # NoTree,
           NEW ref \in RefsOf(tr.graph), r \notin RemovedNodes(tr, ref)
    PROVE  LET u == RemoveMessageSubtree(tr, ref)
           IN /\ u \in Trees /\ Good(u, r)
              /\ RefsOf(u.graph) = RefsOf(tr.graph) \ ReplySubtree(tr.graph, ref)
              /\ u.active.claim = tr.active.claim /\ u.active.node = tr.active.node
              /\ u.active.cancelled
                    <=> tr.active.cancelled \/ tr.active.node \in AffectedNodes(tr, ref)
              /\ \A n \in Nodes : u.graph.state[n] = "in_progress"
                                  => tr.graph.state[n] = "in_progress"
<1> DEFINE g == tr.graph
           u == RemoveMessageSubtree(tr, ref)
           hit == AffectedNodes(tr, ref)
           gone == RemovedNodes(tr, ref)
           b == tr.active.cancelled \/ tr.active.node \in hit
           h == Cleared(tr, ref)
           q == Dequeued(tr.queue, hit)
           a == [tr.active EXCEPT !.cancelled = b]
<1>1. /\ g \in Graphs /\ Sane(g, r) /\ QueueSane(tr) /\ ClaimSane(tr) /\ OnceEach(tr.queue)
      /\ tr.queue \in Seq(Nodes) /\ tr.active \in Actives /\ ref \in Refs
    BY TreeIs, QueueSaneIs, RefsOfIs DEF Good
<1>2. /\ h \in Graphs
      /\ \A n \in Nodes : n \in h.status <=> n \in g.status \ gone /\ Status(n) # ref
      /\ \A n \in Nodes : h.state[n] = IF n \in gone THEN "absent"
                                       ELSE IF (n \in hit /\ g.state[n] \in Runnable) \/ ref = Status(n)
                                       THEN "error" ELSE g.state[n]
    BY <1>1, ClearedStates
<1>3. Sane(h, r) /\ RefsOf(h) = RefsOf(g) \ ReplySubtree(g, ref)
    BY <1>1, ClearedIs
<1>4. q \in Seq(Nodes)
    BY <1>1, DequeuedIs
<1>5. gone \subseteq hit /\ hit \subseteq Nodes /\ \A n \in Nodes : ref = Status(n) => n \in hit
    <2>1. \A n \in Nodes : ref = Status(n) => ref[1] = "status" /\ ref[2] = n
        BY RefFacts
    <2>2. ref[2] \in Nodes
        BY <1>1, RefFacts
    <2> QED
        BY <2>1, <2>2 DEF AffectedNodes, RemovedNodes
<1>6. /\ a \in Actives /\ a.claim = tr.active.claim /\ a.node = tr.active.node /\ (a.cancelled <=> b)
    <2>1. b \in BOOLEAN
        BY TreeIs
    <2> QED
        BY <1>1, <2>1, ActiveIs
<1>7. a = [tr.active EXCEPT !.cancelled = @ \/ tr.active.node \in hit]
    BY <1>1 DEF Actives
<1>8. u.graph = h
    BY DEF RemoveMessageSubtree, Trees, Cleared
<1>9. u.queue = q /\ u.active = a
    BY <1>7 DEF RemoveMessageSubtree, Trees
<1>10. u \in Trees
    BY <1>2, <1>4, <1>6, <1>7 DEF RemoveMessageSubtree, Trees, Cleared
<1> HIDE DEF a, b, h, u, hit, gone
<1>11. tr.active # NoActive => u.active # NoActive
    BY <1>1, <1>6, <1>9, <1>10, StaysBusy
<1>12. QueueSane(u)
    <2>1. \A m \in Nodes : /\ u.graph.state[m] = "pending"
                               <=> tr.graph.state[m] = "pending" /\ m \notin hit
                           /\ u.graph.state[m] = "in_progress" => tr.graph.state[m] = "in_progress"
        BY <1>2, <1>5, <1>8 DEF Runnable
    <2> QED
        BY <1>1, <1>6, <1>9, <1>10, <1>11, <2>1, QueueShrinks
<1>13. ClaimSane(u)
    <2> SUFFICES ASSUME u.active # NoActive
                 PROVE  /\ u.active.claim \in Claims /\ u.active.node \in Nodes
                        /\ IF u.active.cancelled THEN u.graph.state[u.active.node] # "in_progress"
                           ELSE /\ u.graph.state[u.active.node] \notin {"pending", "absent"}
                                /\ u.active.node \in u.graph.status
        BY DEF ClaimSane
    <2>1. tr.active # NoActive
        <3>1. ASSUME tr.active = NoActive PROVE u.active = NoActive
            <4>1. ~b /\ ~tr.active.cancelled
                BY <1>5, <3>1, NoTreeIs, TreesAssumption DEF b
            <4> QED
                BY <1>1, <1>6, <1>9, <4>1, <3>1, SameActive
        <3> QED
            BY <3>1
    <2>2. /\ tr.active.claim \in Claims /\ tr.active.node \in Nodes
          /\ IF tr.active.cancelled THEN g.state[tr.active.node] # "in_progress"
             ELSE /\ g.state[tr.active.node] \notin {"pending", "absent"}
                  /\ tr.active.node \in g.status
        BY <1>1, <2>1 DEF ClaimSane
    <2>3. b <=> tr.active.cancelled \/ tr.active.node \in hit
        BY DEF b
    <2> QED
        BY <1>2, <1>5, <1>6, <1>8, <1>9, <2>2, <2>3 DEF Runnable
<1>14. \A m \in Nodes : u.graph.state[m] = "in_progress" => g.state[m] = "in_progress"
    BY <1>2, <1>8
<1> QED
    BY <1>3, <1>6, <1>8, <1>9, <1>10, <1>12, <1>13, <1>14 DEF Good, b, u, hit

\* A claim that may still change its tree
LEMMA HoldsIs ==
    ASSUME NEW tr \in Trees, ClaimSane(tr), NEW c \in Claims, Holds(tr, c)
    PROVE  /\ tr.active # NoActive /\ tr # NoTree /\ tr.active.node \in Nodes
           /\ tr.graph.state[tr.active.node] \notin {"pending", "absent"}
           /\ ~tr.active.cancelled /\ tr.active.claim = c
<1>1. tr.active.claim = c /\ ~tr.active.cancelled
    BY DEF Holds
<1>2. tr.active # NoActive
    BY <1>1, NoTreeIs, ClaimIds
<1> QED
    BY <1>1, <1>2, NoTreeIs DEF ClaimSane

\* complete_claim
LEMMA CompleteIs ==
    ASSUME NEW tr \in Trees, NEW r \in Nodes, Good(tr, r), NEW c \in Claims, Holds(tr, c)
    PROVE  LET u == CompleteClaim(tr)
           IN /\ u \in Trees /\ Good(u, r) /\ RefsOf(u.graph) = RefsOf(tr.graph)
              /\ u.active = tr.active /\ u # NoTree
              /\ \A m \in Nodes : u.graph.state[m] =
                    IF m = tr.active.node THEN "completed" ELSE tr.graph.state[m]
<1> DEFINE g == tr.graph
           n == tr.active.node
           u == CompleteClaim(tr)
           h == [g EXCEPT !.state[n] = "completed"]
<1>1. /\ g \in Graphs /\ QueueSane(tr) /\ ClaimSane(tr)
      /\ tr.active # NoActive /\ tr # NoTree /\ n \in Nodes
      /\ g.state[n] \notin {"pending", "absent"} /\ ~tr.active.cancelled
    BY TreeIs, HoldsIs DEF Good
<1>2. Sane(g, r)
    BY <1>1 DEF Good
<1> HIDE DEF n
<1>3. /\ h \in Graphs /\ h.status = g.status
      /\ \A m \in Nodes : h.state[m] = IF m = n THEN "completed" ELSE g.state[m]
    BY <1>1, StateIs DEF States
<1>4. RefsOf(h) = RefsOf(g) /\ Sane(h, r)
    BY <1>1, <1>2, StateKeeps DEF States, Runnable
<1>5. u.graph = h /\ u.queue = tr.queue /\ u.active = tr.active
    BY DEF CompleteClaim, Trees, n
<1>6. u \in Trees
    BY <1>3 DEF CompleteClaim, Trees, n
<1> HIDE DEF h, u
<1>7. QueueSane(u)
    <2>1. /\ OnceEach(tr.queue)
          /\ \A m \in Nodes : g.state[m] = "pending" <=> m \in Members(tr.queue)
          /\ \A m \in Nodes : g.state[m] = "in_progress" => m = tr.active.node
        BY <1>1, QueueSaneIs
    <2> QED
        BY <1>1, <1>3, <1>5, <2>1, QueueSaneIs
<1>8. ClaimSane(u)
    <2>1. tr.active.claim \in Claims /\ tr.active.node \in Nodes /\ n \in g.status
        BY <1>1 DEF ClaimSane, n
    <2> QED
        BY <1>1, <1>3, <1>5, <2>1 DEF ClaimSane, n
<1>9. u # NoTree
    BY <1>1, <1>5, NoTreeIs
<1> QED
    BY <1>3, <1>4, <1>5, <1>6, <1>7, <1>8, <1>9 DEF Good, u, n

\* fail_claim: the turn, and with it, if asked to, the turns that wait below it
LEMMA FailIs ==
    ASSUME NEW tr \in Trees, NEW r \in Nodes, Good(tr, r), NEW c \in Claims, Holds(tr, c),
           NEW spread \in BOOLEAN
    PROVE  LET u == FailClaim(tr, spread)
           IN /\ u \in Trees /\ Good(u, r) /\ RefsOf(u.graph) = RefsOf(tr.graph)
              /\ u.active = tr.active /\ u # NoTree
              /\ u.graph.state[tr.active.node] # "in_progress"
              /\ \A m \in Nodes : tr.graph.state[m] = "pending" /\ u.graph.state[m] = "error"
                                  => m \in Descendants(tr.graph, tr.active.node)
<1> DEFINE g == tr.graph
           n == tr.active.node
           u == FailClaim(tr, spread)
           below == IF spread THEN {m \in Descendants(g, n) : g.state[m] = "pending"} ELSE {}
           failed == {n} \cup below
           h == MarkErrors(g, failed)
           q == Dequeued(tr.queue, failed \ {n})
<1>1. /\ g \in Graphs /\ QueueSane(tr) /\ ClaimSane(tr) /\ OnceEach(tr.queue)
      /\ tr.queue \in Seq(Nodes)
      /\ tr.active # NoActive /\ tr # NoTree /\ n \in Nodes
      /\ g.state[n] \notin {"pending", "absent"} /\ ~tr.active.cancelled
    BY TreeIs, HoldsIs, QueueSaneIs DEF Good
<1>2. Sane(g, r)
    BY <1>1 DEF Good
<1>3. CASE g.state[n] = "completed"
    <2>1. u = tr
        BY <1>3 DEF FailClaim
    <2> HIDE DEF u
    <2> QED
        BY <1>1, <1>3, <2>1 DEF u
<1>4. CASE g.state[n] # "completed"
    <2>0. \A m \in below : m \in Descendants(g, n) /\ g.state[m] = "pending"
        OBVIOUS
    <2>1. u = [tr EXCEPT !.queue = Dequeued(@, failed \ {n}), !.graph = MarkErrors(@, failed)]
        BY <1>4 DEF FailClaim
    <2>f. failed = {n} \cup below
        OBVIOUS
    <2> HIDE DEF u, failed, below, n
    <2>2. /\ h \in Graphs /\ h.status = g.status
          /\ \A m \in Nodes : h.state[m] = IF m \in failed /\ g.state[m] \in Runnable THEN "error"
                                           ELSE g.state[m]
          /\ Sane(h, r) /\ RefsOf(h) = RefsOf(g)
        BY <1>1, <1>2, MarkErrorsIs, MarkErrorsKeeps
    <2>3. q \in Seq(Nodes)
        BY <1>1, DequeuedIs
    <2>4. u.graph = h /\ u.queue = q /\ u.active = tr.active
        BY <2>1 DEF Trees
    <2>5. u \in Trees
        BY <2>1, <2>2, <2>3 DEF Trees
    <2> HIDE DEF h
    <2>6. QueueSane(u)
        <3>1. \A m \in Nodes : /\ u.graph.state[m] = "pending"
                                   <=> tr.graph.state[m] = "pending" /\ m \notin failed \ {n}
                               /\ u.graph.state[m] = "in_progress"
                                   => tr.graph.state[m] = "in_progress"
            BY <1>1, <2>2, <2>4, <2>f DEF Runnable
        <3> QED
            BY <1>1, <2>4, <2>5, <3>1, QueueShrinks
    <2>7. ClaimSane(u)
        <3>1. tr.active.claim \in Claims /\ tr.active.node \in Nodes /\ n \in g.status
            BY <1>1 DEF ClaimSane, n
        <3> QED
            BY <1>1, <2>2, <2>4, <3>1 DEF ClaimSane, n
    <2>8. u # NoTree
        BY <1>1, <2>4, NoTreeIs
    <2>9. h.state[n] # "in_progress"
        BY <1>1, <2>2, <2>f DEF Runnable
    <2>10. \A m \in Nodes : g.state[m] = "pending" /\ h.state[m] = "error" => m \in Descendants(g, n)
        BY <1>1, <2>0, <2>2, <2>f
    <2> QED
        BY <2>2, <2>4, <2>5, <2>6, <2>7, <2>8, <2>9, <2>10 DEF Good, u, n
<1> QED
    BY <1>3, <1>4

\* Some turns of a tree marked as failed
Marked(tr, E) == [tr EXCEPT !.graph = MarkErrors(@, E), !.queue = Dequeued(@, E)]

\* Some turns that are not the claim's are marked as failed.
LEMMA MarkIs ==
    ASSUME NEW tr \in Trees, NEW r \in Nodes, Good(tr, r), tr # NoTree, NEW E \in SUBSET Nodes,
           tr.active.node \notin E
    PROVE  LET u == Marked(tr, E)
           IN /\ u \in Trees /\ Good(u, r) /\ RefsOf(u.graph) = RefsOf(tr.graph)
              /\ u.active = tr.active
              /\ tr.active.node \in Nodes
                    => u.graph.state[tr.active.node] = tr.graph.state[tr.active.node]
<1> DEFINE g == tr.graph
           u == Marked(tr, E)
           h == MarkErrors(g, E)
           q == Dequeued(tr.queue, E)
<1>1. /\ g \in Graphs /\ Sane(g, r) /\ QueueSane(tr) /\ ClaimSane(tr) /\ OnceEach(tr.queue)
      /\ tr.queue \in Seq(Nodes)
    BY TreeIs, QueueSaneIs DEF Good
<1>2. /\ h \in Graphs /\ h.status = g.status
      /\ \A m \in Nodes : h.state[m] = IF m \in E /\ g.state[m] \in Runnable THEN "error" ELSE g.state[m]
      /\ Sane(h, r) /\ RefsOf(h) = RefsOf(g)
    BY <1>1, MarkErrorsIs, MarkErrorsKeeps
<1>3. q \in Seq(Nodes)
    BY <1>1, DequeuedIs
<1>4. u.graph = h /\ u.queue = q /\ u.active = tr.active
    BY DEF Trees, Marked
<1>5. u \in Trees
    BY <1>2, <1>3 DEF Trees, Marked
<1> HIDE DEF h, u
<1>6. QueueSane(u)
    <2>1. \A m \in Nodes : /\ u.graph.state[m] = "pending"
                               <=> tr.graph.state[m] = "pending" /\ m \notin E
                           /\ u.graph.state[m] = "in_progress" => tr.graph.state[m] = "in_progress"
        BY <1>2, <1>4 DEF Runnable
    <2> QED
        BY <1>1, <1>4, <1>5, <2>1, QueueShrinks
<1>7. ClaimSane(u)
    BY <1>1, <1>2, <1>4 DEF ClaimSane
<1> QED
    BY <1>2, <1>4, <1>5, <1>6, <1>7 DEF Good, u

(***************************************************************************)
(* What the invariant says                                                 *)
(***************************************************************************)

\* The workflow operation, by its type.
OpIsTyped == op \in [phase     : {"none", "drain", "save"},
                     trees     : SUBSET Nodes,
                     removes   : SUBSET Nodes,
                     snapshots : [IF op.phase = "save" THEN op.trees ELSE {} -> Graphs]]

LEMMA TypesAre ==
    TypeOK <=> /\ tree \in [Nodes -> Trees] /\ owner \in [Refs -> Nodes \cup {NoNode}]
               /\ slot \in [Claims -> Slots] /\ stored \in [Nodes -> Graphs] /\ OpIsTyped
BY DEF TypeOK, OpIsTyped

LEMMA InvariantIs ==
    IInv <=> /\ tree \in [Nodes -> Trees] /\ owner \in [Refs -> Nodes \cup {NoNode}]
             /\ slot \in [Claims -> Slots] /\ stored \in [Nodes -> Graphs] /\ OpIsTyped
             /\ \A r \in Nodes : Good(tree[r], r)
             /\ TasksAreSane /\ IndexMatchesTrees /\ StoreIsSane /\ OperationIsSane
BY TypesAre, TreesAreGood DEF IInv

\* A tree, by name: its graph, that it is sane, and who works for it.
LEMMA TreeFacts ==
    ASSUME IInv, NEW r \in Nodes
    PROVE  /\ tree[r] \in Trees /\ Good(tree[r], r) /\ QueueSane(tree[r]) /\ ClaimSane(tree[r])
           /\ tree[r].graph \in Graphs
           /\ tree[r].active # NoActive
                 => /\ tree[r].active.claim \in Claims /\ tree[r].active.node \in Nodes
                    /\ WorksFor(slot[tree[r].active.claim], tree[r], r)
           /\ tree[r].active = NoActive <=> tree[r].active.claim = NoClaim
           /\ tree[r] # NoTree <=> RefsOf(tree[r].graph) # {}
           /\ r \in Published <=> tree[r] # NoTree
           /\ tree[r].active # NoActive => tree[r] # NoTree
<1>1. tree[r] \in Trees /\ Good(tree[r], r) /\ QueueSane(tree[r]) /\ ClaimSane(tree[r])
    BY InvariantIs DEF Good
<1>2. tree[r] # NoTree <=> RefsOf(tree[r].graph) # {}
    BY <1>1, TreeIsThere, NoTreeIs, NoGraphIs
<1>3. tree[r].active # NoActive => WorksFor(slot[tree[r].active.claim], tree[r], r)
    BY InvariantIs DEF TasksAreSane
<1>4. tree[r].graph \in Graphs
    BY <1>1, TreeIs
<1>5. tree[r].active # NoActive => tree[r] # NoTree
    BY NoTreeIs
<1> QED
    BY <1>1, <1>2, <1>3, <1>4, <1>5, BusyIs DEF Published

\* A task, by its claim.
LEMMA TaskFacts ==
    ASSUME IInv, NEW c \in Claims, slot[c].phase # "none"
    PROVE  /\ slot[c] \in Slots /\ slot[c].root \in Nodes /\ slot[c].node \in Nodes
           /\ slot[c].phase \in Phases /\ slot[c].attached \in BOOLEAN
           /\ slot[c].attached => /\ tree[slot[c].root].active.claim = c
                                  /\ tree[slot[c].root].active # NoActive
                                  /\ slot[c].node = tree[slot[c].root].active.node
           /\ tree[slot[c].root].active.claim = c
                => WorksFor(slot[c], tree[slot[c].root], slot[c].root)
<1>1. slot[c] \in Slots
    BY InvariantIs
<1>2. slot[c].root \in Nodes /\ slot[c].node \in Nodes
    BY InvariantIs DEF TasksAreSane, Alive
<1>3. slot[c].attached => tree[slot[c].root].active.claim = c
    BY InvariantIs DEF TasksAreSane, Alive
<1>4. tree[slot[c].root].active.claim = c => tree[slot[c].root].active # NoActive
    BY NoTreeIs, ClaimIds
<1>5. tree[slot[c].root].active.claim = c
         => WorksFor(slot[c], tree[slot[c].root], slot[c].root)
    BY <1>2, <1>4, TreeFacts
<1> QED
    BY <1>1, <1>2, <1>3, <1>4, <1>5 DEF Slots, WorksFor

LEMMA SlotIs ==
    ASSUME slot \in [Claims -> Slots], NEW c \in Claims, NEW p \in Phases
    PROVE  LET s == [slot EXCEPT ![c].phase = p]
           IN /\ s \in [Claims -> Slots]
              /\ s[c].phase = p /\ s[c].root = slot[c].root /\ s[c].node = slot[c].node
              /\ s[c].attached <=> slot[c].attached
              /\ \A d \in Claims : d # c => s[d] = slot[d]
BY DEF Slots

\* When trees keep their messages, what was known of the index, of the store
\* and of the operation stays known.
LEMMA MessagesStay ==
    ASSUME IInv, tree' \in [Nodes -> Trees], \A r \in Nodes : Good(tree'[r], r),
           \A r \in Nodes : RefsOf(tree'[r].graph) = RefsOf(tree[r].graph), owner' = owner
    PROVE  /\ IndexMatchesTrees'
           /\ stored' = stored /\ op' = op => StoreIsSane' /\ OperationIsSane'
<1>1. IndexMatchesTrees'
    BY InvariantIs DEF IndexMatchesTrees
<1>2. ASSUME stored' = stored, op' = op PROVE StoreIsSane'
    BY <1>2, InvariantIs DEF StoreIsSane
<1>3. ASSUME op' = op PROVE OperationIsSane'
    <2>1. \A r \in Nodes : tree[r] # NoTree => tree'[r] # NoTree
        <3> TAKE r \in Nodes
        <3>1. tree'[r] \in Trees /\ Good(tree'[r], r)
            OBVIOUS
        <3> QED
            BY <3>1, TreeFacts, TreeIsThere
    <2>2. op.trees \subseteq Nodes
        BY InvariantIs DEF OpIsTyped
    <2> QED
        BY <1>3, <2>1, <2>2, InvariantIs DEF OperationIsSane
<1> QED
    BY <1>1, <1>2, <1>3

\* A snapshot of a tree that keeps its messages goes to the store.
LEMMA SnapshotStays ==
    ASSUME IInv, tree' \in [Nodes -> Trees], \A q \in Nodes : Good(tree'[q], q),
           \A q \in Nodes : RefsOf(tree'[q].graph) = RefsOf(tree[q].graph),
           owner' = owner, op' = op, NEW r \in Nodes, tree'[r] # NoTree,
           stored' = [stored EXCEPT ![r] = tree'[r].graph]
    PROVE  /\ stored' \in [Nodes -> Graphs] /\ IndexMatchesTrees' /\ StoreIsSane' /\ OperationIsSane'
<1>1. IndexMatchesTrees'
    BY MessagesStay
<1>2. tree'[r].graph \in Graphs /\ Sane(tree'[r].graph, r)
    BY TreeIs DEF Good
<1>3. /\ stored' \in [Nodes -> Graphs] /\ stored'[r] = tree'[r].graph
      /\ \A q \in Nodes : q # r => stored'[q] = stored[q]
    BY <1>2, InvariantIs
<1>4. \A q \in Nodes : stored'[q] # NoGraph => Sane(stored'[q], q)
    BY <1>2, <1>3, InvariantIs DEF StoreIsSane
<1>5. \A q, s \in Nodes : q # s => RefsOf(tree[q].graph) \cap RefsOf(tree[s].graph) = {}
    <2> SUFFICES ASSUME NEW q \in Nodes, NEW s \in Nodes, q # s,
                        NEW x \in RefsOf(tree[q].graph), x \in RefsOf(tree[s].graph)
                 PROVE  FALSE
        OBVIOUS
    <2>1. x \in Refs
        BY TreeFacts, RefsOfIs
    <2> QED
        BY <2>1, InvariantIs DEF IndexMatchesTrees
<1>6. \A q, s \in Nodes : q # s =>
          RefsOf(stored'[q]) \cap (RefsOf(stored'[s]) \cup RefsOf(tree'[s].graph)) = {}
    <2> TAKE q, s \in Nodes
    <2>1. \A x, y \in Nodes : x # y =>
             RefsOf(stored[x]) \cap (RefsOf(stored[y]) \cup RefsOf(tree[y].graph)) = {}
        BY InvariantIs DEF StoreIsSane
    <2> QED
        BY <1>3, <1>5, <2>1
<1>7. \A q \in Nodes \ (op.trees \cup op.removes) :
          RefsOf(stored'[q]) \subseteq RefsOf(tree'[q].graph)
    <2>1. \A q \in Nodes \ (op.trees \cup op.removes) :
             RefsOf(stored[q]) \subseteq RefsOf(tree[q].graph)
        BY InvariantIs DEF StoreIsSane
    <2> QED
        BY <1>3, <2>1
<1>8. StoreIsSane'
    BY <1>4, <1>6, <1>7 DEF StoreIsSane
<1>9. OperationIsSane'
    <2>1. \A q \in Nodes : tree[q] # NoTree => tree'[q] # NoTree
        <3> TAKE q \in Nodes
        <3>1. tree'[q] \in Trees /\ Good(tree'[q], q)
            OBVIOUS
        <3> QED
            BY <3>1, TreeFacts, TreeIsThere
    <2>2. op.trees \subseteq Nodes
        BY InvariantIs DEF OpIsTyped
    <2> QED
        BY <2>1, <2>2, InvariantIs DEF OperationIsSane
<1> QED
    BY <1>1, <1>3, <1>8, <1>9

\* A task goes on, and its tree, if it changes, keeps its claim.
LEMMA TaskGoesOn ==
    ASSUME IInv, NEW c \in Claims, slot[c].phase # "none",
           NEW p \in {"starting", "running", "reported", "closing"},
           ToPhase(c, p),
           \A q \in Nodes : tree'[q].active = tree[q].active,
           \A q \in Nodes : tree[q].active.claim # c => tree'[q] = tree[q],
           \A q \in Nodes : tree[q].active.claim = c /\ p \in {"reported", "closing"}
                            => tree'[q].graph.state[tree[q].active.node] # "in_progress"
    PROVE  slot' \in [Claims -> Slots] /\ TasksAreSane'
<1>1. slot \in [Claims -> Slots]
    BY InvariantIs
<1>2. /\ slot' \in [Claims -> Slots] /\ slot'[c].phase = p
      /\ slot'[c].root = slot[c].root /\ slot'[c].node = slot[c].node
      /\ slot'[c].attached <=> slot[c].attached
      /\ \A d \in Claims : d # c => slot'[d] = slot[d]
    <2>1. p \in Phases
        BY DEF Phases
    <2> QED
        BY <1>1, <2>1, SlotIs DEF ToPhase
<1>3. ASSUME NEW q \in Nodes, tree'[q].active # NoActive
      PROVE  WorksFor(slot'[tree'[q].active.claim], tree'[q], q)
    <2>1. /\ tree[q].active # NoActive /\ tree[q].active.claim \in Claims
          /\ WorksFor(slot[tree[q].active.claim], tree[q], q)
        BY <1>3, TreeFacts
    <2>2. CASE tree[q].active.claim = c
        BY <1>2, <2>1, <2>2 DEF WorksFor
    <2>3. CASE tree[q].active.claim # c
        BY <1>2, <2>1, <2>3 DEF WorksFor
    <2> QED
        BY <2>2, <2>3
<1>4. \A d \in Claims : slot'[d].phase # "none" =>
          /\ slot'[d].root \in Nodes /\ slot'[d].node \in Nodes
          /\ slot'[d].attached => tree'[slot'[d].root].active.claim = d
    <2> TAKE d \in Claims
    <2>1. slot'[d].phase # "none" => slot[d].phase # "none"
        BY <1>2
    <2> QED
        BY <1>2, <2>1, TaskFacts
<1> QED
    BY <1>2, <1>3, <1>4 DEF TasksAreSane, Alive

(***************************************************************************)
(* The tasks                                                               *)
(***************************************************************************)

\* A step of a task that leaves the trees alone.
LEMMA QuietStep ==
    ASSUME IInv, NEW c \in Claims, slot[c].phase # "none",
           NEW p \in {"starting", "running", "reported", "closing"},
           ToPhase(c, p),
           UNCHANGED <<tree, owner, stored, op>>,
           \A q \in Nodes : tree[q].active.claim = c /\ p \in {"reported", "closing"}
                            => tree[q].graph.state[tree[q].active.node] # "in_progress"
    PROVE  IInv'
<1>1. slot' \in [Claims -> Slots] /\ TasksAreSane'
    BY TaskGoesOn
<1>2. IndexMatchesTrees' /\ StoreIsSane' /\ OperationIsSane'
    BY InvariantIs DEF IndexMatchesTrees, StoreIsSane, OperationIsSane
<1>3. TypeOK' /\ TreesAreSane'
    <2>1. TypeOK /\ TreesAreSane
        BY DEF IInv
    <2> QED
        BY <1>1, <2>1 DEF TypeOK, TreesAreSane
<1> QED
    BY <1>1, <1>2, <1>3 DEF IInv

\* A claim that was told to stop, or that has seen its end, is of no turn in
\* progress.
LEMMA NotInProgress ==
    ASSUME IInv, NEW c \in Claims, slot[c].phase # "none", NEW q \in Nodes,
           tree[q].active.claim = c, ~Holds(tree[q], c) \/ slot[c].phase \in {"reported", "closing"}
    PROVE  tree[q].graph.state[tree[q].active.node] # "in_progress"
<1>1. tree[q].active # NoActive
    BY NoTreeIs, ClaimIds
<1>2. ClaimSane(tree[q]) /\ WorksFor(slot[c], tree[q], q)
    BY <1>1, TreeFacts
<1> QED
    BY <1>1, <1>2 DEF ClaimSane, WorksFor, Holds

\* A task whose claim holds its tree changes it and saves the snapshot.
LEMMA HoldingStep ==
    ASSUME IInv, NEW c \in Claims, slot[c].phase # "none",
           NEW p \in {"starting", "running", "reported", "closing"},
           ToPhase(c, p),
           NEW u \in Trees, Holds(tree[slot[c].root], c), Good(u, slot[c].root),
           RefsOf(u.graph) = RefsOf(tree[slot[c].root].graph), u # NoTree,
           u.active = tree[slot[c].root].active,
           p \in {"reported", "closing"} => u.graph.state[u.active.node] # "in_progress",
           tree' = [tree EXCEPT ![slot[c].root] = u],
           stored' = [stored EXCEPT ![slot[c].root] = u.graph],
           UNCHANGED <<owner, op>>
    PROVE  IInv'
<1> DEFINE r == slot[c].root
<1>1. r \in Nodes /\ tree \in [Nodes -> Trees] /\ tree[r].active.claim = c
    BY TaskFacts, InvariantIs DEF Holds
<1>2. /\ tree' \in [Nodes -> Trees] /\ tree'[r] = u
      /\ \A q \in Nodes : q # r => tree'[q] = tree[q]
    BY <1>1
<1>3. \A q \in Nodes : tree[q].active.claim = c => q = r
    <2> SUFFICES ASSUME NEW q \in Nodes, tree[q].active.claim = c PROVE q = r
        OBVIOUS
    <2>1. tree[q].active # NoActive
        BY NoTreeIs, ClaimIds
    <2> QED
        BY <2>1, TreeFacts DEF WorksFor
<1> HIDE DEF r
<1>4. \A q \in Nodes : tree'[q].active = tree[q].active
    BY <1>2 DEF r
<1>5. slot' \in [Claims -> Slots] /\ TasksAreSane'
    <2>1. \A q \in Nodes : tree[q].active.claim # c => tree'[q] = tree[q]
        BY <1>1, <1>2
    <2>2. \A q \in Nodes : tree[q].active.claim = c /\ p \in {"reported", "closing"}
                            => tree'[q].graph.state[tree[q].active.node] # "in_progress"
        BY <1>2, <1>3 DEF r
    <2> QED
        BY <1>4, <2>1, <2>2, TaskGoesOn
<1>6. \A q \in Nodes : Good(tree'[q], q) /\ RefsOf(tree'[q].graph) = RefsOf(tree[q].graph)
    BY <1>2, TreeFacts DEF r
<1>7. stored' = [stored EXCEPT ![r] = tree'[r].graph] /\ tree'[r] # NoTree
    BY <1>2 DEF r
<1>8. /\ stored' \in [Nodes -> Graphs] /\ IndexMatchesTrees' /\ StoreIsSane' /\ OperationIsSane'
    BY <1>1, <1>2, <1>6, <1>7, SnapshotStays
<1>9. TypeOK'
    <2>1. TypeOK
        BY DEF IInv
    <2> QED
        BY <1>2, <1>5, <1>8, <2>1 DEF TypeOK
<1>10. TreesAreSane'
    BY <1>6 DEF TreesAreSane, Good
<1> QED
    BY <1>5, <1>8, <1>9, <1>10 DEF IInv

\* fail_claim by a task
LEMMA RunnerFailsKeeps ==
    ASSUME IInv, NEW c \in Claims, slot[c].phase # "none", NEW spread \in BOOLEAN,
           NEW p \in {"starting", "running", "reported", "closing"}, RunnerFails(c, spread, p)
    PROVE  IInv'
<1>1. /\ Commit(c, FailClaim(TreeOf(c), spread)) /\ ToPhase(c, p)
      /\ UNCHANGED <<owner, op>>
    BY DEF RunnerFails
<1> DEFINE r == slot[c].root
           u == FailClaim(tree[r], spread)
<1>2. r \in Nodes
    BY TaskFacts
<1>3. tree[r] \in Trees /\ Good(tree[r], r)
    BY <1>2, TreeFacts
<1>4. CASE Holds(tree[r], c)
    <2>1. /\ u \in Trees /\ Good(u, r) /\ RefsOf(u.graph) = RefsOf(tree[r].graph)
          /\ u.active = tree[r].active /\ u # NoTree
          /\ u.graph.state[tree[r].active.node] # "in_progress"
        BY <1>2, <1>3, <1>4, FailIs
    <2>2. tree' = [tree EXCEPT ![r] = u] /\ stored' = [stored EXCEPT ![r] = u.graph]
        BY <1>1, <1>4 DEF Commit, TreeOf
    <2> HIDE DEF u
    <2> QED
        BY <1>1, <1>4, <2>1, <2>2, HoldingStep
<1>5. CASE ~Holds(tree[r], c)
    <2>1. UNCHANGED <<tree, owner, stored, op>>
        BY <1>1, <1>5 DEF Commit
    <2>2. \A q \in Nodes : tree[q].active.claim = c
              => tree[q].graph.state[tree[q].active.node] # "in_progress"
        <3> SUFFICES ASSUME NEW q \in Nodes, tree[q].active.claim = c
                     PROVE  tree[q].graph.state[tree[q].active.node] # "in_progress"
            OBVIOUS
        <3>1. q = r
            <4>1. tree[q].active # NoActive
                BY NoTreeIs, ClaimIds
            <4> QED
                BY <4>1, TreeFacts DEF WorksFor
        <3> QED
            BY <1>5, <3>1, NotInProgress
    <2> QED
        BY <1>1, <2>1, <2>2, QuietStep
<1> QED
    BY <1>4, <1>5

LEMMA RunnerStepsKeep ==
    ASSUME IInv, NEW c \in Claims,
           \/ EnterRunner(c) \/ RunnerStarts(c) \/ RunnerSeesError(c) \/ RunnerSeesExit(c)
           \/ RunnerHasNoSession(c) \/ RunnerBreaks(c)
           \/ \E propagate \in BOOLEAN : RunnerUnwinds(c, propagate)
    PROVE  IInv'
<1>1. CASE EnterRunner(c)
    BY <1>1, QuietStep DEF EnterRunner
<1>2. CASE RunnerStarts(c)
    BY <1>2, QuietStep DEF RunnerStarts
<1>3. CASE RunnerSeesError(c)
    BY <1>3, RunnerFailsKeeps DEF RunnerSeesError, StreamOpen
<1>4. CASE RunnerSeesExit(c)
    BY <1>4, RunnerFailsKeeps DEF RunnerSeesExit, StreamOpen
<1>5. CASE RunnerHasNoSession(c)
    BY <1>5, RunnerFailsKeeps DEF RunnerHasNoSession
<1>6. CASE RunnerBreaks(c)
    BY <1>6, RunnerFailsKeeps DEF RunnerBreaks
<1>7. ASSUME NEW propagate \in BOOLEAN, RunnerUnwinds(c, propagate) PROVE IInv'
    <2>1. slot[c].phase # "none" /\ RunnerFails(c, propagate, "closing")
        BY <1>7 DEF RunnerUnwinds, RunnerFails
    <2> QED
        BY <2>1, RunnerFailsKeeps
<1> QED
    BY <1>1, <1>2, <1>3, <1>4, <1>5, <1>6, <1>7

LEMMA RunnerEndsKeeps ==
    ASSUME IInv, NEW c \in Claims, RunnerEnds(c)
    PROVE  IInv'
<1>1. /\ slot[c].phase = "reported" /\ ToPhase(c, "closing")
      /\ UNCHANGED <<tree, owner, stored, op>>
    BY DEF RunnerEnds
<1>2. \A q \in Nodes : tree[q].active.claim = c
          => tree[q].graph.state[tree[q].active.node] # "in_progress"
    BY <1>1, NotInProgress
<1> QED
    BY <1>1, <1>2, QuietStep

LEMMA RunnerCompletesKeeps ==
    ASSUME IInv, NEW c \in Claims, RunnerCompletes(c)
    PROVE  IInv'
<1> DEFINE r == slot[c].root
           u == CompleteClaim(tree[r])
<1>1. /\ slot[c].phase \in {"running", "reported"} /\ ToPhase(c, "reported")
      /\ UNCHANGED <<owner, op>>
    BY DEF RunnerCompletes, StreamOpen
<1>2. r \in Nodes
    BY <1>1, TaskFacts
<1>3. tree[r] \in Trees /\ Good(tree[r], r)
    BY <1>2, TreeFacts
<1>4. CASE NodeState(c) \in {"in_progress", "error"} /\ Holds(tree[r], c)
    <2>1. /\ u \in Trees /\ Good(u, r) /\ RefsOf(u.graph) = RefsOf(tree[r].graph)
          /\ u.active = tree[r].active /\ u # NoTree
          /\ \A m \in Nodes : u.graph.state[m] =
                IF m = tree[r].active.node THEN "completed" ELSE tree[r].graph.state[m]
        BY <1>2, <1>3, <1>4, CompleteIs
    <2>2. tree' = [tree EXCEPT ![r] = u] /\ stored' = [stored EXCEPT ![r] = u.graph]
        BY <1>4 DEF RunnerCompletes, Commit, TreeOf
    <2>3. tree[r].active.node \in Nodes
        BY <1>3, <1>4, HoldsIs DEF Good
    <2> HIDE DEF u
    <2>4. u.graph.state[u.active.node] # "in_progress"
        BY <2>1, <2>3
    <2> QED
        BY <1>1, <1>4, <2>1, <2>2, <2>4, HoldingStep
<1>5. CASE ~(NodeState(c) \in {"in_progress", "error"} /\ Holds(tree[r], c))
    <2>1. UNCHANGED <<tree, owner, stored, op>>
        BY <1>1, <1>5 DEF RunnerCompletes, Commit
    <2>2. \A q \in Nodes : tree[q].active.claim = c
              => tree[q].graph.state[tree[q].active.node] # "in_progress"
        <3> SUFFICES ASSUME NEW q \in Nodes, tree[q].active.claim = c
                     PROVE  tree[q].graph.state[tree[q].active.node] # "in_progress"
            OBVIOUS
        <3>1. q = r /\ slot[c].node = tree[q].active.node
            <4>1. tree[q].active # NoActive
                BY NoTreeIs, ClaimIds
            <4> QED
                BY <4>1, TreeFacts DEF WorksFor
        <3>2. CASE NodeState(c) \notin {"in_progress", "error"}
            BY <3>1, <3>2 DEF NodeState, TreeOf
        <3>3. CASE ~Holds(tree[r], c)
            BY <1>1, <3>1, <3>3, NotInProgress
        <3> QED
            BY <1>5, <3>2, <3>3
    <2> QED
        BY <1>1, <2>1, <2>2, QuietStep
<1> QED
    BY <1>4, <1>5

LEMMA RunnerRecordsKeeps ==
    ASSUME IInv, NEW c \in Claims, RunnerRecordsSession(c)
    PROVE  IInv'
<1> DEFINE r == slot[c].root
<1>1. /\ slot[c].phase \in {"running", "reported"} /\ UNCHANGED <<owner, slot, op>>
    BY DEF RunnerRecordsSession, StreamOpen
<1>2. r \in Nodes
    BY <1>1, TaskFacts
<1>3. tree[r] \in Trees /\ Good(tree[r], r) /\ tree \in [Nodes -> Trees] /\ slot \in [Claims -> Slots]
    BY <1>2, TreeFacts, InvariantIs
<1>4. ToPhase(c, slot[c].phase)
    BY <1>1, <1>3 DEF Slots, ToPhase
<1>a. slot[c].phase = "reported" =>
         \A q \in Nodes : tree[q].active.claim = c
              => tree[q].graph.state[tree[q].active.node] # "in_progress"
    BY <1>1, NotInProgress
<1>5. CASE NodeState(c) = "in_progress" /\ Holds(tree[r], c)
    <2>1. tree' = [tree EXCEPT ![r] = tree[r]] /\ stored' = [stored EXCEPT ![r] = tree[r].graph]
        BY <1>5 DEF RunnerRecordsSession, Commit, TreeOf
    <2>2. tree[r] # NoTree /\ tree[r].active.claim = c
        BY <1>3, <1>5, HoldsIs DEF Good
    <2> DEFINE p == slot[c].phase
               u == tree[r]
    <2>3. /\ p \in {"starting", "running", "reported", "closing"} /\ p # "closing"
          /\ p # "none"
        BY <1>1
    <2>4. p \in {"reported", "closing"} => u.graph.state[u.active.node] # "in_progress"
        BY <1>a, <1>2, <2>2, <2>3
    <2>5. ToPhase(c, p)
        BY <1>4
    <2>6. UNCHANGED <<owner, op>>
        BY <1>1
    <2>7. tree' = [tree EXCEPT ![r] = u] /\ stored' = [stored EXCEPT ![r] = u.graph]
        BY <2>1
    <2> QED
        BY <1>2, <1>3, <1>5, <2>2, <2>3, <2>4, <2>5, <2>6, <2>7, HoldingStep
<1>6. CASE ~(NodeState(c) = "in_progress" /\ Holds(tree[r], c))
    <2>1. UNCHANGED <<tree, owner, stored, op>>
        BY <1>1, <1>6 DEF RunnerRecordsSession, Commit
    <2> QED
        BY <1>1, <1>4, <1>a, <2>1, QuietStep
<1> QED
    BY <1>5, <1>6

\* _finish_and_continue
LEMMA FinishClaimKeeps ==
    ASSUME IInv, NEW c \in Claims, FinishClaim(c)
    PROVE  IInv'
<1> DEFINE r == slot[c].root
           u == FinishAndClaimNext(tree[r], c)
<1>1. /\ slot[c].phase \in {"closing", "unentered"} /\ UNCHANGED <<owner, stored, op>>
      /\ IF slot[c].attached
         THEN /\ tree' = [tree EXCEPT ![r] = u]
              /\ slot' = IF u.active.claim = c
                         THEN [slot EXCEPT ![c] = Created(r, u.active.node)]
                         ELSE [slot EXCEPT ![c] = NoSlot]
         ELSE slot' = [slot EXCEPT ![c] = NoSlot] /\ UNCHANGED tree
    BY DEF FinishClaim, Released
<1>2. /\ r \in Nodes /\ tree \in [Nodes -> Trees] /\ slot \in [Claims -> Slots]
      /\ slot[c].attached <=> tree[r].active.claim = c
    BY <1>1, TaskFacts, InvariantIs DEF WorksFor
<1>3. tree[r] \in Trees /\ Good(tree[r], r)
    BY <1>2, TreeFacts
<1>4. NoSlot \in Slots /\ NoSlot.phase = "none"
    BY DEF NoSlot, Slots, Phases
<1>5. \A q \in Nodes : tree[q].active.claim = c => q = r
    <2> SUFFICES ASSUME NEW q \in Nodes, tree[q].active.claim = c PROVE q = r
        OBVIOUS
    <2>1. tree[q].active # NoActive
        BY NoTreeIs, ClaimIds
    <2> QED
        BY <2>1, TreeFacts DEF WorksFor
<1>6. CASE slot[c].attached
    <2>1. \A n \in Nodes : tree[r].graph.state[n] # "in_progress"
        <3>1. tree[r].active.claim = c /\ tree[r].active # NoActive
            BY <1>2, <1>6, NoTreeIs, ClaimIds
        <3>2. tree[r].graph.state[tree[r].active.node] # "in_progress"
            <4>1. ClaimSane(tree[r]) /\ WorksFor(slot[c], tree[r], r)
                BY <1>2, <3>1, TreeFacts
            <4> QED
                BY <1>1, <3>1, <4>1 DEF ClaimSane, WorksFor
        <3> QED
            BY <1>2, <3>2, TreeFacts, QueueSaneIs
    <2>2. /\ u \in Trees /\ Good(u, r) /\ RefsOf(u.graph) = RefsOf(tree[r].graph)
          /\ u.active.claim = c => u.active.node \in Nodes /\ ~u.active.cancelled /\ u # NoTree
          /\ u.active.claim # c => u.active = NoActive
          /\ u # NoTree
        BY <1>2, <1>3, <1>6, <2>1, FinishIs
    <2> HIDE DEF u, r
    <2>3. /\ tree' \in [Nodes -> Trees] /\ tree'[r] = u
          /\ \A q \in Nodes : q # r => tree'[q] = tree[q]
        BY <1>1, <1>2, <1>6, <2>2
    <2>4. \A q \in Nodes : Good(tree'[q], q) /\ RefsOf(tree'[q].graph) = RefsOf(tree[q].graph)
        BY <2>2, <2>3, TreeFacts
    <2>5. IndexMatchesTrees' /\ StoreIsSane' /\ OperationIsSane'
        BY <1>1, <2>3, <2>4, MessagesStay
    <2>6. /\ slot' \in [Claims -> Slots] /\ \A d \in Claims : d # c => slot'[d] = slot[d]
          /\ IF u.active.claim = c
             THEN /\ slot'[c].root = r /\ slot'[c].node = u.active.node /\ slot'[c].attached
                  /\ slot'[c].phase = "created"
             ELSE slot'[c].phase = "none"
        <3>1. u.active.claim = c => /\ Created(r, u.active.node) \in Slots
                                    /\ Created(r, u.active.node).root = r
                                    /\ Created(r, u.active.node).node = u.active.node
                                    /\ Created(r, u.active.node).attached
                                    /\ Created(r, u.active.node).phase = "created"
            BY <1>2, <2>2 DEF Created, Slots, Phases
        <3>2. CASE u.active.claim = c
            <4>1. slot' = [slot EXCEPT ![c] = Created(r, u.active.node)]
                BY <1>1, <1>6, <3>2
            <4> QED
                BY <1>2, <3>1, <3>2, <4>1
        <3>3. CASE u.active.claim # c
            <4>1. slot' = [slot EXCEPT ![c] = NoSlot]
                BY <1>1, <1>6, <3>3
            <4> QED
                BY <1>2, <1>4, <3>3, <4>1
        <3> QED
            BY <3>2, <3>3
    <2>7. ASSUME NEW q \in Nodes, tree'[q].active # NoActive
          PROVE  WorksFor(slot'[tree'[q].active.claim], tree'[q], q)
        <3>1. CASE q = r
            BY <2>2, <2>3, <2>6, <2>7, <3>1 DEF WorksFor
        <3>2. CASE q # r
            <4>1. /\ tree'[q] = tree[q] /\ tree[q].active.claim # c
                BY <1>5, <2>3, <3>2
            <4>2. /\ tree[q].active.claim \in Claims
                  /\ WorksFor(slot[tree[q].active.claim], tree[q], q)
                BY <2>7, <4>1, TreeFacts
            <4> QED
                BY <2>6, <4>1, <4>2
        <3> QED
            BY <3>1, <3>2
    <2>8. \A d \in Claims : slot'[d].phase # "none" =>
              /\ slot'[d].root \in Nodes /\ slot'[d].node \in Nodes
              /\ slot'[d].attached => tree'[slot'[d].root].active.claim = d
        <3> TAKE d \in Claims
        <3>1. CASE d = c
            BY <1>2, <2>2, <2>3, <2>6, <3>1
        <3>2. CASE d # c
            <4> SUFFICES ASSUME slot[d].phase # "none"
                         PROVE  /\ slot[d].root \in Nodes /\ slot[d].node \in Nodes
                                /\ slot[d].attached => tree'[slot[d].root].active.claim = d
                BY <2>6, <3>2
            <4>1. /\ slot[d].root \in Nodes /\ slot[d].node \in Nodes
                  /\ slot[d].attached => tree[slot[d].root].active.claim = d
                BY TaskFacts
            <4>2. tree[r].active.claim = c
                BY <1>2, <1>6
            <4> QED
                BY <2>3, <3>2, <4>1, <4>2
        <3> QED
            BY <3>1, <3>2
    <2>9. TasksAreSane'
        BY <2>7, <2>8 DEF TasksAreSane, Alive
    <2>10. TypeOK'
        <3>1. TypeOK
            BY DEF IInv
        <3> QED
            BY <1>1, <2>3, <2>6, <3>1 DEF TypeOK
    <2>11. TreesAreSane'
        BY <2>4 DEF TreesAreSane, Good
    <2> QED
        BY <2>5, <2>9, <2>10, <2>11 DEF IInv
<1>7. CASE ~slot[c].attached
    <2>1. slot' = [slot EXCEPT ![c] = NoSlot] /\ UNCHANGED <<tree, owner, stored, op>>
        BY <1>1, <1>7
    <2>2. /\ slot' \in [Claims -> Slots] /\ slot'[c].phase = "none"
          /\ \A d \in Claims : d # c => slot'[d] = slot[d]
        BY <1>2, <1>4, <2>1
    <2>3. \A q \in Nodes : tree[q].active.claim # c
        BY <1>2, <1>5, <1>7
    <2>4. TasksAreSane'
        <3>1. ASSUME NEW q \in Nodes, tree[q].active # NoActive
              PROVE  WorksFor(slot'[tree[q].active.claim], tree[q], q)
            BY <2>2, <2>3, <3>1, TreeFacts
        <3>2. \A d \in Claims : slot'[d].phase # "none" =>
                 /\ slot'[d].root \in Nodes /\ slot'[d].node \in Nodes
                 /\ slot'[d].attached => tree[slot'[d].root].active.claim = d
            BY <2>2, TaskFacts
        <3> QED
            BY <2>1, <3>1, <3>2 DEF TasksAreSane, Alive
    <2>5. IndexMatchesTrees' /\ StoreIsSane' /\ OperationIsSane'
        BY <2>1, InvariantIs DEF IndexMatchesTrees, StoreIsSane, OperationIsSane
    <2>6. TypeOK' /\ TreesAreSane'
        <3>1. TypeOK /\ TreesAreSane
            BY DEF IInv
        <3> QED
            BY <2>1, <2>2, <3>1 DEF TypeOK, TreesAreSane
    <2> QED
        BY <2>4, <2>5, <2>6 DEF IInv
<1> QED
    BY <1>6, <1>7

(***************************************************************************)
(* Admissions                                                              *)
(***************************************************************************)

\* A new claim is the claim of nothing.
LEMMA FreshIs ==
    ASSUME FreeClaims # {}
    PROVE  /\ FreshClaim \in Claims /\ slot[FreshClaim].phase = "none"
           /\ \A r \in Nodes : tree[r].active.claim # FreshClaim
<1>1. FreeClaims \in SUBSET Nat
    BY ClaimIds DEF FreeClaims
<1>2. \E c \in FreeClaims : \A d \in FreeClaims : c <= d
    BY <1>1, LeastNumber
<1>3. FreshClaim \in FreeClaims
    BY <1>2 DEF FreshClaim
<1> QED
    BY <1>3 DEF FreeClaims, Alive

\* When the store holds parts of the trees only, it is sane.
LEMMA StoreFollows ==
    ASSUME tree' \in [Nodes -> Trees], IndexMatchesTrees',
           \A q \in Nodes : stored'[q] # NoGraph => Sane(stored'[q], q),
           \A q \in Nodes : RefsOf(stored'[q]) \subseteq RefsOf(tree'[q].graph)
    PROVE  StoreIsSane'
<1>1. \A q, s \in Nodes : q # s => RefsOf(tree'[q].graph) \cap RefsOf(tree'[s].graph) = {}
    <2> SUFFICES ASSUME NEW q \in Nodes, NEW s \in Nodes, q # s,
                        NEW x \in RefsOf(tree'[q].graph), x \in RefsOf(tree'[s].graph)
                 PROVE  FALSE
        OBVIOUS
    <2>1. tree'[q].graph \in Graphs
        BY TreeIs
    <2>2. x \in Refs
        BY <2>1, RefsOfIs
    <2> QED
        BY <2>2 DEF IndexMatchesTrees
<1> QED
    BY <1>1 DEF StoreIsSane

\* No tree has a message that the index does not lead to.
LEMMA NotOwned ==
    ASSUME IInv, NEW n \in Nodes, owner[Prompt(n)] = NoNode, NEW q \in Nodes
    PROVE  /\ Prompt(n) \notin RefsOf(tree[q].graph) /\ Status(n) \notin RefsOf(tree[q].graph)
           /\ tree[q].graph.state[n] = "absent"
<1>1. Prompt(n) \notin RefsOf(tree[q].graph)
    BY RefFacts, InvariantIs, TreesAssumption DEF IndexMatchesTrees
<1>2. tree[q] \in Trees /\ Good(tree[q], q) /\ tree[q].graph \in Graphs
    BY TreeFacts
<1>3. Status(n) \notin RefsOf(tree[q].graph)
    BY <1>1, <1>2, TreeIsThere
<1>4. n \notin Present(tree[q].graph)
    BY <1>1, <1>2, RefsOfIs
<1> QED
    BY <1>1, <1>2, <1>3, <1>4, GraphIs

LEMMA CreatedIs ==
    ASSUME NEW r \in Nodes, NEW n \in Nodes
    PROVE  /\ Created(r, n) \in Slots /\ Created(r, n).root = r /\ Created(r, n).node = n
           /\ Created(r, n).attached /\ Created(r, n).phase = "created"
BY DEF Created, Slots, Phases

\* A tree takes a turn in: one that is idle claims it for a new task.
LEMMA AdmittedKeeps ==
    ASSUME IInv, op = NoOp, NEW r \in Nodes, NEW n \in Nodes, owner[Prompt(n)] = NoNode,
           NEW u \in Trees, Good(u, r),
           RefsOf(u.graph) = RefsOf(tree[r].graph) \cup {Prompt(n), Status(n)},
           NEW c,
           tree[r].active # NoActive => u.active = tree[r].active /\ u.active.claim # c,
           tree[r].active = NoActive => /\ c \in Claims /\ slot[c].phase = "none"
                                        /\ \A q \in Nodes : tree[q].active.claim # c
                                        /\ u.active.claim = c /\ u.active.node = n
                                        /\ ~u.active.cancelled,
           tree[r].active # NoActive /\ tree[r].graph.state[tree[r].active.node] # "in_progress"
               => u.graph.state[tree[r].active.node] # "in_progress",
           Admitted(r, n, u, c)
    PROVE  IInv'
<1>1. /\ tree' = [tree EXCEPT ![r] = u]
      /\ owner' = [owner EXCEPT ![Prompt(n)] = r, ![Status(n)] = r]
      /\ slot' = IF u.active.claim = c THEN [slot EXCEPT ![c] = Created(r, n)] ELSE slot
      /\ stored' = [stored EXCEPT ![r] = u.graph] /\ op' = op
    BY DEF Admitted
<1>2. /\ tree \in [Nodes -> Trees] /\ owner \in [Refs -> Nodes \cup {NoNode}]
      /\ slot \in [Claims -> Slots] /\ stored \in [Nodes -> Graphs]
    BY InvariantIs
<1>3. /\ tree' \in [Nodes -> Trees] /\ tree'[r] = u
      /\ \A q \in Nodes : q # r => tree'[q] = tree[q]
    BY <1>1, <1>2
<1>4. Prompt(n) \in Refs /\ Status(n) \in Refs /\ Prompt(n) # Status(n)
    BY RefFacts
<1>5. /\ owner' \in [Refs -> Nodes \cup {NoNode}]
      /\ \A x \in Refs : owner'[x] = IF x \in {Prompt(n), Status(n)} THEN r ELSE owner[x]
    BY <1>1, <1>2, <1>4
<1>6. u.graph \in Graphs /\ Sane(u.graph, r)
    BY TreeIs, TreeIsThere DEF Good
<1>7. /\ stored' \in [Nodes -> Graphs] /\ stored'[r] = u.graph
      /\ \A q \in Nodes : q # r => stored'[q] = stored[q]
    BY <1>1, <1>2, <1>6
<1>8. IndexMatchesTrees'
    <2> SUFFICES ASSUME NEW x \in Refs, NEW q \in Nodes
                 PROVE  owner'[x] = q <=> x \in RefsOf(tree'[q].graph)
        BY DEF IndexMatchesTrees
    <2>1. owner[x] = q <=> x \in RefsOf(tree[q].graph)
        BY InvariantIs DEF IndexMatchesTrees
    <2>2. Prompt(n) \notin RefsOf(tree[q].graph) /\ Status(n) \notin RefsOf(tree[q].graph)
        BY NotOwned
    <2>3. CASE x \in {Prompt(n), Status(n)}
        BY <1>3, <1>5, <2>2, <2>3
    <2>4. CASE x \notin {Prompt(n), Status(n)}
        BY <1>3, <1>5, <2>1, <2>4
    <2> QED
        BY <2>3, <2>4
<1>9. StoreIsSane'
    <2>1. \A q \in Nodes : stored'[q] # NoGraph => Sane(stored'[q], q)
        BY <1>6, <1>7, InvariantIs DEF StoreIsSane
    <2>2. \A q \in Nodes : RefsOf(stored[q]) \subseteq RefsOf(tree[q].graph)
        BY InvariantIs DEF StoreIsSane, NoOp
    <2>3. \A q \in Nodes : RefsOf(stored'[q]) \subseteq RefsOf(tree'[q].graph)
        BY <1>3, <1>7, <2>2
    <2> QED
        BY <1>3, <1>8, <2>1, <2>3, StoreFollows
<1>10. OperationIsSane'
    BY <1>1 DEF OperationIsSane, NoOp
<1>11. \A q \in Nodes : Good(tree'[q], q)
    BY <1>3, TreeFacts
<1>12. slot' \in [Claims -> Slots] /\ TasksAreSane'
    <2>1. CASE tree[r].active # NoActive
        <3>1. slot' = slot
            BY <1>1, <2>1
        <3>2. ASSUME NEW q \in Nodes, tree'[q].active # NoActive
              PROVE  WorksFor(slot[tree'[q].active.claim], tree'[q], q)
            <4>1. tree[q].active # NoActive /\ WorksFor(slot[tree[q].active.claim], tree[q], q)
                BY <1>3, <2>1, <3>2, TreeFacts
            <4>2. CASE q = r
                BY <1>3, <2>1, <4>1, <4>2 DEF WorksFor
            <4> QED
                BY <1>3, <4>1, <4>2
        <3>3. \A d \in Claims : slot[d].phase # "none" =>
                 /\ slot[d].root \in Nodes /\ slot[d].node \in Nodes
                 /\ slot[d].attached => tree'[slot[d].root].active.claim = d
            BY <1>3, <2>1, TaskFacts
        <3> QED
            BY <1>2, <3>1, <3>2, <3>3 DEF TasksAreSane, Alive
    <2>2. CASE tree[r].active = NoActive
        <3>1. /\ slot' \in [Claims -> Slots] /\ slot'[c] = Created(r, n)
              /\ \A d \in Claims : d # c => slot'[d] = slot[d]
            BY <1>1, <1>2, <2>2, CreatedIs
        <3>2. ASSUME NEW q \in Nodes, tree'[q].active # NoActive
              PROVE  WorksFor(slot'[tree'[q].active.claim], tree'[q], q)
            <4>1. CASE q = r
                BY <1>3, <2>2, <3>1, <4>1, CreatedIs DEF WorksFor
            <4>2. CASE q # r
                <5>1. tree'[q] = tree[q] /\ tree[q].active # NoActive /\ tree[q].active.claim # c
                    BY <1>3, <2>2, <3>2, <4>2
                <5>2. tree[q].active.claim \in Claims /\ WorksFor(slot[tree[q].active.claim], tree[q], q)
                    BY <5>1, TreeFacts
                <5> QED
                    BY <3>1, <5>1, <5>2
            <4> QED
                BY <4>1, <4>2
        <3>3. \A d \in Claims : slot'[d].phase # "none" =>
                 /\ slot'[d].root \in Nodes /\ slot'[d].node \in Nodes
                 /\ slot'[d].attached => tree'[slot'[d].root].active.claim = d
            <4> TAKE d \in Claims
            <4>1. CASE d = c
                BY <1>3, <2>2, <3>1, <4>1, CreatedIs
            <4>2. CASE d # c
                <5> SUFFICES ASSUME slot[d].phase # "none"
                             PROVE  /\ slot[d].root \in Nodes /\ slot[d].node \in Nodes
                                    /\ slot[d].attached => tree'[slot[d].root].active.claim = d
                    BY <3>1, <4>2
                <5>1. /\ slot[d].root \in Nodes /\ slot[d].node \in Nodes
                      /\ slot[d].attached => /\ tree[slot[d].root].active.claim = d
                                             /\ tree[slot[d].root].active # NoActive
                    BY TaskFacts
                <5> QED
                    BY <1>3, <2>2, <5>1
            <4> QED
                BY <4>1, <4>2
        <3> QED
            BY <3>1, <3>2, <3>3 DEF TasksAreSane, Alive
    <2> QED
        BY <2>1, <2>2
<1>13. TypeOK'
    <2>1. TypeOK
        BY DEF IInv
    <2> QED
        BY <1>1, <1>3, <1>5, <1>7, <1>12, <2>1 DEF TypeOK
<1>14. TreesAreSane'
    BY <1>11 DEF TreesAreSane, Good
<1> QED
    BY <1>8, <1>9, <1>10, <1>12, <1>13, <1>14 DEF IInv

LEMMA AdmitRootKeeps ==
    ASSUME IInv, NEW n \in Nodes, AdmitRoot(n)
    PROVE  IInv'
<1> DEFINE c == FreshClaim
           u == EnqueueOrClaim(NewRoot(n), n, c)
<1>1. op = NoOp /\ owner[Prompt(n)] = NoNode /\ RoomForClaim(NoTree) /\ Admitted(n, n, u, c)
    BY DEF AdmitRoot
<1>2. /\ c \in Claims /\ slot[c].phase = "none"
      /\ \A r \in Nodes : tree[r].active.claim # c
    BY <1>1, FreshIs, NoTreeIs DEF RoomForClaim
<1>3. tree[n] = NoTree
    BY <1>1, NotOwned, TreeFacts, TreeIsThere
<1> HIDE DEF c
<1>4. /\ u \in Trees /\ Good(u, n) /\ RefsOf(u.graph) = {Prompt(n), Status(n)}
      /\ u.active.claim = c /\ u.active.node = n /\ ~u.active.cancelled
    BY <1>2, RootIs
<1>5. tree[n].active = NoActive /\ RefsOf(tree[n].graph) = {}
    BY <1>3, NoTreeIs, NoGraphIs
<1> HIDE DEF u
<1> QED
    BY <1>1, <1>2, <1>4, <1>5, AdmittedKeeps

LEMMA AdmitReplyKeeps ==
    ASSUME IInv, NEW n \in Nodes, NEW ref \in Refs, AdmitReply(n, ref)
    PROVE  IInv'
<1> DEFINE r == owner[ref]
           c == FreshClaim
           u == EnqueueOrClaim([tree[r] EXCEPT !.graph = AddNode(@, n, ref)], n, c)
<1>1. /\ op = NoOp /\ owner[Prompt(n)] = NoNode /\ r # NoNode /\ ref \in RefsOf(tree[r].graph)
      /\ RoomForClaim(tree[r]) /\ Admitted(r, n, u, c)
    BY DEF AdmitReply
<1>2. r \in Nodes
    BY <1>1, InvariantIs
<1>3. tree[r].active = NoActive => /\ c \in Claims /\ slot[c].phase = "none"
                                   /\ \A q \in Nodes : tree[q].active.claim # c
    BY <1>1, FreshIs DEF RoomForClaim
<1>4. tree[r].active # NoActive => tree[r].active.claim # c
    <2>1. CASE FreeClaims = {}
        BY <1>2, <2>1, TreeFacts, ClaimIds DEF FreshClaim
    <2>2. CASE FreeClaims # {}
        BY <1>2, <2>2, FreshIs
    <2> QED
        BY <2>1, <2>2
<1>5. tree[r] \in Trees /\ Good(tree[r], r) /\ tree[r] # NoTree
    BY <1>1, <1>2, TreeFacts
<1>6. tree[r].graph.state[n] = "absent"
    BY <1>1, <1>2, NotOwned
<1>7. tree[r].active # NoActive => tree[r].active.node \in Nodes
    BY <1>2, TreeFacts
<1>a. u = EnqueueOrClaim(WithReply(tree[r], n, ref), n, c)
    BY DEF WithReply
<1> HIDE DEF c, r, u
<1>8. /\ u \in Trees /\ Good(u, r)
      /\ RefsOf(u.graph) = RefsOf(tree[r].graph) \cup {Prompt(n), Status(n)}
      /\ tree[r].active # NoActive => u.active = tree[r].active
      /\ tree[r].active = NoActive => u.active.claim = c /\ u.active.node = n /\ ~u.active.cancelled
      /\ \A m \in Nodes : m # n => u.graph.state[m] = tree[r].graph.state[m]
    <2>1. tree[r].active = NoActive => c \in Claims
        BY <1>3
    <2>2. ref \in RefsOf(tree[r].graph)
        BY <1>1
    <2> QED
        BY <1>2, <1>5, <1>6, <1>a, <2>1, <2>2, ReplyIs, Z3
<1>9. tree[r].active # NoActive /\ tree[r].graph.state[tree[r].active.node] # "in_progress"
         => u.graph.state[tree[r].active.node] # "in_progress"
    <2> SUFFICES ASSUME tree[r].active # NoActive,
                        tree[r].graph.state[tree[r].active.node] # "in_progress"
                 PROVE  u.graph.state[tree[r].active.node] # "in_progress"
        OBVIOUS
    <2>1. CASE tree[r].active.node = n
        <3>1. tree[r].active.cancelled
            BY <1>5, <1>6, <2>1 DEF Good, ClaimSane
        <3> QED
            BY <1>8, <3>1 DEF Good, ClaimSane
    <2>2. CASE tree[r].active.node # n
        BY <1>7, <1>8, <2>2
    <2> QED
        BY <2>1, <2>2
<1> QED
    BY <1>1, <1>2, <1>3, <1>4, <1>8, <1>9, AdmittedKeeps

\* A message that is there already changes nothing.
LEMMA AdmitDuplicateKeeps ==
    ASSUME IInv, NEW n \in Nodes, AdmitDuplicate(n)
    PROVE  UNCHANGED vars
<1> DEFINE r == owner[Prompt(n)]
<1>1. /\ r # NoNode /\ UNCHANGED <<owner, slot, stored, op>>
      /\ tree' = [tree EXCEPT ![r] = EnqueueOrClaim(@, n, FreshClaim)]
    BY DEF AdmitDuplicate
<1>2. r \in Nodes /\ tree \in [Nodes -> Trees]
    BY <1>1, InvariantIs, RefFacts
<1>3. tree[r] \in Trees /\ QueueSane(tree[r])
    BY <1>2, TreeFacts
<1> HIDE DEF r
<1>4. EnqueueOrClaim(tree[r], n, FreshClaim) = tree[r]
    BY <1>3, DuplicateIs
<1>5. tree' = tree
    BY <1>1, <1>2, <1>4
<1> QED
    BY <1>1, <1>5 DEF vars

(***************************************************************************)
(* Stop and clear                                                          *)
(***************************************************************************)

\* What becomes of the tasks when the claims of the trees in C are cancelled
\* and the trees in R are gone.
SlotsFollow(C, R) ==
    \A c \in Claims :
        /\ slot'[c].root = slot[c].root /\ slot'[c].node = slot[c].node
        /\ slot'[c].attached <=> slot[c].attached /\ slot[c].root \notin R
        /\ slot'[c].phase = IF c \in {tree[r].active.claim : r \in C}
                            THEN CancelPhase(slot[c].phase) ELSE slot[c].phase

LEMMA CancelPhaseIs ==
    ASSUME NEW p \in Phases
    PROVE  /\ CancelPhase(p) \in Phases
           /\ CancelPhase(p) = "none" <=> p = "none"
           /\ CancelPhase(p) \in {"cancelling", "unentered", p}
           /\ CancelPhase(p) # "reported"
<1>1. CASE p = "created"
    BY <1>1 DEF CancelPhase, Phases
<1>2. CASE p \in {"starting", "running", "reported"}
    BY <1>2 DEF CancelPhase, Phases
<1>3. CASE p \notin {"created", "starting", "running", "reported"}
    BY <1>3 DEF CancelPhase, Phases
<1> QED
    BY <1>1, <1>2, <1>3

LEMMA SlotsAfterIs ==
    ASSUME slot \in [Claims -> Slots], NEW C, NEW R, slot' = SlotsAfter(C, R)
    PROVE  slot' \in [Claims -> Slots] /\ SlotsFollow(C, R)
<1> DEFINE K == {tree[r].active.claim : r \in C}
<1>1. \A c \in Claims : slot[c] \in Slots /\ slot[c].phase \in Phases
    BY DEF Slots
<1>2. ASSUME NEW c \in Claims
      PROVE  /\ slot'[c] \in Slots /\ slot'[c].root = slot[c].root /\ slot'[c].node = slot[c].node
             /\ slot'[c].phase = IF c \in K THEN CancelPhase(slot[c].phase) ELSE slot[c].phase
             /\ slot'[c].attached <=> slot[c].attached /\ slot[c].root \notin R
    <2> DEFINE p == IF c \in K THEN CancelPhase(slot[c].phase) ELSE slot[c].phase
    <2>1. p \in Phases
        BY <1>1, CancelPhaseIs
    <2>2. slot'[c] = [slot[c] EXCEPT !.phase = p,
                                    !.attached = slot[c].attached /\ slot[c].root \notin R]
        BY Zenon DEF SlotsAfter
    <2> HIDE DEF p
    <2>3. slot'[c] \in Slots
        BY <1>1, <2>1, <2>2 DEF Slots
    <2>4. slot'[c].root = slot[c].root /\ slot'[c].node = slot[c].node /\ slot'[c].phase = p
        BY <1>1, <2>2 DEF Slots
    <2>5. slot'[c].attached <=> slot[c].attached /\ slot[c].root \notin R
        BY <1>1, <2>2 DEF Slots
    <2> QED
        BY <2>3, <2>4, <2>5 DEF p
<1>3. slot' \in [Claims -> Slots]
    <2> HIDE DEF K
    <2>1. \A c \in Claims : slot'[c] \in Slots
        BY <1>2
    <2>2. slot' = [c \in Claims |-> slot'[c]]
        BY Zenon DEF SlotsAfter
    <2> QED
        BY <2>1, <2>2
<1> QED
    BY <1>2, <1>3 DEF SlotsFollow

\* Nothing is cancelled and nothing is removed.
LEMMA SlotsStay ==
    ASSUME slot' = slot
    PROVE  SlotsFollow({}, {})
BY DEF SlotsFollow

\* Two trees have two claims.
LEMMA OneTreePerClaim ==
    ASSUME IInv, NEW q \in Nodes, NEW r \in Nodes, tree[q].active # NoActive,
           tree[q].active.claim = tree[r].active.claim
    PROVE  q = r
<1>1. tree[r].active # NoActive
    BY TreeFacts
<1> QED
    BY <1>1, TreeFacts DEF WorksFor

\* The tasks of the claims that are cancelled find them cancelled, and those
\* whose tree is gone work for no tree.
LEMMA CancelledTasks ==
    ASSUME IInv, NEW C \in SUBSET Nodes, NEW R \in SUBSET Nodes, SlotsFollow(C, R),
           tree' \in [Nodes -> Trees], \A r \in Nodes : Good(tree'[r], r),
           \A r \in R : tree'[r] = NoTree,
           \A r \in Nodes \ R :
               /\ tree'[r].active.claim = tree[r].active.claim
               /\ tree'[r].active.node = tree[r].active.node
               /\ tree[r].active.cancelled \/ (r \in C /\ tree[r].active # NoActive)
                  => tree'[r].active.cancelled
               /\ \A n \in Nodes : tree'[r].graph.state[n] = "in_progress"
                                   => tree[r].graph.state[n] = "in_progress"
    PROVE  TasksAreSane'
<1>1. slot \in [Claims -> Slots]
    BY InvariantIs
<1>2. ASSUME NEW q \in Nodes, tree'[q].active # NoActive
      PROVE  WorksFor(slot'[tree'[q].active.claim], tree'[q], q)
    <2> DEFINE c == tree[q].active.claim
               n == tree[q].active.node
    <2>1. q \notin R
        BY <1>2, NoTreeIs
    <2>2. tree'[q].active.claim = c /\ tree'[q].active.node = n
        BY <2>1
    <2>3. tree[q].active # NoActive
        <3>1. tree'[q].active.claim # NoClaim
            BY <1>2, BusyIs DEF Good
        <3> QED
            BY <2>2, <3>1, TreeFacts
    <2>4. c \in Claims /\ n \in Nodes /\ WorksFor(slot[c], tree[q], q)
        BY <2>3, TreeFacts
    <2>5. slot[c].phase \in Phases
        BY <1>1, <2>4 DEF Slots
    <2>6. /\ slot'[c].root = slot[c].root /\ slot'[c].node = slot[c].node
          /\ slot'[c].attached <=> slot[c].attached /\ slot[c].root \notin R
          /\ slot'[c].phase = IF c \in {tree[r].active.claim : r \in C}
                              THEN CancelPhase(slot[c].phase) ELSE slot[c].phase
        BY <2>4 DEF SlotsFollow
    <2>7. c \in {tree[r].active.claim : r \in C} => q \in C
        BY <2>3, OneTreePerClaim
    <2>8. CancelPhase(slot[c].phase) # "none"
        BY <2>4, <2>5, CancelPhaseIs DEF WorksFor
    <2>9. slot'[c].phase # "none" /\ slot'[c].attached /\ slot'[c].root = q /\ slot'[c].node = n
        BY <2>1, <2>4, <2>6, <2>8 DEF WorksFor
    <2>10. slot'[c].phase \in {"cancelling", "unentered"} => tree'[q].active.cancelled
        BY <2>1, <2>3, <2>4, <2>6, <2>7 DEF WorksFor
    <2>11. slot'[c].phase \in {"reported", "closing"} => slot[c].phase \in {"reported", "closing"}
        BY <2>5, <2>6, CancelPhaseIs
    <2>12. slot'[c].phase \in {"reported", "closing"} => tree'[q].graph.state[n] # "in_progress"
        BY <2>1, <2>4, <2>11 DEF WorksFor
    <2> HIDE DEF c, n
    <2> QED
        BY <2>2, <2>9, <2>10, <2>12 DEF WorksFor
<1>3. \A d \in Claims : slot'[d].phase # "none" =>
          /\ slot'[d].root \in Nodes /\ slot'[d].node \in Nodes
          /\ slot'[d].attached => tree'[slot'[d].root].active.claim = d
    <2> SUFFICES ASSUME NEW d \in Claims, slot'[d].phase # "none"
                 PROVE  /\ slot'[d].root \in Nodes /\ slot'[d].node \in Nodes
                        /\ slot'[d].attached => tree'[slot'[d].root].active.claim = d
        OBVIOUS
    <2>1. slot[d].phase \in Phases
        BY <1>1 DEF Slots
    <2>2. /\ slot'[d].root = slot[d].root /\ slot'[d].node = slot[d].node
          /\ slot'[d].attached <=> slot[d].attached /\ slot[d].root \notin R
          /\ slot[d].phase # "none"
        BY <2>1, CancelPhaseIs DEF SlotsFollow
    <2>3. /\ slot[d].root \in Nodes /\ slot[d].node \in Nodes
          /\ slot[d].attached => tree[slot[d].root].active.claim = d
        BY <2>2, TaskFacts
    <2> QED
        BY <2>2, <2>3
<1> QED
    BY <1>2, <1>3 DEF TasksAreSane, Alive

\* The operation goes on.
LEMMA ProceedIs ==
    ASSUME tree' \in [Nodes -> Trees], NEW T \in SUBSET Nodes, NEW Rm \in SUBSET Nodes,
           NEW drains \in BOOLEAN, Proceed(T, Rm, drains)
    PROVE  /\ OpIsTyped' /\ op'.trees = T /\ op'.removes = Rm
           /\ op'.phase = IF drains THEN "drain" ELSE "save"
           /\ ~drains => \A r \in T : op'.snapshots[r] = tree'[r].graph
<1>1. \A r \in T : tree'[r].graph \in Graphs
    BY TreeIs
<1>2. CASE drains
    <2>1. op' = [phase |-> "drain", trees |-> T, removes |-> Rm, snapshots |-> << >>]
        BY <1>2 DEF Proceed, NoOp
    <2>2. << >> \in [{} -> Graphs]
        OBVIOUS
    <2> QED
        BY <1>2, <2>1, <2>2 DEF OpIsTyped
<1>3. CASE ~drains
    <2> DEFINE s == [r \in T |-> tree'[r].graph]
    <2>1. op' = [phase |-> "save", trees |-> T, removes |-> Rm, snapshots |-> s]
        BY <1>3 DEF Proceed, SnapshotsOf
    <2>2. s \in [T -> Graphs] /\ \A r \in T : s[r] = tree'[r].graph
        BY <1>1
    <2> HIDE DEF s
    <2>3. op'.phase = "save" /\ op'.trees = T /\ op'.removes = Rm /\ op'.snapshots = s
        BY <2>1
    <2>4. OpIsTyped'
        BY <2>1, <2>2 DEF OpIsTyped
    <2> QED
        BY <1>3, <2>2, <2>3, <2>4
<1> QED
    BY <1>2, <1>3

\* An operation begins: the store is behind only where the operation is going
\* to save or to remove.
LEMMA OperationKeeps ==
    ASSUME IInv, op = NoOp,
           tree' \in [Nodes -> Trees], \A r \in Nodes : Good(tree'[r], r),
           slot' \in [Claims -> Slots], TasksAreSane',
           owner' \in [Refs -> Nodes \cup {NoNode}], IndexMatchesTrees', stored' = stored,
           NEW T \in SUBSET Nodes, NEW Rm \in SUBSET Nodes, NEW drains \in BOOLEAN,
           Proceed(T, Rm, drains), \A r \in T : tree'[r] # NoTree,
           \A r \in Nodes : RefsOf(tree'[r].graph) \subseteq RefsOf(tree[r].graph),
           \A r \in Nodes \ (T \cup Rm) : RefsOf(tree'[r].graph) = RefsOf(tree[r].graph)
    PROVE  IInv'
<1>1. /\ OpIsTyped' /\ op'.trees = T /\ op'.removes = Rm
      /\ op'.phase \in {"drain", "save"}
      /\ op'.phase = "save" => \A r \in T : op'.snapshots[r] = tree'[r].graph
    BY ProceedIs
<1>2. stored \in [Nodes -> Graphs]
    BY InvariantIs
<1>3. TypeOK'
    BY <1>1, <1>2 DEF TypeOK, OpIsTyped
<1>4. TreesAreSane'
    BY DEF TreesAreSane, Good
<1>5. StoreIsSane'
    <2>1. /\ \A r \in Nodes : stored[r] # NoGraph => Sane(stored[r], r)
          /\ \A r, q \in Nodes : r # q =>
                RefsOf(stored[r]) \cap (RefsOf(stored[q]) \cup RefsOf(tree[q].graph)) = {}
          /\ \A r \in Nodes : RefsOf(stored[r]) \subseteq RefsOf(tree[r].graph)
        BY InvariantIs DEF StoreIsSane, NoOp
    <2>2. \A r, q \in Nodes : r # q =>
                RefsOf(stored[r]) \cap (RefsOf(stored[q]) \cup RefsOf(tree'[q].graph)) = {}
        BY <2>1
    <2>3. \A r \in Nodes \ (op'.trees \cup op'.removes) :
              RefsOf(stored[r]) \subseteq RefsOf(tree'[r].graph)
        BY <1>1, <2>1
    <2> QED
        BY <2>1, <2>2, <2>3 DEF StoreIsSane
<1>6. OperationIsSane'
    BY <1>1 DEF OperationIsSane, Good
<1> QED
    BY <1>3, <1>4, <1>5, <1>6 DEF IInv

\* /stop in reply to a message
LEMMA StopReplyKeeps ==
    ASSUME IInv, NEW ref \in Refs, StopReply(ref)
    PROVE  IInv'
<1> DEFINE r == owner[ref]
           n == ref[2]
           holdsClaim == tree[r].active.node = n
           u == CancelNode(tree[r], n)
           C == IF holdsClaim THEN {r} ELSE {}
<1>1. /\ op = NoOp /\ r # NoNode /\ ref \in RefsOf(tree[r].graph)
      /\ tree' = [tree EXCEPT ![r] = u]
      /\ slot' = IF holdsClaim THEN SlotsAfter({r}, {}) ELSE slot
      /\ Proceed({r}, {}, holdsClaim) /\ owner' = owner /\ stored' = stored
    BY DEF StopReply
<1>2. /\ r \in Nodes /\ tree \in [Nodes -> Trees] /\ owner \in [Refs -> Nodes \cup {NoNode}]
      /\ slot \in [Claims -> Slots] /\ n \in Nodes /\ holdsClaim \in BOOLEAN
    BY <1>1, InvariantIs, RefFacts
<1>3. tree[r] \in Trees /\ Good(tree[r], r) /\ tree[r] # NoTree
    BY <1>1, <1>2, TreeFacts
<1>4. slot' \in [Claims -> Slots] /\ SlotsFollow(C, {})
    BY <1>1, <1>2, SlotsAfterIs, SlotsStay
<1> HIDE DEF r, n, u
<1>5. /\ u \in Trees /\ Good(u, r) /\ RefsOf(u.graph) = RefsOf(tree[r].graph)
      /\ u.active.claim = tree[r].active.claim /\ u.active.node = tree[r].active.node
      /\ u.active.cancelled <=> tree[r].active.cancelled \/ tree[r].active.node = n
      /\ \A m \in Nodes : u.graph.state[m] =
            IF m = n /\ tree[r].graph.state[m] \in Runnable THEN "error"
            ELSE tree[r].graph.state[m]
    BY <1>2, <1>3, CancelNodeIs DEF u
<1>6. /\ tree' \in [Nodes -> Trees] /\ tree'[r] = u
      /\ \A q \in Nodes : q # r => tree'[q] = tree[q]
    BY <1>1, <1>2, <1>5
<1>7. \A q \in Nodes : Good(tree'[q], q) /\ RefsOf(tree'[q].graph) = RefsOf(tree[q].graph)
    BY <1>5, <1>6, TreeFacts
<1>8. IndexMatchesTrees'
    BY <1>1, <1>6, <1>7, MessagesStay
<1>9. TasksAreSane'
    <2>1. \A q \in Nodes \ {} :
               /\ tree'[q].active.claim = tree[q].active.claim
               /\ tree'[q].active.node = tree[q].active.node
               /\ tree[q].active.cancelled \/ (q \in C /\ tree[q].active # NoActive)
                  => tree'[q].active.cancelled
               /\ \A m \in Nodes : tree'[q].graph.state[m] = "in_progress"
                                   => tree[q].graph.state[m] = "in_progress"
        BY <1>5, <1>6
    <2>2. C \in SUBSET Nodes
        BY <1>2
    <2> HIDE DEF C
    <2> QED
        BY <1>4, <1>6, <1>7, <2>1, <2>2, CancelledTasks
<1>10. tree'[r] # NoTree
    BY <1>1, <1>2, <1>5, <1>6, TreeIsThere
<1> DEFINE T == {r}
           Rm == {}
<1>11. /\ T \in SUBSET Nodes /\ Rm \in SUBSET Nodes /\ \A q \in T : tree'[q] # NoTree
       /\ \A q \in Nodes : RefsOf(tree'[q].graph) \subseteq RefsOf(tree[q].graph)
       /\ \A q \in Nodes \ (T \cup Rm) : RefsOf(tree'[q].graph) = RefsOf(tree[q].graph)
       /\ owner' \in [Refs -> Nodes \cup {NoNode}]
    BY <1>1, <1>2, <1>7, <1>10
<1>12. Proceed(T, Rm, holdsClaim) /\ holdsClaim \in BOOLEAN
    BY <1>1
<1>13. op = NoOp /\ stored' = stored /\ slot' \in [Claims -> Slots] /\ tree' \in [Nodes -> Trees]
    BY <1>1, <1>4, <1>6
<1>14. \A q \in Nodes : Good(tree'[q], q)
    BY <1>7
<1> HIDE DEF holdsClaim, T, Rm
<1> QED
    BY <1>8, <1>9, <1>11, <1>12, <1>13, <1>14, OperationKeeps

\* Every claim and every turn of some trees is cancelled.
LEMMA AllCancelled ==
    ASSUME IInv, NEW B \in SUBSET Published,
           tree' = [r \in Nodes |-> IF r \in B THEN CancelAll(tree[r]) ELSE tree[r]],
           slot' = SlotsAfter(B, {}), owner' = owner
    PROVE  /\ tree' \in [Nodes -> Trees] /\ slot' \in [Claims -> Slots]
           /\ TasksAreSane' /\ IndexMatchesTrees'
           /\ \A r \in Nodes : /\ Good(tree'[r], r)
                               /\ RefsOf(tree'[r].graph) = RefsOf(tree[r].graph)
                               /\ tree[r] # NoTree => tree'[r] # NoTree
<1>1. B \in SUBSET Nodes /\ slot \in [Claims -> Slots]
    BY InvariantIs DEF Published
<1>2. slot' \in [Claims -> Slots] /\ SlotsFollow(B, {})
    BY <1>1, SlotsAfterIs
<1>3. ASSUME NEW r \in Nodes
      PROVE  /\ tree'[r] \in Trees /\ Good(tree'[r], r)
             /\ RefsOf(tree'[r].graph) = RefsOf(tree[r].graph)
             /\ tree'[r].active.claim = tree[r].active.claim
             /\ tree'[r].active.node = tree[r].active.node
             /\ tree[r].active.cancelled \/ (r \in B /\ tree[r].active # NoActive)
                => tree'[r].active.cancelled
             /\ \A n \in Nodes : tree'[r].graph.state[n] = "in_progress"
                                 => tree[r].graph.state[n] = "in_progress"
    <2>1. tree[r] \in Trees /\ Good(tree[r], r)
        BY TreeFacts
    <2>2. CASE r \in B
        <3>1. tree'[r] = CancelAll(tree[r]) /\ tree[r] # NoTree
            BY <2>2 DEF Published
        <3>2. tree[r].active.cancelled => tree[r].active # NoActive
            BY NoTreeIs
        <3> QED
            BY <2>1, <3>1, <3>2, CancelAllIs
    <2>3. CASE r \notin B
        <3>1. tree'[r] = tree[r]
            BY <2>3
        <3> QED
            BY <2>1, <2>3, <3>1
    <2> QED
        BY <2>2, <2>3
<1>4. tree' \in [Nodes -> Trees]
    BY <1>3
<1>5. TasksAreSane'
    BY <1>1, <1>2, <1>3, <1>4, CancelledTasks
<1>6. IndexMatchesTrees'
    BY <1>3, <1>4, MessagesStay
<1>7. \A r \in Nodes : tree[r] # NoTree => tree'[r] # NoTree
    BY <1>3, TreeFacts, TreeIsThere
<1> QED
    BY <1>2, <1>3, <1>4, <1>5, <1>6, <1>7

\* /stop
LEMMA StopAllKeeps ==
    ASSUME IInv, StopAll
    PROVE  IInv'
<1>1. /\ op = NoOp /\ owner' = owner /\ stored' = stored
      /\ tree' = [r \in Nodes |-> IF r \in Published THEN CancelAll(tree[r]) ELSE tree[r]]
      /\ slot' = SlotsAfter(Published, {})
      /\ Proceed(Published, {}, HasActive(Published))
    BY DEF StopAll
<1>2. /\ Published \in SUBSET Nodes /\ HasActive(Published) \in BOOLEAN
      /\ owner \in [Refs -> Nodes \cup {NoNode}]
    BY InvariantIs DEF Published, HasActive
<1>3. /\ tree' \in [Nodes -> Trees] /\ slot' \in [Claims -> Slots]
      /\ TasksAreSane' /\ IndexMatchesTrees'
      /\ \A r \in Nodes : /\ Good(tree'[r], r)
                          /\ RefsOf(tree'[r].graph) = RefsOf(tree[r].graph)
                          /\ tree[r] # NoTree => tree'[r] # NoTree
    BY <1>1, AllCancelled
<1>4. \A r \in Published : tree'[r] # NoTree
    BY <1>3 DEF Published
<1> QED
    BY <1>1, <1>2, <1>3, <1>4, OperationKeeps

\* /stop, refused half way
LEMMA StopAllRaisesKeeps ==
    ASSUME IInv, NEW before \in SUBSET (Published \ Refusing), StopAllRaises(before)
    PROVE  IInv'
<1>1. /\ op = NoOp /\ owner' = owner /\ stored' = stored /\ op' = op
      /\ tree' = [r \in Nodes |-> IF r \in before THEN CancelAll(tree[r]) ELSE tree[r]]
      /\ slot' = SlotsAfter(before, {})
    BY DEF StopAllRaises
<1>2. /\ tree' \in [Nodes -> Trees] /\ slot' \in [Claims -> Slots]
      /\ TasksAreSane' /\ IndexMatchesTrees'
      /\ \A r \in Nodes : /\ Good(tree'[r], r)
                          /\ RefsOf(tree'[r].graph) = RefsOf(tree[r].graph)
    BY <1>1, AllCancelled
<1>3. StoreIsSane' /\ OperationIsSane'
    BY <1>1, <1>2, MessagesStay
<1>4. TypeOK'
    <2>1. TypeOK
        BY DEF IInv
    <2> QED
        BY <1>1, <1>2, <2>1 DEF TypeOK
<1>5. TreesAreSane'
    BY <1>2 DEF TreesAreSane, Good
<1> QED
    BY <1>2, <1>3, <1>4, <1>5 DEF IInv

\* Some trees leave the repository, and the claims of some of them are cancelled.
LEMMA AllRemoved ==
    ASSUME IInv, NEW B \in SUBSET Nodes, NEW C \in SUBSET B,
           tree' = [r \in Nodes |-> IF r \in B THEN NoTree ELSE tree[r]],
           slot' = SlotsAfter(C, B), Forget(B)
    PROVE  /\ tree' \in [Nodes -> Trees] /\ slot' \in [Claims -> Slots]
           /\ owner' \in [Refs -> Nodes \cup {NoNode}]
           /\ TasksAreSane' /\ IndexMatchesTrees'
           /\ \A r \in Nodes : /\ Good(tree'[r], r)
                               /\ RefsOf(tree'[r].graph) \subseteq RefsOf(tree[r].graph)
                               /\ r \notin B => RefsOf(tree'[r].graph) = RefsOf(tree[r].graph)
<1>1. slot \in [Claims -> Slots] /\ owner \in [Refs -> Nodes \cup {NoNode}]
    BY InvariantIs
<1>2. slot' \in [Claims -> Slots] /\ SlotsFollow(C, B)
    BY <1>1, SlotsAfterIs
<1>3. ASSUME NEW r \in Nodes
      PROVE  /\ tree'[r] = IF r \in B THEN NoTree ELSE tree[r]
             /\ tree'[r] \in Trees /\ Good(tree'[r], r)
             /\ RefsOf(tree'[r].graph) = IF r \in B THEN {} ELSE RefsOf(tree[r].graph)
    <2>1. tree'[r] = IF r \in B THEN NoTree ELSE tree[r]
        OBVIOUS
    <2>2. tree[r] \in Trees /\ Good(tree[r], r)
        BY TreeFacts
    <2> QED
        BY <2>1, <2>2, NoTreeIs, NoTreeIsGood, NoGraphIs
<1>4. tree' \in [Nodes -> Trees]
    BY <1>3
<1>5. TasksAreSane'
    <2>1. \A r \in B : tree'[r] = NoTree
        BY <1>3
    <2>2. \A r \in Nodes \ B :
               /\ tree'[r].active.claim = tree[r].active.claim
               /\ tree'[r].active.node = tree[r].active.node
               /\ tree[r].active.cancelled \/ (r \in C /\ tree[r].active # NoActive)
                  => tree'[r].active.cancelled
               /\ \A n \in Nodes : tree'[r].graph.state[n] = "in_progress"
                                   => tree[r].graph.state[n] = "in_progress"
        BY <1>3
    <2>3. C \in SUBSET Nodes
        OBVIOUS
    <2>4. \A r \in Nodes : Good(tree'[r], r)
        BY <1>3
    <2> QED
        BY <1>2, <1>4, <2>1, <2>2, <2>3, <2>4, CancelledTasks
<1>6. /\ owner' \in [Refs -> Nodes \cup {NoNode}]
      /\ \A x \in Refs : owner'[x] = IF owner[x] \in B THEN NoNode ELSE owner[x]
    BY <1>1 DEF Forget
<1>7. IndexMatchesTrees'
    <2> SUFFICES ASSUME NEW x \in Refs, NEW r \in Nodes
                 PROVE  owner'[x] = r <=> x \in RefsOf(tree'[r].graph)
        BY DEF IndexMatchesTrees
    <2>1. owner[x] = r <=> x \in RefsOf(tree[r].graph)
        BY InvariantIs DEF IndexMatchesTrees
    <2>2. NoNode # r
        BY TreesAssumption
    <2> QED
        BY <1>3, <1>6, <2>1, <2>2
<1> QED
    BY <1>2, <1>3, <1>4, <1>5, <1>6, <1>7

\* /clear
LEMMA ClearChatKeeps ==
    ASSUME IInv, ClearChat
    PROVE  IInv'
<1>1. /\ op = NoOp /\ stored' = stored /\ tree' = [r \in Nodes |-> NoTree]
      /\ slot' = SlotsAfter(Published, Published) /\ Forget(Published)
      /\ Proceed({}, Nodes, HasActive(Published))
    BY DEF ClearChat
<1>2. Published \in SUBSET Nodes /\ HasActive(Published) \in BOOLEAN
    BY DEF Published, HasActive
<1>3. tree' = [r \in Nodes |-> IF r \in Published THEN NoTree ELSE tree[r]]
    BY <1>1 DEF Published
<1>4. /\ tree' \in [Nodes -> Trees] /\ slot' \in [Claims -> Slots]
      /\ owner' \in [Refs -> Nodes \cup {NoNode}]
      /\ TasksAreSane' /\ IndexMatchesTrees'
      /\ \A r \in Nodes : /\ Good(tree'[r], r)
                          /\ RefsOf(tree'[r].graph) \subseteq RefsOf(tree[r].graph)
    BY <1>1, <1>2, <1>3, AllRemoved
<1> QED
    BY <1>1, <1>2, <1>4, OperationKeeps

\* /clear, refused half way
LEMMA ClearChatRaisesKeeps ==
    ASSUME IInv, NEW before \in SUBSET (Published \ Refusing), ClearChatRaises(before)
    PROVE  IInv'
<1> DEFINE drains == FALSE
<1>1. /\ op = NoOp /\ stored' = stored
      /\ tree' = [r \in Nodes |-> IF r \in before THEN NoTree ELSE tree[r]]
      /\ slot' = SlotsAfter(before, before) /\ Forget(before)
      /\ Proceed({}, Nodes, drains)
    BY DEF ClearChatRaises
<1>2. before \in SUBSET Nodes /\ drains \in BOOLEAN
    BY DEF Published
<1> HIDE DEF drains
<1>3. /\ tree' \in [Nodes -> Trees] /\ slot' \in [Claims -> Slots]
      /\ owner' \in [Refs -> Nodes \cup {NoNode}]
      /\ TasksAreSane' /\ IndexMatchesTrees'
      /\ \A r \in Nodes : /\ Good(tree'[r], r)
                          /\ RefsOf(tree'[r].graph) \subseteq RefsOf(tree[r].graph)
    BY <1>1, <1>2, AllRemoved
<1> QED
    BY <1>1, <1>2, <1>3, OperationKeeps

\* /clear in reply to the root, or to a message that takes the root with it
LEMMA ClearTreeKeeps ==
    ASSUME IInv, NEW ref \in Refs, ClearReply(ref),
           owner[ref] \in RemovedNodes(tree[owner[ref]], ref)
    PROVE  IInv'
<1> DEFINE r == owner[ref]
           cancels == tree[r].active.node \in AffectedNodes(tree[r], ref)
           B == {r}
           C == IF cancels THEN {r} ELSE {}
           T == {}
<1>1. /\ op = NoOp /\ r # NoNode /\ stored' = stored
      /\ tree' = [tree EXCEPT ![r] = NoTree]
      /\ slot' = SlotsAfter(C, B) /\ Forget(B)
    BY DEF ClearReply
<1>2. Proceed(T, B, cancels) /\ cancels \in BOOLEAN
    BY DEF ClearReply
<1>3. r \in Nodes /\ tree \in [Nodes -> Trees]
    BY <1>1, InvariantIs
<1>4. B \in SUBSET Nodes /\ C \in SUBSET B /\ T \in SUBSET Nodes
    BY <1>3
<1>5. tree' = [q \in Nodes |-> IF q \in B THEN NoTree ELSE tree[q]]
    BY <1>1, <1>3
<1> HIDE DEF B, C, cancels, r, T
<1>6. /\ tree' \in [Nodes -> Trees] /\ slot' \in [Claims -> Slots]
      /\ owner' \in [Refs -> Nodes \cup {NoNode}]
      /\ TasksAreSane' /\ IndexMatchesTrees'
      /\ \A q \in Nodes : /\ Good(tree'[q], q)
                          /\ RefsOf(tree'[q].graph) \subseteq RefsOf(tree[q].graph)
                          /\ q \notin B => RefsOf(tree'[q].graph) = RefsOf(tree[q].graph)
    BY <1>1, <1>4, <1>5, AllRemoved
<1>7. /\ \A q \in T : tree'[q] # NoTree
      /\ \A q \in Nodes \ (T \cup B) : RefsOf(tree'[q].graph) = RefsOf(tree[q].graph)
    BY <1>6 DEF T
<1>8. op = NoOp /\ stored' = stored /\ \A q \in Nodes : Good(tree'[q], q)
    BY <1>1, <1>6
<1> QED
    BY <1>2, <1>4, <1>6, <1>7, <1>8, OperationKeeps

\* /clear in reply to a message, of a tree whose root stays
LEMMA ClearBranchKeeps ==
    ASSUME IInv, NEW ref \in Refs, ClearReply(ref),
           owner[ref] \notin RemovedNodes(tree[owner[ref]], ref)
    PROVE  IInv'
<1> DEFINE r == owner[ref]
           cancels == tree[r].active.node \in AffectedNodes(tree[r], ref)
           gone == ReplySubtree(tree[r].graph, ref)
           u == RemoveMessageSubtree(tree[r], ref)
           C == IF cancels THEN {r} ELSE {}
           T == {r}
           Rm == {}
<1>1. /\ op = NoOp /\ r # NoNode /\ ref \in RefsOf(tree[r].graph) /\ stored' = stored
      /\ tree' = [tree EXCEPT ![r] = u] /\ slot' = SlotsAfter(C, {})
      /\ owner' = [x \in Refs |-> IF x \in gone THEN NoNode ELSE owner[x]]
    BY DEF ClearReply
<1>2. Proceed(T, Rm, cancels) /\ cancels \in BOOLEAN
    BY DEF ClearReply
<1>3. /\ r \in Nodes /\ tree \in [Nodes -> Trees] /\ slot \in [Claims -> Slots]
      /\ owner \in [Refs -> Nodes \cup {NoNode}] /\ r \notin RemovedNodes(tree[r], ref)
    BY <1>1, InvariantIs
<1>4. T \in SUBSET Nodes /\ C \in SUBSET Nodes /\ Rm \in SUBSET Nodes
    BY <1>3
<1>5. tree[r] \in Trees /\ Good(tree[r], r) /\ tree[r] # NoTree
    BY <1>1, <1>3, TreeFacts
<1>6. slot' \in [Claims -> Slots] /\ SlotsFollow(C, {})
    BY <1>1, <1>3, SlotsAfterIs
<1> HIDE DEF r, gone, u
<1>7. /\ u \in Trees /\ Good(u, r)
      /\ RefsOf(u.graph) = RefsOf(tree[r].graph) \ gone
      /\ u.active.claim = tree[r].active.claim /\ u.active.node = tree[r].active.node
      /\ u.active.cancelled <=> tree[r].active.cancelled \/ cancels
      /\ \A n \in Nodes : u.graph.state[n] = "in_progress"
                          => tree[r].graph.state[n] = "in_progress"
    BY <1>1, <1>3, <1>5, RemoveIs DEF u, gone
<1>8. /\ tree' \in [Nodes -> Trees] /\ tree'[r] = u
      /\ \A q \in Nodes : q # r => tree'[q] = tree[q]
    BY <1>1, <1>3, <1>7
<1>9. \A q \in Nodes : Good(tree'[q], q)
    BY <1>7, <1>8, TreeFacts
<1>10. TasksAreSane'
    <2>1. \A q \in Nodes \ {} :
               /\ tree'[q].active.claim = tree[q].active.claim
               /\ tree'[q].active.node = tree[q].active.node
               /\ tree[q].active.cancelled \/ (q \in C /\ tree[q].active # NoActive)
                  => tree'[q].active.cancelled
               /\ \A m \in Nodes : tree'[q].graph.state[m] = "in_progress"
                                   => tree[q].graph.state[m] = "in_progress"
        BY <1>7, <1>8
    <2> HIDE DEF C
    <2> QED
        BY <1>4, <1>6, <1>8, <1>9, <2>1, CancelledTasks
<1>11. tree'[r] # NoTree
    <2>1. r \in Nodes /\ Prompt(r) \notin gone
        BY <1>3 DEF RemovedNodes, gone
    <2>2. Prompt(r) \in RefsOf(tree[r].graph)
        BY <1>3, <1>5, TreeIsThere
    <2> QED
        BY <1>7, <1>8, <2>1, <2>2, TreeIsThere
<1>12. owner' \in [Refs -> Nodes \cup {NoNode}]
    BY <1>1, <1>3
<1>13. gone \subseteq RefsOf(tree[r].graph)
    <2>1. tree[r].graph \in Graphs /\ Sane(tree[r].graph, r)
        BY <1>5, TreeIs DEF Good
    <2> QED
        BY <1>1, <1>3, <2>1, SubtreeInTree DEF gone
<1>14. IndexMatchesTrees'
    <2> SUFFICES ASSUME NEW x \in Refs, NEW q \in Nodes
                 PROVE  owner'[x] = q <=> x \in RefsOf(tree'[q].graph)
        BY DEF IndexMatchesTrees
    <2>1. owner[x] = q <=> x \in RefsOf(tree[q].graph)
        BY InvariantIs DEF IndexMatchesTrees
    <2>2. owner'[x] = IF x \in gone THEN NoNode ELSE owner[x]
        BY <1>1
    <2>3. NoNode # q
        BY TreesAssumption
    <2>4. CASE q = r
        BY <1>7, <1>8, <2>1, <2>2, <2>3, <2>4
    <2>5. CASE q # r
        <3>1. owner[x] = r <=> x \in RefsOf(tree[r].graph)
            BY <1>3, InvariantIs DEF IndexMatchesTrees
        <3>2. x \in gone => owner[x] = r
            BY <1>13, <3>1
        <3>3. tree'[q] = tree[q]
            BY <1>8, <2>5
        <3> QED
            BY <2>1, <2>2, <2>3, <2>5, <3>2, <3>3
    <2> QED
        BY <2>4, <2>5
<1>15. /\ \A q \in T : tree'[q] # NoTree
       /\ \A q \in Nodes : RefsOf(tree'[q].graph) \subseteq RefsOf(tree[q].graph)
       /\ \A q \in Nodes \ (T \cup Rm) : RefsOf(tree'[q].graph) = RefsOf(tree[q].graph)
    BY <1>7, <1>8, <1>11
<1>16. op = NoOp /\ stored' = stored
    BY <1>1
<1> HIDE DEF T, Rm, C, cancels
<1> QED
    BY <1>2, <1>4, <1>6, <1>8, <1>9, <1>10, <1>12, <1>14, <1>15, <1>16, OperationKeeps

\* /clear in reply to a message, refused half way
LEMMA ClearReplyRaisesKeeps ==
    ASSUME IInv, NEW ref \in Refs, NEW marked \in SUBSET Nodes, ClearReplyRaises(ref, marked)
    PROVE  IInv'
<1> DEFINE r == owner[ref]
           u == Marked(tree[r], marked)
<1>1. /\ op = NoOp /\ r # NoNode /\ ref \in RefsOf(tree[r].graph)
      /\ tree[r].active.node \notin marked
      /\ UNCHANGED <<owner, slot, stored, op>>
    BY DEF ClearReplyRaises
<1>2. /\ r \in Nodes /\ tree \in [Nodes -> Trees] /\ owner \in [Refs -> Nodes \cup {NoNode}]
      /\ slot \in [Claims -> Slots]
    BY <1>1, InvariantIs
<1>3. tree[r] \in Trees /\ Good(tree[r], r) /\ tree[r] # NoTree
    BY <1>1, <1>2, TreeFacts
<1>4. tree' = [tree EXCEPT ![r] = u]
    BY <1>2 DEF ClearReplyRaises, Marked
<1> HIDE DEF r, u
<1>5. /\ u \in Trees /\ Good(u, r) /\ RefsOf(u.graph) = RefsOf(tree[r].graph)
      /\ u.active = tree[r].active
      /\ tree[r].active.node \in Nodes
            => u.graph.state[tree[r].active.node] = tree[r].graph.state[tree[r].active.node]
    BY <1>1, <1>2, <1>3, MarkIs DEF u
<1>6. \A m \in Nodes : u.graph.state[m] = "in_progress" => tree[r].graph.state[m] = "in_progress"
    BY <1>5 DEF Good, QueueSane
<1>7. /\ tree' \in [Nodes -> Trees] /\ tree'[r] = u
      /\ \A q \in Nodes : q # r => tree'[q] = tree[q]
    BY <1>2, <1>4, <1>5
<1>8. \A q \in Nodes : Good(tree'[q], q) /\ RefsOf(tree'[q].graph) = RefsOf(tree[q].graph)
    BY <1>5, <1>7, TreeFacts
<1>9. IndexMatchesTrees' /\ StoreIsSane' /\ OperationIsSane'
    BY <1>1, <1>7, <1>8, MessagesStay
<1>10. TasksAreSane'
    <2> DEFINE C == {}
    <2>1. C \in SUBSET Nodes /\ SlotsFollow(C, C)
        BY <1>1, SlotsStay
    <2>2. \A q \in Nodes \ C :
               /\ tree'[q].active.claim = tree[q].active.claim
               /\ tree'[q].active.node = tree[q].active.node
               /\ tree[q].active.cancelled \/ (q \in C /\ tree[q].active # NoActive)
                  => tree'[q].active.cancelled
               /\ \A m \in Nodes : tree'[q].graph.state[m] = "in_progress"
                                   => tree[q].graph.state[m] = "in_progress"
        BY <1>5, <1>6, <1>7
    <2>3. \A q \in C : tree'[q] = NoTree
        OBVIOUS
    <2>4. \A q \in Nodes : Good(tree'[q], q)
        BY <1>8
    <2> HIDE DEF C
    <2> QED
        BY <1>7, <2>1, <2>2, <2>3, <2>4, CancelledTasks
<1>11. TypeOK'
    <2>1. TypeOK
        BY DEF IInv
    <2> QED
        BY <1>1, <1>7, <2>1 DEF TypeOK
<1>12. TreesAreSane'
    BY <1>8 DEF TreesAreSane, Good
<1> QED
    BY <1>9, <1>10, <1>11, <1>12 DEF IInv

\* The drain is over, and the snapshots are taken.
LEMMA DrainEndsKeeps ==
    ASSUME IInv, DrainEnds
    PROVE  IInv'
<1> DEFINE s == [r \in op.trees |-> tree[r].graph]
<1>1. /\ op.phase = "drain" /\ UNCHANGED <<tree, owner, slot, stored>>
      /\ op' = [op EXCEPT !.phase = "save", !.snapshots = s]
    BY DEF DrainEnds, SnapshotsOf
<1>2. /\ op.trees \in SUBSET Nodes /\ op.removes \in SUBSET Nodes /\ OpIsTyped
    BY InvariantIs DEF OpIsTyped
<1>3. \A r \in op.trees : tree[r].graph \in Graphs /\ tree[r] # NoTree /\ Sane(tree[r].graph, r)
    <2> TAKE r \in op.trees
    <2>1. tree[r] # NoTree /\ r \in Nodes
        BY <1>2, InvariantIs DEF OperationIsSane
    <2> QED
        BY <2>1, TreeFacts DEF Good
<1>4. s \in [op.trees -> Graphs] /\ \A r \in op.trees : s[r] = tree[r].graph
    BY <1>3
<1> HIDE DEF s
<1>5. /\ op'.phase = "save" /\ op'.trees = op.trees /\ op'.removes = op.removes
      /\ op'.snapshots = s
      /\ op' = [phase |-> "save", trees |-> op.trees, removes |-> op.removes, snapshots |-> s]
    BY <1>1, <1>2 DEF OpIsTyped
<1>6. OpIsTyped'
    BY <1>2, <1>4, <1>5 DEF OpIsTyped
<1>7. TypeOK'
    <2>1. TypeOK
        BY DEF IInv
    <2> QED
        BY <1>1, <1>6, <2>1 DEF TypeOK, OpIsTyped
<1>8. StoreIsSane'
    BY <1>1, <1>5, InvariantIs DEF StoreIsSane
<1>9. OperationIsSane'
    BY <1>1, <1>3, <1>4, <1>5 DEF OperationIsSane
<1>10. TasksAreSane' /\ IndexMatchesTrees'
    BY <1>1, InvariantIs DEF TasksAreSane, IndexMatchesTrees, Alive
<1>11. TreesAreSane'
    <2>1. TreesAreSane
        BY DEF IInv
    <2> QED
        BY <1>1, <2>1 DEF TreesAreSane
<1> QED
    BY <1>7, <1>8, <1>9, <1>10, <1>11 DEF IInv

LEMMA NoOpIs ==
    ASSUME op' = NoOp
    PROVE  /\ OpIsTyped' /\ op'.trees = {} /\ op'.removes = {} /\ op'.phase = "none"
           /\ OperationIsSane'
<1>1. << >> \in [{} -> Graphs]
    OBVIOUS
<1>2. op' = [phase |-> "none", trees |-> {}, removes |-> {}, snapshots |-> << >>]
    BY DEF NoOp
<1>3. OpIsTyped'
    BY <1>1, <1>2 DEF OpIsTyped
<1>4. op'.trees = {} /\ op'.removes = {} /\ op'.phase = "none"
    BY <1>2
<1>5. OperationIsSane'
    BY <1>4 DEF OperationIsSane
<1> QED
    BY <1>3, <1>4, <1>5

\* The operation saves or removes what it worked on, and is over.
LEMMA SaveAndReleaseKeeps ==
    ASSUME IInv, SaveAndRelease
    PROVE  IInv'
<1>1. op.phase = "save" /\ op' = NoOp /\ UNCHANGED <<tree, owner, slot>>
    BY DEF SaveAndRelease
<1>2. /\ op.trees \in SUBSET Nodes /\ op.removes \in SUBSET Nodes
      /\ op.snapshots \in [op.trees -> Graphs]
    BY <1>1, InvariantIs DEF OpIsTyped
<1>3. /\ tree \in [Nodes -> Trees] /\ stored \in [Nodes -> Graphs]
    BY InvariantIs
<1>4. \A r \in op.trees : /\ Sane(op.snapshots[r], r)
                         /\ RefsOf(op.snapshots[r]) = RefsOf(tree[r].graph)
    BY <1>1, InvariantIs DEF OperationIsSane
<1>5. ASSUME NEW r \in Nodes
      PROVE  \/ r \in op.removes /\ stored'[r] = NoGraph
             \/ r \in op.trees /\ stored'[r] = op.snapshots[r]
             \/ r \notin op.trees \cup op.removes /\ stored'[r] = stored[r]
    <2>1. stored'[r] = CASE r \in op.removes -> NoGraph
                         [] r \in op.trees   -> op.snapshots[r]
                         [] OTHER            -> stored[r]
        BY DEF SaveAndRelease
    <2>2. CASE r \in op.removes /\ r \notin op.trees
        BY <2>1, <2>2
    <2>3. CASE r \in op.removes /\ r \in op.trees
        BY <2>1, <2>3
    <2>4. CASE r \notin op.removes /\ r \in op.trees
        BY <2>1, <2>4
    <2>5. CASE r \notin op.removes /\ r \notin op.trees
        BY <2>1, <2>5
    <2> QED
        BY <2>2, <2>3, <2>4, <2>5
<1>6. \A r \in Nodes : /\ stored'[r] \in Graphs
                       /\ stored'[r] # NoGraph => Sane(stored'[r], r)
                       /\ RefsOf(stored'[r]) \subseteq RefsOf(tree[r].graph)
    <2> TAKE r \in Nodes
    <2>1. CASE r \in op.removes /\ stored'[r] = NoGraph
        BY <2>1, NoGraphIs
    <2>2. CASE r \in op.trees /\ stored'[r] = op.snapshots[r]
        BY <1>2, <1>4, <2>2
    <2>3. CASE r \notin op.trees \cup op.removes /\ stored'[r] = stored[r]
        BY <1>3, <2>3, InvariantIs DEF StoreIsSane
    <2> QED
        BY <1>5, <2>1, <2>2, <2>3
<1>7. stored' \in [Nodes -> Graphs]
    <2> DEFINE f(r) == CASE r \in op.removes -> NoGraph
                         [] r \in op.trees   -> op.snapshots[r]
                         [] OTHER            -> stored[r]
    <2>1. stored' = [r \in Nodes |-> f(r)]
        BY DEF SaveAndRelease
    <2> HIDE DEF f
    <2>2. stored' = [r \in Nodes |-> stored'[r]]
        BY <2>1
    <2> QED
        BY <1>6, <2>2
<1>8. TasksAreSane' /\ IndexMatchesTrees'
    BY <1>1, InvariantIs DEF TasksAreSane, IndexMatchesTrees, Alive
<1>9. StoreIsSane'
    BY <1>1, <1>3, <1>6, <1>8, StoreFollows
<1>10. OperationIsSane' /\ OpIsTyped'
    BY <1>1, NoOpIs
<1>11. TypeOK'
    <2>1. TypeOK
        BY DEF IInv
    <2> QED
        BY <1>1, <1>7, <1>10, <2>1 DEF TypeOK, OpIsTyped
<1>12. TreesAreSane'
    <2>1. TreesAreSane
        BY DEF IInv
    <2> QED
        BY <1>1, <2>1 DEF TreesAreSane
<1> QED
    BY <1>8, <1>9, <1>10, <1>11, <1>12 DEF IInv

\* No task works.
LEMMA NoTasks ==
    ASSUME slot' = [c \in Claims |-> NoSlot], \A r \in Nodes : tree'[r].active = NoActive
    PROVE  slot' \in [Claims -> Slots] /\ TasksAreSane'
<1>1. NoSlot \in Slots /\ NoSlot.phase = "none"
    BY DEF NoSlot, Slots, Phases
<1>2. \A c \in Claims : slot'[c] = NoSlot
    OBVIOUS
<1>3. slot' \in [Claims -> Slots]
    BY <1>1
<1> QED
    BY <1>1, <1>2, <1>3 DEF TasksAreSane, Alive

\* The process starts again from what was stored.
LEMMA RestartKeeps ==
    ASSUME IInv, Restart
    PROVE  IInv'
<1>1. /\ stored' = [r \in Nodes |-> MarkErrors(stored[r], Nodes)]
      /\ tree' = [r \in Nodes |-> [NoTree EXCEPT !.graph = stored'[r]]]
      /\ owner' = [ref \in Refs |->
             IF \E r \in Nodes : ref \in RefsOf(stored[r])
             THEN CHOOSE r \in Nodes : ref \in RefsOf(stored[r])
             ELSE NoNode]
      /\ slot' = [c \in Claims |-> NoSlot] /\ op' = NoOp
    BY DEF Restart
<1>2. /\ stored \in [Nodes -> Graphs]
      /\ \A r \in Nodes : stored[r] # NoGraph => Sane(stored[r], r)
      /\ \A r, q \in Nodes : r # q => RefsOf(stored[r]) \cap RefsOf(stored[q]) = {}
    BY InvariantIs DEF StoreIsSane
<1>3. ASSUME NEW r \in Nodes
      PROVE  /\ stored'[r] \in Graphs /\ RefsOf(stored'[r]) = RefsOf(stored[r])
             /\ stored'[r] # NoGraph => Sane(stored'[r], r)
             /\ \A n \in Nodes : stored'[r].state[n] \notin Runnable
    <2>1. stored'[r] = MarkErrors(stored[r], Nodes) /\ stored[r] \in Graphs
        BY <1>1, <1>2
    <2> DEFINE all == Nodes
               h == MarkErrors(stored[r], all)
    <2>a. \A n \in Nodes : n \in all
        OBVIOUS
    <2>b. stored'[r] = h
        BY <2>1
    <2> HIDE DEF all
    <2>c. /\ h \in Graphs /\ h.reply = stored[r].reply /\ h.status = stored[r].status
          /\ \A n \in Nodes : h.state[n] =
                IF n \in all /\ stored[r].state[n] \in Runnable THEN "error"
                ELSE stored[r].state[n]
        BY <2>1, MarkErrorsIs
    <2>d. RefsOf(h) = RefsOf(stored[r]) /\ (Sane(stored[r], r) => Sane(h, r))
        BY <2>1, MarkErrorsKeeps
    <2> HIDE DEF h
    <2>2. /\ stored'[r] \in Graphs /\ stored'[r].reply = stored[r].reply
          /\ stored'[r].status = stored[r].status
          /\ \A n \in Nodes : stored'[r].state[n] =
                IF stored[r].state[n] \in Runnable THEN "error" ELSE stored[r].state[n]
          /\ RefsOf(stored'[r]) = RefsOf(stored[r])
          /\ Sane(stored[r], r) => Sane(stored'[r], r)
        BY <2>a, <2>b, <2>c, <2>d
    <2>3. stored[r] = NoGraph => stored'[r] = NoGraph
        <3> SUFFICES ASSUME stored[r] = NoGraph PROVE stored'[r] = NoGraph
            OBVIOUS
        <3>1. \A n \in Nodes : stored'[r].state[n] = "absent" /\ stored'[r].reply[n] = NoRef
            BY <2>2, NoGraphIs DEF Runnable
        <3>2. stored'[r].status = {}
            BY <2>2, NoGraphIs
        <3> QED
            BY <2>2, <3>1, <3>2, EmptyGraph
    <2> QED
        BY <1>2, <2>2, <2>3 DEF Runnable
<1>4. ASSUME NEW r \in Nodes
      PROVE  /\ tree'[r] \in Trees /\ tree'[r].graph = stored'[r] /\ tree'[r].queue = << >>
             /\ tree'[r].active = NoActive
    <2>1. tree'[r] = [NoTree EXCEPT !.graph = stored'[r]]
        BY <1>1
    <2> QED
        BY <1>3, <2>1, WithGraph, NoTreeIs
<1>5. ASSUME NEW r \in Nodes PROVE Good(tree'[r], r)
    <2>1. ClaimSane(tree'[r])
        BY <1>4 DEF ClaimSane
    <2>2. QueueSane(tree'[r])
        <3>1. OnceEach(tree'[r].queue) /\ Members(tree'[r].queue) = {}
            BY <1>4, EmptyIs
        <3>2. \A n \in Nodes : tree'[r].graph.state[n] \notin Runnable
            BY <1>3, <1>4
        <3> QED
            BY <1>4, <3>1, <3>2, QueueSaneIs DEF Runnable
    <2>3. tree'[r] # NoTree => stored'[r] # NoGraph
        BY <1>1, <1>4, NoTreeIs DEF NoTree
    <2> QED
        BY <1>3, <1>4, <2>1, <2>2, <2>3 DEF Good
<1>6. tree' \in [Nodes -> Trees]
    BY <1>1, <1>4
<1>7. stored' \in [Nodes -> Graphs]
    BY <1>1, <1>3
<1>8. slot' \in [Claims -> Slots] /\ TasksAreSane'
    BY <1>1, <1>4, NoTasks
<1>9. ASSUME NEW x \in Refs
      PROVE  /\ owner'[x] \in Nodes \cup {NoNode}
             /\ \A r \in Nodes : owner'[x] = r <=> x \in RefsOf(stored[r])
    <2>1. owner'[x] = IF \E r \in Nodes : x \in RefsOf(stored[r])
                      THEN CHOOSE r \in Nodes : x \in RefsOf(stored[r])
                      ELSE NoNode
        BY <1>1
    <2>2. NoNode \notin Nodes
        BY TreesAssumption
    <2>3. CASE \E r \in Nodes : x \in RefsOf(stored[r])
        <3>1. owner'[x] \in Nodes /\ x \in RefsOf(stored[owner'[x]])
            BY <2>1, <2>3
        <3> QED
            BY <1>2, <3>1
    <2>4. CASE ~\E r \in Nodes : x \in RefsOf(stored[r])
        BY <2>1, <2>2, <2>4
    <2> QED
        BY <2>3, <2>4
<1>10. owner' \in [Refs -> Nodes \cup {NoNode}]
    BY <1>1, <1>9
<1>11. IndexMatchesTrees'
    BY <1>3, <1>4, <1>9 DEF IndexMatchesTrees
<1>12. StoreIsSane'
    BY <1>3, <1>4, <1>6, <1>11, StoreFollows
<1>13. OperationIsSane' /\ OpIsTyped'
    BY <1>1, NoOpIs
<1>14. TypeOK'
    BY <1>6, <1>7, <1>8, <1>10, <1>13 DEF TypeOK, OpIsTyped
<1>15. TreesAreSane'
    BY <1>5 DEF TreesAreSane, Good
<1> QED
    BY <1>8, <1>11, <1>12, <1>13, <1>14, <1>15 DEF IInv

(***************************************************************************)
(* The invariant                                                           *)
(***************************************************************************)

LEMMA InitKeeps ==
    ASSUME Init
    PROVE  IInv
<1>1. /\ tree = [r \in Nodes |-> NoTree] /\ owner = [ref \in Refs |-> NoNode]
      /\ slot = [c \in Claims |-> NoSlot] /\ stored = [r \in Nodes |-> NoGraph] /\ op = NoOp
    BY DEF Init
<1>2. NoSlot \in Slots /\ NoSlot.phase = "none"
    BY DEF NoSlot, Slots, Phases
<1>3. << >> \in [{} -> Graphs]
    OBVIOUS
<1>4. TypeOK
    <2>1. OpIsTyped
        BY <1>1, <1>3 DEF NoOp, OpIsTyped
    <2> QED
        BY <1>1, <1>2, <2>1, NoTreeIs, NoGraphIs DEF TypeOK, OpIsTyped
<1>5. TreesAreSane
    BY <1>1, NoTreeIsGood, TreesAreGood
<1>6. TasksAreSane
    BY <1>1, <1>2, NoTreeIs DEF TasksAreSane, Alive
<1>7. IndexMatchesTrees
    BY <1>1, NoTreeIs, NoGraphIs, TreesAssumption DEF IndexMatchesTrees
<1>8. StoreIsSane
    BY <1>1, NoTreeIs, NoGraphIs DEF StoreIsSane
<1>9. OperationIsSane
    BY <1>1 DEF OperationIsSane, NoOp
<1> QED
    BY <1>4, <1>5, <1>6, <1>7, <1>8, <1>9 DEF IInv

LEMMA StutterKeeps ==
    ASSUME IInv, UNCHANGED vars
    PROVE  IInv'
<1>1. UNCHANGED <<tree, owner, slot, stored, op>>
    BY DEF vars
<1>2. TypeOK' /\ TreesAreSane'
    <2>1. TypeOK /\ TreesAreSane
        BY DEF IInv
    <2> QED
        BY <1>1, <2>1 DEF TypeOK, TreesAreSane
<1>3. TasksAreSane' /\ IndexMatchesTrees' /\ StoreIsSane' /\ OperationIsSane'
    BY <1>1, InvariantIs DEF TasksAreSane, IndexMatchesTrees, StoreIsSane, OperationIsSane, Alive
<1> QED
    BY <1>2, <1>3 DEF IInv

LEMMA NextKeeps ==
    ASSUME IInv, [Next]_vars
    PROVE  IInv'
<1>1. CASE Admissions
    <2> PICK n \in Nodes : \/ AdmitRoot(n)
                           \/ \E ref \in Refs : AdmitReply(n, ref)
                           \/ AdmitDuplicate(n)
        BY <1>1 DEF Admissions
    <2> QED
        BY AdmitRootKeeps, AdmitReplyKeeps, AdmitDuplicateKeeps, StutterKeeps
<1>2. ASSUME NEW c \in Claims, Report(c) PROVE IInv'
    BY <1>2, RunnerRecordsKeeps, RunnerCompletesKeeps, RunnerStepsKeep DEF Report
<1>3. ASSUME NEW c \in Claims, Advance(c) PROVE IInv'
    BY <1>3, RunnerStepsKeep, RunnerEndsKeeps, FinishClaimKeeps DEF Advance
<1>4. CASE Cancellations
    <2>1. ASSUME NEW ref \in Refs, StopReply(ref) PROVE IInv'
        BY <2>1, StopReplyKeeps
    <2>2. ASSUME NEW ref \in Refs, ClearReply(ref) PROVE IInv'
        BY <2>2, ClearTreeKeeps, ClearBranchKeeps
    <2> QED
        BY <1>4, <2>1, <2>2, StopAllKeeps, ClearChatKeeps DEF Cancellations
<1>5. CASE Refusals
    <2>1. ASSUME NEW before \in SUBSET (Published \ Refusing),
                 StopAllRaises(before) \/ ClearChatRaises(before)
          PROVE  IInv'
        BY <2>1, StopAllRaisesKeeps, ClearChatRaisesKeeps
    <2>2. ASSUME NEW ref \in Refs, NEW marked \in SUBSET Nodes, ClearReplyRaises(ref, marked)
          PROVE  IInv'
        BY <2>2, ClearReplyRaisesKeeps
    <2> QED
        BY <1>5, <2>1, <2>2 DEF Refusals
<1> QED
    BY <1>1, <1>2, <1>3, <1>4, <1>5, DrainEndsKeeps, SaveAndReleaseKeeps, RestartKeeps,
       StutterKeeps DEF Next

\* The invariant holds in every reachable state.
THEOREM InvariantHolds == Spec => []IInv
<1>1. Init => IInv
    BY InitKeeps
<1>2. IInv /\ [Next]_vars => IInv'
    BY NextKeeps
<1> QED
    BY <1>1, <1>2, PTL DEF Spec

(***************************************************************************)
(* What the trees promise                                                  *)
(***************************************************************************)

\* Every variable has its type.
THEOREM TypesAreKept == Spec => []TypeOK
<1>1. IInv => TypeOK
    BY DEF IInv
<1> QED
    BY <1>1, InvariantHolds, PTL

\* No turn waits for nobody: see EveryTurnIsOwned.
THEOREM TurnsAreOwned == Spec => []EveryTurnIsOwned
<1>1. IInv => EveryTurnIsOwned
    <2> SUFFICES ASSUME IInv PROVE EveryTurnIsOwned
        OBVIOUS
    <2>1. ASSUME NEW r \in Nodes
          PROVE  LET tr == tree[r]
                 IN /\ tr.active # NoActive =>
                         LET s == slot[tr.active.claim]
                         IN s.phase # "none" /\ s.attached /\ s.root = r /\ s.node = tr.active.node
                    /\ tr.queue # <<>> => tr.active # NoActive
                    /\ NodesIn(tr, {"pending"}) = {tr.queue[i] : i \in DOMAIN tr.queue}
                    /\ Len(tr.queue) = Cardinality(NodesIn(tr, {"pending"}))
                    /\ NodesIn(tr, {"in_progress"}) \subseteq {tr.active.node}
        <3> DEFINE tr == tree[r]
        <3>1. tr \in Trees /\ QueueSane(tr) /\ tr.queue \in Seq(Nodes)
            BY TreeFacts, TreeIs
        <3>2. /\ OnceEach(tr.queue)
              /\ \A n \in Nodes : tr.graph.state[n] = "pending" <=> n \in Members(tr.queue)
              /\ tr.queue # << >> => tr.active # NoActive
              /\ \A n \in Nodes : tr.graph.state[n] = "in_progress" => n = tr.active.node
            BY <3>1, QueueSaneIs
        <3>3. Members(tr.queue) \subseteq Nodes
            BY <3>1 DEF Members
        <3>4. NodesIn(tr, {"pending"}) = Members(tr.queue)
            BY <3>2, <3>3 DEF NodesIn
        <3>5. Len(tr.queue) = Cardinality(Members(tr.queue))
            BY <3>1, <3>2, LengthIsCount
        <3>6. tr.active # NoActive =>
                 LET s == slot[tr.active.claim]
                 IN s.phase # "none" /\ s.attached /\ s.root = r /\ s.node = tr.active.node
            BY TreeFacts DEF WorksFor
        <3>7. NodesIn(tr, {"in_progress"}) \subseteq {tr.active.node}
            BY <3>2 DEF NodesIn
        <3>8. NodesIn(tr, {"pending"}) = {tr.queue[i] : i \in DOMAIN tr.queue}
            BY <3>4 DEF Members
        <3> HIDE DEF tr
        <3> QED
            BY <3>2, <3>4, <3>5, <3>6, <3>7, <3>8 DEF tr
    <2>2. \A c \in Alive : slot[c].attached => tree[slot[c].root].active.claim = c
        BY TaskFacts DEF Alive
    <2> QED
        BY <2>1, <2>2 DEF EveryTurnIsOwned
<1> QED
    BY <1>1, InvariantHolds, PTL

\* A task that lost its turn cannot write.
THEOREM LostClaimsAreCancelled == Spec => []LostClaimIsCancelled
<1>1. IInv => LostClaimIsCancelled
    <2> SUFFICES ASSUME IInv, NEW c \in Claims, slot[c].phase # "none", slot[c].attached,
                        ~tree[slot[c].root].active.cancelled
                 PROVE  /\ slot[c].phase \notin {"cancelling", "unentered"}
                        /\ slot[c].node \in Present(tree[slot[c].root].graph)
                        /\ slot[c].node \in tree[slot[c].root].graph.status
        BY DEF LostClaimIsCancelled, Alive
    <2> DEFINE tr == tree[slot[c].root]
    <2>1. /\ slot[c].root \in Nodes /\ slot[c].node \in Nodes /\ slot[c].node = tr.active.node
          /\ tr.active.claim = c /\ tr.active # NoActive /\ WorksFor(slot[c], tr, slot[c].root)
        BY TaskFacts
    <2>2. ClaimSane(tr)
        BY <2>1, TreeFacts
    <2>3. tr.graph.state[tr.active.node] # "absent" /\ tr.active.node \in tr.graph.status
        BY <2>1, <2>2 DEF ClaimSane
    <2>4. slot[c].phase \in {"cancelling", "unentered"} => tr.active.cancelled
        BY <2>1 DEF WorksFor
    <2>5. slot[c].node \in Present(tr.graph)
        <3>1. slot[c].node \in Nodes /\ tr.graph.state[slot[c].node] # "absent"
            BY <2>1, <2>3
        <3> QED
            BY <3>1 DEF Present
    <2> QED
        BY <2>1, <2>3, <2>4, <2>5
<1> QED
    BY <1>1, InvariantHolds, PTL

\* A message leads to the tree that has it, and the store holds no tree that a
\* restart would skip.
THEOREM MessagesAreFound == Spec => []ConversationsAreFound
<1>1. IInv => ConversationsAreFound
    BY InvariantIs DEF ConversationsAreFound, StoreIsAccepted, StoreIsSane, Sane
<1> QED
    BY <1>1, InvariantHolds, PTL

\* What was cleared does not come back from the store.
THEOREM ClearedMessagesStayCleared == Spec => []ClearedStaysCleared
<1>1. IInv => ClearedStaysCleared
    <2> SUFFICES ASSUME IInv, op = NoOp, NEW r \in Nodes, NEW n \in Present(stored[r])
                 PROVE  n \in Present(tree[r].graph)
        BY DEF ClearedStaysCleared
    <2>1. stored[r] \in Graphs /\ tree[r].graph \in Graphs /\ n \in Nodes
        BY InvariantIs, TreeFacts, GraphIs
    <2>2. RefsOf(stored[r]) \subseteq RefsOf(tree[r].graph)
        BY InvariantIs DEF StoreIsSane, NoOp
    <2> QED
        BY <2>1, <2>2, RefsOfIs
<1> QED
    BY <1>1, InvariantHolds, PTL

(***************************************************************************)
(* Which turns a failure takes along                                       *)
(***************************************************************************)

\* A turn that waits fails at this step, and its tree keeps its claim.
WaitingTurnFails(r, n) ==
    /\ tree'[r] # tree[r] /\ tree'[r].active = tree[r].active
    /\ tree[r].graph.state[n] = "pending" /\ tree'[r].graph.state[n] = "error"

\* The failure comes from the turn of a claim that nobody cancelled.
FailureIsLive(r, n) ==
    ~tree[r].active.cancelled /\ n \in Descendants(tree[r].graph, tree[r].active.node)

\* A tree changed, the others did not.
LEMMA OneTreeChanges ==
    ASSUME NEW s \in Nodes, \A q \in Nodes : q # s => tree'[q] = tree[q],
           NEW r \in Nodes, NEW n \in Nodes, WaitingTurnFails(r, n)
    PROVE  /\ r = s /\ tree[s].graph.state[n] = "pending" /\ tree'[s].graph.state[n] = "error"
BY DEF WaitingTurnFails

LEMMA FailingIsLive ==
    ASSUME IInv, NEW c \in Claims, slot[c].phase # "none", NEW spread \in BOOLEAN,
           Commit(c, FailClaim(TreeOf(c), spread)), NEW r \in Nodes, NEW n \in Nodes,
           WaitingTurnFails(r, n)
    PROVE  FailureIsLive(r, n)
<1> DEFINE s == slot[c].root
           u == FailClaim(tree[s], spread)
<1>1. s \in Nodes /\ tree \in [Nodes -> Trees]
    BY TaskFacts, InvariantIs
<1>2. tree[s] \in Trees /\ Good(tree[s], s)
    BY <1>1, TreeFacts
<1>3. Holds(tree[s], c) /\ tree' = [tree EXCEPT ![s] = u]
    BY DEF Commit, TreeOf, WaitingTurnFails
<1> HIDE DEF s
<1>4. \A m \in Nodes : tree[s].graph.state[m] = "pending" /\ u.graph.state[m] = "error"
                       => m \in Descendants(tree[s].graph, tree[s].active.node)
    BY <1>1, <1>2, <1>3, FailIs
<1> HIDE DEF u
<1>5. r = s /\ tree[s].graph.state[n] = "pending" /\ u.graph.state[n] = "error"
    <2>1. tree'[s] = u /\ \A q \in Nodes : q # s => tree'[q] = tree[q]
        BY <1>1, <1>3
    <2> QED
        BY <1>1, <1>3, <2>1, OneTreeChanges
<1> QED
    BY <1>3, <1>4, <1>5 DEF Holds, FailureIsLive

LEMMA ReportsAreLive ==
    ASSUME IInv, NEW c \in Claims, Report(c), NEW r \in Nodes, NEW n \in Nodes,
           WaitingTurnFails(r, n)
    PROVE  FailureIsLive(r, n)
<1> DEFINE s == slot[c].root
<1>1. slot[c].phase # "none"
    BY DEF Report, RunnerRecordsSession, RunnerCompletes, RunnerSeesError, RunnerSeesExit, StreamOpen
<1>2. s \in Nodes /\ tree \in [Nodes -> Trees]
    BY <1>1, TaskFacts, InvariantIs
<1>3. tree[s] \in Trees /\ Good(tree[s], s)
    BY <1>2, TreeFacts
<1>4. CASE RunnerRecordsSession(c)
    <2>1. tree' = tree
        BY <1>2, <1>4 DEF RunnerRecordsSession, Commit, TreeOf
    <2> QED
        BY <2>1 DEF WaitingTurnFails
<1>5. CASE RunnerCompletes(c)
    <2> DEFINE u == CompleteClaim(tree[s])
    <2>1. Holds(tree[s], c) /\ tree' = [tree EXCEPT ![s] = u]
        BY <1>5 DEF RunnerCompletes, Commit, TreeOf, WaitingTurnFails
    <2> HIDE DEF s
    <2>2. \A m \in Nodes : u.graph.state[m] =
              IF m = tree[s].active.node THEN "completed" ELSE tree[s].graph.state[m]
        BY <1>2, <1>3, <2>1, CompleteIs
    <2> HIDE DEF u
    <2>3. tree[s].graph.state[n] = "pending" /\ u.graph.state[n] = "error"
        <3>1. tree'[s] = u /\ \A q \in Nodes : q # s => tree'[q] = tree[q]
            BY <1>2, <2>1
        <3> QED
            BY <1>2, <2>1, <3>1, OneTreeChanges
    <2> QED
        BY <2>2, <2>3
<1>6. CASE RunnerSeesError(c)
    BY <1>1, <1>6, FailingIsLive DEF RunnerSeesError, RunnerFails
<1>7. CASE RunnerSeesExit(c)
    BY <1>1, <1>7, FailingIsLive DEF RunnerSeesExit, RunnerFails
<1> QED
    BY <1>4, <1>5, <1>6, <1>7 DEF Report

LEMMA AdvancesAreLive ==
    ASSUME IInv, NEW c \in Claims, Advance(c), NEW r \in Nodes, NEW n \in Nodes,
           WaitingTurnFails(r, n)
    PROVE  FailureIsLive(r, n)
<1> DEFINE s == slot[c].root
<1>1. tree' # tree
    BY DEF WaitingTurnFails
<1>2. CASE RunnerHasNoSession(c)
    BY <1>2, FailingIsLive DEF RunnerHasNoSession, RunnerFails
<1>3. CASE RunnerBreaks(c)
    BY <1>3, FailingIsLive DEF RunnerBreaks, RunnerFails
<1>4. ASSUME NEW propagate \in BOOLEAN, RunnerUnwinds(c, propagate) PROVE FailureIsLive(r, n)
    <2>1. slot[c].phase # "none" /\ Commit(c, FailClaim(TreeOf(c), propagate))
        BY <1>4 DEF RunnerUnwinds
    <2> QED
        BY <2>1, FailingIsLive
<1>5. CASE FinishClaim(c)
    <2> DEFINE u == FinishAndClaimNext(tree[s], c)
    <2>1. /\ slot[c].phase \in {"closing", "unentered"} /\ slot[c].attached
          /\ tree' = [tree EXCEPT ![s] = u]
        BY <1>1, <1>5 DEF FinishClaim
    <2>2. /\ s \in Nodes /\ tree \in [Nodes -> Trees] /\ tree[s].active.claim = c
          /\ tree[s].active # NoActive /\ WorksFor(slot[c], tree[s], s)
        BY <2>1, TaskFacts, InvariantIs
    <2>3. tree[s] \in Trees /\ Good(tree[s], s) /\ QueueSane(tree[s]) /\ ClaimSane(tree[s])
        BY <2>2, TreeFacts
    <2>4. \A m \in Nodes : tree[s].graph.state[m] # "in_progress"
        <3>1. tree[s].graph.state[tree[s].active.node] # "in_progress"
            <4>1. ClaimSane(tree[s]) /\ WorksFor(slot[c], tree[s], s) /\ tree[s].active # NoActive
                BY <2>2, <2>3
            <4>2. slot[c].phase \in {"closing", "unentered"}
                BY <2>1
            <4> HIDE DEF s
            <4>3. CASE slot[c].phase = "closing"
                BY <4>1, <4>3 DEF WorksFor
            <4>4. CASE slot[c].phase = "unentered"
                <5>1. tree[s].active.cancelled
                    BY <4>1, <4>4 DEF WorksFor
                <5> QED
                    BY <4>1, <5>1 DEF ClaimSane
            <4> QED
                BY <4>2, <4>3, <4>4
        <3> QED
            BY <2>3, <3>1, QueueSaneIs
    <2> HIDE DEF s
    <2>5. \A m \in Nodes : u.graph.state[m] \in {tree[s].graph.state[m], "in_progress"}
        BY <2>2, <2>3, <2>4, FinishIs
    <2> HIDE DEF u
    <2>6. tree[s].graph.state[n] = "pending" /\ u.graph.state[n] = "error"
        <3>1. tree'[s] = u /\ \A q \in Nodes : q # s => tree'[q] = tree[q]
            BY <2>1, <2>2
        <3> QED
            BY <2>1, <2>2, <3>1, OneTreeChanges
    <2> QED
        BY <2>5, <2>6
<1> QED
    BY <1>1, <1>2, <1>3, <1>4, <1>5 DEF Advance, EnterRunner, RunnerStarts, RunnerEnds

LEMMA AdmissionsFailNothing ==
    ASSUME IInv, Admissions, NEW r \in Nodes, NEW n \in Nodes
    PROVE  ~WaitingTurnFails(r, n)
<1> SUFFICES ASSUME WaitingTurnFails(r, n) PROVE FALSE
    OBVIOUS
<1>1. tree \in [Nodes -> Trees] /\ owner \in [Refs -> Nodes \cup {NoNode}]
    BY InvariantIs
<1>2. PICK m \in Nodes : \/ AdmitRoot(m)
                         \/ \E ref \in Refs : AdmitReply(m, ref)
                         \/ AdmitDuplicate(m)
    BY DEF Admissions
<1>3. CASE AdmitRoot(m)
    <2> DEFINE u == EnqueueOrClaim(NewRoot(m), m, FreshClaim)
    <2>1. owner[Prompt(m)] = NoNode /\ tree' = [tree EXCEPT ![m] = u]
        BY <1>3 DEF AdmitRoot, Admitted
    <2> HIDE DEF u
    <2>2. tree[m] = NoTree
        BY <2>1, NotOwned, TreeFacts, TreeIsThere
    <2>3. tree[m].graph.state[n] = "pending"
        <3>1. \A q \in Nodes : q # m => tree'[q] = tree[q]
            BY <1>1, <2>1
        <3> QED
            BY <3>1, OneTreeChanges
    <2> QED
        BY <2>2, <2>3, NoTreeIs, NoGraphIs
<1>4. ASSUME NEW ref \in Refs, AdmitReply(m, ref) PROVE FALSE
    <2> DEFINE s == owner[ref]
               c == FreshClaim
               u == EnqueueOrClaim([tree[s] EXCEPT !.graph = AddNode(@, m, ref)], m, c)
    <2>1. /\ owner[Prompt(m)] = NoNode /\ s # NoNode /\ ref \in RefsOf(tree[s].graph)
          /\ tree' = [tree EXCEPT ![s] = u] /\ RoomForClaim(tree[s])
        BY <1>4 DEF AdmitReply, Admitted
    <2>2. s \in Nodes /\ u = EnqueueOrClaim(WithReply(tree[s], m, ref), m, c)
        BY <1>1, <2>1 DEF WithReply
    <2>3. tree[s] \in Trees /\ Good(tree[s], s) /\ tree[s] # NoTree
        BY <2>1, <2>2, TreeFacts
    <2>4. tree[s].graph.state[m] = "absent"
        BY <2>1, <2>2, NotOwned
    <2>5. tree[s].active = NoActive => c \in Claims
        BY <2>1, FreshIs DEF RoomForClaim
    <2> HIDE DEF s, c, u
    <2>6. \A x \in Nodes : x # m => u.graph.state[x] = tree[s].graph.state[x]
        <3>1. ref \in RefsOf(tree[s].graph)
            BY <2>1
        <3> QED
            BY <2>2, <2>3, <2>4, <2>5, <3>1, ReplyIs, Z3
    <2>7. tree[s].graph.state[n] = "pending" /\ u.graph.state[n] = "error"
        <3>1. tree'[s] = u /\ \A q \in Nodes : q # s => tree'[q] = tree[q]
            BY <1>1, <2>1, <2>2
        <3> QED
            BY <1>1, <2>1, <2>2, <3>1, OneTreeChanges
    <2> QED
        BY <2>4, <2>6, <2>7
<1>5. CASE AdmitDuplicate(m)
    BY <1>5, AdmitDuplicateKeeps DEF vars, WaitingTurnFails
<1> QED
    BY <1>2, <1>3, <1>4, <1>5

\* A step that is none of the store's or the operator's
LEMMA OthersFailNothing ==
    ASSUME IInv, \/ Cancellations \/ Refusals \/ DrainEnds \/ SaveAndRelease \/ Restart,
           NEW r \in Nodes, NEW n \in Nodes, op' = op, Refusing = {}
    PROVE  ~WaitingTurnFails(r, n)
<1>1. CASE DrainEnds \/ SaveAndRelease
    BY <1>1 DEF DrainEnds, SaveAndRelease, WaitingTurnFails
<1>2. CASE Cancellations
    <2>1. \A T, Rm, drains : Proceed(T, Rm, drains) => op'.phase # "none"
        BY DEF Proceed
    <2>2. ASSUME NEW ref \in Refs, StopReply(ref) PROVE op = NoOp /\ op'.phase # "none"
        BY <2>1, <2>2 DEF StopReply
    <2>3. ASSUME NEW ref \in Refs, ClearReply(ref) PROVE op = NoOp /\ op'.phase # "none"
        BY <2>1, <2>3 DEF ClearReply
    <2>4. ASSUME StopAll \/ ClearChat PROVE op = NoOp /\ op'.phase # "none"
        BY <2>1, <2>4 DEF StopAll, ClearChat
    <2>5. op = NoOp /\ op'.phase # "none"
        BY <1>2, <2>2, <2>3, <2>4 DEF Cancellations
    <2> QED
        BY <2>5 DEF NoOp
<1>3. CASE Refusals
    <2>1. ASSUME NEW ref \in Refs, NEW marked \in SUBSET Nodes, ClearReplyRaises(ref, marked)
          PROVE  FALSE
        <3>1. owner[ref] \in Nodes /\ Untargetable(tree[owner[ref]])
            BY <2>1, InvariantIs DEF ClearReplyRaises
        <3>2. tree[owner[ref]] # NoTree
            BY <3>1, TreeFacts DEF Untargetable
        <3> QED
            BY <3>1, <3>2 DEF Refusing, Published
    <2> QED
        BY <1>3, <2>1 DEF Refusals, StopAllRaises, ClearChatRaises
<1>4. CASE Restart
    <2> SUFFICES ASSUME WaitingTurnFails(r, n) PROVE FALSE
        OBVIOUS
    <2>1. tree[r].active = NoActive
        <3>1. tree'[r] = [NoTree EXCEPT !.graph = stored'[r]]
            BY <1>4 DEF Restart
        <3>2. tree'[r].active = NoActive
            BY <3>1 DEF NoTree
        <3> QED
            BY <3>2 DEF WaitingTurnFails
    <2>2. n \in Members(tree[r].queue) /\ tree[r].queue = << >>
        BY <2>1, TreeFacts, QueueSaneIs DEF WaitingTurnFails
    <2> QED
        BY <2>2, EmptyIs
<1> QED
    BY <1>1, <1>2, <1>3, <1>4

\* A waiting turn fails only by a stop, a clear or the failure of a live turn
\* that it replies to.
THEOREM FailuresSpreadFromLiveTurns == Spec => OnlyLiveFailuresSpread
<1>1. ASSUME IInv, [Next]_vars, NEW r \in Nodes, NEW n \in Nodes, WaitingTurnFails(r, n),
             op' = op, Refusing = {}
      PROVE  FailureIsLive(r, n)
    <2>1. CASE UNCHANGED vars
        BY <1>1, <2>1 DEF vars, WaitingTurnFails
    <2>2. CASE Admissions
        BY <1>1, <2>2, AdmissionsFailNothing
    <2>3. ASSUME NEW c \in Claims, Report(c) \/ Advance(c) PROVE FailureIsLive(r, n)
        BY <1>1, <2>3, ReportsAreLive, AdvancesAreLive
    <2>4. CASE Cancellations \/ Refusals \/ DrainEnds \/ SaveAndRelease \/ Restart
        BY <1>1, <2>4, OthersFailNothing
    <2> QED
        BY <1>1, <2>1, <2>2, <2>3, <2>4 DEF Next
<1>2. IInv /\ [Next]_vars =>
        [ \A r, n \in Nodes :
          ( /\ tree'[r] # tree[r] /\ tree'[r].active = tree[r].active
            /\ tree[r].graph.state[n] = "pending"
            /\ tree'[r].graph.state[n] = "error"
            /\ op' = op /\ Refusing = {} )
          => /\ ~tree[r].active.cancelled
             /\ n \in Descendants(tree[r].graph, tree[r].active.node)
      ]_vars
    BY <1>1 DEF WaitingTurnFails, FailureIsLive
<1> QED
    BY <1>2, InvariantHolds, PTL DEF Spec, OnlyLiveFailuresSpread

=============================================================================
