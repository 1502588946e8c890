---------------------------- MODULE MessageTrees ----------------------------
(***************************************************************************)
(* The conversation trees of one chat (messaging/trees/), the tasks that   *)
(* run their turns (messaging/node_runner.py), the workflow operations     *)
(* that stop and clear them (messaging/workflow.py), and the snapshots the *)
(* session store keeps of them.                                            *)
(*                                                                         *)
(* Everything runs on one event loop.  A section under the manager's and   *)
(* the tree's lock awaits nothing that suspends, so it is one step, and so *)
(* is the runner's call together with the save of the snapshot it returns. *)
(* The steps other tasks do come between are: a task is created and has    *)
(* not run yet; the runner waits for the CLI, an edit or the end of its    *)
(* session; a workflow operation, which holds _state_lock, drains the      *)
(* tasks it cancelled; and it holds snapshots it has not saved yet.        *)
(*                                                                         *)
(* A tree is named by its root, which is its identity.  Once removed from  *)
(* the repository a tree is reached only by _finish_claim, which launches  *)
(* nothing for it: its slot is marked detached and the tree is forgotten.  *)
(***************************************************************************)
EXTENDS Naturals, Sequences, FiniteSets, SequencesExt

CONSTANTS
    Nodes,      \* ids of prompt messages
    NoNode,     \* None
    MaxTrees,   \* bound: trees in the repository at a time
    MaxClaims   \* bound: claims alive at a time

ASSUME TreesAssumption ==
    /\ IsFiniteSet(Nodes)
    /\ NoNode \notin Nodes
    /\ MaxTrees \in Nat
    /\ MaxClaims \in Nat

\* A claim id is a uuid; here the id of a claim that nothing refers to any more
\* names a new one.
Claims  == 1 .. MaxClaims
NoClaim == 0

\* A platform message: a prompt, or the status message FCC answered it with.
Prompt(n) == <<"prompt", n>>
Status(n) == <<"status", n>>
Refs      == {"prompt", "status"} \X Nodes
NoRef     == <<"none", NoNode>>

States   == {"absent", "pending", "in_progress", "completed", "error"}
Runnable == {"pending", "in_progress"}

\* What a snapshot copies: the state of each node, the exact message it
\* replies to, and which nodes have a status message. The id of the CLI session
\* is left out: it is copied with the state and decides nothing here.
Graphs == [state   : [Nodes -> States],
           reply   : [Nodes -> Refs \cup {NoRef}],
           status  : SUBSET Nodes]

\* No tree has this graph: a tree has a root.
NoGraph == [state   |-> [n \in Nodes |-> "absent"],
            reply   |-> [n \in Nodes |-> NoRef],
            status  |-> {}]

NoActive == [claim |-> NoClaim, node |-> NoNode, cancelled |-> FALSE]
Actives  == [claim : Claims \cup {NoClaim}, node : Nodes \cup {NoNode},
             cancelled : BOOLEAN]
NoTree   == [graph |-> NoGraph, queue |-> <<>>, active |-> NoActive]
Trees    == [graph : Graphs, queue : Seq(Nodes), active : Actives]

\* "unentered" is a task cancelled before its first step, "starting" a runner
\* that waits for a CLI session, "reported" one that has seen a terminal event,
\* "cancelling" one whose CancelledError is on its way or being handled,
\* "closing" one that is left with its cleanup.
Phases == {"none", "created", "unentered", "starting", "running", "reported",
           "cancelling", "closing"}
NoSlot == [root |-> NoNode, node |-> NoNode, attached |-> FALSE, phase |-> "none"]
Slots  == [root : Nodes \cup {NoNode}, node : Nodes \cup {NoNode},
           attached : BOOLEAN, phase : Phases]

VARIABLES
    tree,    \* TreeRepository._trees
    owner,   \* TreeRepository._reference_to_tree
    slot,    \* TreeQueueProcessor._tasks
    stored,  \* the trees of SessionStore._conversation
    op       \* the workflow operation that holds _state_lock

vars == <<tree, owner, slot, stored, op>>

NoOp == [phase |-> "none", trees |-> {}, removes |-> {},
         snapshots |-> <<>>]

Present(g)  == {n \in Nodes : g.state[n] # "absent"}
RefsOf(g)   == {Prompt(n) : n \in Present(g)} \cup {Status(n) : n \in g.status}
Published   == {r \in Nodes : tree[r] # NoTree}
Alive       == {c \in Claims : slot[c].phase # "none"}
FreeClaims  == Claims \ (Alive \cup {tree[r].active.claim : r \in Nodes})
FreshClaim  == IF FreeClaims = {} THEN NoClaim
               ELSE CHOOSE c \in FreeClaims : \A d \in FreeClaims : c <= d

Init ==
    /\ tree   = [r \in Nodes |-> NoTree]
    /\ owner  = [ref \in Refs |-> NoNode]
    /\ slot   = [c \in Claims |-> NoSlot]
    /\ stored = [r \in Nodes |-> NoGraph]
    /\ op     = NoOp

-----------------------------------------------------------------------------
(* MessageTreeGraph *)

\* A set of messages that has every message replying to one of its own: a prompt
\* replies to what its node says, a status message to its prompt.
ClosedUnderReplies(g, S) ==
    /\ \A n \in g.status : Prompt(n) \in S => Status(n) \in S
    /\ \A n \in Nodes : g.reply[n] \in S => Prompt(n) \in S

\* get_reference_descendants: the messages that reply to ref, directly or not.
ReplySubtree(g, ref) ==
    {x \in Refs : \A S \in SUBSET Refs :
                    ref \in S /\ ClosedUnderReplies(g, S) => x \in S}

\* get_descendants: by children_ids, whichever message of the parent they
\* reply to.
Descendants(g, node) ==
    LET grown[i \in 0 .. Cardinality(Nodes)] ==
          IF i = 0 THEN {node}
          ELSE LET below == grown[i - 1]
               IN below \cup {n \in Nodes : g.reply[n][2] \in below}
    IN grown[Cardinality(Nodes)] \ {node}

AddNode(g, n, ref) ==
    [g EXCEPT !.state[n] = "pending", !.reply[n] = ref, !.status = @ \cup {n}]

RemoveNodes(g, removed) ==
    [state   |-> [n \in Nodes |-> IF n \in removed THEN "absent" ELSE g.state[n]],
     reply   |-> [n \in Nodes |-> IF n \in removed THEN NoRef ELSE g.reply[n]],
     status  |-> g.status \ removed]

\* MessageNode.clear_status
ClearStatus(g, n) ==
    [g EXCEPT !.status = @ \ {n}, !.state[n] = "error"]

\* mark_error for every node of the set that is runnable
MarkErrors(g, nodes) ==
    [g EXCEPT !.state = [n \in Nodes |->
        IF n \in nodes /\ @[n] \in Runnable THEN "error" ELSE @[n]]]

-----------------------------------------------------------------------------
(* MessageTree: each operation maps the tree to the tree it leaves. *)

InQueue(tr, n)     == \E i \in DOMAIN tr.queue : tr.queue[i] = n
Dequeued(queue, ns) ==
    FoldLeft(LAMBDA kept, n : IF n \in ns THEN kept ELSE Append(kept, n), <<>>, queue)

Claimed(tr, n, c) ==
    [tr EXCEPT !.graph.state[n] = "in_progress",
               !.active = [claim |-> c, node |-> n, cancelled |-> FALSE]]

EnqueueOrClaim(tr, n, c) ==
    IF tr.graph.state[n] # "pending" THEN tr
    ELSE IF tr.active = NoActive THEN Claimed(tr, n, c)
    ELSE IF InQueue(tr, n) THEN tr
    ELSE [tr EXCEPT !.queue = Append(@, n)]

\* The queue is popped up to the first node that is still pending. Nothing else
\* refers to the claim that goes, so its id names the one that comes.
FinishAndClaimNext(tr, c) ==
    LET pending == {i \in DOMAIN tr.queue : tr.graph.state[tr.queue[i]] = "pending"}
        first   == CHOOSE i \in pending : \A j \in pending : i <= j
        idle    == [tr EXCEPT !.active = NoActive]
    IN IF tr.active.claim # c THEN tr
       ELSE IF pending = {} THEN [idle EXCEPT !.queue = <<>>]
       ELSE Claimed([idle EXCEPT !.queue = SubSeq(@, first + 1, Len(@))],
                    tr.queue[first], c)

CancelNode(tr, n) ==
    [tr EXCEPT !.active.cancelled = @ \/ tr.active.node = n,
               !.queue = Dequeued(@, {n}),
               !.graph = MarkErrors(@, {n})]

CancelAll(tr) ==
    [tr EXCEPT !.active.cancelled = tr.active # NoActive,
               !.queue = <<>>,
               !.graph = MarkErrors(@, Nodes)]

RemovedNodes(tr, ref) ==
    {n \in Nodes : Prompt(n) \in ReplySubtree(tr.graph, ref)}
AffectedNodes(tr, ref) ==
    RemovedNodes(tr, ref) \cup (IF ref[1] = "status" THEN {ref[2]} ELSE {})

\* Mutant: the removed turns stay in the queue.
RemoveButLeaveQueued(tr, ref) ==
    LET affected == AffectedNodes(tr, ref)
        failed   == MarkErrors(tr.graph, affected)
        cleared  == IF ref[1] = "status" THEN ClearStatus(failed, ref[2]) ELSE failed
    IN [tr EXCEPT !.active.cancelled = @ \/ tr.active.node \in affected,
                  !.graph = RemoveNodes(cleared, RemovedNodes(tr, ref))]

\* Mutant: the turn whose status message is cleared
\* keeps its claim.
RemoveButSpareOwner(tr, ref) ==
    LET affected == AffectedNodes(tr, ref)
        failed   == MarkErrors(tr.graph, affected)
        cleared  == IF ref[1] = "status" THEN ClearStatus(failed, ref[2]) ELSE failed
    IN [tr EXCEPT !.active.cancelled = @ \/ tr.active.node \in RemovedNodes(tr, ref),
                  !.queue = Dequeued(@, affected),
                  !.graph = RemoveNodes(cleared, RemovedNodes(tr, ref))]

RemoveMessageSubtree(tr, ref) ==
    LET affected == AffectedNodes(tr, ref)
        failed   == MarkErrors(tr.graph, affected)
        cleared  == IF ref[1] = "status" THEN ClearStatus(failed, ref[2]) ELSE failed
    IN [tr EXCEPT !.active.cancelled = @ \/ tr.active.node \in affected,
                  !.queue = Dequeued(@, affected),
                  !.graph = RemoveNodes(cleared, RemovedNodes(tr, ref))]

\* Mutant: a cancelled claim still counts.
HoldsOnceCancelled(tr, c) ==
    /\ tr.active.claim = c
    /\ tr.graph.state[tr.active.node] # "absent"

\* The claim may still change the tree.
Holds(tr, c) ==
    /\ tr.active.claim = c
    /\ ~tr.active.cancelled
    /\ tr.graph.state[tr.active.node] # "absent"

CompleteClaim(tr) == [tr EXCEPT !.graph.state[tr.active.node] = "completed"]

\* A completed node stays completed and its descendants stay queued.
FailClaim(tr, propagate) ==
    LET node   == tr.active.node
        failed == {node} \cup
                  IF propagate
                  THEN {n \in Descendants(tr.graph, node) : tr.graph.state[n] = "pending"}
                  ELSE {}
    IN IF tr.graph.state[node] = "completed" THEN tr
       ELSE [tr EXCEPT !.queue = Dequeued(@, failed \ {node}),
                       !.graph = MarkErrors(@, failed)]

\* _ui_target raises for this active node: cancelling it again is refused.
Untargetable(tr) ==
    /\ tr.active # NoActive
    /\ tr.graph.state[tr.active.node] = "error"
    /\ tr.active.node \notin tr.graph.status

-----------------------------------------------------------------------------
(* Admission: TreeQueueManager.admit, under the workflow's _state_lock, and *)
(* the save of its snapshot.                                                *)

NewRoot(n) ==
    [NoTree EXCEPT !.graph.state[n] = "pending", !.graph.status = {n}]

Created(r, n) == [root |-> r, node |-> n, attached |-> TRUE, phase |-> "created"]

\* The bound: a tree that is busy needs no claim now.
RoomForClaim(tr) == tr.active # NoActive \/ FreeClaims # {}

\* Mutant: the status message is not registered.
AdmittedWithoutStatus(r, n, tr, c) ==
    /\ tree' = [tree EXCEPT ![r] = tr]
    /\ owner' = [owner EXCEPT ![Prompt(n)] = r]
    /\ slot' = IF tr.active.claim = c THEN [slot EXCEPT ![c] = Created(r, n)] ELSE slot
    /\ stored' = [stored EXCEPT ![r] = tr.graph]
    /\ UNCHANGED op

\* The tree r becomes tr, the references of n are registered, a claim is
\* launched and the snapshot saved.
Admitted(r, n, tr, c) ==
    /\ tree' = [tree EXCEPT ![r] = tr]
    /\ owner' = [owner EXCEPT ![Prompt(n)] = r, ![Status(n)] = r]
    /\ slot' = IF tr.active.claim = c THEN [slot EXCEPT ![c] = Created(r, n)] ELSE slot
    /\ stored' = [stored EXCEPT ![r] = tr.graph]
    /\ UNCHANGED op

AdmitRoot(n) ==
    /\ op = NoOp
    /\ owner[Prompt(n)] = NoNode
    /\ Cardinality(Published) < MaxTrees
    /\ RoomForClaim(NoTree)
    /\ Admitted(n, n, EnqueueOrClaim(NewRoot(n), n, FreshClaim), FreshClaim)

AdmitReply(n, ref) ==
    LET r == owner[ref]
    IN /\ op = NoOp
       /\ owner[Prompt(n)] = NoNode
       /\ r # NoNode
       /\ ref \in RefsOf(tree[r].graph)
       /\ RoomForClaim(tree[r])
       /\ Admitted(r, n,
                   EnqueueOrClaim([tree[r] EXCEPT !.graph = AddNode(@, n, ref)],
                                  n, FreshClaim),
                   FreshClaim)

\* The message is already in a tree: the decision of enqueue_or_claim is
\* returned as it is, and no task is launched for it.
AdmitDuplicate(n) ==
    LET r == owner[Prompt(n)]
    IN /\ op = NoOp
       /\ r # NoNode
       /\ RoomForClaim(tree[r])
       /\ tree' = [tree EXCEPT ![r] = EnqueueOrClaim(@, n, FreshClaim)]
       /\ UNCHANGED <<owner, slot, stored, op>>

-----------------------------------------------------------------------------
(* The task of a claim *)

ToPhase(c, phase) == slot' = [slot EXCEPT ![c].phase = phase]

\* The first step of the task, as far as the node runner's wait for a session.
EnterRunner(c) ==
    /\ slot[c].phase = "created"
    /\ ToPhase(c, "starting")
    /\ UNCHANGED <<tree, owner, stored, op>>

RunnerStarts(c) ==
    /\ slot[c].phase = "starting"
    /\ ToPhase(c, "running")
    /\ UNCHANGED <<tree, owner, stored, op>>

\* The tree that has the identity of the claim now.
TreeOf(c) == tree[slot[c].root]

\* That tree becomes tr, if it is there and the claim still holds it, and the
\* snapshot is saved.
Commit(c, tr) ==
    LET r == slot[c].root
    IN IF Holds(tree[r], c)
       THEN /\ tree' = [tree EXCEPT ![r] = tr]
            /\ stored' = [stored EXCEPT ![r] = tr.graph]
       ELSE UNCHANGED <<tree, stored>>

StreamOpen(c) == slot[c].phase \in {"running", "reported"}

NodeState(c) == TreeOf(c).graph.state[slot[c].node]

\* A session_info event: record_session, for a node in progress
RunnerRecordsSession(c) ==
    /\ StreamOpen(c)
    /\ IF NodeState(c) = "in_progress"
       THEN Commit(c, TreeOf(c))
       ELSE UNCHANGED <<tree, stored>>
    /\ UNCHANGED <<owner, slot, op>>

\* A complete event: complete_claim, for a node in progress or in error
RunnerCompletes(c) ==
    /\ StreamOpen(c)
    /\ IF NodeState(c) \in {"in_progress", "error"}
       THEN Commit(c, CompleteClaim(TreeOf(c)))
       ELSE UNCHANGED <<tree, stored>>
    /\ ToPhase(c, "reported")
    /\ UNCHANGED <<owner, op>>

RunnerFails(c, propagate, phase) ==
    /\ Commit(c, FailClaim(TreeOf(c), propagate))
    /\ ToPhase(c, phase)
    /\ UNCHANGED <<owner, op>>

\* An error event that is not the exit of the CLI: later events may still
\* complete the turn.
RunnerSeesError(c) == StreamOpen(c) /\ RunnerFails(c, FALSE, slot[c].phase)

\* The exit of the CLI with an error
RunnerSeesExit(c) == StreamOpen(c) /\ RunnerFails(c, TRUE, "reported")

\* No session was free.
RunnerHasNoSession(c) ==
    /\ slot[c].phase = "starting"
    /\ RunnerFails(c, FALSE, "closing")

\* The stream ends with no terminal event, or the runner raises: caught by the
\* runner itself, or by _run_claim if it escapes.
RunnerBreaks(c) ==
    /\ slot[c].phase \in {"starting", "running", "reported"}
    /\ RunnerFails(c, TRUE, "closing")

\* The stream ends after a terminal event.
RunnerEnds(c) ==
    /\ slot[c].phase = "reported"
    /\ ToPhase(c, "closing")
    /\ UNCHANGED <<tree, owner, stored, op>>

\* The handler of CancelledError, and the failure it may raise itself, which
\* _run_claim spreads to the replies. Either finds the claim cancelled; a
\* second cancel may cut the handler short before it looks.
RunnerUnwinds(c, propagate) ==
    /\ slot[c].phase = "cancelling"
    /\ Commit(c, FailClaim(TreeOf(c), propagate))
    /\ ToPhase(c, "closing")
    /\ UNCHANGED <<owner, op>>

\* _finish_and_continue lets the slot go whatever the callback does.
Released(c) == [slot EXCEPT ![c] = NoSlot]

\* Mutant: the successor is claimed and never launched.
FinishClaimOnly(c) ==
    LET r    == slot[c].root
        next == FinishAndClaimNext(tree[r], c)
    IN /\ slot[c].phase \in {"closing", "unentered"}
       /\ tree' = IF slot[c].attached THEN [tree EXCEPT ![r] = next] ELSE tree
       /\ slot' = Released(c)
       /\ UNCHANGED <<owner, stored, op>>

\* At the end of the task, or in the recovery task of one that never ran:
\* release the claim and launch its successor, which no
\* snapshot is saved for.
FinishClaim(c) ==
    LET r    == slot[c].root
        next == FinishAndClaimNext(tree[r], c)
    IN /\ slot[c].phase \in {"closing", "unentered"}
       /\ IF slot[c].attached
          THEN /\ tree' = [tree EXCEPT ![r] = next]
               /\ slot' = IF next.active.claim = c
                          THEN [slot EXCEPT ![c] = Created(r, next.active.node)]
                          ELSE Released(c)
          ELSE /\ slot' = Released(c)
               /\ UNCHANGED tree
       /\ UNCHANGED <<owner, stored, op>>

-----------------------------------------------------------------------------
(* Stop and clear, under the workflow's _state_lock *)

\* TreeQueueProcessor.cancel
CancelPhase(phase) ==
    CASE phase = "created"                             -> "unentered"
      [] phase \in {"starting", "running", "reported"} -> "cancelling"
      [] OTHER                                         -> phase

\* The slots once the active claims of the trees in cancelled are cancelled
\* and the trees in removed are out of the repository.
SlotsAfter(cancelled, removed) ==
    LET claims == {tree[r].active.claim : r \in cancelled}
    IN [c \in Claims |->
          [slot[c] EXCEPT !.phase = IF c \in claims THEN CancelPhase(@) ELSE @,
                          !.attached = @ /\ slot[c].root \notin removed]]

\* Mutant: the snapshots are taken before the transition.
SnapshotsBefore(trees) == [r \in trees |-> tree[r].graph]

SnapshotsOf(trees) == [r \in trees |-> tree'[r].graph]

\* The operation goes on to drain the tasks it cancelled, if any, or to take
\* its snapshots at once.
Proceed(trees, removes, drains) ==
    op' = [phase     |-> IF drains THEN "drain" ELSE "save",
           trees     |-> trees,
           removes   |-> removes,
           snapshots |-> IF drains THEN NoOp.snapshots ELSE SnapshotsOf(trees)]

\* /stop in reply to a message: TreeQueueManager.cancel_node
StopReply(ref) ==
    LET r == owner[ref]
        n == ref[2]
        holdsClaim == tree[r].active.node = n
    IN /\ op = NoOp
       /\ r # NoNode
       /\ ref \in RefsOf(tree[r].graph)
       /\ ~(holdsClaim /\ Untargetable(tree[r]))
       /\ tree' = [tree EXCEPT ![r] = CancelNode(@, n)]
       /\ slot' = IF holdsClaim THEN SlotsAfter({r}, {}) ELSE slot
       /\ Proceed({r}, {}, holdsClaim)
       /\ UNCHANGED <<owner, stored>>

Refusing == {r \in Published : Untargetable(tree[r])}
HasActive(trees) == \E r \in trees : tree[r].active # NoActive

\* /stop: TreeQueueManager.cancel_all
StopAll ==
    /\ op = NoOp
    /\ Published # {}
    /\ Refusing = {}
    /\ tree' = [r \in Nodes |-> IF r \in Published THEN CancelAll(tree[r]) ELSE tree[r]]
    /\ slot' = SlotsAfter(Published, {})
    /\ Proceed(Published, {}, HasActive(Published))
    /\ UNCHANGED <<owner, stored>>

\* /stop when a tree refuses: the ValueError ends the operation, with the trees
\* before it in the repository cancelled and no snapshot taken.
StopAllRaises(before) ==
    /\ op = NoOp
    /\ Refusing # {}
    /\ tree' = [r \in Nodes |-> IF r \in before THEN CancelAll(tree[r]) ELSE tree[r]]
    /\ slot' = SlotsAfter(before, {})
    /\ UNCHANGED <<owner, stored, op>>

Forget(removed) ==
    owner' = [ref \in Refs |-> IF owner[ref] \in removed THEN NoNode ELSE owner[ref]]

\* /clear: TreeQueueManager.clear_scope, then SessionStore.clear_scope
ClearChat ==
    /\ op = NoOp
    /\ Published # {}
    /\ Refusing = {}
    /\ tree' = [r \in Nodes |-> NoTree]
    /\ slot' = SlotsAfter(Published, Published)
    /\ Forget(Published)
    /\ Proceed({}, Nodes, HasActive(Published))
    /\ UNCHANGED stored

\* /clear when a tree refuses: the trees before it are gone, and the store is
\* cleared of all of them before the ValueError is raised again.
ClearChatRaises(before) ==
    /\ op = NoOp
    /\ Refusing # {}
    /\ tree' = [r \in Nodes |-> IF r \in before THEN NoTree ELSE tree[r]]
    /\ slot' = SlotsAfter(before, before)
    /\ Forget(before)
    /\ Proceed({}, Nodes, FALSE)
    /\ UNCHANGED stored

\* /clear in reply to a message: TreeQueueManager.remove_message_subtree
ClearReply(ref) ==
    LET r        == owner[ref]
        removed  == RemovedNodes(tree[r], ref)
        cancels  == tree[r].active.node \in AffectedNodes(tree[r], ref)
        wholeTree == r \in removed
    IN /\ op = NoOp
       /\ r # NoNode
       /\ ref \in RefsOf(tree[r].graph)
       /\ ~(cancels /\ Untargetable(tree[r]))
       /\ tree' = [tree EXCEPT ![r] = IF wholeTree THEN NoTree
                                      ELSE RemoveMessageSubtree(@, ref)]
       /\ slot' = SlotsAfter(IF cancels THEN {r} ELSE {}, IF wholeTree THEN {r} ELSE {})
       /\ IF wholeTree
          THEN Forget({r})
          ELSE owner' = [x \in Refs |-> IF x \in ReplySubtree(tree[r].graph, ref)
                                        THEN NoNode ELSE owner[x]]
       /\ IF wholeTree THEN Proceed({}, {r}, cancels) ELSE Proceed({r}, {}, cancels)
       /\ UNCHANGED stored

\* /clear in reply to a message, refused: some of the nodes to remove are
\* marked as failed, and all of them stay.
ClearReplyRaises(ref, marked) ==
    LET r == owner[ref]
    IN /\ op = NoOp
       /\ r # NoNode
       /\ ref \in RefsOf(tree[r].graph)
       /\ Untargetable(tree[r])
       /\ tree[r].active.node \in AffectedNodes(tree[r], ref)
       /\ marked \subseteq AffectedNodes(tree[r], ref) \ {tree[r].active.node}
       /\ tree' = [tree EXCEPT ![r].graph = MarkErrors(@, marked),
                               ![r].queue = Dequeued(@, marked)]
       /\ UNCHANGED <<owner, slot, stored, op>>

\* Mutant: no snapshots are taken after a drain.
DrainEndsWithoutSnapshots ==
    /\ op.phase = "drain"
    /\ op' = [op EXCEPT !.phase = "save"]
    /\ UNCHANGED <<tree, owner, slot, stored>>

\* The cancelled tasks are over, or CANCEL_TASK_DRAIN_TIMEOUT_S has passed: time
\* enough for a recovery task, which waits for nothing.
DrainEnds ==
    /\ op.phase = "drain"
    /\ \A c \in Claims : slot[c].phase # "unentered"
    /\ UNCHANGED <<tree, owner, slot, stored>>
    /\ op' = [op EXCEPT !.phase = "save", !.snapshots = SnapshotsOf(op.trees)]

\* The workflow takes delivery of the result (_finish_transition), saves its
\* snapshots or removes what was cleared, and releases _state_lock.
SaveAndRelease ==
    /\ op.phase = "save"
    /\ stored' = [r \in Nodes |->
           CASE r \in op.removes -> NoGraph
             [] r \in op.trees   -> op.snapshots[r]
             [] OTHER            -> stored[r]]
    /\ op' = NoOp
    /\ UNCHANGED <<tree, owner, slot>>

-----------------------------------------------------------------------------
(* The process ends and starts again from what the store held.             *)

\* TreeRepository.from_snapshot, for snapshots it accepts
Restart ==
    /\ stored' = [r \in Nodes |-> MarkErrors(stored[r], Nodes)]
    /\ tree' = [r \in Nodes |-> [NoTree EXCEPT !.graph = stored'[r]]]
    /\ owner' = [ref \in Refs |->
           IF \E r \in Nodes : ref \in RefsOf(stored[r])
           THEN CHOOSE r \in Nodes : ref \in RefsOf(stored[r])
           ELSE NoNode]
    /\ slot' = [c \in Claims |-> NoSlot]
    /\ op' = NoOp

-----------------------------------------------------------------------------
Admissions ==
    \E n \in Nodes :
        \/ AdmitRoot(n)
        \/ \E ref \in Refs : AdmitReply(n, ref)
        \/ AdmitDuplicate(n)

\* The CLI says something the turn goes on after.
Report(c) ==
    \/ RunnerRecordsSession(c)
    \/ RunnerCompletes(c)
    \/ RunnerSeesError(c)
    \/ RunnerSeesExit(c)

\* The task of c goes one step nearer to its end.
Advance(c) ==
    \/ EnterRunner(c)
    \/ RunnerStarts(c)
    \/ RunnerHasNoSession(c)
    \/ RunnerBreaks(c)
    \/ RunnerEnds(c)
    \/ \E propagate \in BOOLEAN : RunnerUnwinds(c, propagate)
    \/ FinishClaim(c)

Cancellations ==
    \/ \E ref \in Refs : StopReply(ref) \/ ClearReply(ref)
    \/ StopAll
    \/ ClearChat

Refusals ==
    \/ \E before \in SUBSET (Published \ Refusing) :
           StopAllRaises(before) \/ ClearChatRaises(before)
    \/ \E ref \in Refs, marked \in SUBSET Nodes : ClearReplyRaises(ref, marked)

Next ==
    \/ Admissions
    \/ \E c \in Claims : Report(c) \/ Advance(c)
    \/ Cancellations
    \/ Refusals
    \/ DrainEnds
    \/ SaveAndRelease
    \/ Restart

Spec == Init /\ [][Next]_vars

\* The event loop runs every task that is ready, the CLI ends its stream, and
\* the drain has a timeout. Nobody has to send a message or a command.
Fairness ==
    /\ \A c \in Claims : WF_vars(Advance(c))
    /\ WF_vars(DrainEnds)
    /\ WF_vars(SaveAndRelease)

FairSpec == Spec /\ Fairness

-----------------------------------------------------------------------------
(* What the trees promise                                                   *)

\* Every variable has its type.
TypeOK ==
    /\ tree \in [Nodes -> Trees]
    /\ owner \in [Refs -> Nodes \cup {NoNode}]
    /\ slot \in [Claims -> Slots]
    /\ stored \in [Nodes -> Graphs]
    /\ op \in [phase     : {"none", "drain", "save"},
              trees     : SUBSET Nodes,
              removes   : SUBSET Nodes,
              snapshots : [IF op.phase = "save" THEN op.trees ELSE {} -> Graphs]]

NodesIn(tr, states) == {n \in Nodes : tr.graph.state[n] \in states}

\* No turn waits for nobody. A tree's claim has the one task that will release
\* it, and no other task will launch work in that tree; the turns that wait are
\* in the queue once each, behind a claim; only the claim's turn is in progress.
EveryTurnIsOwned ==
    /\ \A r \in Nodes :
        LET tr == tree[r]
        IN /\ tr.active # NoActive =>
                LET s == slot[tr.active.claim]
                IN s.phase # "none" /\ s.attached /\ s.root = r /\ s.node = tr.active.node
           /\ tr.queue # <<>> => tr.active # NoActive
           /\ NodesIn(tr, {"pending"}) = {tr.queue[i] : i \in DOMAIN tr.queue}
           /\ Len(tr.queue) = Cardinality(NodesIn(tr, {"pending"}))
           /\ NodesIn(tr, {"in_progress"}) \subseteq {tr.active.node}
    /\ \A c \in Alive : slot[c].attached => tree[slot[c].root].active.claim = c

\* A task that was told to stop, or whose turn was removed or lost its status
\* message, can no longer write: the tree knows its claim as cancelled.
LostClaimIsCancelled ==
    \A c \in Alive : slot[c].attached =>
        LET tr == tree[slot[c].root]
        IN \/ tr.active.cancelled
           \/ /\ slot[c].phase \notin {"cancelling", "unentered"}
              /\ slot[c].node \in Present(tr.graph)
              /\ slot[c].node \in tr.graph.status

\* Once a clear is over no message it removed is in the store: neither its own
\* snapshot nor a task that finished meanwhile brings one back.
ClearedStaysCleared ==
    op = NoOp => \A r \in Nodes : Present(stored[r]) \subseteq Present(tree[r].graph)

\* from_snapshot accepts the snapshot: a root that replies to nothing, every
\* other node reached from it by replies to messages of the tree, and a status
\* message for every turn that has to be marked as interrupted.
Accepted(g, r) ==
    /\ r \in Present(g)
    /\ g.reply[r] = NoRef
    /\ \A n \in Present(g) \ {r} : g.reply[n] \in RefsOf(g)
    /\ {Prompt(n) : n \in Present(g)} \subseteq ReplySubtree(g, Prompt(r))
    /\ \A n \in Present(g) : g.state[n] \in Runnable => n \in g.status
    /\ g.status \subseteq Present(g)

\* The repository's index leads from a message to the tree that has it, and
\* leads nowhere from a message that no tree has.
IndexMatchesTrees ==
    \A ref \in Refs, r \in Nodes : owner[ref] = r <=> ref \in RefsOf(tree[r].graph)

\* A process that dies at any moment finds every conversation it stored again:
\* restoring skips no tree as invalid, and none as a duplicate of another.
StoreIsAccepted ==
    \A r \in Nodes : stored[r] # NoGraph =>
        /\ Accepted(stored[r], r)
        /\ \A q \in Nodes \ {r} : RefsOf(stored[r]) \cap RefsOf(stored[q]) = {}

\* What a reply is looked up in is right, now and after a restart.
ConversationsAreFound == IndexMatchesTrees /\ StoreIsAccepted

\* A turn that waits fails because it was stopped or cleared, or because a turn
\* it replies to, directly or not, failed while its claim was not cancelled. A
\* task that is being cancelled takes no other turn with it.
OnlyLiveFailuresSpread ==
    [][ \A r, n \in Nodes :
          ( /\ tree'[r] # tree[r] /\ tree'[r].active = tree[r].active
            /\ tree[r].graph.state[n] = "pending"
            /\ tree'[r].graph.state[n] = "error"
            /\ op' = op /\ Refusing = {} )
          => /\ ~tree[r].active.cancelled
             /\ n \in Descendants(tree[r].graph, tree[r].active.node)
      ]_vars

\* Every turn is settled in the end: it completes, fails, is stopped or removed.
TurnsSettle ==
    \A r, n \in Nodes :
        tree[r].graph.state[n] \in Runnable ~> tree[r].graph.state[n] \notin Runnable

-----------------------------------------------------------------------------
(* The inductive invariant of the invariants above                          *)

\* The graph of the tree r, in memory, in the store or in a snapshot: one that
\* from_snapshot would accept, with nothing left of the nodes that went.
Sane(g, r) ==
    /\ Accepted(g, r)
    /\ \A n \in Nodes : n \notin Present(g) => g.reply[n] = NoRef

\* The queue of a tree holds its pending turns, once each, behind a claim, and
\* only the turn of the claim can be in progress.
QueueSane(tr) ==
    /\ \A i, j \in DOMAIN tr.queue : tr.queue[i] = tr.queue[j] => i = j
    /\ \A n \in Nodes : tr.graph.state[n] = "pending" <=> InQueue(tr, n)
    /\ tr.queue # <<>> => tr.active # NoActive
    /\ \A n \in Nodes : tr.graph.state[n] = "in_progress" => n = tr.active.node

\* A claim that was not cancelled is of a turn that has left the queue and is
\* still there; one that was is not of a turn in progress.
ClaimSane(tr) ==
    tr.active # NoActive =>
        /\ tr.active.claim \in Claims /\ tr.active.node \in Nodes
        /\ IF tr.active.cancelled
           THEN tr.graph.state[tr.active.node] # "in_progress"
           ELSE /\ tr.graph.state[tr.active.node] \notin {"pending", "absent"}
                /\ tr.active.node \in tr.graph.status

TreesAreSane ==
    \A r \in Nodes : /\ QueueSane(tree[r]) /\ ClaimSane(tree[r])
                     /\ tree[r] # NoTree => Sane(tree[r].graph, r)

\* The task s works for the claim of the tree r, whose turn is not in progress
\* any more when the task is told to stop or has seen its end.
WorksFor(s, tr, r) ==
    /\ s.phase # "none" /\ s.attached /\ s.root = r /\ s.node = tr.active.node
    /\ s.phase \in {"cancelling", "unentered"} => tr.active.cancelled
    /\ s.phase \in {"reported", "closing"}
       => tr.graph.state[tr.active.node] # "in_progress"

TasksAreSane ==
    /\ \A r \in Nodes : tree[r].active # NoActive
                        => WorksFor(slot[tree[r].active.claim], tree[r], r)
    /\ \A c \in Alive : /\ slot[c].root \in Nodes /\ slot[c].node \in Nodes
                        /\ slot[c].attached => tree[slot[c].root].active.claim = c

\* What the store has of a tree is no part of another tree, and is part of that
\* tree unless the operation under way is about to replace or to remove it.
StoreIsSane ==
    /\ \A r \in Nodes : stored[r] # NoGraph => Sane(stored[r], r)
    /\ \A r, q \in Nodes : r # q =>
          RefsOf(stored[r]) \cap (RefsOf(stored[q]) \cup RefsOf(tree[q].graph)) = {}
    /\ \A r \in Nodes \ (op.trees \cup op.removes) :
          RefsOf(stored[r]) \subseteq RefsOf(tree[r].graph)

\* The trees an operation works on stay, with the messages it left them.
OperationIsSane ==
    /\ op.phase = "none" => op = NoOp
    /\ \A r \in op.trees : tree[r] # NoTree
    /\ op.phase = "save" =>
          \A r \in op.trees : /\ Sane(op.snapshots[r], r)
                             /\ RefsOf(op.snapshots[r]) = RefsOf(tree[r].graph)

IInv == /\ TypeOK /\ TreesAreSane /\ TasksAreSane /\ IndexMatchesTrees
        /\ StoreIsSane /\ OperationIsSane

-----------------------------------------------------------------------------
(* What the repository says of the program and the runs refute              *)

\* An active turn that is in error can be cancelled again, so that /stop and
\* /clear reach every turn there is.
ActiveCanBeCancelled == op = NoOp => Refusing = {}

\* While no operation is under way, a restart would find each conversation as
\* it is: the same messages, and the same turns completed.
StoreIsCurrent ==
    op = NoOp => \A r \in Published :
        MarkErrors(stored[r], Nodes) = MarkErrors(tree[r].graph, Nodes)

=============================================================================
