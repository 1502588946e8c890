----------------------------- MODULE ChatStream -----------------------------
(***************************************************************************)
(* One chat-completions request as its client sees it:                     *)
(* providers/openai_chat/transport.py assembles upstream chunks into the   *)
(* blocks of a client stream (stream_output.py, tool_calls.py), holds the  *)
(* first events back so that an early failure can be retried unseen        *)
(* (stream_recovery.py), and continues or repairs a stream that fails      *)
(* after its events were shown.                                            *)
(*                                                                         *)
(* An assembler is one epoch.  `out' is its output state, a record that    *)
(* also collects in `new' the events of the step being computed.  Text,    *)
(* reasoning and arguments are abstracted to whether there are any and, of *)
(* arguments, whether they parse as a complete input.                      *)
(***************************************************************************)
EXTENDS Integers, Sequences, FiniteSets, SequencesExt

CONSTANTS
    MaxAttempts,        \* execution.max_attempts
    MaxCorrections,     \* authentication refresh and request corrections
    MaxChunks,          \* bound on the chunks of an attempt
    MaxTools            \* bound on the tool calls of a stream

\* There is an attempt, and room for a tool call.
ConstantsOK ==
    /\ MaxAttempts \in Nat \ {0} /\ MaxTools \in Nat \ {0}
    /\ MaxCorrections \in Nat /\ MaxChunks \in Nat

VARIABLES
    api,        \* the client's protocol: "anthropic" or "responses"
    pc,         \* "create", "read", "recover", "done" or "failed"
    left,       \* attempts remaining
    corrected,  \* corrections made
    epoch,      \* the assembler in use
    chunks,     \* chunks it was fed
    out,        \* its output
    held,       \* events held back
    committed,  \* the holdback has been flushed
    seen        \* events the client received

vars == <<api, pc, left, corrected, epoch, chunks, out, held, committed, seen>>

Tools == 0 .. MaxTools - 1
ToolStates == [block : Nat, state : {"absent", "open", "closed"},
               args : {"none", "buffered", "partial", "complete"}, from : {"none", "native", "text"}]
NoTool == [block |-> 0, state |-> "absent", args |-> "none", from |-> "none"]

Event == [epoch : Nat, kind : {"message", "text", "reasoning", "tool"},
          what : {"start", "open", "delta", "stop", "finish", "fail"}, block : Nat]

\* What ChatStreamOutput keeps, and the events of a step.
Outputs == [started : BOOLEAN, next : Nat, content : {"none", "text", "reasoning"},
            block : Nat, said : SUBSET {"text", "reasoning"},
            tools : [Tools -> ToolStates], new : Seq(Event)]
NewOutput == [started |-> FALSE, next |-> 0, content |-> "none", block |-> 0,
              said |-> {}, tools |-> [i \in Tools |-> NoTool], new |-> << >>]

TypeOK ==
    /\ api \in {"anthropic", "responses"}
    /\ pc \in {"create", "read", "recover", "done", "failed"}
    /\ left \in 0 .. MaxAttempts /\ corrected \in 0 .. MaxCorrections
    /\ epoch \in 1 .. MaxAttempts /\ chunks \in 0 .. MaxChunks
    /\ out \in Outputs /\ out.new = << >>
    /\ committed \in BOOLEAN
    /\ held \in Seq(Event) /\ seen \in Seq(Event)

Init ==
    /\ api \in {"anthropic", "responses"}
    /\ pc = "create"
    /\ left = MaxAttempts /\ corrected = 0
    /\ epoch = 1 /\ chunks = 0
    /\ out = NewOutput
    /\ held = << >> /\ committed = FALSE /\ seen = << >>

-----------------------------------------------------------------------------
(* ChatStreamOutput: blocks and the events they produce.                   *)

Emit(o, kind, what, b) ==
    [o EXCEPT !.new = Append(@, [epoch |-> epoch, kind |-> kind, what |-> what, block |-> b])]

\* close_content_blocks: text and reasoning are never open together.
CloseContent(o) ==
    IF o.content = "none" THEN o
    ELSE Emit([o EXCEPT !.content = "none"], o.content, "stop", o.block)

\* ensure_text_block, ensure_reasoning_block.
Ensure(o, kind) ==
    IF o.content = kind THEN o
    ELSE LET c == CloseContent(o)
         IN  Emit([c EXCEPT !.content = kind, !.block = c.next, !.next = @ + 1],
                  kind, "open", c.next)

\* A delta of text or reasoning.
Say(o, kind) ==
    LET e == Ensure(o, kind)
    IN  Emit([e EXCEPT !.said = @ \union {kind}], kind, "delta", e.block)

\* start_tool_block.
StartTool(o, i, from) ==
    Emit([o EXCEPT !.tools[i] = [block |-> o.next, state |-> "open", args |-> "none", from |-> from],
                   !.next = @ + 1],
         "tool", "open", o.next)

\* emit_tool_delta: the block gets it whether it is open or not.
ToolDelta(o, i, args) ==
    Emit([o EXCEPT !.tools[i].args = args], "tool", "delta", o.tools[i].block)

StopTool(o, i) ==
    IF o.tools[i].state # "open" THEN o
    ELSE Emit([o EXCEPT !.tools[i].state = "closed"], "tool", "stop", o.tools[i].block)

\* Tool states are numbered from 0, in the order of their indexes.
ToolOrder == [k \in 1 .. MaxTools |-> k - 1]
Known(o) == {i \in Tools : o.tools[i].state # "absent"}
Unfinished(o) == {i \in Known(o) : o.tools[i].args # "complete"}

CloseAll(o) == FoldLeft(StopTool, CloseContent(o), ToolOrder)

\* finish_success and finish_failure end the stream.
Finish(o, what) == Emit(CloseAll(o), "message", what, 0)

Generated == out.next > 0                           \* committed_output
Salvageable == Known(out) # {} /\ Unfinished(out) = {}

-----------------------------------------------------------------------------
(* Holdback.                                                               *)

\* push(), for the events of a step: they are held, or one of them reaches the
\* time or size limit and everything is flushed.
Push(o) ==
    /\ out' = [o EXCEPT !.new = << >>]
    /\ \/ /\ committed \/ o.new # << >>
          /\ committed' = TRUE
          /\ seen' = seen \o held \o o.new
          /\ held' = << >>
       \/ /\ ~committed
          /\ held' = held \o o.new
          /\ UNCHANGED <<committed, seen>>

\* flush(), and the events that end the stream after it.
Show(o) ==
    /\ out' = [o EXCEPT !.new = << >>]
    /\ committed' = TRUE
    /\ seen' = seen \o held \o o.new
    /\ held' = << >>

-----------------------------------------------------------------------------
(* An attempt.                                                             *)

\* _create_stream opens the upstream stream, retrying as long as there are
\* attempts left ...
Create ==
    /\ pc = "create" /\ left > 0
    /\ left' \in 0 .. left - 1
    /\ pc' = "read"
    /\ UNCHANGED <<api, corrected, epoch, chunks, out, held, committed, seen>>

\* ... or fails: nothing was shown of this request.
CreateFails ==
    /\ pc = "create"
    /\ left' \in 0 .. left
    /\ held' = << >>
    /\ pc' = "failed"
    /\ UNCHANGED <<api, corrected, epoch, chunks, out, committed, seen>>

\* start_events() comes before the first chunk's own events.
Started == IF out.started THEN out ELSE Emit([out EXCEPT !.started = TRUE], "message", "start", 0)

Fed(o) ==
    /\ chunks < MaxChunks
    /\ chunks' = chunks + 1
    /\ Push(o)
    /\ UNCHANGED <<api, pc, left, corrected, epoch>>

\* A chunk of text, reasoning, or neither.
FeedContent ==
    /\ pc = "read"
    /\ \/ \E kind \in {"text", "reasoning"} : Fed(Say(Started, kind))
       \/ ~out.started /\ Fed(Started)

\* process_tool_call: the first delta of an index starts its block, and
\* arguments go to the block of that index.  Those of a Task, or of a tool with
\* aliased arguments, are buffered until they parse.
FeedTool ==
    /\ pc = "read"
    /\ \E i \in Tools, args \in {"none", "buffered", "partial", "complete"} :
        LET known == i \in Known(out)
            c == CloseContent(Started)
            o == IF known THEN c ELSE StartTool(c, i, "native")
            before == o.tools[i].args
        IN  /\ i > 0 => i - 1 \in Known(out)
            /\ known => args # "none"
            /\ o.tools[i].from = "text" => args = "partial"
            /\ before = "complete" => o.tools[i].from = "text"
            /\ before = "partial" => args # "buffered"
            /\ before = "buffered" => args # "partial"
            /\ Fed(CASE args = "none" -> o
                     [] args = "buffered" -> [o EXCEPT !.tools[i].args = args]
                     [] OTHER -> ToolDelta(o, i, args))

\* iter_heuristic_tool_use_events: a call written out as text becomes a whole
\* block, at the first index that is not in use.
FeedTextTool ==
    /\ pc = "read"
    /\ Cardinality(Known(out)) < MaxTools
    /\ LET i == Cardinality(Known(out))
       IN  Fed(StopTool(ToolDelta(StartTool(CloseContent(Started), i, "text"), i, "complete"), i))

\* The buffered arguments of every tool call go out.
Released(o) ==
    LET release(s, i) == IF s.tools[i].args = "buffered" THEN ToolDelta(s, i, "partial") ELSE s
    IN  FoldLeft(release, o, ToolOrder)

\* finish_upstream, prepare_completion and terminal_events: an answer that is
\* empty, or reasoning only, gets some text; buffered arguments are released.
Complete ==
    /\ pc = "read" /\ out.started
    /\ LET silent == ~Generated \/ (Known(out) = {} /\ out.said = {"reasoning"})
           o == IF silent THEN Say(out, "text") ELSE out
       IN  Show(Finish(Released(o), "finish"))
    /\ pc' = "done"
    /\ UNCHANGED <<api, left, corrected, epoch, chunks>>

-----------------------------------------------------------------------------
(* Its failure.                                                            *)

\* Mutant: what was held back is kept for the next assembler.
NewEpochKeepsHeld ==
    /\ epoch' = epoch + 1
    /\ chunks' = 0
    /\ out' = NewOutput
    /\ pc' = "create"
    /\ UNCHANGED <<api, left, held, committed, seen>>

\* A fresh assembler; what was held of the old one is discarded.
NewEpoch ==
    /\ epoch' = epoch + 1
    /\ chunks' = 0
    /\ out' = NewOutput
    /\ held' = << >>
    /\ pc' = "create"
    /\ UNCHANGED <<api, left, committed, seen>>

\* retry_request: refreshed credentials or a corrected request, while nothing
\* was shown.
Correct ==
    /\ pc = "read" /\ ~committed /\ left > 0 /\ corrected < MaxCorrections
    /\ corrected' = corrected + 1
    /\ NewEpoch

\* advance_failure: what a failure allows.
CanRetry == left > 0 /\ ~committed /\ ~Salvageable /\ ~(Generated /\ left = 1)
CanRecover == Generated /\ (left > 0 \/ Salvageable)

EarlyRetry ==
    /\ pc = "read" /\ CanRetry
    /\ NewEpoch
    /\ UNCHANGED corrected

Recover ==
    /\ pc = "read" /\ ~CanRetry /\ CanRecover
    /\ pc' = "recover"
    /\ UNCHANGED <<api, left, corrected, epoch, chunks, out, held, committed, seen>>

\* The final error.  Nothing was shown: the error alone is reported, unless the
\* held events carry complete tool calls.  Else the blocks are closed; a
\* Responses client gets the failure as the end of its stream, an Anthropic one
\* from the layer above.
FinalError(o, salvage) ==
    IF ~committed /\ ~(held # << >> /\ salvage)
    THEN /\ pc' = "failed"
         /\ out' = [o EXCEPT !.new = << >>]
         /\ held' = << >>
         /\ UNCHANGED <<committed, seen>>
    ELSE IF api = "responses"
         THEN Show(Finish(o, "fail")) /\ pc' = "done"
         ELSE Show(CloseAll(o)) /\ pc' = "failed"

\* A failure that is not retryable, or beyond recovery.
Fail ==
    /\ pc = "read"
    /\ FinalError(out, Salvageable)
    /\ UNCHANGED <<api, left, corrected, epoch, chunks>>

\* Each of these calls gets the rest of its arguments.
Repaired(o, calls) ==
    LET repair(s, i) == IF i \in calls THEN ToolDelta(s, i, "complete") ELSE s
    IN  FoldLeft(repair, o, ToolOrder)

\* _recovery_events with tool calls: those that are not complete are repaired,
\* an attempt each at least.  If one cannot be, the others' events are dropped.
\* (More arguments after a complete input are beyond repair.)
RecoverTools ==
    /\ pc = "recover" /\ Known(out) # {}
    /\ \E repaired \in SUBSET {i \in Unfinished(out) : out.tools[i].from = "native"},
          n \in 0 .. left :
        LET o == Repaired(out, repaired)
        IN  /\ n >= Cardinality(repaired)
            /\ left' = left - n
            /\ IF repaired = Unfinished(out)
               THEN Show(Finish(o, "finish")) /\ pc' = "done"
               ELSE FinalError([o EXCEPT !.new = << >>], FALSE)
    /\ UNCHANGED <<api, corrected, epoch, chunks>>

\* _recovery_events with text: the upstream is asked to continue, and what is
\* new in its answer is appended.
RecoverText ==
    /\ pc = "recover" /\ Known(out) = {} /\ out.said # {} /\ left > 0
    /\ left' \in 0 .. left - 1
    /\ \E got \in SUBSET {"reasoning", "text", "tool"} :
        LET r == IF "reasoning" \in got THEN Say(out, "reasoning") ELSE out
            t == IF "text" \in got THEN Say(r, "text") ELSE r
            o == IF "tool" \in got
                 THEN ToolDelta(StartTool(CloseContent(t), 0, "native"), 0, "complete") ELSE t
        IN  IF got # {}
            THEN Show(Finish(o, "finish")) /\ pc' = "done"
            ELSE FinalError(out, FALSE)
    /\ UNCHANGED <<api, corrected, epoch, chunks>>

-----------------------------------------------------------------------------

Next ==
    \/ Create \/ CreateFails \/ Fail \/ RecoverTools \/ RecoverText \/ Correct \/ EarlyRetry
    \/ Recover \/ FeedContent \/ FeedTool \/ FeedTextTool \/ Complete

\* The upstream sends, ends or fails: its reads time out.
Fairness == WF_vars(Next)

Spec == Init /\ [][Next]_vars /\ Fairness

-----------------------------------------------------------------------------

\* A retry is invisible: the client sees the events of one assembler only, the
\* message starts once, and once it has started the stream is never replaced.
OneEpochIsSeen ==
    /\ \A k \in DOMAIN seen : seen[k].epoch = epoch /\ (seen[k].what = "start" <=> k = 1)
    /\ seen # << >> => pc # "create"

\* The contract of core/anthropic/stream_contracts.py for what the client has
\* received: a block starts once, gets its deltas and its stop while it is open,
\* text and reasoning are not open together, and a stream that ended has no
\* open block and nothing after its end.
WellFormed(s) ==
    LET blocks == {s[k].block : k \in {j \in DOMAIN s : s[j].kind # "message"}}
        of(b) == {k \in DOMAIN s : s[k].kind # "message" /\ s[k].block = b}
        is(what, b) == {k \in of(b) : s[k].what = what}
        content == {b \in blocks : \E k \in of(b) : s[k].kind # "tool"}
        ends == {k \in DOMAIN s : s[k].what \in {"finish", "fail"}}
    IN  /\ \A b \in blocks :
              /\ is("open", b) = {Min(of(b))}
              /\ is("stop", b) \subseteq {Max(of(b))}
              /\ pc \in {"done", "failed"} => is("stop", b) # {}
        /\ \A a, b \in content :
              a < b => is("stop", a) # {} /\ Max(of(a)) < Min(of(b))
        /\ ends \subseteq {Len(s)}
        /\ (ends # {}) <=> (pc = "done")

StreamContract == WellFormed(seen)

\* The contract holds unless native tool calls are mixed with calls written out
\* as text.
Mixed == {"native", "text"} \subseteq {out.tools[i].from : i \in Tools}
         \/ \E i \in Tools : out.tools[i].from = "text" /\ out.tools[i].args # "complete"
UnmixedStreamContract == Mixed \/ WellFormed(seen)

\* What the client receives is one well-formed message.
StreamIsWhole == OneEpochIsSeen /\ UnmixedStreamContract

\* The stream ends, well or badly.
Ended == pc \in {"done", "failed"}
StreamEnds == <>[]Ended

-----------------------------------------------------------------------------
(* The inductive invariant of StreamIsWhole                                *)

\* s are the events of the assembler so far, shown or held: all of its own
\* epoch, and the message starts with the first.
Begun(s) == \A k \in DOMAIN s : s[k].epoch = epoch /\ (s[k].what = "start" <=> k = 1)

\* s shows n blocks, of which those in tools are tool calls and those in opened
\* are open; a block of text or reasoning is not followed by an earlier one.
ShowsBlocks(s, n, opened, tools) ==
    LET Of(b) == {k \in DOMAIN s : s[k].kind # "message" /\ s[k].block = b}
        Content == {k \in DOMAIN s : s[k].kind \in {"text", "reasoning"}}
    IN  /\ opened \subseteq 0 .. n - 1
        /\ \A k \in DOMAIN s :
              IF s[k].kind = "message" THEN s[k].what = "start"
              ELSE /\ s[k].what \in {"open", "delta", "stop"} /\ s[k].block < n
                   /\ s[k].kind = "tool" <=> s[k].block \in tools
        /\ \A b \in 0 .. n - 1 :
              /\ \E k \in Of(b) : s[k].what = "open"
              /\ \A j, k \in Of(b) : j < k => s[j].what # "stop" /\ s[k].what # "open"
              /\ b \in opened <=> \A k \in Of(b) : s[k].what # "stop"
        /\ \A j, k \in Content : s[j].block < s[k].block => j < k
        /\ \A b \in opened \ tools, k \in Content : s[k].block <= b

ToolBlocks(o) == {o.tools[i].block : i \in Known(o)}
OpenBlocks(o) ==
    {o.tools[i].block : i \in {j \in Tools : o.tools[j].state = "open"}}
        \cup (IF o.content = "none" THEN {} ELSE {o.block})

\* What the output knows of its blocks is what its events show.
ShowsOutput(s, o) ==
    /\ ShowsBlocks(s, o.next, OpenBlocks(o), ToolBlocks(o))
    /\ \A i \in Known(o) : o.tools[i].block < o.next
    /\ \A i, j \in Known(o) : o.tools[i].block = o.tools[j].block => i = j
    /\ o.content # "none" => o.block \notin ToolBlocks(o)

\* Tool calls come in the order of their indexes; a native one is open until the
\* stream ends, one that was written out as text is not.
ToolsInOrder(o) ==
    /\ \A i \in Known(o) : i > 0 => i - 1 \in Known(o)
    /\ \A i \in Tools : o.tools[i].state = "absent" <=> o.tools[i].from = "none"
    /\ \A i \in Tools \ Known(o) : o.tools[i].args = "none"
ToolsAsRead(o) ==
    \A i \in Known(o) : o.tools[i].state = (IF o.tools[i].from = "native" THEN "open" ELSE "closed")

Reading == pc \in {"read", "recover"}

\* Until the stream ends, the output and the events are in step; nothing is seen
\* before the holdback is flushed, and then nothing is held.
IInv ==
    /\ TypeOK /\ StreamIsWhole
    /\ IF committed THEN held = << >> /\ seen # << >> ELSE seen = << >>
    /\ pc = "create" =>
          /\ ~committed /\ held = << >> /\ out = NewOutput
          /\ epoch + left <= MaxAttempts + 1
    /\ Reading =>
          /\ epoch + left <= MaxAttempts
          /\ Begun(seen \o held)
          /\ out.started <=> seen \o held # << >>
          /\ out.next > 0 \/ pc = "recover" => out.started
          /\ ToolsInOrder(out)
          /\ Mixed \/ (ShowsOutput(seen \o held, out) /\ ToolsAsRead(out))
=============================================================================
