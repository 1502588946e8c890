---------------------------- MODULE MessageIntake ----------------------------
(***************************************************************************)
(* How a message becomes a turn, and how /stop and /clear draw a line      *)
(* through the messages on their way: the admission tokens of              *)
(* messaging/workflow.py and turn_intake.py, the startup notice, and the   *)
(* pending voice notes of messaging/voice.py and platforms/voice_flow.py.  *)
(*                                                                         *)
(* A typed message is handled by a task of its own.  A voice note waits    *)
(* for its status message and its transcription first; its text is then    *)
(* handled by a hand-off task.  A command that cancels the note cancels it *)
(* and waits for it, and so does the platform's own task when it is itself *)
(* cancelled.  The text may be a command: a spoken /stop cancels the other *)
(* notes from inside its own hand-off.                                     *)
(*                                                                         *)
(* Sections under the workflow's _state_lock and the registry's _lock are  *)
(* one step each.  A command's body and an admission run in an owned task  *)
(* (_finish_owned_operation), so a cancelled hand-off finishes them first. *)
(* Turns that were admitted are MessageTrees' business: here they stay     *)
(* alive until a command ends them.                                        *)
(***************************************************************************)
EXTENDS Naturals, FiniteSets

CONSTANTS
    Typed,   \* typed messages, and the startup notice
    Voices,  \* voice notes
    Chat     \* the chat of each of them

Messages == Typed \cup Voices
Chats    == {Chat[m] : m \in Messages}

\* Standalone /stop and /clear, and either of them in reply to a message.
Commands == {"stop", "clear", "reply"}
Ended    == {"done", "cancelled", "failed"}

VARIABLES
    stage,     \* where the handling of a message's text stands
    said,      \* what the text is: a prompt, a command, the startup notice, other
    aim,       \* the messages a command that is running is about
    token,     \* AdmissionToken of a message (a command makes no use of its own)
    stopGen,   \* _stop_generation
    clearGen,  \* _clear_generations
    turn,      \* "none", "alive" (admitted, or a notice recorded) or "gone"
    note,      \* where VoiceNoteFlow.handle stands
    pending,   \* notes in the registry
    doomed,    \* hand-off tasks that have been cancelled
    swept,     \* the notes a command removed from the registry
    reach,     \* history: the messages a command was to end when it began
    status     \* what a note's status message shows

vars == <<stage, said, aim, token, stopGen, clearGen, turn, note, pending,
          doomed, swept, reach, status>>
workflowVars == <<stopGen, clearGen, turn>>
textVars     == <<said, aim, token>>
registryVars == <<pending, doomed, swept, reach>>

\* What a text that arrives can be.  "other" is one that no turn comes of:
\* another command, or a text that looks like a status message.
Texts  == Commands \cup {"prompt", "other"}
Kinds  == Texts \cup {"notice", "unknown"}
Stages == Ended \cup {"absent", "token", "status", "admit", "discard", "sweep",
                      "drain"}

TextsOK ==
    /\ stage \in [Messages -> Stages]
    /\ said \in [Messages -> Kinds]
    /\ aim \in [Messages -> SUBSET Messages]
    /\ token \in [Messages -> Nat \X Nat]

WorkflowOK ==
    /\ stopGen \in Nat
    /\ clearGen \in [Chats -> Nat]
    /\ turn \in [Messages -> {"none", "alive", "gone"}]

NotesOK ==
    /\ note \in [Voices -> {"absent", "sending", "transcribing", "handed", "leaving",
                         "done"}]
    /\ status \in [Voices -> {"none", "transcribing", "turn", "closed"}]

RegistryOK ==
    /\ pending \subseteq Voices
    /\ doomed \subseteq Voices
    /\ swept \in [Messages -> SUBSET Voices]
    /\ reach \in [Messages -> SUBSET Messages]

TypeOK == TextsOK /\ WorkflowOK /\ NotesOK /\ RegistryOK

Init ==
    /\ stage = [m \in Messages |-> "absent"]
    /\ said = [m \in Messages |-> "unknown"]
    /\ aim = [m \in Messages |-> {}]
    /\ token = [m \in Messages |-> <<0, 0>>]
    /\ stopGen = 0
    /\ clearGen = [c \in Chats |-> 0]
    /\ turn = [m \in Messages |-> "none"]
    /\ note = [v \in Voices |-> "absent"]
    /\ pending = {}
    /\ doomed = {}
    /\ swept = [m \in Messages |-> {}]
    /\ reach = [m \in Messages |-> {}]
    /\ status = [v \in Voices |-> "none"]

-----------------------------------------------------------------------------
(* Handling a text: MessagingWorkflow.handle_message and turn intake.        *)

CurrentToken(m) == <<stopGen, clearGen[Chat[m]]>>

\* Where a text goes once its token is taken: a command starts its owned
\* operation, a turn waits for its status message, anything else is done.
FirstStage(kind) == CASE kind \in Commands -> "sweep"
                      [] kind = "other"    -> "done"
                      [] OTHER             -> "status"

\* handle_message takes the token under _state_lock.
Begin(m, kind) ==
    /\ said' = [said EXCEPT ![m] = kind]
    /\ token' = [token EXCEPT ![m] = IF kind \in Commands THEN @ ELSE CurrentToken(m)]
    /\ stage' = [stage EXCEPT ![m] = FirstStage(kind)]
    /\ UNCHANGED <<aim, workflowVars, note, registryVars, status>>

Receive(t) ==
    /\ stage[t] = "absent"
    /\ \E kind \in Texts \cup {"notice"} : Begin(t, kind)

\* The hand-off task of a note takes its first step.
StartHandoff(v) ==
    /\ stage[v] = "token"
    /\ v \notin doomed
    /\ \E kind \in Texts : Begin(v, kind)

\* The status message has been sent, or a note's edited; or that has failed.
StatusShown(m) ==
    /\ stage[m] = "status"
    /\ m \notin doomed
    /\ \/ /\ stage' = [stage EXCEPT ![m] = "admit"]
          /\ status' = IF m \in Voices THEN [status EXCEPT ![m] = "turn"] ELSE status
       \/ /\ stage' = [stage EXCEPT ![m] = "failed"]
          /\ UNCHANGED status
    /\ UNCHANGED <<textVars, workflowVars, note, registryVars>>

\* A turn is admitted only under the token it came with; a notice is bound by
\* its chat's clear generation alone.  The trees may reject it as well.
MayAdmit(m) == IF said[m] = "notice" THEN token[m][2] = clearGen[Chat[m]]
                                     ELSE token[m] = CurrentToken(m)

Admit(m) ==
    /\ stage[m] = "admit"
    /\ \/ /\ MayAdmit(m)
          /\ stage' = [stage EXCEPT ![m] = "done"]
          /\ turn' = [turn EXCEPT ![m] = "alive"]
       \/ /\ stage' = [stage EXCEPT ![m] = "discard"]
          /\ UNCHANGED turn
    /\ UNCHANGED <<textVars, stopGen, clearGen, note, registryVars, status>>

\* The status message of a rejected turn, or the notice, is deleted.
Discard(m) ==
    /\ stage[m] = "discard"
    /\ m \notin doomed
    /\ stage' = [stage EXCEPT ![m] = "done"]
    /\ status' = IF m \in Voices THEN [status EXCEPT ![m] = "closed"] ELSE status
    /\ UNCHANGED <<textVars, workflowVars, note, registryVars>>

\* CancelledError reaches a hand-off outside of an owned operation.
HandoffCancelled(v) ==
    /\ v \in doomed
    /\ stage[v] \in {"token", "status", "discard"}
    /\ stage' = [stage EXCEPT ![v] = "cancelled"]
    /\ UNCHANGED <<textVars, workflowVars, note, registryVars, status>>

-----------------------------------------------------------------------------
(* /stop and /clear, of everything, of a chat, or of the message replied to. *)

Started(m) == IF m \in Voices THEN note[m] # "absent" ELSE stage[m] # "absent"

\* A note whose command is cancelling others: _active_cancellations.
Sweeping(v) == stage[v] = "drain"

\* The registry's entry for a note has a handoff_task.
HandedOff(v) == note[v] \in {"handed", "leaving"}

IsExcluded(m, v) == v = m \/ Sweeping(v)

\* Mutant: the sweep leaves notes that are still being transcribed.
SweepHandoffs(m, scope) == {v \in pending \cap scope : ~IsExcluded(m, v) /\ HandedOff(v)}

\* The note claims a command removes from the registry.
SweptBy(m, scope) == {v \in pending \cap scope : ~IsExcluded(m, v)}

\* What a command is about: everything but the notice, its chat, or a message
\* (of which FCC may know nothing).
Scopes(m) ==
    CASE said[m] = "stop"  -> {{x \in Messages \ {m} : said[x] # "notice"}}
      [] said[m] = "clear" -> {{x \in Messages \ {m} : Chat[x] = Chat[m]}}
      [] said[m] = "reply" -> {{}} \cup {{x} : x \in {y \in Messages \ {m} : Chat[y] = Chat[m]}}

\* A reply reaches what has an owner: a pending note or an admitted turn.
ReachedBy(m, scope) ==
    {x \in scope : /\ Started(x)
                   /\ said[m] = "reply" => x \in SweptBy(m, scope) \/ turn[x] = "alive"}

Sweep(m) ==
    /\ stage[m] = "sweep"
    /\ \E scope \in Scopes(m) :
        /\ aim' = [aim EXCEPT ![m] = scope]
        /\ swept' = [swept EXCEPT ![m] = SweptBy(m, scope)]
        /\ pending' = pending \ SweptBy(m, scope)
        /\ doomed' = doomed \cup {v \in SweptBy(m, scope) : HandedOff(v)}
        /\ reach' = [reach EXCEPT ![m] = ReachedBy(m, scope)]
    /\ stage' = [stage EXCEPT ![m] = "drain"]
    /\ UNCHANGED <<said, token, workflowVars, note, status>>

\* The hand-offs that were cancelled have ended.
Drained(m) == \A v \in swept[m] : HandedOff(v) => stage[v] \in Ended

\* Under _state_lock: the generation advances and the turns in reach are
\* cancelled (or removed).  The notes' status messages are shown stopped, or
\* are deleted: closed.
Commit(m) ==
    /\ stage[m] = "drain"
    /\ Drained(m)
    /\ stopGen' = IF said[m] = "stop" THEN stopGen + 1 ELSE stopGen
    /\ clearGen' = IF said[m] = "clear" THEN [clearGen EXCEPT ![Chat[m]] = @ + 1]
                                        ELSE clearGen
    /\ turn' = [x \in Messages |-> IF x \in aim[m] /\ turn[x] = "alive" THEN "gone"
                                                                      ELSE turn[x]]
    /\ status' = [v \in Voices |-> IF v \in swept[m] /\ status[v] # "none" THEN "closed"
                                                                         ELSE status[v]]
    /\ stage' = [stage EXCEPT ![m] = "done"]
    /\ aim' = [aim EXCEPT ![m] = {}]
    /\ UNCHANGED <<said, token, note, registryVars>>

-----------------------------------------------------------------------------
(* Voice notes: VoiceNoteFlow.handle and PendingVoiceRegistry.               *)

Reserve(v) ==
    /\ note[v] = "absent"
    /\ note' = [note EXCEPT ![v] = "sending"]
    /\ pending' = pending \cup {v}
    /\ UNCHANGED <<stage, textVars, workflowVars, doomed, swept, reach, status>>

\* bind_status: a note that was cancelled meanwhile deletes its own status.
Bind(v) ==
    /\ note[v] = "sending"
    /\ IF v \in pending
       THEN /\ note' = [note EXCEPT ![v] = "transcribing"]
            /\ status' = [status EXCEPT ![v] = "transcribing"]
       ELSE /\ note' = [note EXCEPT ![v] = "done"]
            /\ status' = [status EXCEPT ![v] = "closed"]
    /\ UNCHANGED <<stage, textVars, workflowVars, registryVars>>

\* handoff: REJECTED when the note is no longer pending.
HandOff(v) ==
    /\ note[v] = "transcribing"
    /\ note' = [note EXCEPT ![v] = IF v \in pending THEN "handed" ELSE "done"]
    /\ stage' = [stage EXCEPT ![v] = IF v \in pending THEN "token" ELSE @]
    /\ UNCHANGED <<textVars, workflowVars, registryVars, status>>

\* Whose status message _clear_failed_pending_voice deletes: one that its
\* note still owned.
DeletesStatus(v) == v \in pending /\ status[v] # "none"

\* The status cannot be sent, the download or the transcription fails, or the
\* platform's task is cancelled before the hand-off.
NoteFails(v) ==
    /\ note[v] \in {"sending", "transcribing"}
    /\ note' = [note EXCEPT ![v] = "done"]
    /\ pending' = pending \ {v}
    /\ status' = IF DeletesStatus(v) THEN [status EXCEPT ![v] = "closed"] ELSE status
    /\ UNCHANGED <<stage, textVars, workflowVars, doomed, swept, reach>>

\* The platform's task is cancelled while it waits for the hand-off: it cancels
\* that, and keeps the entry until it has ended.
CallerCancelled(v) ==
    /\ note[v] = "handed"
    /\ note' = [note EXCEPT ![v] = "leaving"]
    /\ doomed' = doomed \cup {v}
    /\ UNCHANGED <<stage, textVars, workflowVars, pending, swept, reach, status>>

\* The hand-off has ended: _complete_if_owned.  Nothing deletes the status
\* message, also not when the platform's task goes on to fail or to be cancelled.
FinishNote(v) ==
    /\ HandedOff(v)
    /\ stage[v] \in Ended
    /\ note' = [note EXCEPT ![v] = "done"]
    /\ pending' = pending \ {v}
    /\ UNCHANGED <<stage, textVars, workflowVars, doomed, swept, reach, status>>

Handle(m) == StatusShown(m) \/ Admit(m) \/ Discard(m) \/ Sweep(m) \/ Commit(m)

NoteStep(v) == \/ Bind(v) \/ HandOff(v) \/ NoteFails(v) \/ FinishNote(v)
               \/ StartHandoff(v) \/ HandoffCancelled(v)

Next == \/ \E t \in Typed : Receive(t)
        \/ \E v \in Voices : Reserve(v) \/ CallerCancelled(v) \/ NoteStep(v)
        \/ \E m \in Messages : Handle(m)

\* Every task that can run does, and every platform call ends; nobody need send
\* a message or cancel a platform's task.
Fairness == /\ \A m \in Messages : WF_vars(Handle(m))
            /\ \A v \in Voices : WF_vars(NoteStep(v))

Spec == Init /\ [][Next]_vars /\ Fairness

-----------------------------------------------------------------------------
(* Properties                                                                *)

\* When a /stop or /clear has been carried out, no message that was on its way
\* when it began becomes or stays a turn: whether its token was taken, its
\* status was being sent, or it was a voice note being transcribed or handed
\* off.  A reply-scoped command promises this of a note or turn it found.
NothingOutlivesACommand ==
    \A m \in Messages :
        stage[m] = "done" /\ said[m] \in Commands => \A x \in reach[m] : turn[x] # "alive"

\* Nobody but its own platform task cancelled the hand-off of a note.
Abandoned(v) == stage[v] = "cancelled" /\ \A m \in Messages : v \notin swept[m]

\* A voice note that is over does not go on showing "Transcribing": its turn
\* took the status message, it was deleted, or the command that cancelled the
\* note is about to show it stopped.  The code leaves it there in three cases:
\* the edit itself failed, the text had no turn to show (a spoken command, or
\* "other"), or the platform's task was cancelled after the hand-off and no
\* command has swept the note.
StatusIsSettled ==
    \A v \in Voices :
        note[v] = "done" /\ status[v] = "transcribing" =>
            \/ stage[v] = "failed" \/ said[v] \in Commands \cup {"other"} \/ Abandoned(v)
            \/ \E m \in Messages : v \in swept[m] /\ stage[m] = "drain"

\* Nothing of a message that was stopped or refused stays behind.
IntakeLeavesNothing == NothingOutlivesACommand /\ StatusIsSettled

\* Every command ends and every note is finished: two spoken commands that
\* cancel each other's notes do not wait for each other.
Quiet ==
    /\ \A m \in Messages : stage[m] \in Ended \cup {"absent"}
    /\ \A v \in Voices : note[v] \in {"absent", "done"}
CommandsEnd == <>[]Quiet

-----------------------------------------------------------------------------
(* The inductive invariant of IntakeLeavesNothing                            *)

ConstantsOK == Typed \cap Voices = {} /\ Chat \in [Messages -> Chats]

\* Where a message stands, and what is known of it there.
MessagePlaces ==
    \A m \in Messages :
        /\ stage[m] \in {"sweep", "drain"} => said[m] \in Commands
        /\ stage[m] \in {"absent", "token", "status", "admit", "discard"} =>
               said[m] \notin Commands
        /\ turn[m] = "alive" => stage[m] = "done" /\ said[m] \notin Commands

VoicePlaces ==
    \A v \in Voices :
        /\ said[v] # "notice"
        /\ note[v] \in {"absent", "sending", "transcribing"} => stage[v] = "absent"
        /\ HandedOff(v) => stage[v] # "absent"
        /\ stage[v] \in {"token", "status", "admit", "discard"} => HandedOff(v)
        /\ stage[v] = "token" => v \in pending \cup doomed
        /\ v \in doomed => /\ note[v] \in {"handed", "leaving", "done"}
                           /\ v \in pending => note[v] = "leaving"
        /\ v \in pending => note[v] \notin {"absent", "done"}
        /\ v \in pending \/ note[v] = "absent" => \A m \in Messages : v \notin swept[m]

TypedPlaces == \A t \in Typed : stage[t] # "token"

\* A token was taken from the generations, which never go back.
TokensAreOld ==
    \A m \in Messages : stage[m] \in {"status", "admit"} =>
        token[m][1] <= stopGen /\ token[m][2] <= clearGen[Chat[m]]

\* A message that can no longer become a turn, and is none.
Outdated(x) == \/ said[x] # "notice" /\ token[x][1] < stopGen
               \/ token[x][2] < clearGen[Chat[x]]
Barred(x) ==
    \/ stage[x] \in Ended /\ turn[x] # "alive"
    \/ stage[x] \in {"discard", "sweep", "drain"}
    \/ stage[x] \in {"status", "admit"} /\ Outdated(x)
    \/ stage[x] = "token" /\ x \in doomed
    \/ x \in Voices /\ stage[x] = "absent" /\ note[x] # "absent" /\ x \notin pending

\* One that the commit of command m will bar.
Held(m, x) ==
    \/ Barred(x)
    \/ stage[x] \in Ended
    \/ stage[x] \in {"status", "admit"} /\ (said[m] = "reply" => x \in swept[m])

CommandsBar ==
    \A m \in Messages : said[m] \in Commands => \A x \in reach[m] :
        /\ stage[m] = "done" => Barred(x)
        /\ stage[m] = "drain" => /\ Held(m, x) /\ x \in aim[m]
                                 /\ said[m] = "stop" => said[x] # "notice"
                                 /\ said[m] = "clear" => Chat[x] = Chat[m]

\* While a note shows "Transcribing" it is pending, or a command that has swept
\* it is to show it stopped; or nobody will, in the cases of StatusIsSettled.
StatusHasOwner ==
    \A v \in Voices : status[v] = "transcribing" =>
        \/ stage[v] = "failed" \/ said[v] \in Commands \cup {"other"} \/ Abandoned(v)
        \/ \E m \in Messages : v \in swept[m] /\ stage[m] = "drain"
        \/ /\ v \in pending /\ note[v] \in {"transcribing", "handed", "leaving"}
           /\ stage[v] \in {"absent", "token", "status"}

IInv == /\ TypeOK /\ MessagePlaces /\ VoicePlaces /\ TypedPlaces
        /\ TokensAreOld /\ CommandsBar /\ StatusHasOwner
=============================================================================
