---------------------------- MODULE PromptQueue ----------------------------
(***************************************************************************)
(* Prompts waiting their turn on one session                               *)
(* (crates/terminalai-core/src/queue.rs and registry/prompt_queue.rs).     *)
(*                                                                         *)
(* The queue of a session is part of its row, behind the registry's mutex. *)
(* A step here is one critical section of the mutex, or what a thread does *)
(* between two of them.  Threads matter in three places: whoever changes   *)
(* the row's status lets go of the mutex before it calls pump_queue; the   *)
(* pump takes a prompt under the mutex and writes it after letting go; and *)
(* a broadcast is judged under the mutex and written after it.             *)
(***************************************************************************)
EXTENDS Naturals, SequencesExt

CONSTANTS
    MaxPrompts,     \* bound: prompts the operator ever submits
    MaxQueued,      \* queue::MAX_QUEUED
    MaxPumps,       \* bound: threads about to call pump_queue
    MaxCasts,       \* bound: threads with a broadcast to write
    Outputs,        \* BOOLEAN: output may come before the first hook
    Types,          \* BOOLEAN: the operator may type into the focused pane
    Crashes         \* BOOLEAN: the daemon may die

\* What SessionStatus the queue tells apart; Working stands for every status
\* observe has no case for, Starting for that of a process not heard of yet.
Status == {"Starting", "Idle", "Working", "NeedsApproval", "AwaitingInput", "Exited"}

\* PauseReason, and None.
Pause == {"None", "NeedsApproval", "AwaitingInput", "NotRunning", "FocusedAndEdited",
          "Operator", "BudgetExhausted"}

ASSUME BoundsAssumption ==
    /\ MaxPrompts \in Nat /\ MaxQueued \in Nat \ {0} /\ MaxPumps \in Nat \ {0}
    /\ MaxCasts \in Nat
    /\ {Outputs, Types, Crashes} \subseteq BOOLEAN

VARIABLES
    status,     \* Session::status, as the row has it
    running,    \* Entry::pty is there
    spent,      \* Session::budget_exhausted
    queue,      \* PromptQueue::entries, by id
    paused,     \* PromptQueue::paused
    awaiting,   \* PromptQueue::awaiting_pickup
    lastId,     \* PromptQueue::next_id
    focused,    \* State::focused is this session
    edited,     \* State::operator_edited has this session
    pumps,      \* threads about to call pump_queue
    hands,      \* prompts taken from the queue and not written yet
    casts,      \* broadcasts judged eligible and not written yet
    disk,       \* what the store holds of the queue
    fates,      \* history: what became of the prompts that left the queue
    ready       \* history: since the last prompt was taken the row has left
                \* Idle, or the operator has resumed the queue

vars == <<status, running, spent, queue, paused, awaiting, lastId, focused, edited,
          pumps, hands, casts, disk, fates, ready>>

row == <<status, running, spent>>
entries == <<queue, lastId>>
holds == <<paused, awaiting>>
pane == <<focused, edited>>
threads == <<hands, casts>>
-----------------------------------------------------------------------------
(* PromptQueue, under the mutex. *)

\* Fault: an edit's end clears whatever holds the queue.
ClearFocusEditFault(p) == "None"

\* clear_focus_edit and hold_for_focus_edit.
ClearFocusEdit(p) == IF p = "FocusedAndEdited" THEN "None" ELSE p
HoldForFocusEdit(p) == IF p = "None" THEN "FocusedAndEdited" ELSE p

Attention == [NeedsApproval |-> "NeedsApproval", AwaitingInput |-> "AwaitingInput",
              Exited |-> "NotRunning"]

\* Fault: a prompt is taken without waiting for the last one to be picked up.
TakesFault(p) == status = "Idle" /\ p = "None" /\ queue # <<>>

\* observe, when it sends; p is the pause pump_queue has settled before it.
Takes(p) == status = "Idle" /\ p = "None" /\ ~awaiting /\ queue # <<>>

Room == Len(queue) < MaxQueued

\* Where the entry with an id is: ids are unique, so position finds the one
\* that retain drops.
Position(p) == CHOOSE i \in DOMAIN queue : queue[i] = p

\* Fault: the thread is left with the prompt and so is the queue.
PopFault == UNCHANGED queue

Pop == queue' = Tail(queue)

\* One more thread about to pump.
Pump == pumps < MaxPumps /\ pumps' = pumps + 1
Pumped == pumps > 0 /\ pumps' = pumps - 1

-----------------------------------------------------------------------------
(* pump_queue. *)

PumpQueue ==
    LET held == IF focused /\ edited THEN HoldForFocusEdit(paused)
                                     ELSE ClearFocusEdit(paused)
    IN  /\ Pumped
        /\ IF queue = <<>> /\ held = "None"     \* nothing is touched
           THEN paused' = held /\ UNCHANGED <<queue, awaiting, hands, ready>>
           ELSE IF status \in DOMAIN Attention
           THEN paused' = Attention[status] /\ UNCHANGED <<queue, awaiting, hands, ready>>
           ELSE /\ paused' = held
                /\ IF Takes(held)
                   THEN /\ Pop
                        /\ hands' = hands \cup {Head(queue)}
                        /\ awaiting' = TRUE /\ ready' = FALSE
                   ELSE /\ awaiting' = (awaiting /\ status = "Idle")
                        /\ UNCHANGED <<queue, hands, ready>>
        /\ UNCHANGED <<row, lastId, pane, casts, disk, fates>>

\* The write after it: to the process the row has by then, if it has one.
Write(p) ==
    /\ p \in hands
    /\ running
    /\ hands' = hands \ {p}
    /\ fates' = [fates EXCEPT !.delivered = @ \cup {p}]
    /\ UNCHANGED <<row, entries, holds, pane, pumps, casts, disk, ready>>

WriteFails(p) ==
    /\ p \in hands
    /\ hands' = hands \ {p}
    /\ fates' = [fates EXCEPT !.dropped = @ \cup {p}]
    /\ paused' = "NotRunning"
    /\ UNCHANGED <<row, entries, awaiting, pane, pumps, casts, disk, ready>>

-----------------------------------------------------------------------------
(* The operator and the queue. *)

EnqueuePrompt ==
    /\ lastId < MaxPrompts /\ Room
    /\ lastId' = lastId + 1
    /\ queue' = Append(queue, lastId')
    /\ Pump
    /\ UNCHANGED <<row, holds, pane, threads, disk, fates, ready>>

RemoveQueuedPrompt(p) ==
    /\ p \in ToSet(queue)
    /\ queue' = RemoveAt(queue, Position(p))
    /\ fates' = [fates EXCEPT !.withdrawn = @ \cup {p}]
    /\ UNCHANGED <<row, lastId, holds, pane, pumps, threads, disk, ready>>

\* Fault: the prompt is put back without being taken from its old place.
ReorderFault(p, to) ==
    LET place == IF to > Len(queue) THEN Len(queue) ELSE to
    IN  /\ p \in ToSet(queue)
        /\ queue' = InsertAt(queue, place + 1, p)
        /\ UNCHANGED <<row, lastId, holds, pane, pumps, threads, disk, fates, ready>>

ReorderQueuedPrompt(p, to) ==
    LET rest == RemoveAt(queue, Position(p))
        place == IF to > Len(rest) THEN Len(rest) ELSE to
    IN  /\ p \in ToSet(queue)
        /\ queue' = InsertAt(rest, place + 1, p)
        /\ UNCHANGED <<row, lastId, holds, pane, pumps, threads, disk, fates, ready>>

PauseQueue ==
    /\ paused' = "Operator"
    /\ UNCHANGED <<row, entries, awaiting, pane, pumps, threads, disk, fates, ready>>

\* Fault: a resumed queue waits for the next hook.
ResumeQueueFault ==
    /\ paused' = "None" /\ awaiting' = FALSE /\ ready' = TRUE
    /\ UNCHANGED <<row, entries, pane, pumps, threads, disk, fates>>

ResumeQueue ==
    /\ paused' = "None" /\ awaiting' = FALSE /\ ready' = TRUE
    /\ Pump
    /\ UNCHANGED <<row, entries, pane, threads, disk, fates>>

\* poll_transcripts: the session's cost crosses its budget, either way.
ExhaustBudget ==
    /\ ~spent /\ spent' = TRUE
    /\ paused' = "BudgetExhausted"
    /\ UNCHANGED <<status, running, entries, awaiting, pane, pumps, threads, disk, fates, ready>>

RegainBudget ==
    /\ spent /\ spent' = FALSE
    /\ UNCHANGED <<status, running, entries, holds, pane, pumps, threads, disk, fates, ready>>

-----------------------------------------------------------------------------
(* The operator and the pane. *)

\* write_user_input: a line ending is an explicit send, anything else an edit.
TypeInput(send) ==
    /\ Types /\ running
    /\ LET hold == focused /\ ~send
       IN  /\ edited' = hold
           /\ paused' = IF hold THEN HoldForFocusEdit(paused) ELSE ClearFocusEdit(paused)
    /\ UNCHANGED <<row, entries, awaiting, focused, pumps, threads, disk, fates, ready>>

FocusHere ==
    /\ ~focused /\ focused' = TRUE
    /\ UNCHANGED <<row, entries, holds, edited, pumps, threads, disk, fates, ready>>

FocusElsewhere ==
    /\ focused /\ focused' = FALSE /\ edited' = FALSE
    /\ paused' = ClearFocusEdit(paused)
    /\ Pump
    /\ UNCHANGED <<row, entries, awaiting, threads, disk, fates, ready>>

BroadcastJudged ==
    /\ running /\ status # "NeedsApproval" /\ ~spent
    /\ ~(focused /\ edited)
    /\ casts < MaxCasts /\ casts' = casts + 1
    /\ UNCHANGED <<row, entries, holds, pane, pumps, hands, disk, fates, ready>>

BroadcastWritten ==
    /\ casts > 0 /\ casts' = casts - 1
    /\ UNCHANGED <<row, entries, holds, pane, pumps, hands, disk, fates, ready>>

-----------------------------------------------------------------------------
(* The session. *)

\* A stopped row is prepared for a process: revive, or a restart that is due.
Prepare ==
    /\ ~running /\ status = "Exited" /\ status' = "Starting"
    /\ UNCHANGED <<running, spent, entries, holds, pane, pumps, threads, disk, fates, ready>>

\* A start worker registers the process, unless the row has reported itself.
Accept ==
    /\ ~running /\ status = "Starting" /\ running' = TRUE
    /\ UNCHANGED <<status, spent, entries, holds, pane, pumps, threads, disk, fates, ready>>

\* A start gives up, or a row without a process is killed.
StartFails ==
    /\ ~running /\ status # "Exited" /\ status' = "Exited" /\ ready' = TRUE
    /\ UNCHANGED <<running, spent, entries, holds, pane, pumps, threads, disk, fates>>

\* handle_output, from the row's process or one that is being registered.
HandleOutput ==
    /\ Outputs
    /\ running \/ status = "Starting"
    /\ status' = IF status = "Starting" THEN "Idle" ELSE status
    /\ IF status # "Idle"
       THEN edited' = FALSE /\ paused' = ClearFocusEdit(paused)
       ELSE UNCHANGED <<edited, paused>>
    /\ UNCHANGED <<running, spent, entries, awaiting, focused, pumps, threads, disk, fates, ready>>

\* apply_hook_from_at, for a hook that reports st.  Nothing in it asks for the
\* row's process: a hook may come before that is registered or after its exit.
ApplyHook(st) ==
    /\ status' = st
    /\ IF st # "Idle"
       THEN edited' = FALSE /\ paused' = ClearFocusEdit(paused) /\ ready' = TRUE
       ELSE UNCHANGED <<edited, paused, ready>>
    /\ Pump
    /\ UNCHANGED <<running, spent, entries, awaiting, focused, threads, disk, fates>>

\* mark_process_exit.
MarkProcessExit ==
    /\ running /\ running' = FALSE /\ status' = "Exited" /\ ready' = TRUE
    /\ Pump
    /\ UNCHANGED <<spent, entries, holds, pane, threads, disk, fates>>

\* mark_process_unknown: the row is not let go of, and nothing pumps.
MarkProcessUnknown ==
    /\ running /\ status' = "Working" /\ ready' = TRUE
    /\ UNCHANGED <<running, spent, entries, holds, pane, pumps, threads, disk, fates>>

-----------------------------------------------------------------------------
(* The store. *)

Save ==
    /\ Crashes
    /\ disk' = [queue |-> queue, lastId |-> lastId, spent |-> spent]
    /\ UNCHANGED <<row, entries, holds, pane, pumps, threads, fates, ready>>

\* from_store pauses a restored queue, whatever the store says of it.
RestoredPause == "NotRunning"

\* The daemon dies, and from_store rebuilds the row from the last save.
CrashAndRestore ==
    /\ Crashes
    /\ status' = "Exited" /\ running' = FALSE /\ spent' = disk.spent
    /\ queue' = disk.queue /\ lastId' = disk.lastId
    /\ paused' = RestoredPause /\ awaiting' = FALSE
    /\ focused' = FALSE /\ edited' = FALSE
    /\ pumps' = 0 /\ hands' = {} /\ casts' = 0
    /\ ready' = TRUE
    /\ UNCHANGED <<disk, fates>>

-----------------------------------------------------------------------------
Init ==
    /\ status = "Starting" /\ running = FALSE /\ spent = FALSE
    /\ queue = <<>> /\ paused = "None" /\ awaiting = FALSE /\ lastId = 0
    /\ focused = FALSE /\ edited = FALSE
    /\ pumps = 0 /\ hands = {} /\ casts = 0
    /\ disk = [queue |-> <<>>, lastId |-> 0, spent |-> FALSE]
    /\ fates = [delivered |-> {}, dropped |-> {}, withdrawn |-> {}]
    /\ ready = TRUE

Operator ==
    \/ EnqueuePrompt \/ PauseQueue \/ ResumeQueue
    \/ \E p \in ToSet(queue) :
          RemoveQueuedPrompt(p) \/ \E to \in 0..MaxQueued : ReorderQueuedPrompt(p, to)
    \/ \E send \in BOOLEAN : TypeInput(send)
    \/ FocusHere \/ FocusElsewhere
    \/ BroadcastJudged \/ BroadcastWritten

Session ==
    \/ Prepare \/ Accept \/ StartFails
    \/ HandleOutput \/ MarkProcessExit \/ MarkProcessUnknown
    \/ ExhaustBudget \/ RegainBudget
    \/ \E st \in Status \ {"Starting", "Exited"} : ApplyHook(st)

Daemon ==
    \/ PumpQueue
    \/ \E p \in hands : Write(p) \/ WriteFails(p)
    \/ Save \/ CrashAndRestore

Next == Operator \/ Session \/ Daemon

Spec == Init /\ [][Next]_vars
-----------------------------------------------------------------------------
(* Correctness. *)

\* The type invariant, with the queue's limit.
TypeOK ==
    /\ status \in Status /\ paused \in Pause
    /\ {running, spent, awaiting, focused, edited, ready} \subseteq BOOLEAN
    /\ queue \in Seq(1..MaxPrompts) /\ Len(queue) <= MaxQueued
    /\ lastId \in 0..MaxPrompts
    /\ pumps \in 0..MaxPumps /\ casts \in 0..MaxCasts
    /\ hands \subseteq 1..MaxPrompts
    /\ fates \in [{"delivered", "dropped", "withdrawn"} -> SUBSET (1..MaxPrompts)]

\* Every prompt the operator was given an id for is in exactly one place: the
\* queue, once; the hands of one thread; or among the settled.  Nothing is
\* lost or doubled, however removals and reorders race the pumps.
EveryPromptAccounted ==
    LET settled == UNION {fates[f] : f \in DOMAIN fates}
    IN  /\ IsInjective(queue)
        /\ ToSet(queue) \cup hands \cup settled = 1..lastId
        /\ Len(queue) + Cardinality(hands) + Cardinality(fates.delivered)
             + Cardinality(fates.dropped) + Cardinality(fates.withdrawn) = lastId

\* What PromptLife says of each prompt, and no more than one prompt a step.
FateOf(p) ==
    CASE p \in fates.delivered -> "delivered"
      [] p \in fates.dropped -> "dropped"
      [] p \in fates.withdrawn -> "withdrawn"
      [] p \in hands -> "taken"
      [] p \in ToSet(queue) -> "waiting"
      [] OTHER -> "unborn"

Life == INSTANCE PromptLife WITH fate <- [p \in 1..MaxPrompts |-> FateOf(p)]

ImplementsPromptLife == Life!Spec

\* A queue that may send, and nobody on the way to pump_queue: the row is Idle,
\* nothing pauses the queue and no prompt is believed in flight.  The code has
\* no timer, so only the next of the changes that pump sends again.
Unpumped ==
    /\ status = "Idle" /\ queue # <<>> /\ paused = "None" /\ ~awaiting
    /\ pumps = 0

\* Whatever lets a queue send also pumps it, except for two steps: the output
\* that first makes a row Idle, before any hook has, and the submitted line
\* that ends a pause for unsubmitted input.
QueueIsPumped ==
    [][Unpumped' => \/ Unpumped
                    \/ HandleOutput /\ status = "Starting"
                    \/ TypeInput(TRUE) /\ paused = "FocusedAndEdited"]_vars

\* A pause ends because the operator resumes the queue, except the one for
\* unsubmitted input: what ends that one ends no other, and neither does a
\* restart of the session or of the daemon.
PauseIsTheOperators ==
    [][paused \notin {"None", "FocusedAndEdited"} /\ paused' = "None" => ResumeQueue]_vars

\* However hooks, exits and pumps interleave, the queue takes a prompt only if
\* the row has left Idle, or the operator resumed, since it took the last one.
NoBurst == [][hands' \ hands # {} => ready]_vars

-----------------------------------------------------------------------------
(* What the sources say of the queue, and this code does not do. *)

\* "A prompt has been written but the session has not yet left Idle": once the
\* session has left Idle, the hold goes with the next pump.
HoldIsCurrent == awaiting /\ ready => pumps > 0
=============================================================================
