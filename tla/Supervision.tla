---------------------------- MODULE Supervision ----------------------------
(***************************************************************************)
(* The supervision half of the session registry                            *)
(* (crates/terminalai-core/src/registry/{mod,lifecycle,output,ingest}.rs). *)
(*                                                                         *)
(* A row of the fleet is launched, queued for an admission slot, prepared  *)
(* by a start worker, given a process, watched by a monitor, stopped by a  *)
(* stop worker, torn down by a teardown worker, restarted by a timer,      *)
(* revived and archived.  Every one of these is a thread of its own.  The  *)
(* registry's state is behind one mutex, so a step here is what a thread   *)
(* does between taking the mutex and giving it back, and the threads'      *)
(* interleavings are the model's.  What keeps a stale thread harmless is   *)
(* the generation it was born with, compared with the row's own.           *)
(***************************************************************************)
EXTENDS Naturals, Sequences, FiniteSets

CONSTANTS
    Session,        \* the ids SessionRegistry::launch can hand out
    Operator,       \* stands for no session in the record of a drain
    Reports,        \* the statuses an agent hook can report
    Caps,           \* the values set_admission gives max_live_sessions
    MaxRestarts,    \* restart::MAX_RESTARTS
    MaxGen,         \* bound: operator revives and window resets stop here
    MaxMatched,     \* bound: sessions whose hooks are matched
    ThreadsFail,    \* BOOLEAN: thread::Builder::spawn may return Err
    StopFails       \* BOOLEAN: the stop ladder may fail to end the process

Quiet == {"Exited", "Queued"}
Live  == {"Unknown", "Starting", "Idle", "Thinking", "Working", "RateLimited",
          "NeedsYou", "AwaitingInput", "NeedsApproval"}
Status == Quiet \cup Live

Phase == {"Queued", "Preparing", "Unknown", "Starting", "TearingDown", "Idle",
          "Working", "AwaitingInput", "NeedsApproval", "RateLimited", "Backoff",
          "Failed", "Resurrectable", "Finished"}

ASSUME ConstantsAssumption ==
    /\ Operator \notin Session
    /\ Reports \subseteq Live \ {"Unknown", "Starting"}
    /\ Caps \subseteq Nat /\ Caps # {}
    /\ MaxRestarts \in Nat /\ MaxGen \in Nat /\ MaxMatched \in Nat
    /\ {ThreadsFail, StopFails} \subseteq BOOLEAN

VARIABLES
    used,       \* ids handed out: the ids below State::next_id
    entries,    \* the ids with a row
    row,        \* Entry of each id (Blank without one)
    queue,      \* State::queue, the rows waiting for a slot
    cap,        \* AdmissionConfig::max_live_sessions
    starters,   \* start workers, and callers left with a thread they could not spawn
    procs,      \* agent processes running in the operating system
    monitors,   \* monitor threads, one per accepted process
    stoppers,   \* stop workers climbing the stop ladder for a kill
    closers,    \* and those that climb it for the daemon's shutdown
    teardowns,  \* teardown workers
    drains,     \* threads inside drain_queue
    timers,     \* restarts waiting in the scheduler's heap
    spoken,     \* sessions a process of which has run, so may have posted hooks
    matched,    \* sessions hooks have been matched with, one more of which may
                \* be applied at any time
    killed      \* history: rows told to stop, by a kill that was answered with
                \* success or by the shutdown, and not revived since

vars == <<used, entries, row, queue, cap, starters, procs, monitors, stoppers,
          closers, teardowns, drains, timers, spoken, matched, killed>>

-----------------------------------------------------------------------------
(* Rows.  A process is named by its row and the generation it was started  *)
(* for; pty is that generation while the row owns the process, else 0.     *)

Blank == [status |-> "Starting", phase |-> "Starting", gen |-> 1, stop |-> FALSE,
          torn |-> TRUE, pty |-> 0, restarts |-> 0, resume |-> FALSE]

\* Session::set_status_at: the phase a status brings with it.
PhaseOf(st) ==
    CASE st \in {"Thinking", "Working"}       -> "Working"
      [] st \in {"NeedsYou", "AwaitingInput"} -> "AwaitingInput"
      [] st = "Exited"                        -> "Resurrectable"
      [] OTHER                                -> st

SetStatus(r, st) == [r EXCEPT !.status = st, !.phase = PhaseOf(st)]
Report(r, st) == IF r.status = st THEN r ELSE SetStatus(r, st)

NextGen(r) == [r EXCEPT !.gen = @ + 1]
Prepare(r) == [SetStatus(NextGen(r), "Starting") EXCEPT !.phase = "Preparing"]

\* Fault: a retired row keeps the status of the run it was in.
RetireFault(r) == [NextGen(r) EXCEPT !.phase = "Resurrectable"]

Retire(r)  == SetStatus(NextGen(r), "Exited")

\* restart::decide, applied by Session::schedule_restart_at_from.  finished:
\* the exit code says the agent ended on purpose; long: it ran a full window.
Decide(r, finished, long) ==
    LET spent == IF long THEN 0 ELSE r.restarts
        phase == IF finished THEN "Finished"
                 ELSE IF spent >= MaxRestarts THEN "Failed" ELSE "Backoff"
    IN  [r EXCEPT !.status = "Exited", !.phase = phase,
                  !.restarts = IF phase = "Backoff" THEN spent + 1 ELSE spent]

\* SessionStatus::is_live and occupies_admission_slot; admission_block with
\* the slot cap alone (the spend and memory ceilings are not modelled here).
IsLive(s) == s \in entries /\ row[s].status \in Live
HoldsSlot(s) == IsLive(s) /\ row[s].status # "RateLimited"

\* Fault: the gate lets one more in than the cap.
FullFault == Cardinality({s \in Session : HoldsSlot(s)}) > cap

Full == Cardinality({s \in Session : HoldsSlot(s)}) >= cap

Current(s, g) == s \in entries /\ row[s].gen = g

-----------------------------------------------------------------------------
(* Threads. *)

\* start_entry: a worker, or a caller ("via") that must undo the start.
Worker(s, g, via) ==
    {[id |-> s, gen |-> g, at |-> at] :
        at \in {"setup"} \cup (IF ThreadsFail THEN {via} ELSE {})}

\* Fault: the worker is handed the generation the row had before the start.
StartFault(s, g, via) == \E w \in Worker(s, g - 1, via) : starters' = starters \cup {w}

Start(s, g, via) == \E w \in Worker(s, g, via) : starters' = starters \cup {w}
Move(w, at) == starters' = (starters \ {w}) \cup {[w EXCEPT !.at = at]}

\* A call of drain_queue by somebody with nothing left to do afterwards.  Two
\* of these are one: each turn of the loop is a critical section of its own,
\* and a drain that is under way sees what another would.
Drain == drains' = drains \cup {[id |-> Operator, gen |-> 0]}

\* Fault: the restart is scheduled for the generation that has just exited.
CompleteProcessExitFault(s, g, restart) ==
    IF restart THEN drains' = drains \cup {[id |-> s, gen |-> g - 1]} ELSE Drain

\* Fault: an exit that earns no restart leaves the queue alone.
CompleteProcessExitUndrained(s, g, restart) ==
    IF restart THEN drains' = drains \cup {[id |-> s, gen |-> g]}
               ELSE UNCHANGED drains

\* The drain of complete_process_exit, which has a restart to schedule after it.
CompleteProcessExit(s, g, restart) ==
    IF restart THEN drains' = drains \cup {[id |-> s, gen |-> g]} ELSE Drain

\* Fault: the exit leaves the dead process on the row.
AfterExitKeepsProcess(r, finished, long) ==
    IF r.stop THEN SetStatus(NextGen(r), "Exited") ELSE Decide(NextGen(r), finished, long)

\* The row once its process is reported gone: an exit the operator asked for
\* earns no restart.
AfterExit(r, finished, long) ==
    LET gone == [NextGen(r) EXCEPT !.pty = 0, !.stop = FALSE]
    IN  IF r.stop THEN SetStatus(gone, "Exited") ELSE Decide(gone, finished, long)

\* mark_process_exit for a report by the monitor or a stop worker of process
\* <<s, g>>.  The teardown worker carries the new generation and the phase to
\* restore; without a teardown the caller goes on to complete_process_exit.
MarkProcessExit(s, g, finished, long) ==
    IF ~Current(s, g) THEN UNCHANGED <<row, teardowns, drains>>
    ELSE LET out == AfterExit(row[s], finished, long)
         IN  IF row[s].torn
             THEN /\ row' = [row EXCEPT ![s] = out]
                  /\ CompleteProcessExit(s, g + 1, out.phase = "Backoff")
                  /\ UNCHANGED teardowns
             ELSE /\ row' = [row EXCEPT ![s] =
                                [out EXCEPT !.torn = TRUE, !.phase = "TearingDown"]]
                  /\ teardowns' = teardowns \cup
                        {[id |-> s, gen |-> g + 1, final |-> out.phase]}
                  /\ UNCHANGED drains

\* restart_spawn_failed: no process died, but the attempt is spent.
RestartSpawnFailed(s, g) ==
    IF ~Current(s, g) THEN UNCHANGED <<row, timers>>
    ELSE LET out == Decide(NextGen(row[s]), FALSE, FALSE)
         IN  /\ row' = [row EXCEPT ![s] = out]
             /\ timers' = IF out.phase = "Backoff"
                          THEN timers \cup {<<s, g + 1>>} ELSE timers

-----------------------------------------------------------------------------
(* The operator's requests. *)

\* The gate decides in the same critical section that creates the row.
Launch(s) ==
    /\ s \notin used
    /\ used' = used \cup {s}
    /\ entries' = entries \cup {s}
    /\ IF Full
       THEN /\ row' = [row EXCEPT ![s] = SetStatus(Blank, "Queued")]
            /\ queue' = Append(queue, s)
            /\ UNCHANGED starters
       ELSE /\ row' = [row EXCEPT ![s] = [Blank EXCEPT !.phase = "Preparing"]]
            /\ Start(s, 1, "launch")
            /\ UNCHANGED queue
    /\ UNCHANGED <<cap, procs, monitors, stoppers, closers, teardowns, drains,
                   timers, spoken, matched, killed>>

\* Fault: a row can be revived over the process it owns.
RevivableFault(s) ==
    /\ s \in entries /\ row[s].resume
    /\ row[s].phase \notin {"Preparing", "Starting", "TearingDown"}

Revivable(s) ==
    /\ s \in entries
    /\ row[s].pty = 0
    /\ row[s].phase \notin {"Preparing", "Starting", "TearingDown"}
    /\ row[s].resume

Revive(s) ==
    /\ Revivable(s)
    /\ row[s].gen < MaxGen
    /\ LET r == [row[s] EXCEPT !.stop = FALSE]
       IN  IF Full
           THEN /\ row' = [row EXCEPT ![s] = SetStatus(NextGen(r), "Queued")]
                /\ queue' = Append(queue, s)
                /\ UNCHANGED starters
           ELSE /\ row' = [row EXCEPT ![s] = [Prepare(r) EXCEPT !.restarts = 0]]
                /\ Start(s, r.gen + 1, "revive")
                /\ UNCHANGED queue
    /\ killed' = killed \ {s}
    /\ UNCHANGED <<used, entries, cap, procs, monitors, stoppers, closers,
                   teardowns, drains, timers, spoken, matched>>

\* VecDeque::retain: every place s has in q is gone, the order of the rest kept.
Without(q, s) ==
    LET kept[i \in 0..Len(q)] == IF i = 0 THEN <<>>
                                 ELSE IF q[i] = s THEN kept[i-1]
                                 ELSE Append(kept[i-1], q[i])
    IN  kept[Len(q)]

\* kill, while the row owns a process: the ladder runs on a stop worker.  A
\* caller that cannot spawn one kills the process itself, and takes the
\* request back if even that fails.
KillProcess(s) ==
    /\ s \in entries /\ row[s].pty # 0
    /\ \/ /\ row' = [row EXCEPT ![s].stop = TRUE, ![s].phase = "TearingDown"]
          /\ stoppers' = stoppers \cup {<<s, row[s].gen>>}
          /\ killed' = killed \cup {s}
       \/ /\ ThreadsFail /\ StopFails
          /\ row' = [row EXCEPT ![s].stop = FALSE, ![s].phase = "TearingDown"]
          /\ killed' = killed \ {s}
          /\ UNCHANGED stoppers
    /\ UNCHANGED <<used, entries, queue, cap, starters, procs, monitors,
                   closers, teardowns, drains, timers, spoken, matched>>

\* kill, while the row is on its way up without a process.
KillPending(s) ==
    /\ s \in entries /\ row[s].pty = 0
    /\ \/ row[s].phase \in {"Preparing", "Starting", "Backoff"}
       \/ row[s].status = "Queued"
    /\ row' = [row EXCEPT ![s] = Retire([@ EXCEPT !.stop = TRUE])]
    /\ queue' = IF /\ row[s].status = "Queued"
                   /\ row[s].phase \notin {"Preparing", "Starting"}
                THEN Without(queue, s) ELSE queue
    /\ Drain
    /\ killed' = killed \cup {s}
    /\ UNCHANGED <<used, entries, cap, starters, procs, monitors, stoppers,
                   closers, teardowns, timers, spoken, matched>>

\* kill, with nothing to stop: answers Missing, and leaves its flag behind.
KillNothing(s) ==
    /\ s \in entries /\ row[s].pty = 0
    /\ row[s].phase \notin {"Preparing", "Starting", "Backoff"}
    /\ row[s].status # "Queued"
    /\ row' = [row EXCEPT ![s].stop = TRUE]
    /\ UNCHANGED <<used, entries, queue, cap, starters, procs, monitors,
                   stoppers, closers, teardowns, drains, timers, spoken,
                   matched, killed>>

\* Fault: the row is not looked at again after its worktree was released.
ArchivableFault(s) == s \in entries

\* archive: refused only while the row owns a process.
Archivable(s) == s \in entries /\ row[s].pty = 0

Archive(s) ==
    /\ Archivable(s)
    /\ entries' = entries \ {s}
    /\ row' = [row EXCEPT ![s] = Blank]
    /\ queue' = Without(queue, s)
    /\ Drain
    /\ killed' = killed \ {s}
    /\ UNCHANGED <<used, cap, starters, procs, monitors, stoppers, closers,
                   teardowns, timers, spoken, matched>>

SetAdmission ==
    /\ cap' \in Caps \ {cap}
    /\ Drain
    /\ UNCHANGED <<used, entries, row, queue, starters, procs, monitors,
                   stoppers, closers, teardowns, timers, spoken, matched,
                   killed>>

\* Fault: the rows that wait for a slot or a restart are not told.
ShutdownFault ==
    /\ entries # {} /\ closers = {}
    /\ LET running == {s \in entries : row[s].pty # 0}
       IN  /\ row' = [s \in Session |-> IF s \in running THEN [row[s] EXCEPT !.stop = TRUE]
                                                       ELSE row[s]]
           /\ closers' = {<<s, row[s].gen>> : s \in running}
    /\ killed' = killed \cup entries
    /\ UNCHANGED <<used, entries, queue, cap, starters, procs, monitors,
                   stoppers, teardowns, drains, timers, spoken, matched>>

\* shutdown: every row is told to stop, and every process gets a stop worker of
\* its own.  The queue, the timers and the threads under way are left to find
\* the flag.  The caller joins the workers and then ends the daemon; a registry
\* that is not dropped goes on, and may then be shut down again.
Shutdown ==
    /\ entries # {} /\ closers = {}
    /\ row' = [s \in Session |-> IF s \in entries THEN [row[s] EXCEPT !.stop = TRUE]
                                                ELSE row[s]]
    /\ closers' = {<<s, row[s].gen>> : s \in {t \in entries : row[t].pty # 0}}
    /\ killed' = killed \cup entries
    /\ UNCHANGED <<used, entries, queue, cap, starters, procs, monitors,
                   stoppers, teardowns, drains, timers, spoken, matched>>

-----------------------------------------------------------------------------
(* The start worker: prepare_and_start, then finish_start_failure if it    *)
(* returned an error.                                                      *)

\* The row's setup hook, the lease before it, and the worktree before that.
\* A failure from the lease on runs the environment teardown before returning.
SetupFails(w) ==
    /\ w \in starters /\ w.at = "setup"
    /\ \E at \in {"unwind", "failed"} : Move(w, at)
    /\ UNCHANGED <<used, entries, row, queue, cap, procs, monitors, stoppers,
                   closers, teardowns, drains, timers, spoken, matched,
                   killed>>

\* start_is_current, in a critical section of its own.
StartIsCurrent(w) ==
    /\ w \in starters /\ w.at = "setup"
    /\ Move(w, IF /\ Current(w.id, w.gen)
                  /\ ~row[w.id].stop
                  /\ row[w.id].phase = "Preparing"
               THEN "cleared" ELSE "unwind")
    /\ UNCHANGED <<used, entries, row, queue, cap, procs, monitors, stoppers,
                   closers, teardowns, drains, timers, spoken, matched,
                   killed>>

\* spawn_pty, outside the lock: whatever has become of the row since.
SpawnPty(w) ==
    /\ w \in starters /\ w.at = "cleared"
    /\ \/ /\ Move(w, "spawned")
          /\ procs' = procs \cup {<<w.id, w.gen>>}
          /\ spoken' = spoken \cup {w.id}
       \/ Move(w, "unwind") /\ UNCHANGED <<procs, spoken>>
    /\ UNCHANGED <<used, entries, row, queue, cap, monitors, stoppers, closers,
                   teardowns, drains, timers, matched, killed>>

\* The registration of the process under the lock, and the monitor it earns;
\* a monitor thread that cannot be spawned is not reported.
Accept(w) ==
    /\ w \in starters /\ w.at = "spawned"
    /\ IF /\ Current(w.id, w.gen)
          /\ row[w.id].pty = 0
          /\ ~row[w.id].stop
          /\ row[w.id].status = "Starting"
       THEN /\ row' = [row EXCEPT ![w.id] =
                          [SetStatus(@, "Starting") EXCEPT !.pty = w.gen, !.torn = FALSE]]
            /\ starters' = starters \ {w}
            /\ \/ monitors' = monitors \cup {<<w.id, w.gen>>}
               \/ ThreadsFail /\ UNCHANGED monitors
            /\ UNCHANGED procs
       ELSE /\ procs' = procs \ {<<w.id, w.gen>>}
            /\ Move(w, "unwind")
            /\ UNCHANGED <<row, monitors>>
    /\ UNCHANGED <<used, entries, queue, cap, stoppers, closers, teardowns,
                   drains, timers, spoken, matched, killed>>

FinishStartFailure(w) ==
    /\ w \in starters /\ w.at \in {"unwind", "failed"}
    /\ starters' = starters \ {w}
    /\ IF /\ Current(w.id, w.gen)
          /\ ~row[w.id].stop /\ row[w.id].pty = 0
          /\ row[w.id].phase = "Preparing"
       THEN /\ row' = [row EXCEPT ![w.id] = [SetStatus(@, "Exited") EXCEPT !.phase = "Failed"]]
            /\ Drain
       ELSE UNCHANGED <<row, drains>>
    /\ UNCHANGED <<used, entries, queue, cap, procs, monitors, stoppers,
                   closers, teardowns, timers, spoken, matched, killed>>

\* start_entry returned Err to its caller: launch removes the row, revive and
\* drain_queue retire it, and the latter takes its next turn; restart spends
\* another attempt.
UndoStart(w) ==
    /\ w \in starters /\ w.at \in {"launch", "revive", "drain", "restart"}
    /\ starters' = starters \ {w}
    /\ CASE w.at = "launch" ->
              /\ entries' = entries \ {w.id}
              /\ row' = [row EXCEPT ![w.id] = Blank]
              /\ killed' = killed \ {w.id}
              /\ UNCHANGED <<timers, drains>>
         [] w.at \in {"revive", "drain"} ->
              /\ row' = IF Current(w.id, w.gen)
                        THEN [row EXCEPT ![w.id] = SetStatus(@, "Exited")] ELSE row
              /\ IF w.at = "drain" THEN Drain
                                   ELSE UNCHANGED drains
              /\ UNCHANGED <<entries, timers, killed>>
         [] w.at = "restart" ->
              /\ RestartSpawnFailed(w.id, w.gen)
              /\ UNCHANGED <<entries, killed, drains>>
    /\ UNCHANGED <<used, queue, cap, procs, monitors, stoppers, closers,
                   teardowns, spoken, matched>>

-----------------------------------------------------------------------------
(* Exits. *)

\* The agent ends: on its own, or because the stop ladder asked it to.
ProcessEnds(p) ==
    /\ p \in procs
    /\ procs' = procs \ {p}
    /\ UNCHANGED <<used, entries, row, queue, cap, starters, monitors,
                   stoppers, closers, teardowns, drains, timers, spoken,
                   matched, killed>>

\* wait_for_exit, or the poll it falls back to, returns.
MonitorReports(p, finished, long) ==
    /\ p \in monitors /\ p \notin procs
    /\ long => p[2] < MaxGen
    /\ monitors' = monitors \ {p}
    /\ MarkProcessExit(p[1], p[2], finished, long)
    /\ UNCHANGED <<used, entries, queue, cap, starters, procs, stoppers,
                   closers, timers, spoken, matched, killed>>

\* poll_until_exit could not query the process: mark_process_unknown.
MonitorLosesSight(p) ==
    /\ p \in monitors /\ Current(p[1], p[2])
    /\ row[p[1]].status # "Unknown"
    /\ row' = [row EXCEPT ![p[1]] = SetStatus(@, "Unknown")]
    /\ UNCHANGED <<used, entries, queue, cap, starters, procs, monitors,
                   stoppers, closers, teardowns, drains, timers, spoken,
                   matched, killed>>

\* The stop worker.  After a graceful end it leaves the report to the monitor.
StopGraceful(p) ==
    /\ p \in stoppers /\ p \notin procs
    /\ stoppers' = stoppers \ {p}
    /\ UNCHANGED <<used, entries, row, queue, cap, starters, procs, monitors,
                   closers, teardowns, drains, timers, spoken, matched,
                   killed>>

\* The last rung killed the process, or failed to; the exit is reported with
\* no code either way.
StopByForce(p) ==
    /\ p \in stoppers /\ p \in procs
    /\ stoppers' = stoppers \ {p}
    /\ \/ procs' = procs \ {p}
       \/ StopFails /\ UNCHANGED procs
    /\ MarkProcessExit(p[1], p[2], FALSE, FALSE)
    /\ UNCHANGED <<used, entries, queue, cap, starters, monitors, closers,
                   timers, spoken, matched, killed>>

\* The shutdown's stop worker reports the exit however the ladder ended; so
\* does the caller, which kills the process itself, if it cannot be spawned.
ShutdownStops(p) ==
    /\ p \in closers
    /\ closers' = closers \ {p}
    /\ \/ procs' = procs \ {p}
       \/ StopFails /\ UNCHANGED procs
    /\ MarkProcessExit(p[1], p[2], FALSE, FALSE)
    /\ UNCHANGED <<used, entries, queue, cap, starters, monitors, stoppers,
                   timers, spoken, matched, killed>>

\* The teardown worker: finish_teardown, which restores the phase only of a
\* row that is still TearingDown at the worker's generation, and without that
\* returns before complete_process_exit.
FinishTeardown(t) ==
    /\ t \in teardowns
    /\ teardowns' = teardowns \ {t}
    /\ IF Current(t.id, t.gen) /\ row[t.id].phase = "TearingDown"
       THEN /\ row' = [row EXCEPT ![t.id].phase = t.final]
            /\ CompleteProcessExit(t.id, t.gen, t.final = "Backoff")
       ELSE UNCHANGED <<row, drains>>
    /\ UNCHANGED <<used, entries, queue, cap, starters, procs, monitors,
                   stoppers, closers, timers, spoken, matched, killed>>

-----------------------------------------------------------------------------
(* Starts nobody asked for just now. *)

\* One turn of drain_queue's loop.
DrainOne(d) ==
    /\ d \in drains /\ ~Full /\ queue # <<>>
    /\ queue' = Tail(queue)
    /\ LET s == Head(queue)
       IN  IF s \in entries /\ row[s].status = "Queued"
           THEN /\ row' = [row EXCEPT ![s] = Prepare(@)]
                /\ Start(s, row[s].gen + 1, "drain")
           ELSE UNCHANGED <<row, starters>>
    /\ UNCHANGED <<used, entries, cap, procs, monitors, stoppers, closers,
                   teardowns, drains, timers, spoken, matched, killed>>

\* drain_queue returns; complete_process_exit goes on to schedule_restart.
DrainReturns(d) ==
    /\ d \in drains /\ (Full \/ queue = <<>>)
    /\ drains' = drains \ {d}
    /\ timers' = IF d.id # Operator THEN timers \cup {<<d.id, d.gen>>} ELSE timers
    /\ UNCHANGED <<used, entries, row, queue, cap, starters, procs, monitors,
                   stoppers, closers, teardowns, spoken, matched, killed>>

\* A restart comes due.
RestartDue(t) ==
    LET s == t[1] IN
    /\ t \in timers
    /\ IF /\ Current(s, t[2]) /\ row[s].pty = 0
          /\ ~row[s].stop /\ row[s].phase = "Backoff"
       THEN IF Full
            THEN /\ LET out == Decide(NextGen(row[s]), FALSE, FALSE)
                    IN  /\ row' = [row EXCEPT ![s] = out]
                        /\ timers' = (timers \ {t}) \cup
                              (IF out.phase = "Backoff" THEN {<<s, t[2] + 1>>} ELSE {})
                 /\ UNCHANGED starters
            ELSE /\ row' = [row EXCEPT ![s] = Prepare(@)]
                 /\ timers' = timers \ {t}
                 /\ Start(s, t[2] + 1, "restart")
       ELSE timers' = timers \ {t} /\ UNCHANGED <<row, starters>>
    /\ UNCHANGED <<used, entries, queue, cap, procs, monitors, stoppers,
                   closers, teardowns, drains, spoken, matched, killed>>

-----------------------------------------------------------------------------
(* What the agent says. *)

\* handle_output, from the reader thread spawn starts: its generation check
\* admits the current generation's bytes, before registration too.
HandleOutput(s) ==
    /\ s \in entries /\ row[s].status = "Starting"
    /\ \/ row[s].pty # 0
       \/ [id |-> s, gen |-> row[s].gen, at |-> "spawned"] \in starters
    /\ row' = [row EXCEPT ![s] = Report(@, "Idle")]
    /\ UNCHANGED <<used, entries, queue, cap, starters, procs, monitors,
                   stoppers, closers, teardowns, drains, timers, spoken,
                   matched, killed>>

\* apply_hook_from_at's first critical section.  A hook is posted by a process
\* of the row, or by a child one left behind, and matched by the resume id the
\* row has learnt, in any status, or by its folder while the row is live.
\* Hooks come on connections of their own: one that has been matched may be
\* followed by any number of others, so nothing is ever taken from matched.
MatchHook(s) ==
    /\ s \in entries \cap spoken /\ s \notin matched
    /\ Cardinality(matched) < MaxMatched
    /\ row[s].resume \/ IsLive(s)
    /\ matched' = matched \cup {s}
    /\ UNCHANGED <<used, entries, row, queue, cap, starters, procs, monitors,
                   stoppers, closers, teardowns, drains, timers, spoken, killed>>

\* Its second: the hook is applied to the row as it now is, if it is there.
ApplyHook(s, st) ==
    /\ s \in entries \cap matched
    /\ row[s].status # st
    /\ row' = [row EXCEPT ![s] = Report(@, st)]
    /\ UNCHANGED <<used, entries, queue, cap, starters, procs, monitors,
                   stoppers, closers, teardowns, drains, timers, spoken,
                   matched, killed>>

\* The SessionStart hook tells the row its resume id.
SessionStart(s) ==
    /\ s \in entries \cap matched /\ ~row[s].resume
    /\ row' = [row EXCEPT ![s].resume = TRUE]
    /\ UNCHANGED <<used, entries, queue, cap, starters, procs, monitors,
                   stoppers, closers, teardowns, drains, timers, spoken,
                   matched, killed>>

-----------------------------------------------------------------------------
\* from_store: every restored row is Exited, whatever it was; nothing runs.
Restored == [status : {"Exited"}, phase : {PhaseOf("Exited")}, gen : {1}, stop : {FALSE},
             torn : {TRUE}, pty : {0}, restarts : 0..MaxRestarts, resume : BOOLEAN]

Init ==
    \E restored \in SUBSET Session :
        /\ used = restored /\ entries = restored
        /\ row \in [Session -> {Blank} \cup Restored]
        /\ \A s \in Session : s \in restored <=> row[s] # Blank
        /\ queue = <<>>
        /\ cap \in Caps
        /\ starters = {} /\ procs = {} /\ monitors = {}
        /\ stoppers = {} /\ closers = {}
        /\ teardowns = {} /\ drains = {} /\ timers = {}
        /\ spoken = restored /\ matched = {} /\ killed = {}

Request(s) == \/ Launch(s) \/ Revive(s) \/ Archive(s)
              \/ KillProcess(s) \/ KillPending(s) \/ KillNothing(s)

Agent(s) == \/ HandleOutput(s) \/ MatchHook(s) \/ SessionStart(s)
            \/ \E st \in Reports : ApplyHook(s, st)

StartWorker(w) == SetupFails(w) \/ StartIsCurrent(w) \/ SpawnPty(w) \/ Accept(w)
                  \/ FinishStartFailure(w) \/ UndoStart(w)
Monitor(p) == \/ MonitorLosesSight(p)
              \/ \E finished, long \in BOOLEAN : MonitorReports(p, finished, long)
StopWorker(p) == StopGraceful(p) \/ StopByForce(p)
Drainer(d) == DrainOne(d) \/ DrainReturns(d)

Next ==
    \/ \E s \in Session : Request(s) \/ Agent(s)
    \/ SetAdmission \/ Shutdown
    \/ \E w \in starters : StartWorker(w)
    \/ \E p \in procs : ProcessEnds(p)
    \/ \E p \in monitors : Monitor(p)
    \/ \E p \in stoppers : StopWorker(p)
    \/ \E p \in closers : ShutdownStops(p)
    \/ \E t \in teardowns : FinishTeardown(t)
    \/ \E d \in drains : Drainer(d)
    \/ \E t \in timers : RestartDue(t)

Spec == Init /\ [][Next]_vars
-----------------------------------------------------------------------------
(* Properties. *)

Row == [status : Status, phase : Phase, gen : Nat \ {0}, stop : BOOLEAN,
        torn : BOOLEAN, pty : Nat, restarts : Nat, resume : BOOLEAN]
Proc == Session \X Nat
Starter == [id : Session, gen : Nat,
            at : {"setup", "cleared", "spawned", "unwind", "failed",
                  "launch", "revive", "drain", "restart"}]
Teardown == [id : Session, gen : Nat, final : Phase]
Draining == [id : Session \cup {Operator}, gen : Nat]

\* Every variable has its type, the queue's order apart.
TypeOK ==
    /\ used \subseteq Session /\ entries \subseteq used /\ killed \subseteq used
    /\ row \in [Session -> Row]
    /\ cap \in Nat
    /\ starters \subseteq Starter
    /\ procs \subseteq Proc /\ monitors \subseteq Proc
    /\ stoppers \subseteq Proc /\ closers \subseteq Proc
    /\ teardowns \subseteq Teardown /\ drains \subseteq Draining
    /\ timers \subseteq Proc
    /\ spoken \subseteq Session /\ matched \subseteq spoken

\* A running agent is never out of the supervisor's hands: its row owns it, or
\* the start worker that spawned it has yet to register or reject it.
ProcessOwned ==
    \A p \in procs :
        \/ p[1] \in entries /\ row[p[1]].pty = p[2]
        \/ [id |-> p[1], gen |-> p[2], at |-> "spawned"] \in starters

\* While a row owns a process, the row's generation is the process's: no kill,
\* revive, restart or drain outdates the monitor that must report its exit.
\* And exactly the rows that own a process owe an environment teardown.
OwnershipIsCurrent ==
    \A s \in entries :
        /\ row[s].pty \in {0, row[s].gen}
        /\ row[s].torn <=> row[s].pty = 0

\* A row in a phase it cannot leave by itself has a thread that will move it
\* on: a start worker of its generation, a process or a teardown worker, a
\* restart timer or a thread about to set one, a place in the queue.
NobodyIsForgotten ==
    \A s \in entries :
        /\ row[s].phase = "Preparing" /\ ~row[s].stop =>
              \E w \in starters : w.id = s /\ w.gen = row[s].gen
        /\ row[s].phase = "TearingDown" =>
              \/ row[s].pty # 0
              \/ \E t \in teardowns : t.id = s /\ t.gen = row[s].gen
        /\ row[s].phase = "Backoff" /\ ~row[s].stop =>
              \/ <<s, row[s].gen>> \in timers
              \/ \E d \in drains : d.id = s /\ d.gen = row[s].gen
        /\ row[s].status = "Queued" => \E i \in DOMAIN queue : queue[i] = s

\* A row told to stop, by a successful kill or by the shutdown, gets no process
\* until the operator revives it: no timer, drain, start or stop worker already
\* under way has one registered.  A start that had been found current before the
\* stop may still spawn one, which its worker rejects and kills; no start is
\* found current after it.
StaysDown ==
    \A s \in killed \cap killed' :
        /\ \A w \in starters' \ starters : w.id = s => w.at # "cleared"
        /\ s \in entries' => row'[s].pty \in {0, row[s].pty}

KillSticks == [][StaysDown]_vars

\* SessionStatus::is_live promises a process behind the row; a row that is
\* being prepared is the one exception the supervisor makes.
Backed(s) == IsLive(s) => row[s].pty # 0 \/ row[s].phase = "Preparing"

\* The promise is the supervisor's to keep, and it does: whatever exits, kills,
\* failures and restarts do to a row, none leaves it live without a process.
\* Only a signal of the agent's does, which is matched, or sent, before the
\* process is gone or has been registered, and is applied to the row as it is.
LiveHasProcess == [][\A s \in Session : Backed(s) /\ ~Backed(s)' => Agent(s)]_vars

\* SessionStatus::is_live's own words, read as an invariant.
LiveIsBacked == \A s \in Session : Backed(s)

\* A Queued row waits only while the cap's worth of rows are live, or while a
\* thread that will drain the queue is under way.
Served ==
    (\E s \in entries : row[s].status = "Queued") =>
        \/ Cardinality({s \in Session : IsLive(s)}) >= cap
        \/ drains # {}
        \/ \E t \in teardowns : Current(t.id, t.gen)

\* The steps that give a slot back and drain nothing: a launch, a revival or a
\* restart is taken back, for its thread could not be spawned; and where a signal
\* has made a row live that has no process, the end of its teardown, which finds
\* the row no longer tearing down, and its revival.
Undrained ==
    \/ \E w \in starters : UndoStart(w) /\ w.at # "drain"
    \/ \E t \in teardowns : FinishTeardown(t) /\ ~Backed(t.id)
    \/ \E s \in Session : Revive(s) /\ ~Backed(s)

\* No other step leaves the queue waiting for a slot that is free.
QueueIsServed == [][Served => Served' \/ Undrained]_vars

\* The same without counting rate-limited rows, which hold no slot.
FreedSlotIsServed ==
    (\E s \in entries : row[s].status = "Queued") =>
        Full \/ drains # {} \/ \E t \in teardowns : Current(t.id, t.gen)

Held == Cardinality({s \in Session : HoldsSlot(s)})

\* No step takes the fleet over its cap, but for an agent whose rate limit
\* clears: it resumes the slot it gave up, taken by somebody else or not; and
\* for a signal that finds its row ended or queued, and makes it live.
NoOvercommit ==
    [][ Held' > Held =>
          \/ Held' <= cap
          \/ \E s \in Session : row[s].status = "RateLimited" /\ HoldsSlot(s)'
          \/ \E s \in Session : ~IsLive(s) /\ Agent(s) ]_vars

\* The operating system runs every thread the registry has spawned; threads
\* of one kind are finitely many and each only moves on, so fairness to the
\* kind is fairness to the thread.  Nothing is assumed of operators, of
\* agents, or of how a setup ends.
Fairness ==
    /\ WF_vars(\E w \in starters : StartWorker(w))
    /\ WF_vars(\E p \in monitors, finished, long \in BOOLEAN :
                  MonitorReports(p, finished, long))
    /\ WF_vars(\E p \in stoppers : StopWorker(p))
    /\ WF_vars(\E p \in closers : ShutdownStops(p))
    /\ WF_vars(\E t \in teardowns : FinishTeardown(t))
    /\ WF_vars(\E d \in drains : Drainer(d))
    /\ WF_vars(\E t \in timers : RestartDue(t))

FairSpec == Spec /\ Fairness

\* Preparing a row ends: in a process, in a failure or in a stop.
PreparationEnds ==
    \A s \in Session :
        (s \in entries /\ row[s].phase = "Preparing" /\ ~row[s].stop)
           ~> (s \notin entries \/ row[s].phase # "Preparing" \/ row[s].stop)

\* A row in backoff is restarted, unless a kill raises its stop flag.
BackoffEnds ==
    \A s \in Session :
        (s \in entries /\ row[s].phase = "Backoff" /\ ~row[s].stop)
           ~> (s \notin entries \/ row[s].phase # "Backoff" \/ row[s].stop)

\* schedule_restart promises one automatic restart: a row does not stay in
\* backoff for ever, whatever kill answered in the meantime.
BackoffIsTemporary ==
    \A s \in Session : (s \in entries /\ row[s].phase = "Backoff")
                         ~> (s \notin entries \/ row[s].phase # "Backoff")

\* The row owns a process that a thread is sure to report: the monitor of a
\* killed row, or a stop worker of the shutdown.
BeingStopped(s) ==
    /\ row[s].pty # 0
    /\ \/ s \in killed /\ <<s, row[s].pty>> \in monitors
       \/ <<s, row[s].pty>> \in closers

\* Killing a row gets rid of its process, if a monitor watches it: one whose
\* monitor could not be spawned may end unseen.  The shutdown gets rid of every
\* process it found.
KillTakesEffect ==
    \A s \in Session : BeingStopped(s) ~> row[s].pty = 0
=============================================================================
