------------------------------ MODULE WorkRun ------------------------------
(***************************************************************************)
(* One prompt run across many projects, and the schedule that repeats it.  *)
(* The window keeps the run and the schedule behind a mutex each and       *)
(* writes each change of them to its file.  The threads that drive a run   *)
(* (the window's commands and the bridge of daemon events, which also sees *)
(* the exits and fires the schedule) hold neither mutex while they talk to *)
(* the daemon, and any number of them may drive one run.                   *)
(*                                                                         *)
(* What a driver learns from outside, the daemon's admission, the state of *)
(* a tree, whether the prompt is still stored, is a choice.  Time counts   *)
(* in intervals of the schedule.                                           *)
(***************************************************************************)
EXTENDS Integers, Sequences

CONSTANTS
    N,             \* projects are 1 .. N, in the order of the run
    MaxSession,    \* bound: sessions the runs may launch
    MaxAsks,       \* bound: commands of the operator
    Commands,      \* threads of the window's commands
    MaxExits,      \* bound: exits on their way to the window
    MaxNow         \* bound: the clock

CONSTANT Bridge    \* the thread of bridge_daemon_events

ASSUME WorkRunAssumption ==
    /\ {N, MaxSession, MaxAsks, MaxExits, MaxNow} \subseteq Nat
    /\ Bridge \notin Commands

Project == 1 .. N
Session == 1 .. MaxSession
Thread == Commands \cup {Bridge}

(* A run has an entry per project.  A project the run is not about is      *)
(* absent, one that failed, was skipped or expired is dropped.             *)
Entry ==
    [kind: {"absent", "pending", "flagged", "dropped"}, session: {0}]
        \cup [kind: {"running", "done"}, session: Session]
Plain(kind) == [kind |-> kind, session |-> 0]
Run == [on: BOOLEAN, entries: [Project -> Entry], paused: BOOLEAN, late: BOOLEAN]
NoRun == [on |-> FALSE, entries |-> [p \in Project |-> Plain("absent")],
          paused |-> FALSE, late |-> FALSE]
Schedule == [on: BOOLEAN, due: Nat, paused: BOOLEAN]
NoSchedule == [on |-> FALSE, due |-> 0, paused |-> FALSE]

VARIABLES
    window,     \* it is open, cut off from the daemon, or closed
    run,        \* WorkRunStore, in memory and on disk
    schedule,   \* WorkScheduleStore, in memory and on disk
    now,        \* the clock
    thread,     \* what each thread is doing, for which project and session
    missed,     \* the firing in hand: occurrences it stands for
    project,    \* the project each session was launched in, 0 if not launched
    live,       \* sessions that have not ended
    exits,      \* events of ended sessions on their way to the bridge
    asks,       \* bounded: commands given
    untold      \* history: occurrences passed and not written down

daemon == <<project, live, exits>>
history == <<asks, untold>>
vars == <<window, run, schedule, now, thread, missed, daemon, history>>

Idle == [at |-> "idle", pick |-> 0, session |-> 0]
Places == {"idle", "turning", "asking", "recording",
           "advancing", "deciding", "starting", "writing"}
Task == [at: Places, pick: 0 .. N, session: 0 .. MaxSession]

TypeOK ==
    /\ window \in {"open", "cut", "closed"}
    /\ run \in Run
    /\ schedule \in Schedule
    /\ now \in 0 .. MaxNow
    /\ thread \in [Thread -> Task]
    /\ missed \in Nat
    /\ project \in [Session -> 0 .. N]
    /\ live \subseteq Session
    /\ exits \in Seq(Session)
    /\ asks \in 0 .. MaxAsks
    /\ untold \in Int

-----------------------------------------------------------------------------
(* WorkQueue: the run as a value.                                          *)

Pending(r) == {p \in Project : r.entries[p].kind = "pending"}
Finished(r) == \A p \in Project : r.entries[p].kind \notin {"pending", "running"}

\* next_pending, of a run that is not paused: the first in the run's order, or 0.
NextPending(r) ==
    IF Pending(r) = {} THEN {0}
    ELSE {p \in Pending(r) : \A q \in Pending(r) : p <= q}

NewRun(projects) ==
    [on |-> TRUE, paused |-> FALSE, late |-> FALSE,
     entries |-> [p \in Project |-> Plain(IF p \in projects THEN "pending" ELSE "absent")]]

ExpiredFault(r) == r

\* expire_stale, of a run that is past its deadline.
Expired(r) ==
    [r EXCEPT !.entries = [p \in Project |-> IF p \in Pending(r) THEN Plain("dropped")
                                             ELSE r.entries[p]]]

\* set_state: a project the run does not have is an error its callers drop.
SetState(p, entry) ==
    run' = IF run.entries[p].kind = "absent" THEN run
           ELSE [run EXCEPT !.entries[p] = entry]

Running(p, s) == run.entries[p] = [kind |-> "running", session |-> s]

-----------------------------------------------------------------------------
(* drive_work_run_with.                                                    *)

Goes(t, at, pick, s) ==
    thread' = [thread EXCEPT ![t] = [at |-> at, pick |-> pick, session |-> s]]

Steps(t, at) == Goes(t, at, 0, 0)

\* A drive that ends, well or not, on the bridge ends a firing that began it.
Stops(t) == Steps(t, IF t = Bridge /\ missed > 0 THEN "writing" ELSE "idle")

Turns(t) == Steps(t, "turning")

(* The head of the loop.  The run is read and then aged under the mutex    *)
(* again: what another thread does between the two it may as well do       *)
(* after both, for the run this turn goes by is the one that was read.     *)
Turn(t) ==
    /\ thread[t].at = "turning"
    /\ \/ /\ ~run.on \/ run.paused \/ Finished(run)
          /\ Stops(t) /\ UNCHANGED run
       \/ /\ run.on /\ ~run.paused /\ run.late /\ Pending(run) # {}
          /\ run' = Expired(run)
          /\ Turns(t)
       \/ /\ run.on /\ ~run.paused /\ ~Finished(run)
          /\ ~(run.late /\ Pending(run) # {})
          /\ \E p \in NextPending(run) : Goes(t, "asking", p, 0)
          /\ UNCHANGED run
    /\ UNCHANGED <<window, schedule, now, missed, daemon, history>>

Unborn == {s \in Session : project[s] = 0}

(* The daemon admits nothing or does not answer, or the tree is not clean, *)
(* or the prompt is gone or the launch refused, or there is a session.  A  *)
(* launch that is not answered in time is an error here and a session      *)
(* there.  A window that is cut off has no answer to any of its calls.     *)
Ask(t) ==
    /\ thread[t].at = "asking"
    /\ LET p == thread[t].pick IN
       \/ Stops(t) /\ UNCHANGED <<run, project, live>>
       \/ /\ p # 0 /\ window = "open"
          /\ \E kind \in {"flagged", "dropped"} : SetState(p, Plain(kind))
          /\ Turns(t)
          /\ UNCHANGED <<project, live>>
       \/ /\ p # 0 /\ window = "open"
          /\ \E s \in Unborn :
                /\ \A q \in Unborn : s <= q
                /\ project' = [project EXCEPT ![s] = p]
                /\ live' = live \cup {s}
                /\ Goes(t, "recording", p, s) \/ Stops(t)
          /\ UNCHANGED run
    /\ UNCHANGED <<window, schedule, now, missed, exits, history>>

RecordFault(t) ==
    /\ thread[t].at = "recording"
    /\ \E p \in Project : SetState(p, [kind |-> "running", session |-> thread[t].session])
    /\ Turns(t)
    /\ UNCHANGED <<window, schedule, now, missed, daemon, history>>

\* The prompt is put in the session's queue and the entry says so.
Record(t) ==
    /\ thread[t].at = "recording"
    /\ LET p == thread[t].pick  s == thread[t].session IN
       \/ window = "open" /\ SetState(p, [kind |-> "running", session |-> s]) /\ Turns(t)
       \/ window = "open" /\ SetState(p, Plain("dropped")) /\ Turns(t)
       \/ UNCHANGED run /\ Stops(t)
    /\ UNCHANGED <<window, schedule, now, missed, daemon, history>>

-----------------------------------------------------------------------------
(* The window's commands.  Those that go on to drive take a thread.        *)

Asked == window # "closed" /\ asks < MaxAsks /\ asks' = asks + 1
Commanded(t) == Asked /\ t \in Commands /\ thread[t].at = "idle"

StartRun(t, projects) ==
    /\ Commanded(t) /\ projects # {}
    /\ run' = NewRun(projects)
    /\ Turns(t)
    /\ UNCHANGED <<window, schedule, now, missed, daemon, untold>>

ApproveFlagged(t, p) ==
    /\ Commanded(t) /\ run.entries[p].kind # "absent"
    /\ run' = IF run.entries[p].kind = "flagged"
              THEN [run EXCEPT !.entries[p] = Plain("pending")] ELSE run
    /\ Turns(t)
    /\ UNCHANGED <<window, schedule, now, missed, daemon, untold>>

SkipProject(t, p) ==
    /\ Commanded(t) /\ run.entries[p].kind # "absent"
    /\ SetState(p, Plain("dropped"))
    /\ Turns(t)
    /\ UNCHANGED <<window, schedule, now, missed, daemon, untold>>

Resume(t) ==
    /\ Commanded(t)
    /\ run' = [run EXCEPT !.paused = FALSE]
    /\ Turns(t)
    /\ UNCHANGED <<window, schedule, now, missed, daemon, untold>>

Pause ==
    /\ Asked /\ run.on
    /\ run' = [run EXCEPT !.paused = TRUE]
    /\ UNCHANGED <<window, schedule, now, thread, missed, daemon, untold>>

ClearRun ==
    /\ Asked
    /\ run' = NoRun
    /\ UNCHANGED <<window, schedule, now, thread, missed, daemon, untold>>

Command(t) ==
    \/ \E projects \in SUBSET Project : StartRun(t, projects)
    \/ \E p \in Project : ApproveFlagged(t, p) \/ SkipProject(t, p)
    \/ Resume(t)

-----------------------------------------------------------------------------
(* The daemon: a session ends, and the window may be told, more than once  *)
(* (as it exits, as its row is removed) or not at all (a full channel).    *)

Told(s) ==
    \/ window = "open" /\ Len(exits) < MaxExits /\ exits' = Append(exits, s)
    \/ UNCHANGED exits

End(s) ==
    /\ s \in live
    /\ live' = live \ {s}
    /\ Told(s)
    /\ UNCHANGED <<window, run, schedule, now, thread, missed, project, history>>

Remove(s) ==
    /\ project[s] # 0 /\ s \notin live
    /\ window = "open" /\ Len(exits) < MaxExits /\ exits' = Append(exits, s)
    /\ UNCHANGED <<window, run, schedule, now, thread, missed, project, live, history>>

\* finish_work_run_session: only an exit the run was waiting for drives it.
FinishSession ==
    /\ thread[Bridge].at = "idle" /\ exits # <<>>
    /\ exits' = Tail(exits)
    /\ LET mine == {p \in Project : Running(p, Head(exits))} IN
       \/ mine = {} /\ UNCHANGED <<run, thread>>
       \/ /\ \E p \in mine : SetState(p, [run.entries[p] EXCEPT !.kind = "done"])
          /\ Turns(Bridge)
    /\ UNCHANGED <<window, schedule, now, missed, project, live, history>>

-----------------------------------------------------------------------------
(* The schedule.                                                           *)

Tick ==
    /\ now < MaxNow
    /\ now' = now + 1
    /\ UNCHANGED <<window, run, schedule, thread, missed, daemon, history>>

Age ==
    /\ run.on /\ ~run.late
    /\ run' = [run EXCEPT !.late = TRUE]
    /\ UNCHANGED <<window, schedule, now, thread, missed, daemon, history>>

SetSchedule ==
    /\ Asked
    /\ schedule' = [on |-> TRUE, due |-> now + 1, paused |-> FALSE]
    /\ untold' = 0
    /\ UNCHANGED <<window, run, now, thread, missed, daemon>>

PauseSchedule(paused) ==
    /\ Asked /\ schedule.on /\ schedule.paused # paused
    /\ schedule' = [schedule EXCEPT !.paused = paused]
    /\ UNCHANGED <<window, run, now, thread, missed, daemon, untold>>

ClearSchedule ==
    /\ Asked
    /\ schedule' = NoSchedule
    /\ untold' = 0
    /\ UNCHANGED <<window, run, now, thread, missed, daemon>>

IsDue == schedule.on /\ ~schedule.paused /\ now >= schedule.due

\* The bridge looks at the schedule until it finds its channel at an end.
Due ==
    /\ thread[Bridge].at = "idle" /\ IsDue
    /\ window = "open" \/ (window = "cut" /\ exits # <<>>)
    /\ Steps(Bridge, "advancing")
    /\ UNCHANGED <<window, run, schedule, now, missed, daemon, history>>

AdvancedFault(due) == due

\* advance_past: at least once, and then past every occurrence gone by.
Advanced(due) == IF due < now THEN now + 1 ELSE due + 1

Advance ==
    /\ thread[Bridge].at = "advancing"
    /\ \/ ~schedule.on /\ Steps(Bridge, "idle")
          /\ UNCHANGED <<schedule, missed, untold>>
       \/ /\ schedule.on
          /\ LET due == Advanced(schedule.due) IN
             /\ schedule' = [schedule EXCEPT !.due = due]
             /\ missed' = due - schedule.due
             /\ untold' = untold + due - schedule.due
          /\ Steps(Bridge, "deciding")
    /\ UNCHANGED <<window, run, now, daemon, asks>>

DecideFault ==
    /\ thread[Bridge].at = "deciding"
    /\ IF run.on /\ ~Finished(run) THEN Steps(Bridge, "idle") /\ missed' = 0
       ELSE Steps(Bridge, "starting") /\ UNCHANGED missed
    /\ UNCHANGED <<window, run, schedule, now, daemon, history>>

\* scheduled_firing: a run that is still going is not replaced.
Decide ==
    /\ thread[Bridge].at = "deciding"
    /\ Steps(Bridge, IF run.on /\ ~Finished(run) THEN "writing" ELSE "starting")
    /\ UNCHANGED <<window, run, schedule, now, missed, daemon, history>>

ScheduledStart ==
    /\ thread[Bridge].at = "starting"
    /\ \/ run' = NewRun(Project) /\ Turns(Bridge)
       \/ UNCHANGED run /\ Stops(Bridge)            \* the prompt is gone
    /\ UNCHANGED <<window, schedule, now, missed, daemon, history>>

WriteFiring ==
    /\ thread[Bridge].at = "writing"
    /\ Steps(Bridge, "idle")
    /\ missed' = 0
    /\ untold' = IF schedule.on THEN untold - missed ELSE untold
    /\ UNCHANGED <<window, run, schedule, now, daemon, asks>>

-----------------------------------------------------------------------------
(* The window loses its daemon, closes, and opens or connects again; the   *)
(* daemon and its sessions stay.  A bridge that is cut off goes through    *)
(* what it has been sent and ends, before another takes its place.         *)

Cut ==
    /\ window = "open" /\ window' = "cut"
    /\ UNCHANGED <<run, schedule, now, thread, missed, daemon, history>>

Close ==
    /\ window # "closed" /\ window' = "closed"
    /\ thread' = [t \in Thread |-> Idle]
    /\ exits' = <<>> /\ missed' = 0 /\ untold' = 0
    /\ UNCHANGED <<run, schedule, now, project, live, asks>>

Open ==
    /\ window # "open" /\ window' = "open"
    /\ thread[Bridge].at = "idle" /\ exits = <<>>
    /\ UNCHANGED <<run, schedule, now, thread, missed, daemon, history>>

Init ==
    /\ window = "open"
    /\ run = NoRun /\ schedule = NoSchedule /\ now = 0
    /\ thread = [t \in Thread |-> Idle]
    /\ missed = 0 /\ untold = 0 /\ asks = 0
    /\ project = [s \in Session |-> 0] /\ live = {} /\ exits = <<>>

Drive(t) == Turn(t) \/ Ask(t) \/ Record(t)
Fire == Advance \/ Decide \/ ScheduledStart \/ WriteFiring
Asks == (\E t \in Commands : Command(t)) \/ Pause \/ ClearRun

Next ==
    \/ \E t \in Thread : Drive(t)
    \/ Asks
    \/ \E s \in Session : End(s) \/ Remove(s)
    \/ FinishSession \/ Due \/ Fire
    \/ Tick \/ Age
    \/ SetSchedule \/ ClearSchedule \/ \E b \in BOOLEAN : PauseSchedule(b)
    \/ Cut \/ Close \/ Open

Fairness ==
    /\ \A t \in Thread : WF_vars(Drive(t))
    /\ SF_vars(FinishSession) /\ SF_vars(Due) /\ WF_vars(Fire)

Spec == Init /\ [][Next]_vars /\ Fairness

-----------------------------------------------------------------------------
(* An entry that runs or is done names a session launched in its project,  *)
(* whoever drives and however often the run is replaced under them: the    *)
(* operator who opens a row of the report sees the agent of that project.  *)
NamesItsOwn ==
    \A p \in Project : run.entries[p].kind \in {"running", "done"} =>
        LET s == run.entries[p].session IN s \in Session /\ project[s] = p

(* Every occurrence the schedule has passed, fired or missed, is written   *)
(* down when the firing that passed it is over, whatever came of it        *)
(* (schedule.rs: "Every firing is written down, including the ones that    *)
(* did nothing").                                                          *)
NothingUntold == untold <= missed

(* A session that ends once its entry runs, and of which the window is     *)
(* told, is taken off the run, or the window goes:   the bridge comes back *)
(* from every drive, for each turn of the loop settles an entry or leaves. *)
(* The operator's commands are finitely many.                              *)
ExitIsRecorded ==
    \A s \in Session :
       LET Awaited == (\E p \in Project : Running(p, s)) /\ \E i \in DOMAIN exits : exits[i] = s
       IN  Awaited ~> ~Awaited \/ window # "open"

(* A schedule that is due fires, or is paused or taken away, or the window *)
(* closes; having fired it is not due.                                     *)
ScheduleFires == window = "open" /\ IsDue ~> window # "open" \/ ~IsDue

(* work_queue.rs: "let the queue create a session per project": a project  *)
(* that has its session is not given another.                              *)
OneSessionPerProject ==
    [][\A s \in Session : project'[s] # project[s]
          => run.entries[project'[s]].kind # "running"]_vars
=============================================================================
