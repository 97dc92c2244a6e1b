--------------------------- MODULE WorkRunProofs ---------------------------
(***************************************************************************)
(* The entries of a run name sessions of their own projects, and no firing *)
(* of the schedule goes unwritten, for any number of projects, sessions    *)
(* and threads.                                                            *)
(***************************************************************************)
EXTENDS WorkRun, SequenceTheorems, TLAPS

(* What a driver carries between the launch and the record of it is a      *)
(* session of the project it picked.                                       *)
CarriesItsOwn ==
    \A t \in Thread : thread[t].at = "recording" =>
        /\ thread[t].pick \in Project
        /\ thread[t].session \in Session
        /\ project[thread[t].session] = thread[t].pick

OwnInv == TypeOK /\ CarriesItsOwn /\ NamesItsOwn

(* A bridge that is not in a firing stands for no occurrence, and no       *)
(* occurrence is owed to a schedule that is gone.                          *)
FiringInv ==
    /\ TypeOK
    /\ NothingUntold
    /\ ~schedule.on => untold <= 0
    /\ thread[Bridge].at \in {"idle", "advancing"} => missed = 0

-----------------------------------------------------------------------------
LEMMA Bounds ==
    /\ N \in Nat /\ MaxSession \in Nat /\ MaxAsks \in Nat
    /\ MaxExits \in Nat /\ MaxNow \in Nat
BY WorkRunAssumption

LEMMA IdleType == Idle \in Task
BY Bounds DEF Idle, Task, Places

LEMMA PlainType ==
    \A kind \in {"absent", "pending", "flagged", "dropped"} : Plain(kind) \in Entry
BY DEF Plain, Entry

LEMMA EntryOfRun ==
    ASSUME NEW r \in Run, NEW p \in Project, NEW entry \in Entry
    PROVE  /\ [r EXCEPT !.entries[p] = entry] \in Run
           /\ [r EXCEPT !.entries[p] = entry].entries = [r.entries EXCEPT ![p] = entry]
BY DEF Run

LEMMA FlagOfRun ==
    ASSUME NEW r \in Run, NEW b \in BOOLEAN
    PROVE  /\ [r EXCEPT !.paused = b] \in Run /\ [r EXCEPT !.late = b] \in Run
           /\ [r EXCEPT !.paused = b].entries = r.entries
           /\ [r EXCEPT !.late = b].entries = r.entries
BY DEF Run

LEMMA NewRunType == \A projects : NewRun(projects) \in Run
BY PlainType DEF NewRun, Run

LEMMA NoRunType == NoRun \in Run
BY PlainType DEF NoRun, Run

LEMMA ExpiredType == ASSUME NEW r \in Run PROVE Expired(r) \in Run
BY PlainType DEF Expired, Run

LEMMA SetStateType ==
    ASSUME TypeOK, NEW p \in Project, NEW entry \in Entry, SetState(p, entry)
    PROVE  run' \in Run
BY EntryOfRun DEF SetState, TypeOK

LEMMA GoesType ==
    ASSUME TypeOK, NEW t \in Thread, NEW at \in Places, NEW pick \in 0 .. N,
           NEW s \in 0 .. MaxSession, Goes(t, at, pick, s)
    PROVE  thread' \in [Thread -> Task]
BY DEF Goes, Task, TypeOK

LEMMA StepsType ==
    ASSUME TypeOK, NEW t \in Thread, NEW at \in Places, Steps(t, at)
    PROVE  thread' \in [Thread -> Task]
BY GoesType, WorkRunAssumption DEF Steps

LEMMA StopsType ==
    ASSUME TypeOK, NEW t \in Thread, Stops(t)
    PROVE  thread' \in [Thread -> Task]
BY StepsType DEF Stops, Places

LEMMA TurnsType ==
    ASSUME TypeOK, NEW t \in Thread, Turns(t)
    PROVE  thread' \in [Thread -> Task]
BY StepsType DEF Turns, Places

LEMMA BridgeType == Bridge \in Thread
BY DEF Thread

(* next_pending is nobody or a project of the run.                         *)
LEMMA NextPendingType == \A r : NextPending(r) \subseteq 0 .. N
BY WorkRunAssumption DEF NextPending, Pending, Project

-----------------------------------------------------------------------------
LEMMA InitTyped == Init => TypeOK
BY NoRunType, Bounds DEF Init, TypeOK, NoSchedule, Schedule, Idle, Task, Places,
   Session, Thread

LEMMA TurnTyped == ASSUME TypeOK, NEW t \in Thread, Turn(t) PROVE TypeOK'
<1>1. run \in Run
  BY DEF TypeOK
<1>2. /\ run' \in Run
      /\ thread' \in [Thread -> Task]
  <2>1. CASE Stops(t) /\ UNCHANGED run
    BY <1>1, <2>1, StopsType
  <2>2. CASE run' = Expired(run) /\ Turns(t)
    BY <1>1, <2>2, ExpiredType, TurnsType
  <2>3. CASE (\E p \in NextPending(run) : Goes(t, "asking", p, 0)) /\ UNCHANGED run
    BY <1>1, <2>3, NextPendingType, GoesType, WorkRunAssumption DEF Places
  <2>4. QED BY <2>1, <2>2, <2>3 DEF Turn
<1>3. QED BY <1>2 DEF Turn, TypeOK, daemon, history

LEMMA AskTyped == ASSUME TypeOK, NEW t \in Thread, Ask(t) PROVE TypeOK'
<1>1. DEFINE p == thread[t].pick
<1>2. /\ run \in Run /\ p \in 0 .. N
      /\ p # 0 => p \in Project
  BY WorkRunAssumption DEF TypeOK, Task, Project
<1>3. /\ run' \in Run
      /\ thread' \in [Thread -> Task]
      /\ project' \in [Session -> 0 .. N]
      /\ live' \subseteq Session
  <2>1. CASE Stops(t) /\ UNCHANGED <<run, project, live>>
    BY <2>1, StopsType DEF TypeOK
  <2>2. CASE /\ p # 0
             /\ \E kind \in {"flagged", "dropped"} : SetState(p, Plain(kind))
             /\ Turns(t)
             /\ UNCHANGED <<project, live>>
    BY <1>2, <2>2, PlainType, SetStateType, TurnsType DEF TypeOK
  <2>3. ASSUME p # 0, NEW s \in Unborn,
               project' = [project EXCEPT ![s] = p],
               live' = live \cup {s},
               Goes(t, "recording", p, s) \/ Stops(t),
               UNCHANGED run
        PROVE  /\ run' \in Run
               /\ thread' \in [Thread -> Task]
               /\ project' \in [Session -> 0 .. N]
               /\ live' \subseteq Session
    <3>1. s \in Session /\ s \in 0 .. MaxSession
      BY WorkRunAssumption DEF Unborn, Session
    <3>2. thread' \in [Thread -> Task]
      BY <1>2, <2>3, <3>1, GoesType, StopsType DEF Places
    <3>3. QED BY <1>2, <2>3, <3>1, <3>2 DEF TypeOK
  <2>4. QED BY <2>1, <2>2, <2>3 DEF Ask
<1>4. QED BY <1>3 DEF Ask, TypeOK, history
LEMMA RecordTyped == ASSUME TypeOK, NEW t \in Thread, CarriesItsOwn, Record(t) PROVE TypeOK'
<1>1. /\ thread[t].pick \in Project
      /\ [kind |-> "running", session |-> thread[t].session] \in Entry
  BY DEF Record, CarriesItsOwn, Entry
<1>2. run' \in Run /\ thread' \in [Thread -> Task]
  BY <1>1, PlainType, SetStateType, TurnsType, StopsType DEF Record, TypeOK
<1>3. QED BY <1>2 DEF Record, TypeOK, daemon, history

LEMMA CommandTyped == ASSUME TypeOK, NEW t \in Commands, Command(t) PROVE TypeOK'
<1>1. t \in Thread /\ run \in Run
  BY DEF Thread, TypeOK
<1>2. run' \in Run
  <2>1. ASSUME NEW projects \in SUBSET Project, StartRun(t, projects)
        PROVE  run' \in Run
    BY <2>1, NewRunType DEF StartRun
  <2>2. ASSUME NEW p \in Project, ApproveFlagged(t, p)
        PROVE  run' \in Run
    BY <1>1, <2>2, EntryOfRun, PlainType DEF ApproveFlagged
  <2>3. ASSUME NEW p \in Project, SkipProject(t, p)
        PROVE  run' \in Run
    BY <2>3, SetStateType, PlainType DEF SkipProject
  <2>4. CASE Resume(t)
    BY <1>1, <2>4, FlagOfRun DEF Resume
  <2>5. QED BY <2>1, <2>2, <2>3, <2>4 DEF Command
<1>3. /\ Turns(t) /\ asks' = asks + 1 /\ asks < MaxAsks
      /\ UNCHANGED <<window, schedule, now, missed, daemon, untold>>
  BY DEF Command, StartRun, ApproveFlagged, SkipProject, Resume, Commanded, Asked
<1>4. thread' \in [Thread -> Task]
  BY <1>1, <1>3, TurnsType
<1>5. QED BY <1>2, <1>3, <1>4, Bounds DEF TypeOK, daemon

LEMMA RunTyped ==
    ASSUME TypeOK, Pause \/ ClearRun \/ Age
    PROVE  TypeOK'
<1>1. run' \in Run
  BY FlagOfRun, NoRunType DEF Pause, ClearRun, Age, TypeOK
<1>2. QED
  BY <1>1, WorkRunAssumption DEF Pause, ClearRun, Age, Asked, TypeOK, daemon, history

LEMMA ToldType ==
    ASSUME TypeOK, NEW s \in Session
    PROVE  /\ Told(s) => exits' \in Seq(Session)
           /\ Append(exits, s) \in Seq(Session)
<1>1. exits \in Seq(Session) /\ Append(exits, s) \in Seq(Session)
  BY DEF TypeOK
<1>2. Told(s) => exits' = exits \/ exits' = Append(exits, s)
  BY DEF Told
<1>3. QED BY <1>1, <1>2

LEMMA DaemonTyped ==
    ASSUME TypeOK, NEW s \in Session, End(s) \/ Remove(s)
    PROVE  TypeOK'
<1>1. exits' \in Seq(Session)
  BY ToldType DEF End, Remove, TypeOK
<1>2. QED BY <1>1 DEF End, Remove, TypeOK, history

LEMMA FinishSessionTyped == ASSUME TypeOK, FinishSession PROVE TypeOK'
<1>1. exits' \in Seq(Session)
  BY DEF FinishSession, TypeOK
<1>2. ASSUME NEW p \in Project, Running(p, Head(exits))
      PROVE  [run.entries[p] EXCEPT !.kind = "done"] \in Entry
  <2>1. run.entries[p].session = Head(exits) /\ Head(exits) \in Session
    BY <1>2 DEF Running, FinishSession, TypeOK
  <2>2. QED BY <1>2, <2>1 DEF Running, Entry
<1>3. run' \in Run /\ thread' \in [Thread -> Task]
  BY <1>2, SetStateType, TurnsType, BridgeType DEF FinishSession, TypeOK
<1>4. QED BY <1>1, <1>3 DEF FinishSession, TypeOK, history

LEMMA ScheduleTyped ==
    ASSUME TypeOK, Tick \/ SetSchedule \/ ClearSchedule \/ \E b \in BOOLEAN : PauseSchedule(b)
    PROVE  TypeOK'
<1>1. schedule' \in Schedule
  <2>1. now + 1 \in Nat
    BY Bounds DEF TypeOK
  <2>2. CASE Tick
    BY <2>2 DEF Tick, TypeOK
  <2>3. CASE SetSchedule
    BY <2>1, <2>3 DEF SetSchedule, Schedule
  <2>4. CASE ClearSchedule
    BY <2>4 DEF ClearSchedule, NoSchedule, Schedule
  <2>5. CASE \E b \in BOOLEAN : PauseSchedule(b)
    BY <2>5 DEF PauseSchedule, Schedule, TypeOK
  <2>6. QED BY <2>2, <2>3, <2>4, <2>5
<1>2. now' \in 0 .. MaxNow
  BY Bounds DEF Tick, SetSchedule, ClearSchedule, PauseSchedule, TypeOK
<1>3. QED
  BY <1>1, <1>2, Bounds
  DEF Tick, SetSchedule, ClearSchedule, PauseSchedule, Asked, TypeOK, daemon, history

LEMMA AdvancedType ==
    ASSUME TypeOK
    PROVE  Advanced(schedule.due) \in Nat /\ Advanced(schedule.due) > schedule.due
<1>1. now \in Nat
  BY WorkRunAssumption DEF TypeOK
<1>2. schedule.due \in Nat
  BY DEF TypeOK, Schedule
<1>3. QED BY <1>1, <1>2 DEF Advanced

LEMMA FiringTyped == ASSUME TypeOK, Due \/ Fire PROVE TypeOK'
<1>1. thread' \in [Thread -> Task]
  BY StepsType, TurnsType, StopsType, BridgeType
  DEF Due, Fire, Advance, Decide, ScheduledStart, WriteFiring, Places
<1>2. run' \in Run
  BY NewRunType DEF Due, Fire, Advance, Decide, ScheduledStart, WriteFiring, TypeOK
<1>3. schedule' \in Schedule /\ missed' \in Nat /\ untold' \in Int
  <2>1. CASE Advance
    <3>1. CASE UNCHANGED <<schedule, missed, untold>>
      BY <3>1 DEF TypeOK
    <3>2. DEFINE due == Advanced(schedule.due)
    <3>3. /\ due \in Nat /\ due > schedule.due /\ schedule.due \in Nat
          /\ schedule \in Schedule /\ untold \in Int
      BY AdvancedType DEF TypeOK, Schedule
    <3>4. CASE /\ schedule' = [schedule EXCEPT !.due = due]
               /\ missed' = due - schedule.due
               /\ untold' = untold + due - schedule.due
      <4>1. schedule' \in Schedule
        BY <3>3, <3>4 DEF Schedule
      <4>2. missed' \in Nat /\ untold' \in Int
        BY <3>3, <3>4
      <4>3. QED BY <4>1, <4>2
    <3>5. QED BY <2>1, <3>1, <3>4 DEF Advance
  <2>2. CASE WriteFiring
    BY <2>2 DEF WriteFiring, TypeOK
  <2>3. CASE Due \/ Decide \/ ScheduledStart
    BY <2>3 DEF Due, Decide, ScheduledStart, TypeOK, history
  <2>4. QED BY <2>1, <2>2, <2>3 DEF Fire
<1>4. QED
  BY <1>1, <1>2, <1>3
  DEF Due, Fire, Advance, Decide, ScheduledStart, WriteFiring, TypeOK, daemon, history

LEMMA WindowTyped == ASSUME TypeOK, Cut \/ Close \/ Open PROVE TypeOK'
<1>1. CASE Close
  <2>1. thread' \in [Thread -> Task] /\ <<>> \in Seq(Session)
    BY <1>1, IdleType DEF Close
  <2>2. exits' \in Seq(Session)
    BY <1>1, <2>1 DEF Close
  <2>3. missed' \in Nat /\ untold' \in Int
    BY <1>1 DEF Close
  <2>4. QED BY <1>1, <2>1, <2>2, <2>3 DEF Close, TypeOK
<1>2. CASE Cut \/ Open
  BY <1>2 DEF Cut, Open, TypeOK, daemon, history
<1>3. QED BY <1>1, <1>2

LEMMA NextTyped == ASSUME TypeOK, CarriesItsOwn, [Next]_vars PROVE TypeOK'
<1>1. CASE \E t \in Thread : Drive(t)
  BY <1>1, TurnTyped, AskTyped, RecordTyped DEF Drive
<1>2. CASE Asks \/ Age
  BY <1>2, CommandTyped, RunTyped DEF Asks
<1>3. CASE \E s \in Session : End(s) \/ Remove(s)
  BY <1>3, DaemonTyped
<1>4. CASE FinishSession \/ Due \/ Fire
  BY <1>4, FinishSessionTyped, FiringTyped
<1>5. CASE Tick \/ SetSchedule \/ ClearSchedule \/ \E b \in BOOLEAN : PauseSchedule(b)
  BY <1>5, ScheduleTyped
<1>6. CASE Cut \/ Close \/ Open
  BY <1>6, WindowTyped
<1>7. CASE UNCHANGED vars
  BY <1>7 DEF vars, daemon, history, TypeOK
<1>8. QED BY <1>1, <1>2, <1>3, <1>4, <1>5, <1>6, <1>7 DEF Next

(***************************************************************************)
(* What a driver records.                                                  *)
(***************************************************************************)
LEMMA GoesCarries ==
    ASSUME TypeOK, CarriesItsOwn, NEW t \in Thread, NEW at, NEW pick, NEW s,
           Goes(t, at, pick, s), UNCHANGED project,
           at # "recording"
    PROVE  CarriesItsOwn'
BY DEF Goes, CarriesItsOwn, TypeOK

LEMMA StepsCarries ==
    ASSUME TypeOK, CarriesItsOwn, NEW t \in Thread, UNCHANGED project,
           Turns(t) \/ Stops(t) \/ \E at \in Places \ {"recording"} : Steps(t, at)
    PROVE  CarriesItsOwn'
<1>1. PICK at \in Places \ {"recording"} : Steps(t, at)
  BY DEF Turns, Stops, Places
<1>2. QED BY <1>1, GoesCarries DEF Steps

LEMMA AskCarries ==
    ASSUME TypeOK, CarriesItsOwn, NEW t \in Thread, Ask(t)
    PROVE  CarriesItsOwn'
<1>1. CASE Stops(t) /\ UNCHANGED <<run, project, live>>
  BY <1>1, StepsCarries
<1>2. CASE Turns(t) /\ UNCHANGED <<project, live>>
  BY <1>2, StepsCarries
<1>3. ASSUME thread[t].pick # 0, NEW s \in Unborn,
             project' = [project EXCEPT ![s] = thread[t].pick],
             Goes(t, "recording", thread[t].pick, s) \/ Stops(t)
      PROVE  CarriesItsOwn'
  <2>1. thread[t].pick \in Project /\ s \in Session /\ project[s] = 0
    BY <1>3, Bounds DEF TypeOK, Task, Project, Unborn
  <2>2. \A q \in Session : project[q] # 0 => project'[q] = project[q]
    BY <1>3, <2>1 DEF TypeOK
  <2>3. project'[s] = thread[t].pick
    BY <1>3, <2>1 DEF TypeOK
  <2>4. ASSUME NEW u \in Thread, thread'[u].at = "recording"
        PROVE  /\ thread'[u].pick \in Project
               /\ thread'[u].session \in Session
               /\ project'[thread'[u].session] = thread'[u].pick
    <3>1. CASE u = t
      BY <1>3, <2>1, <2>3, <2>4, <3>1 DEF Goes, Stops, Steps, TypeOK
    <3>2. CASE u # t
      <4>1. thread'[u] = thread[u]
        BY <1>3, <3>2 DEF Goes, Stops, Steps, TypeOK
      <4>2. QED BY <2>2, <2>4, <4>1, Bounds DEF CarriesItsOwn, Project
    <3>3. QED BY <3>1, <3>2
  <2>5. QED BY <2>4 DEF CarriesItsOwn
<1>4. QED BY <1>1, <1>2, <1>3 DEF Ask

LEMMA NextCarries ==
    ASSUME TypeOK, CarriesItsOwn, [Next]_vars
    PROVE  CarriesItsOwn'
<1>1. ASSUME NEW t \in Thread, Drive(t)
      PROVE  CarriesItsOwn'
  <2>1. CASE Turn(t)
    <3>1. UNCHANGED project
      BY <2>1 DEF Turn, daemon
    <3>2. CASE \E p \in NextPending(run) : Goes(t, "asking", p, 0)
      BY <3>1, <3>2, GoesCarries
    <3>3. QED BY <2>1, <3>1, <3>2, StepsCarries DEF Turn
  <2>2. CASE Ask(t)
    BY <2>2, AskCarries
  <2>3. CASE Record(t)
    BY <2>3, StepsCarries DEF Record, daemon
  <2>4. QED BY <1>1, <2>1, <2>2, <2>3 DEF Drive
<1>2. CASE FinishSession \/ Due \/ Fire \/ \E t \in Commands : Command(t)
  <2>1. UNCHANGED project
    BY <1>2 DEF FinishSession, Due, Fire, Advance, Decide, ScheduledStart, WriteFiring,
       Command, StartRun, ApproveFlagged, SkipProject, Resume, daemon
  <2>2. \/ UNCHANGED thread
        \/ \E t \in Thread : Turns(t) \/ Stops(t)
              \/ \E at \in Places \ {"recording"} : Steps(t, at)
    BY <1>2, BridgeType
    DEF FinishSession, Due, Fire, Advance, Decide, ScheduledStart, WriteFiring,
        Command, StartRun, ApproveFlagged, SkipProject, Resume, Thread, Places
  <2>3. QED BY <2>1, <2>2, StepsCarries DEF CarriesItsOwn
<1>3. CASE Close
  BY <1>3 DEF Close, Idle, CarriesItsOwn
<1>4. CASE \/ Pause \/ ClearRun \/ Age \/ Cut \/ Open \/ UNCHANGED vars
           \/ \E s \in Session : End(s) \/ Remove(s)
           \/ Tick \/ SetSchedule \/ ClearSchedule \/ \E b \in BOOLEAN : PauseSchedule(b)
  <2>1. UNCHANGED <<thread, project>>
    BY <1>4 DEF Pause, ClearRun, Age, Cut, Open, vars, End, Remove, Tick, SetSchedule,
       ClearSchedule, PauseSchedule, daemon
  <2>2. QED BY <2>1 DEF CarriesItsOwn
<1>5. QED BY <1>1, <1>2, <1>3, <1>4 DEF Next, Asks

(***************************************************************************)
(* The entries of the run.                                                 *)
(***************************************************************************)
\* A session keeps its project; an entry stays, starts nothing, or is right.
KeepsProjects == \A s \in Session : project[s] # 0 => project'[s] = project[s]
Right(entry, p) ==
    entry.kind \in {"running", "done"} =>
        entry.session \in Session /\ project'[entry.session] = p

LEMMA OwnStep ==
    ASSUME NamesItsOwn, KeepsProjects,
           \A p \in Project : run'.entries[p] = run.entries[p] \/ Right(run'.entries[p], p)
    PROVE  NamesItsOwn'
BY Bounds DEF NamesItsOwn, KeepsProjects, Right, Project

LEMMA OwnSetState ==
    ASSUME TypeOK, NamesItsOwn, KeepsProjects, NEW p \in Project, NEW entry \in Entry,
           SetState(p, entry), Right(entry, p)
    PROVE  NamesItsOwn'
<1>1. run.entries \in [Project -> Entry]
  BY DEF TypeOK, Run
<1>2. run'.entries = run.entries \/ run'.entries = [run.entries EXCEPT ![p] = entry]
  BY EntryOfRun DEF SetState, TypeOK
<1>3. QED BY <1>1, <1>2, OwnStep

LEMMA NewRunOwn ==
    ASSUME NamesItsOwn, KeepsProjects, NEW projects, run' = NewRun(projects)
    PROVE  NamesItsOwn'
<1>1. \A p \in Project : Right(run'.entries[p], p)
  BY DEF NewRun, Plain, Right
<1>2. QED BY <1>1, OwnStep

LEMMA PlainRight == \A kind \in {"pending", "flagged", "dropped"}, p \in Project : Right(Plain(kind), p)
BY DEF Plain, Right

LEMMA AskOwn ==
    ASSUME TypeOK, NamesItsOwn, NEW t \in Thread, Ask(t)
    PROVE  NamesItsOwn'
<1>1. KeepsProjects
  BY DEF Ask, Unborn, KeepsProjects, TypeOK
<1>2. thread[t].pick # 0 => thread[t].pick \in Project
  BY Bounds DEF TypeOK, Task, Project
<1>3. CASE UNCHANGED run
  BY <1>1, <1>3, OwnStep
<1>4. CASE /\ thread[t].pick # 0
           /\ \E kind \in {"flagged", "dropped"} : SetState(thread[t].pick, Plain(kind))
  BY <1>1, <1>2, <1>4, OwnSetState, PlainType, PlainRight
<1>5. QED BY <1>3, <1>4 DEF Ask

LEMMA DriveOwn ==
    ASSUME TypeOK, CarriesItsOwn, NamesItsOwn, NEW t \in Thread, Turn(t) \/ Record(t)
    PROVE  NamesItsOwn'
<1>1. KeepsProjects
  BY DEF Turn, Record, daemon, KeepsProjects
<1>2. CASE UNCHANGED run
  BY <1>1, <1>2, OwnStep
<1>3. CASE run' = Expired(run)
  <2>1. run \in Run
    BY DEF TypeOK
  <2>2. \A p \in Project : run'.entries[p] = run.entries[p] \/ run'.entries[p] = Plain("dropped")
    BY <1>3, <2>1 DEF Expired, Run
  <2>3. QED BY <1>1, <2>2, PlainRight, OwnStep
<1>4. CASE Record(t)
  <2>1. DEFINE e == [kind |-> "running", session |-> thread[t].session]
  <2>2. /\ thread[t].pick \in Project
        /\ thread[t].session \in Session
        /\ project'[thread[t].session] = thread[t].pick
    BY <1>4 DEF Record, CarriesItsOwn, daemon
  <2>3. e \in Entry /\ Right(e, thread[t].pick)
    BY <2>2 DEF Entry, Right
  <2>4. QED BY <1>1, <1>2, <1>4, <2>2, <2>3, OwnSetState, PlainType, PlainRight DEF Record
<1>5. QED BY <1>2, <1>3, <1>4 DEF Turn

LEMMA CommandOwn ==
    ASSUME TypeOK, NamesItsOwn, NEW t \in Commands, Command(t)
    PROVE  NamesItsOwn'
<1>1. KeepsProjects
  BY DEF Command, StartRun, ApproveFlagged, SkipProject, Resume, daemon, KeepsProjects
<1>2. run \in Run /\ run.entries \in [Project -> Entry]
  BY DEF TypeOK, Run
<1>3. ASSUME NEW projects \in SUBSET Project, StartRun(t, projects)
      PROVE  NamesItsOwn'
  BY <1>1, <1>3, NewRunOwn DEF StartRun
<1>4. ASSUME NEW p \in Project, ApproveFlagged(t, p)
      PROVE  NamesItsOwn'
  <2>1. run'.entries = run.entries \/ run'.entries = [run.entries EXCEPT ![p] = Plain("pending")]
    BY <1>2, <1>4, EntryOfRun, PlainType DEF ApproveFlagged
  <2>2. QED BY <1>1, <1>2, <2>1, PlainRight, OwnStep
<1>5. ASSUME NEW p \in Project, SkipProject(t, p)
      PROVE  NamesItsOwn'
  BY <1>1, <1>5, OwnSetState, PlainType, PlainRight DEF SkipProject
<1>6. CASE Resume(t)
  BY <1>1, <1>2, <1>6, FlagOfRun, OwnStep DEF Resume
<1>7. QED BY <1>3, <1>4, <1>5, <1>6 DEF Command

LEMMA FinishSessionOwn ==
    ASSUME TypeOK, NamesItsOwn, FinishSession
    PROVE  NamesItsOwn'
<1>1. KeepsProjects
  BY DEF FinishSession, KeepsProjects
<1>2. CASE UNCHANGED run
  BY <1>1, <1>2, OwnStep
<1>3. ASSUME NEW p \in Project, Running(p, Head(exits)),
             SetState(p, [run.entries[p] EXCEPT !.kind = "done"])
      PROVE  NamesItsOwn'
  <2>1. /\ run.entries[p].session \in Session
        /\ project'[run.entries[p].session] = p
        /\ run.entries[p].kind = "running"
    BY <1>3 DEF Running, NamesItsOwn, FinishSession
  <2>2. /\ [run.entries[p] EXCEPT !.kind = "done"] \in Entry
        /\ Right([run.entries[p] EXCEPT !.kind = "done"], p)
    BY <1>3, <2>1 DEF Entry, Right, Running
  <2>3. QED BY <1>1, <1>3, <2>2, OwnSetState
<1>4. QED BY <1>2, <1>3 DEF FinishSession

LEMMA NextOwn ==
    ASSUME TypeOK, CarriesItsOwn, NamesItsOwn, [Next]_vars
    PROVE  NamesItsOwn'
<1>1. CASE \E t \in Thread : Drive(t)
  BY <1>1, AskOwn, DriveOwn DEF Drive
<1>2. CASE \E t \in Commands : Command(t)
  BY <1>2, CommandOwn
<1>3. CASE FinishSession
  BY <1>3, FinishSessionOwn
<1>4. CASE Fire
  <2>1. KeepsProjects
    BY <1>4 DEF Fire, Advance, Decide, ScheduledStart, WriteFiring, daemon, KeepsProjects
  <2>2. run' = run \/ run' = NewRun(Project)
    BY <1>4 DEF Fire, Advance, Decide, ScheduledStart, WriteFiring
  <2>3. QED BY <2>1, <2>2, OwnStep, NewRunOwn
<1>5. CASE Pause \/ ClearRun \/ Age
  <2>1. KeepsProjects
    BY <1>5 DEF Pause, ClearRun, Age, daemon, KeepsProjects
  <2>2. run'.entries = run.entries \/ run' = NoRun
    BY <1>5, FlagOfRun DEF Pause, ClearRun, Age, TypeOK
  <2>3. \A p \in Project : run'.entries[p] = run.entries[p] \/ Right(run'.entries[p], p)
    BY <2>2 DEF NoRun, Plain, Right
  <2>4. QED BY <2>1, <2>3, OwnStep
<1>6. CASE \/ Due \/ Cut \/ Open \/ Close \/ UNCHANGED vars
           \/ \E s \in Session : End(s) \/ Remove(s)
           \/ Tick \/ SetSchedule \/ ClearSchedule \/ \E b \in BOOLEAN : PauseSchedule(b)
  <2>1. UNCHANGED <<run, project>>
    BY <1>6 DEF Due, Cut, Open, Close, vars, End, Remove, Tick, SetSchedule, ClearSchedule,
       PauseSchedule, daemon
  <2>2. QED BY <2>1 DEF NamesItsOwn
<1>7. QED BY <1>1, <1>2, <1>3, <1>4, <1>5, <1>6 DEF Next, Asks

LEMMA OwnInitially == Init => OwnInv
BY InitTyped DEF OwnInv, Init, CarriesItsOwn, NamesItsOwn, Idle, NoRun, Plain

LEMMA OwnInductive == OwnInv /\ [Next]_vars => OwnInv'
BY NextTyped, NextCarries, NextOwn DEF OwnInv

(***************************************************************************)
(* The firings.                                                            *)
(***************************************************************************)
\* No step but a firing's own touches what it stands for, or what is owed.
Untouched ==
    /\ missed' = missed
    /\ untold' = untold
    /\ schedule'.on = schedule.on
    /\ thread'[Bridge].at \in {"idle", "advancing"} => missed = 0

LEMMA UntouchedFiring == ASSUME FiringInv, TypeOK', Untouched PROVE FiringInv'
BY DEF FiringInv, NothingUntold, Untouched

\* Where a thread goes, the bridge is only if it is the one that goes.
LEMMA GoesFiring ==
    ASSUME FiringInv, NEW t \in Thread, NEW at \in Places, NEW pick, NEW s,
           Goes(t, at, pick, s), at \notin {"idle", "advancing"}
    PROVE  thread'[Bridge].at \in {"idle", "advancing"} => missed = 0
BY BridgeType DEF Goes, FiringInv, TypeOK

LEMMA StopsFiring ==
    ASSUME FiringInv, NEW t \in Thread, Stops(t)
    PROVE  thread'[Bridge].at \in {"idle", "advancing"} => missed = 0
BY BridgeType DEF Stops, Steps, Goes, FiringInv, TypeOK

LEMMA NextFiring == ASSUME FiringInv, TypeOK', [Next]_vars PROVE FiringInv'
<1>1. CASE \E t \in Thread : Drive(t)
  <2>1. PICK t \in Thread : Drive(t)
    BY <1>1
  <2>2. UNCHANGED <<missed, untold, schedule>>
    BY <2>1 DEF Drive, Turn, Ask, Record, history
  <2>3. Stops(t) \/ \E at \in Places \ {"idle", "advancing"} : \E pick, s : Goes(t, at, pick, s)
    BY <2>1 DEF Drive, Turn, Ask, Record, Turns, Steps, Places
  <2>4. QED BY <2>2, <2>3, GoesFiring, StopsFiring, UntouchedFiring DEF Untouched
<1>2. CASE \E t \in Commands : Command(t)
  <2>1. PICK t \in Thread : Turns(t)
    BY <1>2 DEF Command, StartRun, ApproveFlagged, SkipProject, Resume, Thread
  <2>2. UNCHANGED <<missed, untold, schedule>>
    BY <1>2 DEF Command, StartRun, ApproveFlagged, SkipProject, Resume
  <2>3. QED BY <2>1, <2>2, GoesFiring, UntouchedFiring DEF Untouched, Turns, Steps, Places
<1>3. CASE FinishSession \/ Due
  <2>1. UNCHANGED <<missed, untold, schedule>> /\ thread[Bridge].at = "idle"
    BY <1>3 DEF FinishSession, Due, history
  <2>2. QED BY <2>1, UntouchedFiring DEF Untouched, FiringInv
<1>4. CASE Fire
  <2>1. CASE Advance
    <3>1. missed = 0 /\ TypeOK
      BY <2>1 DEF Advance, FiringInv
    <3>2. CASE UNCHANGED <<schedule, missed, untold>>
      BY <3>1, <3>2, UntouchedFiring DEF Untouched
    <3>3. CASE ~UNCHANGED <<schedule, missed, untold>>
      <4>1. /\ schedule'.on = schedule.on /\ schedule.on
            /\ missed' = Advanced(schedule.due) - schedule.due
            /\ untold' = untold + Advanced(schedule.due) - schedule.due
            /\ Steps(Bridge, "deciding")
        BY <2>1, <3>1, <3>3 DEF Advance, TypeOK, Schedule
      <4>2. thread'[Bridge].at = "deciding"
        BY <3>1, <4>1, BridgeType DEF Steps, Goes, TypeOK
      <4>3. untold' <= missed'
        BY <3>1, <4>1, AdvancedType DEF FiringInv, NothingUntold, TypeOK, Schedule
      <4>4. QED BY <4>1, <4>2, <4>3 DEF FiringInv, NothingUntold
    <3>4. QED BY <3>2, <3>3
  <2>2. CASE Decide \/ ScheduledStart
    <3>1. UNCHANGED <<missed, untold, schedule>>
      BY <2>2 DEF Decide, ScheduledStart, history
    <3>2. Stops(Bridge) \/ \E at \in Places \ {"idle", "advancing"} : \E pick, s : Goes(Bridge, at, pick, s)
      BY <2>2 DEF Decide, ScheduledStart, Turns, Steps, Places
    <3>3. QED BY <3>1, <3>2, BridgeType, GoesFiring, StopsFiring, UntouchedFiring DEF Untouched
  <2>3. CASE WriteFiring
    BY <2>3 DEF WriteFiring, FiringInv, NothingUntold, TypeOK
  <2>4. QED BY <1>4, <2>1, <2>2, <2>3 DEF Fire
<1>5. CASE SetSchedule \/ ClearSchedule
  BY <1>5 DEF SetSchedule, ClearSchedule, FiringInv, NothingUntold, TypeOK
<1>6. CASE Close
  BY <1>6 DEF Close, FiringInv, NothingUntold
<1>7. CASE \/ Pause \/ ClearRun \/ Age \/ Cut \/ Open \/ Tick \/ UNCHANGED vars
           \/ \E s \in Session : End(s) \/ Remove(s)
           \/ \E b \in BOOLEAN : PauseSchedule(b)
  <2>1. UNCHANGED <<missed, untold, thread>> /\ schedule'.on = schedule.on
    BY <1>7 DEF Pause, ClearRun, Age, Cut, Open, Tick, vars, End, Remove, PauseSchedule,
       daemon, history, FiringInv, TypeOK, Schedule
  <2>2. QED BY <2>1, UntouchedFiring DEF Untouched, FiringInv
<1>8. QED BY <1>1, <1>2, <1>3, <1>4, <1>5, <1>6, <1>7 DEF Next, Asks

LEMMA FiringInitially == Init => FiringInv
BY InitTyped DEF FiringInv, NothingUntold, Init

-----------------------------------------------------------------------------
\* The state has its type, whatever the drivers do to one run.
THEOREM TypeCorrect == Spec => []TypeOK
<1>1. OwnInv => TypeOK
  BY DEF OwnInv
<1>2. QED BY <1>1, OwnInitially, OwnInductive, PTL DEF Spec

\* An entry that runs or is done names a session of its own project.
THEOREM EntriesNameTheirOwn == Spec => []NamesItsOwn
<1>1. OwnInv => NamesItsOwn
  BY DEF OwnInv
<1>2. QED BY <1>1, OwnInitially, OwnInductive, PTL DEF Spec

\* Nothing the schedule passes goes unwritten once its firing is over.
THEOREM FiringsAreTold == Spec => []NothingUntold
<1>1. FiringInv /\ TypeOK' /\ [Next]_vars => FiringInv'
  BY NextFiring
<1>2. FiringInv => NothingUntold
  BY DEF FiringInv
<1>3. QED BY <1>1, <1>2, TypeCorrect, FiringInitially, PTL DEF Spec
=============================================================================
