----------------------------- MODULE Provisioning -----------------------------
(***************************************************************************)
(* What a session's start stands up outside the daemon, and what takes it  *)
(* down again (registry/provisioning.rs, prepare_and_start and the         *)
(* teardown of registry/lifecycle.rs, worktree.rs, lease.rs,               *)
(* environment.rs): a checkout of its own, a database cloned for it, and   *)
(* whatever its setup hook makes.  A start worker makes them one after the *)
(* other with the mutex free, so a kill, a revive, an archive, the         *)
(* operator's survey of leftover checkouts or the end of the daemon may    *)
(* come between any two steps.                                             *)
(*                                                                         *)
(* A row is reduced to what decides about starts and teardowns.  Admission *)
(* is Supervision's: a start that has to queue is a later one here.  The   *)
(* end of a process and the report of it are one step, and no hook moves   *)
(* the phase of a row that is starting or ending.                          *)
(***************************************************************************)
EXTENDS Naturals, FiniteSets

CONSTANTS
    Session,    \* the ids of rows; no id is handed out twice
    MaxGen      \* bound: the generations of a row

ASSUME MaxGenIsNat == MaxGen \in Nat

VARIABLES
    row,        \* Session -> Row
    saved,      \* Session -> what the store holds of the row
    workers,    \* the start workers
    teardowns,  \* the teardown workers
    archives,   \* the threads that serve an archive
    checkout,   \* the sessions whose directory is there
    branch,     \* the sessions whose branch is there
    database,   \* the sessions whose database is there
    up,         \* the sessions whose setup hook's work stands
    listed,     \* the checkouts a survey has offered to the operator
    crashed,    \* BOOLEAN: the daemon has crashed (bound: once)
    told,       \* history: the leftovers a failure was reported for
    spilled,    \* history: the databases no teardown was meant for
    astray,     \* history: the checkouts no row was meant to name
    doubled     \* history: the rows that have had two start workers at once

disk == <<checkout, branch, database, up>>
threads == <<workers, teardowns, archives>>
history == <<told, spilled, astray, doubled>>
vars == <<row, saved, threads, disk, listed, crashed, history>>

(* at "live" is a row that owns a process, "stopped" one that has ended and  *)
(* waits for the operator, "gone" an archived one.  place is where the       *)
(* session works: in the repository it was launched for, "shared" or until   *)
(* its own checkout is made "wanted", or in that checkout, "named" by the    *)
(* row or "lost" once the agent has removed it.  resume is whether it can be *)
(* revived, torn is teardown_done.                                           *)
Places == {"shared", "wanted", "named", "lost"}

Row == [at : {"unborn", "preparing", "live", "tearing", "backoff", "stopped", "gone"},
        gen : 0..MaxGen, stop : BOOLEAN, torn : BOOLEAN, place : Places, resume : BOOLEAN]

Image == [known : BOOLEAN, place : Places, resume : BOOLEAN]

(* The steps of prepare_and_start; "orphan" cleans up a checkout whose row   *)
(* has gone, "unwind" runs the teardown hook of a start that failed and      *)
(* "fail" is finish_start_failure.                                           *)
Steps == {"provision", "create", "record", "orphan", "load", "database", "setup",
          "check", "spawn", "unwind", "fail"}

Worker == [id : Session, gen : 0..MaxGen, at : Steps]
Teardown == [id : Session, gen : 0..MaxGen, at : {"lease", "hook", "finish"},
             restart : BOOLEAN]
Archiver == [id : Session, at : {"read", "release", "remove"}]

TypeOK ==
    /\ row \in [Session -> Row]
    /\ saved \in [Session -> Image]
    /\ workers \subseteq Worker
    /\ teardowns \subseteq Teardown
    /\ archives \subseteq Archiver
    /\ {checkout, branch, database, up, listed} \subseteq SUBSET Session
    /\ crashed \in BOOLEAN
    /\ {told, spilled, astray, doubled} \subseteq SUBSET Session

Unborn == [at |-> "unborn", gen |-> 0, stop |-> FALSE, torn |-> TRUE,
           place |-> "shared", resume |-> FALSE]

Init ==
    /\ row = [s \in Session |-> Unborn]
    /\ saved = [s \in Session |->
                  [known |-> FALSE, place |-> "shared", resume |-> FALSE]]
    /\ workers = {} /\ teardowns = {} /\ archives = {}
    /\ checkout = {} /\ branch = {} /\ database = {} /\ up = {}
    /\ listed = {}
    /\ crashed = FALSE
    /\ told = {} /\ spilled = {} /\ astray = {} /\ doubled = {}

Present(s) == row[s].at \notin {"unborn", "gone"}

(* The directory a session works in: the repository is always there. *)
Standing(s) == row[s].place \in {"named", "lost"} => s \in checkout

Named(s) == Present(s) /\ row[s].place = "named"

-----------------------------------------------------------------------------
(* The operator's requests and the supervisor's restarts *)

(* Marked preparing, and a worker spawned. *)
Starts(s, r) ==
    /\ row' = [row EXCEPT ![s] = r]
    /\ workers' = workers \cup {[id |-> s, gen |-> r.gen, at |-> "provision"]}
    /\ doubled' = IF \E w \in workers : w.id = s THEN doubled \cup {s} ELSE doubled
    /\ UNCHANGED <<saved, teardowns, archives, disk, listed, crashed, told, spilled, astray>>

Launch(s) ==
    /\ row[s].at = "unborn" /\ 1 <= MaxGen
    /\ \E place \in {"shared", "wanted"} :
         Starts(s, [Unborn EXCEPT !.at = "preparing", !.gen = 1, !.place = place])

(* Slip: a row can be revived while its teardown runs. *)
RevivableEarly(s) ==
    row[s].at \in {"tearing", "backoff", "stopped"} /\ row[s].resume /\ Standing(s)

(* There has to be a directory to resume in. *)
Revivable(s) == row[s].at \in {"backoff", "stopped"} /\ row[s].resume /\ Standing(s)

Revive(s) ==
    /\ Revivable(s) /\ row[s].gen < MaxGen
    /\ Starts(s, [row[s] EXCEPT !.at = "preparing", !.gen = @ + 1, !.stop = FALSE])

RestartDue(s) ==
    /\ row[s].at = "backoff" /\ ~row[s].stop /\ row[s].gen < MaxGen
    /\ Starts(s, [row[s] EXCEPT !.at = "preparing", !.gen = @ + 1])

Becomes(s, r) ==
    /\ row' = [row EXCEPT ![s] = r]
    /\ UNCHANGED <<saved, threads, disk, listed, crashed, history>>

(* A start or a wait is over at once, a process is asked to stop, and what   *)
(* has ended keeps the flag.                                                 *)
Kill(s) ==
    /\ Present(s)
    /\ \/ /\ row[s].at \in {"preparing", "backoff"} /\ row[s].gen < MaxGen
          /\ Becomes(s, [row[s] EXCEPT !.at = "stopped", !.gen = @ + 1, !.stop = TRUE])
       \/ /\ row[s].at \in {"live", "tearing", "stopped"} /\ ~row[s].stop
          /\ Becomes(s, [row[s] EXCEPT !.stop = TRUE])

-----------------------------------------------------------------------------
(* The start worker *)

Goes(w, at) == workers' = (workers \ {w}) \cup {[w EXCEPT !.at = at]}

Proceeds(w, at) ==
    /\ Goes(w, at)
    /\ UNCHANGED <<row, saved, teardowns, archives, disk, listed, crashed, history>>

(* provision_worktree, before git.  A session whose checkout is lost asks git *)
(* for another one in a directory that is gone, and is refused.              *)
ProvisionWorktree(w) ==
    /\ w.at = "provision"
    /\ LET place == row[w.id].place IN
       Proceeds(w, IF ~Present(w.id) \/ (place = "lost" /\ ~Standing(w.id)) THEN "fail"
                   ELSE IF place \in {"wanted", "lost"} THEN "create" ELSE "load")

(* worktree::create.  It refuses what is there already; git may fail, and     *)
(* killed at its deadline it leaves what it had made.                        *)
CreateWorktree(w) ==
    /\ w.at = "create"
    /\ \/ /\ w.id \notin checkout \cup branch
          /\ checkout' = checkout \cup {w.id}
          /\ branch' = branch \cup {w.id}
          /\ Goes(w, "record")
          /\ UNCHANGED astray
       \/ /\ w.id \notin checkout \cup branch
          /\ branch' = branch \cup {w.id}
          /\ \/ checkout' = checkout \cup {w.id} /\ astray' = astray \cup {w.id}
             \/ UNCHANGED <<checkout, astray>>
          /\ Goes(w, "fail")
       \/ Goes(w, "fail") /\ UNCHANGED <<checkout, branch, astray>>
    /\ UNCHANGED <<row, saved, teardowns, archives, database, up, listed, crashed,
                   told, spilled, doubled>>

(* An archive that has read the row already will not remove this checkout. *)
Overtaken(s) == \E a \in archives : a.id = s /\ a.at # "read"

(* Slip: a checkout whose row went away is left where it is. *)
RecordOrLeave(w) ==
    /\ w.at = "record"
    /\ IF Present(w.id)
       THEN /\ row' = [row EXCEPT ![w.id].place = "named"]
            /\ astray' = IF Overtaken(w.id) THEN astray \cup {w.id} ELSE astray
            /\ Goes(w, "load")
       ELSE UNCHANGED <<row, astray>> /\ Goes(w, "fail")
    /\ UNCHANGED <<saved, teardowns, archives, disk, listed, crashed, told, spilled, doubled>>

RecordWorktree(w) ==
    /\ w.at = "record"
    /\ IF Present(w.id)
       THEN /\ row' = [row EXCEPT ![w.id].place = "named"]
            /\ astray' = IF Overtaken(w.id) THEN astray \cup {w.id} ELSE astray
            /\ Goes(w, "load")
       ELSE UNCHANGED <<row, astray>> /\ Goes(w, "orphan")
    /\ UNCHANGED <<saved, teardowns, archives, disk, listed, crashed, told, spilled, doubled>>

(* worktree::remove: it goes, or a failure is told of.  The branch may stay   *)
(* with commits that are merged nowhere.                                     *)
Removed(s) ==
    /\ \/ /\ checkout' = checkout \ {s} /\ UNCHANGED astray
          /\ branch' \in {branch, branch \ {s}}
       \/ s \in checkout /\ astray' = astray \cup {s} /\ UNCHANGED <<checkout, branch>>
    /\ UNCHANGED <<database, up, told, spilled, doubled>>

RemoveOrphan(w) ==
    /\ w.at = "orphan"
    /\ Removed(w.id)
    /\ Goes(w, "fail")
    /\ UNCHANGED <<row, saved, teardowns, archives, listed, crashed>>

(* runtime_environment and Lease::load.  A directory without the file, or no  *)
(* directory, declares no lease.                                             *)
LoadLease(w) ==
    /\ w.at = "load"
    /\ \/ Proceeds(w, "fail")
       \/ Present(w.id) /\ Proceeds(w, IF Standing(w.id) THEN "database" ELSE "setup")

(* apply_lease: CREATE DATABASE refuses one that is there. *)
ApplyLease(w) ==
    /\ w.at = "database"
    /\ \/ /\ w.id \notin database
          /\ database' = database \cup {w.id}
          /\ Goes(w, "setup")
       \/ Goes(w, "unwind") /\ UNCHANGED database
    /\ UNCHANGED <<row, saved, teardowns, archives, checkout, branch, up, listed,
                   crashed, history>>

(* A hook that fails or is killed at its deadline may have done its work. *)
RunSetup(w) ==
    /\ w.at = "setup"
    /\ \/ Standing(w.id) /\ up' = up \cup {w.id} /\ Goes(w, "check")
       \/ Standing(w.id) /\ up' = up \cup {w.id} /\ Goes(w, "unwind")
       \/ Goes(w, "unwind") /\ UNCHANGED up
    /\ UNCHANGED <<row, saved, teardowns, archives, checkout, branch, database, listed,
                   crashed, history>>

(* start_is_current *)
CheckStart(w) ==
    /\ w.at = "check"
    /\ LET r == row[w.id] IN
       Proceeds(w, IF r.gen = w.gen /\ ~r.stop /\ r.at = "preparing"
                   THEN "spawn" ELSE "unwind")

Accepted(w) ==
    LET r == row[w.id] IN r.at = "preparing" /\ r.gen = w.gen /\ ~r.stop

(* Slip: the row still counts as torn down. *)
SpawnStillTorn(w) ==
    /\ w.at = "spawn"
    /\ \/ /\ Accepted(w) /\ Standing(w.id)
          /\ row' = [row EXCEPT ![w.id].at = "live"]
          /\ workers' = workers \ {w}
       \/ Goes(w, "unwind") /\ UNCHANGED row
    /\ UNCHANGED <<saved, teardowns, archives, disk, listed, crashed, history>>

(* spawn_pty and what accepts its process *)
SpawnProcess(w) ==
    /\ w.at = "spawn"
    /\ \/ /\ Accepted(w) /\ Standing(w.id)
          /\ row' = [row EXCEPT ![w.id].at = "live", ![w.id].torn = FALSE]
          /\ workers' = workers \ {w}
       \/ Goes(w, "unwind") /\ UNCHANGED row
    /\ UNCHANGED <<saved, teardowns, archives, disk, listed, crashed, history>>

(* run_teardown alone: no start that fails releases its lease. *)
Unwind(w) ==
    /\ w.at = "unwind"
    /\ up' \in {up} \cup (IF Standing(w.id) THEN {up \ {w.id}} ELSE {})
    /\ spilled' = IF w.id \in database THEN spilled \cup {w.id} ELSE spilled
    /\ Goes(w, "fail")
    /\ UNCHANGED <<row, saved, teardowns, archives, checkout, branch, database, listed,
                   crashed, told, astray, doubled>>

(* finish_start_failure *)
FinishStartFailure(w) ==
    /\ w.at = "fail"
    /\ workers' = workers \ {w}
    /\ row' = IF Accepted(w) THEN [row EXCEPT ![w.id].at = "stopped"] ELSE row
    /\ UNCHANGED <<saved, teardowns, archives, disk, listed, crashed, history>>

-----------------------------------------------------------------------------
(* The process and the teardown *)

(* The SessionStart hook brings the id to resume by. *)
Report(s) ==
    /\ row[s].at = "live" /\ ~row[s].resume
    /\ Becomes(s, [row[s] EXCEPT !.resume = TRUE])

(* mark_process_exit.  An exit nobody asked for may earn a restart. *)
Exit(s) ==
    /\ row[s].at = "live" /\ row[s].gen < MaxGen
    /\ \E restart \in IF row[s].stop THEN {FALSE} ELSE BOOLEAN :
         LET r == [row[s] EXCEPT !.gen = @ + 1, !.stop = FALSE] IN
         IF row[s].torn
         THEN /\ row' = [row EXCEPT ![s] = [r EXCEPT
                           !.at = IF restart THEN "backoff" ELSE "stopped"]]
              /\ UNCHANGED teardowns
         ELSE /\ row' = [row EXCEPT ![s] = [r EXCEPT !.at = "tearing", !.torn = TRUE]]
              /\ teardowns' = teardowns \cup
                   {[id |-> s, gen |-> r.gen, at |-> "lease", restart |-> restart]}
    /\ UNCHANGED <<saved, workers, archives, disk, listed, crashed, history>>

Turns(t, at) == teardowns' = (teardowns \ {t}) \cup {[t EXCEPT !.at = at]}

(* Without its directory the lease cannot be read, which is no failure. *)
ReleaseLease(t) ==
    /\ t.at = "lease"
    /\ Turns(t, "hook")
    /\ IF Standing(t.id)
       THEN /\ \/ database' = database \ {t.id} /\ UNCHANGED told
               \/ told' = told \cup {t.id} /\ UNCHANGED database
            /\ UNCHANGED spilled
       ELSE /\ spilled' = IF t.id \in database THEN spilled \cup {t.id} ELSE spilled
            /\ UNCHANGED <<database, told>>
    /\ UNCHANGED <<row, saved, workers, archives, checkout, branch, up, listed, crashed,
                   astray, doubled>>

RunTeardown(t) ==
    /\ t.at = "hook"
    /\ Turns(t, "finish")
    /\ up' \in {up} \cup (IF Standing(t.id) THEN {up \ {t.id}} ELSE {})
    /\ UNCHANGED <<row, saved, workers, archives, checkout, branch, database, listed,
                   crashed, history>>

FinishTeardown(t) ==
    /\ t.at = "finish"
    /\ teardowns' = teardowns \ {t}
    /\ row' = IF row[t.id].gen = t.gen /\ row[t.id].at = "tearing"
              THEN [row EXCEPT ![t.id].at = IF t.restart THEN "backoff" ELSE "stopped"]
              ELSE row
    /\ UNCHANGED <<saved, workers, archives, disk, listed, crashed, history>>

-----------------------------------------------------------------------------
(* Archive, in a client's thread *)

ArchiveAsked(s) ==
    /\ Present(s) /\ row[s].at # "live"
    /\ ~\E a \in archives : a.id = s
    /\ archives' = archives \cup {[id |-> s, at |-> "read"]}
    /\ UNCHANGED <<row, saved, workers, teardowns, disk, listed, crashed, history>>

Serves(a, b) == archives' = (archives \ {a}) \cup {b}

(* release_worktree reads the row before it removes the checkout. *)
ReadWorktree(a) ==
    /\ a.at = "read"
    /\ Serves(a, [a EXCEPT !.at = IF Named(a.id) THEN "release" ELSE "remove"])
    /\ UNCHANGED <<row, saved, workers, teardowns, disk, listed, crashed, history>>

ReleaseWorktree(a) ==
    /\ a.at = "release"
    /\ Removed(a.id)
    /\ Serves(a, [a EXCEPT !.at = "remove"])
    /\ UNCHANGED <<row, saved, workers, teardowns, listed, crashed>>

RemoveRow(a) ==
    /\ a.at = "remove"
    /\ archives' = archives \ {a}
    /\ IF Present(a.id) /\ row[a.id].at # "live"
       THEN /\ row' = [row EXCEPT ![a.id].at = "gone"]
            /\ spilled' = IF a.id \in database THEN spilled \cup {a.id} ELSE spilled
       ELSE UNCHANGED <<row, spilled>>
    /\ UNCHANGED <<saved, workers, teardowns, disk, listed, crashed, told, astray, doubled>>

-----------------------------------------------------------------------------
(* Checkouts: the agent, the survey and the operator *)

AgentRemoves(s) ==
    /\ row[s].at = "live" /\ s \in checkout /\ Named(s)
    /\ checkout' = checkout \ {s}
    /\ UNCHANGED <<row, saved, threads, branch, database, up, listed, crashed, history>>

(* HookSignal::WorktreeRemove *)
WorktreeRemove(s) ==
    /\ row[s].at = "live" /\ Named(s) /\ s \notin checkout
    /\ Becomes(s, [row[s] EXCEPT !.place = "lost"])

(* stale_worktrees: the directories no row names.  Those whose branch holds   *)
(* work of its own are shown, but reap refuses them.                         *)
Survey ==
    /\ \E merged \in SUBSET checkout : listed' = {s \in merged : ~Named(s)}
    /\ UNCHANGED <<row, saved, threads, disk, crashed, history>>

(* reap takes the list's word for it. *)
Reap(s) ==
    /\ s \in listed
    /\ listed' = listed \ {s}
    /\ Removed(s)
    /\ UNCHANGED <<row, saved, threads, crashed>>

-----------------------------------------------------------------------------
(* The store *)

Saved(s) == [known |-> Present(s), place |-> row[s].place, resume |-> row[s].resume]

Save ==
    /\ saved' = [s \in Session |-> Saved(s)]
    /\ UNCHANGED <<row, threads, disk, listed, crashed, history>>

Restored(s) ==
    IF saved[s].known
    THEN [at |-> "stopped", gen |-> 1, stop |-> FALSE, torn |-> TRUE,
          place |-> saved[s].place, resume |-> saved[s].resume]
    ELSE [row[s] EXCEPT !.at = IF @ = "unborn" THEN "unborn" ELSE "gone"]

(* The daemon ends, with its threads and the processes it owns, and starts. *)
Crash ==
    /\ ~crashed /\ 1 <= MaxGen
    /\ crashed' = TRUE
    /\ row' = [s \in Session |-> Restored(s)]
    /\ workers' = {} /\ teardowns' = {} /\ archives' = {}
    /\ spilled' = spilled \cup database
    /\ astray' = astray \cup {s \in checkout : ~(saved[s].known /\ saved[s].place = "named")}
    /\ UNCHANGED <<saved, disk, listed, told, doubled>>

-----------------------------------------------------------------------------

StartWorker(w) ==
    \/ ProvisionWorktree(w) \/ CreateWorktree(w) \/ RecordWorktree(w) \/ RemoveOrphan(w)
    \/ LoadLease(w) \/ ApplyLease(w) \/ RunSetup(w) \/ CheckStart(w) \/ SpawnProcess(w)
    \/ Unwind(w) \/ FinishStartFailure(w)

TeardownWorker(t) == ReleaseLease(t) \/ RunTeardown(t) \/ FinishTeardown(t)

ArchiveThread(a) == ReadWorktree(a) \/ ReleaseWorktree(a) \/ RemoveRow(a)

Request(s) == Launch(s) \/ Revive(s) \/ RestartDue(s) \/ Kill(s) \/ ArchiveAsked(s)

Process(s) == Report(s) \/ Exit(s) \/ AgentRemoves(s) \/ WorktreeRemove(s)

Next ==
    \/ \E s \in Session : Request(s) \/ Process(s) \/ Reap(s)
    \/ \E w \in workers : StartWorker(w)
    \/ \E t \in teardowns : TeardownWorker(t)
    \/ \E a \in archives : ArchiveThread(a)
    \/ Survey \/ Save \/ Crash

Spec == Init /\ [][Next]_vars

-----------------------------------------------------------------------------
(* Properties *)

(* The environment a process was started in stands as long as the process:   *)
(* nothing drops its database or runs its teardown hook before its exit, as  *)
(* long as the row never had two start workers at once.                      *)
EnvironmentStands ==
    \A s \in Session : row[s].at = "live" /\ s \notin doubled => s \in up \cap database

(* Somebody will drop a session's database: a start that has yet to hand it   *)
(* to a process, the exit of that process, or a teardown that has yet to     *)
(* reach it.  Otherwise its failure was told, or it was left by one of the    *)
(* ways on which the code drops nothing (spilled).                           *)
DatabaseHasAnEnd ==
    \A s \in database :
      \/ row[s].at = "live"
      \/ \E w \in workers : w.id = s /\ w.at \in {"setup", "check", "spawn", "unwind"}
      \/ \E t \in teardowns : t.id = s /\ t.at = "lease"
      \/ s \in told \cup spilled

(* A checkout is named by its row, or in the hands of the worker that made   *)
(* it, but for those git, a crash or an archive that overlapped left astray.  *)
CheckoutIsNamed ==
    \A s \in checkout :
      \/ Named(s)
      \/ \E w \in workers : w.id = s /\ w.at \in {"record", "orphan"}
      \/ s \in astray

-----------------------------------------------------------------------------
(* What the words of the code promise and its steps do not *)

(* Whatever the operator does, an environment stands under its process.      *)
AlwaysStands == \A s \in Session : row[s].at = "live" => s \in up

(* Nothing leaks without a word (lease.rs:23-26).                            *)
LeaksAreTold ==
    \A s \in database :
      row[s].at \in {"stopped", "gone"} /\ workers = {} /\ ~crashed => s \in told

(* No start is refused for what an earlier one of the session left behind.   *)
StartsAfresh ==
    \A w \in workers :
      /\ w.at = "create" => w.id \notin checkout \cup branch
      /\ w.at = "database" => w.id \notin database

(* No reap takes a checkout away from a row that names it now.               *)
ReapsOnlyLeftovers ==
    [][\A s \in Session : s \in listed \ listed' /\ s \in checkout \ checkout' => ~Named(s)]_vars
=============================================================================
