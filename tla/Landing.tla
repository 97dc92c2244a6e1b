------------------------------- MODULE Landing -------------------------------
(***************************************************************************)
(* Landing a session's work (crates/terminalai-core/src/land.rs), with     *)
(* what the daemon does after it (dispatch.rs, Request::Land): a client    *)
(* asks for the uncommitted work of a source tree to be applied to a       *)
(* target tree; one landing runs at a time; each reads its preconditions   *)
(* when it has the gate, applies the patch, may run the operator's verify  *)
(* command and reverses the patch when that fails; afterwards the landing  *)
(* is recorded on the row the request names and the row may be archived,   *)
(* which removes its checkout and deletes its branch (registry/mod.rs,     *)
(* worktree.rs).                                                           *)
(*                                                                         *)
(* A tree is what git sees of a directory: the changes its HEAD holds, the *)
(* changes its tracked files hold, the changes in untracked files and the  *)
(* commits that were pushed to the upstream of its branch.                 *)
(* Agents, the operator and git work on the trees at any step, the gate    *)
(* keeps none of them out.  A client is a connection's thread and makes    *)
(* one request.                                                            *)
(***************************************************************************)
EXTENDS Naturals, FiniteSets

CONSTANTS
    Session,    \* the rows, each with a checkout of its own
    Client,     \* the threads that serve a land or an archive request
    Change,     \* edits an agent or the operator may make
    Main,       \* the repository the checkouts were cut from
    None,       \* no client, no session, no pin
    MaxOthers   \* bound on the steps of everyone but the daemon

ASSUME NamesAreDistinct == Main \notin Session /\ None \notin Session \cup Client
ASSUME MaxOthersIsNat == MaxOthers \in Nat

VARIABLES
    tree,       \* Place -> what git sees there
    there,      \* Session -> its checkout exists, whole
    branch,     \* Session -> its branch exists
    row,        \* Session -> "live" (a process), "ended" or "gone" (archived)
    landed,     \* the sessions whose row records a landing
    job,        \* Client -> its request and how far it is
    gate,       \* the client whose landing runs, LandQueue's mutex
    others      \* the steps of agents and operator so far

vars == <<tree, there, branch, row, landed, job, gate, others>>

Place == Session \cup {Main}

Tree == [head : SUBSET Change, files : SUBSET Change, new : SUBSET Change,
         pushed : SUBSET Change]

(* What run_land does while it holds the gate, step by step *)
Within == {"head", "dirty", "patch", "check", "write", "verify", "reverse"}

Stage == Within \cup
         {"idle", "waiting", "owner", "record", "archive", "release", "branch", "remove",
          "done"}

(* LandOutcome with the refusals the properties tell apart: TargetDirty,     *)
(* VerifyFailedAndNotReversed ("mixed"), an Unavailable of a git apply that *)
(* was killed while it wrote ("cut") and all others.                        *)
Outcome == {"none", "landed", "dirty", "mixed", "cut", "refused"}

(* A request and the thread's locals.  What a request asks for later on     *)
(* (verify, the session to record, the archive) is chosen where the code    *)
(* reads it; found is what the target holds apart from this landing.        *)
Job == [at : Stage, session : Session \cup {None}, source : Place \cup {None},
        target : Place, pin : (SUBSET Change) \cup {None}, patch : SUBSET Change,
        found : SUBSET Change, out : Outcome]

TypeOK ==
    /\ tree \in [Place -> Tree]
    /\ there \in [Session -> BOOLEAN]
    /\ branch \in [Session -> BOOLEAN]
    /\ row \in [Session -> {"live", "ended", "gone"}]
    /\ landed \subseteq Session
    /\ job \in [Client -> Job]
    /\ gate \in Client \cup {None}
    /\ others \in 0..MaxOthers

Exists(p) == p \in {Main} \cup {s \in Session : there[s]}

(* git status --porcelain is empty *)
Dirty(p) == tree[p].files # tree[p].head \/ tree[p].new # {}

(* git diff HEAD: the tracked files only *)
SourcePatch(s) == tree[s].files \ tree[s].head

(* git apply --check: every hunk fits, so none of it is there already *)
Fits(p, patch) == patch \cap (tree[p].files \cup tree[p].new) = {}

Idle == [at |-> "idle", session |-> None, source |-> None, target |-> Main, pin |-> None,
         patch |-> {}, found |-> {}, out |-> "none"]

Init ==
    /\ tree = [p \in Place |-> [head |-> {}, files |-> {}, new |-> {}, pushed |-> {}]]
    /\ there = [s \in Session |-> TRUE]
    /\ branch = [s \in Session |-> TRUE]
    /\ row = [s \in Session |-> "live"]
    /\ landed = {}
    /\ job = [c \in Client |-> Idle]
    /\ gate = None
    /\ others = 0

-----------------------------------------------------------------------------
(* The requests.  Any directory may be the source and any the target, and a *)
(* pin is optional.  The review page names the session's own directory as   *)
(* both and pins the head it showed.                                        *)

Request(s, t, pin) ==
    [Idle EXCEPT !.at = "waiting", !.source = s, !.target = t, !.pin = pin]

AskLanding(c) ==
    /\ job[c].at = "idle"
    /\ \E s \in Place, t \in Place : \E pin \in {None, tree[t].head} :
         job' = [job EXCEPT ![c] = Request(s, t, pin)]
    /\ UNCHANGED <<tree, there, branch, row, landed, gate>>

(* Archive asked for by itself. *)
AskArchive(c) ==
    /\ job[c].at = "idle"
    /\ \E s \in Session :
         job' = [job EXCEPT ![c].at = "archive", ![c].session = s]
    /\ UNCHANGED <<tree, there, branch, row, landed, gate>>

-----------------------------------------------------------------------------
(* run_land under the gate *)

(* Fault: landings are not serialised. *)
EnterUngated(c) ==
    /\ job[c].at = "waiting"
    /\ gate' = c
    /\ job' = [job EXCEPT ![c].at = "head"]
    /\ UNCHANGED <<tree, there, branch, row, landed>>

Enter(c) ==
    /\ job[c].at = "waiting"
    /\ gate = None
    /\ gate' = c
    /\ job' = [job EXCEPT ![c].at = "head"]
    /\ UNCHANGED <<tree, there, branch, row, landed>>

(* What a thread may go on with once run_land has returned.  The daemon does *)
(* more only after a landing, and if the request names a session, whichever *)
(* it is.                                                                   *)
After(j, out) ==
    IF out = "landed"
    THEN {[j EXCEPT !.at = "owner", !.session = n, !.pin = None, !.found = {}, !.out = out] :
            n \in Session}
         \cup {[j EXCEPT !.at = "done", !.pin = None, !.found = {}, !.out = out]}
    ELSE {[Idle EXCEPT !.at = "done", !.out = out]}


(* run_land returns and the guard is dropped. *)
Return(c, out) ==
    /\ gate' = None
    /\ \E j \in After(job[c], out) : job' = [job EXCEPT ![c] = j]
    /\ UNCHANGED <<there, branch, row, landed>>

Proceed(c, at) ==
    /\ job' = [job EXCEPT ![c].at = at]
    /\ UNCHANGED <<tree, there, branch, row, landed, gate>>

(* Any git step may fail or outlive its 30 seconds. *)
Unavailable(c) ==
    /\ job[c].at \in {"head", "dirty", "patch", "check", "write"}
    /\ Return(c, "refused")
    /\ UNCHANGED tree

ReadHead(c) ==
    LET j == job[c] IN
    /\ j.at = "head"
    /\ Exists(j.target)
    /\ \/ /\ j.pin \notin {None, tree[j.target].head}
          /\ Return(c, "refused")
          /\ UNCHANGED tree
       \/ /\ j.pin \in {None, tree[j.target].head}
          /\ job' = [job EXCEPT ![c].at = "dirty", ![c].found = tree[j.target].files]
          /\ UNCHANGED <<tree, there, branch, row, landed, gate>>

CheckDirty(c) ==
    LET j == job[c] IN
    /\ j.at = "dirty"
    /\ Exists(j.target)
    /\ \/ Dirty(j.target) /\ Return(c, "dirty") /\ UNCHANGED tree
       \/ ~Dirty(j.target) /\ Proceed(c, "patch")

(* conflicted_paths and source_patch *)
ReadPatch(c) ==
    LET j == job[c] IN
    /\ j.at = "patch"
    /\ Exists(j.source)
    /\ \/ Return(c, "refused") /\ UNCHANGED tree
       \/ SourcePatch(j.source) = {} /\ Return(c, "refused") /\ UNCHANGED tree
       \/ /\ SourcePatch(j.source) # {}
          /\ job' = [job EXCEPT ![c].at = "check", ![c].patch = SourcePatch(j.source)]
          /\ UNCHANGED <<tree, there, branch, row, landed, gate>>

(* The context of a hunk may have changed even where the hunk is new. *)
CheckPatch(c) ==
    LET j == job[c] IN
    /\ j.at = "check"
    /\ \/ Return(c, "refused") /\ UNCHANGED tree
       \/ Fits(j.target, j.patch) /\ Proceed(c, "write")

Holding(p, files) == tree' = [tree EXCEPT ![p].files = files]

WritePatch(c) ==
    LET j == job[c] IN
    /\ j.at = "write"
    /\ Exists(j.target)
    /\ \/ Return(c, "refused") /\ UNCHANGED tree
       \/ /\ Fits(j.target, j.patch)
          /\ Holding(j.target, tree[j.target].files \cup j.patch)
          /\ \/ Return(c, "landed")
             \/ /\ job' = [job EXCEPT ![c].at = "verify"]
                /\ UNCHANGED <<there, branch, row, landed, gate>>

(* Killed at its deadline, git apply leaves the files it had written. *)
WriteCutOff(c) ==
    LET j == job[c] IN
    /\ j.at = "write"
    /\ Exists(j.target)
    /\ Fits(j.target, j.patch)
    /\ \E part \in SUBSET j.patch :
         Holding(j.target, tree[j.target].files \cup part)
    /\ Return(c, "cut")

(* It passes, or it fails, cannot start or is killed at its deadline. *)
RunVerify(c) ==
    /\ job[c].at = "verify"
    /\ \/ Return(c, "landed") /\ UNCHANGED tree
       \/ Proceed(c, "reverse")

Reverse(c) ==
    LET j == job[c] IN
    /\ j.at = "reverse"
    /\ \/ /\ Exists(j.target)
          /\ j.patch \subseteq tree[j.target].files
          /\ Holding(j.target, tree[j.target].files \ j.patch)
          /\ Return(c, "refused")
       \/ /\ \E part \in SUBSET j.patch :
               /\ part = {} \/ Exists(j.target)
               /\ Holding(j.target, tree[j.target].files \ part)
          /\ Return(c, "mixed")

-----------------------------------------------------------------------------
(* The daemon after a landing, and the registry's archive *)

(* owns_source *)
CheckOwner(c) ==
    LET j == job[c] IN
    /\ j.at = "owner"
    /\ Proceed(c, IF row[j.session] # "gone" /\ j.source = j.session /\ there[j.session]
                  THEN "record" ELSE "done")

(* record_landing; a row that vanished is only logged.  The archive is the  *)
(* request's choice.                                                        *)
RecordLanding(c) ==
    LET j == job[c] IN
    /\ j.at = "record"
    /\ landed' = IF row[j.session] = "gone" THEN landed ELSE landed \cup {j.session}
    /\ \E at \in {"archive", "done"} : job' = [job EXCEPT ![c].at = at]
    /\ UNCHANGED <<tree, there, branch, row, gate>>

CheckStopped(c) ==
    /\ job[c].at = "archive"
    /\ Proceed(c, IF row[job[c].session] = "ended" THEN "release" ELSE "done")

(* git worktree remove --force, and remove_dir_all when that fails: the      *)
(* directory goes whatever is in it, or nothing of it could be removed,     *)
(* which is only reported.                                                  *)
ReleaseWorktree(c) ==
    LET s == job[c].session IN
    /\ job[c].at = "release"
    /\ \/ /\ there' = [there EXCEPT ![s] = FALSE]
          /\ tree' = [tree EXCEPT ![s].files = tree[s].head, ![s].new = {}]
       \/ UNCHANGED <<tree, there>>
    /\ job' = [job EXCEPT ![c].at = "branch"]
    /\ UNCHANGED <<branch, row, landed, gate>>

(* git branch -d takes a branch whose commits HEAD of the repository or its  *)
(* upstream has.  It refuses the branch of a checkout that is still there.  *)
Merged(s) == tree[s].head \subseteq tree[Main].head \/ tree[s].head \subseteq tree[s].pushed

(* Fault: the branch is deleted with -D. *)
DeleteAnyBranch(c) ==
    LET s == job[c].session IN
    /\ job[c].at = "branch"
    /\ branch' = [branch EXCEPT ![s] = there[s]]
    /\ job' = [job EXCEPT ![c].at = "remove"]
    /\ UNCHANGED <<tree, there, row, landed, gate>>

(* Whatever became of the directory.  A failure keeps the branch. *)
DeleteBranch(c) ==
    LET s == job[c].session IN
    /\ job[c].at = "branch"
    /\ \/ UNCHANGED branch
       \/ ~there[s] /\ Merged(s) /\ branch' = [branch EXCEPT ![s] = FALSE]
    /\ job' = [job EXCEPT ![c].at = "remove"]
    /\ UNCHANGED <<tree, there, row, landed, gate>>

RemoveRow(c) ==
    LET s == job[c].session IN
    /\ job[c].at = "remove"
    /\ row' = IF row[s] = "ended" THEN [row EXCEPT ![s] = "gone"] ELSE row
    /\ job' = [job EXCEPT ![c].at = "done"]
    /\ UNCHANGED <<tree, there, branch, landed, gate>>

-----------------------------------------------------------------------------
(* Everyone else who works on the trees.  found follows what they do to the *)
(* target of a landing, so that it is the target as it would be without it. *)

Others(p, t) ==
    /\ tree' = [tree EXCEPT ![p] = t]
    /\ job' = [c \in Client |->
                 IF job[c].target = p /\ job[c].at \in Within \ {"head"}
                 THEN [job[c] EXCEPT !.found = @ \cup (t.files \ tree[p].files)]
                 ELSE job[c]]
    /\ UNCHANGED <<there, branch, row, landed, gate>>

(* The operator writes in the repository, an agent in its checkout. *)
Writer(p) == p \in {Main} \cup {s \in Session : row[s] = "live" /\ there[s]}

(* An edit of a tracked file, or of one git does not know yet. *)
Edit(p) ==
    /\ Writer(p)
    /\ \E x \in Change \ (tree[p].files \cup tree[p].new) :
         \/ Others(p, [tree[p] EXCEPT !.files = @ \cup {x}])
         \/ Others(p, [tree[p] EXCEPT !.new = @ \cup {x}])

(* git add -A and git commit.  Commits only add changes here, so that head   *)
(* also stands for the history behind it.                                   *)
Commit(p) ==
    /\ Writer(p)
    /\ Dirty(p)
    /\ tree[p].head \subseteq tree[p].files
    /\ LET all == tree[p].files \cup tree[p].new IN
       Others(p, [tree[p] EXCEPT !.head = all, !.files = all, !.new = {}])

(* git push -u of a session's branch *)
Push(s) ==
    /\ Writer(s)
    /\ Others(s, [tree[s] EXCEPT !.pushed = @ \cup tree[s].head])

(* The operator merges a session's branch; git refuses to merge over        *)
(* uncommitted changes of the same files.                                   *)
Merge(s) ==
    LET t == tree[Main]
        fresh == tree[s].head \ t.head IN
    /\ branch[s]
    /\ fresh # {}
    /\ fresh \cap ((t.files \ t.head) \cup t.new) = {}
    /\ Others(Main, [t EXCEPT !.head = @ \cup fresh, !.files = @ \cup fresh])

Exit(s) ==
    /\ row[s] = "live"
    /\ row' = [row EXCEPT ![s] = "ended"]
    /\ UNCHANGED <<tree, there, branch, landed, job, gate>>

(* A revive attaches a process; the recorded worktree is not cut again. *)
Revive(s) ==
    /\ row[s] = "ended"
    /\ row' = [row EXCEPT ![s] = "live"]
    /\ UNCHANGED <<tree, there, branch, landed, job, gate>>

-----------------------------------------------------------------------------

Thread(c) ==
    \/ Enter(c) \/ Unavailable(c) \/ ReadHead(c) \/ CheckDirty(c) \/ ReadPatch(c)
    \/ CheckPatch(c) \/ WritePatch(c) \/ WriteCutOff(c) \/ RunVerify(c) \/ Reverse(c)
    \/ CheckOwner(c) \/ RecordLanding(c)
    \/ CheckStopped(c) \/ ReleaseWorktree(c) \/ DeleteBranch(c) \/ RemoveRow(c)

Serve(c) == Thread(c) /\ UNCHANGED others

Ask(c) == (AskLanding(c) \/ AskArchive(c)) /\ UNCHANGED others

World ==
    /\ others < MaxOthers
    /\ others' = others + 1
    /\ \/ \E p \in Place : Edit(p) \/ Commit(p)
       \/ \E s \in Session : Push(s) \/ Merge(s) \/ Exit(s) \/ Revive(s)

Next == (\E c \in Client : Ask(c) \/ Serve(c)) \/ World

Spec == Init /\ [][Next]_vars

(* A thread goes on with its request: every step it waits for has a         *)
(* deadline, so it never waits for anything but the gate.                   *)
FairSpec == Spec /\ \A c \in Client : WF_vars(Serve(c))

-----------------------------------------------------------------------------
(* Properties *)

(* Never partial (land.rs:10): when a landing ends, the target holds the     *)
(* whole patch beside what everyone else made of it, or nothing of the       *)
(* patch.  Excepted are a reversal that failed, which says so, and a git      *)
(* apply that was cut off.                                                   *)
EndsWhole(c) ==
    LET j == job[c]
        files == tree'[j.target].files
        out == job'[c].out
        ends == /\ j.at \in Within \ {"head"} /\ job'[c].at \notin Within
                /\ j.target \in {Main} \cup {s \in Session : there'[s]} IN
    ends => /\ out = "landed" => files = j.found \cup j.patch
            /\ out \in {"dirty", "refused"} => files = j.found

Whole == [][\A c \in Client : EndsWhole(c)]_vars

(* What a landing left in a target that nobody has committed yet *)
Loose(c) ==
    IF job[c].at \in {"verify", "reverse"} \/ job[c].out = "landed"
    THEN job[c].patch \ tree[job[c].target].head
    ELSE {}

(* Each landing sees the result of the last (land.rs:193-198): the patches   *)
(* of two landings never lie uncommitted in one target, where a verify       *)
(* command would judge them together and a reversal be ambiguous.            *)
OneLandingAtATime ==
    \A c, d \in Client :
      c # d /\ Loose(c) # {} /\ Loose(d) # {} => job[c].target # job[d].target

(* A row records a landing, or goes without having been asked to be          *)
(* archived, only when the tree that landed was its own (owns_source).       *)
RetiredForItsOwn ==
    \A s \in Session :
      LET landedItself == \E c \in Client :
            job[c].out = "landed" /\ job[c].session = s /\ job[c].source = s
          archived == \E c \in Client :
            job[c].out = "none" /\ job[c].session = s IN
      /\ s \in landed => landedItself
      /\ row[s] = "gone" => landedItself \/ archived

(* Whoever archives a row, and whenever the agent commits, no commit of the   *)
(* session is lost, also when its checkout could not be removed: its branch  *)
(* is there, or the repository or the upstream has them all                  *)
(* (worktree.rs:182-184).                                                    *)
CommitsKept == \A s \in Session : branch[s] \/ Merged(s)


(* A landing asked for from the review page is refused as dirty only when    *)
(* the target holds something else than the very work it is to land          *)
(* (CHANGELOG.md:1769, reviewPage.js:193-194).                               *)
ReviewCanLand ==
    [][\A c \in Client :
         LET j == job[c]
             refused == /\ job'[c].out = "dirty" /\ j.out # "dirty"
                        /\ j.target = j.source /\ j.source # Main /\ j.pin # None IN
         refused =>
           ~((tree[j.target].files \ tree[j.target].head) \cup tree[j.target].new
               \subseteq SourcePatch(j.source))]_vars

(* Nothing a session wrote is gone with its checkout once its landing        *)
(* succeeded and archived it.                                                *)
NothingLost ==
    [][\A c \in Client :
         job[c].out = "landed" /\ job[c].at = "release" /\ ~there'[job[c].session] =>
           LET s == job[c].session IN
           tree[s].files \cup tree[s].new \subseteq tree[job[c].target].files]_vars

(* A process has the checkout it was started in.                             *)
LiveHasCheckout == \A s \in Session : row[s] = "live" => there[s]
=============================================================================
