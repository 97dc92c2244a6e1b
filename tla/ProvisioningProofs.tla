------------------------- MODULE ProvisioningProofs -------------------------
(***************************************************************************)
(* Proofs about Provisioning, for any set of sessions and any number of    *)
(* generations.                                                            *)
(***************************************************************************)
EXTENDS Provisioning, TLAPS

LEMMA RowTyped == ASSUME TypeOK, NEW s \in Session PROVE row[s] \in Row
BY DEF TypeOK

LEMMA NextGeneration ==
  ASSUME NEW r \in Row, r.gen < MaxGen PROVE r.gen + 1 \in 0..MaxGen
BY MaxGenIsNat DEF Row

(* What an exit does to its row, and that a row not yet torn down gets the    *)
(* teardown its generation waits for.                                        *)
LEMMA ExitEffect ==
  ASSUME TypeOK, NEW s \in Session, Exit(s)
  PROVE  /\ row[s].at = "live"
         /\ row' \in [Session -> Row] /\ teardowns' \subseteq Teardown
         /\ \A d \in Session \ {s} : row'[d] = row[d]
         /\ row'[s].place = row[s].place
         /\ row[s].torn => row'[s].at \in {"backoff", "stopped"} /\ teardowns' = teardowns
         /\ ~row[s].torn =>
              /\ row'[s].at = "tearing"
              /\ \E t \in Teardown : /\ teardowns' = teardowns \cup {t}
                                     /\ t.id = s /\ t.gen = row'[s].gen /\ t.at = "lease"
<1>0. row[s] \in Row /\ row[s].at = "live" /\ row[s].gen < MaxGen
  BY RowTyped DEF Exit
<1> DEFINE r == [row[s] EXCEPT !.gen = @ + 1, !.stop = FALSE]
<1>1. r \in Row /\ r.gen \in 0..MaxGen /\ r.place = row[s].place
  BY <1>0, NextGeneration DEF Row
<1>2. PICK restart \in BOOLEAN :
        IF row[s].torn
        THEN /\ row' = [row EXCEPT ![s] = [r EXCEPT
                          !.at = IF restart THEN "backoff" ELSE "stopped"]]
             /\ UNCHANGED teardowns
        ELSE /\ row' = [row EXCEPT ![s] = [r EXCEPT !.at = "tearing", !.torn = TRUE]]
             /\ teardowns' = teardowns \cup
                  {[id |-> s, gen |-> r.gen, at |-> "lease", restart |-> restart]}
  BY DEF Exit
<1>3. \A at \in {"backoff", "stopped"} :
        /\ [r EXCEPT !.at = at] \in Row
        /\ [r EXCEPT !.at = at].at = at /\ [r EXCEPT !.at = at].place = r.place
  BY <1>1 DEF Row
<1>4. /\ [r EXCEPT !.at = "tearing", !.torn = TRUE] \in Row
      /\ [r EXCEPT !.at = "tearing", !.torn = TRUE].at = "tearing"
      /\ [r EXCEPT !.at = "tearing", !.torn = TRUE].gen = r.gen
      /\ [r EXCEPT !.at = "tearing", !.torn = TRUE].place = r.place
  BY <1>1 DEF Row
<1>5. [id |-> s, gen |-> r.gen, at |-> "lease", restart |-> restart] \in Teardown
  BY <1>1 DEF Teardown
<1> HIDE DEF r
<1>6. CASE row[s].torn
  BY <1>0, <1>1, <1>2, <1>3, <1>6 DEF TypeOK
<1>7. CASE ~row[s].torn
  BY <1>0, <1>1, <1>2, <1>4, <1>5, <1>7 DEF TypeOK
<1> QED
  BY <1>6, <1>7

(* A row that starts, and one that becomes another, keep their types.        *)
LEMMA StartsTypes ==
  ASSUME TypeOK, NEW s \in Session, NEW r \in Row, Starts(s, r) PROVE TypeOK'
<1>1. [id |-> s, gen |-> r.gen, at |-> "provision"] \in Worker
  BY DEF Row, Worker, Steps
<1>2. workers' \subseteq Worker
  BY <1>1 DEF TypeOK, Starts
<1> QED
  BY <1>2 DEF TypeOK, Starts, disk

LEMMA BecomesTypes ==
  ASSUME TypeOK, NEW s \in Session, NEW r \in Row, Becomes(s, r) PROVE TypeOK'
BY DEF TypeOK, Becomes, threads, disk, history

LEMMA TypeNext ==
  ASSUME TypeOK, [Next]_vars PROVE TypeOK'
<1>1. ASSUME NEW s \in Session, Launch(s) PROVE TypeOK'
  <2>1. PICK place \in {"shared", "wanted"} :
          Starts(s, [Unborn EXCEPT !.at = "preparing", !.gen = 1, !.place = place])
    BY <1>1 DEF Launch
  <2>2. 1 \in 0..MaxGen
    BY <1>1, MaxGenIsNat DEF Launch
  <2>3. [Unborn EXCEPT !.at = "preparing", !.gen = 1, !.place = place] \in Row
    BY <2>2 DEF Unborn, Row, Places
  <2> QED
    BY <2>1, <2>3, StartsTypes
<1>2. ASSUME NEW s \in Session, Revive(s) PROVE TypeOK'
  <2>0. row[s] \in Row
    BY RowTyped
  <2>1. row[s].gen < MaxGen
    BY <1>2 DEF Revive
  <2>2. [row[s] EXCEPT !.at = "preparing", !.gen = @ + 1, !.stop = FALSE] \in Row
    BY <2>1, <2>0, NextGeneration DEF Row
  <2> QED
    BY <1>2, <2>2, StartsTypes DEF Revive
<1>3. ASSUME NEW s \in Session, RestartDue(s) PROVE TypeOK'
  <2>0. row[s] \in Row
    BY RowTyped
  <2>1. row[s].gen < MaxGen
    BY <1>3 DEF RestartDue
  <2>2. [row[s] EXCEPT !.at = "preparing", !.gen = @ + 1] \in Row
    BY <2>1, <2>0, NextGeneration DEF Row
  <2> QED
    BY <1>3, <2>2, StartsTypes DEF RestartDue
<1>4. ASSUME NEW s \in Session, Kill(s) PROVE TypeOK'
  <2>0. row[s] \in Row
    BY RowTyped
  <2>1. row[s].gen < MaxGen =>
          [row[s] EXCEPT !.at = "stopped", !.gen = @ + 1, !.stop = TRUE] \in Row
    BY <2>0, NextGeneration DEF Row
  <2>2. [row[s] EXCEPT !.stop = TRUE] \in Row
    BY RowTyped DEF Row
  <2>3. \E r \in Row : Becomes(s, r)
    <3>1. CASE /\ row[s].gen < MaxGen
               /\ Becomes(s, [row[s] EXCEPT !.at = "stopped", !.gen = @ + 1, !.stop = TRUE])
      BY <2>1, <3>1
    <3>2. CASE Becomes(s, [row[s] EXCEPT !.stop = TRUE])
      BY <2>2, <3>2
    <3> QED
      BY <1>4, <3>1, <3>2 DEF Kill
  <2> QED
    BY <2>3, BecomesTypes
<1>5. ASSUME NEW s \in Session, ArchiveAsked(s) PROVE TypeOK'
  BY <1>5 DEF TypeOK, ArchiveAsked, Present, disk, history, Archiver
<1>6. ASSUME NEW s \in Session, Report(s) PROVE TypeOK'
  <2>1. [row[s] EXCEPT !.resume = TRUE] \in Row
    BY RowTyped DEF Row
  <2> QED
    BY <1>6, <2>1, BecomesTypes DEF Report
<1>7. ASSUME NEW s \in Session, Exit(s) PROVE TypeOK'
  BY <1>7, ExitEffect DEF TypeOK, Exit, disk, history
<1>8. ASSUME NEW s \in Session, AgentRemoves(s) PROVE TypeOK'
  BY <1>8 DEF TypeOK, AgentRemoves, Named, Present, threads, history
<1>9. ASSUME NEW s \in Session, WorktreeRemove(s) PROVE TypeOK'
  BY <1>9 DEF TypeOK, WorktreeRemove, Named, Present, Becomes, threads, disk, history,
     Row, Places
<1>10. ASSUME NEW s \in Session, Reap(s) PROVE TypeOK'
  BY <1>10 DEF TypeOK, Reap, Removed, threads
<1>11. ASSUME NEW w \in workers, ProvisionWorktree(w) PROVE TypeOK'
  BY <1>11 DEF TypeOK, ProvisionWorktree, Proceeds, Goes, disk, history, Present,
     Standing, Worker, Steps
<1>12. ASSUME NEW w \in workers, CreateWorktree(w) PROVE TypeOK'
  BY <1>12 DEF TypeOK, CreateWorktree, Goes, Worker, Steps
<1>13. ASSUME NEW w \in workers, RecordWorktree(w) PROVE TypeOK'
  BY <1>13 DEF TypeOK, RecordWorktree, Present, Overtaken, Goes, disk, Row, Places,
     Worker, Steps
<1>14. ASSUME NEW w \in workers, RemoveOrphan(w) PROVE TypeOK'
  BY <1>14 DEF TypeOK, RemoveOrphan, Removed, Goes, Worker, Steps
<1>15. ASSUME NEW w \in workers, LoadLease(w) PROVE TypeOK'
  BY <1>15 DEF TypeOK, LoadLease, Proceeds, Goes, disk, history, Present, Standing,
     Worker, Steps
<1>16. ASSUME NEW w \in workers, ApplyLease(w) PROVE TypeOK'
  BY <1>16 DEF TypeOK, ApplyLease, Goes, history, Worker, Steps
<1>17. ASSUME NEW w \in workers, RunSetup(w) PROVE TypeOK'
  BY <1>17 DEF TypeOK, RunSetup, Standing, Goes, history, Worker, Steps
<1>18. ASSUME NEW w \in workers, CheckStart(w) PROVE TypeOK'
  BY <1>18 DEF TypeOK, CheckStart, Proceeds, Goes, disk, history, Worker, Steps
<1>19. ASSUME NEW w \in workers, SpawnProcess(w) PROVE TypeOK'
  BY <1>19 DEF TypeOK, SpawnProcess, Accepted, Standing, Goes, disk, history, Row, Places,
     Worker, Steps
<1>20. ASSUME NEW w \in workers, Unwind(w) PROVE TypeOK'
  BY <1>20 DEF TypeOK, Unwind, Standing, Goes, Worker, Steps
<1>21. ASSUME NEW w \in workers, FinishStartFailure(w) PROVE TypeOK'
  BY <1>21 DEF TypeOK, FinishStartFailure, Accepted, disk, history, Row, Places, Worker,
     Steps
<1>22. ASSUME NEW t \in teardowns, ReleaseLease(t) PROVE TypeOK'
  <2>1. t.id \in Session /\ [t EXCEPT !.at = "hook"] \in Teardown
    BY DEF TypeOK, Teardown
  <2> QED
    BY <1>22, <2>1 DEF TypeOK, ReleaseLease, Turns
<1>23. ASSUME NEW t \in teardowns, RunTeardown(t) PROVE TypeOK'
  <2>1. [t EXCEPT !.at = "finish"] \in Teardown
    BY DEF TypeOK, Teardown
  <2> QED
    BY <1>23, <2>1 DEF TypeOK, RunTeardown, Turns, history
<1>24. ASSUME NEW t \in teardowns, FinishTeardown(t) PROVE TypeOK'
  <2>1. t.id \in Session /\ row[t.id] \in Row
    BY RowTyped DEF TypeOK, Teardown
  <2>2. \A at \in {"backoff", "stopped"} : [row[t.id] EXCEPT !.at = at] \in Row
    BY <2>1 DEF Row
  <2>3. row' \in [Session -> Row]
    BY <1>24, <2>1, <2>2 DEF TypeOK, FinishTeardown
  <2> QED
    BY <1>24, <2>3 DEF TypeOK, FinishTeardown, disk, history
<1>25. ASSUME NEW a \in archives, ReadWorktree(a) PROVE TypeOK'
  BY <1>25 DEF TypeOK, ReadWorktree, Serves, Named, Present, disk, history, Archiver
<1>26. ASSUME NEW a \in archives, ReleaseWorktree(a) PROVE TypeOK'
  BY <1>26 DEF TypeOK, ReleaseWorktree, Removed, Serves, Archiver
<1>27. ASSUME NEW a \in archives, RemoveRow(a) PROVE TypeOK'
  BY <1>27 DEF TypeOK, RemoveRow, Present, disk, Row, Places, Archiver
<1>28. CASE Survey
  BY <1>28 DEF TypeOK, Survey, Named, Present, threads, disk, history
<1>29. CASE Save
  <2>1. \A s \in Session : Saved(s) \in Image
    BY RowTyped DEF Saved, Present, Row, Image
  <2> QED
    BY <1>29, <2>1 DEF TypeOK, Save, threads, disk, history
<1>30. CASE Crash
  <2>1. \A s \in Session : saved[s] \in Image
    BY DEF TypeOK
  <2>2. 1 \in 0..MaxGen
    BY <1>30, MaxGenIsNat DEF Crash
  <2>3. \A s \in Session : Restored(s) \in Row
    BY <2>1, <2>2, RowTyped DEF Restored, Row, Image
  <2> QED
    BY <1>30, <2>3 DEF TypeOK, Crash, disk
<1>31. CASE UNCHANGED vars
  BY <1>31 DEF TypeOK, vars, threads, disk, history
<1> QED
  BY <1>1, <1>2, <1>3, <1>4, <1>5, <1>6, <1>7, <1>8, <1>9, <1>10, <1>11, <1>12, <1>13,
     <1>14, <1>15, <1>16, <1>17, <1>18, <1>19, <1>20, <1>21, <1>22, <1>23, <1>24, <1>25,
     <1>26, <1>27, <1>28, <1>29, <1>30, <1>31 DEF Next, Request, Process, StartWorker,
     TeardownWorker, ArchiveThread

(* The type invariant holds whatever comes between the steps of a start.     *)
THEOREM TypesHold == Spec => []TypeOK
<1>1. Init => TypeOK
  <2>1. Unborn \in Row
    BY MaxGenIsNat DEF Unborn, Row, Places
  <2>2. [known |-> FALSE, place |-> "shared", resume |-> FALSE] \in Image
    BY DEF Image, Places
  <2> QED
    BY <2>1, <2>2 DEF Init, TypeOK
<1>2. TypeOK /\ [Next]_vars => TypeOK'
  BY TypeNext
<1> QED
  BY <1>1, <1>2, PTL DEF Spec

-----------------------------------------------------------------------------
(* The database of a session.  A row that is live has yet to be torn down, so *)
(* its exit starts a teardown.                                               *)
LiveIsWhole == \A s \in Session : row[s].at = "live" => ~row[s].torn

IDatabase == LiveIsWhole /\ DatabaseHasAnEnd

(* Where a worker answers for the database it has made *)
Holding == {"setup", "check", "spawn", "unwind"}

LEMMA HandedOn ==
  ASSUME TypeOK, DatabaseHasAnEnd, NEW w \in workers, NEW at \in Holding, Goes(w, at),
         UNCHANGED <<row, teardowns, told, spilled>>, database' \subseteq database \cup {w.id}
  PROVE  DatabaseHasAnEnd'
<1>1. [w EXCEPT !.at = at] \in workers' /\ [w EXCEPT !.at = at].id = w.id
      /\ [w EXCEPT !.at = at].at = at
  BY DEF TypeOK, Worker, Goes
<1>2. \A v \in workers : v = w \/ v \in workers'
  BY DEF Goes
<1> QED
  BY <1>1, <1>2 DEF DatabaseHasAnEnd, Holding

LEMMA LiveIsWholeNext ==
  ASSUME TypeOK, LiveIsWhole, [Next]_vars PROVE LiveIsWhole'
<1>1. ASSUME NEW s \in Session, Launch(s) PROVE LiveIsWhole'
  BY <1>1 DEF LiveIsWhole, TypeOK, Row, Launch, Starts, disk, Unborn
<1>2. ASSUME NEW s \in Session, Revive(s) PROVE LiveIsWhole'
  BY <1>2 DEF LiveIsWhole, TypeOK, Row, Revive, Revivable, Standing, Starts, disk
<1>3. ASSUME NEW s \in Session, RestartDue(s) PROVE LiveIsWhole'
  BY <1>3 DEF LiveIsWhole, TypeOK, Row, RestartDue, Starts, disk
<1>4. ASSUME NEW s \in Session, Kill(s) PROVE LiveIsWhole'
  <2>1. PICK r : /\ Becomes(s, r)
                 /\ r.at = "live" => row[s].at = "live" /\ r.torn = row[s].torn
    <3>1. row[s] \in Row
      BY RowTyped
    <3>2. [row[s] EXCEPT !.at = "stopped", !.gen = row[s].gen + 1, !.stop = TRUE].at = "stopped"
      BY <3>1 DEF Row
    <3>3. /\ [row[s] EXCEPT !.stop = TRUE].at = row[s].at
          /\ [row[s] EXCEPT !.stop = TRUE].torn = row[s].torn
      BY <3>1 DEF Row
    <3> QED
      BY <1>4, <3>2, <3>3 DEF Kill
  <2>2. row \in [Session -> Row] /\ row' = [row EXCEPT ![s] = r]
    BY <2>1 DEF Becomes, TypeOK
  <2> QED
    BY <2>1, <2>2 DEF LiveIsWhole
<1>5. ASSUME NEW s \in Session, ArchiveAsked(s) PROVE LiveIsWhole'
  BY <1>5 DEF LiveIsWhole, TypeOK, Row, ArchiveAsked, Present, disk, history
<1>6. ASSUME NEW s \in Session, Report(s) PROVE LiveIsWhole'
  BY <1>6 DEF LiveIsWhole, TypeOK, Row, Report, Becomes, threads, disk, history
<1>7. ASSUME NEW s \in Session, Exit(s) PROVE LiveIsWhole'
  BY <1>7 DEF LiveIsWhole, TypeOK, Row, Exit, disk, history
<1>8. ASSUME NEW s \in Session, AgentRemoves(s) PROVE LiveIsWhole'
  BY <1>8 DEF LiveIsWhole, TypeOK, Row, AgentRemoves, Named, Present, threads, history
<1>9. ASSUME NEW s \in Session, WorktreeRemove(s) PROVE LiveIsWhole'
  BY <1>9 DEF LiveIsWhole, TypeOK, Row, WorktreeRemove, Named, Present, Becomes, threads,
     disk, history
<1>10. ASSUME NEW s \in Session, Reap(s) PROVE LiveIsWhole'
  BY <1>10 DEF LiveIsWhole, TypeOK, Row, Reap, Removed, threads
<1>11. ASSUME NEW w \in workers, ProvisionWorktree(w) PROVE LiveIsWhole'
  BY <1>11 DEF LiveIsWhole, TypeOK, Row, ProvisionWorktree, Proceeds, Goes, disk, history,
     Present, Standing
<1>12. ASSUME NEW w \in workers, CreateWorktree(w) PROVE LiveIsWhole'
  BY <1>12 DEF LiveIsWhole, TypeOK, Row, CreateWorktree, Goes
<1>13. ASSUME NEW w \in workers, RecordWorktree(w) PROVE LiveIsWhole'
  BY <1>13 DEF LiveIsWhole, TypeOK, Row, RecordWorktree, Present, Overtaken, Goes, disk
<1>14. ASSUME NEW w \in workers, RemoveOrphan(w) PROVE LiveIsWhole'
  BY <1>14 DEF LiveIsWhole, TypeOK, Row, RemoveOrphan, Removed, Goes
<1>15. ASSUME NEW w \in workers, LoadLease(w) PROVE LiveIsWhole'
  BY <1>15 DEF LiveIsWhole, TypeOK, Row, LoadLease, Proceeds, Goes, disk, history,
     Present, Standing
<1>16. ASSUME NEW w \in workers, ApplyLease(w) PROVE LiveIsWhole'
  BY <1>16 DEF LiveIsWhole, TypeOK, Row, ApplyLease, Goes, history
<1>17. ASSUME NEW w \in workers, RunSetup(w) PROVE LiveIsWhole'
  BY <1>17 DEF LiveIsWhole, TypeOK, Row, RunSetup, Standing, Goes, history
<1>18. ASSUME NEW w \in workers, CheckStart(w) PROVE LiveIsWhole'
  BY <1>18 DEF LiveIsWhole, TypeOK, Row, CheckStart, Proceeds, Goes, disk, history
<1>19. ASSUME NEW w \in workers, SpawnProcess(w) PROVE LiveIsWhole'
  BY <1>19 DEF LiveIsWhole, TypeOK, Row, SpawnProcess, Accepted, Standing, Goes, disk,
     history
<1>20. ASSUME NEW w \in workers, Unwind(w) PROVE LiveIsWhole'
  BY <1>20 DEF LiveIsWhole, TypeOK, Row, Unwind, Standing, Goes
<1>21. ASSUME NEW w \in workers, FinishStartFailure(w) PROVE LiveIsWhole'
  BY <1>21 DEF LiveIsWhole, TypeOK, Row, FinishStartFailure, Accepted, disk, history
<1>22. ASSUME NEW t \in teardowns, ReleaseLease(t) PROVE LiveIsWhole'
  BY <1>22 DEF LiveIsWhole, TypeOK, Row, ReleaseLease, Turns, Standing
<1>23. ASSUME NEW t \in teardowns, RunTeardown(t) PROVE LiveIsWhole'
  BY <1>23 DEF LiveIsWhole, TypeOK, Row, RunTeardown, Turns, Standing, history
<1>24. ASSUME NEW t \in teardowns, FinishTeardown(t) PROVE LiveIsWhole'
  BY <1>24 DEF LiveIsWhole, TypeOK, Row, FinishTeardown, disk, history
<1>25. ASSUME NEW a \in archives, ReadWorktree(a) PROVE LiveIsWhole'
  BY <1>25 DEF LiveIsWhole, TypeOK, Row, ReadWorktree, Serves, Named, Present, disk,
     history
<1>26. ASSUME NEW a \in archives, ReleaseWorktree(a) PROVE LiveIsWhole'
  BY <1>26 DEF LiveIsWhole, TypeOK, Row, ReleaseWorktree, Removed, Serves
<1>27. ASSUME NEW a \in archives, RemoveRow(a) PROVE LiveIsWhole'
  BY <1>27 DEF LiveIsWhole, TypeOK, Row, RemoveRow, Present, disk
<1>28. CASE Survey
  BY <1>28 DEF LiveIsWhole, TypeOK, Row, Survey, Named, Present, threads, disk, history
<1>29. CASE Save
  BY <1>29 DEF LiveIsWhole, TypeOK, Row, Save, Saved, Present, threads, disk, history
<1>30. CASE Crash
  BY <1>30 DEF LiveIsWhole, TypeOK, Row, Crash, Restored, disk
<1>31. CASE UNCHANGED vars
  BY <1>31 DEF LiveIsWhole, TypeOK, Row, vars, threads, disk, history
<1> QED
  BY <1>1, <1>2, <1>3, <1>4, <1>5, <1>6, <1>7, <1>8, <1>9, <1>10, <1>11, <1>12, <1>13,
     <1>14, <1>15, <1>16, <1>17, <1>18, <1>19, <1>20, <1>21, <1>22, <1>23, <1>24, <1>25,
     <1>26, <1>27, <1>28, <1>29, <1>30, <1>31 DEF Next, Request, Process, StartWorker,
     TeardownWorker, ArchiveThread

LEMMA DatabaseNext ==
  ASSUME TypeOK, LiveIsWhole, DatabaseHasAnEnd, [Next]_vars PROVE DatabaseHasAnEnd'
<1>1. ASSUME NEW s \in Session, Launch(s) PROVE DatabaseHasAnEnd'
  BY <1>1 DEF DatabaseHasAnEnd, TypeOK, Launch, Starts, disk, Unborn
<1>2. ASSUME NEW s \in Session, Revive(s) PROVE DatabaseHasAnEnd'
  BY <1>2 DEF DatabaseHasAnEnd, TypeOK, Revive, Revivable, Standing, Starts, disk
<1>3. ASSUME NEW s \in Session, RestartDue(s) PROVE DatabaseHasAnEnd'
  BY <1>3 DEF DatabaseHasAnEnd, TypeOK, RestartDue, Starts, disk
<1>4. ASSUME NEW s \in Session, Kill(s) PROVE DatabaseHasAnEnd'
  BY <1>4 DEF DatabaseHasAnEnd, TypeOK, Kill, Present, Becomes, threads, disk, history,
     Row
<1>5. ASSUME NEW s \in Session, ArchiveAsked(s) PROVE DatabaseHasAnEnd'
  BY <1>5 DEF DatabaseHasAnEnd, TypeOK, ArchiveAsked, Present, disk, history
<1>6. ASSUME NEW s \in Session, Report(s) PROVE DatabaseHasAnEnd'
  BY <1>6 DEF DatabaseHasAnEnd, TypeOK, Report, Becomes, threads, disk, history
<1>7. ASSUME NEW s \in Session, Exit(s) PROVE DatabaseHasAnEnd'
  <2>1. row[s].at = "live" /\ ~row[s].torn
    BY <1>7, ExitEffect DEF LiveIsWhole
  <2>2. UNCHANGED <<workers, database, told, spilled>> /\ database \subseteq Session
    BY <1>7 DEF TypeOK, Exit, disk, history
  <2> QED
    BY <1>7, <2>1, <2>2, ExitEffect DEF DatabaseHasAnEnd
<1>8. ASSUME NEW s \in Session, AgentRemoves(s) PROVE DatabaseHasAnEnd'
  BY <1>8 DEF DatabaseHasAnEnd, TypeOK, AgentRemoves, Named, Present, threads, history
<1>9. ASSUME NEW s \in Session, WorktreeRemove(s) PROVE DatabaseHasAnEnd'
  BY <1>9 DEF DatabaseHasAnEnd, TypeOK, WorktreeRemove, Named, Present, Becomes, threads,
     disk, history
<1>10. ASSUME NEW s \in Session, Reap(s) PROVE DatabaseHasAnEnd'
  BY <1>10 DEF DatabaseHasAnEnd, TypeOK, Reap, Removed, threads
<1>11. ASSUME NEW w \in workers, ProvisionWorktree(w) PROVE DatabaseHasAnEnd'
  BY <1>11 DEF DatabaseHasAnEnd, TypeOK, ProvisionWorktree, Proceeds, Goes, disk, history,
     Present, Standing
<1>12. ASSUME NEW w \in workers, CreateWorktree(w) PROVE DatabaseHasAnEnd'
  BY <1>12 DEF DatabaseHasAnEnd, TypeOK, CreateWorktree, Goes
<1>13. ASSUME NEW w \in workers, RecordWorktree(w) PROVE DatabaseHasAnEnd'
  BY <1>13 DEF DatabaseHasAnEnd, TypeOK, RecordWorktree, Present, Overtaken, Goes, disk,
     Row, Worker
<1>14. ASSUME NEW w \in workers, RemoveOrphan(w) PROVE DatabaseHasAnEnd'
  BY <1>14 DEF DatabaseHasAnEnd, TypeOK, RemoveOrphan, Removed, Goes
<1>15. ASSUME NEW w \in workers, LoadLease(w) PROVE DatabaseHasAnEnd'
  BY <1>15 DEF DatabaseHasAnEnd, TypeOK, LoadLease, Proceeds, Goes, disk, history,
     Present, Standing
<1>16. ASSUME NEW w \in workers, ApplyLease(w) PROVE DatabaseHasAnEnd'
  BY <1>16, HandedOn DEF ApplyLease, Holding, history
<1>17. ASSUME NEW w \in workers, RunSetup(w) PROVE DatabaseHasAnEnd'
  BY <1>17, HandedOn DEF RunSetup, Holding, history
<1>18. ASSUME NEW w \in workers, CheckStart(w) PROVE DatabaseHasAnEnd'
  BY <1>18, HandedOn DEF CheckStart, Proceeds, Holding, disk, history
<1>19. ASSUME NEW w \in workers, SpawnProcess(w) PROVE DatabaseHasAnEnd'
  <2>1. CASE Goes(w, "unwind") /\ UNCHANGED row
    BY <1>19, <2>1, HandedOn DEF SpawnProcess, Holding, disk, history
  <2>2. CASE /\ row' = [row EXCEPT ![w.id].at = "live", ![w.id].torn = FALSE]
             /\ workers' = workers \ {w}
    <3>1. UNCHANGED <<teardowns, database, told, spilled>>
      BY <1>19 DEF SpawnProcess, disk, history
    <3>2. \A d \in Session : row'[d].at = "live" \/ (d # w.id /\ row'[d] = row[d])
      BY <2>2 DEF TypeOK, Row
    <3> QED
      BY <2>2, <3>1, <3>2 DEF TypeOK, DatabaseHasAnEnd
  <2> QED
    BY <1>19, <2>1, <2>2 DEF SpawnProcess
<1>20. ASSUME NEW w \in workers, Unwind(w) PROVE DatabaseHasAnEnd'
  BY <1>20 DEF DatabaseHasAnEnd, TypeOK, Unwind, Standing, Goes
<1>21. ASSUME NEW w \in workers, FinishStartFailure(w) PROVE DatabaseHasAnEnd'
  BY <1>21 DEF DatabaseHasAnEnd, TypeOK, FinishStartFailure, Accepted, disk, history, Row
<1>22. ASSUME NEW t \in teardowns, ReleaseLease(t) PROVE DatabaseHasAnEnd'
  BY <1>22 DEF DatabaseHasAnEnd, TypeOK, ReleaseLease, Turns, Standing
<1>23. ASSUME NEW t \in teardowns, RunTeardown(t) PROVE DatabaseHasAnEnd'
  BY <1>23 DEF DatabaseHasAnEnd, TypeOK, RunTeardown, Turns, Standing, history
<1>24. ASSUME NEW t \in teardowns, FinishTeardown(t) PROVE DatabaseHasAnEnd'
  BY <1>24 DEF DatabaseHasAnEnd, TypeOK, FinishTeardown, disk, history
<1>25. ASSUME NEW a \in archives, ReadWorktree(a) PROVE DatabaseHasAnEnd'
  BY <1>25 DEF DatabaseHasAnEnd, TypeOK, ReadWorktree, Serves, Named, Present, disk,
     history
<1>26. ASSUME NEW a \in archives, ReleaseWorktree(a) PROVE DatabaseHasAnEnd'
  BY <1>26 DEF DatabaseHasAnEnd, TypeOK, ReleaseWorktree, Removed, Serves
<1>27. ASSUME NEW a \in archives, RemoveRow(a) PROVE DatabaseHasAnEnd'
  BY <1>27 DEF DatabaseHasAnEnd, TypeOK, RemoveRow, Present, disk
<1>28. CASE Survey
  BY <1>28 DEF DatabaseHasAnEnd, TypeOK, Survey, Named, Present, threads, disk, history
<1>29. CASE Save
  BY <1>29 DEF DatabaseHasAnEnd, TypeOK, Save, Saved, Present, threads, disk, history
<1>30. CASE Crash
  BY <1>30 DEF DatabaseHasAnEnd, TypeOK, Crash, Restored, disk
<1>31. CASE UNCHANGED vars
  BY <1>31 DEF DatabaseHasAnEnd, TypeOK, vars, threads, disk, history
<1> QED
  BY <1>1, <1>2, <1>3, <1>4, <1>5, <1>6, <1>7, <1>8, <1>9, <1>10, <1>11, <1>12, <1>13,
     <1>14, <1>15, <1>16, <1>17, <1>18, <1>19, <1>20, <1>21, <1>22, <1>23, <1>24, <1>25,
     <1>26, <1>27, <1>28, <1>29, <1>30, <1>31 DEF Next, Request, Process, StartWorker,
     TeardownWorker, ArchiveThread

(* Every database has somebody who will drop it, whatever fails, but for      *)
(* those a failure was reported for or the code has let go (spilled).        *)
THEOREM DatabaseHolds == Spec => []DatabaseHasAnEnd
<1>1. Init => IDatabase
  BY DEF Init, IDatabase, LiveIsWhole, DatabaseHasAnEnd, Unborn
<1>2. TypeOK /\ IDatabase /\ [Next]_vars => IDatabase'
  BY LiveIsWholeNext, DatabaseNext DEF IDatabase
<1>3. IDatabase => DatabaseHasAnEnd
  BY DEF IDatabase
<1> QED
  BY <1>1, <1>2, <1>3, TypesHold, PTL DEF Spec

(* A worker that takes its next step leaves the others where they are.       *)
LEMMA MovesOn ==
  ASSUME TypeOK, NEW w \in workers, NEW at \in Steps, Goes(w, at)
  PROVE  /\ w.id \in Session
         /\ \A v \in workers : v = w \/ v \in workers'
         /\ \A v \in workers' : v \in workers \/ (v.id = w.id /\ v.gen = w.gen /\ v.at = at)
         /\ \E v \in workers' : v.id = w.id /\ v.gen = w.gen /\ v.at = at
<1>1. w \in Worker
  BY DEF TypeOK
<1>2. [w EXCEPT !.at = at] \in Worker /\ [w EXCEPT !.at = at].id = w.id
      /\ [w EXCEPT !.at = at].gen = w.gen /\ [w EXCEPT !.at = at].at = at
  BY <1>1 DEF Worker
<1>3. w.id \in Session
  BY <1>1 DEF Worker
<1> QED
  BY <1>2, <1>3 DEF Goes

(* A kill leaves a row present, and where it is.                             *)
LEMMA KillEffect ==
  ASSUME TypeOK, NEW s \in Session, Kill(s)
  PROVE  /\ \A d \in Session : Named(d)' <=> Named(d)
         /\ row' \in [Session -> Row]
         /\ \A d \in Session \ {s} : row'[d] = row[d]
         /\ row'[s].place = row[s].place
         /\ \/ row'[s].at = row[s].at
            \/ row[s].at \in {"preparing", "backoff"} /\ row'[s].at = "stopped"
         /\ UNCHANGED <<workers, teardowns, archives, checkout, branch, database, up,
                        astray, doubled>>
<1>1. row[s] \in Row
  BY RowTyped
<1>2. row[s].gen < MaxGen =>
        /\ [row[s] EXCEPT !.at = "stopped", !.gen = @ + 1, !.stop = TRUE] \in Row
        /\ [row[s] EXCEPT !.at = "stopped", !.gen = @ + 1, !.stop = TRUE].at = "stopped"
        /\ [row[s] EXCEPT !.at = "stopped", !.gen = @ + 1, !.stop = TRUE].place = row[s].place
  BY <1>1, NextGeneration DEF Row
<1>3. /\ [row[s] EXCEPT !.stop = TRUE] \in Row
      /\ [row[s] EXCEPT !.stop = TRUE].at = row[s].at
      /\ [row[s] EXCEPT !.stop = TRUE].place = row[s].place
  BY <1>1 DEF Row
<1>4. PICK r \in Row : /\ Becomes(s, r) /\ r.place = row[s].place
                      /\ \/ r.at = row[s].at
                         \/ row[s].at \in {"preparing", "backoff"} /\ r.at = "stopped"
  BY <1>2, <1>3 DEF Kill
<1>5. Present(s)
  BY DEF Kill
<1> QED
  BY <1>4, <1>5 DEF TypeOK, Becomes, Named, Present, threads, disk, history

-----------------------------------------------------------------------------
(* The checkouts.  Who removes a row has removed the checkout it names first, *)
(* unless that was made or recorded behind its back.                         *)
MadeOrCleared(s) == \E w \in workers : w.id = s /\ w.at \in {"record", "orphan"}

ArchiveReleases ==
    \A a \in archives : a.at = "remove" /\ a.id \in checkout /\ Named(a.id) =>
      a.id \in astray \/ MadeOrCleared(a.id)

ICheckout == ArchiveReleases /\ CheckoutIsNamed

LEMMA ArchiveReleasesNext ==
  ASSUME TypeOK, ArchiveReleases, CheckoutIsNamed, [Next]_vars PROVE ArchiveReleases'
<1>1. ASSUME NEW s \in Session, Launch(s) PROVE ArchiveReleases'
  BY <1>1 DEF ArchiveReleases, MadeOrCleared, TypeOK, Named, Present, Row, Launch, Starts,
     disk, Unborn
<1>2. ASSUME NEW s \in Session, Revive(s) PROVE ArchiveReleases'
  BY <1>2 DEF ArchiveReleases, MadeOrCleared, TypeOK, Named, Present, Row, Revive,
     Revivable, Standing, Starts, disk
<1>3. ASSUME NEW s \in Session, RestartDue(s) PROVE ArchiveReleases'
  BY <1>3 DEF ArchiveReleases, MadeOrCleared, TypeOK, Named, Present, Row, RestartDue,
     Starts, disk
<1>4. ASSUME NEW s \in Session, Kill(s) PROVE ArchiveReleases'
  BY <1>4, KillEffect DEF TypeOK, Archiver, MadeOrCleared, ArchiveReleases
<1>5. ASSUME NEW s \in Session, ArchiveAsked(s) PROVE ArchiveReleases'
  BY <1>5 DEF ArchiveReleases, MadeOrCleared, TypeOK, Named, Row, ArchiveAsked, Present,
     disk, history
<1>6. ASSUME NEW s \in Session, Report(s) PROVE ArchiveReleases'
  BY <1>6 DEF ArchiveReleases, MadeOrCleared, TypeOK, Named, Present, Row, Report,
     Becomes, threads, disk, history
<1>7. ASSUME NEW s \in Session, Exit(s) PROVE ArchiveReleases'
  <2>1. UNCHANGED <<workers, archives, checkout, astray>>
    BY <1>7 DEF Exit, disk, history
  <2>2. \A d \in Session : Named(d)' <=> Named(d)
    BY <1>7, ExitEffect DEF Named, Present
  <2> QED
    BY <2>1, <2>2 DEF TypeOK, Archiver, MadeOrCleared, ArchiveReleases
<1>8. ASSUME NEW s \in Session, AgentRemoves(s) PROVE ArchiveReleases'
  BY <1>8 DEF ArchiveReleases, MadeOrCleared, TypeOK, Row, AgentRemoves, Named, Present,
     threads, history
<1>9. ASSUME NEW s \in Session, WorktreeRemove(s) PROVE ArchiveReleases'
  BY <1>9 DEF ArchiveReleases, MadeOrCleared, TypeOK, Row, WorktreeRemove, Named, Present,
     Becomes, threads, disk, history
<1>10. ASSUME NEW s \in Session, Reap(s) PROVE ArchiveReleases'
  BY <1>10 DEF ArchiveReleases, MadeOrCleared, TypeOK, Named, Present, Row, Reap, Removed,
     threads
<1>11. ASSUME NEW w \in workers, ProvisionWorktree(w) PROVE ArchiveReleases'
  BY <1>11 DEF ArchiveReleases, MadeOrCleared, TypeOK, Named, Row, ProvisionWorktree,
     Proceeds, Goes, disk, history, Present, Standing, Worker
<1>12. ASSUME NEW w \in workers, CreateWorktree(w) PROVE ArchiveReleases'
  <2>1. UNCHANGED <<row, archives>> /\ w.at = "create"
    BY <1>12 DEF CreateWorktree
  <2>2. \A s \in Session : Named(s)' <=> Named(s)
    BY <2>1 DEF Named, Present
  <2>3. CASE Goes(w, "record") /\ checkout' = checkout \cup {w.id} /\ UNCHANGED astray
    BY <2>1, <2>2, <2>3, MovesOn DEF TypeOK, Archiver, Steps, MadeOrCleared,
       ArchiveReleases
  <2>4. CASE Goes(w, "fail") /\ checkout' = checkout \cup {w.id} /\ astray' = astray \cup {w.id}
    BY <2>1, <2>2, <2>4, MovesOn DEF TypeOK, Archiver, Steps, MadeOrCleared,
       ArchiveReleases
  <2>5. CASE Goes(w, "fail") /\ UNCHANGED <<checkout, astray>>
    BY <2>1, <2>2, <2>5, MovesOn DEF TypeOK, Archiver, Steps, MadeOrCleared,
       ArchiveReleases
  <2> QED
    BY <1>12, <2>3, <2>4, <2>5 DEF CreateWorktree
<1>13. ASSUME NEW w \in workers, RecordWorktree(w) PROVE ArchiveReleases'
  BY <1>13 DEF ArchiveReleases, MadeOrCleared, TypeOK, Named, Row, RecordWorktree,
     Present, Overtaken, Goes, disk, Worker
<1>14. ASSUME NEW w \in workers, RemoveOrphan(w) PROVE ArchiveReleases'
  BY <1>14 DEF ArchiveReleases, MadeOrCleared, TypeOK, Named, Present, Row, RemoveOrphan,
     Removed, Goes, Worker
<1>15. ASSUME NEW w \in workers, LoadLease(w) PROVE ArchiveReleases'
  BY <1>15 DEF ArchiveReleases, MadeOrCleared, TypeOK, Named, Row, LoadLease, Proceeds,
     Goes, disk, history, Present, Standing, Worker
<1>16. ASSUME NEW w \in workers, ApplyLease(w) PROVE ArchiveReleases'
  BY <1>16 DEF ArchiveReleases, MadeOrCleared, TypeOK, Named, Present, Row, ApplyLease,
     Goes, history, Worker
<1>17. ASSUME NEW w \in workers, RunSetup(w) PROVE ArchiveReleases'
  BY <1>17 DEF ArchiveReleases, MadeOrCleared, TypeOK, Named, Present, Row, RunSetup,
     Standing, Goes, history, Worker
<1>18. ASSUME NEW w \in workers, CheckStart(w) PROVE ArchiveReleases'
  BY <1>18 DEF ArchiveReleases, MadeOrCleared, TypeOK, Named, Present, Row, CheckStart,
     Proceeds, Goes, disk, history, Worker
<1>19. ASSUME NEW w \in workers, SpawnProcess(w) PROVE ArchiveReleases'
  BY <1>19 DEF ArchiveReleases, MadeOrCleared, TypeOK, Named, Present, Row, SpawnProcess,
     Accepted, Standing, Goes, disk, history, Worker
<1>20. ASSUME NEW w \in workers, Unwind(w) PROVE ArchiveReleases'
  BY <1>20 DEF ArchiveReleases, MadeOrCleared, TypeOK, Named, Present, Row, Unwind,
     Standing, Goes, Worker
<1>21. ASSUME NEW w \in workers, FinishStartFailure(w) PROVE ArchiveReleases'
  BY <1>21 DEF ArchiveReleases, MadeOrCleared, TypeOK, Named, Present, Row,
     FinishStartFailure, Accepted, disk, history, Worker
<1>22. ASSUME NEW t \in teardowns, ReleaseLease(t) PROVE ArchiveReleases'
  BY <1>22 DEF ArchiveReleases, MadeOrCleared, TypeOK, Named, Present, Row, ReleaseLease,
     Turns, Standing
<1>23. ASSUME NEW t \in teardowns, RunTeardown(t) PROVE ArchiveReleases'
  BY <1>23 DEF ArchiveReleases, MadeOrCleared, TypeOK, Named, Present, Row, RunTeardown,
     Turns, Standing, history
<1>24. ASSUME NEW t \in teardowns, FinishTeardown(t) PROVE ArchiveReleases'
  BY <1>24 DEF ArchiveReleases, MadeOrCleared, TypeOK, Named, Present, Row,
     FinishTeardown, disk, history
<1>25. ASSUME NEW a \in archives, ReadWorktree(a) PROVE ArchiveReleases'
  BY <1>25 DEF ArchiveReleases, MadeOrCleared, TypeOK, Row, ReadWorktree, Serves, Named,
     Present, disk, history, Archiver
<1>26. ASSUME NEW a \in archives, ReleaseWorktree(a) PROVE ArchiveReleases'
  BY <1>26 DEF ArchiveReleases, MadeOrCleared, TypeOK, Named, Present, Row,
     ReleaseWorktree, Removed, Serves, Archiver
<1>27. ASSUME NEW a \in archives, RemoveRow(a) PROVE ArchiveReleases'
  BY <1>27 DEF ArchiveReleases, MadeOrCleared, TypeOK, Named, Row, RemoveRow, Present,
     disk, Archiver
<1>28. CASE Survey
  BY <1>28 DEF ArchiveReleases, MadeOrCleared, TypeOK, Row, Survey, Named, Present,
     threads, disk, history
<1>29. CASE Save
  BY <1>29 DEF ArchiveReleases, MadeOrCleared, TypeOK, Named, Row, Save, Saved, Present,
     threads, disk, history
<1>30. CASE Crash
  BY <1>30 DEF ArchiveReleases, MadeOrCleared, TypeOK, Named, Present, Row, Crash,
     Restored, disk
<1>31. CASE UNCHANGED vars
  BY <1>31 DEF ArchiveReleases, MadeOrCleared, TypeOK, Named, Present, Row, vars, threads,
     disk, history
<1> QED
  BY <1>1, <1>2, <1>3, <1>4, <1>5, <1>6, <1>7, <1>8, <1>9, <1>10, <1>11, <1>12, <1>13,
     <1>14, <1>15, <1>16, <1>17, <1>18, <1>19, <1>20, <1>21, <1>22, <1>23, <1>24, <1>25,
     <1>26, <1>27, <1>28, <1>29, <1>30, <1>31 DEF Next, Request, Process, StartWorker,
     TeardownWorker, ArchiveThread

LEMMA CheckoutNext ==
  ASSUME TypeOK, ArchiveReleases, CheckoutIsNamed, [Next]_vars PROVE CheckoutIsNamed'
<1>1. ASSUME NEW s \in Session, Launch(s) PROVE CheckoutIsNamed'
  BY <1>1 DEF CheckoutIsNamed, MadeOrCleared, TypeOK, Named, Present, Row, Launch, Starts,
     disk, Unborn
<1>2. ASSUME NEW s \in Session, Revive(s) PROVE CheckoutIsNamed'
  BY <1>2 DEF CheckoutIsNamed, MadeOrCleared, TypeOK, Named, Present, Row, Revive,
     Revivable, Standing, Starts, disk
<1>3. ASSUME NEW s \in Session, RestartDue(s) PROVE CheckoutIsNamed'
  BY <1>3 DEF CheckoutIsNamed, MadeOrCleared, TypeOK, Named, Present, Row, RestartDue,
     Starts, disk
<1>4. ASSUME NEW s \in Session, Kill(s) PROVE CheckoutIsNamed'
  BY <1>4, KillEffect DEF TypeOK, Archiver, MadeOrCleared, CheckoutIsNamed
<1>5. ASSUME NEW s \in Session, ArchiveAsked(s) PROVE CheckoutIsNamed'
  BY <1>5 DEF CheckoutIsNamed, MadeOrCleared, TypeOK, Named, Row, ArchiveAsked, Present,
     disk, history
<1>6. ASSUME NEW s \in Session, Report(s) PROVE CheckoutIsNamed'
  BY <1>6 DEF CheckoutIsNamed, MadeOrCleared, TypeOK, Named, Present, Row, Report,
     Becomes, threads, disk, history
<1>7. ASSUME NEW s \in Session, Exit(s) PROVE CheckoutIsNamed'
  <2>1. UNCHANGED <<workers, archives, checkout, astray>>
    BY <1>7 DEF Exit, disk, history
  <2>2. \A d \in Session : Named(d)' <=> Named(d)
    BY <1>7, ExitEffect DEF Named, Present
  <2> QED
    BY <2>1, <2>2 DEF TypeOK, Archiver, MadeOrCleared, CheckoutIsNamed
<1>8. ASSUME NEW s \in Session, AgentRemoves(s) PROVE CheckoutIsNamed'
  BY <1>8 DEF CheckoutIsNamed, MadeOrCleared, TypeOK, Row, AgentRemoves, Named, Present,
     threads, history
<1>9. ASSUME NEW s \in Session, WorktreeRemove(s) PROVE CheckoutIsNamed'
  BY <1>9 DEF CheckoutIsNamed, MadeOrCleared, TypeOK, Row, WorktreeRemove, Named, Present,
     Becomes, threads, disk, history
<1>10. ASSUME NEW s \in Session, Reap(s) PROVE CheckoutIsNamed'
  BY <1>10 DEF CheckoutIsNamed, MadeOrCleared, TypeOK, Named, Present, Row, Reap, Removed,
     threads
<1>11. ASSUME NEW w \in workers, ProvisionWorktree(w) PROVE CheckoutIsNamed'
  BY <1>11 DEF CheckoutIsNamed, MadeOrCleared, TypeOK, Named, Row, ProvisionWorktree,
     Proceeds, Goes, disk, history, Present, Standing, Worker
<1>12. ASSUME NEW w \in workers, CreateWorktree(w) PROVE CheckoutIsNamed'
  <2>1. UNCHANGED <<row, archives>> /\ w.at = "create"
    BY <1>12 DEF CreateWorktree
  <2>2. \A s \in Session : Named(s)' <=> Named(s)
    BY <2>1 DEF Named, Present
  <2>3. CASE Goes(w, "record") /\ checkout' = checkout \cup {w.id} /\ UNCHANGED astray
    BY <2>1, <2>2, <2>3, MovesOn DEF TypeOK, Archiver, Steps, MadeOrCleared,
       CheckoutIsNamed
  <2>4. CASE Goes(w, "fail") /\ checkout' = checkout \cup {w.id} /\ astray' = astray \cup {w.id}
    BY <2>1, <2>2, <2>4, MovesOn DEF TypeOK, Archiver, Steps, MadeOrCleared,
       CheckoutIsNamed
  <2>5. CASE Goes(w, "fail") /\ UNCHANGED <<checkout, astray>>
    BY <2>1, <2>2, <2>5, MovesOn DEF TypeOK, Archiver, Steps, MadeOrCleared,
       CheckoutIsNamed
  <2> QED
    BY <1>12, <2>3, <2>4, <2>5 DEF CreateWorktree
<1>13. ASSUME NEW w \in workers, RecordWorktree(w) PROVE CheckoutIsNamed'
  <2>1. w.id \in Session /\ row[w.id] \in Row /\ w.at = "record"
    BY <1>13, RowTyped DEF TypeOK, Worker, RecordWorktree
  <2>2. UNCHANGED checkout /\ astray \subseteq astray'
    BY <1>13 DEF RecordWorktree, disk
  <2>3. CASE /\ Present(w.id)
             /\ row' = [row EXCEPT ![w.id].place = "named"] /\ Goes(w, "load")
    <3>1. Named(w.id)' /\ \A s \in Session \ {w.id} : Named(s)' <=> Named(s)
      BY <2>1, <2>3 DEF TypeOK, Row, Named, Present
    <3> QED
      BY <2>1, <2>2, <2>3, <3>1, MovesOn DEF TypeOK, Steps, CheckoutIsNamed
  <2>4. CASE UNCHANGED row /\ Goes(w, "orphan")
    <3>1. \A s \in Session : Named(s)' <=> Named(s)
      BY <2>4 DEF Named, Present
    <3> QED
      BY <2>1, <2>2, <2>4, <3>1, MovesOn DEF TypeOK, Steps, CheckoutIsNamed
  <2> QED
    BY <1>13, <2>3, <2>4 DEF RecordWorktree
<1>14. ASSUME NEW w \in workers, RemoveOrphan(w) PROVE CheckoutIsNamed'
  BY <1>14 DEF CheckoutIsNamed, MadeOrCleared, TypeOK, Named, Present, Row, RemoveOrphan,
     Removed, Goes, Worker
<1>15. ASSUME NEW w \in workers, LoadLease(w) PROVE CheckoutIsNamed'
  BY <1>15 DEF CheckoutIsNamed, MadeOrCleared, TypeOK, Named, Row, LoadLease, Proceeds,
     Goes, disk, history, Present, Standing, Worker
<1>16. ASSUME NEW w \in workers, ApplyLease(w) PROVE CheckoutIsNamed'
  BY <1>16 DEF CheckoutIsNamed, MadeOrCleared, TypeOK, Named, Present, Row, ApplyLease,
     Goes, history, Worker
<1>17. ASSUME NEW w \in workers, RunSetup(w) PROVE CheckoutIsNamed'
  BY <1>17 DEF CheckoutIsNamed, MadeOrCleared, TypeOK, Named, Present, Row, RunSetup,
     Standing, Goes, history, Worker
<1>18. ASSUME NEW w \in workers, CheckStart(w) PROVE CheckoutIsNamed'
  BY <1>18 DEF CheckoutIsNamed, MadeOrCleared, TypeOK, Named, Present, Row, CheckStart,
     Proceeds, Goes, disk, history, Worker
<1>19. ASSUME NEW w \in workers, SpawnProcess(w) PROVE CheckoutIsNamed'
  BY <1>19 DEF CheckoutIsNamed, MadeOrCleared, TypeOK, Named, Present, Row, SpawnProcess,
     Accepted, Standing, Goes, disk, history, Worker
<1>20. ASSUME NEW w \in workers, Unwind(w) PROVE CheckoutIsNamed'
  BY <1>20 DEF CheckoutIsNamed, MadeOrCleared, TypeOK, Named, Present, Row, Unwind,
     Standing, Goes, Worker
<1>21. ASSUME NEW w \in workers, FinishStartFailure(w) PROVE CheckoutIsNamed'
  BY <1>21 DEF CheckoutIsNamed, MadeOrCleared, TypeOK, Named, Present, Row,
     FinishStartFailure, Accepted, disk, history, Worker
<1>22. ASSUME NEW t \in teardowns, ReleaseLease(t) PROVE CheckoutIsNamed'
  BY <1>22 DEF CheckoutIsNamed, MadeOrCleared, TypeOK, Named, Present, Row, ReleaseLease,
     Turns, Standing
<1>23. ASSUME NEW t \in teardowns, RunTeardown(t) PROVE CheckoutIsNamed'
  BY <1>23 DEF CheckoutIsNamed, MadeOrCleared, TypeOK, Named, Present, Row, RunTeardown,
     Turns, Standing, history
<1>24. ASSUME NEW t \in teardowns, FinishTeardown(t) PROVE CheckoutIsNamed'
  BY <1>24 DEF CheckoutIsNamed, MadeOrCleared, TypeOK, Named, Present, Row,
     FinishTeardown, disk, history
<1>25. ASSUME NEW a \in archives, ReadWorktree(a) PROVE CheckoutIsNamed'
  BY <1>25 DEF CheckoutIsNamed, MadeOrCleared, TypeOK, Row, ReadWorktree, Serves, Named,
     Present, disk, history, Archiver
<1>26. ASSUME NEW a \in archives, ReleaseWorktree(a) PROVE CheckoutIsNamed'
  BY <1>26 DEF CheckoutIsNamed, MadeOrCleared, TypeOK, Named, Present, Row,
     ReleaseWorktree, Removed, Serves, Archiver
<1>27. ASSUME NEW a \in archives, RemoveRow(a) PROVE CheckoutIsNamed'
  <2>1. a.id \in Session
    BY DEF TypeOK, Archiver
  <2>2. UNCHANGED <<workers, checkout, astray>> /\ a.at = "remove"
    BY <1>27 DEF RemoveRow, disk
  <2>3. \A s \in Session \ {a.id} : Named(s)' <=> Named(s)
    BY <1>27, <2>1 DEF TypeOK, RemoveRow, Named, Present
  <2> QED
    BY <1>27, <2>1, <2>2, <2>3 DEF TypeOK, ArchiveReleases, MadeOrCleared, CheckoutIsNamed
<1>28. CASE Survey
  BY <1>28 DEF CheckoutIsNamed, MadeOrCleared, TypeOK, Row, Survey, Named, Present,
     threads, disk, history
<1>29. CASE Save
  BY <1>29 DEF CheckoutIsNamed, MadeOrCleared, TypeOK, Named, Row, Save, Saved, Present,
     threads, disk, history
<1>30. CASE Crash
  BY <1>30 DEF CheckoutIsNamed, MadeOrCleared, TypeOK, Named, Present, Row, Crash,
     Restored, disk
<1>31. CASE UNCHANGED vars
  BY <1>31 DEF CheckoutIsNamed, MadeOrCleared, TypeOK, Named, Present, Row, vars, threads,
     disk, history
<1> QED
  BY <1>1, <1>2, <1>3, <1>4, <1>5, <1>6, <1>7, <1>8, <1>9, <1>10, <1>11, <1>12, <1>13,
     <1>14, <1>15, <1>16, <1>17, <1>18, <1>19, <1>20, <1>21, <1>22, <1>23, <1>24, <1>25,
     <1>26, <1>27, <1>28, <1>29, <1>30, <1>31 DEF Next, Request, Process, StartWorker,
     TeardownWorker, ArchiveThread

(* Every checkout is named by its row or in its maker's hands, but for those  *)
(* that git, a crash or an archive that overlapped has left astray.          *)
THEOREM CheckoutHolds == Spec => []CheckoutIsNamed
<1>1. Init => ICheckout
  BY DEF Init, ICheckout, ArchiveReleases, CheckoutIsNamed
<1>2. TypeOK /\ ICheckout /\ [Next]_vars => ICheckout'
  BY ArchiveReleasesNext, CheckoutNext DEF ICheckout
<1>3. ICheckout => CheckoutIsNamed
  BY DEF ICheckout
<1> QED
  BY <1>1, <1>2, <1>3, TypesHold, PTL DEF Spec

-----------------------------------------------------------------------------
(* The environment of a process.  A row that has never had two workers at     *)
(* once has one at most, and only before it lives; a teardown comes after.   *)
OneWorker == \A v, w \in workers : v.id = w.id /\ v.id \notin doubled => v = w

StartsFirst ==
    \A w \in workers : w.id \notin doubled => row[w.id].at \in {"preparing", "stopped", "gone"}

TeardownFollows == \A t \in teardowns : row[t.id].at \in {"tearing", "gone"}

OneTeardown == \A t, u \in teardowns : t.id = u.id => t = u

(* What a worker has made by the time it gets so far                         *)
Leased ==
    \A w \in workers : w.id \notin doubled /\ row[w.id].at = "preparing" =>
      /\ w.at = "setup" /\ Standing(w.id) => w.id \in database
      /\ w.at \in {"check", "spawn"} => w.id \in up \cap database

IEnvironment ==
    /\ OneWorker /\ StartsFirst /\ TeardownFollows /\ OneTeardown
    /\ Leased /\ EnvironmentStands

(* An archived row had no process, and nothing else goes with it.            *)
LEMMA RemoveEffect ==
  ASSUME TypeOK, NEW a \in archives, RemoveRow(a)
  PROVE  /\ \A d \in Session : row'[d] = row[d] \/ (row[d].at # "live" /\ row'[d].at = "gone")
         /\ UNCHANGED <<workers, teardowns, checkout, database, up, doubled>>
<1>1. a.id \in Session
  BY DEF TypeOK, Archiver
<1> QED
  BY <1>1 DEF TypeOK, Row, RemoveRow, disk

LEMMA OneWorkerNext ==
  ASSUME TypeOK, OneWorker, [Next]_vars PROVE OneWorker'
<1>1. ASSUME NEW s \in Session, Launch(s) PROVE OneWorker'
  BY <1>1 DEF OneWorker, TypeOK, Row, Launch, Starts, disk, Unborn
<1>2. ASSUME NEW s \in Session, Revive(s) PROVE OneWorker'
  BY <1>2 DEF OneWorker, TypeOK, Row, Revive, Revivable, Standing, Starts, disk
<1>3. ASSUME NEW s \in Session, RestartDue(s) PROVE OneWorker'
  BY <1>3 DEF OneWorker, TypeOK, Row, RestartDue, Starts, disk
<1>4. ASSUME NEW s \in Session, Kill(s) PROVE OneWorker'
  BY <1>4 DEF OneWorker, TypeOK, Row, Kill, Present, Becomes, threads, disk, history
<1>5. ASSUME NEW s \in Session, ArchiveAsked(s) PROVE OneWorker'
  BY <1>5 DEF OneWorker, TypeOK, Row, ArchiveAsked, Present, disk, history
<1>6. ASSUME NEW s \in Session, Report(s) PROVE OneWorker'
  BY <1>6 DEF OneWorker, TypeOK, Row, Report, Becomes, threads, disk, history
<1>7. ASSUME NEW s \in Session, Exit(s) PROVE OneWorker'
  BY <1>7 DEF OneWorker, TypeOK, Row, Exit, disk, history
<1>8. ASSUME NEW s \in Session, AgentRemoves(s) PROVE OneWorker'
  BY <1>8 DEF OneWorker, TypeOK, Row, AgentRemoves, Named, Present, threads, history
<1>9. ASSUME NEW s \in Session, WorktreeRemove(s) PROVE OneWorker'
  BY <1>9 DEF OneWorker, TypeOK, Row, WorktreeRemove, Named, Present, Becomes, threads,
     disk, history
<1>10. ASSUME NEW s \in Session, Reap(s) PROVE OneWorker'
  BY <1>10 DEF OneWorker, TypeOK, Row, Reap, Removed, threads
<1>11. ASSUME NEW w \in workers, ProvisionWorktree(w) PROVE OneWorker'
  BY <1>11 DEF OneWorker, TypeOK, Row, ProvisionWorktree, Proceeds, Goes, disk, history,
     Present, Standing, Worker
<1>12. ASSUME NEW w \in workers, CreateWorktree(w) PROVE OneWorker'
  BY <1>12 DEF OneWorker, TypeOK, Row, CreateWorktree, Goes, Worker
<1>13. ASSUME NEW w \in workers, RecordWorktree(w) PROVE OneWorker'
  BY <1>13 DEF OneWorker, TypeOK, Row, RecordWorktree, Present, Overtaken, Goes, disk,
     Worker
<1>14. ASSUME NEW w \in workers, RemoveOrphan(w) PROVE OneWorker'
  BY <1>14 DEF OneWorker, TypeOK, Row, RemoveOrphan, Removed, Goes, Worker
<1>15. ASSUME NEW w \in workers, LoadLease(w) PROVE OneWorker'
  BY <1>15 DEF OneWorker, TypeOK, Row, LoadLease, Proceeds, Goes, disk, history, Present,
     Standing, Worker
<1>16. ASSUME NEW w \in workers, ApplyLease(w) PROVE OneWorker'
  BY <1>16 DEF OneWorker, TypeOK, Row, ApplyLease, Goes, history, Worker
<1>17. ASSUME NEW w \in workers, RunSetup(w) PROVE OneWorker'
  BY <1>17 DEF OneWorker, TypeOK, Row, RunSetup, Standing, Goes, history, Worker
<1>18. ASSUME NEW w \in workers, CheckStart(w) PROVE OneWorker'
  BY <1>18 DEF OneWorker, TypeOK, Row, CheckStart, Proceeds, Goes, disk, history, Worker
<1>19. ASSUME NEW w \in workers, SpawnProcess(w) PROVE OneWorker'
  BY <1>19 DEF OneWorker, TypeOK, Row, SpawnProcess, Accepted, Standing, Goes, disk,
     history, Worker
<1>20. ASSUME NEW w \in workers, Unwind(w) PROVE OneWorker'
  BY <1>20 DEF OneWorker, TypeOK, Row, Unwind, Standing, Goes, Worker
<1>21. ASSUME NEW w \in workers, FinishStartFailure(w) PROVE OneWorker'
  BY <1>21 DEF OneWorker, TypeOK, Row, FinishStartFailure, Accepted, disk, history, Worker
<1>22. ASSUME NEW t \in teardowns, ReleaseLease(t) PROVE OneWorker'
  BY <1>22 DEF OneWorker, TypeOK, Row, ReleaseLease, Turns, Standing, Teardown
<1>23. ASSUME NEW t \in teardowns, RunTeardown(t) PROVE OneWorker'
  BY <1>23 DEF OneWorker, TypeOK, Row, RunTeardown, Turns, Standing, history, Teardown
<1>24. ASSUME NEW t \in teardowns, FinishTeardown(t) PROVE OneWorker'
  BY <1>24 DEF OneWorker, TypeOK, Row, FinishTeardown, disk, history, Teardown
<1>25. ASSUME NEW a \in archives, ReadWorktree(a) PROVE OneWorker'
  BY <1>25 DEF OneWorker, TypeOK, Row, ReadWorktree, Serves, Named, Present, disk,
     history, Archiver
<1>26. ASSUME NEW a \in archives, ReleaseWorktree(a) PROVE OneWorker'
  BY <1>26 DEF OneWorker, TypeOK, Row, ReleaseWorktree, Removed, Serves, Archiver
<1>27. ASSUME NEW a \in archives, RemoveRow(a) PROVE OneWorker'
  BY <1>27 DEF OneWorker, TypeOK, Row, RemoveRow, Present, disk, Archiver
<1>28. CASE Survey
  BY <1>28 DEF OneWorker, TypeOK, Row, Survey, Named, Present, threads, disk, history
<1>29. CASE Save
  BY <1>29 DEF OneWorker, TypeOK, Row, Save, Saved, Present, threads, disk, history
<1>30. CASE Crash
  BY <1>30 DEF OneWorker, TypeOK, Row, Crash, Restored, disk
<1>31. CASE UNCHANGED vars
  BY <1>31 DEF OneWorker, TypeOK, Row, vars, threads, disk, history
<1> QED
  BY <1>1, <1>2, <1>3, <1>4, <1>5, <1>6, <1>7, <1>8, <1>9, <1>10, <1>11, <1>12, <1>13,
     <1>14, <1>15, <1>16, <1>17, <1>18, <1>19, <1>20, <1>21, <1>22, <1>23, <1>24, <1>25,
     <1>26, <1>27, <1>28, <1>29, <1>30, <1>31 DEF Next, Request, Process, StartWorker,
     TeardownWorker, ArchiveThread

LEMMA StartsFirstNext ==
  ASSUME TypeOK, OneWorker, StartsFirst, [Next]_vars PROVE StartsFirst'
<1>1. ASSUME NEW s \in Session, Launch(s) PROVE StartsFirst'
  BY <1>1 DEF StartsFirst, OneWorker, TypeOK, Row, Launch, Starts, disk, Unborn
<1>2. ASSUME NEW s \in Session, Revive(s) PROVE StartsFirst'
  BY <1>2 DEF StartsFirst, OneWorker, TypeOK, Row, Revive, Revivable, Standing, Starts,
     disk
<1>3. ASSUME NEW s \in Session, RestartDue(s) PROVE StartsFirst'
  BY <1>3 DEF StartsFirst, OneWorker, TypeOK, Row, RestartDue, Starts, disk
<1>4. ASSUME NEW s \in Session, Kill(s) PROVE StartsFirst'
  BY <1>4, KillEffect DEF TypeOK, Worker, StartsFirst, OneWorker
<1>5. ASSUME NEW s \in Session, ArchiveAsked(s) PROVE StartsFirst'
  BY <1>5 DEF StartsFirst, OneWorker, TypeOK, Row, ArchiveAsked, Present, disk, history
<1>6. ASSUME NEW s \in Session, Report(s) PROVE StartsFirst'
  BY <1>6 DEF StartsFirst, OneWorker, TypeOK, Row, Report, Becomes, threads, disk, history
<1>7. ASSUME NEW s \in Session, Exit(s) PROVE StartsFirst'
  <2>1. UNCHANGED <<workers, checkout, database, up, doubled>>
    BY <1>7 DEF Exit, disk, history
  <2>2. row[s].at = "live" /\ row'[s].at # "preparing"
    BY <1>7, ExitEffect
  <2> QED
    BY <1>7, <2>1, <2>2, ExitEffect DEF TypeOK, Worker, StartsFirst, OneWorker
<1>8. ASSUME NEW s \in Session, AgentRemoves(s) PROVE StartsFirst'
  BY <1>8 DEF StartsFirst, OneWorker, TypeOK, Row, AgentRemoves, Named, Present, threads,
     history
<1>9. ASSUME NEW s \in Session, WorktreeRemove(s) PROVE StartsFirst'
  BY <1>9 DEF StartsFirst, OneWorker, TypeOK, Row, WorktreeRemove, Named, Present,
     Becomes, threads, disk, history
<1>10. ASSUME NEW s \in Session, Reap(s) PROVE StartsFirst'
  BY <1>10 DEF StartsFirst, OneWorker, TypeOK, Row, Reap, Removed, threads
<1>11. ASSUME NEW w \in workers, ProvisionWorktree(w) PROVE StartsFirst'
  BY <1>11 DEF StartsFirst, OneWorker, TypeOK, Row, ProvisionWorktree, Proceeds, Goes,
     disk, history, Present, Standing, Worker
<1>12. ASSUME NEW w \in workers, CreateWorktree(w) PROVE StartsFirst'
  BY <1>12 DEF StartsFirst, OneWorker, TypeOK, Row, CreateWorktree, Goes, Worker
<1>13. ASSUME NEW w \in workers, RecordWorktree(w) PROVE StartsFirst'
  BY <1>13 DEF StartsFirst, OneWorker, TypeOK, Row, RecordWorktree, Present, Overtaken,
     Goes, disk, Worker
<1>14. ASSUME NEW w \in workers, RemoveOrphan(w) PROVE StartsFirst'
  BY <1>14 DEF StartsFirst, OneWorker, TypeOK, Row, RemoveOrphan, Removed, Goes, Worker
<1>15. ASSUME NEW w \in workers, LoadLease(w) PROVE StartsFirst'
  BY <1>15 DEF StartsFirst, OneWorker, TypeOK, Row, LoadLease, Proceeds, Goes, disk,
     history, Present, Standing, Worker
<1>16. ASSUME NEW w \in workers, ApplyLease(w) PROVE StartsFirst'
  BY <1>16 DEF StartsFirst, OneWorker, TypeOK, Row, ApplyLease, Goes, history, Worker
<1>17. ASSUME NEW w \in workers, RunSetup(w) PROVE StartsFirst'
  BY <1>17 DEF StartsFirst, OneWorker, TypeOK, Row, RunSetup, Standing, Goes, history,
     Worker
<1>18. ASSUME NEW w \in workers, CheckStart(w) PROVE StartsFirst'
  BY <1>18 DEF StartsFirst, OneWorker, TypeOK, Row, CheckStart, Proceeds, Goes, disk,
     history, Worker
<1>19. ASSUME NEW w \in workers, SpawnProcess(w) PROVE StartsFirst'
  BY <1>19 DEF StartsFirst, OneWorker, TypeOK, Row, SpawnProcess, Accepted, Standing,
     Goes, disk, history, Worker
<1>20. ASSUME NEW w \in workers, Unwind(w) PROVE StartsFirst'
  BY <1>20 DEF StartsFirst, OneWorker, TypeOK, Row, Unwind, Standing, Goes, Worker
<1>21. ASSUME NEW w \in workers, FinishStartFailure(w) PROVE StartsFirst'
  BY <1>21 DEF StartsFirst, OneWorker, TypeOK, Row, FinishStartFailure, Accepted, disk,
     history, Worker
<1>22. ASSUME NEW t \in teardowns, ReleaseLease(t) PROVE StartsFirst'
  BY <1>22 DEF StartsFirst, OneWorker, TypeOK, Row, ReleaseLease, Turns, Standing,
     Teardown
<1>23. ASSUME NEW t \in teardowns, RunTeardown(t) PROVE StartsFirst'
  BY <1>23 DEF StartsFirst, OneWorker, TypeOK, Row, RunTeardown, Turns, Standing, history,
     Teardown
<1>24. ASSUME NEW t \in teardowns, FinishTeardown(t) PROVE StartsFirst'
  BY <1>24 DEF StartsFirst, OneWorker, TypeOK, Row, FinishTeardown, disk, history,
     Teardown
<1>25. ASSUME NEW a \in archives, ReadWorktree(a) PROVE StartsFirst'
  BY <1>25 DEF StartsFirst, OneWorker, TypeOK, Row, ReadWorktree, Serves, Named, Present,
     disk, history, Archiver
<1>26. ASSUME NEW a \in archives, ReleaseWorktree(a) PROVE StartsFirst'
  BY <1>26 DEF StartsFirst, OneWorker, TypeOK, Row, ReleaseWorktree, Removed, Serves,
     Archiver
<1>27. ASSUME NEW a \in archives, RemoveRow(a) PROVE StartsFirst'
  BY <1>27, RemoveEffect DEF TypeOK, Worker, StartsFirst, OneWorker
<1>28. CASE Survey
  BY <1>28 DEF StartsFirst, OneWorker, TypeOK, Row, Survey, Named, Present, threads, disk,
     history
<1>29. CASE Save
  BY <1>29 DEF StartsFirst, OneWorker, TypeOK, Row, Save, Saved, Present, threads, disk,
     history
<1>30. CASE Crash
  BY <1>30 DEF StartsFirst, OneWorker, TypeOK, Row, Crash, Restored, disk
<1>31. CASE UNCHANGED vars
  BY <1>31 DEF StartsFirst, OneWorker, TypeOK, Row, vars, threads, disk, history
<1> QED
  BY <1>1, <1>2, <1>3, <1>4, <1>5, <1>6, <1>7, <1>8, <1>9, <1>10, <1>11, <1>12, <1>13,
     <1>14, <1>15, <1>16, <1>17, <1>18, <1>19, <1>20, <1>21, <1>22, <1>23, <1>24, <1>25,
     <1>26, <1>27, <1>28, <1>29, <1>30, <1>31 DEF Next, Request, Process, StartWorker,
     TeardownWorker, ArchiveThread

LEMMA TeardownNext ==
  ASSUME TypeOK, TeardownFollows, OneTeardown, [Next]_vars PROVE (TeardownFollows /\ OneTeardown)'
<1>1. ASSUME NEW s \in Session, Launch(s) PROVE (TeardownFollows /\ OneTeardown)'
  BY <1>1 DEF TeardownFollows, OneTeardown, TypeOK, Row, Launch, Starts, disk, Unborn
<1>2. ASSUME NEW s \in Session, Revive(s) PROVE (TeardownFollows /\ OneTeardown)'
  BY <1>2 DEF TeardownFollows, OneTeardown, TypeOK, Row, Revive, Revivable, Standing,
     Starts, disk
<1>3. ASSUME NEW s \in Session, RestartDue(s) PROVE (TeardownFollows /\ OneTeardown)'
  BY <1>3 DEF TeardownFollows, OneTeardown, TypeOK, Row, RestartDue, Starts, disk
<1>4. ASSUME NEW s \in Session, Kill(s) PROVE (TeardownFollows /\ OneTeardown)'
  BY <1>4, KillEffect DEF TypeOK, Teardown, TeardownFollows, OneTeardown
<1>5. ASSUME NEW s \in Session, ArchiveAsked(s) PROVE (TeardownFollows /\ OneTeardown)'
  BY <1>5 DEF TeardownFollows, OneTeardown, TypeOK, Row, ArchiveAsked, Present, disk,
     history
<1>6. ASSUME NEW s \in Session, Report(s) PROVE (TeardownFollows /\ OneTeardown)'
  BY <1>6 DEF TeardownFollows, OneTeardown, TypeOK, Row, Report, Becomes, threads, disk,
     history
<1>7. ASSUME NEW s \in Session, Exit(s) PROVE (TeardownFollows /\ OneTeardown)'
  BY <1>7, ExitEffect DEF TypeOK, Teardown, TeardownFollows, OneTeardown
<1>8. ASSUME NEW s \in Session, AgentRemoves(s) PROVE (TeardownFollows /\ OneTeardown)'
  BY <1>8 DEF TeardownFollows, OneTeardown, TypeOK, Row, AgentRemoves, Named, Present,
     threads, history
<1>9. ASSUME NEW s \in Session, WorktreeRemove(s) PROVE (TeardownFollows /\ OneTeardown)'
  BY <1>9 DEF TeardownFollows, OneTeardown, TypeOK, Row, WorktreeRemove, Named, Present,
     Becomes, threads, disk, history
<1>10. ASSUME NEW s \in Session, Reap(s) PROVE (TeardownFollows /\ OneTeardown)'
  BY <1>10 DEF TeardownFollows, OneTeardown, TypeOK, Row, Reap, Removed, threads
<1>11. ASSUME NEW w \in workers, ProvisionWorktree(w) PROVE (TeardownFollows /\ OneTeardown)'
  BY <1>11 DEF TeardownFollows, OneTeardown, TypeOK, Row, ProvisionWorktree, Proceeds,
     Goes, disk, history, Present, Standing, Worker
<1>12. ASSUME NEW w \in workers, CreateWorktree(w) PROVE (TeardownFollows /\ OneTeardown)'
  BY <1>12 DEF TeardownFollows, OneTeardown, TypeOK, Row, CreateWorktree, Goes, Worker
<1>13. ASSUME NEW w \in workers, RecordWorktree(w) PROVE (TeardownFollows /\ OneTeardown)'
  <2>1. UNCHANGED teardowns /\ \A d \in Session : row'[d].at = row[d].at
    BY <1>13 DEF TypeOK, Row, Worker, RecordWorktree
  <2> QED
    BY <2>1 DEF TypeOK, Teardown, TeardownFollows, OneTeardown
<1>14. ASSUME NEW w \in workers, RemoveOrphan(w) PROVE (TeardownFollows /\ OneTeardown)'
  BY <1>14 DEF TeardownFollows, OneTeardown, TypeOK, Row, RemoveOrphan, Removed, Goes,
     Worker
<1>15. ASSUME NEW w \in workers, LoadLease(w) PROVE (TeardownFollows /\ OneTeardown)'
  BY <1>15 DEF TeardownFollows, OneTeardown, TypeOK, Row, LoadLease, Proceeds, Goes, disk,
     history, Present, Standing, Worker
<1>16. ASSUME NEW w \in workers, ApplyLease(w) PROVE (TeardownFollows /\ OneTeardown)'
  BY <1>16 DEF TeardownFollows, OneTeardown, TypeOK, Row, ApplyLease, Goes, history,
     Worker
<1>17. ASSUME NEW w \in workers, RunSetup(w) PROVE (TeardownFollows /\ OneTeardown)'
  BY <1>17 DEF TeardownFollows, OneTeardown, TypeOK, Row, RunSetup, Standing, Goes,
     history, Worker
<1>18. ASSUME NEW w \in workers, CheckStart(w) PROVE (TeardownFollows /\ OneTeardown)'
  BY <1>18 DEF TeardownFollows, OneTeardown, TypeOK, Row, CheckStart, Proceeds, Goes,
     disk, history, Worker
<1>19. ASSUME NEW w \in workers, SpawnProcess(w) PROVE (TeardownFollows /\ OneTeardown)'
  <2>1. UNCHANGED teardowns
    BY <1>19 DEF SpawnProcess
  <2>2. \A d \in Session : row'[d] = row[d] \/ row[d].at = "preparing"
    BY <1>19 DEF TypeOK, Row, Worker, SpawnProcess, Accepted
  <2> QED
    BY <2>1, <2>2 DEF TypeOK, Teardown, TeardownFollows, OneTeardown
<1>20. ASSUME NEW w \in workers, Unwind(w) PROVE (TeardownFollows /\ OneTeardown)'
  BY <1>20 DEF TeardownFollows, OneTeardown, TypeOK, Row, Unwind, Standing, Goes, Worker
<1>21. ASSUME NEW w \in workers, FinishStartFailure(w) PROVE (TeardownFollows /\ OneTeardown)'
  BY <1>21 DEF TeardownFollows, OneTeardown, TypeOK, Row, FinishStartFailure, Accepted,
     disk, history, Worker
<1>22. ASSUME NEW t \in teardowns, ReleaseLease(t) PROVE (TeardownFollows /\ OneTeardown)'
  BY <1>22 DEF TeardownFollows, OneTeardown, TypeOK, Row, ReleaseLease, Turns, Standing,
     Teardown
<1>23. ASSUME NEW t \in teardowns, RunTeardown(t) PROVE (TeardownFollows /\ OneTeardown)'
  BY <1>23 DEF TeardownFollows, OneTeardown, TypeOK, Row, RunTeardown, Turns, Standing,
     history, Teardown
<1>24. ASSUME NEW t \in teardowns, FinishTeardown(t) PROVE (TeardownFollows /\ OneTeardown)'
  BY <1>24 DEF TeardownFollows, OneTeardown, TypeOK, Row, FinishTeardown, disk, history,
     Teardown
<1>25. ASSUME NEW a \in archives, ReadWorktree(a) PROVE (TeardownFollows /\ OneTeardown)'
  BY <1>25 DEF TeardownFollows, OneTeardown, TypeOK, Row, ReadWorktree, Serves, Named,
     Present, disk, history, Archiver
<1>26. ASSUME NEW a \in archives, ReleaseWorktree(a) PROVE (TeardownFollows /\ OneTeardown)'
  BY <1>26 DEF TeardownFollows, OneTeardown, TypeOK, Row, ReleaseWorktree, Removed,
     Serves, Archiver
<1>27. ASSUME NEW a \in archives, RemoveRow(a) PROVE (TeardownFollows /\ OneTeardown)'
  BY <1>27, RemoveEffect DEF TypeOK, Teardown, TeardownFollows, OneTeardown
<1>28. CASE Survey
  BY <1>28 DEF TeardownFollows, OneTeardown, TypeOK, Row, Survey, Named, Present, threads,
     disk, history
<1>29. CASE Save
  BY <1>29 DEF TeardownFollows, OneTeardown, TypeOK, Row, Save, Saved, Present, threads,
     disk, history
<1>30. CASE Crash
  BY <1>30 DEF TeardownFollows, OneTeardown, TypeOK, Row, Crash, Restored, disk
<1>31. CASE UNCHANGED vars
  BY <1>31 DEF TeardownFollows, OneTeardown, TypeOK, Row, vars, threads, disk, history
<1> QED
  BY <1>1, <1>2, <1>3, <1>4, <1>5, <1>6, <1>7, <1>8, <1>9, <1>10, <1>11, <1>12, <1>13,
     <1>14, <1>15, <1>16, <1>17, <1>18, <1>19, <1>20, <1>21, <1>22, <1>23, <1>24, <1>25,
     <1>26, <1>27, <1>28, <1>29, <1>30, <1>31 DEF Next, Request, Process, StartWorker,
     TeardownWorker, ArchiveThread

LEMMA LeasedNext ==
  ASSUME TypeOK, OneWorker, TeardownFollows, Leased, [Next]_vars PROVE Leased'
<1>1. ASSUME NEW s \in Session, Launch(s) PROVE Leased'
  BY <1>1 DEF Leased, OneWorker, TeardownFollows, Standing, TypeOK, Row, Launch, Starts,
     disk, Unborn
<1>2. ASSUME NEW s \in Session, Revive(s) PROVE Leased'
  BY <1>2 DEF Leased, OneWorker, TeardownFollows, TypeOK, Row, Revive, Revivable,
     Standing, Starts, disk
<1>3. ASSUME NEW s \in Session, RestartDue(s) PROVE Leased'
  BY <1>3 DEF Leased, OneWorker, TeardownFollows, Standing, TypeOK, Row, RestartDue,
     Starts, disk
<1>4. ASSUME NEW s \in Session, Kill(s) PROVE Leased'
  BY <1>4, KillEffect DEF TypeOK, Worker, Leased, OneWorker, TeardownFollows, Standing
<1>5. ASSUME NEW s \in Session, ArchiveAsked(s) PROVE Leased'
  BY <1>5 DEF Leased, OneWorker, TeardownFollows, Standing, TypeOK, Row, ArchiveAsked,
     Present, disk, history
<1>6. ASSUME NEW s \in Session, Report(s) PROVE Leased'
  BY <1>6 DEF Leased, OneWorker, TeardownFollows, Standing, TypeOK, Row, Report, Becomes,
     threads, disk, history
<1>7. ASSUME NEW s \in Session, Exit(s) PROVE Leased'
  <2>1. UNCHANGED <<workers, checkout, database, up, doubled>>
    BY <1>7 DEF Exit, disk, history
  <2>2. row[s].at = "live" /\ row'[s].at # "preparing"
    BY <1>7, ExitEffect
  <2> QED
    BY <1>7, <2>1, <2>2, ExitEffect DEF TypeOK, Worker, Leased, OneWorker,
       TeardownFollows, Standing
<1>8. ASSUME NEW s \in Session, AgentRemoves(s) PROVE Leased'
  BY <1>8 DEF Leased, OneWorker, TeardownFollows, Standing, TypeOK, Row, AgentRemoves,
     Named, Present, threads, history
<1>9. ASSUME NEW s \in Session, WorktreeRemove(s) PROVE Leased'
  BY <1>9 DEF Leased, OneWorker, TeardownFollows, Standing, TypeOK, Row, WorktreeRemove,
     Named, Present, Becomes, threads, disk, history
<1>10. ASSUME NEW s \in Session, Reap(s) PROVE Leased'
  BY <1>10 DEF Leased, OneWorker, TeardownFollows, Standing, TypeOK, Row, Reap, Removed,
     threads
<1>11. ASSUME NEW w \in workers, ProvisionWorktree(w) PROVE Leased'
  BY <1>11 DEF Leased, OneWorker, TeardownFollows, TypeOK, Row, ProvisionWorktree,
     Proceeds, Goes, disk, history, Present, Standing, Worker
<1>12. ASSUME NEW w \in workers, CreateWorktree(w) PROVE Leased'
  BY <1>12 DEF Leased, OneWorker, TeardownFollows, Standing, TypeOK, Row, CreateWorktree,
     Goes, Worker
<1>13. ASSUME NEW w \in workers, RecordWorktree(w) PROVE Leased'
  BY <1>13 DEF Leased, OneWorker, TeardownFollows, Standing, TypeOK, Row, RecordWorktree,
     Present, Overtaken, Goes, disk, Worker
<1>14. ASSUME NEW w \in workers, RemoveOrphan(w) PROVE Leased'
  BY <1>14 DEF Leased, OneWorker, TeardownFollows, Standing, TypeOK, Row, RemoveOrphan,
     Removed, Goes, Worker
<1>15. ASSUME NEW w \in workers, LoadLease(w) PROVE Leased'
  BY <1>15 DEF Leased, OneWorker, TeardownFollows, TypeOK, Row, LoadLease, Proceeds, Goes,
     disk, history, Present, Standing, Worker
<1>16. ASSUME NEW w \in workers, ApplyLease(w) PROVE Leased'
  BY <1>16 DEF Leased, OneWorker, TeardownFollows, Standing, TypeOK, Row, ApplyLease,
     Goes, history, Worker
<1>17. ASSUME NEW w \in workers, RunSetup(w) PROVE Leased'
  BY <1>17 DEF Leased, OneWorker, TeardownFollows, TypeOK, Row, RunSetup, Standing, Goes,
     history, Worker
<1>18. ASSUME NEW w \in workers, CheckStart(w) PROVE Leased'
  BY <1>18 DEF Leased, OneWorker, TeardownFollows, Standing, TypeOK, Row, CheckStart,
     Proceeds, Goes, disk, history, Worker
<1>19. ASSUME NEW w \in workers, SpawnProcess(w) PROVE Leased'
  BY <1>19 DEF Leased, OneWorker, TeardownFollows, TypeOK, Row, SpawnProcess, Accepted,
     Standing, Goes, disk, history, Worker
<1>20. ASSUME NEW w \in workers, Unwind(w) PROVE Leased'
  BY <1>20 DEF Leased, OneWorker, TeardownFollows, TypeOK, Row, Unwind, Standing, Goes,
     Worker
<1>21. ASSUME NEW w \in workers, FinishStartFailure(w) PROVE Leased'
  BY <1>21 DEF Leased, OneWorker, TeardownFollows, Standing, TypeOK, Row,
     FinishStartFailure, Accepted, disk, history, Worker
<1>22. ASSUME NEW t \in teardowns, ReleaseLease(t) PROVE Leased'
  BY <1>22 DEF Leased, OneWorker, TeardownFollows, TypeOK, Row, ReleaseLease, Turns,
     Standing, Teardown
<1>23. ASSUME NEW t \in teardowns, RunTeardown(t) PROVE Leased'
  BY <1>23 DEF Leased, OneWorker, TeardownFollows, TypeOK, Row, RunTeardown, Turns,
     Standing, history, Teardown
<1>24. ASSUME NEW t \in teardowns, FinishTeardown(t) PROVE Leased'
  BY <1>24 DEF Leased, OneWorker, TeardownFollows, Standing, TypeOK, Row, FinishTeardown,
     disk, history, Teardown
<1>25. ASSUME NEW a \in archives, ReadWorktree(a) PROVE Leased'
  BY <1>25 DEF Leased, OneWorker, TeardownFollows, Standing, TypeOK, Row, ReadWorktree,
     Serves, Named, Present, disk, history, Archiver
<1>26. ASSUME NEW a \in archives, ReleaseWorktree(a) PROVE Leased'
  BY <1>26 DEF Leased, OneWorker, TeardownFollows, Standing, TypeOK, Row, ReleaseWorktree,
     Removed, Serves, Archiver
<1>27. ASSUME NEW a \in archives, RemoveRow(a) PROVE Leased'
  BY <1>27, RemoveEffect DEF TypeOK, Worker, Leased, OneWorker, TeardownFollows, Standing
<1>28. CASE Survey
  BY <1>28 DEF Leased, OneWorker, TeardownFollows, Standing, TypeOK, Row, Survey, Named,
     Present, threads, disk, history
<1>29. CASE Save
  BY <1>29 DEF Leased, OneWorker, TeardownFollows, Standing, TypeOK, Row, Save, Saved,
     Present, threads, disk, history
<1>30. CASE Crash
  BY <1>30 DEF Leased, OneWorker, TeardownFollows, Standing, TypeOK, Row, Crash, Restored,
     disk
<1>31. CASE UNCHANGED vars
  BY <1>31 DEF Leased, OneWorker, TeardownFollows, Standing, TypeOK, Row, vars, threads,
     disk, history
<1> QED
  BY <1>1, <1>2, <1>3, <1>4, <1>5, <1>6, <1>7, <1>8, <1>9, <1>10, <1>11, <1>12, <1>13,
     <1>14, <1>15, <1>16, <1>17, <1>18, <1>19, <1>20, <1>21, <1>22, <1>23, <1>24, <1>25,
     <1>26, <1>27, <1>28, <1>29, <1>30, <1>31 DEF Next, Request, Process, StartWorker,
     TeardownWorker, ArchiveThread

LEMMA StandsNext ==
  ASSUME TypeOK, StartsFirst, TeardownFollows, Leased, EnvironmentStands, [Next]_vars
  PROVE  EnvironmentStands'
<1>1. ASSUME NEW s \in Session, Launch(s) PROVE EnvironmentStands'
  BY <1>1 DEF EnvironmentStands, StartsFirst, TeardownFollows, Leased, TypeOK, Row,
     Launch, Starts, disk, Unborn
<1>2. ASSUME NEW s \in Session, Revive(s) PROVE EnvironmentStands'
  BY <1>2 DEF EnvironmentStands, StartsFirst, TeardownFollows, Leased, TypeOK, Row,
     Revive, Revivable, Standing, Starts, disk
<1>3. ASSUME NEW s \in Session, RestartDue(s) PROVE EnvironmentStands'
  BY <1>3 DEF EnvironmentStands, StartsFirst, TeardownFollows, Leased, TypeOK, Row,
     RestartDue, Starts, disk
<1>4. ASSUME NEW s \in Session, Kill(s) PROVE EnvironmentStands'
  BY <1>4, KillEffect DEF TypeOK, EnvironmentStands, StartsFirst, TeardownFollows, Leased
<1>5. ASSUME NEW s \in Session, ArchiveAsked(s) PROVE EnvironmentStands'
  BY <1>5 DEF EnvironmentStands, StartsFirst, TeardownFollows, Leased, TypeOK, Row,
     ArchiveAsked, Present, disk, history
<1>6. ASSUME NEW s \in Session, Report(s) PROVE EnvironmentStands'
  BY <1>6 DEF EnvironmentStands, StartsFirst, TeardownFollows, Leased, TypeOK, Row,
     Report, Becomes, threads, disk, history
<1>7. ASSUME NEW s \in Session, Exit(s) PROVE EnvironmentStands'
  BY <1>7 DEF EnvironmentStands, StartsFirst, TeardownFollows, Leased, TypeOK, Row, Exit,
     disk, history
<1>8. ASSUME NEW s \in Session, AgentRemoves(s) PROVE EnvironmentStands'
  BY <1>8 DEF EnvironmentStands, StartsFirst, TeardownFollows, Leased, TypeOK, Row,
     AgentRemoves, Named, Present, threads, history
<1>9. ASSUME NEW s \in Session, WorktreeRemove(s) PROVE EnvironmentStands'
  BY <1>9 DEF EnvironmentStands, StartsFirst, TeardownFollows, Leased, TypeOK, Row,
     WorktreeRemove, Named, Present, Becomes, threads, disk, history
<1>10. ASSUME NEW s \in Session, Reap(s) PROVE EnvironmentStands'
  BY <1>10 DEF EnvironmentStands, StartsFirst, TeardownFollows, Leased, TypeOK, Row, Reap,
     Removed, threads
<1>11. ASSUME NEW w \in workers, ProvisionWorktree(w) PROVE EnvironmentStands'
  BY <1>11 DEF EnvironmentStands, StartsFirst, TeardownFollows, Leased, TypeOK, Row,
     ProvisionWorktree, Proceeds, Goes, disk, history, Present, Standing, Worker
<1>12. ASSUME NEW w \in workers, CreateWorktree(w) PROVE EnvironmentStands'
  BY <1>12 DEF EnvironmentStands, StartsFirst, TeardownFollows, Leased, TypeOK, Row,
     CreateWorktree, Goes, Worker
<1>13. ASSUME NEW w \in workers, RecordWorktree(w) PROVE EnvironmentStands'
  BY <1>13 DEF EnvironmentStands, StartsFirst, TeardownFollows, Leased, TypeOK, Row,
     RecordWorktree, Present, Overtaken, Goes, disk, Worker
<1>14. ASSUME NEW w \in workers, RemoveOrphan(w) PROVE EnvironmentStands'
  BY <1>14 DEF EnvironmentStands, StartsFirst, TeardownFollows, Leased, TypeOK, Row,
     RemoveOrphan, Removed, Goes, Worker
<1>15. ASSUME NEW w \in workers, LoadLease(w) PROVE EnvironmentStands'
  BY <1>15 DEF EnvironmentStands, StartsFirst, TeardownFollows, Leased, TypeOK, Row,
     LoadLease, Proceeds, Goes, disk, history, Present, Standing, Worker
<1>16. ASSUME NEW w \in workers, ApplyLease(w) PROVE EnvironmentStands'
  BY <1>16 DEF EnvironmentStands, StartsFirst, TeardownFollows, Leased, TypeOK, Row,
     ApplyLease, Goes, history, Worker
<1>17. ASSUME NEW w \in workers, RunSetup(w) PROVE EnvironmentStands'
  BY <1>17 DEF EnvironmentStands, StartsFirst, TeardownFollows, Leased, TypeOK, Row,
     RunSetup, Standing, Goes, history, Worker
<1>18. ASSUME NEW w \in workers, CheckStart(w) PROVE EnvironmentStands'
  BY <1>18 DEF EnvironmentStands, StartsFirst, TeardownFollows, Leased, TypeOK, Row,
     CheckStart, Proceeds, Goes, disk, history, Worker
<1>19. ASSUME NEW w \in workers, SpawnProcess(w) PROVE EnvironmentStands'
  BY <1>19 DEF EnvironmentStands, StartsFirst, TeardownFollows, Leased, TypeOK, Row,
     SpawnProcess, Accepted, Standing, Goes, disk, history, Worker
<1>20. ASSUME NEW w \in workers, Unwind(w) PROVE EnvironmentStands'
  BY <1>20 DEF EnvironmentStands, StartsFirst, TeardownFollows, Leased, TypeOK, Row,
     Unwind, Standing, Goes, Worker
<1>21. ASSUME NEW w \in workers, FinishStartFailure(w) PROVE EnvironmentStands'
  BY <1>21 DEF EnvironmentStands, StartsFirst, TeardownFollows, Leased, TypeOK, Row,
     FinishStartFailure, Accepted, disk, history, Worker
<1>22. ASSUME NEW t \in teardowns, ReleaseLease(t) PROVE EnvironmentStands'
  BY <1>22 DEF EnvironmentStands, StartsFirst, TeardownFollows, Leased, TypeOK, Row,
     ReleaseLease, Turns, Standing, Teardown
<1>23. ASSUME NEW t \in teardowns, RunTeardown(t) PROVE EnvironmentStands'
  BY <1>23 DEF EnvironmentStands, StartsFirst, TeardownFollows, Leased, TypeOK, Row,
     RunTeardown, Turns, Standing, history, Teardown
<1>24. ASSUME NEW t \in teardowns, FinishTeardown(t) PROVE EnvironmentStands'
  BY <1>24 DEF EnvironmentStands, StartsFirst, TeardownFollows, Leased, TypeOK, Row,
     FinishTeardown, disk, history, Teardown
<1>25. ASSUME NEW a \in archives, ReadWorktree(a) PROVE EnvironmentStands'
  BY <1>25 DEF EnvironmentStands, StartsFirst, TeardownFollows, Leased, TypeOK, Row,
     ReadWorktree, Serves, Named, Present, disk, history, Archiver
<1>26. ASSUME NEW a \in archives, ReleaseWorktree(a) PROVE EnvironmentStands'
  BY <1>26 DEF EnvironmentStands, StartsFirst, TeardownFollows, Leased, TypeOK, Row,
     ReleaseWorktree, Removed, Serves, Archiver
<1>27. ASSUME NEW a \in archives, RemoveRow(a) PROVE EnvironmentStands'
  BY <1>27 DEF EnvironmentStands, StartsFirst, TeardownFollows, Leased, TypeOK, Row,
     RemoveRow, Present, disk, Archiver
<1>28. CASE Survey
  BY <1>28 DEF EnvironmentStands, StartsFirst, TeardownFollows, Leased, TypeOK, Row,
     Survey, Named, Present, threads, disk, history
<1>29. CASE Save
  BY <1>29 DEF EnvironmentStands, StartsFirst, TeardownFollows, Leased, TypeOK, Row, Save,
     Saved, Present, threads, disk, history
<1>30. CASE Crash
  BY <1>30 DEF EnvironmentStands, StartsFirst, TeardownFollows, Leased, TypeOK, Row,
     Crash, Restored, disk
<1>31. CASE UNCHANGED vars
  BY <1>31 DEF EnvironmentStands, StartsFirst, TeardownFollows, Leased, TypeOK, Row, vars,
     threads, disk, history
<1> QED
  BY <1>1, <1>2, <1>3, <1>4, <1>5, <1>6, <1>7, <1>8, <1>9, <1>10, <1>11, <1>12, <1>13,
     <1>14, <1>15, <1>16, <1>17, <1>18, <1>19, <1>20, <1>21, <1>22, <1>23, <1>24, <1>25,
     <1>26, <1>27, <1>28, <1>29, <1>30, <1>31 DEF Next, Request, Process, StartWorker,
     TeardownWorker, ArchiveThread

(* What a process was started in stands as long as it lives, unless its row   *)
(* has had two start workers at once.                                        *)
THEOREM EnvironmentHolds == Spec => []EnvironmentStands
<1>1. Init => IEnvironment
  BY DEF Init, IEnvironment, OneWorker, StartsFirst, TeardownFollows, OneTeardown, Leased,
     EnvironmentStands, Unborn
<1>2. TypeOK /\ IEnvironment /\ [Next]_vars => IEnvironment'
  BY OneWorkerNext, StartsFirstNext, TeardownNext, LeasedNext, StandsNext DEF IEnvironment
<1>3. IEnvironment => EnvironmentStands
  BY DEF IEnvironment
<1> QED
  BY <1>1, <1>2, <1>3, TypesHold, PTL DEF Spec
=============================================================================
