------------------------- MODULE SupervisionProofs -------------------------
(***************************************************************************)
(* What the registry's supervision keeps for every fleet, every cap and    *)
(* every restart budget, with failing threads, failing kills and signals   *)
(* at any time: types, the generation discipline, the finality of a stop,  *)
(* that no row that waits is forgotten, that only a signal leaves a row    *)
(* live without its process or, its rate limit apart, takes the fleet over *)
(* its cap, and which steps alone leave the queue waiting for a free slot; *)
(* and where kills do not fail, that no running process is lost.           *)
(***************************************************************************)
EXTENDS Supervision, FiniteSetTheorems, TLAPS

-----------------------------------------------------------------------------
(* The inductive invariant.  A worker carries a generation its row has had *)
(* (WorkersAreBorn), alone of its generation (OneWorkerPerGeneration) and  *)
(* before the row owns a process of it (StartsBeforeProcess); a teardown   *)
(* worker carries one no start worker has (TeardownsAreBorn,               *)
(* TeardownsAreApart); a watcher, monitor or stop worker, whose generation *)
(* is still its row's finds the row owning the process it watches          *)
(* (WatchersFollow); a queued row owns nothing (QueuedOwnsNothing); a row  *)
(* told to stop has its flag up or rests (KilledIsStopped), and without    *)
(* the flag has no worker that could undo the stop (KilledIsFinal).        *)

WorkersAreBorn ==
    \A w \in starters :
        w.id \in used /\ (w.id \in entries => w.gen <= row[w.id].gen)

OneWorkerPerGeneration ==
    \A v, w \in starters : v.id = w.id /\ v.gen = w.gen => v = w

StartsBeforeProcess ==
    \A w \in starters : Current(w.id, w.gen) => row[w.id].pty = 0

TeardownsAreBorn ==
    \A t \in teardowns :
        t.id \in used /\ (t.id \in entries => t.gen <= row[t.id].gen)

TeardownsAreApart ==
    \A t \in teardowns :
        /\ Current(t.id, t.gen) => row[t.id].pty = 0
        /\ \A w \in starters : t.id = w.id => t.gen # w.gen

WatchersFollow ==
    \A p \in monitors \cup stoppers \cup closers :
        /\ p[1] \in used
        /\ p[1] \in entries => p[2] <= row[p[1]].gen
        /\ p[1] \in entries /\ p[2] = row[p[1]].gen => row[p[1]].pty = p[2]

QueuedOwnsNothing ==
    \A s \in entries : row[s].status = "Queued" => row[s].pty = 0

\* A row told to stop may have the fields of q.
Final(q) == \/ q.stop
            \/ q.pty = 0 /\ q.status # "Queued" /\ q.phase \notin {"Preparing", "Backoff"}

KilledIsStopped == \A s \in entries \cap killed : Final(row[s])

KilledIsFinal ==
    \A s \in entries \cap killed :
        ~row[s].stop =>
            /\ \A w \in starters : ~(w.id = s /\ w.gen = row[s].gen)
            /\ \A t \in teardowns :
                  t.id = s /\ t.gen = row[s].gen => t.final \notin {"Preparing", "Backoff"}

Core == /\ WorkersAreBorn /\ OneWorkerPerGeneration /\ StartsBeforeProcess
        /\ TeardownsAreBorn /\ TeardownsAreApart /\ WatchersFollow
        /\ OwnershipIsCurrent /\ QueuedOwnsNothing
        /\ KilledIsStopped /\ KilledIsFinal

IInv == TypeOK /\ Core

-----------------------------------------------------------------------------
(* What the row operators do to the fields the invariant reads. *)

LEMMA PhaseOfType ==
    ASSUME NEW st \in Status
    PROVE  PhaseOf(st) \in Phase \ {"Preparing", "Backoff", "TearingDown"}
BY DEF PhaseOf, Status, Quiet, Live, Phase

LEMMA SetStatusFields ==
    ASSUME NEW r \in Row, NEW st \in Status
    PROVE  /\ SetStatus(r, st) \in Row
           /\ SetStatus(r, st).status = st
           /\ SetStatus(r, st).phase \notin {"Preparing", "Backoff", "TearingDown"}
           /\ SetStatus(r, st).gen = r.gen
           /\ SetStatus(r, st).stop = r.stop
           /\ SetStatus(r, st).torn = r.torn
           /\ SetStatus(r, st).pty = r.pty
           /\ SetStatus(r, st).resume = r.resume
BY PhaseOfType DEF SetStatus, Row

LEMMA NextGenFields ==
    ASSUME NEW r \in Row
    PROVE  /\ NextGen(r) \in Row
           /\ NextGen(r) = [r EXCEPT !.gen = r.gen + 1]
BY DEF NextGen, Row

LEMMA PrepareFields ==
    ASSUME NEW r \in Row
    PROVE  /\ Prepare(r) \in Row
           /\ Prepare(r).status = "Starting" /\ Prepare(r).phase = "Preparing"
           /\ Prepare(r).gen = r.gen + 1
           /\ Prepare(r).stop = r.stop
           /\ Prepare(r).torn = r.torn
           /\ Prepare(r).pty = r.pty
           /\ Prepare(r).resume = r.resume
<1>1. "Starting" \in Status /\ "Preparing" \in Phase
  BY DEF Status, Live, Phase
<1> QED
  BY <1>1, NextGenFields, SetStatusFields DEF Prepare, Row, NextGen

LEMMA RetireFields ==
    ASSUME NEW r \in Row
    PROVE  /\ Retire(r) \in Row
           /\ Retire(r).status = "Exited"
           /\ Retire(r).phase \notin {"Preparing", "Backoff", "TearingDown"}
           /\ Retire(r).gen = r.gen + 1
           /\ Retire(r).stop = r.stop
           /\ Retire(r).torn = r.torn
           /\ Retire(r).pty = r.pty
           /\ Retire(r).resume = r.resume
<1>1. "Exited" \in Status
  BY DEF Status, Quiet
<1>2. NextGen(r) \in Row /\ NextGen(r).gen = r.gen + 1 /\ NextGen(r).stop = r.stop
        /\ NextGen(r).torn = r.torn /\ NextGen(r).pty = r.pty
        /\ NextGen(r).resume = r.resume
  BY DEF NextGen, Row
<1> QED
  BY <1>1, <1>2, SetStatusFields DEF Retire

LEMMA DecideFields ==
    ASSUME NEW r \in Row, NEW finished \in BOOLEAN, NEW long \in BOOLEAN
    PROVE  /\ Decide(r, finished, long) \in Row
           /\ Decide(r, finished, long).status = "Exited"
           /\ Decide(r, finished, long).phase \in {"Finished", "Failed", "Backoff"}
           /\ Decide(r, finished, long).gen = r.gen
           /\ Decide(r, finished, long).stop = r.stop
           /\ Decide(r, finished, long).torn = r.torn
           /\ Decide(r, finished, long).pty = r.pty
<1> DEFINE spent == IF long THEN 0 ELSE r.restarts
           phase == IF finished THEN "Finished"
                    ELSE IF spent >= MaxRestarts THEN "Failed" ELSE "Backoff"
           next == IF phase = "Backoff" THEN spent + 1 ELSE spent
<1>1. spent \in Nat
  BY DEF Row
<1>2. phase \in {"Finished", "Failed", "Backoff"}
  OBVIOUS
<1>3. next \in Nat
  BY <1>1
<1>4. Decide(r, finished, long)
        = [r EXCEPT !.status = "Exited", !.phase = phase, !.restarts = next]
  BY DEF Decide
<1>5. "Exited" \in Status /\ phase \in Phase
  BY <1>2 DEF Status, Quiet, Phase
<1> HIDE DEF spent, phase, next
<1> QED
  BY <1>2, <1>3, <1>4, <1>5 DEF Row

LEMMA AfterExitFields ==
    ASSUME NEW r \in Row, NEW finished \in BOOLEAN, NEW long \in BOOLEAN
    PROVE  /\ AfterExit(r, finished, long) \in Row
           /\ AfterExit(r, finished, long).status = "Exited"
           /\ AfterExit(r, finished, long).phase \notin {"Preparing", "TearingDown"}
           /\ r.stop => AfterExit(r, finished, long).phase # "Backoff"
           /\ AfterExit(r, finished, long).gen = r.gen + 1
           /\ AfterExit(r, finished, long).torn = r.torn
           /\ AfterExit(r, finished, long).pty = 0
<1> DEFINE gone == [NextGen(r) EXCEPT !.pty = 0, !.stop = FALSE]
<1>1. gone \in Row /\ gone.gen = r.gen + 1 /\ gone.torn = r.torn /\ gone.pty = 0
  <2>1. NextGen(r) \in Row /\ NextGen(r).gen = r.gen + 1 /\ NextGen(r).torn = r.torn
    BY DEF NextGen, Row
  <2> QED
    BY <2>1 DEF Row
<1>2. "Exited" \in Status
  BY DEF Status, Quiet
<1> HIDE DEF gone
<1>3. AfterExit(r, finished, long)
        = IF r.stop THEN SetStatus(gone, "Exited") ELSE Decide(gone, finished, long)
  BY DEF AfterExit, gone
<1>4. CASE r.stop
  BY <1>1, <1>2, <1>3, <1>4, SetStatusFields
<1>5. CASE ~r.stop
  BY <1>1, <1>3, <1>5, DecideFields
<1> QED
  BY <1>4, <1>5

-----------------------------------------------------------------------------
(* The steps of the model are of a few shapes, and each shape keeps the    *)
(* invariant for reasons of its own.                                       *)

LEMMA Typed ==
    ASSUME TypeOK
    PROVE  /\ entries \subseteq Session /\ used \subseteq Session
           /\ \A s \in Session : row[s] \in Row /\ row[s].gen \in Nat
           /\ \A w \in starters : w.id \in Session /\ w.gen \in Nat
           /\ \A t \in teardowns : t.id \in Session /\ t.gen \in Nat
           /\ \A p \in monitors \cup stoppers \cup closers : p[1] \in Session /\ p[2] \in Nat
BY DEF TypeOK, Row, Proc, Starter, Teardown

\* A row changes under the generation and the process it has; workers leave.
LEMMA SameGeneration ==
    ASSUME IInv, NEW s \in entries, NEW q \in Row,
           row' = [row EXCEPT ![s] = q],
           q.gen = row[s].gen, q.pty = row[s].pty, q.torn = row[s].torn,
           q.status = "Queued" => row[s].status = "Queued",
           used' = used, entries' = entries,
           starters' \subseteq starters, teardowns' \subseteq teardowns,
           \A p \in monitors' \cup stoppers' \cup closers' :
               p \in monitors \cup stoppers \cup closers \/ (p = <<s, q.gen>> /\ q.pty # 0),
           killed' \ {s} \subseteq killed, s \in killed' => Final(q),
           s \in killed' /\ ~q.stop => s \in killed /\ ~row[s].stop
    PROVE  Core'
<1>0. TypeOK /\ Core
  BY DEF IInv
<1>1. /\ row'[s] = q
      /\ \A t \in Session : t # s => row'[t] = row[t]
  BY <1>0 DEF TypeOK
<1>2. \A t \in Session : /\ row'[t].gen = row[t].gen /\ row'[t].pty = row[t].pty
                         /\ row'[t].torn = row[t].torn
  BY <1>1
<1>3. (WorkersAreBorn /\ OneWorkerPerGeneration /\ StartsBeforeProcess)'
  BY <1>0, <1>2, Typed
     DEF Core, WorkersAreBorn, OneWorkerPerGeneration, StartsBeforeProcess, Current
<1>4. (TeardownsAreBorn /\ TeardownsAreApart)'
  BY <1>0, <1>2, Typed DEF Core, TeardownsAreBorn, TeardownsAreApart, Current
<1>5. OwnershipIsCurrent'
  BY <1>0, <1>2, Typed DEF Core, OwnershipIsCurrent
<1>6. QueuedOwnsNothing'
  BY <1>0, <1>1, <1>2, Typed DEF Core, QueuedOwnsNothing
<1>7. KilledIsFinal'
  <2> SUFFICES ASSUME NEW t \in entries, t \in killed'
               PROVE  ~row'[t].stop =>
                        /\ \A w \in starters : ~(w.id = t /\ w.gen = row'[t].gen)
                        /\ \A x \in teardowns : x.id = t /\ x.gen = row'[t].gen
                              => x.final \notin {"Preparing", "Backoff"}
    BY DEF KilledIsFinal
  <2>1. CASE t = s
    BY <2>1, <1>0, <1>1, <1>2, Typed DEF Core, KilledIsFinal
  <2>2. CASE t # s
    BY <2>2, <1>0, <1>2, Typed DEF Core, KilledIsFinal
  <2> QED
    BY <2>1, <2>2
<1>8. KilledIsStopped'
  BY <1>0, <1>1, Typed DEF Core, KilledIsStopped
<1>9. WatchersFollow'
  <2> SUFFICES ASSUME NEW p \in monitors' \cup stoppers' \cup closers'
               PROVE  /\ p[1] \in used
                      /\ p[1] \in entries => p[2] <= row'[p[1]].gen
                      /\ p[1] \in entries /\ p[2] = row'[p[1]].gen => row'[p[1]].pty = p[2]
    BY DEF WatchersFollow
  <2>1. CASE p \in monitors \cup stoppers \cup closers
    <3>1. /\ p[1] \in used /\ p[1] \in Session /\ p[2] \in Nat
          /\ p[1] \in entries => p[2] <= row[p[1]].gen
          /\ p[1] \in entries /\ p[2] = row[p[1]].gen => row[p[1]].pty = p[2]
      BY <1>0, <2>1, Typed DEF Core, WatchersFollow
    <3> QED
      BY <3>1, <1>2
  <2>2. CASE p = <<s, q.gen>> /\ q.pty # 0
    <3>1. q.pty = q.gen /\ q.gen \in Nat /\ s \in used
      BY <1>0, <2>2, Typed DEF Core, OwnershipIsCurrent, TypeOK
    <3> QED
      BY <3>1, <2>2, <1>1
  <2> QED
    BY <2>1, <2>2
<1> QED
  BY <1>3, <1>4, <1>5, <1>6, <1>7, <1>8, <1>9 DEF Core

\* A row without a process of its own after the step takes the next
\* generation; at most one worker is born with it.
LEMMA NextGeneration ==
    ASSUME IInv, NEW s \in entries, NEW q \in Row,
           row' = [row EXCEPT ![s] = q],
           q.gen = row[s].gen + 1, q.pty = 0, q.torn = TRUE,
           used' = used, entries' = entries,
           NEW W, NEW T, W = {} \/ T = {},
           starters' \subseteq starters \cup W, teardowns' \subseteq teardowns \cup T,
           \A w \in W : w.id = s /\ w.gen = q.gen,
           \A v, w \in W : v = w,
           \A t \in T : t.id = s /\ t.gen = q.gen,
           monitors' \cup stoppers' \cup closers' \subseteq monitors \cup stoppers \cup closers,
           killed' \ {s} \subseteq killed, s \in killed' => Final(q),
           s \in killed' /\ ~q.stop =>
               W = {} /\ \A t \in T : t.final \notin {"Preparing", "Backoff"}
    PROVE  Core'
<1>0. TypeOK /\ Core
  BY DEF IInv
<1>1. /\ row'[s] = q
      /\ \A t \in Session : t # s => row'[t] = row[t]
  BY <1>0 DEF TypeOK
<1>2. row[s].gen \in Nat /\ q.gen = row[s].gen + 1 /\ s \in Session /\ s \in used
  BY <1>0, Typed DEF TypeOK
<1>3. /\ \A w \in starters : w.id = s => w.gen # q.gen /\ w.gen <= q.gen
      /\ \A t \in teardowns : t.id = s => t.gen # q.gen /\ t.gen <= q.gen
  BY <1>0, <1>2, Typed DEF Core, WorkersAreBorn, TeardownsAreBorn
<1>4. WorkersAreBorn'
  BY <1>0, <1>1, <1>2, <1>3, Typed DEF Core, WorkersAreBorn
<1>5. OneWorkerPerGeneration'
  BY <1>0, <1>3 DEF Core, OneWorkerPerGeneration
<1>6. StartsBeforeProcess'
  BY <1>0, <1>1, <1>3, Typed DEF Core, StartsBeforeProcess, Current
<1>7. TeardownsAreBorn'
  BY <1>0, <1>1, <1>2, <1>3, Typed DEF Core, TeardownsAreBorn
<1>8. TeardownsAreApart'
  <2>1. \A t \in teardowns' : (Current(t.id, t.gen) => row[t.id].pty = 0)'
    BY <1>0, <1>1, <1>3, Typed DEF Core, TeardownsAreApart, Current
  <2>2. \A t \in teardowns' : \A w \in starters' : t.id = w.id => t.gen # w.gen
    BY <1>0, <1>3 DEF Core, TeardownsAreApart
  <2> QED
    BY <2>1, <2>2 DEF TeardownsAreApart
<1>9. (OwnershipIsCurrent /\ QueuedOwnsNothing)'
  BY <1>0, <1>1, Typed DEF Core, OwnershipIsCurrent, QueuedOwnsNothing
<1>10. KilledIsFinal'
  <2> SUFFICES ASSUME NEW t \in entries, t \in killed'
               PROVE  ~row'[t].stop =>
                        /\ \A w \in starters' : ~(w.id = t /\ w.gen = row'[t].gen)
                        /\ \A x \in teardowns' : x.id = t /\ x.gen = row'[t].gen
                              => x.final \notin {"Preparing", "Backoff"}
    BY DEF KilledIsFinal
  <2>1. CASE t = s
    BY <2>1, <1>1, <1>3
  <2>2. CASE t # s
    BY <2>2, <1>0, <1>1, Typed DEF Core, KilledIsFinal
  <2> QED
    BY <2>1, <2>2
<1>11. KilledIsStopped'
  BY <1>0, <1>1, Typed DEF Core, KilledIsStopped
<1>12. WatchersFollow'
  <2> SUFFICES ASSUME NEW p \in monitors \cup stoppers \cup closers
               PROVE  /\ p[1] \in used
                      /\ p[1] \in entries => p[2] <= row'[p[1]].gen
                      /\ p[1] \in entries /\ p[2] = row'[p[1]].gen => row'[p[1]].pty = p[2]
    BY DEF WatchersFollow
  <2>1. /\ p[1] \in used /\ p[1] \in Session /\ p[2] \in Nat
        /\ p[1] \in entries => p[2] <= row[p[1]].gen
        /\ p[1] \in entries /\ p[2] = row[p[1]].gen => row[p[1]].pty = p[2]
    BY <1>0, Typed DEF Core, WatchersFollow
  <2> QED
    BY <2>1, <1>1, <1>2
<1> QED
  BY <1>4, <1>5, <1>6, <1>7, <1>8, <1>9, <1>10, <1>11, <1>12 DEF Core

\* No row changes; workers leave, or one moves on.
LEMMA NoRowChanges ==
    ASSUME IInv, UNCHANGED <<used, entries, row, killed>>, teardowns' \subseteq teardowns,
           monitors' \cup stoppers' \cup closers' \subseteq monitors \cup stoppers \cup closers,
           \/ starters' \subseteq starters
           \/ \E w \in starters : \E at : Move(w, at)
    PROVE  Core'
<1>0. TypeOK /\ Core
  BY DEF IInv
<1>1. \A w \in starters' : \E v \in starters : v.id = w.id /\ v.gen = w.gen
  BY <1>0 DEF Move, TypeOK, Starter
<1>2. OneWorkerPerGeneration'
  <2>1. CASE starters' \subseteq starters
    BY <2>1, <1>0 DEF Core, OneWorkerPerGeneration
  <2>2. ASSUME NEW w \in starters, NEW at, Move(w, at)
        PROVE  OneWorkerPerGeneration'
    <3> DEFINE v == [w EXCEPT !.at = at]
    <3>1. starters' = (starters \ {w}) \cup {v}
      BY <2>2 DEF Move
    <3>2. v.id = w.id /\ v.gen = w.gen
      BY <1>0 DEF TypeOK, Starter
    <3> HIDE DEF v
    <3> QED
      BY <3>1, <3>2, <1>0 DEF Core, OneWorkerPerGeneration
  <2> QED
    BY <2>1, <2>2
<1>3. (WorkersAreBorn /\ StartsBeforeProcess)'
  BY <1>0, <1>1 DEF Core, WorkersAreBorn, StartsBeforeProcess, Current
<1>4. TeardownsAreBorn'
  BY <1>0 DEF Core, TeardownsAreBorn
<1>5. TeardownsAreApart'
  BY <1>0, <1>1 DEF Core, TeardownsAreApart, Current
<1>6. (OwnershipIsCurrent /\ QueuedOwnsNothing /\ KilledIsStopped)'
  BY <1>0 DEF Core, OwnershipIsCurrent, QueuedOwnsNothing, KilledIsStopped
<1>7. KilledIsFinal'
  BY <1>0, <1>1 DEF Core, KilledIsFinal
<1>8. WatchersFollow'
  BY <1>0 DEF Core, WatchersFollow
<1> QED
  BY <1>2, <1>3, <1>4, <1>5, <1>6, <1>7, <1>8 DEF Core

\* A row leaves, unless it has left already, and some workers with it.
LEMMA RowLeaves ==
    ASSUME IInv, NEW s, NEW q,
           row' = [row EXCEPT ![s] = q],
           used' = used, entries' = entries \ {s}, killed' = killed \ {s},
           starters' \subseteq starters, teardowns' \subseteq teardowns,
           monitors' \cup stoppers' \cup closers' \subseteq monitors \cup stoppers \cup closers
    PROVE  Core'
<1>0. TypeOK /\ Core
  BY DEF IInv
<1>1. \A t \in entries' : t \in entries /\ row'[t] = row[t]
  BY <1>0 DEF TypeOK
<1>2. (WorkersAreBorn /\ OneWorkerPerGeneration /\ StartsBeforeProcess)'
  BY <1>0, <1>1
     DEF Core, WorkersAreBorn, OneWorkerPerGeneration, StartsBeforeProcess, Current
<1>3. (TeardownsAreBorn /\ TeardownsAreApart)'
  BY <1>0, <1>1 DEF Core, TeardownsAreBorn, TeardownsAreApart, Current
<1>4. (OwnershipIsCurrent /\ QueuedOwnsNothing)'
  BY <1>0, <1>1 DEF Core, OwnershipIsCurrent, QueuedOwnsNothing
<1>5. (KilledIsFinal /\ KilledIsStopped)'
  BY <1>0, <1>1 DEF Core, KilledIsFinal, KilledIsStopped
<1>6. WatchersFollow'
  BY <1>0, <1>1 DEF Core, WatchersFollow
<1> QED
  BY <1>2, <1>3, <1>4, <1>5, <1>6 DEF Core

-----------------------------------------------------------------------------
(* Types. *)

LEMMA StatusTypes ==
    /\ Live \subseteq Status /\ Quiet \subseteq Status
    /\ {"Exited", "Queued", "Starting", "Unknown", "Idle"} \subseteq Status
    /\ {"Preparing", "TearingDown", "Failed", "Backoff", "Finished"} \subseteq Phase
BY DEF Status, Live, Quiet, Phase

LEMMA BlankType == Blank \in Row
BY DEF Blank, Row, Status, Live, Phase

LEMMA StartType ==
    ASSUME TypeOK, NEW s \in Session, NEW g \in Nat,
           NEW via \in {"launch", "revive", "drain", "restart"}, Start(s, g, via)
    PROVE  \E w : /\ starters' = starters \cup {w}
                  /\ w.id = s /\ w.gen = g
                  /\ w \in Starter
<1>1. PICK w \in Worker(s, g, via) : starters' = starters \cup {w}
  BY DEF Start
<1>2. PICK at \in {"setup"} \cup {via} : w = [id |-> s, gen |-> g, at |-> at]
  BY <1>1 DEF Worker
<1> QED
  BY <1>1, <1>2 DEF Starter

\* What a report of an exit does, whoever makes it.
LEMMA MarkProcessExitTypes ==
    ASSUME TypeOK, NEW s \in Session, NEW g \in Nat,
           NEW finished \in BOOLEAN, NEW long \in BOOLEAN,
           MarkProcessExit(s, g, finished, long)
    PROVE  /\ row' \in [Session -> Row]
           /\ teardowns' \subseteq Teardown /\ drains' \subseteq Draining
<1> DEFINE out == AfterExit(row[s], finished, long)
<1>1. row[s] \in Row
  BY DEF TypeOK
<1>2. out \in Row
  BY <1>1, AfterExitFields
<1> HIDE DEF out
<1>3. /\ out.phase \in Phase
      /\ [out EXCEPT !.torn = TRUE, !.phase = "TearingDown"] \in Row
  BY <1>2, StatusTypes DEF Row
<1>4. CASE ~Current(s, g)
  BY <1>4 DEF MarkProcessExit, TypeOK
<1>5. CASE Current(s, g) /\ row[s].torn
  <2>1. row' = [row EXCEPT ![s] = out] /\ UNCHANGED teardowns
        /\ CompleteProcessExit(s, g + 1, out.phase = "Backoff")
    BY <1>5 DEF MarkProcessExit, out
  <2>2. \/ drains' = drains \cup {[id |-> s, gen |-> g + 1]}
        \/ drains' = drains \cup {[id |-> Operator, gen |-> 0]}
    BY <2>1 DEF CompleteProcessExit, Drain
  <2>3. row' \in [Session -> Row]
    BY <1>2, <2>1 DEF TypeOK
  <2>4. {[id |-> s, gen |-> g + 1],
         [id |-> Operator, gen |-> 0]} \subseteq Draining
    BY DEF Draining
  <2> QED
    BY <2>1, <2>2, <2>3, <2>4 DEF TypeOK
<1>6. CASE Current(s, g) /\ ~row[s].torn
  <2>1. /\ row' = [row EXCEPT ![s] = [out EXCEPT !.torn = TRUE, !.phase = "TearingDown"]]
        /\ teardowns' = teardowns \cup {[id |-> s, gen |-> g + 1, final |-> out.phase]}
        /\ UNCHANGED drains
    BY <1>6 DEF MarkProcessExit, out
  <2>2. row' \in [Session -> Row]
    BY <1>3, <2>1 DEF TypeOK
  <2>3. [id |-> s, gen |-> g + 1, final |-> out.phase] \in Teardown
    BY <1>3 DEF Teardown
  <2> QED
    BY <2>1, <2>2, <2>3 DEF TypeOK
<1> QED
  BY <1>4, <1>5, <1>6

LEMMA DrainType ==
    ASSUME TypeOK, Drain
    PROVE  drains' \subseteq Draining
<1>1. [id |-> Operator, gen |-> 0] \in Draining
  BY DEF Draining
<1>2. drains' = drains \cup {[id |-> Operator, gen |-> 0]}
  BY DEF Drain
<1>3. drains \subseteq Draining
  BY DEF TypeOK
<1> QED
  BY <1>1, <1>2, <1>3

LEMMA MoveType ==
    ASSUME TypeOK, NEW w \in starters,
           NEW at \in {"cleared", "spawned", "unwind", "failed"},
           Move(w, at)
    PROVE  starters' \subseteq Starter
BY DEF TypeOK, Starter, Move

\* What the row operators return is a row again.
LEMMA RowTypes ==
    ASSUME NEW r \in Row
    PROVE  /\ \A st \in Status : SetStatus(r, st) \in Row /\ Report(r, st) \in Row
           /\ NextGen(r) \in Row /\ Prepare(r) \in Row /\ Retire(r) \in Row
           /\ \A n \in Nat : [r EXCEPT !.pty = n, !.torn = FALSE] \in Row
           /\ \A ph \in Phase : [r EXCEPT !.phase = ph] \in Row
           /\ \A b \in BOOLEAN : [r EXCEPT !.stop = b] \in Row
           /\ [r EXCEPT !.resume = TRUE] \in Row
           /\ [r EXCEPT !.restarts = 0] \in Row
<1>1. \A st \in Status : SetStatus(r, st) \in Row /\ Report(r, st) \in Row
  BY SetStatusFields DEF Report
<1>2. NextGen(r) \in Row /\ Prepare(r) \in Row /\ Retire(r) \in Row
  BY NextGenFields, PrepareFields, RetireFields
<1>3. /\ \A n \in Nat : [r EXCEPT !.pty = n, !.torn = FALSE] \in Row
      /\ \A ph \in Phase : [r EXCEPT !.phase = ph] \in Row
      /\ \A b \in BOOLEAN : [r EXCEPT !.stop = b] \in Row
      /\ [r EXCEPT !.resume = TRUE] \in Row
      /\ [r EXCEPT !.restarts = 0] \in Row
  BY DEF Row
<1> QED
  BY <1>1, <1>2, <1>3

LEMMA RestoredFields ==
    ASSUME NEW r \in Restored
    PROVE  /\ r \in Row
           /\ r.status = "Exited" /\ r.phase \notin {"Preparing", "Backoff", "TearingDown"}
           /\ r.gen = 1 /\ r.pty = 0 /\ r.torn = TRUE
<1>1. /\ r = [status |-> "Exited", phase |-> PhaseOf("Exited"), gen |-> 1, stop |-> FALSE,
               torn |-> TRUE, pty |-> 0, restarts |-> r.restarts, resume |-> r.resume]
      /\ r.restarts \in 0..MaxRestarts /\ r.resume \in BOOLEAN
  BY DEF Restored
<1>2. PhaseOf("Exited") = "Resurrectable" /\ "Resurrectable" \in Phase /\ "Exited" \in Status
  BY StatusTypes DEF PhaseOf, Phase
<1>3. r.restarts \in Nat
  BY <1>1, ConstantsAssumption
<1>4. r.status = "Exited" /\ r.phase = "Resurrectable"
      /\ r.gen = 1 /\ r.pty = 0 /\ r.torn = TRUE
  BY <1>1, <1>2
<1>5. r \in Row
  <2>1. \A n \in Nat, b \in BOOLEAN :
          [status |-> "Exited", phase |-> "Resurrectable", gen |-> 1, stop |-> FALSE,
           torn |-> TRUE, pty |-> 0, restarts |-> n, resume |-> b] \in Row
    BY <1>2 DEF Row
  <2> QED
    BY <2>1, <1>1, <1>2, <1>3
<1> QED
  BY <1>4, <1>5

LEMMA InitType ==
    ASSUME Init
    PROVE  TypeOK
<1>1. PICK restored \in SUBSET Session :
        /\ used = restored /\ entries = restored
        /\ row \in [Session -> {Blank} \cup Restored]
        /\ cap \in Caps
        /\ starters = {} /\ procs = {} /\ monitors = {} /\ stoppers = {} /\ closers = {}
        /\ teardowns = {} /\ drains = {} /\ timers = {}
        /\ spoken = restored /\ matched = {} /\ killed = {}
  BY DEF Init
<1>2. row \in [Session -> Row]
  BY <1>1, RestoredFields, BlankType
<1> QED
  BY <1>1, <1>2, ConstantsAssumption DEF TypeOK

LEMMA RequestType ==
    ASSUME TypeOK, NEW s \in Session, Request(s)
    PROVE  TypeOK'
<1>0. /\ used \subseteq Session /\ entries \subseteq used
      /\ row \in [Session -> Row] /\ row[s] \in Row /\ row[s].gen \in Nat
      /\ cap \in Nat /\ starters \subseteq Starter
      /\ procs \subseteq Proc /\ monitors \subseteq Proc
      /\ stoppers \subseteq Proc /\ closers \subseteq Proc
      /\ teardowns \subseteq Teardown /\ drains \subseteq Draining
      /\ timers \subseteq Proc /\ spoken \subseteq Session /\ matched \subseteq spoken
      /\ killed \subseteq used
  BY DEF TypeOK, Row
<1>1. CASE Launch(s)
  <2>1. row' \in [Session -> Row]
    <3>1. SetStatus(Blank, "Queued") \in Row /\ [Blank EXCEPT !.phase = "Preparing"] \in Row
      BY BlankType, RowTypes, StatusTypes
    <3> QED
      BY <1>0, <1>1, <3>1 DEF Launch
  <2>2. starters' \subseteq Starter
    BY <1>0, <1>1, StartType DEF Launch
  <2> QED
    BY <1>0, <1>1, <2>1, <2>2 DEF Launch, TypeOK
<1>2. CASE Revive(s)
  <2> DEFINE r == [row[s] EXCEPT !.stop = FALSE]
  <2>1. r \in Row /\ r.gen = row[s].gen
    BY <1>0 DEF Row
  <2>2. SetStatus(NextGen(r), "Queued") \in Row /\ [Prepare(r) EXCEPT !.restarts = 0] \in Row
    <3> HIDE DEF r
    <3>1. NextGen(r) \in Row /\ Prepare(r) \in Row
      BY <2>1, RowTypes
    <3> QED
      BY <3>1, RowTypes, StatusTypes
  <2>3. row' \in [Session -> Row]
    BY <1>0, <1>2, <2>2 DEF Revive
  <2>4. starters' \subseteq Starter
    BY <1>0, <1>2, <2>1, StartType DEF Revive
  <2> QED
    BY <1>0, <1>2, <2>3, <2>4 DEF Revive, TypeOK
<1>3. CASE Archive(s)
  <2>1. row' \in [Session -> Row] /\ drains' \subseteq Draining
    BY <1>0, <1>3, BlankType, DrainType DEF Archive, Archivable
  <2> QED
    BY <1>0, <1>3, <2>1 DEF Archive, Archivable, TypeOK
<1>4. CASE KillProcess(s)
  <2>1. row' \in [Session -> Row]
    <3>1. \A b \in BOOLEAN : [row[s] EXCEPT !.stop = b, !.phase = "TearingDown"] \in Row
      BY <1>0, StatusTypes DEF Row
    <3> QED
      BY <1>0, <1>4, <3>1 DEF KillProcess
  <2>2. stoppers' \subseteq Proc
    BY <1>0, <1>4 DEF KillProcess, Proc
  <2>3. killed' \subseteq used
    BY <1>0, <1>4 DEF KillProcess
  <2> QED
    BY <1>0, <1>4, <2>1, <2>2, <2>3 DEF KillProcess, TypeOK
<1>5. CASE KillPending(s)
  <2>1. row' \in [Session -> Row]
    <3>1. [row[s] EXCEPT !.stop = TRUE] \in Row
      BY <1>0, RowTypes
    <3>2. Retire([row[s] EXCEPT !.stop = TRUE]) \in Row
      BY <3>1, RowTypes
    <3> QED
      BY <1>0, <1>5, <3>2 DEF KillPending
  <2>2. drains' \subseteq Draining
    BY <1>5, DrainType DEF KillPending
  <2> QED
    BY <1>0, <1>5, <2>1, <2>2 DEF KillPending, TypeOK
<1>6. CASE KillNothing(s)
  <2>1. row' \in [Session -> Row]
    BY <1>0, <1>6, RowTypes DEF KillNothing
  <2> QED
    BY <1>0, <1>6, <2>1 DEF KillNothing, TypeOK
<1> QED
  BY <1>1, <1>2, <1>3, <1>4, <1>5, <1>6 DEF Request

LEMMA AgentType ==
    ASSUME TypeOK, NEW s \in Session, Agent(s)
    PROVE  TypeOK'
<1>0. /\ used \subseteq Session /\ entries \subseteq used
      /\ row \in [Session -> Row] /\ \A t \in Session : row[t] \in Row
      /\ cap \in Nat /\ starters \subseteq Starter
      /\ procs \subseteq Proc /\ monitors \subseteq Proc
      /\ stoppers \subseteq Proc /\ closers \subseteq Proc
      /\ teardowns \subseteq Teardown /\ drains \subseteq Draining
      /\ timers \subseteq Proc /\ spoken \subseteq Session /\ matched \subseteq spoken
      /\ killed \subseteq used
  BY DEF TypeOK
<1>1. CASE HandleOutput(s)
  <2>1. Report(row[s], "Idle") \in Row
    BY <1>0, RowTypes, StatusTypes
  <2> QED
    BY <1>0, <1>1, <2>1 DEF HandleOutput, TypeOK
<1>2. CASE SessionStart(s)
  <2>1. row' \in [Session -> Row]
    BY <1>0, <1>2, RowTypes DEF SessionStart
  <2> QED
    BY <1>0, <1>2, <2>1 DEF SessionStart, TypeOK
<1>3. ASSUME NEW st \in Reports, ApplyHook(s, st)
      PROVE  TypeOK'
  <2>1. Report(row[s], st) \in Row
    BY <1>0, RowTypes, StatusTypes, ConstantsAssumption
  <2> QED
    BY <1>0, <1>3, <2>1 DEF ApplyHook, TypeOK
<1>4. CASE MatchHook(s)
  BY <1>0, <1>4 DEF MatchHook, TypeOK
<1> QED
  BY <1>1, <1>2, <1>3, <1>4 DEF Agent

LEMMA RestartSpawnFailedTypes ==
    ASSUME TypeOK, NEW s \in Session, NEW g \in Nat, RestartSpawnFailed(s, g)
    PROVE  row' \in [Session -> Row] /\ timers' \subseteq Proc
<1> DEFINE out == Decide(NextGen(row[s]), FALSE, FALSE)
<1>1. row \in [Session -> Row] /\ row[s] \in Row /\ timers \subseteq Proc
  BY DEF TypeOK
<1>2. out \in Row
  BY <1>1, RowTypes, DecideFields
<1> HIDE DEF out
<1>3. <<s, g + 1>> \in Proc
  BY DEF Proc
<1>4. CASE Current(s, g)
  <2>1. /\ row' = [row EXCEPT ![s] = out]
        /\ timers' = timers \cup {<<s, g + 1>>} \/ timers' = timers
    BY <1>4 DEF RestartSpawnFailed, out
  <2> QED
    BY <1>1, <1>2, <1>3, <2>1
<1> QED
  BY <1>1, <1>4 DEF RestartSpawnFailed

LEMMA StartWorkerType ==
    ASSUME TypeOK, NEW w \in starters, StartWorker(w)
    PROVE  TypeOK'
<1>0. /\ used \subseteq Session /\ entries \subseteq used
      /\ row \in [Session -> Row] /\ \A s \in Session : row[s] \in Row
      /\ cap \in Nat /\ starters \subseteq Starter
      /\ procs \subseteq Proc /\ monitors \subseteq Proc
      /\ stoppers \subseteq Proc /\ closers \subseteq Proc
      /\ teardowns \subseteq Teardown /\ drains \subseteq Draining
      /\ timers \subseteq Proc /\ spoken \subseteq Session /\ matched \subseteq spoken
      /\ killed \subseteq used
  BY DEF TypeOK
<1>w. w \in Starter /\ w.id \in Session /\ w.gen \in Nat /\ row[w.id] \in Row
  BY <1>0 DEF Starter
<1>1. CASE SetupFails(w)
  <2>1. starters' \subseteq Starter
    BY <1>1, MoveType DEF SetupFails
  <2> QED
    BY <1>0, <1>1, <2>1 DEF SetupFails, TypeOK
<1>s. CASE StartIsCurrent(w)
  <2>1. starters' \subseteq Starter
    BY <1>s, MoveType DEF StartIsCurrent
  <2> QED
    BY <1>0, <1>s, <2>1 DEF StartIsCurrent, TypeOK
<1>2. CASE SpawnPty(w)
  <2>1. starters' \subseteq Starter
    BY <1>2, MoveType DEF SpawnPty
  <2>2. procs' \subseteq Proc /\ spoken' \subseteq Session /\ matched \subseteq spoken'
    BY <1>0, <1>w, <1>2 DEF SpawnPty, Proc
  <2> QED
    BY <1>0, <1>2, <2>1, <2>2 DEF SpawnPty, TypeOK
<1>3. CASE Accept(w)
  <2>1. [SetStatus(row[w.id], "Starting") EXCEPT !.pty = w.gen, !.torn = FALSE] \in Row
    <3>1. SetStatus(row[w.id], "Starting") \in Row
      BY <1>w, RowTypes, StatusTypes
    <3> QED
      BY <1>w, <3>1, RowTypes
  <2>2. row' \in [Session -> Row]
    BY <1>0, <1>w, <1>3, <2>1 DEF Accept
  <2>3. starters' \subseteq Starter
    BY <1>0, <1>3, MoveType DEF Accept
  <2>4. procs' \subseteq Proc /\ monitors' \subseteq Proc
    BY <1>0, <1>w, <1>3 DEF Accept, Proc
  <2> QED
    BY <1>0, <1>3, <2>2, <2>3, <2>4 DEF Accept, TypeOK
<1>4. CASE FinishStartFailure(w)
  <2>1. [SetStatus(row[w.id], "Exited") EXCEPT !.phase = "Failed"] \in Row
    <3>1. SetStatus(row[w.id], "Exited") \in Row
      BY <1>w, RowTypes, StatusTypes
    <3> QED
      BY <3>1, RowTypes, StatusTypes
  <2>2. row' \in [Session -> Row] /\ drains' \subseteq Draining
    BY <1>0, <1>w, <1>4, <2>1, DrainType DEF FinishStartFailure
  <2> QED
    BY <1>0, <1>4, <2>2 DEF FinishStartFailure, TypeOK
<1>5. CASE UndoStart(w)
  <2>1. /\ used' = used /\ cap' = cap /\ procs' = procs /\ monitors' = monitors
        /\ stoppers' = stoppers /\ closers' = closers
        /\ teardowns' = teardowns /\ spoken' = spoken /\ matched' = matched
        /\ starters' \subseteq Starter
    BY <1>0, <1>5 DEF UndoStart
  <2>2. CASE w.at = "launch"
    <3>1. /\ entries' = entries \ {w.id} /\ row' = [row EXCEPT ![w.id] = Blank]
          /\ killed' = killed \ {w.id} /\ timers' = timers /\ drains' = drains
      BY <1>5, <2>2 DEF UndoStart
    <3> QED
      BY <1>0, <1>w, <2>1, <3>1, BlankType DEF TypeOK
  <2>3. CASE w.at \in {"revive", "drain"}
    <3>1. /\ row' = [row EXCEPT ![w.id] = SetStatus(row[w.id], "Exited")] \/ row' = row
          /\ Drain \/ drains' = drains
          /\ entries' = entries /\ killed' = killed /\ timers' = timers
      BY <1>5, <2>3 DEF UndoStart
    <3>2. SetStatus(row[w.id], "Exited") \in Row
      BY <1>w, RowTypes, StatusTypes
    <3>3. row' \in [Session -> Row]
      BY <1>0, <3>1, <3>2
    <3>4. drains' \subseteq Draining
      BY <1>0, <3>1, DrainType
    <3> QED
      BY <1>0, <2>1, <3>1, <3>3, <3>4 DEF TypeOK
  <2>4. CASE w.at = "restart"
    <3>1. /\ RestartSpawnFailed(w.id, w.gen)
          /\ entries' = entries /\ killed' = killed /\ drains' = drains
      BY <1>5, <2>4 DEF UndoStart
    <3> QED
      BY <1>0, <1>w, <2>1, <3>1, RestartSpawnFailedTypes DEF TypeOK
  <2> QED
    BY <1>5, <2>2, <2>3, <2>4 DEF UndoStart
<1> QED
  BY <1>1, <1>s, <1>2, <1>3, <1>4, <1>5 DEF StartWorker

LEMMA ExitType ==
    ASSUME TypeOK, NEW p \in Proc,
           \/ ProcessEnds(p)
           \/ Monitor(p)
           \/ StopWorker(p)
           \/ ShutdownStops(p)
    PROVE  TypeOK'
<1>0. /\ used \subseteq Session /\ entries \subseteq used
      /\ row \in [Session -> Row] /\ \A s \in Session : row[s] \in Row
      /\ cap \in Nat /\ starters \subseteq Starter
      /\ procs \subseteq Proc /\ monitors \subseteq Proc
      /\ stoppers \subseteq Proc /\ closers \subseteq Proc
      /\ teardowns \subseteq Teardown /\ drains \subseteq Draining
      /\ timers \subseteq Proc /\ spoken \subseteq Session /\ matched \subseteq spoken
      /\ killed \subseteq used
  BY DEF TypeOK
<1>p. p[1] \in Session /\ p[2] \in Nat /\ row[p[1]] \in Row
  BY <1>0 DEF Proc
<1>1. CASE ProcessEnds(p)
  BY <1>0, <1>1 DEF ProcessEnds, TypeOK
<1>2. CASE MonitorLosesSight(p)
  <2>1. SetStatus(row[p[1]], "Unknown") \in Row
    BY <1>p, RowTypes, StatusTypes
  <2> QED
    BY <1>0, <1>2, <2>1 DEF MonitorLosesSight, TypeOK
<1>3. ASSUME NEW finished \in BOOLEAN, NEW long \in BOOLEAN,
             MonitorReports(p, finished, long)
      PROVE  TypeOK'
  <2>1. row' \in [Session -> Row] /\ teardowns' \subseteq Teardown /\ drains' \subseteq Draining
    BY <1>p, <1>3, MarkProcessExitTypes DEF MonitorReports
  <2> QED
    BY <1>0, <1>3, <2>1 DEF MonitorReports, TypeOK
<1>4. CASE StopGraceful(p)
  BY <1>0, <1>4 DEF StopGraceful, TypeOK
<1>5. CASE StopByForce(p)
  <2>1. row' \in [Session -> Row] /\ teardowns' \subseteq Teardown /\ drains' \subseteq Draining
    BY <1>p, <1>5, MarkProcessExitTypes DEF StopByForce
  <2>2. procs' \subseteq Proc
    BY <1>0, <1>5 DEF StopByForce
  <2> QED
    BY <1>0, <1>5, <2>1, <2>2 DEF StopByForce, TypeOK
<1>6. CASE ShutdownStops(p)
  <2>1. row' \in [Session -> Row] /\ teardowns' \subseteq Teardown /\ drains' \subseteq Draining
    BY <1>p, <1>6, MarkProcessExitTypes DEF ShutdownStops
  <2>2. procs' \subseteq Proc
    BY <1>0, <1>6 DEF ShutdownStops
  <2> QED
    BY <1>0, <1>6, <2>1, <2>2 DEF ShutdownStops, TypeOK
<1> QED
  BY <1>1, <1>2, <1>3, <1>4, <1>5, <1>6 DEF Monitor, StopWorker

LEMMA TeardownType ==
    ASSUME TypeOK, NEW t \in teardowns, FinishTeardown(t)
    PROVE  TypeOK'
<1>0. /\ used \subseteq Session /\ entries \subseteq used
      /\ row \in [Session -> Row] /\ \A s \in Session : row[s] \in Row
      /\ cap \in Nat /\ starters \subseteq Starter
      /\ procs \subseteq Proc /\ monitors \subseteq Proc
      /\ stoppers \subseteq Proc /\ closers \subseteq Proc
      /\ teardowns \subseteq Teardown /\ drains \subseteq Draining
      /\ timers \subseteq Proc /\ spoken \subseteq Session /\ matched \subseteq spoken
      /\ killed \subseteq used
  BY DEF TypeOK
<1>t. t.id \in Session /\ t.gen \in Nat /\ t.final \in Phase
  BY <1>0 DEF Teardown
<1>1. CASE Current(t.id, t.gen) /\ row[t.id].phase = "TearingDown"
  <2>1. /\ row' = [row EXCEPT ![t.id].phase = t.final]
        /\ \/ drains' = drains \cup {[id |-> t.id, gen |-> t.gen]}
           \/ drains' = drains \cup {[id |-> Operator, gen |-> 0]}
    BY <1>1 DEF FinishTeardown, CompleteProcessExit, Drain
  <2>2. row' \in [Session -> Row]
    <3>1. [row[t.id] EXCEPT !.phase = t.final] \in Row
      BY <1>0, <1>t, RowTypes
    <3> QED
      BY <1>0, <1>t, <2>1, <3>1
  <2>3. {[id |-> t.id, gen |-> t.gen],
         [id |-> Operator, gen |-> 0]} \subseteq Draining
    BY <1>t DEF Draining
  <2>4. drains' \subseteq Draining
    BY <1>0, <2>1, <2>3
  <2> QED
    BY <1>0, <2>2, <2>4 DEF FinishTeardown, TypeOK
<1>2. CASE ~(Current(t.id, t.gen) /\ row[t.id].phase = "TearingDown")
  BY <1>0, <1>2 DEF FinishTeardown, TypeOK
<1> QED
  BY <1>1, <1>2

LEMMA DrainerType ==
    ASSUME TypeOK, NEW d \in drains, Drainer(d)
    PROVE  TypeOK'
<1>0. /\ used \subseteq Session /\ entries \subseteq used
      /\ row \in [Session -> Row] /\ \A s \in Session : row[s] \in Row
      /\ cap \in Nat /\ starters \subseteq Starter
      /\ procs \subseteq Proc /\ monitors \subseteq Proc
      /\ stoppers \subseteq Proc /\ closers \subseteq Proc
      /\ teardowns \subseteq Teardown /\ drains \subseteq Draining
      /\ timers \subseteq Proc /\ spoken \subseteq Session /\ matched \subseteq spoken
      /\ killed \subseteq used
  BY DEF TypeOK
<1>d. d.id \in Session \cup {Operator} /\ d.gen \in Nat
  BY <1>0 DEF Draining
<1>1. CASE DrainOne(d)
  <2>1. row' \in [Session -> Row] /\ starters' \subseteq Starter
    <3>1. CASE Head(queue) \in entries /\ row[Head(queue)].status = "Queued"
      <4>1. /\ row' = [row EXCEPT ![Head(queue)] = Prepare(row[Head(queue)])]
            /\ Start(Head(queue), row[Head(queue)].gen + 1, "drain")
        BY <1>1, <3>1 DEF DrainOne
      <4>2. Head(queue) \in Session /\ row[Head(queue)] \in Row
            /\ row[Head(queue)].gen + 1 \in Nat
        BY <1>0, <3>1 DEF Row
      <4>3. Prepare(row[Head(queue)]) \in Row
        BY <4>2, RowTypes
      <4>4. row' \in [Session -> Row]
        BY <1>0, <4>1, <4>2, <4>3
      <4>5. starters' \subseteq Starter
        BY <1>0, <4>1, <4>2, StartType
      <4> QED
        BY <4>4, <4>5
    <3>2. CASE ~(Head(queue) \in entries /\ row[Head(queue)].status = "Queued")
      BY <1>0, <1>1, <3>2 DEF DrainOne
    <3> QED
      BY <3>1, <3>2
  <2> QED
    BY <1>0, <1>1, <2>1 DEF DrainOne, TypeOK
<1>2. CASE DrainReturns(d)
  <2>1. timers' \subseteq Proc
    BY <1>0, <1>d, <1>2 DEF DrainReturns, Proc
  <2> QED
    BY <1>0, <1>2, <2>1 DEF DrainReturns, TypeOK
<1> QED
  BY <1>1, <1>2 DEF Drainer

LEMMA RestartType ==
    ASSUME TypeOK, NEW t \in timers, RestartDue(t)
    PROVE  TypeOK'
<1>0. /\ used \subseteq Session /\ entries \subseteq used
      /\ row \in [Session -> Row] /\ \A s \in Session : row[s] \in Row
      /\ cap \in Nat /\ starters \subseteq Starter
      /\ procs \subseteq Proc /\ monitors \subseteq Proc
      /\ stoppers \subseteq Proc /\ closers \subseteq Proc
      /\ teardowns \subseteq Teardown /\ drains \subseteq Draining
      /\ timers \subseteq Proc /\ spoken \subseteq Session /\ matched \subseteq spoken
      /\ killed \subseteq used
  BY DEF TypeOK
<1> DEFINE s == t[1]
           due == /\ Current(s, t[2]) /\ row[s].pty = 0
                  /\ ~row[s].stop /\ row[s].phase = "Backoff"
           out == Decide(NextGen(row[s]), FALSE, FALSE)
<1>t. s \in Session /\ t[2] \in Nat /\ row[s] \in Row
  BY <1>0 DEF Proc
<1>1. /\ UNCHANGED <<used, entries, queue, cap, procs, monitors, stoppers, closers,
                     teardowns, drains, spoken, matched, killed>>
      /\ due /\ Full => /\ row' = [row EXCEPT ![s] = out]
                        /\ timers' \subseteq timers \cup {<<s, t[2] + 1>>}
                        /\ starters' = starters
      /\ due /\ ~Full => /\ row' = [row EXCEPT ![s] = Prepare(row[s])]
                         /\ timers' \subseteq timers
                         /\ Start(s, t[2] + 1, "restart")
      /\ ~due => row' = row /\ timers' \subseteq timers /\ starters' = starters
  BY DEF RestartDue
<1>2. out \in Row /\ Prepare(row[s]) \in Row
  BY <1>t, RowTypes, DecideFields
<1>3. <<s, t[2] + 1>> \in Proc /\ t[2] + 1 \in Nat
  BY <1>t DEF Proc
<1> HIDE DEF due, out
<1>4. row' \in [Session -> Row]
  BY <1>0, <1>t, <1>1, <1>2
<1>5. timers' \subseteq Proc
  BY <1>0, <1>1, <1>3
<1>6. starters' \subseteq Starter
  BY <1>0, <1>t, <1>1, <1>3, StartType
<1> QED
  BY <1>0, <1>1, <1>4, <1>5, <1>6 DEF TypeOK

\* What the shutdown does to the rows: it raises every flag, and no more.
LEMMA ShutdownRows ==
    ASSUME TypeOK, Shutdown
    PROVE  \A s \in Session :
              /\ row'[s] \in Row
              /\ row'[s].gen = row[s].gen /\ row'[s].pty = row[s].pty
              /\ row'[s].torn = row[s].torn /\ row'[s].status = row[s].status
              /\ row'[s].phase = row[s].phase /\ row'[s].resume = row[s].resume
              /\ s \in entries => row'[s].stop
<1>1. row' = [s \in Session |-> IF s \in entries THEN [row[s] EXCEPT !.stop = TRUE]
                                                ELSE row[s]]
  BY DEF Shutdown
<1>2. \A s \in Session :
         /\ row[s] \in Row
         /\ [row[s] EXCEPT !.stop = TRUE] \in Row
         /\ [row[s] EXCEPT !.stop = TRUE].gen = row[s].gen
         /\ [row[s] EXCEPT !.stop = TRUE].pty = row[s].pty
         /\ [row[s] EXCEPT !.stop = TRUE].torn = row[s].torn
         /\ [row[s] EXCEPT !.stop = TRUE].status = row[s].status
         /\ [row[s] EXCEPT !.stop = TRUE].phase = row[s].phase
         /\ [row[s] EXCEPT !.stop = TRUE].resume = row[s].resume
         /\ [row[s] EXCEPT !.stop = TRUE].stop
  BY DEF TypeOK, Row
<1> QED
  BY <1>1, <1>2

LEMMA ShutdownType ==
    ASSUME TypeOK, Shutdown
    PROVE  TypeOK'
<1>1. row' \in [Session -> Row]
  <2>1. row' = [s \in Session |-> row'[s]]
    BY DEF Shutdown
  <2> QED
    BY <2>1, ShutdownRows
<1>2. closers' \subseteq Proc
  BY DEF Shutdown, TypeOK, Row, Proc
<1> QED
  BY <1>1, <1>2 DEF Shutdown, TypeOK

LEMMA NextType == TypeOK /\ [Next]_vars => TypeOK'
<1> SUFFICES ASSUME TypeOK, [Next]_vars PROVE TypeOK'
  OBVIOUS
<1>1. CASE UNCHANGED vars
  BY <1>1 DEF vars, TypeOK
<1>2. CASE SetAdmission
  <2>1. drains' \subseteq Draining
    BY <1>2, DrainType DEF SetAdmission
  <2>2. cap' \in Nat
    BY <1>2, ConstantsAssumption DEF SetAdmission
  <2> QED
    BY <1>2, <2>1, <2>2 DEF SetAdmission, TypeOK
<1>3. procs \subseteq Proc /\ monitors \subseteq Proc
      /\ stoppers \subseteq Proc /\ closers \subseteq Proc
  BY DEF TypeOK
<1> QED
  BY <1>1, <1>2, <1>3, RequestType, AgentType, ShutdownType, StartWorkerType,
     ExitType, TeardownType, DrainerType, RestartType DEF Next

\* Every variable keeps its type: no step of any thread leaves a row, a
\* worker or a timer that is not one, whatever fails and whenever it does.
THEOREM TypesHold == Spec => []TypeOK
<1>1. Init => TypeOK
  BY InitType
<1> QED
  BY <1>1, NextType, PTL DEF Spec

-----------------------------------------------------------------------------
(* The invariant, step by step. *)

\* The worker a start creates is the only one of a generation not seen yet.
LEMMA StartShape ==
    ASSUME NEW s, NEW g, NEW via, Start(s, g, via)
    PROVE  \E W : /\ starters' \subseteq starters \cup W
                  /\ \A w \in W : w.id = s /\ w.gen = g
                  /\ \A v, w \in W : v = w
<1>1. PICK w \in Worker(s, g, via) : starters' = starters \cup {w}
  BY DEF Start
<1>2. w.id = s /\ w.gen = g
  BY <1>1 DEF Worker
<1> DEFINE W == {w}
<1>3. /\ starters' \subseteq starters \cup W
      /\ \A v \in W : v.id = s /\ v.gen = g
      /\ \A u, v \in W : u = v
  BY <1>1, <1>2
<1> HIDE DEF W
<1> QED
  BY <1>3

\* A row without a process starts: the step all starts have in common.
LEMMA StartKeeps ==
    ASSUME IInv, NEW s \in entries, NEW q \in Row, NEW via,
           row' = [row EXCEPT ![s] = q], Start(s, q.gen, via),
           q.gen = row[s].gen + 1, q.pty = row[s].pty, q.torn = row[s].torn,
           row[s].pty = 0, s \in killed' => q.stop,
           UNCHANGED <<used, entries, teardowns, monitors, stoppers, closers>>,
           killed' \subseteq killed
    PROVE  Core'
<1>1. PICK W : /\ starters' \subseteq starters \cup W
               /\ \A w \in W : w.id = s /\ w.gen = q.gen
               /\ \A v, w \in W : v = w
  BY StartShape
<1>2. q.torn = TRUE /\ q.pty = 0
  BY DEF IInv, Core, OwnershipIsCurrent, TypeOK, Row
<1> DEFINE T == {}
<1>3. /\ teardowns' \subseteq teardowns \cup T
      /\ \A t \in T : t.id = s /\ t.gen = q.gen
      /\ monitors' \cup stoppers' \cup closers' \subseteq monitors \cup stoppers \cup closers
      /\ killed' \ {s} \subseteq killed
  OBVIOUS
<1> HIDE DEF T
<1>4. /\ W = {} \/ T = {}
      /\ s \in killed' => Final(q)
  BY DEF T, Final
<1> QED
  BY <1>1, <1>2, <1>3, <1>4, NextGeneration

\* A row without a process takes the next generation and starts nothing.
LEMMA BumpKeeps ==
    ASSUME IInv, NEW s \in entries, NEW q \in Row,
           row' = [row EXCEPT ![s] = q],
           q.gen = row[s].gen + 1, q.pty = row[s].pty, q.torn = row[s].torn,
           row[s].pty = 0, starters' \subseteq starters,
           UNCHANGED <<used, entries, teardowns, monitors, stoppers, closers>>,
           killed' \ {s} \subseteq killed, s \in killed' => Final(q)
    PROVE  Core'
<1>1. q.torn = TRUE /\ q.pty = 0
  BY DEF IInv, Core, OwnershipIsCurrent, TypeOK, Row
<1> DEFINE W == {}
<1>2. /\ starters' \subseteq starters \cup W /\ teardowns' \subseteq teardowns \cup W
      /\ \A w \in W : w.id = s /\ w.gen = q.gen
      /\ \A v, w \in W : v = w
      /\ \A w \in W : w.final \notin {"Preparing", "Backoff"}
      /\ monitors' \cup stoppers' \cup closers' \subseteq monitors \cup stoppers \cup closers
  OBVIOUS
<1> HIDE DEF W
<1>3. W = {}
  BY DEF W
<1> QED
  BY <1>1, <1>2, <1>3, NextGeneration

LEMMA RequestCore ==
    ASSUME IInv, NEW s \in Session, Request(s)
    PROVE  Core'
<1>0. TypeOK /\ Core /\ row[s] \in Row /\ entries \subseteq Session
  BY DEF IInv, TypeOK
<1>1. CASE Launch(s)
  <2>1. /\ s \notin used /\ used' = used \cup {s} /\ entries' = entries \cup {s}
        /\ UNCHANGED <<monitors, stoppers, closers, teardowns, killed>>
        /\ \A t \in entries : t \in used /\ t # s /\ row'[t] = row[t]
    BY <1>0, <1>1 DEF Launch, TypeOK
  <2> DEFINE q == SetStatus(Blank, "Queued")
             r == [Blank EXCEPT !.phase = "Preparing"]
  <2>a. q.gen = 1 /\ q.pty = 0 /\ q.torn = TRUE /\ r.gen = 1 /\ r.pty = 0 /\ r.torn = TRUE
    <3>1. q.gen = Blank.gen /\ q.pty = Blank.pty /\ q.torn = Blank.torn
      BY BlankType, StatusTypes, SetStatusFields
    <3>2. Blank.gen = 1 /\ Blank.pty = 0 /\ Blank.torn = TRUE
      BY DEF Blank
    <3>3. r.gen = 1 /\ r.pty = 0 /\ r.torn = TRUE
      BY DEF Blank
    <3> QED
      BY <3>1, <3>2, <3>3
  <2>b. \/ /\ row' = [row EXCEPT ![s] = q]
           /\ starters' = starters
        \/ /\ row' = [row EXCEPT ![s] = r]
           /\ Start(s, 1, "launch")
    BY <1>1 DEF Launch
  <2> HIDE DEF q, r
  <2>2. \/ /\ row'[s] = q
           /\ starters' = starters
        \/ /\ row'[s] = r
           /\ Start(s, 1, "launch")
    BY <1>0, <2>b DEF TypeOK
  <2>3. row'[s].gen = 1 /\ row'[s].pty = 0 /\ row'[s].torn = TRUE
    BY <2>2, <2>a
  <2>4. PICK W : /\ starters' \subseteq starters \cup W
                 /\ \A w \in W : w.id = s /\ w.gen = 1
                 /\ \A v, w \in W : v = w
    <3>1. CASE starters' = starters
      <4> DEFINE W == {}
      <4>1. /\ starters' \subseteq starters \cup W
            /\ \A w \in W : w.id = s /\ w.gen = 1
            /\ \A v, w \in W : v = w
        BY <3>1
      <4> HIDE DEF W
      <4> QED
        BY <4>1
    <3>2. CASE Start(s, 1, "launch")
      BY <3>2, StartShape
    <3> QED
      BY <2>2, <3>1, <3>2
  <2>5. /\ \A w \in starters : w.id \in used /\ w.id # s
        /\ \A t \in teardowns : t.id \in used /\ t.id # s
        /\ \A p \in monitors \cup stoppers \cup closers : p[1] \in used /\ p[1] # s
    BY <1>0, <2>1 DEF Core, WorkersAreBorn, TeardownsAreBorn, WatchersFollow
  <2>6. (WorkersAreBorn /\ OneWorkerPerGeneration)'
    BY <1>0, <2>1, <2>3, <2>4, <2>5 DEF Core, WorkersAreBorn, OneWorkerPerGeneration
  <2>7. StartsBeforeProcess'
    BY <1>0, <2>1, <2>3, <2>4, <2>5 DEF Core, StartsBeforeProcess, Current
  <2>8. (TeardownsAreBorn /\ TeardownsAreApart)'
    BY <1>0, <2>1, <2>4, <2>5 DEF Core, TeardownsAreBorn, TeardownsAreApart, Current
  <2>9. (OwnershipIsCurrent /\ QueuedOwnsNothing /\ WatchersFollow)'
    BY <1>0, <2>1, <2>3, <2>5 DEF Core, OwnershipIsCurrent, QueuedOwnsNothing, WatchersFollow
  <2>10. s \notin killed /\ (KilledIsFinal /\ KilledIsStopped)'
    BY <1>0, <2>1, <2>4, <2>5 DEF TypeOK, Core, KilledIsFinal, KilledIsStopped
  <2> QED
    BY <2>6, <2>7, <2>8, <2>9, <2>10 DEF Core
<1>2. CASE Revive(s)
  <2> DEFINE r == [row[s] EXCEPT !.stop = FALSE]
             a == SetStatus(NextGen(r), "Queued")
             b == [Prepare(r) EXCEPT !.restarts = 0]
  <2>1. /\ r \in Row /\ r.gen = row[s].gen /\ r.pty = row[s].pty /\ r.torn = row[s].torn
    BY <1>0 DEF Row
  <2> HIDE DEF r
  <2>2. /\ a \in Row /\ a.gen = r.gen + 1 /\ a.pty = r.pty /\ a.torn = r.torn
    <3>1. /\ NextGen(r) \in Row /\ NextGen(r).gen = r.gen + 1
          /\ NextGen(r).pty = r.pty /\ NextGen(r).torn = r.torn
      BY <2>1 DEF NextGen, Row
    <3> QED
      BY <3>1, StatusTypes, SetStatusFields
  <2>3. /\ b \in Row /\ b.gen = r.gen + 1 /\ b.pty = r.pty /\ b.torn = r.torn
    BY <2>1, PrepareFields DEF Row
  <2>4. /\ s \in entries /\ row[s].pty = 0 /\ killed' = killed \ {s}
        /\ UNCHANGED <<used, entries, teardowns, monitors, stoppers, closers>>
        /\ \/ row' = [row EXCEPT ![s] = a] /\ starters' = starters
           \/ row' = [row EXCEPT ![s] = b] /\ Start(s, r.gen + 1, "revive")
    BY <1>2 DEF Revive, Revivable, r
  <2> HIDE DEF a, b
  <2>5. CASE row' = [row EXCEPT ![s] = a] /\ starters' = starters
    BY <2>1, <2>2, <2>4, <2>5, BumpKeeps
  <2>6. CASE row' = [row EXCEPT ![s] = b] /\ Start(s, r.gen + 1, "revive")
    <3>1. /\ b.gen = row[s].gen + 1 /\ b.pty = row[s].pty /\ b.torn = row[s].torn
          /\ Start(s, b.gen, "revive") /\ s \notin killed' /\ killed' \subseteq killed
      BY <2>1, <2>3, <2>4, <2>6
    <3> QED
      BY <2>3, <2>4, <2>6, <3>1, StartKeeps
  <2> QED
    BY <2>4, <2>5, <2>6
<1>3. CASE Archive(s)
  BY <1>3, RowLeaves DEF Archive, Archivable
<1>4. CASE KillProcess(s)
  <2>1. PICK b \in BOOLEAN :
          /\ row' = [row EXCEPT ![s].stop = b, ![s].phase = "TearingDown"]
          /\ s \in killed' => b = TRUE
          /\ s \in entries /\ row[s].pty # 0 /\ killed' \ {s} \subseteq killed
          /\ UNCHANGED <<used, entries, starters, monitors, closers, teardowns>>
          /\ stoppers' \subseteq stoppers \cup {<<s, row[s].gen>>}
    BY <1>4 DEF KillProcess
  <2> DEFINE q == [row[s] EXCEPT !.stop = b, !.phase = "TearingDown"]
  <2>2. /\ q \in Row /\ q.gen = row[s].gen /\ q.pty = row[s].pty /\ q.torn = row[s].torn
        /\ q.status = row[s].status /\ q.stop = b
    BY <1>0, StatusTypes DEF Row
  <2>3. row' = [row EXCEPT ![s] = q]
    BY <1>0, <2>1 DEF TypeOK
  <2> HIDE DEF q
  <2>4. \A p \in monitors' \cup stoppers' \cup closers' :
          p \in monitors \cup stoppers \cup closers \/ (p = <<s, q.gen>> /\ q.pty # 0)
    BY <2>1, <2>2
  <2>5. s \in killed' => Final(q)
    BY <2>1, <2>2 DEF Final
  <2>6. \A t \in teardowns : ~(t.id = s /\ t.gen = q.gen)
    BY <1>0, <2>1, <2>2 DEF Core, TeardownsAreApart, Current
  <2> QED
    BY <2>1, <2>2, <2>3, <2>4, <2>5, <2>6, SameGeneration
<1>5. CASE KillPending(s)
  <2> DEFINE r == [row[s] EXCEPT !.stop = TRUE]
             q == Retire(r)
  <2>1. r \in Row /\ r.gen = row[s].gen /\ r.pty = row[s].pty /\ r.torn = row[s].torn
    BY <1>0 DEF Row
  <2> HIDE DEF r
  <2>2. /\ q \in Row /\ q.gen = row[s].gen + 1 /\ q.pty = row[s].pty
        /\ q.torn = row[s].torn /\ q.status = "Exited"
        /\ q.phase \notin {"Preparing", "Backoff"}
    BY <2>1, RetireFields
  <2>3. /\ s \in entries /\ row[s].pty = 0 /\ killed' = killed \cup {s}
        /\ UNCHANGED <<used, entries, starters, teardowns, monitors, stoppers, closers>>
        /\ row' = [row EXCEPT ![s] = q]
    BY <1>5 DEF KillPending, r
  <2> HIDE DEF q
  <2>4. Final(q)
    BY <2>2, <2>3 DEF Final
  <2> QED
    BY <2>2, <2>3, <2>4, BumpKeeps
<1>6. CASE KillNothing(s)
  <2> DEFINE q == [row[s] EXCEPT !.stop = TRUE]
  <2>1. /\ q \in Row /\ q.gen = row[s].gen /\ q.pty = row[s].pty /\ q.torn = row[s].torn
        /\ q.status = row[s].status /\ q.stop
    BY <1>0 DEF Row
  <2>2. /\ s \in entries
        /\ row' = [row EXCEPT ![s] = q]
        /\ UNCHANGED <<used, entries, starters, teardowns, monitors, stoppers, closers, killed>>
    BY <1>0, <1>6 DEF KillNothing, TypeOK
  <2> HIDE DEF q
  <2>3. Final(q)
    BY <2>1 DEF Final
  <2> QED
    BY <2>1, <2>2, <2>3, SameGeneration
<1> QED
  BY <1>1, <1>2, <1>3, <1>4, <1>5, <1>6 DEF Request

\* A status report leaves the generation and the process alone, and its phase
\* is one a killed row may have.
LEMMA ReportKeeps ==
    ASSUME IInv, NEW s \in entries, NEW st \in Status \ {"Queued"},
           \/ row' = [row EXCEPT ![s] = Report(row[s], st)]
           \/ row' = [row EXCEPT ![s] = SetStatus(row[s], st)],
           UNCHANGED <<used, entries, teardowns, monitors, stoppers, closers, killed>>,
           starters' \subseteq starters
    PROVE  Core'
<1>0. TypeOK /\ Core /\ row[s] \in Row
  BY DEF IInv, TypeOK
<1> DEFINE q == SetStatus(row[s], st)
<1>1. /\ q \in Row /\ q.gen = row[s].gen /\ q.pty = row[s].pty /\ q.torn = row[s].torn
      /\ q.status = st /\ q.stop = row[s].stop /\ q.phase \notin {"Preparing", "Backoff"}
  BY <1>0, SetStatusFields
<1>2. row' = [row EXCEPT ![s] = q] \/ row' = [row EXCEPT ![s] = row[s]]
  BY DEF Report
<1> HIDE DEF q
<1>3. s \in killed => Final(q) /\ Final(row[s])
  BY <1>0, <1>1 DEF Core, KilledIsStopped, Final
<1>4. CASE row' = [row EXCEPT ![s] = q]
  BY <1>1, <1>3, <1>4, SameGeneration
<1>5. CASE row' = [row EXCEPT ![s] = row[s]]
  BY <1>0, <1>3, <1>5, SameGeneration
<1> QED
  BY <1>2, <1>4, <1>5

LEMMA AgentCore ==
    ASSUME IInv, NEW s \in Session, Agent(s)
    PROVE  Core'
<1>0. TypeOK /\ Core /\ row[s] \in Row
  BY DEF IInv, TypeOK
<1>1. CASE HandleOutput(s)
  <2>1. "Idle" \in Status \ {"Queued"}
    BY StatusTypes
  <2> QED
    BY <1>1, <2>1, ReportKeeps DEF HandleOutput
<1>2. CASE SessionStart(s)
  <2> DEFINE q == [row[s] EXCEPT !.resume = TRUE]
  <2>1. /\ q \in Row /\ q.gen = row[s].gen /\ q.pty = row[s].pty /\ q.torn = row[s].torn
        /\ q.status = row[s].status /\ q.phase = row[s].phase /\ q.stop = row[s].stop
    BY <1>0 DEF Row
  <2>2. /\ s \in entries /\ row' = [row EXCEPT ![s] = q]
        /\ UNCHANGED <<used, entries, starters, teardowns, monitors, stoppers, closers, killed>>
    BY <1>0, <1>2 DEF SessionStart, TypeOK
  <2> HIDE DEF q
  <2>3. s \in killed => Final(q)
    BY <1>0, <2>1, <2>2 DEF Core, KilledIsStopped, Final
  <2> QED
    BY <2>1, <2>2, <2>3, SameGeneration
<1>3. ASSUME NEW st \in Reports, ApplyHook(s, st)
      PROVE  Core'
  <2>1. st \in Status \ {"Queued"}
    BY ConstantsAssumption DEF Status, Live
  <2> QED
    BY <1>3, <2>1, ReportKeeps DEF ApplyHook
<1>4. CASE MatchHook(s)
  BY <1>4, NoRowChanges DEF MatchHook
<1> QED
  BY <1>1, <1>2, <1>3, <1>4 DEF Agent

\* A spawn that fails on a restart: the row is retired for another attempt.
LEMMA RestartSpawnFailedCore ==
    ASSUME IInv, NEW w \in starters, RestartSpawnFailed(w.id, w.gen),
           starters' \subseteq starters,
           UNCHANGED <<used, entries, teardowns, monitors, stoppers, closers, killed>>
    PROVE  Core'
<1>0. TypeOK /\ Core
  BY DEF IInv
<1>1. CASE Current(w.id, w.gen)
  <2> DEFINE out == Decide(NextGen(row[w.id]), FALSE, FALSE)
  <2>1. /\ w.id \in entries /\ row[w.id] \in Row /\ row[w.id].pty = 0
        /\ w.id \in killed => row[w.id].stop
    BY <1>0, <1>1
       DEF Current, TypeOK, Core, StartsBeforeProcess, KilledIsFinal
  <2>2. /\ NextGen(row[w.id]) \in Row /\ NextGen(row[w.id]).gen = row[w.id].gen + 1
        /\ NextGen(row[w.id]).pty = row[w.id].pty
        /\ NextGen(row[w.id]).torn = row[w.id].torn
        /\ NextGen(row[w.id]).stop = row[w.id].stop
    BY <2>1 DEF NextGen, Row
  <2>3. /\ out \in Row /\ out.gen = row[w.id].gen + 1
        /\ out.pty = row[w.id].pty /\ out.torn = row[w.id].torn
        /\ out.stop = row[w.id].stop
    BY <2>2, DecideFields
  <2>4. row' = [row EXCEPT ![w.id] = out]
    BY <1>1 DEF RestartSpawnFailed
  <2> HIDE DEF out
  <2>5. w.id \in killed => Final(out)
    BY <2>1, <2>3 DEF Final
  <2> QED
    BY <2>1, <2>3, <2>4, <2>5, BumpKeeps
<1>2. CASE ~Current(w.id, w.gen)
  <2>1. row' = row
    BY <1>2 DEF RestartSpawnFailed
  <2> QED
    BY <2>1, NoRowChanges
<1> QED
  BY <1>1, <1>2

LEMMA StartWorkerCore ==
    ASSUME IInv, NEW w \in starters, StartWorker(w)
    PROVE  Core'
<1>0. /\ TypeOK /\ Core /\ entries \subseteq Session
      /\ w \in Starter /\ w.id \in Session /\ w.gen \in Nat
  BY DEF IInv, TypeOK, Starter
<1>1. CASE SetupFails(w)
  BY <1>1, NoRowChanges DEF SetupFails
<1>2. CASE StartIsCurrent(w) \/ SpawnPty(w)
  BY <1>2, NoRowChanges DEF StartIsCurrent, SpawnPty
<1>3. CASE Accept(w)
  <2> DEFINE accepted == /\ Current(w.id, w.gen)
                         /\ row[w.id].pty = 0
                         /\ ~row[w.id].stop
                         /\ row[w.id].status = "Starting"
             r == SetStatus(row[w.id], "Starting")
             q == [r EXCEPT !.pty = w.gen, !.torn = FALSE]
  <2>1. CASE ~accepted
    BY <1>3, <2>1, NoRowChanges DEF Accept
  <2>2. CASE accepted
    <3>1. w.id \in entries /\ row[w.id] \in Row /\ row[w.id].gen = w.gen /\ w.gen # 0
      BY <1>0, <2>2 DEF Current, TypeOK, Row
    <3>2. r \in Row /\ r.gen = w.gen /\ r.status = "Starting"
      BY <3>1, StatusTypes, SetStatusFields
    <3>3. row' = [row EXCEPT ![w.id] = q]
      BY <1>3, <2>2 DEF Accept
    <3>4. /\ starters' = starters \ {w} /\ monitors' \subseteq monitors \cup {<<w.id, w.gen>>}
          /\ UNCHANGED <<used, entries, stoppers, closers, teardowns, killed>>
      BY <1>3, <2>2 DEF Accept
    <3> HIDE DEF r
    <3>5. q.pty = w.gen /\ q.torn = FALSE /\ q.gen = w.gen /\ q.status = "Starting"
      BY <3>2 DEF Row
    <3> HIDE DEF q
    <3>6. /\ row'[w.id] = q
          /\ \A t \in Session : t # w.id => row'[t] = row[t]
          /\ \A t \in Session : row'[t].gen = row[t].gen
      BY <1>0, <3>1, <3>3, <3>5 DEF TypeOK
    <3>7. \A v \in starters' : ~(v.id = w.id /\ v.gen = w.gen)
      BY <1>0, <3>4 DEF Core, OneWorkerPerGeneration
    <3>8. \A t \in teardowns : ~(t.id = w.id /\ t.gen = w.gen)
      BY <1>0 DEF Core, TeardownsAreApart
    <3>9. w.id \notin killed /\ w.id \in used
      BY <1>0, <2>2, <3>1 DEF Core, KilledIsFinal, TypeOK
    <3>10. (WorkersAreBorn /\ OneWorkerPerGeneration)'
      BY <1>0, <3>4, <3>6, Typed DEF Core, WorkersAreBorn, OneWorkerPerGeneration
    <3>11. StartsBeforeProcess'
      BY <1>0, <3>1, <3>4, <3>6, <3>7, Typed DEF Core, StartsBeforeProcess, Current
    <3>12. TeardownsAreBorn'
      BY <1>0, <3>4, <3>6, Typed DEF Core, TeardownsAreBorn
    <3>13. TeardownsAreApart'
      <4>1. \A t \in teardowns' : (Current(t.id, t.gen) => row[t.id].pty = 0)'
        BY <1>0, <3>1, <3>4, <3>6, <3>8, Typed DEF Core, TeardownsAreApart, Current
      <4>2. \A t \in teardowns' : \A v \in starters' : t.id = v.id => t.gen # v.gen
        BY <1>0, <3>4 DEF Core, TeardownsAreApart
      <4> QED
        BY <4>1, <4>2 DEF TeardownsAreApart
    <3>14. (OwnershipIsCurrent /\ QueuedOwnsNothing)'
      BY <1>0, <3>1, <3>4, <3>5, <3>6 DEF Core, OwnershipIsCurrent, QueuedOwnsNothing
    <3>15. (KilledIsFinal /\ KilledIsStopped)'
      BY <1>0, <3>4, <3>6, <3>9 DEF Core, KilledIsFinal, KilledIsStopped
    <3>16. WatchersFollow'
      <4> SUFFICES ASSUME NEW p \in monitors' \cup stoppers' \cup closers'
                   PROVE  /\ p[1] \in used
                          /\ p[1] \in entries => p[2] <= row'[p[1]].gen
                          /\ p[1] \in entries /\ p[2] = row'[p[1]].gen => row'[p[1]].pty = p[2]
        BY <3>4 DEF WatchersFollow
      <4>1. CASE p \in monitors \cup stoppers \cup closers
        <5>1. /\ p[1] \in used /\ p[1] \in Session /\ p[2] \in Nat
              /\ p[1] \in entries => p[2] <= row[p[1]].gen
              /\ p[1] \in entries /\ p[2] = row[p[1]].gen => row[p[1]].pty = p[2]
          BY <1>0, <4>1, Typed DEF Core, WatchersFollow
        <5> QED
          BY <5>1, <3>1, <3>5, <3>6
      <4>2. CASE p = <<w.id, w.gen>>
        BY <4>2, <1>0, <3>5, <3>6, <3>9
      <4> QED
        BY <3>4, <4>1, <4>2
    <3> QED
      BY <3>10, <3>11, <3>12, <3>13, <3>14, <3>15, <3>16 DEF Core
  <2> QED
    BY <2>1, <2>2
<1>4. CASE FinishStartFailure(w)
  <2> DEFINE failed == /\ Current(w.id, w.gen)
                       /\ ~row[w.id].stop /\ row[w.id].pty = 0
                       /\ row[w.id].phase = "Preparing"
             r == SetStatus(row[w.id], "Exited")
             q == [r EXCEPT !.phase = "Failed"]
  <2>1. CASE ~failed
    BY <1>4, <2>1, NoRowChanges DEF FinishStartFailure
  <2>2. CASE failed
    <3>1. w.id \in entries /\ row[w.id] \in Row /\ w.id \notin killed
      BY <1>0, <2>2 DEF Current, TypeOK, Core, KilledIsFinal
    <3>2. /\ r \in Row /\ r.status = "Exited" /\ r.gen = row[w.id].gen
          /\ r.pty = row[w.id].pty /\ r.torn = row[w.id].torn
      BY <3>1, StatusTypes, SetStatusFields
    <3>3. /\ row' = [row EXCEPT ![w.id] = q] /\ starters' = starters \ {w}
          /\ UNCHANGED <<used, entries, monitors, stoppers, closers, teardowns, killed>>
      BY <1>4, <2>2 DEF FinishStartFailure
    <3> HIDE DEF r
    <3>4. /\ q \in Row /\ q.status = "Exited" /\ q.gen = row[w.id].gen
          /\ q.pty = row[w.id].pty /\ q.torn = row[w.id].torn
      BY <3>2, StatusTypes DEF Row
    <3> HIDE DEF q
    <3> QED
      BY <3>1, <3>3, <3>4, SameGeneration
  <2> QED
    BY <2>1, <2>2
<1>5. CASE UndoStart(w)
  <2>1. /\ used' = used /\ teardowns' = teardowns /\ starters' = starters \ {w}
        /\ monitors' = monitors /\ stoppers' = stoppers /\ closers' = closers
    BY <1>5 DEF UndoStart
  <2>2. CASE w.at = "launch"
    <3>1. /\ entries' = entries \ {w.id} /\ row' = [row EXCEPT ![w.id] = Blank]
          /\ killed' = killed \ {w.id}
      BY <1>5, <2>2 DEF UndoStart
    <3> QED
      BY <2>1, <3>1, RowLeaves
  <2>3. CASE w.at \in {"revive", "drain"}
    <3>1. /\ row' = IF Current(w.id, w.gen)
                    THEN [row EXCEPT ![w.id] = SetStatus(row[w.id], "Exited")] ELSE row
          /\ UNCHANGED <<entries, killed>>
      BY <1>5, <2>3 DEF UndoStart
    <3>2. CASE Current(w.id, w.gen)
      <4>1. "Exited" \in Status \ {"Queued"} /\ w.id \in entries
        BY <3>2, StatusTypes DEF Current
      <4> QED
        BY <2>1, <3>1, <3>2, <4>1, ReportKeeps
    <3>3. CASE ~Current(w.id, w.gen)
      BY <2>1, <3>1, <3>3, NoRowChanges
    <3> QED
      BY <3>2, <3>3
  <2>4. CASE w.at = "restart"
    <3>1. RestartSpawnFailed(w.id, w.gen) /\ UNCHANGED <<entries, killed>>
      BY <1>5, <2>4 DEF UndoStart
    <3> QED
      BY <2>1, <3>1, RestartSpawnFailedCore
  <2> QED
    BY <1>5, <2>2, <2>3, <2>4 DEF UndoStart
<1> QED
  BY <1>1, <1>2, <1>3, <1>4, <1>5 DEF StartWorker

\* The report of an exit: the watcher's row owns the process, so it owes a
\* teardown, and a kill has raised its stop flag, so it earns no restart.
LEMMA MarkProcessExitCore ==
    ASSUME IInv, NEW p \in monitors \cup stoppers \cup closers,
           NEW finished \in BOOLEAN, NEW long \in BOOLEAN,
           MarkProcessExit(p[1], p[2], finished, long),
           monitors' \subseteq monitors, stoppers' \subseteq stoppers,
           closers' \subseteq closers, UNCHANGED <<used, entries, starters, killed>>
    PROVE  Core'
<1> DEFINE s == p[1]
           g == p[2]
           out == AfterExit(row[s], finished, long)
           q == [out EXCEPT !.torn = TRUE, !.phase = "TearingDown"]
           T == {[id |-> s, gen |-> g + 1, final |-> out.phase]}
           W == {}
<1>0. TypeOK /\ Core /\ s \in Session /\ g \in Nat
  BY Typed DEF IInv
<1>1. CASE ~Current(s, g)
  <2>1. UNCHANGED <<row, teardowns>>
    BY <1>1 DEF MarkProcessExit
  <2> QED
    BY <2>1, NoRowChanges
<1>2. CASE Current(s, g)
  <2>1. /\ s \in entries /\ row[s] \in Row /\ row[s].gen = g /\ g # 0
        /\ row[s].pty # 0 /\ ~row[s].torn
    BY <1>0, <1>2
       DEF Current, TypeOK, Row, Core, WatchersFollow, OwnershipIsCurrent
  <2>2. /\ out \in Row /\ out.status = "Exited" /\ out.gen = g + 1 /\ out.pty = 0
        /\ out.phase # "Preparing"
        /\ row[s].stop => out.phase # "Backoff"
    BY <2>1, AfterExitFields
  <2>3. /\ row' = [row EXCEPT ![s] = q]
        /\ teardowns' = teardowns \cup T
    BY <1>2, <2>1 DEF MarkProcessExit
  <2> HIDE DEF out
  <2>4. /\ q \in Row /\ q.status = "Exited" /\ q.gen = g + 1 /\ q.pty = 0
        /\ q.torn = TRUE /\ q.phase = "TearingDown"
    BY <2>2, StatusTypes DEF Row
  <2>5. s \in killed => row[s].stop
    BY <1>0, <2>1 DEF Core, KilledIsStopped, Final
  <2>6. /\ starters' \subseteq starters \cup W
        /\ \A w \in W : w.id = s /\ w.gen = q.gen
        /\ \A v, w \in W : v = w
        /\ W = {}
    OBVIOUS
  <2>7. /\ \A t \in T : t.id = s /\ t.gen = q.gen
        /\ s \in killed => \A t \in T : t.final \notin {"Preparing", "Backoff"}
    BY <2>2, <2>4, <2>5
  <2>8. Final(q)
    BY <2>4 DEF Final
  <2>9. /\ q.gen = row[s].gen + 1 /\ teardowns' \subseteq teardowns \cup T
        /\ killed' \ {s} \subseteq killed
        /\ monitors' \cup stoppers' \cup closers' \subseteq monitors \cup stoppers \cup closers
    BY <2>1, <2>3, <2>4
  <2> HIDE DEF q, T, W
  <2>10. /\ used' = used /\ entries' = entries /\ starters' = starters /\ killed' = killed
         /\ W = {} \/ T = {}
         /\ s \in killed' => Final(q)
         /\ s \in killed' /\ ~q.stop =>
               W = {} /\ \A t \in T : t.final \notin {"Preparing", "Backoff"}
    BY <2>6, <2>7, <2>8
  <2> QED
    BY <2>1, <2>3, <2>4, <2>6, <2>7, <2>9, <2>10, NextGeneration
<1> QED
  BY <1>1, <1>2

LEMMA ExitCore ==
    ASSUME IInv, NEW p \in Proc,
           \/ ProcessEnds(p)
           \/ Monitor(p)
           \/ StopWorker(p)
           \/ ShutdownStops(p)
    PROVE  Core'
<1>1. CASE ProcessEnds(p)
  BY <1>1, NoRowChanges DEF ProcessEnds
<1>2. CASE MonitorLosesSight(p)
  <2>1. "Unknown" \in Status \ {"Queued"}
    BY StatusTypes
  <2> QED
    BY <1>2, <2>1, ReportKeeps DEF MonitorLosesSight, Current
<1>3. ASSUME NEW finished \in BOOLEAN, NEW long \in BOOLEAN,
             MonitorReports(p, finished, long)
      PROVE  Core'
  BY <1>3, MarkProcessExitCore DEF MonitorReports
<1>4. CASE StopGraceful(p)
  BY <1>4, NoRowChanges DEF StopGraceful
<1>5. CASE StopByForce(p)
  BY <1>5, MarkProcessExitCore DEF StopByForce
<1>6. CASE ShutdownStops(p)
  BY <1>6, MarkProcessExitCore DEF ShutdownStops
<1> QED
  BY <1>1, <1>2, <1>3, <1>4, <1>5, <1>6 DEF Monitor, StopWorker

LEMMA TeardownCore ==
    ASSUME IInv, NEW t \in teardowns, FinishTeardown(t)
    PROVE  Core'
<1>0. TypeOK /\ Core /\ t.id \in Session /\ t.gen \in Nat /\ t.final \in Phase
  BY DEF IInv, TypeOK, Teardown
<1>1. CASE Current(t.id, t.gen) /\ row[t.id].phase = "TearingDown"
  <2> DEFINE q == [row[t.id] EXCEPT !.phase = t.final]
  <2>1. /\ t.id \in entries /\ row[t.id] \in Row /\ row[t.id].gen = t.gen
        /\ row[t.id].pty = 0
    BY <1>0, <1>1 DEF Current, TypeOK, Core, TeardownsAreApart
  <2>2. /\ q \in Row /\ q.gen = row[t.id].gen /\ q.pty = row[t.id].pty
        /\ q.torn = row[t.id].torn /\ q.status = row[t.id].status /\ q.phase = t.final
        /\ q.stop = row[t.id].stop
    BY <1>0, <2>1 DEF Row
  <2>3. /\ row' = [row EXCEPT ![t.id] = q] /\ teardowns' = teardowns \ {t}
        /\ UNCHANGED <<used, entries, starters, monitors, stoppers, closers, killed>>
    BY <1>0, <1>1 DEF FinishTeardown, TypeOK
  <2> HIDE DEF q
  <2>4. t.id \in killed => Final(q)
    BY <1>0, <2>1, <2>2 DEF Core, KilledIsStopped, KilledIsFinal, Final
  <2> QED
    BY <2>1, <2>2, <2>3, <2>4, SameGeneration
<1>2. CASE ~(Current(t.id, t.gen) /\ row[t.id].phase = "TearingDown")
  BY <1>2, NoRowChanges DEF FinishTeardown
<1> QED
  BY <1>1, <1>2

LEMMA DrainerCore ==
    ASSUME IInv, NEW d \in drains, Drainer(d)
    PROVE  Core'
<1>0. TypeOK /\ Core
  BY DEF IInv
<1>1. CASE DrainOne(d)
  <2> DEFINE s == Head(queue)
             q == Prepare(row[s])
  <2>1. CASE s \in entries /\ row[s].status = "Queued"
    <3>1. row[s] \in Row /\ row[s].pty = 0 /\ (s \in killed => row[s].stop)
      BY <1>0, <2>1 DEF TypeOK, Core, QueuedOwnsNothing, KilledIsStopped, Final
    <3>2. /\ q \in Row /\ q.gen = row[s].gen + 1 /\ q.pty = row[s].pty
          /\ q.torn = row[s].torn /\ q.stop = row[s].stop
      BY <3>1, PrepareFields
    <3>3. /\ row' = [row EXCEPT ![s] = q] /\ Start(s, row[s].gen + 1, "drain")
          /\ UNCHANGED <<used, entries, teardowns, monitors, stoppers, closers, killed>>
      BY <1>1, <2>1 DEF DrainOne
    <3> HIDE DEF s, q
    <3> QED
      BY <2>1, <3>1, <3>2, <3>3, StartKeeps
  <2>2. CASE ~(s \in entries /\ row[s].status = "Queued")
    BY <1>1, <2>2, NoRowChanges DEF DrainOne
  <2> QED
    BY <2>1, <2>2
<1>2. CASE DrainReturns(d)
  BY <1>2, NoRowChanges DEF DrainReturns
<1> QED
  BY <1>1, <1>2 DEF Drainer

LEMMA RestartCore ==
    ASSUME IInv, NEW t \in timers, RestartDue(t)
    PROVE  Core'
<1>0. TypeOK /\ Core
  BY DEF IInv
<1> DEFINE s == t[1]
           due == /\ Current(s, t[2]) /\ row[s].pty = 0
                  /\ ~row[s].stop /\ row[s].phase = "Backoff"
           out == Decide(NextGen(row[s]), FALSE, FALSE)
           q == Prepare(row[s])
<1>1. /\ UNCHANGED <<used, entries, teardowns, monitors, stoppers, closers, killed>>
      /\ due /\ Full => row' = [row EXCEPT ![s] = out] /\ starters' = starters
      /\ due /\ ~Full => row' = [row EXCEPT ![s] = q] /\ Start(s, t[2] + 1, "restart")
      /\ ~due => row' = row /\ starters' = starters
  BY DEF RestartDue
<1>2. CASE ~due
  BY <1>1, <1>2, NoRowChanges
<1>3. CASE due
  <2>1. /\ s \in entries /\ row[s] \in Row /\ row[s].pty = 0 /\ s \notin killed
        /\ row[s].gen = t[2]
    BY <1>0, <1>3 DEF Current, TypeOK, Core, KilledIsStopped, Final
  <2>2. /\ NextGen(row[s]) \in Row /\ NextGen(row[s]).gen = row[s].gen + 1
        /\ NextGen(row[s]).pty = row[s].pty /\ NextGen(row[s]).torn = row[s].torn
    BY <2>1 DEF NextGen, Row
  <2>3. /\ out \in Row /\ out.gen = row[s].gen + 1
        /\ out.pty = row[s].pty /\ out.torn = row[s].torn
    BY <2>2, DecideFields
  <2>4. /\ q \in Row /\ q.gen = row[s].gen + 1 /\ q.pty = row[s].pty
        /\ q.torn = row[s].torn
    BY <2>1, PrepareFields
  <2>5. CASE Full
    <3>1. row' = [row EXCEPT ![s] = out] /\ starters' = starters
      BY <1>1, <1>3, <2>5
    <3> HIDE DEF s, out
    <3> QED
      BY <1>1, <2>1, <2>3, <3>1, BumpKeeps
  <2>6. CASE ~Full
    <3>1. row' = [row EXCEPT ![s] = q] /\ Start(s, q.gen, "restart")
      BY <1>1, <1>3, <2>1, <2>4, <2>6
    <3> HIDE DEF s, q
    <3> QED
      BY <1>1, <2>1, <2>4, <3>1, StartKeeps
  <2> QED
    BY <2>5, <2>6
<1> QED
  BY <1>2, <1>3

\* The shutdown finds every process with its row's generation.
LEMMA ShutdownCore ==
    ASSUME IInv, Shutdown
    PROVE  Core'
<1>0. TypeOK /\ Core /\ entries \subseteq Session
  BY DEF IInv, TypeOK
<1>1. /\ UNCHANGED <<used, entries, starters, monitors, stoppers, teardowns>>
      /\ closers' = {<<s, row[s].gen>> : s \in {t \in entries : row[t].pty # 0}}
      /\ killed' = killed \cup entries
  BY DEF Shutdown
<1>2. \A s \in Session :
         /\ row'[s].gen = row[s].gen /\ row'[s].pty = row[s].pty
         /\ row'[s].torn = row[s].torn /\ row'[s].status = row[s].status
         /\ s \in entries => row'[s].stop
  BY <1>0, ShutdownRows
<1>3. (WorkersAreBorn /\ OneWorkerPerGeneration /\ StartsBeforeProcess)'
  BY <1>0, <1>1, <1>2, Typed
     DEF Core, WorkersAreBorn, OneWorkerPerGeneration, StartsBeforeProcess, Current
<1>4. (TeardownsAreBorn /\ TeardownsAreApart)'
  BY <1>0, <1>1, <1>2, Typed DEF Core, TeardownsAreBorn, TeardownsAreApart, Current
<1>5. (OwnershipIsCurrent /\ QueuedOwnsNothing)'
  BY <1>0, <1>1, <1>2 DEF Core, OwnershipIsCurrent, QueuedOwnsNothing
<1>6. (KilledIsStopped /\ KilledIsFinal)'
  BY <1>0, <1>1, <1>2 DEF KilledIsStopped, KilledIsFinal, Final
<1>7. WatchersFollow'
  <2> SUFFICES ASSUME NEW p \in monitors' \cup stoppers' \cup closers'
               PROVE  /\ p[1] \in used
                      /\ p[1] \in entries => p[2] <= row'[p[1]].gen
                      /\ p[1] \in entries /\ p[2] = row'[p[1]].gen => row'[p[1]].pty = p[2]
    BY <1>1 DEF WatchersFollow
  <2>1. CASE p \in monitors \cup stoppers
    BY <1>0, <1>2, <2>1, Typed DEF Core, WatchersFollow
  <2>2. CASE p \in closers'
    <3>1. PICK s \in entries : row[s].pty # 0 /\ p = <<s, row[s].gen>>
      BY <1>1, <2>2
    <3>2. row[s].pty = row[s].gen /\ row[s].gen \in Nat /\ s \in used
      BY <1>0, <3>1, Typed DEF Core, OwnershipIsCurrent, TypeOK
    <3> QED
      BY <1>0, <1>2, <3>1, <3>2
  <2> QED
    BY <1>1, <2>1, <2>2
<1> QED
  BY <1>3, <1>4, <1>5, <1>6, <1>7 DEF Core

-----------------------------------------------------------------------------
(* What the invariant buys: a row told to stop stays down. *)

\* No start is found current, and one row changes at most without gaining a
\* process.
NothingCleared == \A w \in starters' \ starters : w.at # "cleared"

LEMMA StartClearsNothing ==
    ASSUME NEW s, NEW g, NEW via \in {"launch", "revive", "drain", "restart"},
           Start(s, g, via)
    PROVE  NothingCleared
BY DEF Start, Worker, NothingCleared

LEMMA OneRowStays ==
    ASSUME TypeOK, NothingCleared, NEW x, NEW q,
           row' = [row EXCEPT ![x] = q] \/ row' = row,
           entries' \subseteq entries,
           x \in killed \cap killed' /\ x \in entries' => q.pty \in {0, row[x].pty}
    PROVE  StaysDown
BY DEF TypeOK, StaysDown, NothingCleared

LEMMA RequestStays ==
    ASSUME IInv, NEW s \in Session, Request(s)
    PROVE  StaysDown
<1>0. TypeOK /\ row[s] \in Row
  BY DEF IInv, TypeOK
<1>1. CASE Launch(s)
  <2>1. s \notin killed /\ \E q : row' = [row EXCEPT ![s] = q]
    BY <1>0, <1>1 DEF Launch, TypeOK
  <2>2. NothingCleared
    BY <1>1, StartClearsNothing DEF Launch, NothingCleared
  <2> QED
    BY <1>0, <2>1, <2>2 DEF StaysDown, NothingCleared, TypeOK
<1>2. CASE Revive(s)
  <2>1. s \notin killed' /\ entries' = entries
        /\ \E q : row' = [row EXCEPT ![s] = q]
    BY <1>2 DEF Revive
  <2>2. NothingCleared
    BY <1>2, StartClearsNothing DEF Revive, NothingCleared
  <2> QED
    BY <1>0, <2>1, <2>2, OneRowStays
<1>3. CASE Archive(s)
  BY <1>0, <1>3, OneRowStays DEF Archive, NothingCleared
<1>4. CASE KillProcess(s)
  <2>1. PICK b \in BOOLEAN : /\ row' = [row EXCEPT ![s].stop = b, ![s].phase = "TearingDown"]
                             /\ starters' = starters /\ entries' = entries
    BY <1>4 DEF KillProcess
  <2> QED
    BY <1>0, <2>1 DEF StaysDown, TypeOK, Row
<1>5. CASE KillPending(s)
  <2> DEFINE r == [row[s] EXCEPT !.stop = TRUE]
  <2>1. r \in Row /\ r.pty = row[s].pty
    BY <1>0 DEF Row
  <2> HIDE DEF r
  <2>2. Retire(r).pty = row[s].pty
    BY <2>1, RetireFields
  <2>3. row' = [row EXCEPT ![s] = Retire(r)] /\ NothingCleared /\ entries' = entries
    BY <1>5 DEF KillPending, NothingCleared, r
  <2> QED
    BY <1>0, <2>2, <2>3, OneRowStays
<1>6. CASE KillNothing(s)
  BY <1>0, <1>6 DEF KillNothing, StaysDown, TypeOK, Row
<1> QED
  BY <1>1, <1>2, <1>3, <1>4, <1>5, <1>6 DEF Request

LEMMA AgentStays ==
    ASSUME IInv, NEW s \in Session, Agent(s)
    PROVE  StaysDown
<1>0. TypeOK /\ row[s] \in Row
  BY DEF IInv, TypeOK
<1>1. \A st \in Status : Report(row[s], st).pty = row[s].pty
  BY <1>0, SetStatusFields DEF Report
<1>2. CASE HandleOutput(s)
  BY <1>0, <1>1, <1>2, StatusTypes, OneRowStays DEF HandleOutput, NothingCleared
<1>3. CASE SessionStart(s)
  BY <1>0, <1>3 DEF SessionStart, StaysDown, TypeOK, Row
<1>4. ASSUME NEW st \in Reports, ApplyHook(s, st)
      PROVE  StaysDown
  <2>1. st \in Status
    BY ConstantsAssumption DEF Status, Live
  <2> QED
    BY <1>0, <1>1, <1>4, <2>1, OneRowStays DEF ApplyHook, NothingCleared
<1>5. CASE MatchHook(s)
  BY <1>5 DEF MatchHook, StaysDown
<1> QED
  BY <1>2, <1>3, <1>4, <1>5 DEF Agent

\* A worker that finds its row ready to start finds one that was not told to
\* stop, or has been revived since.
LEMMA StartWorkerStays ==
    ASSUME IInv, NEW w \in starters, StartWorker(w)
    PROVE  StaysDown
<1>0. /\ TypeOK /\ Core /\ w.id \in Session /\ row[w.id] \in Row
  BY DEF IInv, TypeOK, Starter
<1>1. Current(w.id, w.gen) /\ ~row[w.id].stop => w.id \notin killed
  BY <1>0 DEF Core, KilledIsFinal, Current
<1>m. \A at : at # "cleared" /\ Move(w, at) => NothingCleared
  BY <1>0 DEF Move, NothingCleared, TypeOK, Starter
<1>2. CASE SetupFails(w) \/ SpawnPty(w)
  <2>1. row' = row /\ NothingCleared
    BY <1>2, <1>m DEF SetupFails, SpawnPty
  <2> QED
    BY <2>1 DEF StaysDown, NothingCleared
<1>3. CASE StartIsCurrent(w)
  <2>1. row' = row
    BY <1>3 DEF StartIsCurrent
  <2>2. CASE w.id \in killed
    <3>1. Move(w, "unwind")
      BY <1>1, <1>3, <2>2 DEF StartIsCurrent
    <3> QED
      BY <1>m, <2>1, <3>1 DEF StaysDown, NothingCleared
  <2>3. CASE w.id \notin killed
    <3>1. \A v \in starters' \ starters : v.id = w.id
      BY <1>0, <1>3 DEF StartIsCurrent, Move, TypeOK, Starter
    <3> QED
      BY <2>1, <2>3, <3>1 DEF StaysDown
  <2> QED
    BY <2>2, <2>3
<1>4. CASE Accept(w)
  <2>1. /\ NothingCleared /\ entries' = entries
        /\ row' = row \/ (w.id \notin killed /\ \E q : row' = [row EXCEPT ![w.id] = q])
    BY <1>1, <1>4, <1>m DEF Accept, NothingCleared
  <2> QED
    BY <1>0, <2>1, OneRowStays
<1>5. CASE FinishStartFailure(w)
  <2>1. /\ NothingCleared /\ entries' = entries
        /\ row' = row \/ (w.id \notin killed /\ \E q : row' = [row EXCEPT ![w.id] = q])
    BY <1>1, <1>5 DEF FinishStartFailure, NothingCleared
  <2> QED
    BY <1>0, <2>1, OneRowStays
<1>6. CASE UndoStart(w)
  <2>1. NothingCleared
    BY <1>6 DEF UndoStart, NothingCleared
  <2>2. CASE w.at = "launch"
    <3>1. entries' = entries \ {w.id} /\ row' = [row EXCEPT ![w.id] = Blank]
      BY <1>6, <2>2 DEF UndoStart
    <3> QED
      BY <1>0, <2>1, <3>1, OneRowStays
  <2>3. CASE w.at \in {"revive", "drain"}
    <3>1. /\ entries' = entries
          /\ row' = [row EXCEPT ![w.id] = SetStatus(row[w.id], "Exited")] \/ row' = row
      BY <1>6, <2>3 DEF UndoStart
    <3>2. SetStatus(row[w.id], "Exited").pty = row[w.id].pty
      BY <1>0, StatusTypes, SetStatusFields
    <3> QED
      BY <1>0, <2>1, <3>1, <3>2, OneRowStays
  <2>4. CASE w.at = "restart"
    <3> DEFINE out == Decide(NextGen(row[w.id]), FALSE, FALSE)
    <3>1. /\ entries' = entries
          /\ row' = [row EXCEPT ![w.id] = out] \/ row' = row
      BY <1>6, <2>4 DEF UndoStart, RestartSpawnFailed
    <3>2. NextGen(row[w.id]) \in Row /\ NextGen(row[w.id]).pty = row[w.id].pty
      BY <1>0 DEF NextGen, Row
    <3>3. out.pty = row[w.id].pty
      BY <3>2, DecideFields
    <3> QED
      BY <1>0, <2>1, <3>1, <3>3, OneRowStays
  <2> QED
    BY <1>6, <2>2, <2>3, <2>4 DEF UndoStart
<1> QED
  BY <1>2, <1>3, <1>4, <1>5, <1>6 DEF StartWorker

LEMMA ExitStays ==
    ASSUME IInv, NEW p \in Proc,
           \/ ProcessEnds(p)
           \/ Monitor(p)
           \/ StopWorker(p)
           \/ ShutdownStops(p)
    PROVE  StaysDown
<1>0. TypeOK /\ p[1] \in Session /\ p[2] \in Nat /\ row[p[1]] \in Row
  BY DEF IInv, TypeOK, Proc
<1>1. CASE ProcessEnds(p)
  BY <1>1 DEF ProcessEnds, StaysDown
<1>2. CASE MonitorLosesSight(p)
  <2>1. SetStatus(row[p[1]], "Unknown").pty = row[p[1]].pty
    BY <1>0, StatusTypes, SetStatusFields
  <2> QED
    BY <1>0, <1>2, <2>1, OneRowStays DEF MonitorLosesSight, NothingCleared
<1>3. CASE StopGraceful(p)
  BY <1>3 DEF StopGraceful, StaysDown
<1>4. ASSUME NEW finished \in BOOLEAN, NEW long \in BOOLEAN,
             MarkProcessExit(p[1], p[2], finished, long),
             starters' = starters, entries' = entries
      PROVE  StaysDown
  <2> DEFINE out == AfterExit(row[p[1]], finished, long)
  <2>1. out \in Row /\ out.pty = 0
    BY <1>0, AfterExitFields
  <2>2. \/ row' = row \/ row' = [row EXCEPT ![p[1]] = out]
        \/ row' = [row EXCEPT ![p[1]] = [out EXCEPT !.torn = TRUE, !.phase = "TearingDown"]]
    BY <1>4 DEF MarkProcessExit
  <2> HIDE DEF out
  <2>3. [out EXCEPT !.torn = TRUE, !.phase = "TearingDown"].pty = 0
    BY <2>1 DEF Row
  <2> QED
    BY <1>0, <1>4, <2>1, <2>2, <2>3, OneRowStays DEF NothingCleared
<1> QED
  BY <1>1, <1>2, <1>3, <1>4 DEF Monitor, MonitorReports, StopWorker, StopByForce, ShutdownStops

LEMMA LaterStays ==
    ASSUME IInv,
           \/ \E t \in teardowns : FinishTeardown(t)
           \/ \E d \in drains : Drainer(d)
           \/ \E t \in timers : RestartDue(t)
           \/ SetAdmission
           \/ Shutdown
    PROVE  StaysDown
<1>0. TypeOK /\ \A s \in Session : row[s] \in Row
  BY DEF IInv, TypeOK
<1>1. ASSUME NEW t \in teardowns, FinishTeardown(t)
      PROVE  StaysDown
  BY <1>0, <1>1 DEF FinishTeardown, StaysDown, TypeOK, Row
<1>2. ASSUME NEW d \in drains, Drainer(d)
      PROVE  StaysDown
  <2> DEFINE s == Head(queue)
  <2>1. /\ entries' = entries
        /\ row' = row \/ (s \in entries /\ row' = [row EXCEPT ![s] = Prepare(row[s])])
    BY <1>2 DEF Drainer, DrainOne, DrainReturns
  <2>3. NothingCleared
    BY <1>2, StartClearsNothing DEF Drainer, DrainOne, DrainReturns, NothingCleared
  <2> HIDE DEF s
  <2>2. s \in entries => Prepare(row[s]).pty = row[s].pty
    BY <1>0, PrepareFields DEF TypeOK
  <2> QED
    BY <1>0, <2>1, <2>2, <2>3, OneRowStays
<1>3. ASSUME NEW t \in timers, RestartDue(t)
      PROVE  StaysDown
  <2> DEFINE out == Decide(NextGen(row[t[1]]), FALSE, FALSE)
             q == Prepare(row[t[1]])
  <2>1. t[1] \in Session /\ row[t[1]] \in Row
    BY <1>0 DEF TypeOK, Proc
  <2>2. NextGen(row[t[1]]) \in Row /\ NextGen(row[t[1]]).pty = row[t[1]].pty
    BY <2>1 DEF NextGen, Row
  <2>3. out.pty = row[t[1]].pty /\ q.pty = row[t[1]].pty
    BY <2>1, <2>2, DecideFields, PrepareFields
  <2>4. /\ entries' = entries
        /\ \/ row' = row
           \/ row' = [row EXCEPT ![t[1]] = out]
           \/ row' = [row EXCEPT ![t[1]] = q]
    BY <1>3 DEF RestartDue
  <2>5. NothingCleared
    BY <1>3, StartClearsNothing DEF RestartDue, NothingCleared
  <2> HIDE DEF out, q
  <2> QED
    BY <1>0, <2>3, <2>4, <2>5, OneRowStays
<1>4. CASE SetAdmission
  BY <1>4 DEF SetAdmission, StaysDown
<1>5. CASE Shutdown
  <2>1. starters' = starters /\ entries' = entries
    BY <1>5 DEF Shutdown
  <2> QED
    BY <1>0, <1>5, <2>1, ShutdownRows DEF StaysDown, TypeOK
<1> QED
  BY <1>1, <1>2, <1>3, <1>4, <1>5

-----------------------------------------------------------------------------
(* The theorems. *)

LEMMA InitInv == Init => IInv
<1> SUFFICES ASSUME Init PROVE IInv
  OBVIOUS
<1>1. /\ row \in [Session -> {Blank} \cup Restored] /\ entries \subseteq Session
      /\ \A s \in entries : row[s] # Blank
      /\ starters = {} /\ monitors = {} /\ stoppers = {} /\ closers = {} /\ teardowns = {}
      /\ killed = {}
  BY DEF Init
<1>2. \A s \in entries : row[s].pty = 0 /\ row[s].torn /\ row[s].status = "Exited"
  <2>1. \A s \in entries : row[s] \in Restored
    BY <1>1
  <2> QED
    BY <2>1, RestoredFields
<1>3. OwnershipIsCurrent /\ QueuedOwnsNothing
  BY <1>2 DEF OwnershipIsCurrent, QueuedOwnsNothing
<1>4. /\ WorkersAreBorn /\ OneWorkerPerGeneration /\ StartsBeforeProcess
      /\ TeardownsAreBorn /\ TeardownsAreApart /\ WatchersFollow
      /\ KilledIsFinal /\ KilledIsStopped
  BY <1>1 DEF WorkersAreBorn, OneWorkerPerGeneration, StartsBeforeProcess,
              TeardownsAreBorn, TeardownsAreApart, WatchersFollow, KilledIsFinal,
              KilledIsStopped
<1> QED
  BY <1>3, <1>4, InitType DEF IInv, Core

LEMMA NextInv == IInv /\ [Next]_vars => IInv'
<1> SUFFICES ASSUME IInv, [Next]_vars PROVE IInv'
  OBVIOUS
<1>1. TypeOK'
  BY NextType DEF IInv
<1>2. UNCHANGED vars => Core'
  BY NoRowChanges DEF vars
<1>3. SetAdmission => Core'
  BY NoRowChanges DEF SetAdmission
<1>4. procs \subseteq Proc /\ monitors \subseteq Proc
      /\ stoppers \subseteq Proc /\ closers \subseteq Proc
  BY DEF IInv, TypeOK
<1>5. Core'
  BY <1>2, <1>3, <1>4, RequestCore, AgentCore, ShutdownCore, StartWorkerCore,
     ExitCore, TeardownCore, DrainerCore, RestartCore DEF Next
<1> QED
  BY <1>1, <1>5 DEF IInv

\* The generation discipline: in every fleet a row that owns a process carries
\* that process's generation, so the monitor that watches it is never stale,
\* and owes exactly one environment teardown.
THEOREM OwnershipHolds == Spec => []OwnershipIsCurrent
<1>1. IInv => OwnershipIsCurrent
  BY DEF IInv, Core
<1> QED
  BY <1>1, InitInv, NextInv, PTL DEF Spec

\* A stop is final: whatever timers, queues and workers were under way when a
\* row was killed or the daemon shut down, none is found current after it, and
\* none has a process registered, until the operator revives the row.  A start
\* found current before the stop may still spawn; its process is rejected.
THEOREM KillHolds == Spec => KillSticks
<1>1. IInv /\ [Next]_vars => [StaysDown]_vars
  <2> SUFFICES ASSUME IInv, Next PROVE StaysDown
    OBVIOUS
  <2>1. procs \subseteq Proc /\ monitors \subseteq Proc
        /\ stoppers \subseteq Proc /\ closers \subseteq Proc
    BY DEF IInv, TypeOK
  <2> QED
    BY <2>1, RequestStays, AgentStays, StartWorkerStays, ExitStays, LaterStays DEF Next
<1> QED
  BY <1>1, InitInv, NextInv, PTL DEF Spec, KillSticks

-----------------------------------------------------------------------------
(* No running agent is lost, if a stop ladder that runs ends the process.  *)
(* What could take a row from under a process is the launch that failed:   *)
(* it removes its row whatever has become of it.  Nothing has, for no      *)
(* process of the row has run (Unheard) and the launch's worker is the     *)
(* only one of its id (LaunchIsAlone).                                     *)

Unheard ==
    \A s \in Session \ spoken :
        /\ \A p \in procs \cup monitors \cup stoppers \cup closers : p[1] # s
        /\ \A t \in teardowns : t.id # s
        /\ \A w \in starters : w.id = s => w.at \notin {"spawned", "restart"}
        /\ s \in entries => /\ row[s].pty = 0 /\ ~row[s].resume
                            /\ row[s].phase # "Backoff"

LaunchIsAlone ==
    \A w \in starters : w.at = "launch" =>
        /\ w.id \notin spoken
        /\ w.id \in entries => row[w.id].status # "Queued"
        /\ \A v \in starters : v.id = w.id => v = w

Apart == /\ spoken \subseteq used /\ Unheard /\ LaunchIsAlone
         /\ \A p \in procs : p[2] # 0
         /\ \A w \in starters : w.at = "cleared" => w.gen # 0

OInv == IInv /\ Apart /\ ProcessOwned

\* A step on behalf of one row, x, spares the rows of which nothing was heard.
LEMMA ApartKeeps ==
    ASSUME TypeOK, Apart, NEW x \in Session, NEW q,
           row' = row \/ row' = [row EXCEPT ![x] = q],
           entries' \subseteq entries, used' = used,
           spoken' = spoken \/ (spoken' = spoken \cup {x} /\ x \in used),
           \A p \in procs' : p \in procs \/ (p[1] = x /\ p[2] # 0),
           \A p \in monitors' \cup stoppers' \cup closers' :
               p \in monitors \cup stoppers \cup closers \/ p[1] = x,
           \A t \in teardowns' : t \in teardowns \/ t.id = x,
           \A w \in starters' : \/ w \in starters
                               \/ /\ w.id = x /\ w.at # "launch"
                                  /\ w.at = "cleared" => w.gen # 0,
           \/ starters' \subseteq starters /\ spoken' = spoken
           \/ \A w \in starters : w.id = x => w.at # "launch",
           x \notin spoken' =>
               /\ procs' \subseteq procs /\ teardowns' \subseteq teardowns
               /\ monitors' \cup stoppers' \cup closers' \subseteq
                     monitors \cup stoppers \cup closers
               /\ \A w \in starters' \ starters : w.at \notin {"spawned", "restart"}
               /\ \/ row' = row
                  \/ x \notin entries'
                  \/ /\ q.pty = 0 /\ ~q.resume /\ q.phase # "Backoff"
                     /\ q.status = "Queued" => row[x].status = "Queued"
    PROVE  Apart'
<1>1. \A s \in Session : s # x => row'[s] = row[s]
  BY DEF TypeOK
<1>2. row' = row \/ row'[x] = q
  BY DEF TypeOK
<1>3. Unheard'
  <2> SUFFICES ASSUME NEW s \in Session, s \notin spoken'
               PROVE  /\ \A p \in procs' \cup monitors' \cup stoppers' \cup closers' : p[1] # s
                      /\ \A t \in teardowns' : t.id # s
                      /\ \A w \in starters' : w.id = s => w.at \notin {"spawned", "restart"}
                      /\ s \in entries' => /\ row'[s].pty = 0 /\ ~row'[s].resume
                                           /\ row'[s].phase # "Backoff"
    BY DEF Unheard
  <2>1. /\ s \notin spoken
        /\ \A p \in procs \cup monitors \cup stoppers \cup closers : p[1] # s
        /\ \A t \in teardowns : t.id # s
        /\ \A w \in starters : w.id = s => w.at \notin {"spawned", "restart"}
        /\ s \in entries => /\ row[s].pty = 0 /\ ~row[s].resume
                            /\ row[s].phase # "Backoff"
    BY DEF Apart, Unheard
  <2>2. CASE s = x
    BY <1>2, <2>1, <2>2
  <2>3. CASE s # x
    BY <1>1, <2>1, <2>3
  <2> QED
    BY <2>2, <2>3
<1>4. LaunchIsAlone'
  <2> SUFFICES ASSUME NEW w \in starters', w.at = "launch"
               PROVE  /\ w.id \notin spoken'
                      /\ w.id \in entries' => row'[w.id].status # "Queued"
                      /\ \A v \in starters' : v.id = w.id => v = w
    BY DEF LaunchIsAlone
  <2>1. /\ w \in starters /\ w.id \in Session /\ w.id \notin spoken
        /\ w.id \in entries => row[w.id].status # "Queued"
        /\ \A v \in starters : v.id = w.id => v = w
    BY DEF Apart, LaunchIsAlone, TypeOK, Starter
  <2>2. CASE w.id = x
    BY <1>2, <2>1, <2>2
  <2>3. CASE w.id # x
    BY <1>1, <2>1, <2>3
  <2> QED
    BY <2>2, <2>3
<1>5. /\ spoken' \subseteq used' /\ \A p \in procs' : p[2] # 0
      /\ \A w \in starters' : w.at = "cleared" => w.gen # 0
  BY DEF Apart
<1> QED
  BY <1>3, <1>4, <1>5 DEF Apart

\* A step that spawns nothing, and leaves the processes it leaves running to
\* the row or the worker that has them, loses none.
LEMMA OwnedKeeps ==
    ASSUME TypeOK, Apart, ProcessOwned, NEW x \in Session, NEW q,
           row' = row \/ row' = [row EXCEPT ![x] = q],
           entries \ {x} \subseteq entries', procs' \subseteq procs,
           \A w \in starters : w.at = "spawned" =>
               \/ w \in starters' \/ <<w.id, w.gen>> \notin procs'
               \/ w.id \in entries' /\ row'[w.id].pty = w.gen,
           x \in entries /\ row[x].pty # 0 /\ <<x, row[x].pty>> \in procs' =>
               x \in entries' /\ (row' = row \/ q.pty = row[x].pty)
    PROVE  ProcessOwned'
<1> SUFFICES ASSUME NEW p \in procs'
             PROVE  \/ p[1] \in entries' /\ row'[p[1]].pty = p[2]
                    \/ [id |-> p[1], gen |-> p[2], at |-> "spawned"] \in starters'
  BY DEF ProcessOwned
<1>1. p \in procs /\ p[2] # 0 /\ p = <<p[1], p[2]>> /\ p[1] \in Session
  BY DEF Apart, TypeOK, Proc
<1>2. CASE p[1] \in entries /\ row[p[1]].pty = p[2]
  <2>1. CASE p[1] = x
    BY <1>1, <1>2, <2>1 DEF TypeOK
  <2>2. CASE p[1] # x
    BY <1>1, <1>2, <2>2 DEF TypeOK
  <2> QED
    BY <2>1, <2>2
<1>3. CASE [id |-> p[1], gen |-> p[2], at |-> "spawned"] \in starters
  <2> DEFINE w == [id |-> p[1], gen |-> p[2], at |-> "spawned"]
  <2>1. w.id = p[1] /\ w.gen = p[2] /\ w.at = "spawned" /\ w \in starters
    BY <1>3
  <2> QED
    BY <1>1, <2>1
<1> QED
  BY <1>1, <1>2, <1>3 DEF ProcessOwned

LEMMA RequestOwned ==
    ASSUME OInv, NEW s \in Session, Request(s)
    PROVE  Apart' /\ ProcessOwned'
<1>0. /\ TypeOK /\ Core /\ Apart /\ ProcessOwned /\ row[s] \in Row
  BY DEF OInv, IInv, TypeOK
<1>h. s \in entries /\ s \notin spoken => row[s].pty = 0 /\ ~row[s].resume
  BY <1>0 DEF Apart, Unheard
<1>1. CASE Launch(s)
  <2>1. /\ s \notin spoken /\ s \notin entries
        /\ \A w \in starters : w.id # s
    BY <1>0, <1>1 DEF Launch, Apart, TypeOK, Core, WorkersAreBorn
  <2>2. PICK q, W : /\ row' = [row EXCEPT ![s] = q] /\ starters' = starters \cup W
                    /\ q.pty = 0 /\ ~q.resume /\ q.phase # "Backoff"
                    /\ \/ q.status # "Queued" /\ \E w : W = {w} /\ w.id = s /\ w.at \in {"setup", "launch"}
                       \/ W = {}
    <3>1. CASE Full
      <4>1. SetStatus(Blank, "Queued").pty = 0 /\ ~SetStatus(Blank, "Queued").resume
            /\ SetStatus(Blank, "Queued").phase # "Backoff"
        <5>1. Blank.pty = 0 /\ ~Blank.resume
          BY DEF Blank
        <5>2. Blank \in Row /\ "Queued" \in Status
          BY BlankType, StatusTypes
        <5> QED
          BY <5>1, <5>2, SetStatusFields
      <4> QED
        BY <1>1, <3>1, <4>1 DEF Launch
    <3>2. CASE ~Full
      <4> DEFINE q == [Blank EXCEPT !.phase = "Preparing"]
      <4>1. q.pty = 0 /\ ~q.resume /\ q.phase # "Backoff" /\ q.status # "Queued"
        BY DEF Blank
      <4>2. PICK w \in Worker(s, 1, "launch") : starters' = starters \cup {w}
        BY <1>1, <3>2 DEF Launch, Start
      <4>3. w.id = s /\ w.at \in {"setup", "launch"}
        BY <4>2 DEF Worker
      <4>4. row' = [row EXCEPT ![s] = q]
        BY <1>1, <3>2 DEF Launch
      <4> HIDE DEF q
      <4> QED
        BY <4>1, <4>2, <4>3, <4>4
    <3> QED
      BY <3>1, <3>2
  <2>3. /\ entries' = entries \cup {s} /\ used' = used \cup {s} /\ spoken' = spoken
        /\ procs' = procs /\ monitors' = monitors /\ stoppers' = stoppers
        /\ closers' = closers /\ teardowns' = teardowns
    BY <1>1 DEF Launch
  <2>4. row'[s] = q /\ \A t \in Session : t # s => row'[t] = row[t]
    BY <1>0, <2>2 DEF TypeOK
  <2>5. Unheard'
    BY <1>0, <2>1, <2>2, <2>3, <2>4 DEF Apart, Unheard
  <2>6. LaunchIsAlone'
    BY <1>0, <2>1, <2>2, <2>3, <2>4 DEF Apart, LaunchIsAlone, TypeOK, Starter
  <2>7. ProcessOwned'
    <3>1. \A p \in procs : p[1] \in entries => row'[p[1]] = row[p[1]]
      BY <1>0, <2>1, <2>4 DEF TypeOK
    <3> QED
      BY <1>0, <2>2, <2>3, <3>1 DEF ProcessOwned
  <2>8. \A w \in starters' : w.at = "cleared" => w.gen # 0
    BY <1>0, <2>2 DEF Apart
  <2> QED
    BY <1>0, <2>3, <2>5, <2>6, <2>7, <2>8 DEF Apart
<1>2. CASE Revive(s)
  <2>1. s \in spoken /\ s \in entries /\ row[s].pty = 0
    BY <1>h, <1>2 DEF Revive, Revivable
  <2>2. \A w \in starters' : w \in starters \/ (w.id = s /\ w.at \in {"setup", "revive"})
    BY <1>2 DEF Revive, Start, Worker
  <2>3. starters \subseteq starters'
    BY <1>2 DEF Revive, Start
  <2>4. \E q : row' = [row EXCEPT ![s] = q]
    BY <1>2 DEF Revive
  <2>5. /\ entries' = entries /\ used' = used /\ spoken' = spoken
        /\ procs' = procs /\ monitors' = monitors /\ stoppers' = stoppers
        /\ closers' = closers /\ teardowns' = teardowns
    BY <1>2 DEF Revive
  <2>6. \A w \in starters : w.id = s => w.at # "launch"
    BY <1>0, <2>1 DEF Apart, LaunchIsAlone
  <2>7. Apart'
    BY <1>0, <2>1, <2>2, <2>4, <2>5, <2>6, ApartKeeps
  <2>8. ProcessOwned'
    BY <1>0, <2>1, <2>3, <2>4, <2>5, OwnedKeeps
  <2> QED
    BY <2>7, <2>8
<1>3. CASE Archive(s)
  <2>1. /\ row' = [row EXCEPT ![s] = Blank] /\ entries' = entries \ {s} /\ row[s].pty = 0
        /\ used' = used /\ spoken' = spoken
        /\ procs' = procs /\ monitors' = monitors /\ stoppers' = stoppers
        /\ closers' = closers /\ teardowns' = teardowns /\ starters' = starters
    BY <1>3 DEF Archive, Archivable
  <2> QED
    BY <1>0, <2>1, ApartKeeps, OwnedKeeps
<1>4. CASE KillProcess(s)
  <2>1. PICK b \in BOOLEAN : row' = [row EXCEPT ![s].stop = b, ![s].phase = "TearingDown"]
    BY <1>4 DEF KillProcess
  <2>5. \A p \in stoppers' : p \in stoppers \/ p[1] = s
    BY <1>4 DEF KillProcess
  <2>2. /\ entries' = entries /\ used' = used /\ spoken' = spoken
        /\ procs' = procs /\ monitors' = monitors /\ closers' = closers
        /\ teardowns' = teardowns /\ starters' = starters
        /\ s \in entries /\ row[s].pty # 0
    BY <1>4 DEF KillProcess
  <2> DEFINE q == [row[s] EXCEPT !.stop = b, !.phase = "TearingDown"]
  <2>3. row' = [row EXCEPT ![s] = q] /\ q.pty = row[s].pty
    BY <1>0, <2>1 DEF TypeOK, Row
  <2> HIDE DEF q
  <2>4. s \in spoken
    BY <1>h, <2>2
  <2> QED
    BY <1>0, <2>2, <2>3, <2>4, <2>5, ApartKeeps, OwnedKeeps
<1>5. ASSUME NEW q, row' = [row EXCEPT ![s] = q], s \in entries, row[s].pty = 0,
             q.pty = 0, q.resume = row[s].resume, q.phase # "Backoff" \/ q.phase = row[s].phase,
             q.status = "Queued" => row[s].status = "Queued",
             UNCHANGED <<entries, used, spoken, procs, monitors, stoppers, closers,
                         teardowns, starters>>
      PROVE  Apart' /\ ProcessOwned'
  <2>1. s \notin spoken => ~q.resume /\ q.phase # "Backoff"
    BY <1>0, <1>5 DEF Apart, Unheard
  <2> QED
    BY <1>0, <1>5, <2>1, ApartKeeps, OwnedKeeps
<1>6. CASE KillPending(s)
  <2> DEFINE r == [row[s] EXCEPT !.stop = TRUE]
  <2>1. r \in Row /\ r.pty = row[s].pty /\ r.resume = row[s].resume
    BY <1>0 DEF Row
  <2>2. row' = [row EXCEPT ![s] = Retire(r)]
    BY <1>6 DEF KillPending
  <2> HIDE DEF r
  <2>3. /\ Retire(r).pty = row[s].pty /\ Retire(r).resume = row[s].resume
        /\ Retire(r).phase # "Backoff" /\ Retire(r).status # "Queued"
    BY <2>1, RetireFields
  <2>4. /\ s \in entries /\ row[s].pty = 0
        /\ UNCHANGED <<entries, used, spoken, procs, monitors, stoppers, closers,
                       teardowns, starters>>
    BY <1>6 DEF KillPending
  <2> QED
    BY <1>5, <2>2, <2>3, <2>4
<1>7. CASE KillNothing(s)
  <2> DEFINE q == [row[s] EXCEPT !.stop = TRUE]
  <2>1. /\ q.pty = row[s].pty /\ q.resume = row[s].resume
        /\ q.phase = row[s].phase /\ q.status = row[s].status
    BY <1>0 DEF Row
  <2>2. row' = [row EXCEPT ![s] = q]
    BY <1>0, <1>7 DEF KillNothing, TypeOK
  <2> HIDE DEF q
  <2>3. /\ s \in entries /\ row[s].pty = 0
        /\ UNCHANGED <<entries, used, spoken, procs, monitors, stoppers, closers,
                       teardowns, starters>>
    BY <1>7 DEF KillNothing
  <2> QED
    BY <1>5, <2>1, <2>2, <2>3
<1> QED
  BY <1>1, <1>2, <1>3, <1>4, <1>6, <1>7 DEF Request

LEMMA AgentOwned ==
    ASSUME OInv, NEW s \in Session, Agent(s)
    PROVE  Apart' /\ ProcessOwned'
<1>0. /\ TypeOK /\ Core /\ Apart /\ ProcessOwned /\ row[s] \in Row
  BY DEF OInv, IInv, TypeOK
<1>1. s \in entries
  BY DEF Agent, HandleOutput, MatchHook, SessionStart, ApplyHook
<1>2. s \in spoken
  <2>1. CASE HandleOutput(s)
    <3> DEFINE w == [id |-> s, gen |-> row[s].gen, at |-> "spawned"]
    <3>1. w.id = s /\ w.at = "spawned"
      OBVIOUS
    <3>2. row[s].pty # 0 \/ w \in starters
      BY <2>1 DEF HandleOutput
    <3> HIDE DEF w
    <3> QED
      BY <1>0, <1>1, <3>1, <3>2 DEF Apart, Unheard
  <2> QED
    BY <1>0, <2>1 DEF Agent, MatchHook, SessionStart, ApplyHook, TypeOK
<1>3. \A w \in starters : w.id = s => w.at # "launch"
  BY <1>0, <1>2 DEF Apart, LaunchIsAlone
<1>4. \A st \in Status : Report(row[s], st).pty = row[s].pty
  BY <1>0, SetStatusFields DEF Report
<1>5. \E q : row' = [row EXCEPT ![s] = q] /\ q.pty = row[s].pty
  <2>1. CASE HandleOutput(s)
    BY <1>4, <2>1, StatusTypes DEF HandleOutput
  <2>2. CASE SessionStart(s)
    <3> DEFINE q == [row[s] EXCEPT !.resume = TRUE]
    <3>1. row' = [row EXCEPT ![s] = q] /\ q.pty = row[s].pty
      BY <1>0, <2>2 DEF SessionStart, TypeOK, Row
    <3> QED
      BY <3>1
  <2>3. ASSUME NEW st \in Reports, ApplyHook(s, st)
        PROVE  \E q : row' = [row EXCEPT ![s] = q] /\ q.pty = row[s].pty
    <3>1. st \in Status
      BY ConstantsAssumption DEF Status, Live
    <3> QED
      BY <1>4, <2>3, <3>1 DEF ApplyHook
  <2>4. CASE MatchHook(s)
    <3>1. row' = [row EXCEPT ![s] = row[s]]
      BY <1>0, <2>4 DEF MatchHook, TypeOK
    <3> QED
      BY <3>1
  <2> QED
    BY <2>1, <2>2, <2>3, <2>4 DEF Agent
<1>6. UNCHANGED <<entries, used, spoken, procs, monitors, stoppers, closers,
                  teardowns, starters>>
  BY DEF Agent, HandleOutput, MatchHook, SessionStart, ApplyHook
<1> QED
  BY <1>0, <1>2, <1>3, <1>5, <1>6, ApartKeeps, OwnedKeeps

LEMMA StartWorkerOwned ==
    ASSUME OInv, NEW w \in starters, StartWorker(w)
    PROVE  Apart' /\ ProcessOwned'
<1>0. /\ TypeOK /\ Core /\ Apart /\ ProcessOwned
      /\ w.id \in Session /\ w.gen \in Nat /\ row[w.id] \in Row /\ w \in Starter
  BY DEF OInv, IInv, TypeOK, Starter
<1>m. \A at : [w EXCEPT !.at = at].id = w.id /\ [w EXCEPT !.at = at].at = at
  BY <1>0 DEF Starter
<1>1. CASE SetupFails(w)
  <2>1. PICK at \in {"unwind", "failed"} :
            starters' = (starters \ {w}) \cup {[w EXCEPT !.at = at]}
    BY <1>1 DEF SetupFails, Move
  <2>2. /\ w.at = "setup"
        /\ UNCHANGED <<row, entries, used, spoken, procs, monitors, stoppers, closers,
                       teardowns>>
    BY <1>1 DEF SetupFails
  <2>3. \A v \in starters : v.id = w.id => v.at # "launch"
    BY <1>0, <2>2 DEF Apart, LaunchIsAlone
  <2>4. \A v \in starters' : v \in starters \/ (v.id = w.id /\ v.at \in {"unwind", "failed"})
    BY <1>m, <2>1
  <2>5. \A v \in starters : v.at = "spawned" => v \in starters'
    BY <2>1, <2>2
  <2> QED
    BY <1>0, <2>2, <2>3, <2>4, <2>5, ApartKeeps, OwnedKeeps
<1>s. CASE StartIsCurrent(w)
  <2>1. PICK at \in {"unwind", "cleared"} :
            /\ starters' = (starters \ {w}) \cup {[w EXCEPT !.at = at]}
            /\ at = "cleared" => w.gen # 0
    BY <1>0, <1>s DEF StartIsCurrent, Move, Current, Row
  <2>2. /\ w.at = "setup"
        /\ UNCHANGED <<row, entries, used, spoken, procs, monitors, stoppers, closers,
                       teardowns>>
    BY <1>s DEF StartIsCurrent
  <2>3. \A v \in starters : v.id = w.id => v.at # "launch"
    BY <1>0, <2>2 DEF Apart, LaunchIsAlone
  <2>m. [w EXCEPT !.at = at].gen = w.gen
    BY <1>0 DEF Starter
  <2>4. \A v \in starters' : \/ v \in starters
                             \/ /\ v.id = w.id /\ v.at \in {"unwind", "cleared"}
                                /\ v.at = "cleared" => v.gen # 0
    BY <1>m, <2>1, <2>m
  <2>5. \A v \in starters : v.at = "spawned" => v \in starters'
    BY <2>1, <2>2
  <2> QED
    BY <1>0, <2>2, <2>3, <2>4, <2>5, ApartKeeps, OwnedKeeps
<1>2. CASE SpawnPty(w)
  <2>1. w.at = "cleared" /\ UNCHANGED <<row, entries, used, monitors, stoppers, closers, teardowns>>
    BY <1>2 DEF SpawnPty
  <2>2. \A v \in starters : v.id = w.id => v.at # "launch"
    BY <1>0, <2>1 DEF Apart, LaunchIsAlone
  <2>3. w.id \in used
    BY <1>0 DEF Core, WorkersAreBorn
  <2>4. CASE /\ Move(w, "spawned")
             /\ procs' = procs \cup {<<w.id, w.gen>>}
             /\ spoken' = spoken \cup {w.id}
    <3>1. w.gen # 0
      BY <1>0, <2>1 DEF Apart
    <3>2. [w EXCEPT !.at = "spawned"] = [id |-> w.id, gen |-> w.gen, at |-> "spawned"]
      BY <1>0 DEF Starter
    <3>3. starters' = (starters \ {w}) \cup {[id |-> w.id, gen |-> w.gen, at |-> "spawned"]}
      BY <2>4, <3>2 DEF Move
    <3>4. Apart'
      BY <1>0, <2>1, <2>2, <2>3, <2>4, <3>1, <3>3, ApartKeeps
    <3>5. \A v \in starters : v.at = "spawned" => v \in starters'
      BY <2>1, <3>3
    <3>6. ProcessOwned'
      <4> SUFFICES ASSUME NEW p \in procs'
                   PROVE  \/ p[1] \in entries' /\ row'[p[1]].pty = p[2]
                          \/ [id |-> p[1], gen |-> p[2], at |-> "spawned"] \in starters'
        BY DEF ProcessOwned
      <4>1. CASE p = <<w.id, w.gen>>
        BY <3>3, <4>1
      <4>2. CASE p \in procs
        <5> DEFINE v == [id |-> p[1], gen |-> p[2], at |-> "spawned"]
        <5>1. v.at = "spawned"
          OBVIOUS
        <5> HIDE DEF v
        <5>2. (p[1] \in entries /\ row[p[1]].pty = p[2]) \/ v \in starters
          BY <1>0, <4>2 DEF ProcessOwned, v
        <5>3. (p[1] \in entries' /\ row'[p[1]].pty = p[2]) \/ v \in starters'
          BY <2>1, <3>5, <5>1, <5>2
        <5> QED
          BY <5>3 DEF v
      <4> QED
        BY <2>4, <4>1, <4>2
    <3> QED
      BY <3>4, <3>6
  <2>5. CASE Move(w, "unwind") /\ UNCHANGED <<procs, spoken>>
    <3>1. starters' = (starters \ {w}) \cup {[w EXCEPT !.at = "unwind"]}
      BY <2>5 DEF Move
    <3>2. \A v \in starters' : v \in starters \/ (v.id = w.id /\ v.at = "unwind")
      BY <1>m, <3>1
    <3>3. \A v \in starters : v.at = "spawned" => v \in starters'
      BY <2>1, <3>1
    <3> QED
      BY <1>0, <2>1, <2>2, <2>5, <3>2, <3>3, ApartKeeps, OwnedKeeps
  <2> QED
    BY <1>2, <2>4, <2>5 DEF SpawnPty
<1>3. CASE Accept(w)
  <2>1. /\ w.at = "spawned"
        /\ UNCHANGED <<entries, used, stoppers, closers, teardowns, spoken>>
    BY <1>3 DEF Accept
  <2>2. w.id \in spoken
    BY <1>0, <2>1 DEF Apart, Unheard
  <2>3. \A v \in starters : v.id = w.id => v.at # "launch"
    BY <1>0, <2>2 DEF Apart, LaunchIsAlone
  <2>4. CASE /\ Current(w.id, w.gen) /\ row[w.id].pty = 0
             /\ row' = [row EXCEPT ![w.id] =
                          [SetStatus(@, "Starting") EXCEPT !.pty = w.gen, !.torn = FALSE]]
             /\ starters' = starters \ {w}
             /\ procs' = procs
    <3> DEFINE r == SetStatus(row[w.id], "Starting")
               q == [r EXCEPT !.pty = w.gen, !.torn = FALSE]
    <3>1. r \in Row
      BY <1>0, StatusTypes, SetStatusFields
    <3> HIDE DEF r
    <3>2. q.pty = w.gen
      BY <3>1 DEF Row
    <3>3. row' = [row EXCEPT ![w.id] = q]
      BY <2>4 DEF r
    <3> HIDE DEF q
    <3>4. \A p \in monitors' : p \in monitors \/ p[1] = w.id
      BY <1>3 DEF Accept
    <3>5. Apart'
      BY <1>0, <2>1, <2>2, <2>3, <2>4, <3>3, <3>4, ApartKeeps
    <3>6. w.id \in entries' /\ row'[w.id].pty = w.gen
      BY <1>0, <2>1, <2>4, <3>2, <3>3 DEF Current, TypeOK
    <3>7. ProcessOwned'
      BY <1>0, <2>1, <2>4, <3>3, <3>6, OwnedKeeps
    <3> QED
      BY <3>5, <3>7
  <2>5. CASE /\ procs' = procs \ {<<w.id, w.gen>>}
             /\ Move(w, "unwind") /\ UNCHANGED <<row, monitors>>
    <3>1. starters' = (starters \ {w}) \cup {[w EXCEPT !.at = "unwind"]}
      BY <2>5 DEF Move
    <3>2. \A v \in starters' : v \in starters \/ (v.id = w.id /\ v.at = "unwind")
      BY <1>m, <3>1
    <3>3. \A v \in starters : v.at = "spawned" => v \in starters' \/ <<v.id, v.gen>> \notin procs'
      BY <2>5, <3>1
    <3> QED
      BY <1>0, <2>1, <2>2, <2>3, <2>5, <3>2, <3>3, ApartKeeps, OwnedKeeps
  <2> QED
    BY <1>3, <2>4, <2>5 DEF Accept
<1>4. CASE FinishStartFailure(w)
  <2>1. /\ w.at \in {"unwind", "failed"} /\ starters' = starters \ {w}
        /\ UNCHANGED <<entries, used, procs, monitors, stoppers, closers, teardowns,
                       spoken>>
    BY <1>4 DEF FinishStartFailure
  <2> DEFINE r == SetStatus(row[w.id], "Exited")
             q == [r EXCEPT !.phase = "Failed"]
  <2>2. row' = row \/ (w.id \in entries /\ row' = [row EXCEPT ![w.id] = q])
    BY <1>4 DEF FinishStartFailure, Current
  <2>3. r \in Row /\ r.pty = row[w.id].pty /\ r.resume = row[w.id].resume
        /\ r.status = "Exited"
    BY <1>0, StatusTypes, SetStatusFields
  <2> HIDE DEF r
  <2>4. /\ q.pty = row[w.id].pty /\ q.resume = row[w.id].resume
        /\ q.phase = "Failed" /\ q.status = "Exited"
    BY <2>3 DEF Row
  <2> HIDE DEF q
  <2>5. w.id \in entries /\ w.id \notin spoken => q.pty = 0 /\ ~q.resume
    BY <1>0, <2>4 DEF Apart, Unheard
  <2>6. Apart'
    BY <1>0, <2>1, <2>2, <2>4, <2>5, ApartKeeps
  <2>7. ProcessOwned'
    BY <1>0, <2>1, <2>2, <2>4, OwnedKeeps
  <2> QED
    BY <2>6, <2>7
<1>5. CASE UndoStart(w)
  <2>1. /\ w.at # "spawned" /\ starters' = starters \ {w}
        /\ UNCHANGED <<used, procs, monitors, stoppers, closers, teardowns, spoken>>
    BY <1>5 DEF UndoStart
  <2>2. CASE w.at = "launch"
    <3>1. entries' = entries \ {w.id} /\ row' = [row EXCEPT ![w.id] = Blank]
      BY <1>5, <2>2 DEF UndoStart
    <3>2. w.id \in entries => row[w.id].pty = 0
      BY <1>0, <2>2 DEF Apart, LaunchIsAlone, Unheard
    <3>3. Apart'
      BY <1>0, <2>1, <3>1, ApartKeeps
    <3>4. ProcessOwned'
      BY <1>0, <2>1, <3>1, <3>2, OwnedKeeps
    <3> QED
      BY <3>3, <3>4
  <2>3. CASE w.at \in {"revive", "drain"}
    <3> DEFINE q == SetStatus(row[w.id], "Exited")
    <3>1. /\ entries' = entries
          /\ row' = row \/ (w.id \in entries /\ row' = [row EXCEPT ![w.id] = q])
      BY <1>5, <2>3 DEF UndoStart, Current
    <3>2. /\ q.pty = row[w.id].pty /\ q.resume = row[w.id].resume
          /\ q.phase # "Backoff" /\ q.status = "Exited"
      BY <1>0, StatusTypes, SetStatusFields
    <3> HIDE DEF q
    <3>3. w.id \in entries /\ w.id \notin spoken => q.pty = 0 /\ ~q.resume
      BY <1>0, <3>2 DEF Apart, Unheard
    <3>4. Apart'
      BY <1>0, <2>1, <3>1, <3>2, <3>3, ApartKeeps
    <3>5. ProcessOwned'
      BY <1>0, <2>1, <3>1, <3>2, OwnedKeeps
    <3> QED
      BY <3>4, <3>5
  <2>4. CASE w.at = "restart"
    <3> DEFINE out == Decide(NextGen(row[w.id]), FALSE, FALSE)
    <3>1. /\ entries' = entries
          /\ row' = row \/ row' = [row EXCEPT ![w.id] = out]
      BY <1>5, <2>4 DEF UndoStart, RestartSpawnFailed
    <3>2. NextGen(row[w.id]) \in Row /\ NextGen(row[w.id]).pty = row[w.id].pty
      BY <1>0 DEF NextGen, Row
    <3>3. out.pty = row[w.id].pty
      BY <3>2, DecideFields
    <3> HIDE DEF out
    <3>4. w.id \in spoken
      BY <1>0, <2>4 DEF Apart, Unheard
    <3>5. Apart'
      BY <1>0, <2>1, <3>1, <3>4, ApartKeeps
    <3>6. ProcessOwned'
      BY <1>0, <2>1, <3>1, <3>3, OwnedKeeps
    <3> QED
      BY <3>5, <3>6
  <2> QED
    BY <1>5, <2>2, <2>3, <2>4 DEF UndoStart
<1> QED
  BY <1>1, <1>s, <1>2, <1>3, <1>4, <1>5 DEF StartWorker

\* A row gives up the process a watcher reports gone, and that one is gone.
LEMMA ReportOwned ==
    ASSUME OInv, NEW p \in monitors \cup stoppers \cup closers,
           NEW finished \in BOOLEAN, NEW long \in BOOLEAN,
           MarkProcessExit(p[1], p[2], finished, long),
           procs' \subseteq procs, p \notin procs',
           monitors' \cup stoppers' \cup closers' \subseteq monitors \cup stoppers \cup closers,
           UNCHANGED <<used, entries, starters, spoken>>
    PROVE  Apart' /\ ProcessOwned'
<1> DEFINE s == p[1]
           out == AfterExit(row[s], finished, long)
<1>0. /\ TypeOK /\ Core /\ Apart /\ ProcessOwned
      /\ s \in Session /\ p[2] \in Nat /\ row[s] \in Row /\ p = <<p[1], p[2]>>
  BY DEF OInv, IInv, TypeOK, Proc
<1>1. s \in spoken
  BY <1>0 DEF Apart, Unheard
<1>2. \A w \in starters : w.id = s => w.at # "launch"
  BY <1>0, <1>1 DEF Apart, LaunchIsAlone
<1>3. \A t \in teardowns' : t \in teardowns \/ t.id = s
  BY DEF MarkProcessExit
<1>4. row' = row \/ \E q : row' = [row EXCEPT ![s] = q]
  BY DEF MarkProcessExit
<1>5. row' = row \/ (s \in entries /\ row[s].gen = p[2])
  BY DEF MarkProcessExit, Current
<1>6. s \in entries /\ row[s].gen = p[2] => row[s].pty = p[2]
  BY <1>0 DEF Core, WatchersFollow
<1>7. Apart'
  BY <1>0, <1>1, <1>2, <1>3, <1>4, ApartKeeps
<1>8. s \in entries /\ row[s].pty # 0 /\ <<s, row[s].pty>> \in procs' => row' = row
  BY <1>0, <1>5, <1>6
<1>9. ProcessOwned'
  BY <1>0, <1>4, <1>8, OwnedKeeps
<1> QED
  BY <1>7, <1>9

LEMMA ExitOwned ==
    ASSUME OInv, ~StopFails, NEW p \in Proc,
           \/ p \in procs /\ ProcessEnds(p)
           \/ p \in monitors /\ Monitor(p)
           \/ p \in stoppers /\ StopWorker(p)
           \/ p \in closers /\ ShutdownStops(p)
    PROVE  Apart' /\ ProcessOwned'
<1>0. /\ TypeOK /\ Apart /\ ProcessOwned /\ p[1] \in Session /\ row[p[1]] \in Row
  BY DEF OInv, IInv, TypeOK, Proc
<1>1. ASSUME row' = row,
             procs' \subseteq procs, stoppers' \subseteq stoppers,
             UNCHANGED <<used, entries, starters, monitors, closers, teardowns, spoken>>
      PROVE  Apart' /\ ProcessOwned'
  BY <1>0, <1>1, ApartKeeps, OwnedKeeps
<1>2. CASE ProcessEnds(p)
  BY <1>1, <1>2 DEF ProcessEnds
<1>3. CASE StopGraceful(p)
  BY <1>1, <1>3 DEF StopGraceful
<1>4. CASE MonitorLosesSight(p)
  <2> DEFINE q == SetStatus(row[p[1]], "Unknown")
  <2>1. q.pty = row[p[1]].pty
    BY <1>0, StatusTypes, SetStatusFields
  <2>2. /\ p \in monitors /\ row' = [row EXCEPT ![p[1]] = q]
        /\ UNCHANGED <<used, entries, starters, procs, monitors, stoppers, closers,
                       teardowns, spoken>>
    BY <1>4 DEF MonitorLosesSight
  <2> HIDE DEF q
  <2>3. p[1] \in spoken
    BY <1>0, <2>2 DEF Apart, Unheard
  <2>4. \A w \in starters : w.id = p[1] => w.at # "launch"
    BY <1>0, <2>3 DEF Apart, LaunchIsAlone
  <2>5. Apart'
    BY <1>0, <2>2, <2>3, <2>4, ApartKeeps
  <2>6. ProcessOwned'
    BY <1>0, <2>1, <2>2, OwnedKeeps
  <2> QED
    BY <2>5, <2>6
<1>5. ASSUME NEW finished \in BOOLEAN, NEW long \in BOOLEAN,
             MonitorReports(p, finished, long)
      PROVE  Apart' /\ ProcessOwned'
  BY <1>5, ReportOwned DEF MonitorReports
<1>6. CASE StopByForce(p)
  BY <1>6, ReportOwned DEF StopByForce
<1>7. CASE ShutdownStops(p)
  BY <1>7, ReportOwned DEF ShutdownStops
<1> QED
  BY <1>2, <1>3, <1>4, <1>5, <1>6, <1>7 DEF Monitor, StopWorker

LEMMA LaterOwned ==
    ASSUME OInv,
           \/ \E t \in teardowns : FinishTeardown(t)
           \/ \E d \in drains : Drainer(d)
           \/ \E t \in timers : RestartDue(t)
           \/ SetAdmission
           \/ Shutdown
    PROVE  Apart' /\ ProcessOwned'
<1>0. TypeOK /\ Apart /\ ProcessOwned /\ \A s \in Session : row[s] \in Row
  BY DEF OInv, IInv, TypeOK
<1>1. ASSUME UNCHANGED <<used, entries, row, starters, procs, monitors, stoppers,
                         closers, spoken>>,
             teardowns' \subseteq teardowns
      PROVE  Apart' /\ ProcessOwned'
  BY <1>0, <1>1 DEF Apart, Unheard, LaunchIsAlone, ProcessOwned
<1>2. ASSUME NEW t \in teardowns, FinishTeardown(t)
      PROVE  Apart' /\ ProcessOwned'
  <2> DEFINE s == t.id
             q == [row[s] EXCEPT !.phase = t.final]
  <2>1. s \in Session /\ s \in spoken
    BY <1>0 DEF Apart, Unheard, TypeOK, Teardown
  <2>2. q.pty = row[s].pty
    BY <1>0, <2>1 DEF Row
  <2>3. /\ row' = row \/ row' = [row EXCEPT ![s] = q]
        /\ teardowns' \subseteq teardowns
        /\ UNCHANGED <<used, entries, starters, procs, monitors, stoppers, closers, spoken>>
    BY <1>0, <1>2, <2>1 DEF FinishTeardown, TypeOK
  <2> HIDE DEF q
  <2>4. Apart'
    BY <1>0, <2>1, <2>3, ApartKeeps
  <2>5. ProcessOwned'
    BY <1>0, <2>1, <2>2, <2>3, OwnedKeeps
  <2> QED
    BY <2>4, <2>5
<1>3. ASSUME NEW s \in entries, row' = [row EXCEPT ![s] = Prepare(row[s])],
             row[s].status = "Queued" \/ row[s].phase = "Backoff",
             NEW g, NEW via \in {"drain", "restart"}, Start(s, g, via),
             via = "restart" => row[s].phase = "Backoff",
             UNCHANGED <<used, entries, procs, monitors, stoppers, closers, teardowns,
                         spoken>>
      PROVE  Apart' /\ ProcessOwned'
  <2> DEFINE q == Prepare(row[s])
  <2>1. s \in Session
    BY <1>0 DEF TypeOK
  <2>2. /\ q.pty = row[s].pty /\ q.resume = row[s].resume
        /\ q.phase = "Preparing" /\ q.status = "Starting"
    BY <1>0, <2>1, PrepareFields
  <2> HIDE DEF q
  <2>3. s \notin spoken => q.pty = 0 /\ ~q.resume /\ row[s].phase # "Backoff"
    BY <1>0, <2>1, <2>2 DEF Apart, Unheard
  <2>4. \A w \in starters : w.id = s => w.at # "launch"
    BY <1>0, <1>3, <2>3 DEF Apart, LaunchIsAlone
  <2>5. /\ \A w \in starters' : w \in starters \/ (w.id = s /\ w.at \in {"setup", via})
        /\ starters \subseteq starters'
    BY <1>3 DEF Start, Worker
  <2>6. row' = [row EXCEPT ![s] = q]
    BY <1>3 DEF q
  <2>a. \A w \in starters' : w \in starters \/ (w.id = s /\ w.at \notin {"launch", "cleared"})
    BY <1>3, <2>5
  <2>b. s \notin spoken => \A w \in starters' \ starters : w.at \notin {"spawned", "restart"}
    BY <1>3, <2>3, <2>5
  <2>7. Apart'
    BY <1>0, <1>3, <2>1, <2>2, <2>3, <2>4, <2>6, <2>a, <2>b, ApartKeeps
  <2>8. ProcessOwned'
    BY <1>0, <1>3, <2>1, <2>2, <2>5, <2>6, OwnedKeeps
  <2> QED
    BY <2>7, <2>8
<1>4. ASSUME NEW d \in drains, Drainer(d)
      PROVE  Apart' /\ ProcessOwned'
  <2> DEFINE s == Head(queue)
  <2>1. UNCHANGED <<used, entries, procs, monitors, stoppers, closers, teardowns, spoken>>
    BY <1>4 DEF Drainer, DrainOne, DrainReturns
  <2>2. \/ row' = row /\ starters' = starters
        \/ /\ s \in entries /\ row[s].status = "Queued"
           /\ row' = [row EXCEPT ![s] = Prepare(row[s])]
           /\ Start(s, row[s].gen + 1, "drain")
    BY <1>4 DEF Drainer, DrainOne, DrainReturns
  <2> HIDE DEF s
  <2> QED
    BY <1>1, <1>3, <2>1, <2>2
<1>5. ASSUME NEW t \in timers, RestartDue(t)
      PROVE  Apart' /\ ProcessOwned'
  <2> DEFINE s == t[1]
             out == Decide(NextGen(row[s]), FALSE, FALSE)
  <2>1. s \in Session /\ row[s] \in Row
    BY <1>0 DEF TypeOK, Proc
  <2>2. UNCHANGED <<used, entries, procs, monitors, stoppers, closers, teardowns, spoken>>
    BY <1>5 DEF RestartDue
  <2>3. \/ row' = row /\ starters' = starters
        \/ /\ s \in entries /\ row[s].phase = "Backoff"
           /\ \/ row' = [row EXCEPT ![s] = out] /\ starters' = starters
              \/ row' = [row EXCEPT ![s] = Prepare(row[s])] /\ Start(s, t[2] + 1, "restart")
    BY <1>5 DEF RestartDue, Current
  <2>4. NextGen(row[s]) \in Row /\ NextGen(row[s]).pty = row[s].pty
    BY <2>1 DEF NextGen, Row
  <2>5. out.pty = row[s].pty
    BY <2>4, DecideFields
  <2> HIDE DEF s, out
  <2>6. CASE s \in entries /\ row[s].phase = "Backoff"
             /\ row' = [row EXCEPT ![s] = out] /\ starters' = starters
    <3>1. s \in spoken
      BY <1>0, <2>1, <2>6 DEF Apart, Unheard
    <3>2. Apart'
      BY <1>0, <2>1, <2>2, <2>6, <3>1, ApartKeeps
    <3>3. ProcessOwned'
      BY <1>0, <2>1, <2>2, <2>5, <2>6, OwnedKeeps
    <3> QED
      BY <3>2, <3>3
  <2> QED
    BY <1>1, <1>3, <2>2, <2>3, <2>6
<1>6. CASE SetAdmission
  BY <1>1, <1>6 DEF SetAdmission
<1>7. CASE Shutdown
  <2>1. /\ UNCHANGED <<used, entries, starters, procs, monitors, stoppers, teardowns, spoken>>
        /\ \A p \in closers' : p[1] \in entries /\ row[p[1]].pty # 0
    BY <1>7 DEF Shutdown
  <2>2. \A s \in Session : /\ row'[s].pty = row[s].pty /\ row'[s].status = row[s].status
                           /\ row'[s].phase = row[s].phase /\ row'[s].resume = row[s].resume
    BY <1>0, <1>7, ShutdownRows
  <2>3. Unheard'
    BY <1>0, <2>1, <2>2 DEF Apart, Unheard
  <2>4. LaunchIsAlone'
    BY <1>0, <2>1, <2>2 DEF Apart, LaunchIsAlone, TypeOK, Starter
  <2>5. ProcessOwned'
    BY <1>0, <2>1, <2>2 DEF ProcessOwned, TypeOK, Proc
  <2> QED
    BY <1>0, <2>1, <2>3, <2>4, <2>5 DEF Apart
<1> QED
  BY <1>2, <1>4, <1>5, <1>6, <1>7

\* No running agent is ever out of the supervisor's hands, whatever threads
\* cannot be spawned and whenever output and hooks arrive, if a stop ladder that
\* runs to its last rung ends the process: its row owns it, or the start worker
\* that spawned it has yet to register or reject it.
THEOREM OwnedHolds ==
    ASSUME ~StopFails
    PROVE  Spec => []ProcessOwned
<1>1. Init => OInv
  <2> SUFFICES ASSUME Init PROVE Apart /\ ProcessOwned
    BY InitInv DEF OInv
  <2>1. /\ spoken = entries /\ used = entries
        /\ starters = {} /\ procs = {} /\ monitors = {} /\ stoppers = {} /\ closers = {}
        /\ teardowns = {}
    BY DEF Init
  <2> QED
    BY <2>1 DEF Apart, Unheard, LaunchIsAlone, ProcessOwned
<1>2. OInv /\ [Next]_vars => OInv'
  <2> SUFFICES ASSUME OInv, [Next]_vars PROVE Apart' /\ ProcessOwned'
    BY NextInv DEF OInv
  <2>1. CASE UNCHANGED vars
    BY <2>1 DEF vars, OInv, Apart, Unheard, LaunchIsAlone, ProcessOwned
  <2>2. CASE Next
    <3>1. procs \subseteq Proc /\ monitors \subseteq Proc
          /\ stoppers \subseteq Proc /\ closers \subseteq Proc
      BY DEF OInv, IInv, TypeOK
    <3> QED
      BY <2>2, <3>1, RequestOwned, AgentOwned, StartWorkerOwned, ExitOwned, LaterOwned
         DEF Next
  <2> QED
    BY <2>1, <2>2
<1>3. OInv => ProcessOwned
  BY DEF OInv
<1> QED
  BY <1>1, <1>2, <1>3, PTL DEF Spec

-----------------------------------------------------------------------------
(* Slots.  A row that has a process is live; one that waits for a restart, *)
(* or whose environment is torn down behind its process, is not.  A step   *)
(* touches one row's claim to a slot, and only a start the gate has        *)
(* admitted, or a signal, makes a row live that was not; only a signal     *)
(* leaves one live without a process.                                      *)

ProcessIsLive == \A s \in entries : row[s].pty # 0 => row[s].status \in Live

\* A row that is down may have the fields of q.
Downed(q) == q.phase = "Backoff" \/ (q.phase = "TearingDown" /\ q.pty = 0)
                => q.status \notin Live

DownIsDead == \A s \in entries : Downed(row[s])

SInv == IInv /\ ProcessIsLive /\ DownIsDead

\* What a step that is no signal may do to the claim of s, a row after it.
Claims(s) ==
    row'[s].status \in Live =>
        \/ /\ IsLive(s)
           /\ Backed(s) => row'[s].pty # 0 \/ row'[s].phase = "Preparing"
        \/ ~Full /\ row'[s].phase = "Preparing"

\* The step is about s alone.
OnlyClaimOf(s) ==
    /\ s \in Session
    /\ \A t \in Session \ {s} : row'[t] = row[t] /\ (t \in entries' <=> t \in entries)
    /\ s \in entries' => /\ row'[s].pty # 0 => row'[s].status \in Live
                         /\ Downed(row'[s])
                         /\ Claims(s) \/ Agent(s)

\* No claim changes.
NoClaims ==
    /\ entries' = entries
    /\ \A s \in Session : /\ row'[s].status = row[s].status
                          /\ row'[s].pty = row[s].pty /\ row'[s].phase = row[s].phase

LEMMA LiveStatuses ==
    /\ "Exited" \notin Live /\ "Queued" \notin Live
    /\ {"Starting", "Idle", "Unknown", "RateLimited"} \subseteq Live
    /\ Reports \subseteq Live
BY ConstantsAssumption DEF Live

LEMMA OneMore ==
    ASSUME IsFiniteSet(Session), NEW A \in SUBSET Session, NEW B \in SUBSET Session,
           NEW s, A \ {s} = B \ {s}
    PROVE  /\ Cardinality(A) \in Nat /\ Cardinality(B) \in Nat
           /\ Cardinality(B) <= Cardinality(A) + 1
           /\ s \in A \/ s \notin B => Cardinality(B) <= Cardinality(A)
<1>1. IsFiniteSet(A) /\ IsFiniteSet(B)
  BY FS_Subset
<1>2. Cardinality(A) \in Nat /\ Cardinality(B) \in Nat
  BY <1>1, FS_CardinalityType
<1>3. Cardinality(A \ {s}) = IF s \in A THEN Cardinality(A) - 1 ELSE Cardinality(A)
  BY <1>1, FS_RemoveElement
<1>4. Cardinality(B \ {s}) = IF s \in B THEN Cardinality(B) - 1 ELSE Cardinality(B)
  BY <1>1, FS_RemoveElement
<1> QED
  BY <1>2, <1>3, <1>4

\* The shapes a change of one row has.
LEMMA OneClaim ==
    ASSUME SInv, NEW s \in Session, NEW q, row' = [row EXCEPT ![s] = q],
           entries' \ {s} = entries \ {s},
           s \in entries' =>
              \/ q.pty = 0 /\ q.status \notin Live
              \/ q.pty = 0 /\ ~Full /\ q.phase = "Preparing"
              \/ q.pty # 0 /\ q.status \in Live /\ IsLive(s) /\ q.phase # "Backoff"
              \/ /\ s \in entries /\ q.status = row[s].status /\ q.pty = row[s].pty
                 /\ \/ q.phase = row[s].phase
                    \/ row[s].phase = "TearingDown" /\ row[s].pty = 0
    PROVE  OnlyClaimOf(s)
<1>0. row \in [Session -> Row] /\ ProcessIsLive /\ (s \in entries => Downed(row[s]))
  BY DEF SInv, IInv, TypeOK, DownIsDead
<1>1. row'[s] = q /\ \A t \in Session \ {s} : row'[t] = row[t]
  BY <1>0
<1>2. s \in entries /\ row[s].pty # 0 => row[s].status \in Live
  BY <1>0 DEF ProcessIsLive
<1>3. s \in entries' => /\ row'[s].pty # 0 => row'[s].status \in Live
                       /\ Claims(s)
  BY <1>1, <1>2 DEF Claims, IsLive, Backed
<1>4. s \in entries' => Downed(row'[s])
  BY <1>0, <1>1 DEF Downed
<1> QED
  BY <1>1, <1>3, <1>4 DEF OnlyClaimOf

LEMMA RequestClaims ==
    ASSUME SInv, NEW s \in Session, Request(s)
    PROVE  OnlyClaimOf(s)
<1>0. TypeOK /\ row[s] \in Row /\ ProcessIsLive
  BY DEF SInv, IInv, TypeOK
<1>1. CASE Launch(s)
  <2>1. entries' = entries \cup {s}
    BY <1>1 DEF Launch
  <2>2. Blank.pty = 0
    BY DEF Blank
  <2>3. CASE Full
    <3> DEFINE q == SetStatus(Blank, "Queued")
    <3>1. q.pty = 0 /\ q.status = "Queued"
      BY <2>2, BlankType, StatusTypes, SetStatusFields
    <3>2. row' = [row EXCEPT ![s] = q]
      BY <1>1, <2>3 DEF Launch
    <3> HIDE DEF q
    <3> QED
      BY <2>1, <3>1, <3>2, OneClaim, LiveStatuses
  <2>4. CASE ~Full
    <3> DEFINE q == [Blank EXCEPT !.phase = "Preparing"]
    <3>1. q.pty = 0 /\ q.phase = "Preparing"
      BY DEF Blank
    <3>2. row' = [row EXCEPT ![s] = q]
      BY <1>1, <2>4 DEF Launch
    <3> HIDE DEF q
    <3> QED
      BY <2>1, <2>4, <3>1, <3>2, OneClaim
  <2> QED
    BY <2>3, <2>4
<1>2. CASE Revive(s)
  <2> DEFINE r == [row[s] EXCEPT !.stop = FALSE]
  <2>1. /\ row[s].pty = 0 /\ s \in entries /\ entries' = entries
        /\ IF Full THEN row' = [row EXCEPT ![s] = SetStatus(NextGen(r), "Queued")]
                   ELSE row' = [row EXCEPT ![s] = [Prepare(r) EXCEPT !.restarts = 0]]
    BY <1>2 DEF Revive, Revivable
  <2>2. r \in Row /\ r.pty = row[s].pty
    BY <1>0 DEF Row
  <2> HIDE DEF r
  <2>3. CASE Full
    <3> DEFINE q == SetStatus(NextGen(r), "Queued")
    <3>1. NextGen(r) \in Row /\ NextGen(r).pty = r.pty
      BY <2>2 DEF NextGen, Row
    <3>2. q.pty = 0 /\ q.status = "Queued"
      BY <2>1, <2>2, <3>1, StatusTypes, SetStatusFields
    <3>3. row' = [row EXCEPT ![s] = q]
      BY <2>1, <2>3
    <3> HIDE DEF q
    <3> QED
      BY <2>1, <3>2, <3>3, OneClaim, LiveStatuses
  <2>4. CASE ~Full
    <3> DEFINE q == [Prepare(r) EXCEPT !.restarts = 0]
    <3>1. Prepare(r) \in Row /\ Prepare(r).pty = r.pty /\ Prepare(r).phase = "Preparing"
      BY <2>2, PrepareFields
    <3>2. q.pty = 0 /\ q.phase = "Preparing"
      BY <2>1, <2>2, <3>1 DEF Row
    <3>3. row' = [row EXCEPT ![s] = q]
      BY <2>1, <2>4
    <3> HIDE DEF q
    <3> QED
      BY <2>1, <2>4, <3>2, <3>3, OneClaim
  <2> QED
    BY <2>3, <2>4
<1>3. CASE Archive(s)
  <2>1. entries' = entries \ {s} /\ row' = [row EXCEPT ![s] = Blank]
    BY <1>3 DEF Archive
  <2> QED
    BY <2>1, OneClaim
<1>4. CASE KillProcess(s)
  <2>1. PICK b \in BOOLEAN : row' = [row EXCEPT ![s].stop = b, ![s].phase = "TearingDown"]
    BY <1>4 DEF KillProcess
  <2> DEFINE q == [row[s] EXCEPT !.stop = b, !.phase = "TearingDown"]
  <2>2. /\ row' = [row EXCEPT ![s] = q] /\ q.pty = row[s].pty
        /\ q.status = row[s].status /\ q.phase = "TearingDown"
    BY <1>0, <2>1 DEF TypeOK, Row
  <2> HIDE DEF q
  <2>3. s \in entries /\ entries' = entries /\ row[s].pty # 0
    BY <1>4 DEF KillProcess
  <2>4. row[s].status \in Live
    BY <1>0, <2>3 DEF ProcessIsLive
  <2> QED
    BY <2>2, <2>3, <2>4, OneClaim DEF IsLive
<1>5. CASE KillPending(s)
  <2> DEFINE r == [row[s] EXCEPT !.stop = TRUE]
             q == Retire(r)
  <2>1. r \in Row /\ r.pty = row[s].pty
    BY <1>0 DEF Row
  <2>2. row' = [row EXCEPT ![s] = q] /\ entries' = entries /\ row[s].pty = 0
    BY <1>5 DEF KillPending
  <2> HIDE DEF r
  <2>3. q.pty = 0 /\ q.status = "Exited"
    BY <2>1, <2>2, RetireFields
  <2> HIDE DEF q
  <2> QED
    BY <2>2, <2>3, OneClaim, LiveStatuses
<1>6. CASE KillNothing(s)
  <2> DEFINE q == [row[s] EXCEPT !.stop = TRUE]
  <2>1. q.pty = row[s].pty /\ q.phase = row[s].phase /\ q.status = row[s].status
    BY <1>0 DEF Row
  <2>2. row' = [row EXCEPT ![s] = q] /\ s \in entries /\ entries' = entries
    BY <1>0, <1>6 DEF KillNothing, TypeOK
  <2> HIDE DEF q
  <2> QED
    BY <2>1, <2>2, OneClaim
<1> QED
  BY <1>1, <1>2, <1>3, <1>4, <1>5, <1>6 DEF Request

\* A signal leaves the process, if there is one, and the row live.
LEMMA AgentClaims ==
    ASSUME SInv, NEW s \in Session, Agent(s)
    PROVE  OnlyClaimOf(s)
<1>0. TypeOK /\ row[s] \in Row /\ ProcessIsLive
  BY DEF SInv, IInv, TypeOK
<1>1. s \in entries /\ entries' = entries
  BY DEF Agent, HandleOutput, MatchHook, SessionStart, ApplyHook
<1>2. Downed(row[s]) /\ (row[s].pty # 0 => row[s].status \in Live)
  BY <1>0, <1>1 DEF ProcessIsLive, SInv, DownIsDead
<1> DEFINE Fine(q) == row' = [row EXCEPT ![s] = q] /\ Downed(q) /\ (q.pty # 0 => q.status \in Live)
<1>3. ASSUME NEW st \in Live, row[s].status # st,
             row' = [row EXCEPT ![s] = Report(row[s], st)]
      PROVE  \E q : Fine(q)
  <2> DEFINE q == SetStatus(row[s], st)
  <2>1. q.status = st /\ q.phase \notin {"Backoff", "TearingDown"}
    BY <1>0, StatusTypes, SetStatusFields
  <2>2. row' = [row EXCEPT ![s] = q]
    BY <1>3 DEF Report
  <2> HIDE DEF q
  <2> QED
    BY <2>1, <2>2 DEF Downed
<1>4. ASSUME HandleOutput(s) PROVE \E q : Fine(q)
  BY <1>3, <1>4, LiveStatuses DEF HandleOutput
<1>5. ASSUME NEW st \in Reports, ApplyHook(s, st) PROVE \E q : Fine(q)
  BY <1>3, <1>5, LiveStatuses DEF ApplyHook
<1>6. ASSUME SessionStart(s) PROVE \E q : Fine(q)
  <2> DEFINE q == [row[s] EXCEPT !.resume = TRUE]
  <2>1. /\ row' = [row EXCEPT ![s] = q] /\ q.pty = row[s].pty
        /\ q.status = row[s].status /\ q.phase = row[s].phase
    BY <1>0, <1>6 DEF SessionStart, TypeOK, Row
  <2> HIDE DEF q
  <2> QED
    BY <1>2, <2>1 DEF Downed
<1>7. ASSUME MatchHook(s) PROVE \E q : Fine(q)
  <2>1. row' = [row EXCEPT ![s] = row[s]]
    BY <1>0, <1>7 DEF MatchHook, TypeOK
  <2> QED
    BY <1>2, <2>1
<1>8. PICK q : Fine(q)
  BY <1>4, <1>5, <1>6, <1>7 DEF Agent
<1>9. row'[s] = q /\ \A t \in Session \ {s} : row'[t] = row[t]
  BY <1>0, <1>8 DEF TypeOK
<1> QED
  BY <1>1, <1>8, <1>9 DEF OnlyClaimOf

LEMMA StartWorkerClaims ==
    ASSUME SInv, NEW w \in starters, StartWorker(w)
    PROVE  OnlyClaimOf(w.id) \/ NoClaims
<1>0. /\ TypeOK /\ w.id \in Session /\ row[w.id] \in Row /\ w.gen \in Nat
      /\ StartsBeforeProcess
  BY DEF SInv, IInv, TypeOK, Starter, Core
<1>c. Current(w.id, w.gen) => row[w.id].pty = 0 /\ w.id \in entries /\ w.gen = row[w.id].gen
  BY <1>0 DEF StartsBeforeProcess, Current
<1>1. ASSUME row' = row, entries' = entries
      PROVE  NoClaims
  BY <1>1 DEF NoClaims
<1>2. CASE SetupFails(w) \/ StartIsCurrent(w) \/ SpawnPty(w)
  BY <1>1, <1>2 DEF SetupFails, StartIsCurrent, SpawnPty
<1>3. CASE Accept(w)
  <2> DEFINE r == SetStatus(row[w.id], "Starting")
             q == [r EXCEPT !.pty = w.gen, !.torn = FALSE]
  <2>1. entries' = entries
    BY <1>3 DEF Accept
  <2>2. \/ row' = row
        \/ /\ Current(w.id, w.gen) /\ row[w.id].status = "Starting"
           /\ row' = [row EXCEPT ![w.id] = q]
    BY <1>3 DEF Accept
  <2>3. r \in Row /\ r.status = "Starting" /\ r.phase # "Backoff"
    BY <1>0, StatusTypes, SetStatusFields
  <2> HIDE DEF r
  <2>4. q.pty = w.gen /\ q.status = "Starting" /\ q.phase # "Backoff"
    BY <2>3 DEF Row
  <2> HIDE DEF q
  <2>5. Current(w.id, w.gen) => w.gen # 0
    BY <1>0, <1>c DEF Row
  <2> QED
    BY <1>0, <1>1, <1>c, <2>1, <2>2, <2>4, <2>5, OneClaim, LiveStatuses DEF IsLive
<1>4. CASE FinishStartFailure(w)
  <2> DEFINE r == SetStatus(row[w.id], "Exited")
             q == [r EXCEPT !.phase = "Failed"]
  <2>1. entries' = entries
    BY <1>4 DEF FinishStartFailure
  <2>2. row' = row \/ (row[w.id].pty = 0 /\ row' = [row EXCEPT ![w.id] = q])
    BY <1>4 DEF FinishStartFailure
  <2>3. r \in Row /\ r.pty = row[w.id].pty /\ r.status = "Exited"
    BY <1>0, StatusTypes, SetStatusFields
  <2> HIDE DEF r
  <2>4. q.pty = row[w.id].pty /\ q.status = "Exited"
    BY <2>3 DEF Row
  <2> HIDE DEF q
  <2> QED
    BY <1>0, <1>1, <2>1, <2>2, <2>4, OneClaim, LiveStatuses
<1>5. CASE UndoStart(w)
  <2>1. CASE w.at = "launch"
    <3>1. entries' = entries \ {w.id} /\ row' = [row EXCEPT ![w.id] = Blank]
      BY <1>5, <2>1 DEF UndoStart
    <3> QED
      BY <1>0, <3>1, OneClaim
  <2>2. CASE w.at \in {"revive", "drain"}
    <3> DEFINE q == SetStatus(row[w.id], "Exited")
    <3>1. /\ entries' = entries
          /\ row' = row \/ (Current(w.id, w.gen) /\ row' = [row EXCEPT ![w.id] = q])
      BY <1>5, <2>2 DEF UndoStart
    <3>2. q.pty = row[w.id].pty /\ q.status = "Exited"
      BY <1>0, StatusTypes, SetStatusFields
    <3> HIDE DEF q
    <3> QED
      BY <1>0, <1>1, <1>c, <3>1, <3>2, OneClaim, LiveStatuses
  <2>3. CASE w.at = "restart"
    <3> DEFINE r == NextGen(row[w.id])
               q == Decide(r, FALSE, FALSE)
    <3>1. /\ entries' = entries
          /\ row' = row \/ (Current(w.id, w.gen) /\ row' = [row EXCEPT ![w.id] = q])
      BY <1>5, <2>3 DEF UndoStart, RestartSpawnFailed
    <3>2. r \in Row /\ r.pty = row[w.id].pty
      BY <1>0 DEF NextGen, Row
    <3> HIDE DEF r
    <3>3. q.pty = row[w.id].pty /\ q.status = "Exited"
      BY <3>2, DecideFields
    <3> HIDE DEF q
    <3> QED
      BY <1>0, <1>1, <1>c, <3>1, <3>3, OneClaim, LiveStatuses
  <2> QED
    BY <1>5, <2>1, <2>2, <2>3 DEF UndoStart
<1> QED
  BY <1>2, <1>3, <1>4, <1>5 DEF StartWorker

LEMMA ExitClaims ==
    ASSUME SInv, NEW p \in Proc,
           \/ p \in procs /\ ProcessEnds(p)
           \/ p \in monitors /\ Monitor(p)
           \/ p \in stoppers /\ StopWorker(p)
           \/ p \in closers /\ ShutdownStops(p)
    PROVE  OnlyClaimOf(p[1]) \/ NoClaims
<1>0. /\ TypeOK /\ p[1] \in Session /\ row[p[1]] \in Row
      /\ WatchersFollow /\ ProcessIsLive
  BY DEF SInv, IInv, TypeOK, Proc, Core
<1>1. ASSUME row' = row, entries' = entries
      PROVE  NoClaims
  BY <1>1 DEF NoClaims
<1>2. CASE ProcessEnds(p)
  BY <1>1, <1>2 DEF ProcessEnds
<1>3. CASE StopGraceful(p)
  BY <1>1, <1>3 DEF StopGraceful
<1>4. CASE MonitorLosesSight(p)
  <2> DEFINE q == SetStatus(row[p[1]], "Unknown")
  <2>1. q.pty = row[p[1]].pty /\ q.status = "Unknown" /\ q.phase # "Backoff"
    BY <1>0, StatusTypes, SetStatusFields
  <2>2. /\ p \in monitors /\ row' = [row EXCEPT ![p[1]] = q] /\ entries' = entries
        /\ p[1] \in entries /\ row[p[1]].gen = p[2]
    BY <1>4 DEF MonitorLosesSight, Current
  <2> HIDE DEF q
  <2>3. row[p[1]].pty = p[2] /\ p[2] # 0
    BY <1>0, <2>2 DEF WatchersFollow, Row
  <2>4. row[p[1]].status \in Live
    BY <1>0, <2>2, <2>3 DEF ProcessIsLive
  <2> QED
    BY <1>0, <2>1, <2>2, <2>3, <2>4, OneClaim, LiveStatuses DEF IsLive
<1>5. ASSUME NEW finished \in BOOLEAN, NEW long \in BOOLEAN,
             MarkProcessExit(p[1], p[2], finished, long), entries' = entries
      PROVE  OnlyClaimOf(p[1]) \/ NoClaims
  <2> DEFINE out == AfterExit(row[p[1]], finished, long)
             torn == [out EXCEPT !.torn = TRUE, !.phase = "TearingDown"]
  <2>1. \/ row' = row
        \/ row' = [row EXCEPT ![p[1]] = out]
        \/ row' = [row EXCEPT ![p[1]] = torn]
    BY <1>5 DEF MarkProcessExit
  <2>2. out \in Row /\ out.pty = 0 /\ out.status = "Exited"
    BY <1>0, AfterExitFields
  <2> HIDE DEF out
  <2>3. torn.pty = 0 /\ torn.status = "Exited"
    BY <2>2 DEF Row
  <2> HIDE DEF torn
  <2> QED
    BY <1>0, <1>1, <1>5, <2>1, <2>2, <2>3, OneClaim, LiveStatuses
<1>6. CASE \E finished, long \in BOOLEAN : MonitorReports(p, finished, long)
  BY <1>5, <1>6 DEF MonitorReports
<1>7. CASE StopByForce(p)
  BY <1>5, <1>7 DEF StopByForce
<1>8. CASE ShutdownStops(p)
  BY <1>5, <1>8 DEF ShutdownStops
<1> QED
  BY <1>2, <1>3, <1>4, <1>6, <1>7, <1>8 DEF Monitor, StopWorker

LEMMA LaterClaims ==
    ASSUME SInv,
           \/ \E t \in teardowns : FinishTeardown(t)
           \/ \E d \in drains : Drainer(d)
           \/ \E t \in timers : RestartDue(t)
           \/ SetAdmission
           \/ Shutdown
    PROVE  NoClaims \/ \E s : OnlyClaimOf(s)
<1>0. TypeOK /\ \A s \in Session : row[s] \in Row
  BY DEF SInv, IInv, TypeOK
<1>1. ASSUME row' = row, entries' = entries
      PROVE  NoClaims
  BY <1>1 DEF NoClaims
<1>2. ASSUME NEW s \in Session, row[s].pty = 0, ~Full, entries' = entries,
             row' = [row EXCEPT ![s] = Prepare(row[s])]
      PROVE  OnlyClaimOf(s)
  <2> DEFINE q == Prepare(row[s])
  <2>1. q.pty = 0 /\ q.phase = "Preparing"
    BY <1>0, <1>2, PrepareFields
  <2>2. row' = [row EXCEPT ![s] = q]
    BY <1>2
  <2> HIDE DEF q
  <2> QED
    BY <1>2, <2>1, <2>2, OneClaim
<1>3. ASSUME NEW t \in teardowns, FinishTeardown(t)
      PROVE  NoClaims \/ \E s : OnlyClaimOf(s)
  <2> DEFINE q == [row[t.id] EXCEPT !.phase = t.final]
  <2>1. t.id \in Session
    BY <1>0 DEF TypeOK, Teardown
  <2>2. q.pty = row[t.id].pty /\ q.status = row[t.id].status
    BY <1>0, <2>1 DEF Row
  <2>3. /\ entries' = entries
        /\ \/ row' = row
           \/ /\ t.id \in entries /\ row[t.id].phase = "TearingDown"
              /\ row[t.id].pty = 0 /\ row' = [row EXCEPT ![t.id] = q]
    BY <1>0, <1>3, <2>1
       DEF FinishTeardown, TypeOK, Current, SInv, IInv, Core, TeardownsAreApart
  <2> HIDE DEF q
  <2> QED
    BY <1>1, <2>1, <2>2, <2>3, OneClaim
<1>4. ASSUME NEW d \in drains, Drainer(d)
      PROVE  NoClaims \/ \E s : OnlyClaimOf(s)
  <2> DEFINE s == Head(queue)
  <2>1. entries' = entries
    BY <1>4 DEF Drainer, DrainOne, DrainReturns
  <2>2. \/ row' = row
        \/ /\ ~Full /\ s \in entries /\ row[s].status = "Queued"
           /\ row' = [row EXCEPT ![s] = Prepare(row[s])]
    BY <1>4 DEF Drainer, DrainOne, DrainReturns
  <2> HIDE DEF s
  <2>3. s \in entries /\ row[s].status = "Queued" => s \in Session /\ row[s].pty = 0
    BY <1>0 DEF SInv, IInv, Core, QueuedOwnsNothing, TypeOK
  <2> QED
    BY <1>1, <1>2, <2>1, <2>2, <2>3
<1>5. ASSUME NEW t \in timers, RestartDue(t)
      PROVE  NoClaims \/ \E s : OnlyClaimOf(s)
  <2> DEFINE s == t[1]
             r == NextGen(row[s])
             out == Decide(r, FALSE, FALSE)
  <2>1. s \in Session /\ row[s] \in Row /\ entries' = entries
    BY <1>0, <1>5 DEF TypeOK, Proc, RestartDue
  <2>2. \/ row' = row
        \/ /\ row[s].pty = 0
           /\ \/ row' = [row EXCEPT ![s] = out]
              \/ ~Full /\ row' = [row EXCEPT ![s] = Prepare(row[s])]
    BY <1>5 DEF RestartDue
  <2>3. r \in Row /\ r.pty = row[s].pty
    BY <2>1 DEF NextGen, Row
  <2> HIDE DEF r
  <2>4. out.pty = row[s].pty /\ out.status = "Exited"
    BY <2>3, DecideFields
  <2> HIDE DEF s, out
  <2> QED
    BY <1>1, <1>2, <2>1, <2>2, <2>4, OneClaim, LiveStatuses
<1>6. CASE SetAdmission
  BY <1>1, <1>6 DEF SetAdmission
<1>7. CASE Shutdown
  <2>1. entries' = entries
    BY <1>7 DEF Shutdown
  <2> QED
    BY <1>0, <1>7, <2>1, ShutdownRows DEF NoClaims
<1> QED
  BY <1>3, <1>4, <1>5, <1>6, <1>7

LEMMA NextClaims ==
    ASSUME SInv, [Next]_vars
    PROVE  NoClaims \/ \E s : OnlyClaimOf(s)
<1>1. CASE UNCHANGED vars
  BY <1>1 DEF vars, NoClaims
<1>2. CASE Next
  <2>1. procs \subseteq Proc /\ monitors \subseteq Proc
        /\ stoppers \subseteq Proc /\ closers \subseteq Proc
    BY DEF SInv, IInv, TypeOK
  <2> QED
    BY <1>2, <2>1, RequestClaims, AgentClaims, StartWorkerClaims, ExitClaims, LaterClaims
       DEF Next
<1> QED
  BY <1>1, <1>2

LEMMA ClaimsKept ==
    ASSUME SInv, IInv', NoClaims \/ \E s : OnlyClaimOf(s)
    PROVE  ProcessIsLive' /\ DownIsDead'
<1>0. /\ entries \subseteq Session /\ entries' \subseteq Session
      /\ ProcessIsLive /\ DownIsDead
  BY DEF SInv, IInv, TypeOK
<1>1. CASE NoClaims
  BY <1>0, <1>1 DEF NoClaims, ProcessIsLive, DownIsDead, Downed
<1>2. ASSUME NEW s, OnlyClaimOf(s)
      PROVE  ProcessIsLive' /\ DownIsDead'
  BY <1>0, <1>2 DEF ProcessIsLive, DownIsDead, OnlyClaimOf
<1> QED
  BY <1>1, <1>2

LEMMA SInvKept == /\ Init => SInv
                  /\ SInv /\ [Next]_vars => SInv'
<1>1. ASSUME Init PROVE SInv
  <2>1. IInv
    BY <1>1, InitInv
  <2>2. \A s \in entries : row[s].pty = 0 /\ row[s].status = "Exited"
    BY <1>1, RestoredFields DEF Init
  <2> QED
    BY <2>1, <2>2, LiveStatuses DEF SInv, ProcessIsLive, DownIsDead, Downed
<1>2. ASSUME SInv, [Next]_vars PROVE SInv'
  <2>1. IInv'
    BY <1>2, NextInv DEF SInv
  <2> QED
    BY <1>2, <2>1, NextClaims, ClaimsKept DEF SInv
<1> QED
  BY <1>1, <1>2

\* No exit, kill, failure, teardown, restart or revival leaves a row live
\* without a process behind it, for every fleet, whatever threads cannot be
\* spawned and whatever kills fail: only a signal of the agent's can.
THEOREM LiveHolds == Spec => LiveHasProcess
<1> DEFINE Kept == \A s \in Session : Backed(s) /\ ~Backed(s)' => Agent(s)
<1>1. ASSUME SInv, [Next]_vars PROVE Kept
  <2> SUFFICES ASSUME NEW t \in Session, Backed(t), ~Backed(t)'
               PROVE  Agent(t)
    OBVIOUS
  <2>1. t \in entries' /\ row'[t].status \in Live /\ row'[t].pty = 0
        /\ row'[t].phase # "Preparing"
    BY DEF Backed, IsLive
  <2>2. CASE NoClaims
    BY <2>1, <2>2 DEF NoClaims, Backed, IsLive
  <2>3. ASSUME NEW s, OnlyClaimOf(s) PROVE Agent(t)
    <3>1. CASE t = s
      BY <2>1, <2>3, <3>1 DEF OnlyClaimOf, Claims
    <3>2. CASE t # s
      BY <2>1, <2>3, <3>2 DEF OnlyClaimOf, Backed, IsLive
    <3> QED
      BY <3>1, <3>2
  <2> QED
    BY <1>1, <2>2, <2>3, NextClaims
<1>2. Spec => [][Kept]_vars
  BY <1>1, SInvKept, PTL DEF Spec
<1> QED
  BY <1>2 DEF LiveHasProcess

\* No step takes the fleet over its cap but the end of a rate limit, and a
\* signal that makes a row live, for every finite fleet and every cap.
THEOREM CapHolds ==
    ASSUME IsFiniteSet(Session)
    PROVE  Spec => NoOvercommit
<1> DEFINE Granted == Held' > Held =>
                        \/ Held' <= cap
                        \/ \E s \in Session : row[s].status = "RateLimited" /\ HoldsSlot(s)'
                        \/ \E s \in Session : ~IsLive(s) /\ Agent(s)
           A == {s \in Session : HoldsSlot(s)}
           B == {s \in Session : HoldsSlot(s)'}
<1>1. ASSUME SInv, [Next]_vars PROVE Granted
  <2>1. Held = Cardinality(A) /\ Held' = Cardinality(B)
    BY DEF Held
  <2>2. CASE NoClaims
    <3>1. A = B
      BY <2>2 DEF NoClaims, HoldsSlot, IsLive
    <3>2. Held' = Held
      BY <2>1, <3>1
    <3>3. Held \in Nat
      BY <2>1, OneMore
    <3> QED
      BY <3>2, <3>3
  <2>3. ASSUME NEW s, OnlyClaimOf(s) PROVE Granted
    <3>1. A \ {s} = B \ {s}
      BY <2>3 DEF OnlyClaimOf, HoldsSlot, IsLive
    <3> HIDE DEF A, B
    <3>2. /\ Held \in Nat /\ Held' \in Nat /\ Held' <= Held + 1
          /\ s \in A \/ s \notin B => Held' <= Held
      <4>1. A \in SUBSET Session /\ B \in SUBSET Session
        BY DEF A, B
      <4> QED
        BY <2>1, <3>1, <4>1, OneMore
    <3>3. CASE s \in A \/ s \notin B
      BY <3>2, <3>3
    <3>4. CASE s \notin A /\ s \in B
      <4>1. s \in Session /\ HoldsSlot(s)' /\ ~HoldsSlot(s)
        BY <3>4 DEF A, B
      <4>2. s \in entries' /\ row'[s].status \in Live
        BY <4>1 DEF HoldsSlot, IsLive
      <4>3. CASE IsLive(s)
        BY <4>1, <4>3 DEF HoldsSlot
      <4>4. CASE ~Full
        <5>1. ~(Held >= cap) /\ cap \in Nat
          BY <1>1, <4>4 DEF Full, Held, SInv, IInv, TypeOK
        <5> QED
          BY <3>2, <5>1
      <4>5. CASE ~IsLive(s) /\ Agent(s)
        BY <4>1, <4>5
      <4> QED
        BY <2>3, <4>2, <4>3, <4>4, <4>5 DEF OnlyClaimOf, Claims
    <3> QED
      BY <3>3, <3>4
  <2> QED
    BY <1>1, <2>2, <2>3, NextClaims
<1>2. Spec => [][Granted]_vars
  BY <1>1, SInvKept, PTL DEF Spec
<1> QED
  BY <1>2 DEF NoOvercommit

-----------------------------------------------------------------------------
(* The queue: what stays when a row leaves it.                             *)

\* A set of natural numbers up to n that has 0, and every number after one of
\* its own, has them all: induction, for want of a predicate as a parameter.
LEMMA UpTo ==
    ASSUME NEW n \in Nat, NEW T \in SUBSET (0..n), 0 \in T,
           \A m \in 1..n : m - 1 \in T => m \in T
    PROVE  \A m \in 0..n : m \in T
<1> DEFINE R == {ss \in Nat \X Nat : ss[1] < ss[2]}
           U == (0..n) \ T
<1> SUFFICES ASSUME U # {} PROVE FALSE
  OBVIOUS
<1>1. IsWellFoundedOn(R, Nat)
  BY NatLessThanWellFounded DEF OpToRel
<1>2. \A x, y \in Nat : x < y => <<x, y>> \in R
  OBVIOUS
<1> HIDE DEF R
<1>3. U \subseteq Nat
  OBVIOUS
<1>4. PICK m \in U : \A y \in U : ~(<<y, m>> \in R)
  BY <1>1, <1>3, WFMin
<1>5. m \in 1..n /\ m - 1 \notin T
  OBVIOUS
<1>6. m - 1 \in U
  BY <1>5
<1>7. m - 1 \in Nat /\ m \in Nat /\ m - 1 < m
  BY <1>5
<1>8. <<m - 1, m>> \in R
  BY <1>2, <1>7
<1> QED
  BY <1>4, <1>6, <1>8

LEMMA AppendRange ==
    ASSUME NEW S, NEW k \in Seq(S), NEW e \in S
    PROVE  Append(k, e) \in Seq(S) /\ Range(Append(k, e)) = Range(k) \cup {e}
<1> DEFINE l == Append(k, e)
<1>1. l \in Seq(S) /\ Len(l) = Len(k) + 1 /\ Len(k) \in Nat
  OBVIOUS
<1>2. l[Len(l)] = e /\ \A j \in 1..Len(k) : l[j] = k[j]
  OBVIOUS
<1>3. DOMAIN l = 1..Len(l) /\ DOMAIN k = 1..Len(k)
  BY <1>1
<1>4. \A j : j \in 1..Len(l) <=> j \in 1..Len(k) \/ j = Len(l)
  BY <1>1
<1> HIDE DEF l
<1>5. Range(l) = Range(k) \cup {e}
  BY <1>2, <1>3, <1>4 DEF Range
<1> QED
  BY <1>1, <1>5 DEF l

LEMMA TailRange ==
    ASSUME NEW S, NEW k \in Seq(S), k # <<>>
    PROVE  /\ Head(k) \in S /\ Tail(k) \in Seq(S)
           /\ Range(k) \subseteq Range(Tail(k)) \cup {Head(k)}
<1> DEFINE l == Tail(k)
<1>1. Head(k) \in S /\ l \in Seq(S) /\ Len(l) = Len(k) - 1 /\ Len(k) \in Nat \ {0}
  OBVIOUS
<1>2. k[1] = Head(k) /\ \A j \in 1..(Len(k) - 1) : l[j] = k[j+1]
  OBVIOUS
<1>3. DOMAIN l = 1..(Len(k) - 1) /\ DOMAIN k = 1..Len(k)
  BY <1>1
<1> HIDE DEF l
<1>4. ASSUME NEW j \in DOMAIN k
      PROVE  k[j] = Head(k) \/ \E i \in DOMAIN l : l[i] = k[j]
  <2>1. CASE j = 1
    BY <1>2, <2>1
  <2>2. CASE j # 1
    <3>1. j - 1 \in DOMAIN l /\ j = (j - 1) + 1
      BY <1>1, <1>3, <2>2
    <3>2. l[j - 1] = k[j]
      BY <1>2, <1>3, <3>1
    <3> QED
      BY <3>1, <3>2
  <2> QED
    BY <2>1, <2>2
<1>5. Range(k) \subseteq Range(l) \cup {Head(k)}
  BY <1>4 DEF Range
<1> QED
  BY <1>1, <1>5 DEF l

LEMMA WithoutFacts ==
    ASSUME NEW S, NEW q \in Seq(S), NEW s
    PROVE  Without(q, s) \in Seq(S) /\ Range(Without(q, s)) = Range(q) \ {s}
<1> DEFINE n == Len(q)
           body(f, i) == IF i = 0 THEN <<>>
                         ELSE IF q[i] = s THEN f[i-1]
                         ELSE Append(f[i-1], q[i])
           IsKept(f, m) == f = [i \in 0..m |-> body(f, i)]
<1>0. n \in Nat /\ \A i \in 1..n : q[i] \in S
  OBVIOUS
<1>1. /\ \A f, g : \A i \in Nat : i = 0 \/ f[i-1] = g[i-1] => body(f, i) = body(g, i)
      /\ \A f : body(f, 0) = <<>>
      /\ \A f : \A i \in Nat \ {0} : body(f, i) = IF q[i] = s THEN f[i-1] ELSE Append(f[i-1], q[i])
  OBVIOUS
<1>2. Without(q, s) = (CHOOSE f : IsKept(f, n))[n]
  BY DEF Without
<1> HIDE DEF body
<1>3. \E f : IsKept(f, n)
  <2> DEFINE T == {m \in 0..n : \E f : IsKept(f, m)}
  <2>1. 0 \in T
    <3> DEFINE f == [i \in 0..0 |-> <<>>]
    <3>1. \A i \in 0..0 : body(f, i) = f[i]
      BY <1>1
    <3>2. f = [i \in 0..0 |-> body(f, i)]
      BY <3>1
    <3>3. IsKept(f, 0)
      BY <3>2
    <3>4. 0 \in 0..n
      BY <1>0
    <3> QED
      BY <3>3, <3>4
  <2>2. ASSUME NEW m \in 1..n, m - 1 \in T
        PROVE  m \in T
    <3>1. PICK g : IsKept(g, m - 1)
      BY <2>2
    <3>2. \A i \in 0..(m-1) : g[i] = body(g, i)
      BY <3>1
    <3> DEFINE f == [i \in 0..m |-> body(g, i)]
    <3>3. \A i \in 0..(m-1) : i \in 0..m /\ f[i] = g[i]
      BY <3>2
    <3>4. ASSUME NEW i \in 0..m PROVE body(g, i) = body(f, i)
      <4>1. i # 0 => i - 1 \in 0..(m-1)
        OBVIOUS
      <4>2. i # 0 => f[i-1] = g[i-1]
        BY <3>3, <4>1
      <4> HIDE DEF f
      <4> QED
        BY <1>1, <4>2
    <3>5. f = [i \in 0..m |-> body(f, i)]
      BY <3>4
    <3>6. IsKept(f, m)
      BY <3>5
    <3>7. m \in 0..n
      OBVIOUS
    <3> QED
      BY <3>6, <3>7
  <2>3. T \in SUBSET (0..n) /\ n \in 0..n
    BY <1>0
  <2> HIDE DEF T
  <2>4. n \in T
    BY <1>0, <2>1, <2>2, <2>3, UpTo
  <2> QED
    BY <2>4 DEF T
<1> DEFINE kept == CHOOSE f : IsKept(f, n)
<1>4. IsKept(kept, n)
  <2> HIDE DEF IsKept
  <2> QED
    BY <1>3
<1>5. Without(q, s) = kept[n]
  BY <1>2
<1> HIDE DEF kept
<1>6. \A i \in 0..n : kept[i] = body(kept, i)
  BY <1>4
<1>7. kept[0] = <<>>
  BY <1>0, <1>1, <1>6
<1>8. \A i \in 1..n : kept[i] = IF q[i] = s THEN kept[i-1] ELSE Append(kept[i-1], q[i])
  <2>1. ASSUME NEW i \in 1..n
        PROVE  kept[i] = IF q[i] = s THEN kept[i-1] ELSE Append(kept[i-1], q[i])
    <3>1. i \in 0..n /\ i \in Nat \ {0}
      BY <1>0
    <3>2. kept[i] = body(kept, i)
      BY <1>6, <3>1
    <3>3. body(kept, i) = IF q[i] = s THEN kept[i-1] ELSE Append(kept[i-1], q[i])
      BY <1>1, <3>1
    <3> QED
      BY <3>2, <3>3
  <2> QED
    BY <2>1
<1> HIDE DEF IsKept
<1> DEFINE Holds(i) == /\ kept[i] \in Seq(S)
                       /\ Range(kept[i]) = {q[j] : j \in 1..i} \ {s}
           T == {i \in 0..n : Holds(i)}
<1>9. 0 \in T
  <2>1. <<>> \in Seq(S) /\ Range(<<>>) = {} /\ 1..0 = {} /\ 0 \in 0..n
    BY <1>0 DEF Range
  <2> QED
    BY <1>7, <2>1
<1>10. ASSUME NEW m \in 1..n, m - 1 \in T
       PROVE  m \in T
  <2> DEFINE k == kept[m-1]
  <2>1. k \in Seq(S) /\ Range(k) = {q[j] : j \in 1..(m-1)} \ {s}
    BY <1>10
  <2>2. \A j : j \in 1..m <=> j \in 1..(m-1) \/ j = m
    BY <1>0
  <2>3. {q[j] : j \in 1..m} = {q[j] : j \in 1..(m-1)} \cup {q[m]}
    BY <2>2
  <2>4. kept[m] = IF q[m] = s THEN k ELSE Append(k, q[m])
    BY <1>8
  <2>5. q[m] \in S /\ m \in 0..n
    BY <1>0
  <2> HIDE DEF k
  <2>6. CASE q[m] = s
    BY <2>1, <2>3, <2>4, <2>5, <2>6
  <2>7. CASE q[m] # s
    <3> DEFINE l == Append(k, q[m])
    <3>1. l \in Seq(S) /\ Range(l) = Range(k) \cup {q[m]}
      BY <2>1, <2>5, AppendRange
    <3> HIDE DEF l
    <3>2. kept[m] = l
      BY <2>4, <2>7 DEF l
    <3>3. Range(l) = {q[j] : j \in 1..m} \ {s}
      BY <2>1, <2>3, <2>7, <3>1
    <3> QED
      BY <2>5, <3>1, <3>2, <3>3
  <2> QED
    BY <2>6, <2>7
<1>11. T \in SUBSET (0..n) /\ n \in 0..n /\ Range(q) = {q[j] : j \in 1..n}
  BY <1>0 DEF Range
<1>12. n \in T
  <2> HIDE DEF T
  <2> QED
    BY <1>0, <1>9, <1>10, <1>11, UpTo
<1> QED
  BY <1>5, <1>11, <1>12

-----------------------------------------------------------------------------
(* Attendance.  A row that waits for a thread is attended: the thread is   *)
(* there, with the row's own generation.  A thread that leaves has moved   *)
(* the row on, or has become the next thread the row waits for.            *)

Attended(s) ==
    /\ row[s].phase = "Preparing" /\ ~row[s].stop =>
          \E w \in starters : w.id = s /\ w.gen = row[s].gen
    /\ row[s].phase = "TearingDown" =>
          \/ row[s].pty # 0
          \/ \E t \in teardowns : t.id = s /\ t.gen = row[s].gen
    /\ row[s].phase = "Backoff" /\ ~row[s].stop =>
          \/ <<s, row[s].gen>> \in timers
          \/ \E d \in drains : d.id = s /\ d.gen = row[s].gen
    /\ row[s].phase = "Backoff" => row[s].pty = 0
    /\ row[s].status = "Queued" => s \in Range(queue)

Attendance ==
    /\ queue \in Seq(Session)
    /\ \A s \in entries : Attended(s)
    /\ \A t \in teardowns : t.final \notin {"Preparing", "TearingDown"}

AInv == IInv /\ Attendance

\* A row with the fields of q waits for nobody.
Rests(q) == q.phase \notin {"Preparing", "TearingDown", "Backoff"} /\ q.status # "Queued"

\* The threads of every row but s stay, or hand over.
OthersStay(s) ==
    /\ \A w \in starters : w.id # s => \E v \in starters' : v.id = w.id /\ v.gen = w.gen
    /\ \A t \in teardowns : t.id # s => t \in teardowns'
    /\ \A p \in timers : p[1] # s => p \in timers'
    /\ \A d \in drains : d.id \notin {s, Operator} => d \in drains'
    /\ Range(queue) \ {s} \subseteq Range(queue')

\* All threads stay.
AllStay ==
    /\ \A w \in starters : \E v \in starters' : v.id = w.id /\ v.gen = w.gen
    /\ teardowns \subseteq teardowns' /\ timers \subseteq timers' /\ drains \subseteq drains'
    /\ queue' = queue

LEMMA AllMeansOthers ==
    ASSUME AllStay, NEW s
    PROVE  OthersStay(s)
BY DEF AllStay, OthersStay

\* A step about one row, or about none if row s is as it was.
LEMMA AttendanceKeeps ==
    ASSUME AInv, NEW s \in Session,
           \A t \in Session \ {s} : row'[t] = row[t] /\ (t \in entries' => t \in entries),
           entries' \subseteq Session, OthersStay(s),
           s \in entries' => Attended(s)',
           queue' \in Seq(Session),
           \A t \in teardowns' \ teardowns : t.final \notin {"Preparing", "TearingDown"}
    PROVE  Attendance'
<1>0. Attendance /\ Operator \notin Session
  BY ConstantsAssumption DEF AInv
<1>1. ASSUME NEW t \in entries', t # s PROVE Attended(t)'
  <2>1. t \in Session /\ row'[t] = row[t] /\ t \in entries /\ Attended(t) /\ t # Operator
    BY <1>0, <1>1 DEF Attendance
  <2> DEFINE r == row[t]
  <2>2. r.phase = "Preparing" /\ ~r.stop => \E w \in starters' : w.id = t /\ w.gen = r.gen
    BY <1>1, <2>1 DEF Attended, OthersStay
  <2>3. r.phase = "TearingDown" =>
            r.pty # 0 \/ \E x \in teardowns' : x.id = t /\ x.gen = r.gen
    BY <1>1, <2>1 DEF Attended, OthersStay
  <2>4. r.phase = "Backoff" /\ ~r.stop =>
            <<t, r.gen>> \in timers' \/ \E d \in drains' : d.id = t /\ d.gen = r.gen
    <3>1. <<t, r.gen>> \in timers => <<t, r.gen>> \in timers'
      BY <1>1 DEF OthersStay
    <3>2. \A d \in drains : d.id = t => d \in drains'
      BY <1>1, <2>1 DEF OthersStay
    <3> QED
      BY <2>1, <3>1, <3>2 DEF Attended
  <2>5. /\ r.phase = "Backoff" => r.pty = 0
        /\ r.status = "Queued" => t \in Range(queue')
    BY <1>1, <2>1 DEF Attended, OthersStay
  <2> HIDE DEF r
  <2> QED
    BY <2>1, <2>2, <2>3, <2>4, <2>5 DEF Attended, r
<1>2. \A t \in entries' : Attended(t)'
  BY <1>1
<1>3. \A t \in teardowns' : t.final \notin {"Preparing", "TearingDown"}
  BY <1>0 DEF Attendance
<1> QED
  BY <1>2, <1>3 DEF Attendance

\* Its row rests, or is as it was, and all threads stay.
LEMMA AttendanceRests ==
    ASSUME AInv, NEW s \in Session, NEW q, row' = [row EXCEPT ![s] = q],
           entries' = entries, AllStay, teardowns' = teardowns,
           \/ Rests(q)
           \/ /\ s \in entries /\ (q.stop \/ q.stop = row[s].stop)
              /\ q.gen = row[s].gen /\ q.status = row[s].status /\ q.pty = row[s].pty
              /\ q.phase = row[s].phase
    PROVE  Attendance'
<1>0. row \in [Session -> Row] /\ entries \subseteq Session /\ Attendance
  BY DEF AInv, IInv, TypeOK
<1>1. row'[s] = q /\ \A t \in Session \ {s} : row'[t] = row[t]
  BY <1>0
<1>2. CASE Rests(q)
  <2>1. Attended(s)'
    BY <1>1, <1>2 DEF Attended, Rests
  <2> QED
    BY <1>0, <1>1, <2>1, AllMeansOthers, AttendanceKeeps DEF Attendance, AllStay
<1>3. CASE /\ s \in entries /\ (q.stop \/ q.stop = row[s].stop)
           /\ q.gen = row[s].gen /\ q.status = row[s].status /\ q.pty = row[s].pty
           /\ q.phase = row[s].phase
  <2>1. Attended(s)
    BY <1>0, <1>3 DEF Attendance
  <2>2. Attended(s)'
    BY <1>1, <1>3, <2>1 DEF Attended, AllStay
  <2> QED
    BY <1>0, <1>1, <2>2, AllMeansOthers, AttendanceKeeps DEF Attendance, AllStay
<1> QED
  BY <1>2, <1>3

LEMMA QueueGrows ==
    ASSUME queue \in Seq(Session), NEW s \in Session, queue' = Append(queue, s)
    PROVE  /\ queue' \in Seq(Session)
           /\ s \in Range(queue') /\ Range(queue) \subseteq Range(queue')
<1>1. /\ Append(queue, s) \in Seq(Session)
      /\ Range(Append(queue, s)) = Range(queue) \cup {s}
  BY AppendRange
<1> QED
  BY <1>1

LEMMA QueueShrinks ==
    ASSUME queue \in Seq(Session), NEW s, queue' \in {queue, Without(queue, s)}
    PROVE  /\ queue' \in Seq(Session)
           /\ Range(queue) \ {s} \subseteq Range(queue')
<1>1. CASE queue' = queue
  BY <1>1
<1>2. CASE queue' = Without(queue, s)
  <2>1. Without(queue, s) \in Seq(Session) /\ Range(Without(queue, s)) = Range(queue) \ {s}
    BY WithoutFacts
  <2> QED
    BY <1>2, <2>1
<1> QED
  BY <1>1, <1>2

\* A row is started: the gate has let it in, and a worker is born with it.
LEMMA StartAttended ==
    ASSUME AInv, NEW s \in Session, NEW q, row' = [row EXCEPT ![s] = q],
           q.phase = "Preparing", q.status # "Queued",
           NEW via, Start(s, q.gen, via),
           entries' \subseteq entries \cup {s},
           queue' \in Seq(Session), Range(queue) \ {s} \subseteq Range(queue'),
           \A p \in timers : p[1] # s => p \in timers',
           UNCHANGED <<teardowns, drains>>
    PROVE  Attendance'
<1>0. row \in [Session -> Row] /\ entries \subseteq Session
  BY DEF AInv, IInv, TypeOK
<1>1. row'[s] = q /\ \A t \in Session \ {s} : row'[t] = row[t]
  BY <1>0
<1>2. PICK w \in Worker(s, q.gen, via) : starters' = starters \cup {w}
  BY DEF Start
<1>3. w.id = s /\ w.gen = q.gen
  BY DEF Worker
<1>4. Attended(s)'
  BY <1>1, <1>2, <1>3 DEF Attended
<1>5. OthersStay(s)
  BY <1>2 DEF OthersStay
<1> QED
  BY <1>0, <1>1, <1>4, <1>5, AttendanceKeeps

\* A row is queued.
LEMMA QueuedAttended ==
    ASSUME AInv, NEW s \in Session, NEW q, row' = [row EXCEPT ![s] = q],
           q.phase \notin {"Preparing", "TearingDown", "Backoff"},
           entries' \subseteq entries \cup {s}, queue' = Append(queue, s),
           UNCHANGED <<starters, teardowns, drains, timers>>
    PROVE  Attendance'
<1>0. row \in [Session -> Row] /\ entries \subseteq Session /\ queue \in Seq(Session)
  BY DEF AInv, IInv, TypeOK, Attendance
<1>1. row'[s] = q /\ \A t \in Session \ {s} : row'[t] = row[t]
  BY <1>0
<1>2. queue' \in Seq(Session) /\ s \in Range(queue') /\ Range(queue) \subseteq Range(queue')
  BY <1>0, QueueGrows
<1>3. Attended(s)'
  BY <1>1, <1>2 DEF Attended
<1>4. OthersStay(s)
  BY <1>2 DEF OthersStay
<1> QED
  BY <1>0, <1>1, <1>2, <1>3, <1>4, AttendanceKeeps

LEMMA RequestAttended ==
    ASSUME AInv, NEW s \in Session, Request(s)
    PROVE  Attendance'
<1>0. TypeOK /\ Attendance /\ row[s] \in Row /\ row \in [Session -> Row] /\ queue \in Seq(Session)
  BY DEF AInv, IInv, TypeOK, Attendance
<1>1. CASE Launch(s)
  <2>1. entries' = entries \cup {s} /\ UNCHANGED <<teardowns, drains, timers>>
    BY <1>1 DEF Launch
  <2>2. CASE Full
    <3> DEFINE q == SetStatus(Blank, "Queued")
    <3>1. q.phase \notin {"Preparing", "TearingDown", "Backoff"}
      BY BlankType, StatusTypes, SetStatusFields
    <3>2. /\ row' = [row EXCEPT ![s] = q] /\ queue' = Append(queue, s)
          /\ starters' = starters
      BY <1>1, <2>2 DEF Launch
    <3> HIDE DEF q
    <3> QED
      BY <2>1, <3>1, <3>2, QueuedAttended
  <2>3. CASE ~Full
    <3> DEFINE q == [Blank EXCEPT !.phase = "Preparing"]
    <3>1. q.phase = "Preparing" /\ q.status = "Starting" /\ q.gen = 1
      BY DEF Blank
    <3>2. row' = [row EXCEPT ![s] = q] /\ queue' = queue /\ Start(s, 1, "launch")
      BY <1>1, <2>3 DEF Launch
    <3> HIDE DEF q
    <3>3. Start(s, q.gen, "launch")
      BY <3>1, <3>2
    <3>4. Range(queue) \subseteq Range(queue')
      BY <3>2
    <3> QED
      BY <1>0, <2>1, <3>1, <3>2, <3>3, <3>4, StartAttended
  <2> QED
    BY <2>2, <2>3
<1>2. CASE Revive(s)
  <2> DEFINE r == [row[s] EXCEPT !.stop = FALSE]
  <2>1. /\ entries' = entries /\ UNCHANGED <<teardowns, drains, timers>>
        /\ IF Full
           THEN /\ row' = [row EXCEPT ![s] = SetStatus(NextGen(r), "Queued")]
                /\ queue' = Append(queue, s) /\ starters' = starters
           ELSE /\ row' = [row EXCEPT ![s] = [Prepare(r) EXCEPT !.restarts = 0]]
                /\ Start(s, r.gen + 1, "revive") /\ queue' = queue
    BY <1>2 DEF Revive
  <2>2. r \in Row
    BY <1>0 DEF Row
  <2> HIDE DEF r
  <2>3. CASE Full
    <3> DEFINE q == SetStatus(NextGen(r), "Queued")
    <3>1. NextGen(r) \in Row
      BY <2>2, NextGenFields
    <3>2. q.phase \notin {"Preparing", "TearingDown", "Backoff"}
      BY <3>1, StatusTypes, SetStatusFields
    <3>3. /\ row' = [row EXCEPT ![s] = q] /\ queue' = Append(queue, s)
          /\ starters' = starters
      BY <2>1, <2>3
    <3> HIDE DEF q
    <3> QED
      BY <2>1, <3>2, <3>3, QueuedAttended
  <2>4. CASE ~Full
    <3> DEFINE q == [Prepare(r) EXCEPT !.restarts = 0]
    <3>1. /\ Prepare(r) \in Row /\ Prepare(r).gen = r.gen + 1
          /\ Prepare(r).phase = "Preparing" /\ Prepare(r).status = "Starting"
      BY <2>2, PrepareFields
    <3>2. q.phase = "Preparing" /\ q.status = "Starting" /\ q.gen = r.gen + 1
      BY <3>1 DEF Row
    <3>3. row' = [row EXCEPT ![s] = q] /\ queue' = queue /\ Start(s, r.gen + 1, "revive")
      BY <2>1, <2>4
    <3> HIDE DEF q
    <3>4. Start(s, q.gen, "revive")
      BY <3>2, <3>3
    <3>5. Range(queue) \subseteq Range(queue')
      BY <3>3
    <3> QED
      BY <1>0, <2>1, <3>2, <3>3, <3>4, <3>5, StartAttended
  <2> QED
    BY <2>3, <2>4
<1>3. CASE Archive(s)
  <2>1. /\ entries' = entries \ {s} /\ row' = [row EXCEPT ![s] = Blank]
        /\ queue' = Without(queue, s) /\ drains \subseteq drains'
        /\ UNCHANGED <<starters, teardowns, timers>>
    BY <1>3 DEF Archive, Drain
  <2>2. queue' \in Seq(Session) /\ Range(queue) \ {s} \subseteq Range(queue')
    <3>1. queue' \in {queue, Without(queue, s)}
      BY <2>1
    <3> QED
      BY <1>0, <3>1, QueueShrinks
  <2>3. OthersStay(s)
    BY <2>1, <2>2 DEF OthersStay
  <2>4. \A t \in Session \ {s} : row'[t] = row[t]
    BY <1>0, <2>1
  <2>5. entries' \subseteq Session /\ s \notin entries' /\ entries' \subseteq entries
    BY <1>0, <2>1 DEF TypeOK
  <2> QED
    BY <2>1, <2>2, <2>3, <2>4, <2>5, AttendanceKeeps
<1>4. CASE KillProcess(s)
  <2>1. PICK b \in BOOLEAN : row' = [row EXCEPT ![s].stop = b, ![s].phase = "TearingDown"]
    BY <1>4 DEF KillProcess
  <2> DEFINE q == [row[s] EXCEPT !.stop = b, !.phase = "TearingDown"]
  <2>2. /\ row' = [row EXCEPT ![s] = q] /\ q.phase = "TearingDown"
        /\ q.pty = row[s].pty /\ q.status = row[s].status
    BY <1>0, <2>1 DEF Row
  <2> HIDE DEF q
  <2>3. /\ s \in entries /\ entries' = entries /\ row[s].pty # 0
        /\ UNCHANGED <<starters, teardowns, drains, timers, queue>>
    BY <1>4 DEF KillProcess
  <2>4. AllStay
    BY <2>3 DEF AllStay
  <2>5. row'[s] = q /\ \A t \in Session \ {s} : row'[t] = row[t]
    BY <1>0, <2>2
  <2>6. q.status # "Queued"
    BY <2>2, <2>3 DEF AInv, IInv, Core, QueuedOwnsNothing
  <2>7. Attended(s)'
    BY <2>2, <2>3, <2>5, <2>6 DEF Attended
  <2>8. entries' \subseteq Session
    BY <1>0, <2>3 DEF TypeOK
  <2> QED
    BY <1>0, <2>3, <2>4, <2>5, <2>7, <2>8, AllMeansOthers, AttendanceKeeps
<1>5. CASE KillPending(s)
  <2> DEFINE r == [row[s] EXCEPT !.stop = TRUE]
             q == Retire(r)
  <2>1. r \in Row
    BY <1>0 DEF Row
  <2>2. /\ row' = [row EXCEPT ![s] = q] /\ entries' = entries
        /\ queue' \in {queue, Without(queue, s)} /\ drains \subseteq drains'
        /\ UNCHANGED <<starters, teardowns, timers>>
    BY <1>5 DEF KillPending, Drain
  <2> HIDE DEF r
  <2>3. q.phase \notin {"Preparing", "Backoff", "TearingDown"} /\ q.status = "Exited"
    BY <2>1, RetireFields
  <2> HIDE DEF q
  <2>4. queue' \in Seq(Session) /\ Range(queue) \ {s} \subseteq Range(queue')
    BY <1>0, <2>2, QueueShrinks
  <2>5. OthersStay(s)
    BY <2>2, <2>4 DEF OthersStay
  <2>6. row'[s] = q /\ \A t \in Session \ {s} : row'[t] = row[t]
    BY <1>0, <2>2
  <2>7. Attended(s)'
    BY <2>3, <2>6 DEF Attended
  <2>8. entries' \subseteq Session
    BY <1>0, <2>2 DEF TypeOK
  <2> QED
    BY <2>2, <2>4, <2>5, <2>6, <2>7, <2>8, AttendanceKeeps
<1>6. CASE KillNothing(s)
  <2> DEFINE q == [row[s] EXCEPT !.stop = TRUE]
  <2>1. /\ q.pty = row[s].pty /\ q.phase = row[s].phase /\ q.status = row[s].status
        /\ q.gen = row[s].gen /\ q.stop
    BY <1>0 DEF Row
  <2>2. /\ row' = [row EXCEPT ![s] = q] /\ s \in entries /\ entries' = entries
        /\ UNCHANGED <<starters, teardowns, drains, timers, queue>>
    BY <1>0, <1>6 DEF KillNothing
  <2> HIDE DEF q
  <2>3. AllStay
    BY <2>2 DEF AllStay
  <2> QED
    BY <2>1, <2>2, <2>3, AttendanceRests
<1> QED
  BY <1>1, <1>2, <1>3, <1>4, <1>5, <1>6 DEF Request

LEMMA AgentAttended ==
    ASSUME AInv, NEW s \in Session, Agent(s)
    PROVE  Attendance'
<1>0. row[s] \in Row /\ row \in [Session -> Row]
  BY DEF AInv, IInv, TypeOK
<1>1. /\ s \in entries /\ entries' = entries
      /\ UNCHANGED <<starters, teardowns, drains, timers, queue>>
  BY DEF Agent, HandleOutput, MatchHook, SessionStart, ApplyHook
<1>2. AllStay
  BY <1>1 DEF AllStay
<1>3. ASSUME NEW st \in Reports \cup {"Idle"}, row' = [row EXCEPT ![s] = Report(row[s], st)],
             row[s].status # st
      PROVE  Attendance'
  <2> DEFINE q == Report(row[s], st)
  <2>1. st \in Status /\ st # "Queued"
    BY StatusTypes, LiveStatuses
  <2>2. q = SetStatus(row[s], st)
    BY <1>3 DEF Report
  <2>3. Rests(q)
    BY <1>0, <2>1, <2>2, SetStatusFields DEF Rests
  <2>4. row' = [row EXCEPT ![s] = q]
    BY <1>3
  <2> HIDE DEF q
  <2> QED
    BY <1>1, <1>2, <2>3, <2>4, AttendanceRests
<1>4. CASE HandleOutput(s)
  BY <1>3, <1>4 DEF HandleOutput
<1>5. ASSUME NEW st \in Reports, ApplyHook(s, st) PROVE Attendance'
  BY <1>3, <1>5 DEF ApplyHook
<1>6. CASE SessionStart(s)
  <2> DEFINE q == [row[s] EXCEPT !.resume = TRUE]
  <2>1. /\ q.pty = row[s].pty /\ q.phase = row[s].phase /\ q.status = row[s].status
        /\ q.gen = row[s].gen /\ q.stop = row[s].stop
    BY <1>0 DEF Row
  <2>2. row' = [row EXCEPT ![s] = q]
    BY <1>0, <1>6 DEF SessionStart
  <2> HIDE DEF q
  <2> QED
    BY <1>1, <1>2, <2>1, <2>2, AttendanceRests
<1>7. CASE MatchHook(s)
  <2>1. row' = [row EXCEPT ![s] = row[s]]
    BY <1>0, <1>7 DEF MatchHook
  <2> QED
    BY <1>1, <1>2, <2>1, AttendanceRests
<1> QED
  BY <1>4, <1>5, <1>6, <1>7 DEF Agent

\* Worker w moves on, for its own row.
LEMMA MoveAttended ==
    ASSUME AInv, NEW w \in starters, NEW at, Move(w, at),
           UNCHANGED <<entries, row, teardowns, drains, timers, queue>>
    PROVE  Attendance'
<1>0. Attendance /\ w.id = [w EXCEPT !.at = at].id /\ w.gen = [w EXCEPT !.at = at].gen
  BY DEF AInv, IInv, TypeOK, Starter
<1>1. \A v \in starters : \E u \in starters' : u.id = v.id /\ u.gen = v.gen
  BY <1>0 DEF Move
<1>2. \A s \in entries : Attended(s)'
  BY <1>0, <1>1 DEF Attendance, Attended
<1> QED
  BY <1>0, <1>2 DEF Attendance

\* Worker w leaves a row that does not wait for it, or any more.
LEMMA WorkerLeaves ==
    ASSUME AInv, NEW w \in starters, starters' = starters \ {w},
           entries' = entries, timers \subseteq timers', drains \subseteq drains',
           UNCHANGED <<teardowns, queue>>,
           \/ /\ row' = row
              /\ \/ ~Current(w.id, w.gen)
                 \/ row[w.id].stop \/ row[w.id].pty # 0 \/ row[w.id].phase # "Preparing"
           \/ \E q : /\ row' = [row EXCEPT ![w.id] = q] /\ q.status # "Queued"
                     /\ q.phase \notin {"Preparing", "TearingDown"}
                     /\ q.phase = "Backoff" => q.pty = 0 /\ <<w.id, q.gen>> \in timers'
    PROVE  Attendance'
<1>0. /\ row \in [Session -> Row] /\ Attendance /\ w.id \in Session
      /\ entries \subseteq Session /\ StartsBeforeProcess
  BY DEF AInv, IInv, TypeOK, Starter, Core
<1>1. \A t \in Session \ {w.id} : row'[t] = row[t]
  BY <1>0
<1>2. OthersStay(w.id)
  BY DEF OthersStay
<1>3. ASSUME w.id \in entries PROVE Attended(w.id)'
  <2>1. CASE /\ row' = row
             /\ \/ ~Current(w.id, w.gen)
                \/ row[w.id].stop \/ row[w.id].pty # 0 \/ row[w.id].phase # "Preparing"
    <3>1. Attended(w.id)
      BY <1>0, <1>3 DEF Attendance
    <3>2. Current(w.id, w.gen) => row[w.id].pty = 0
      BY <1>0 DEF StartsBeforeProcess
    <3>3. row[w.id].phase = "Preparing" /\ ~row[w.id].stop =>
              \E v \in starters' : v.id = w.id /\ v.gen = row[w.id].gen
      BY <1>3, <2>1, <3>1, <3>2 DEF Attended, Current
    <3> QED
      BY <2>1, <3>1, <3>3 DEF Attended
  <2>2. ASSUME NEW q, row' = [row EXCEPT ![w.id] = q], q.status # "Queued",
               q.phase \notin {"Preparing", "TearingDown"},
               q.phase = "Backoff" => q.pty = 0 /\ <<w.id, q.gen>> \in timers'
        PROVE  Attended(w.id)'
    <3>1. row'[w.id] = q
      BY <1>0, <2>2
    <3> QED
      BY <2>2, <3>1 DEF Attended
  <2> QED
    BY <2>1, <2>2
<1> QED
  BY <1>0, <1>1, <1>2, <1>3, AttendanceKeeps DEF Attendance

LEMMA StartWorkerAttended ==
    ASSUME AInv, NEW w \in starters, StartWorker(w)
    PROVE  Attendance'
<1>0. /\ TypeOK /\ row \in [Session -> Row] /\ Attendance /\ w.id \in Session
      /\ row[w.id] \in Row /\ entries \subseteq Session /\ StartsBeforeProcess
  BY DEF AInv, IInv, TypeOK, Starter, Core
<1>1. CASE SetupFails(w)
  BY <1>1, MoveAttended DEF SetupFails
<1>2. CASE StartIsCurrent(w) \/ SpawnPty(w)
  BY <1>2, MoveAttended DEF StartIsCurrent, SpawnPty
<1>3. CASE Accept(w)
  <2>1. UNCHANGED <<entries, teardowns, drains, timers, queue>>
    BY <1>3 DEF Accept
  <2>2. CASE row' = row /\ Move(w, "unwind")
    BY <2>1, <2>2, MoveAttended
  <2>3. CASE /\ row' = [row EXCEPT ![w.id] =
                          [SetStatus(row[w.id], "Starting") EXCEPT !.pty = w.gen, !.torn = FALSE]]
             /\ starters' = starters \ {w}
    <3> DEFINE r == SetStatus(row[w.id], "Starting")
               q == [r EXCEPT !.pty = w.gen, !.torn = FALSE]
    <3>1. r \in Row /\ r.status = "Starting" /\ r.phase \notin {"Preparing", "TearingDown", "Backoff"}
      BY <1>0, StatusTypes, SetStatusFields
    <3>2. row' = [row EXCEPT ![w.id] = q]
      BY <2>3
    <3> HIDE DEF r
    <3>3. q.status = "Starting" /\ q.phase \notin {"Preparing", "TearingDown", "Backoff"}
      BY <3>1 DEF Row
    <3> HIDE DEF q
    <3> QED
      BY <2>1, <2>3, <3>2, <3>3, WorkerLeaves
  <2> QED
    BY <1>3, <2>2, <2>3 DEF Accept
<1>4. CASE FinishStartFailure(w)
  <2> DEFINE r == SetStatus(row[w.id], "Exited")
             q == [r EXCEPT !.phase = "Failed"]
  <2>1. /\ UNCHANGED <<entries, teardowns, timers, queue>> /\ drains \subseteq drains'
        /\ starters' = starters \ {w}
    BY <1>4 DEF FinishStartFailure, Drain
  <2>2. \/ /\ row' = row
           /\ \/ ~Current(w.id, w.gen)
              \/ row[w.id].stop \/ row[w.id].pty # 0 \/ row[w.id].phase # "Preparing"
        \/ row' = [row EXCEPT ![w.id] = q]
    BY <1>4 DEF FinishStartFailure
  <2>3. r \in Row /\ r.status = "Exited"
    BY <1>0, StatusTypes, SetStatusFields
  <2> HIDE DEF r
  <2>4. q.status = "Exited" /\ q.phase = "Failed"
    BY <2>3 DEF Row
  <2> HIDE DEF q
  <2> QED
    BY <2>1, <2>2, <2>4, WorkerLeaves
<1>5. CASE UndoStart(w)
  <2>1. starters' = starters \ {w} /\ UNCHANGED <<teardowns, queue>>
    BY <1>5 DEF UndoStart
  <2>2. CASE w.at = "launch"
    <3>1. /\ entries' = entries \ {w.id} /\ row' = [row EXCEPT ![w.id] = Blank]
          /\ UNCHANGED <<timers, drains>>
      BY <1>5, <2>2 DEF UndoStart
    <3>2. OthersStay(w.id)
      BY <2>1, <3>1 DEF OthersStay
    <3>3. \A t \in Session \ {w.id} : row'[t] = row[t]
      BY <1>0, <3>1
    <3> QED
      BY <1>0, <2>1, <3>1, <3>2, <3>3, AttendanceKeeps DEF Attendance
  <2>3. CASE w.at \in {"revive", "drain"}
    <3> DEFINE q == SetStatus(row[w.id], "Exited")
    <3>1. /\ UNCHANGED <<entries, timers>> /\ drains \subseteq drains'
          /\ \/ row' = row /\ ~Current(w.id, w.gen)
             \/ row' = [row EXCEPT ![w.id] = q]
      <4>1. drains \subseteq drains'
        BY <1>5, <2>3 DEF UndoStart, Drain
      <4> QED
        BY <1>5, <2>3, <4>1 DEF UndoStart
    <3>2. q.status = "Exited" /\ q.phase \notin {"Preparing", "TearingDown", "Backoff"}
      BY <1>0, StatusTypes, SetStatusFields
    <3> HIDE DEF q
    <3> QED
      BY <2>1, <3>1, <3>2, WorkerLeaves
  <2>4. CASE w.at = "restart"
    <3> DEFINE r == NextGen(row[w.id])
               q == Decide(r, FALSE, FALSE)
    <3>1. /\ UNCHANGED <<entries, drains>>
          /\ \/ row' = row /\ ~Current(w.id, w.gen) /\ timers' = timers
             \/ /\ Current(w.id, w.gen) /\ row' = [row EXCEPT ![w.id] = q]
                /\ timers' = IF q.phase = "Backoff"
                             THEN timers \cup {<<w.id, w.gen + 1>>} ELSE timers
      BY <1>5, <2>4 DEF UndoStart, RestartSpawnFailed
    <3>2. r \in Row /\ r.gen = row[w.id].gen + 1 /\ r.pty = row[w.id].pty
      BY <1>0 DEF NextGen, Row
    <3> HIDE DEF r
    <3>3. /\ q.status = "Exited" /\ q.phase \notin {"Preparing", "TearingDown"}
          /\ q.gen = row[w.id].gen + 1 /\ q.pty = row[w.id].pty
      BY <3>2, DecideFields
    <3> HIDE DEF q
    <3>4. Current(w.id, w.gen) => row[w.id].pty = 0 /\ row[w.id].gen = w.gen
      BY <1>0 DEF StartsBeforeProcess, Current
    <3> QED
      BY <2>1, <3>1, <3>3, <3>4, WorkerLeaves
  <2> QED
    BY <1>5, <2>2, <2>3, <2>4 DEF UndoStart
<1> QED
  BY <1>1, <1>2, <1>3, <1>4, <1>5 DEF StartWorker

LEMMA ReportAttended ==
    ASSUME AInv, NEW p \in Proc, NEW finished \in BOOLEAN, NEW long \in BOOLEAN,
           MarkProcessExit(p[1], p[2], finished, long),
           UNCHANGED <<entries, starters, timers, queue>>
    PROVE  Attendance'
<1> DEFINE s == p[1]
           out == AfterExit(row[s], finished, long)
           torn == [out EXCEPT !.torn = TRUE, !.phase = "TearingDown"]
<1>0. /\ row \in [Session -> Row] /\ Attendance /\ s \in Session /\ row[s] \in Row
      /\ entries \subseteq Session
  BY DEF AInv, IInv, TypeOK, Proc
<1>1. /\ out \in Row /\ out.status = "Exited" /\ out.phase \notin {"Preparing", "TearingDown"}
      /\ out.gen = row[s].gen + 1 /\ out.pty = 0
  BY <1>0, AfterExitFields
<1>2. CASE ~Current(s, p[2])
  <2>1. UNCHANGED <<row, teardowns, drains>>
    BY <1>2 DEF MarkProcessExit
  <2> QED
    BY <1>0, <2>1 DEF Attendance, Attended
<1>3. CASE Current(s, p[2]) /\ row[s].torn
  <2>1. /\ row' = [row EXCEPT ![s] = out]
        /\ CompleteProcessExit(s, p[2] + 1, out.phase = "Backoff")
        /\ teardowns' = teardowns
    BY <1>3 DEF MarkProcessExit
  <2> HIDE DEF out
  <2>2. /\ drains \subseteq drains'
        /\ out.phase = "Backoff" => [id |-> s, gen |-> p[2] + 1] \in drains'
    BY <2>1 DEF CompleteProcessExit, Drain
  <2>3. row'[s] = out /\ \A t \in Session \ {s} : row'[t] = row[t]
    BY <1>0, <2>1
  <2>4. row[s].gen = p[2]
    BY <1>3 DEF Current
  <2>5. out.phase = "Backoff" => \E d \in drains' : d.id = s /\ d.gen = out.gen
    BY <1>1, <2>2, <2>4
  <2>6. Attended(s)'
    BY <1>1, <2>3, <2>5 DEF Attended
  <2>7. OthersStay(s)
    BY <2>1, <2>2 DEF OthersStay
  <2> QED
    BY <1>0, <2>1, <2>3, <2>6, <2>7, AttendanceKeeps DEF Attendance
<1>4. CASE Current(s, p[2]) /\ ~row[s].torn
  <2> DEFINE x == [id |-> s, gen |-> p[2] + 1, final |-> out.phase]
  <2>1. row' = [row EXCEPT ![s] = torn] /\ teardowns' = teardowns \cup {x} /\ drains' = drains
    BY <1>4 DEF MarkProcessExit
  <2>2. x.id = s /\ x.gen = p[2] + 1 /\ x.final = out.phase
    OBVIOUS
  <2> HIDE DEF out, x
  <2>3. /\ torn.phase = "TearingDown" /\ torn.status = "Exited"
        /\ torn.gen = row[s].gen + 1
    BY <1>1 DEF Row
  <2> HIDE DEF torn
  <2>4. row'[s] = torn /\ \A t \in Session \ {s} : row'[t] = row[t]
    BY <1>0, <2>1
  <2>5. row[s].gen = p[2]
    BY <1>4 DEF Current
  <2>6. \E t \in teardowns' : t.id = s /\ t.gen = torn.gen
    BY <2>1, <2>2, <2>3, <2>5
  <2>7. Attended(s)'
    BY <2>3, <2>4, <2>6 DEF Attended
  <2>8. OthersStay(s)
    BY <2>1 DEF OthersStay
  <2>9. \A t \in teardowns' \ teardowns : t.final \notin {"Preparing", "TearingDown"}
    BY <1>1, <2>1, <2>2
  <2> QED
    BY <1>0, <2>4, <2>7, <2>8, <2>9, AttendanceKeeps DEF Attendance
<1> QED
  BY <1>2, <1>3, <1>4

LEMMA ExitAttended ==
    ASSUME AInv, NEW p \in Proc,
           \/ p \in procs /\ ProcessEnds(p)
           \/ p \in monitors /\ Monitor(p)
           \/ p \in stoppers /\ StopWorker(p)
           \/ p \in closers /\ ShutdownStops(p)
    PROVE  Attendance'
<1>0. Attendance /\ p[1] \in Session /\ row[p[1]] \in Row
  BY DEF AInv, IInv, TypeOK, Proc
<1>1. ASSUME UNCHANGED <<entries, row, starters, teardowns, drains, timers, queue>>
      PROVE  Attendance'
  BY <1>0, <1>1 DEF Attendance, Attended
<1>2. CASE ProcessEnds(p)
  BY <1>1, <1>2 DEF ProcessEnds
<1>3. CASE StopGraceful(p)
  BY <1>1, <1>3 DEF StopGraceful
<1>4. CASE MonitorLosesSight(p)
  <2> DEFINE q == SetStatus(row[p[1]], "Unknown")
  <2>1. Rests(q)
    BY <1>0, StatusTypes, SetStatusFields DEF Rests
  <2>2. /\ row' = [row EXCEPT ![p[1]] = q]
        /\ UNCHANGED <<entries, starters, teardowns, drains, timers, queue>>
    BY <1>4 DEF MonitorLosesSight
  <2>3. AllStay
    BY <2>2 DEF AllStay
  <2> HIDE DEF q
  <2> QED
    BY <1>0, <2>1, <2>2, <2>3, AttendanceRests
<1>5. CASE \E finished, long \in BOOLEAN : MonitorReports(p, finished, long)
  BY <1>5, ReportAttended DEF MonitorReports
<1>6. CASE StopByForce(p)
  BY <1>6, ReportAttended DEF StopByForce
<1>7. CASE ShutdownStops(p)
  BY <1>7, ReportAttended DEF ShutdownStops
<1> QED
  BY <1>2, <1>3, <1>4, <1>5, <1>6, <1>7 DEF Monitor, StopWorker

LEMMA TeardownAttended ==
    ASSUME AInv, NEW t \in teardowns, FinishTeardown(t)
    PROVE  Attendance'
<1> DEFINE s == t.id
           q == [row[s] EXCEPT !.phase = t.final]
<1>0. /\ row \in [Session -> Row] /\ Attendance /\ s \in Session /\ row[s] \in Row
      /\ entries \subseteq Session /\ TeardownsAreApart /\ QueuedOwnsNothing
      /\ t.final \notin {"Preparing", "TearingDown"}
  BY DEF AInv, IInv, TypeOK, Core, Teardown, Attendance
<1>1. /\ teardowns' = teardowns \ {t}
      /\ UNCHANGED <<entries, starters, timers, queue>>
  BY DEF FinishTeardown
<1>2. CASE Current(s, t.gen) /\ row[s].phase = "TearingDown"
  <2>1. /\ row' = [row EXCEPT ![s].phase = t.final]
        /\ CompleteProcessExit(s, t.gen, t.final = "Backoff")
    BY <1>2 DEF FinishTeardown
  <2>2. /\ drains \subseteq drains'
        /\ t.final = "Backoff" => [id |-> s, gen |-> t.gen] \in drains'
    BY <2>1 DEF CompleteProcessExit, Drain
  <2>3. row' = [row EXCEPT ![s] = q]
    BY <1>0, <2>1
  <2>4. /\ q.phase = t.final /\ q.gen = row[s].gen /\ q.pty = row[s].pty
        /\ q.status = row[s].status
    BY <1>0 DEF Row
  <2>5. row[s].gen = t.gen /\ row[s].pty = 0 /\ s \in entries
    BY <1>0, <1>2 DEF TeardownsAreApart, Current
  <2> HIDE DEF q
  <2>6. row'[s] = q /\ \A x \in Session \ {s} : row'[x] = row[x]
    BY <1>0, <2>3
  <2>7. q.phase = "Backoff" => \E d \in drains' : d.id = s /\ d.gen = q.gen
    BY <2>2, <2>4, <2>5
  <2>8. q.status = "Queued" => s \in Range(queue')
    BY <1>0, <1>1, <2>4, <2>5 DEF Attendance, Attended
  <2>9. Attended(s)'
    BY <1>0, <2>4, <2>5, <2>6, <2>7, <2>8 DEF Attended
  <2>10. OthersStay(s)
    BY <1>1, <2>2 DEF OthersStay
  <2> QED
    BY <1>0, <1>1, <2>6, <2>9, <2>10, AttendanceKeeps DEF Attendance
<1>3. CASE ~(Current(s, t.gen) /\ row[s].phase = "TearingDown")
  <2>1. UNCHANGED <<row, drains>>
    BY <1>3 DEF FinishTeardown
  <2>2. OthersStay(s)
    BY <1>1, <2>1 DEF OthersStay
  <2>3. ASSUME s \in entries PROVE Attended(s)'
    <3>1. Attended(s)
      BY <1>0, <2>3 DEF Attendance
    <3>2. row[s].phase = "TearingDown" =>
              row[s].pty # 0 \/ \E x \in teardowns' : x.id = s /\ x.gen = row[s].gen
      BY <1>1, <1>3, <2>3, <3>1 DEF Attended, Current
    <3> QED
      BY <1>1, <2>1, <3>1, <3>2 DEF Attended
  <2> QED
    BY <1>0, <1>1, <2>1, <2>2, <2>3, AttendanceKeeps DEF Attendance
<1> QED
  BY <1>2, <1>3

LEMMA DrainerAttended ==
    ASSUME AInv, NEW d \in drains, Drainer(d)
    PROVE  Attendance'
<1>0. /\ row \in [Session -> Row] /\ Attendance /\ queue \in Seq(Session)
      /\ entries \subseteq Session
  BY DEF AInv, IInv, TypeOK, Attendance
<1>1. CASE DrainOne(d)
  <2>1. /\ queue # <<>> /\ queue' = Tail(queue)
        /\ UNCHANGED <<entries, teardowns, drains, timers>>
    BY <1>1 DEF DrainOne
  <2>2. PICK s \in Session : /\ s = Head(queue) /\ queue' \in Seq(Session)
                             /\ Range(queue) \subseteq Range(queue') \cup {s}
    BY <1>0, <2>1, TailRange
  <2>3. \/ /\ s \in entries /\ row' = [row EXCEPT ![s] = Prepare(row[s])]
           /\ Start(s, row[s].gen + 1, "drain")
        \/ /\ ~(s \in entries /\ row[s].status = "Queued")
           /\ UNCHANGED <<row, starters>>
    BY <1>1, <2>2 DEF DrainOne
  <2>4. Range(queue) \ {s} \subseteq Range(queue')
    BY <2>2
  <2>5. CASE row' = [row EXCEPT ![s] = Prepare(row[s])] /\ Start(s, row[s].gen + 1, "drain")
    <3> DEFINE q == Prepare(row[s])
    <3>1. q.phase = "Preparing" /\ q.status = "Starting" /\ q.gen = row[s].gen + 1
      BY <1>0, <2>2, PrepareFields
    <3>2. row' = [row EXCEPT ![s] = q]
      BY <2>5
    <3> HIDE DEF q
    <3>3. Start(s, q.gen, "drain")
      BY <2>5, <3>1
    <3> QED
      BY <2>1, <2>2, <2>4, <3>1, <3>2, <3>3, StartAttended
  <2>6. CASE ~(s \in entries /\ row[s].status = "Queued") /\ UNCHANGED <<row, starters>>
    <3>1. OthersStay(s)
      BY <2>1, <2>4, <2>6 DEF OthersStay
    <3>2. ASSUME s \in entries PROVE Attended(s)'
      <4>1. Attended(s) /\ row[s].status # "Queued"
        BY <1>0, <2>6, <3>2 DEF Attendance
      <4> QED
        BY <2>1, <2>6, <4>1 DEF Attended
    <3> QED
      BY <1>0, <2>1, <2>2, <2>6, <3>1, <3>2, AttendanceKeeps
  <2> QED
    BY <2>3, <2>5, <2>6
<1>2. CASE DrainReturns(d)
  <2>1. /\ drains' = drains \ {d} /\ timers \subseteq timers'
        /\ d.id # Operator => <<d.id, d.gen>> \in timers'
        /\ UNCHANGED <<entries, row, starters, teardowns, queue>>
    BY <1>2 DEF DrainReturns
  <2>2. ASSUME NEW s \in entries PROVE Attended(s)'
    <3>1. Attended(s) /\ s # Operator
      BY <1>0, ConstantsAssumption DEF Attendance
    <3>2. row[s].phase = "Backoff" /\ ~row[s].stop =>
              <<s, row[s].gen>> \in timers' \/ \E x \in drains' : x.id = s /\ x.gen = row[s].gen
      BY <2>1, <3>1 DEF Attended
    <3> QED
      BY <2>1, <3>1, <3>2 DEF Attended
  <2> QED
    BY <1>0, <2>1, <2>2 DEF Attendance
<1> QED
  BY <1>1, <1>2 DEF Drainer

LEMMA RestartAttended ==
    ASSUME AInv, NEW t \in timers, RestartDue(t)
    PROVE  Attendance'
<1> DEFINE s == t[1]
           r == NextGen(row[s])
           out == Decide(r, FALSE, FALSE)
           Due == /\ Current(s, t[2]) /\ row[s].pty = 0
                  /\ ~row[s].stop /\ row[s].phase = "Backoff"
<1>0. /\ row \in [Session -> Row] /\ Attendance /\ s \in Session /\ row[s] \in Row
      /\ entries \subseteq Session /\ t = <<s, t[2]>> /\ queue \in Seq(Session)
  BY DEF AInv, IInv, TypeOK, Proc, Attendance
<1>r. r \in Row /\ r.gen = row[s].gen + 1 /\ r.pty = row[s].pty
  <2>1. row[s] \in Row
    BY <1>0
  <2> HIDE DEF s
  <2> QED
    BY <2>1 DEF NextGen, Row
<1>1. UNCHANGED <<entries, teardowns, drains, queue>> /\ \A p \in timers : p[1] # s => p \in timers'
  BY DEF RestartDue
<1>2. CASE Due /\ Full
  <2>1. /\ row' = [row EXCEPT ![s] = out] /\ starters' = starters
        /\ timers' = (timers \ {t}) \cup
              (IF out.phase = "Backoff" THEN {<<s, t[2] + 1>>} ELSE {})
    BY <1>2 DEF RestartDue
  <2> HIDE DEF r
  <2>3. /\ out.status = "Exited" /\ out.phase \in {"Finished", "Failed", "Backoff"}
        /\ out.gen = row[s].gen + 1 /\ out.pty = row[s].pty
    BY <1>r, DecideFields
  <2> HIDE DEF out
  <2>4. row'[s] = out /\ \A x \in Session \ {s} : row'[x] = row[x]
    BY <1>0, <2>1
  <2>5. row[s].gen = t[2] /\ row[s].pty = 0
    BY <1>2 DEF Current
  <2>6. Attended(s)'
    BY <2>1, <2>3, <2>4, <2>5 DEF Attended
  <2>7. OthersStay(s)
    BY <1>1, <2>1 DEF OthersStay
  <2> QED
    BY <1>0, <1>1, <2>4, <2>6, <2>7, AttendanceKeeps
<1>3. CASE Due /\ ~Full
  <2> DEFINE q == Prepare(row[s])
  <2>1. row' = [row EXCEPT ![s] = q] /\ Start(s, t[2] + 1, "restart")
    BY <1>3 DEF RestartDue
  <2>2. q.phase = "Preparing" /\ q.status = "Starting" /\ q.gen = row[s].gen + 1
    BY <1>0, PrepareFields
  <2> HIDE DEF q
  <2>3. Start(s, q.gen, "restart")
    BY <1>3, <2>1, <2>2 DEF Current
  <2> QED
    BY <1>0, <1>1, <2>1, <2>2, <2>3, StartAttended
<1>4. CASE ~Due
  <2>1. timers' = timers \ {t} /\ UNCHANGED <<row, starters>>
    BY <1>4 DEF RestartDue
  <2>2. OthersStay(s)
    BY <1>1, <2>1 DEF OthersStay
  <2>3. ASSUME s \in entries PROVE Attended(s)'
    <3>1. Attended(s)
      BY <1>0, <2>3 DEF Attendance
    <3>2. row[s].phase = "Backoff" /\ ~row[s].stop => <<s, row[s].gen>> # t
      <4>1. row[s].phase = "Backoff" => row[s].pty = 0
        BY <3>1 DEF Attended
      <4> QED
        BY <1>4, <2>3, <4>1 DEF Current
    <3> QED
      BY <1>1, <2>1, <3>1, <3>2 DEF Attended
  <2> QED
    BY <1>0, <1>1, <2>1, <2>2, <2>3, AttendanceKeeps
<1> QED
  BY <1>2, <1>3, <1>4

LEMMA OwnersAttended ==
    ASSUME AInv, SetAdmission \/ Shutdown
    PROVE  Attendance'
<1>0. TypeOK /\ Attendance /\ entries \subseteq Session
  BY DEF AInv, IInv, TypeOK
<1>1. /\ UNCHANGED <<entries, starters, teardowns, timers, queue>> /\ drains \subseteq drains'
  BY DEF SetAdmission, Shutdown, Drain
<1>2. \A s \in entries :
         /\ row'[s].phase = row[s].phase /\ row'[s].status = row[s].status
         /\ row'[s].gen = row[s].gen /\ row'[s].pty = row[s].pty
         /\ row'[s].stop \/ row'[s].stop = row[s].stop
  <2>1. CASE SetAdmission
    BY <2>1 DEF SetAdmission
  <2>2. CASE Shutdown
    <3>1. \A s \in entries : row'[s] = [row[s] EXCEPT !.stop = TRUE]
      BY <1>0, <2>2 DEF Shutdown
    <3>2. \A s \in entries : row[s] \in Row
      BY <1>0 DEF TypeOK
    <3> QED
      BY <3>1, <3>2 DEF Row
  <2> QED
    BY <2>1, <2>2
<1>3. ASSUME NEW s \in entries PROVE Attended(s)'
  <2>1. Attended(s)
    BY <1>0 DEF Attendance
  <2> QED
    BY <1>1, <1>2, <2>1 DEF Attended
<1> QED
  BY <1>0, <1>1, <1>3 DEF Attendance

LEMMA AttendedInit == Init => AInv
<1> SUFFICES ASSUME Init PROVE Attendance
  BY InitInv DEF AInv
<1>1. /\ queue = <<>> /\ teardowns = {}
      /\ \A s \in entries : Rests(row[s])
  BY RestoredFields DEF Init, Rests
<1> QED
  BY <1>1 DEF Attendance, Attended, Rests

LEMMA AttendedNext == AInv /\ [Next]_vars => AInv'
<1> SUFFICES ASSUME AInv, [Next]_vars PROVE Attendance'
  BY NextInv DEF AInv
<1>1. CASE UNCHANGED vars
  BY <1>1 DEF vars, AInv, Attendance, Attended
<1>2. CASE Next
  <2>1. procs \subseteq Proc /\ monitors \subseteq Proc
        /\ stoppers \subseteq Proc /\ closers \subseteq Proc
    BY DEF AInv, IInv, TypeOK
  <2> QED
    BY <1>2, <2>1, RequestAttended, AgentAttended, StartWorkerAttended, ExitAttended,
       TeardownAttended, DrainerAttended, RestartAttended, OwnersAttended DEF Next
<1> QED
  BY <1>1, <1>2

\* No row waits for a thread that is not there, whatever threads cannot be
\* spawned, whatever kills fail and whenever output and hooks arrive: a row
\* that is prepared has its start worker, one that is torn down its process or
\* its teardown worker, one in backoff its timer or the thread about to set it,
\* one that is queued its place in the queue.
THEOREM NobodyForgotten == Spec => []NobodyIsForgotten
<1>1. AInv => NobodyIsForgotten
  BY DEF AInv, Attendance, Attended, NobodyIsForgotten, Range
<1> QED
  BY <1>1, AttendedInit, AttendedNext, PTL DEF Spec

-----------------------------------------------------------------------------
(* The queue is served.  A teardown worker of a row's own generation finds *)
(* the row still being torn down, and ends in a drain, unless a signal has *)
(* made the row live behind its process.  Every step but those Undrained   *)
(* names either keeps the slots that are taken, or leaves a thread that    *)
(* drains the queue.                                                       *)

TeardownsHold ==
    \A t \in teardowns :
        Current(t.id, t.gen) => row[t.id].phase = "TearingDown" \/ ~Backed(t.id)

OneTeardownPerGeneration ==
    \A t, u \in teardowns : t.id = u.id /\ t.gen = u.gen => t = u

QInv == SInv /\ Attendance /\ TeardownsHold /\ OneTeardownPerGeneration

Waiting == \E s \in entries : row[s].status = "Queued"

LiveRows == {s \in Session : IsLive(s)}

LEMMA LiveRowsCount ==
    ASSUME IsFiniteSet(Session)
    PROVE  /\ Cardinality(LiveRows) \in Nat /\ Cardinality(LiveRows') \in Nat
           /\ LiveRows \subseteq LiveRows' => Cardinality(LiveRows) <= Cardinality(LiveRows')
           /\ cap \in Nat /\ Full => Cardinality(LiveRows) >= cap
<1>1. LiveRows \subseteq Session /\ LiveRows' \subseteq Session
  BY DEF LiveRows
<1> DEFINE A == {s \in Session : HoldsSlot(s)}
<1>2. A \subseteq LiveRows
  BY DEF LiveRows, HoldsSlot
<1>3. Full => Cardinality(A) >= cap
  BY DEF Full
<1> HIDE DEF A
<1>4. IsFiniteSet(LiveRows) /\ IsFiniteSet(LiveRows')
  BY <1>1, FS_Subset
<1>5. IsFiniteSet(A) /\ Cardinality(A) <= Cardinality(LiveRows)
  BY <1>2, <1>4, FS_Subset
<1>6. /\ Cardinality(A) \in Nat /\ Cardinality(LiveRows) \in Nat
      /\ Cardinality(LiveRows') \in Nat
  BY <1>4, <1>5, FS_CardinalityType
<1>7. LiveRows \subseteq LiveRows' => Cardinality(LiveRows) <= Cardinality(LiveRows')
  BY <1>4, FS_Subset
<1> QED
  BY <1>3, <1>5, <1>6, <1>7

LEMMA ServedIs ==
    Served <=>
        (Waiting => \/ Cardinality(LiveRows) >= cap
                    \/ drains # {}
                    \/ \E t \in teardowns : Current(t.id, t.gen))
BY DEF Served, Waiting, LiveRows

\* A thread that will drain the queue is under way after the step.
LEMMA ServedByDrain ==
    ASSUME drains' # {}
    PROVE  Served'
BY DEF Served

LEMMA ServedByTeardown ==
    ASSUME NEW t \in teardowns', Current(t.id, t.gen)'
    PROVE  Served'
BY DEF Served, Current

\* A row changes without giving up a slot, and waits only if the gate said so.
LEMMA ServedKeeps ==
    ASSUME IsFiniteSet(Session), QInv, Served, NEW s \in Session, NEW q,
           row' = [row EXCEPT ![s] = q],
           entries \subseteq entries', entries' \subseteq entries \cup {s},
           cap' = cap, drains \subseteq drains', teardowns' = teardowns,
           IsLive(s) => q.status \in Live,
           q.status = "Queued" => (s \in entries /\ row[s].status = "Queued") \/ Full,
           s \in entries /\ (row[s].phase = "TearingDown" \/ ~Backed(s)) => q.gen = row[s].gen
    PROVE  Served'
<1>0. /\ row \in [Session -> Row] /\ entries \subseteq Session /\ cap \in Nat
      /\ TeardownsHold
  BY DEF QInv, SInv, IInv, TypeOK
<1>1. row'[s] = q /\ \A t \in Session \ {s} : row'[t] = row[t]
  BY <1>0
<1>2. LiveRows \subseteq LiveRows'
  <2> SUFFICES ASSUME NEW t \in Session, IsLive(t) PROVE IsLive(t)'
    BY DEF LiveRows
  <2>1. CASE t = s
    BY <1>1, <2>1 DEF IsLive
  <2>2. CASE t # s
    BY <1>1, <2>2 DEF IsLive
  <2> QED
    BY <2>1, <2>2
<1>3. Cardinality(LiveRows) >= cap => Cardinality(LiveRows') >= cap'
  BY <1>0, <1>2, LiveRowsCount
<1>4. Full => Cardinality(LiveRows) >= cap
  BY <1>0, LiveRowsCount
<1>5. Waiting' => Waiting \/ Full
  BY <1>0, <1>1 DEF Waiting
<1>6. \A t \in teardowns : Current(t.id, t.gen) => Current(t.id, t.gen)'
  <2> SUFFICES ASSUME NEW t \in teardowns, t.id \in entries, row[t.id].gen = t.gen
               PROVE  t.id \in entries' /\ row'[t.id].gen = t.gen
    BY DEF Current
  <2>1. row[t.id].phase = "TearingDown" \/ ~Backed(t.id)
    BY <1>0 DEF TeardownsHold, Current
  <2> QED
    BY <1>0, <1>1, <2>1
<1>7. (\E t \in teardowns : Current(t.id, t.gen)) => \E t \in teardowns' : Current(t.id, t.gen)'
  BY <1>6
<1>8. Waiting' => \/ Cardinality(LiveRows') >= cap'
                  \/ drains' # {}
                  \/ \E t \in teardowns' : Current(t.id, t.gen)'
  <2>1. CASE Full
    BY <1>3, <1>4, <2>1
  <2>2. CASE Waiting
    <3>1. \/ Cardinality(LiveRows) >= cap
          \/ drains # {}
          \/ \E t \in teardowns : Current(t.id, t.gen)
      BY <1>0, <2>2, ServedIs
    <3> QED
      BY <1>3, <1>7, <3>1
  <2> QED
    BY <1>5, <2>1, <2>2
<1> QED
  BY <1>8 DEF Served, Waiting, LiveRows

\* What a step may do to the teardowns of the row it changes.
LEMMA TeardownsKeep ==
    ASSUME QInv, NEW s \in Session, NEW q, row' = [row EXCEPT ![s] = q],
           entries' \subseteq entries \cup {s}, teardowns' \subseteq teardowns,
           s \in entries' =>
              \/ s \notin used
              \/ /\ s \in entries
                 /\ \/ q.gen = row[s].gen + 1
                    \/ /\ q.gen = row[s].gen
                       /\ \/ /\ q.phase = row[s].phase /\ q.status = row[s].status
                             /\ q.pty = row[s].pty
                          \/ q.status \in Live /\ q.pty = 0 /\ q.phase # "Preparing"
                          \/ row[s].pty # 0
                          \/ \E w \in starters : w.id = s /\ w.gen = row[s].gen
    PROVE  (TeardownsHold /\ OneTeardownPerGeneration)'
<1>0. /\ row \in [Session -> Row] /\ TypeOK /\ TeardownsHold /\ OneTeardownPerGeneration
      /\ TeardownsAreBorn /\ TeardownsAreApart
  BY DEF QInv, SInv, IInv, TypeOK, Core
<1>1. row'[s] = q /\ \A t \in Session \ {s} : row'[t] = row[t]
  BY <1>0
<1>2. ASSUME NEW t \in teardowns', t.id \in entries', row'[t.id].gen = t.gen
      PROVE  row'[t.id].phase = "TearingDown" \/ ~Backed(t.id)'
  <2>0. t \in teardowns /\ t.id \in Session /\ t.gen \in Nat /\ t.id \in used
    BY <1>0, Typed DEF TeardownsAreBorn
  <2>1. CASE t.id # s
    BY <1>0, <1>1, <1>2, <2>0, <2>1 DEF TeardownsHold, Current, Backed, IsLive
  <2>2. CASE t.id = s
    <3>1. s \in entries
      BY <1>2, <2>0, <2>2
    <3>2. t.gen <= row[s].gen /\ row[s].gen \in Nat
      BY <1>0, <2>0, <2>2, <3>1, Typed DEF TeardownsAreBorn
    <3>3. q.gen = row[s].gen /\ t.gen = row[s].gen
      BY <1>1, <1>2, <2>0, <2>2, <3>2
    <3>4. row[s].phase = "TearingDown" \/ ~Backed(s)
      BY <1>0, <2>0, <2>2, <3>1, <3>3 DEF TeardownsHold, Current
    <3>5. row[s].pty = 0 /\ ~\E w \in starters : w.id = s /\ w.gen = row[s].gen
      BY <1>0, <2>0, <2>2, <3>1, <3>3 DEF TeardownsAreApart, Current
    <3> QED
      BY <1>1, <1>2, <2>0, <2>2, <3>1, <3>2, <3>3, <3>4, <3>5 DEF Backed, IsLive
  <2> QED
    BY <2>1, <2>2
<1>3. TeardownsHold'
  BY <1>2 DEF TeardownsHold, Current
<1>4. OneTeardownPerGeneration'
  BY <1>0 DEF OneTeardownPerGeneration
<1> QED
  BY <1>3, <1>4

\* What the queue's service asks of a step.
ServedNext == /\ (TeardownsHold /\ OneTeardownPerGeneration)'
              /\ Served => Served' \/ Undrained

LEMMA NothingChanges ==
    ASSUME IsFiniteSet(Session), QInv, UNCHANGED <<entries, row, cap, teardowns>>,
           drains \subseteq drains'
    PROVE  ServedNext
<1>1. (TeardownsHold /\ OneTeardownPerGeneration)'
  BY DEF QInv, TeardownsHold, OneTeardownPerGeneration, Current, Backed, IsLive
<1>2. ASSUME Served, Waiting'
      PROVE  \/ Cardinality(LiveRows') >= cap'
             \/ drains' # {}
             \/ \E t \in teardowns' : Current(t.id, t.gen)'
  <2>1. Waiting' = Waiting /\ LiveRows' = LiveRows
    BY DEF Waiting, LiveRows, IsLive
  <2>2. \A t \in teardowns : Current(t.id, t.gen) => Current(t.id, t.gen)'
    BY DEF Current
  <2>3. Waiting => \/ Cardinality(LiveRows) >= cap
                   \/ drains # {}
                   \/ \E t \in teardowns : Current(t.id, t.gen)
    BY <1>2, ServedIs
  <2> QED
    BY <1>2, <2>1, <2>2, <2>3
<1> QED
  BY <1>1, <1>2 DEF ServedNext, Served, Waiting, LiveRows

LEMMA RequestServed ==
    ASSUME IsFiniteSet(Session), QInv, NEW s \in Session, Request(s)
    PROVE  ServedNext
<1>0. /\ TypeOK /\ row[s] \in Row /\ row \in [Session -> Row]
      /\ ProcessIsLive /\ entries \subseteq Session /\ entries \subseteq used
  BY DEF QInv, SInv, IInv, TypeOK
<1>1. CASE Launch(s)
  <2>1. /\ entries' = entries \cup {s} /\ s \notin used
        /\ UNCHANGED <<teardowns, drains, cap>>
    BY <1>1 DEF Launch
  <2>2. s \notin entries
    BY <1>0, <2>1
  <2>3. PICK q : row' = [row EXCEPT ![s] = q] /\ (q.status = "Queued" => Full)
    <3>1. CASE Full
      BY <1>1, <3>1 DEF Launch
    <3>2. CASE ~Full
      <4> DEFINE q == [Blank EXCEPT !.phase = "Preparing"]
      <4>1. q.status = "Starting"
        BY DEF Blank
      <4>2. row' = [row EXCEPT ![s] = q]
        BY <1>1, <3>2 DEF Launch
      <4> HIDE DEF q
      <4> QED
        BY <4>1, <4>2
    <3> QED
      BY <3>1, <3>2
  <2>4. ~IsLive(s)
    BY <2>2 DEF IsLive
  <2>5. Served => Served'
    BY <2>1, <2>2, <2>3, <2>4, ServedKeeps
  <2> QED
    BY <2>1, <2>3, <2>5, TeardownsKeep DEF ServedNext
<1>2. CASE Revive(s)
  <2> DEFINE r == [row[s] EXCEPT !.stop = FALSE]
  <2>1. /\ s \in entries /\ row[s].pty = 0 /\ row[s].phase \notin {"Preparing", "TearingDown"}
        /\ UNCHANGED <<entries, teardowns, drains, cap>>
        /\ IF Full THEN row' = [row EXCEPT ![s] = SetStatus(NextGen(r), "Queued")]
                   ELSE row' = [row EXCEPT ![s] = [Prepare(r) EXCEPT !.restarts = 0]]
    BY <1>2 DEF Revive, Revivable
  <2>2. r \in Row /\ r.gen = row[s].gen
    BY <1>0 DEF Row
  <2> HIDE DEF r
  <2>3. PICK q : /\ row' = [row EXCEPT ![s] = q] /\ q.gen = row[s].gen + 1
                 /\ q.status = "Queued" => Full
    <3>1. CASE Full
      <4> DEFINE q == SetStatus(NextGen(r), "Queued")
      <4>1. NextGen(r) \in Row /\ NextGen(r).gen = r.gen + 1
        BY <2>2 DEF NextGen, Row
      <4>2. q.gen = row[s].gen + 1
        BY <2>2, <4>1, StatusTypes, SetStatusFields
      <4>3. row' = [row EXCEPT ![s] = q]
        BY <2>1, <3>1
      <4> HIDE DEF q
      <4> QED
        BY <3>1, <4>2, <4>3
    <3>2. CASE ~Full
      <4> DEFINE q == [Prepare(r) EXCEPT !.restarts = 0]
      <4>1. Prepare(r) \in Row /\ Prepare(r).gen = r.gen + 1 /\ Prepare(r).status = "Starting"
        BY <2>2, PrepareFields
      <4>2. q.gen = row[s].gen + 1 /\ q.status = "Starting"
        BY <2>2, <4>1 DEF Row
      <4>3. row' = [row EXCEPT ![s] = q]
        BY <2>1, <3>2
      <4> HIDE DEF q
      <4> QED
        BY <4>2, <4>3
    <3> QED
      BY <3>1, <3>2
  <2>4. CASE ~Backed(s)
    BY <1>2, <2>1, <2>3, <2>4, TeardownsKeep DEF ServedNext, Undrained
  <2> SUFFICES ASSUME Backed(s) PROVE ServedNext
    BY <2>4
  <2>5. Served => Served'
    BY <2>1, <2>3, ServedKeeps DEF Backed
  <2> QED
    BY <2>1, <2>3, <2>5, TeardownsKeep DEF ServedNext
<1>3. CASE Archive(s)
  <2>1. /\ entries' = entries \ {s} /\ row' = [row EXCEPT ![s] = Blank]
        /\ teardowns' = teardowns /\ drains' # {}
    BY <1>3 DEF Archive, Drain
  <2> QED
    BY <2>1, ServedByDrain, TeardownsKeep DEF ServedNext
<1>4. CASE KillProcess(s)
  <2>1. PICK b \in BOOLEAN : row' = [row EXCEPT ![s].stop = b, ![s].phase = "TearingDown"]
    BY <1>4 DEF KillProcess
  <2> DEFINE q == [row[s] EXCEPT !.stop = b, !.phase = "TearingDown"]
  <2>2. row' = [row EXCEPT ![s] = q] /\ q.gen = row[s].gen /\ q.status = row[s].status
    BY <1>0, <2>1 DEF Row
  <2> HIDE DEF q
  <2>3. /\ s \in entries /\ row[s].pty # 0 /\ UNCHANGED <<entries, teardowns, drains, cap>>
    BY <1>4 DEF KillProcess
  <2>4. IsLive(s) => q.status \in Live
    BY <2>2 DEF IsLive
  <2>5. Served => Served'
    BY <2>2, <2>3, <2>4, ServedKeeps
  <2> QED
    BY <2>2, <2>3, <2>5, TeardownsKeep DEF ServedNext
<1>5. CASE KillPending(s)
  <2> DEFINE r == [row[s] EXCEPT !.stop = TRUE]
             q == Retire(r)
  <2>1. r \in Row /\ r.gen = row[s].gen
    BY <1>0 DEF Row
  <2>2. /\ row' = [row EXCEPT ![s] = q] /\ s \in entries
        /\ UNCHANGED <<entries, teardowns>> /\ drains' # {}
    BY <1>5 DEF KillPending, Drain
  <2> HIDE DEF r
  <2>3. q.gen = row[s].gen + 1
    BY <2>1, RetireFields
  <2> HIDE DEF q
  <2> QED
    BY <2>2, <2>3, ServedByDrain, TeardownsKeep DEF ServedNext
<1>6. CASE KillNothing(s)
  <2> DEFINE q == [row[s] EXCEPT !.stop = TRUE]
  <2>1. /\ q.phase = row[s].phase /\ q.status = row[s].status
        /\ q.gen = row[s].gen /\ q.pty = row[s].pty
    BY <1>0 DEF Row
  <2>2. /\ row' = [row EXCEPT ![s] = q] /\ s \in entries
        /\ UNCHANGED <<entries, teardowns, drains, cap>>
    BY <1>0, <1>6 DEF KillNothing
  <2> HIDE DEF q
  <2>3. IsLive(s) => q.status \in Live
    BY <2>1 DEF IsLive
  <2>4. Served => Served'
    BY <2>1, <2>2, <2>3, ServedKeeps
  <2> QED
    BY <2>1, <2>2, <2>4, TeardownsKeep DEF ServedNext
<1> QED
  BY <1>1, <1>2, <1>3, <1>4, <1>5, <1>6 DEF Request

LEMMA AgentServed ==
    ASSUME IsFiniteSet(Session), QInv, NEW s \in Session, Agent(s)
    PROVE  ServedNext
<1>0. row[s] \in Row /\ row \in [Session -> Row]
  BY DEF QInv, SInv, IInv, TypeOK
<1>1. s \in entries /\ UNCHANGED <<entries, teardowns, drains, cap>>
  BY DEF Agent, HandleOutput, MatchHook, SessionStart, ApplyHook
<1>2. CASE MatchHook(s)
  BY <1>1, <1>2, NothingChanges DEF MatchHook
<1>3. CASE SessionStart(s)
  <2> DEFINE q == [row[s] EXCEPT !.resume = TRUE]
  <2>1. /\ q.phase = row[s].phase /\ q.status = row[s].status
        /\ q.gen = row[s].gen /\ q.pty = row[s].pty
    BY <1>0 DEF Row
  <2>2. row' = [row EXCEPT ![s] = q]
    BY <1>0, <1>3 DEF SessionStart
  <2> HIDE DEF q
  <2>3. Served => Served'
    BY <1>1, <2>1, <2>2, ServedKeeps DEF IsLive
  <2> QED
    BY <1>1, <2>1, <2>2, <2>3, TeardownsKeep DEF ServedNext
<1>4. ASSUME NEW st \in Live, row[s].status # st,
             row' = [row EXCEPT ![s] = Report(row[s], st)]
      PROVE  ServedNext
  <2> DEFINE q == SetStatus(row[s], st)
  <2>1. /\ q.status = st /\ q.gen = row[s].gen /\ q.pty = row[s].pty
        /\ q.phase # "Preparing"
    BY <1>0, StatusTypes, SetStatusFields
  <2>2. row' = [row EXCEPT ![s] = q]
    BY <1>4 DEF Report
  <2> HIDE DEF q
  <2>3. Served => Served'
    BY <1>1, <2>1, <2>2, ServedKeeps, LiveStatuses
  <2> QED
    BY <1>1, <2>1, <2>2, <2>3, TeardownsKeep DEF ServedNext
<1>5. CASE HandleOutput(s)
  BY <1>4, <1>5, LiveStatuses DEF HandleOutput
<1>6. ASSUME NEW st \in Reports, ApplyHook(s, st) PROVE ServedNext
  BY <1>4, <1>6, LiveStatuses DEF ApplyHook
<1> QED
  BY <1>2, <1>3, <1>5, <1>6 DEF Agent

LEMMA StartWorkerServed ==
    ASSUME IsFiniteSet(Session), QInv, NEW w \in starters, StartWorker(w)
    PROVE  ServedNext
<1>0. /\ row \in [Session -> Row] /\ w.id \in Session /\ row[w.id] \in Row /\ w \in Starter
      /\ TypeOK /\ StartsBeforeProcess
  BY DEF QInv, SInv, IInv, TypeOK, Starter, Core
<1>c. Current(w.id, w.gen) =>
          w.id \in entries /\ \E v \in starters : v.id = w.id /\ v.gen = row[w.id].gen
  BY DEF Current
<1>1. CASE SetupFails(w) \/ StartIsCurrent(w) \/ SpawnPty(w)
  BY <1>1, NothingChanges DEF SetupFails, StartIsCurrent, SpawnPty
<1>2. CASE Accept(w)
  <2> DEFINE r == SetStatus(row[w.id], "Starting")
             q == [r EXCEPT !.pty = w.gen, !.torn = FALSE]
  <2>1. UNCHANGED <<entries, teardowns, drains, cap>>
    BY <1>2 DEF Accept
  <2>2. \/ row' = row
        \/ Current(w.id, w.gen) /\ row' = [row EXCEPT ![w.id] = q]
    BY <1>2 DEF Accept
  <2>3. r \in Row /\ r.status = "Starting" /\ r.gen = row[w.id].gen
    BY <1>0, StatusTypes, SetStatusFields
  <2> HIDE DEF r
  <2>4. q.gen = row[w.id].gen /\ q.status = "Starting"
    BY <2>3 DEF Row
  <2> HIDE DEF q
  <2>5. CASE row' = row
    BY <2>1, <2>5, NothingChanges
  <2>6. CASE Current(w.id, w.gen) /\ row' = [row EXCEPT ![w.id] = q]
    <3>1. Served => Served'
      BY <1>0, <1>c, <2>1, <2>4, <2>6, ServedKeeps, LiveStatuses
    <3>2. (TeardownsHold /\ OneTeardownPerGeneration)'
      BY <1>0, <1>c, <2>1, <2>4, <2>6, TeardownsKeep
    <3> QED
      BY <3>1, <3>2 DEF ServedNext
  <2> QED
    BY <2>2, <2>5, <2>6
<1>3. CASE FinishStartFailure(w)
  <2> DEFINE r == SetStatus(row[w.id], "Exited")
             q == [r EXCEPT !.phase = "Failed"]
  <2>1. UNCHANGED <<entries, teardowns, cap>>
    BY <1>3 DEF FinishStartFailure
  <2>2. \/ UNCHANGED <<row, drains>>
        \/ /\ Current(w.id, w.gen) /\ row' = [row EXCEPT ![w.id] = q]
           /\ drains' # {}
    BY <1>3 DEF FinishStartFailure, Drain
  <2>3. r \in Row /\ r.gen = row[w.id].gen
    BY <1>0, StatusTypes, SetStatusFields
  <2> HIDE DEF r
  <2>4. q.gen = row[w.id].gen
    BY <2>3 DEF Row
  <2> HIDE DEF q
  <2>5. CASE UNCHANGED <<row, drains>>
    BY <2>1, <2>5, NothingChanges
  <2>6. CASE /\ Current(w.id, w.gen) /\ row' = [row EXCEPT ![w.id] = q]
             /\ drains' # {}
    <3>1. (TeardownsHold /\ OneTeardownPerGeneration)'
      BY <1>0, <1>c, <2>1, <2>4, <2>6, TeardownsKeep
    <3> QED
      BY <2>6, <3>1, ServedByDrain DEF ServedNext
  <2> QED
    BY <2>2, <2>5, <2>6
<1>4. CASE UndoStart(w)
  <2>1. UNCHANGED <<teardowns, cap>>
    BY <1>4 DEF UndoStart
  <2>2. Served' \/ Undrained
    <3>1. CASE w.at = "drain"
      <4>1. drains' # {}
        BY <1>4, <3>1 DEF UndoStart, Drain
      <4> QED
        BY <4>1, ServedByDrain
    <3>2. CASE w.at # "drain"
      BY <1>4, <3>2 DEF Undrained
    <3> QED
      BY <3>1, <3>2
  <2>3. CASE w.at = "launch"
    <3>1. entries' = entries \ {w.id} /\ row' = [row EXCEPT ![w.id] = Blank]
      BY <1>4, <2>3 DEF UndoStart
    <3>2. (TeardownsHold /\ OneTeardownPerGeneration)'
      BY <1>0, <2>1, <3>1, TeardownsKeep
    <3> QED
      BY <2>2, <3>2 DEF ServedNext
  <2>4. ASSUME NEW q, entries' = entries, row' = [row EXCEPT ![w.id] = q],
               Current(w.id, w.gen), q.gen \in {row[w.id].gen, row[w.id].gen + 1}
        PROVE  ServedNext
    <3>1. (TeardownsHold /\ OneTeardownPerGeneration)'
      BY <1>0, <1>c, <2>1, <2>4, TeardownsKeep
    <3> QED
      BY <2>2, <3>1 DEF ServedNext
  <2>5. ASSUME entries' = entries, row' = row
        PROVE  ServedNext
    <3>1. (TeardownsHold /\ OneTeardownPerGeneration)'
      BY <2>1, <2>5
         DEF QInv, TeardownsHold, OneTeardownPerGeneration, Current, Backed, IsLive
    <3> QED
      BY <2>2, <3>1 DEF ServedNext
  <2>6. CASE w.at \in {"revive", "drain"}
    <3> DEFINE q == SetStatus(row[w.id], "Exited")
    <3>1. /\ entries' = entries
          /\ row' = row \/ (Current(w.id, w.gen) /\ row' = [row EXCEPT ![w.id] = q])
      BY <1>4, <2>6 DEF UndoStart
    <3>2. q.gen = row[w.id].gen
      BY <1>0, StatusTypes, SetStatusFields
    <3> HIDE DEF q
    <3> QED
      BY <2>4, <2>5, <3>1, <3>2
  <2>7. CASE w.at = "restart"
    <3> DEFINE r == NextGen(row[w.id])
               q == Decide(r, FALSE, FALSE)
    <3>1. /\ entries' = entries
          /\ row' = row \/ (Current(w.id, w.gen) /\ row' = [row EXCEPT ![w.id] = q])
      BY <1>4, <2>7 DEF UndoStart, RestartSpawnFailed
    <3>2. r \in Row /\ r.gen = row[w.id].gen + 1
      BY <1>0 DEF NextGen, Row
    <3> HIDE DEF r
    <3>3. q.gen = row[w.id].gen + 1
      BY <3>2, DecideFields
    <3> HIDE DEF q
    <3> QED
      BY <2>4, <2>5, <3>1, <3>3
  <2> QED
    BY <1>4, <2>3, <2>6, <2>7 DEF UndoStart
<1> QED
  BY <1>1, <1>2, <1>3, <1>4 DEF StartWorker

LEMMA ReportServed ==
    ASSUME IsFiniteSet(Session), QInv, NEW p \in Proc,
           NEW finished \in BOOLEAN, NEW long \in BOOLEAN,
           MarkProcessExit(p[1], p[2], finished, long),
           UNCHANGED <<used, entries, cap>>
    PROVE  ServedNext
<1> DEFINE s == p[1]
           out == AfterExit(row[s], finished, long)
           torn == [out EXCEPT !.torn = TRUE, !.phase = "TearingDown"]
<1>0. /\ row \in [Session -> Row] /\ s \in Session /\ row[s] \in Row
      /\ TypeOK /\ TeardownsAreBorn /\ TeardownsHold /\ OneTeardownPerGeneration
  BY DEF QInv, SInv, IInv, TypeOK, Proc, Core
<1>1. out \in Row /\ out.gen = row[s].gen + 1
  BY <1>0, AfterExitFields
<1>2. CASE ~Current(s, p[2])
  <2>1. UNCHANGED <<row, teardowns, drains>>
    BY <1>2 DEF MarkProcessExit
  <2> QED
    BY <2>1, NothingChanges
<1>3. CASE Current(s, p[2]) /\ row[s].torn
  <2>1. /\ row' = [row EXCEPT ![s] = out] /\ teardowns' = teardowns /\ s \in entries
        /\ drains' # {}
    BY <1>3 DEF MarkProcessExit, CompleteProcessExit, Drain, Current
  <2> HIDE DEF out
  <2>2. (TeardownsHold /\ OneTeardownPerGeneration)'
    BY <1>0, <1>1, <2>1, TeardownsKeep
  <2> QED
    BY <2>1, <2>2, ServedByDrain DEF ServedNext
<1>4. CASE Current(s, p[2]) /\ ~row[s].torn
  <2> DEFINE x == [id |-> s, gen |-> p[2] + 1, final |-> out.phase]
  <2>1. row' = [row EXCEPT ![s] = torn] /\ teardowns' = teardowns \cup {x}
    BY <1>4 DEF MarkProcessExit
  <2>2. x.id = s /\ x.gen = p[2] + 1
    OBVIOUS
  <2> HIDE DEF out, x
  <2>3. torn.phase = "TearingDown" /\ torn.gen = row[s].gen + 1
    BY <1>1 DEF Row
  <2> HIDE DEF torn
  <2>4. row'[s] = torn /\ \A t \in Session \ {s} : row'[t] = row[t]
    BY <1>0, <2>1
  <2>5. row[s].gen = p[2] /\ s \in entries /\ p[2] \in Nat
    BY <1>0, <1>4, Typed DEF Current
  <2>6. \A t \in teardowns : /\ t.id \in Session /\ t.gen \in Nat
                             /\ t.id = s => t.gen <= p[2]
    BY <1>0, <2>5, Typed DEF TeardownsAreBorn
  <2>7. ASSUME NEW t \in teardowns', t.id \in entries', row'[t.id].gen = t.gen
        PROVE  row'[t.id].phase = "TearingDown" \/ ~Backed(t.id)'
    <3>1. CASE t = x
      BY <2>2, <2>3, <2>4, <3>1
    <3>2. CASE t \in teardowns
      <4>1. t.id # s
        BY <2>3, <2>4, <2>5, <2>6, <2>7, <3>2
      <4> QED
        BY <1>0, <2>4, <2>6, <2>7, <3>2, <4>1 DEF TeardownsHold, Current, Backed, IsLive
    <3> QED
      BY <2>1, <3>1, <3>2
  <2>8. TeardownsHold'
    BY <2>7 DEF TeardownsHold, Current
  <2>9. OneTeardownPerGeneration'
    <3>1. \A t \in teardowns : ~(t.id = x.id /\ t.gen = x.gen)
      BY <2>2, <2>5, <2>6
    <3> QED
      BY <1>0, <2>1, <3>1 DEF OneTeardownPerGeneration
  <2>10. x \in teardowns' /\ x.id \in entries' /\ row'[x.id].gen = x.gen
    BY <2>1, <2>2, <2>3, <2>4, <2>5
  <2>11. Served'
    BY <2>10 DEF Served, Current
  <2> QED
    BY <2>8, <2>9, <2>11 DEF ServedNext
<1> QED
  BY <1>2, <1>3, <1>4

LEMMA ExitServed ==
    ASSUME IsFiniteSet(Session), QInv, NEW p \in Proc,
           \/ p \in procs /\ ProcessEnds(p)
           \/ p \in monitors /\ Monitor(p)
           \/ p \in stoppers /\ StopWorker(p)
           \/ p \in closers /\ ShutdownStops(p)
    PROVE  ServedNext
<1>0. /\ row \in [Session -> Row] /\ p[1] \in Session /\ row[p[1]] \in Row
      /\ WatchersFollow
  BY DEF QInv, SInv, IInv, TypeOK, Proc, Core
<1>2. CASE ProcessEnds(p)
  BY <1>2, NothingChanges DEF ProcessEnds
<1>3. CASE StopGraceful(p)
  BY <1>3, NothingChanges DEF StopGraceful
<1>4. CASE MonitorLosesSight(p)
  <2> DEFINE q == SetStatus(row[p[1]], "Unknown")
  <2>1. q.gen = row[p[1]].gen /\ q.status = "Unknown"
    BY <1>0, StatusTypes, SetStatusFields
  <2>2. /\ row' = [row EXCEPT ![p[1]] = q] /\ p \in monitors
        /\ p[1] \in entries /\ row[p[1]].gen = p[2]
        /\ UNCHANGED <<entries, teardowns, drains, cap>>
    BY <1>4 DEF MonitorLosesSight, Current
  <2> HIDE DEF q
  <2>3. row[p[1]].pty # 0
    BY <1>0, <2>2 DEF WatchersFollow, Row
  <2>4. Served => Served'
    BY <1>0, <2>1, <2>2, ServedKeeps, LiveStatuses
  <2>5. (TeardownsHold /\ OneTeardownPerGeneration)'
    BY <1>0, <2>1, <2>2, <2>3, TeardownsKeep
  <2> QED
    BY <2>4, <2>5 DEF ServedNext
<1>5. CASE \E finished, long \in BOOLEAN : MonitorReports(p, finished, long)
  BY <1>5, ReportServed DEF MonitorReports
<1>6. CASE StopByForce(p)
  BY <1>6, ReportServed DEF StopByForce
<1>7. CASE ShutdownStops(p)
  BY <1>7, ReportServed DEF ShutdownStops
<1> QED
  BY <1>2, <1>3, <1>4, <1>5, <1>6, <1>7 DEF Monitor, StopWorker

LEMMA TeardownServed ==
    ASSUME QInv, NEW t \in teardowns, FinishTeardown(t)
    PROVE  ServedNext
<1> DEFINE q == [row[t.id] EXCEPT !.phase = t.final]
<1>0. /\ row \in [Session -> Row] /\ t.id \in Session /\ row[t.id] \in Row
      /\ TeardownsHold /\ OneTeardownPerGeneration /\ TypeOK
      /\ \A u \in teardowns : u.id \in Session
  BY DEF QInv, SInv, IInv, TypeOK, Teardown
<1>1. teardowns' = teardowns \ {t} /\ UNCHANGED <<entries, cap>>
  BY DEF FinishTeardown
<1>2. OneTeardownPerGeneration'
  BY <1>0, <1>1 DEF OneTeardownPerGeneration
<1>3. CASE Current(t.id, t.gen) /\ row[t.id].phase = "TearingDown"
  <2>2. row' = [row EXCEPT ![t.id].phase = t.final] /\ drains' # {}
    BY <1>3 DEF FinishTeardown, CompleteProcessExit, Drain
  <2>3. row' = [row EXCEPT ![t.id] = q]
    BY <1>0, <2>2
  <2>4. q.gen = row[t.id].gen
    BY <1>0 DEF Row
  <2> HIDE DEF q
  <2>5. row'[t.id].gen = row[t.id].gen /\ \A x \in Session \ {t.id} : row'[x] = row[x]
    BY <1>0, <2>3, <2>4
  <2>6. ASSUME NEW u \in teardowns', u.id \in entries', row'[u.id].gen = u.gen
        PROVE  row'[u.id].phase = "TearingDown" \/ ~Backed(u.id)'
    <3>1. u \in teardowns /\ u # t
      BY <1>1
    <3>2. u.id # t.id
      BY <1>0, <1>3, <2>5, <2>6, <3>1 DEF OneTeardownPerGeneration, Current
    <3> QED
      BY <1>0, <1>1, <2>5, <2>6, <3>1, <3>2 DEF TeardownsHold, Current, Backed, IsLive
  <2>7. TeardownsHold'
    BY <2>6 DEF TeardownsHold, Current
  <2> QED
    BY <1>2, <2>2, <2>7, ServedByDrain DEF ServedNext
<1>4. CASE Current(t.id, t.gen) /\ row[t.id].phase # "TearingDown"
  <2>1. ~Backed(t.id) /\ UNCHANGED <<row, drains>>
    BY <1>0, <1>4 DEF FinishTeardown, TeardownsHold
  <2>2. TeardownsHold'
    BY <1>0, <1>1, <2>1 DEF TeardownsHold, Current, Backed, IsLive
  <2> QED
    BY <1>2, <2>1, <2>2 DEF ServedNext, Undrained
<1>5. CASE ~Current(t.id, t.gen)
  <2>1. UNCHANGED <<row, drains>>
    BY <1>5 DEF FinishTeardown
  <2>2. TeardownsHold'
    BY <1>0, <1>1, <2>1 DEF TeardownsHold, Current, Backed, IsLive
  <2>3. (\E u \in teardowns : Current(u.id, u.gen)) => \E u \in teardowns' : Current(u.id, u.gen)'
    BY <1>1, <1>5, <2>1 DEF Current
  <2>4. Waiting' = Waiting /\ LiveRows' = LiveRows
    BY <1>1, <2>1 DEF Waiting, LiveRows, IsLive
  <2>5. ASSUME Served, Waiting'
        PROVE  \/ Cardinality(LiveRows') >= cap'
               \/ drains' # {}
               \/ \E u \in teardowns' : Current(u.id, u.gen)'
    BY <1>0, <1>1, <2>1, <2>3, <2>4, <2>5, ServedIs
  <2>6. Served => Served'
    BY <2>5 DEF Served, Waiting, LiveRows
  <2> QED
    BY <1>2, <2>2, <2>6 DEF ServedNext
<1> QED
  BY <1>3, <1>4, <1>5

LEMMA DrainerServed ==
    ASSUME IsFiniteSet(Session), QInv, NEW d \in drains, Drainer(d)
    PROVE  ServedNext
<1>0. /\ row \in [Session -> Row] /\ entries \subseteq Session /\ Attendance
  BY DEF QInv, SInv, IInv, TypeOK
<1>1. CASE DrainOne(d)
  <2>1. UNCHANGED <<entries, teardowns, drains, cap>>
    BY <1>1 DEF DrainOne
  <2>2. \/ row' = row
        \/ \E s \in entries : row' = [row EXCEPT ![s] = Prepare(row[s])]
    BY <1>1 DEF DrainOne
  <2>3. CASE row' = row
    BY <2>1, <2>3, NothingChanges
  <2>4. ASSUME NEW s \in entries, row' = [row EXCEPT ![s] = Prepare(row[s])]
        PROVE  ServedNext
    <3> DEFINE q == Prepare(row[s])
    <3>1. q.gen = row[s].gen + 1
      BY <1>0, PrepareFields
    <3>2. row' = [row EXCEPT ![s] = q]
      BY <2>4
    <3> HIDE DEF q
    <3>3. (TeardownsHold /\ OneTeardownPerGeneration)'
      BY <1>0, <2>1, <3>1, <3>2, TeardownsKeep
    <3> QED
      BY <2>1, <3>3, ServedByDrain DEF ServedNext
  <2> QED
    BY <2>2, <2>3, <2>4
<1>2. CASE DrainReturns(d)
  <2>1. /\ UNCHANGED <<entries, row, teardowns, cap>>
        /\ Full \/ queue = <<>>
    BY <1>2 DEF DrainReturns
  <2>2. (TeardownsHold /\ OneTeardownPerGeneration)'
    BY <2>1 DEF QInv, TeardownsHold, OneTeardownPerGeneration, Current, Backed, IsLive
  <2>3. Waiting' = Waiting /\ LiveRows' = LiveRows
    BY <2>1 DEF Waiting, LiveRows, IsLive
  <2>4. CASE Full
    <3>1. Cardinality(LiveRows') >= cap'
      BY <2>1, <2>3, <2>4, LiveRowsCount DEF QInv, SInv, IInv, TypeOK
    <3> QED
      BY <2>2, <3>1 DEF ServedNext, Served, LiveRows
  <2>5. CASE queue = <<>>
    <3>1. Range(queue) = {}
      BY <2>5 DEF Range
    <3>2. ~Waiting
      BY <1>0, <3>1 DEF Waiting, Attendance, Attended
    <3> QED
      BY <2>2, <2>3, <3>2 DEF ServedNext, Served, Waiting
  <2> QED
    BY <2>1, <2>4, <2>5
<1> QED
  BY <1>1, <1>2 DEF Drainer

LEMMA RestartServed ==
    ASSUME IsFiniteSet(Session), QInv, NEW t \in timers, RestartDue(t)
    PROVE  ServedNext
<1>0. /\ row \in [Session -> Row] /\ t[1] \in Session /\ row[t[1]] \in Row
      /\ DownIsDead
  BY DEF QInv, SInv, IInv, TypeOK, Proc
<1>1. UNCHANGED <<entries, teardowns, drains, cap>>
  BY DEF RestartDue
<1> DEFINE s == t[1]
           r == NextGen(row[s])
           out == Decide(r, FALSE, FALSE)
           prepared == Prepare(row[s])
<1>2. \/ row' = row
      \/ /\ s \in entries /\ row[s].pty = 0 /\ row[s].phase = "Backoff"
         /\ row' = [row EXCEPT ![s] = out] \/ row' = [row EXCEPT ![s] = prepared]
  BY DEF RestartDue, Current
<1> HIDE DEF s
<1>3. r \in Row /\ r.gen = row[s].gen + 1
  BY <1>0 DEF NextGen, Row, s
<1> HIDE DEF r
<1>4. out.gen = row[s].gen + 1 /\ out.status = "Exited"
  BY <1>3, DecideFields
<1>5. prepared.gen = row[s].gen + 1 /\ prepared.status = "Starting"
  BY <1>0, PrepareFields DEF s
<1> HIDE DEF out, prepared
<1>6. CASE row' = row
  BY <1>1, <1>6, NothingChanges
<1>7. ASSUME NEW q, q.gen = row[s].gen + 1, q.status # "Queued",
             s \in entries, row[s].pty = 0, row[s].phase = "Backoff",
             row' = [row EXCEPT ![s] = q]
      PROVE  ServedNext
  <2>1. s \in Session /\ ~IsLive(s)
    BY <1>0, <1>7 DEF DownIsDead, Downed, IsLive, s
  <2>2. Served => Served'
    BY <1>1, <1>7, <2>1, ServedKeeps DEF Backed
  <2>3. (TeardownsHold /\ OneTeardownPerGeneration)'
    BY <1>1, <1>7, <2>1, TeardownsKeep
  <2> QED
    BY <2>2, <2>3 DEF ServedNext
<1> QED
  BY <1>2, <1>4, <1>5, <1>6, <1>7

LEMMA OwnersServed ==
    ASSUME IsFiniteSet(Session), QInv, SetAdmission \/ Shutdown
    PROVE  ServedNext
<1>0. TypeOK /\ entries \subseteq Session /\ \A s \in Session : row[s] \in Row
  BY DEF QInv, SInv, IInv, TypeOK
<1>1. CASE SetAdmission
  <2>1. UNCHANGED <<entries, row, teardowns>> /\ drains' # {}
    BY <1>1 DEF SetAdmission, Drain
  <2>2. (TeardownsHold /\ OneTeardownPerGeneration)'
    BY <2>1 DEF QInv, TeardownsHold, OneTeardownPerGeneration, Current, Backed, IsLive
  <2> QED
    BY <2>1, <2>2, ServedByDrain DEF ServedNext
<1>2. CASE Shutdown
  <2>1. UNCHANGED <<entries, teardowns, cap, drains>>
    BY <1>2 DEF Shutdown
  <2>2. \A s \in Session : /\ row'[s].phase = row[s].phase /\ row'[s].status = row[s].status
                           /\ row'[s].gen = row[s].gen /\ row'[s].pty = row[s].pty
    <3>1. \A s \in Session : row'[s] = row[s] \/ row'[s] = [row[s] EXCEPT !.stop = TRUE]
      BY <1>2 DEF Shutdown
    <3> QED
      BY <1>0, <3>1 DEF Row
  <2>3. \A t \in teardowns : t.id \in Session
    BY <1>0, Typed
  <2>4. \A t \in teardowns : Current(t.id, t.gen)' = Current(t.id, t.gen)
    BY <2>1, <2>2, <2>3 DEF Current
  <2>5. (TeardownsHold /\ OneTeardownPerGeneration)'
    BY <2>1, <2>2, <2>3
       DEF QInv, TeardownsHold, OneTeardownPerGeneration, Current, Backed, IsLive
  <2>6. Waiting' = Waiting /\ LiveRows' = LiveRows
    BY <1>0, <2>1, <2>2 DEF Waiting, LiveRows, IsLive
  <2>7. ASSUME Served, Waiting'
        PROVE  \/ Cardinality(LiveRows') >= cap'
               \/ drains' # {}
               \/ \E t \in teardowns' : Current(t.id, t.gen)'
    BY <2>1, <2>4, <2>6, <2>7, ServedIs
  <2>8. Served => Served'
    BY <2>7 DEF Served, Waiting, LiveRows
  <2> QED
    BY <2>5, <2>8 DEF ServedNext
<1> QED
  BY <1>1, <1>2

\* No step leaves a row queued for a slot that is free, with nobody to drain the
\* queue, but the three that Undrained names, for every finite fleet and every
\* cap, whatever threads cannot be spawned, whatever kills fail and whenever
\* output and hooks arrive.
THEOREM ServedHolds ==
    ASSUME IsFiniteSet(Session)
    PROVE  Spec => QueueIsServed
<1>1. Init => QInv
  <2> SUFFICES ASSUME Init PROVE QInv
    OBVIOUS
  <2>1. SInv /\ AInv
    BY SInvKept, AttendedInit
  <2> QED
    BY <2>1 DEF Init, QInv, AInv, TeardownsHold, OneTeardownPerGeneration
<1>2. ASSUME QInv, [Next]_vars PROVE ServedNext
  <2>1. CASE UNCHANGED vars
    BY <1>2, <2>1, NothingChanges DEF vars
  <2>2. CASE Next
    <3>1. procs \subseteq Proc /\ monitors \subseteq Proc
          /\ stoppers \subseteq Proc /\ closers \subseteq Proc
      BY <1>2 DEF QInv, SInv, IInv, TypeOK
    <3> QED
      BY <1>2, <2>2, <3>1, RequestServed, AgentServed, StartWorkerServed, ExitServed,
         TeardownServed, DrainerServed, RestartServed, OwnersServed DEF Next
  <2> QED
    BY <1>2, <2>1, <2>2
<1>3. QInv /\ [Next]_vars => QInv'
  BY <1>2, SInvKept, AttendedNext DEF QInv, SInv, AInv, ServedNext
<1>4. QInv /\ [Next]_vars => [Served => Served' \/ Undrained]_vars
  BY <1>2 DEF ServedNext
<1> QED
  BY <1>1, <1>3, <1>4, PTL DEF Spec, QueueIsServed
=============================================================================
