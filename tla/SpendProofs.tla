----------------------------- MODULE SpendProofs ---------------------------
(***************************************************************************)
(* Proofs about Spend: money is counted once and the operator's word on a  *)
(* spent budget stands while no reader falls behind what its row has cost; *)
(* and the ledger keeps the whole of the window.                           *)
(***************************************************************************)
EXTENDS Spend, NaturalsInduction, WellFoundedInduction, TLAPS

(* The types the arguments need; the ledger and the log have no part in    *)
(* them.                                                                   *)
Shape ==
    /\ row \in [Session -> Row]
    /\ file \in [Session -> 0 .. MaxRecords]
    /\ paid \in [Session -> Nat]
    /\ counted \in [Session -> Nat]
    /\ tail \in [Session -> Nat \cup {None}]
    /\ seen \in [Session -> Nat \cup {None}]
    /\ poll.of \subseteq Session
    /\ disk.row \in [Session -> Row]
    /\ disk.counted \in [Session -> Nat]

(* Until a reader has fallen behind, the money a transcript holds beyond a *)
(* row's cost is still uncounted: for the row in memory, for the row on    *)
(* disk, and for the cost the poller is about to write into it.            *)
NothingWritten(s) == row[s].at = "unborn" => file[s] = 0
MemoryBehind(s) ==
    s \notin again =>
        /\ counted[s] <= paid[s]
        /\ row[s].at # "gone" => file[s] - row[s].cost <= paid[s] - counted[s]
DiskBehind(s) ==
    s \notin disk.again =>
        /\ disk.counted[s] <= paid[s]
        /\ disk.row[s].at \notin {"unborn", "gone"} =>
               file[s] - disk.row[s].cost <= paid[s] - disk.counted[s]
SeenBehind(s) ==
    s \notin again /\ row[s].at # "gone" /\ seen[s] # None =>
        /\ file[s] - seen[s] <= paid[s] - counted[s]
        /\ seen[s] - row[s].cost <= paid[s] - counted[s]

MoneyInv(s) == NothingWritten(s) /\ MemoryBehind(s) /\ DiskBehind(s) /\ SeenBehind(s)
IInv == Shape /\ \A s \in Session : MoneyInv(s)

USE SpendAssumption DEF None

(* Every step keeps the types.                                             *)
LEMMA ShapeInit == Init => Shape
  BY DEF Init, Shape, Image, Nothing, NewRow, Row, Standing

LEMMA Moves ==
    ASSUME row \in [Session -> Row], NEW s \in Session, NEW to \in Standing,
           row' = [row EXCEPT ![s].at = to]
    PROVE  row' \in [Session -> Row]
  BY DEF Row

LEMMA ShapeNext == Shape /\ [Next]_vars => Shape'
<1> SUFFICES ASSUME Shape, [Next]_vars PROVE Shape'
    OBVIOUS
<1> USE DEF Shape
<1>2. ASSUME NEW s \in Session, Request(s) PROVE Shape'
  <2>1. CASE Launch(s) \/ Revive(s)
    <3>1. Admitted("preparing") \in Standing /\ row[s] \in Row
      BY DEF Admitted, Standing
    <3>2. row' = [row EXCEPT ![s].at = Admitted("preparing")]
      BY <2>1 DEF Launch, Revive, Goes
    <3>3. row' \in [Session -> Row]
      BY <3>1, <3>2, Moves
    <3> QED BY <2>1, <3>3 DEF Launch, Revive, readers, history
  <2>2. CASE Archive(s)
    <3>1. row' = [row EXCEPT ![s].at = "gone"]
      BY <2>2 DEF Archive, Goes
    <3>2. row' \in [Session -> Row]
      BY <3>1, Moves DEF Standing
    <3> QED BY <2>2, <3>2 DEF Archive, readers, history
  <2>3. CASE ResumeQueue(s)
    BY <2>3 DEF ResumeQueue, Row, readers
  <2> QED BY <1>2, <2>1, <2>2, <2>3 DEF Request
<1>3. ASSUME NEW s \in Session, Agent(s) PROVE Shape'
  <2>1. CASE Start(s) \/ End(s)
    <3>1. \E to \in Standing : row' = [row EXCEPT ![s].at = to]
      BY <2>1 DEF Start, End, Goes, Standing
    <3>2. row' \in [Session -> Row]
      BY <3>1, Moves
    <3> QED BY <2>1, <3>2 DEF Start, End, readers, history
  <2>2. CASE RemoveEntry(s)
    BY <2>2 DEF RemoveEntry, Goes, Row, Standing, history
  <2>3. CASE ForgetTranscript(s)
    BY <2>3 DEF ForgetTranscript, history
  <2>4. CASE Write(s)
    BY <2>4 DEF Write, readers
  <2>5. CASE Cut(s)
    BY <2>5 DEF Cut, readers, history
  <2> QED BY <1>3, <2>1, <2>2, <2>3, <2>4, <2>5 DEF Agent
<1>4. CASE PollBegins
    BY <1>4 DEF PollBegins, Targets, history
<1>5. CASE PollTranscripts
  <2>1. \A s \in Session : Upto(s) \in Nat
    BY DEF Upto, From
  <2> QED BY <1>5, <2>1 DEF PollTranscripts, history
<1>6. CASE PollApplies
  <2>1. Gain \in [Session -> Nat]
    BY DEF Gain, Delta, Told, Row
  <2>2. \A s \in Told : Costed(s) \in Row
    <3> SUFFICES ASSUME NEW s \in Told PROVE Costed(s) \in Row
        OBVIOUS
    <3>1. row[s] \in Row /\ seen[s] \in Nat
      BY DEF Told
    <3>2. (seen[s] >= Budget) \in BOOLEAN
      OBVIOUS
    <3>3. (row[s].paused \/ (seen[s] >= Budget /\ ~row[s].spent)) \in BOOLEAN
      OBVIOUS
    <3> QED BY <3>1, <3>2, <3>3, Zenon DEF Costed, Row
  <2> QED BY <1>6, <2>1, <2>2 DEF PollApplies, Bumped, Told
<1>7. CASE DrainQueue
  <2>1. row' = row \/ \E s \in Session : row' = [row EXCEPT ![s].at = "preparing"]
    BY <1>7 DEF DrainQueue, Goes
  <2>2. row' \in [Session -> Row]
    BY <2>1, Moves DEF Standing
  <2> QED BY <1>7, <2>2 DEF DrainQueue, readers, history
<1>8. CASE Tick \/ SetBack
    BY <1>8 DEF Tick, SetBack, readers, history
<1>9. CASE Save
    BY <1>9 DEF Save, Image, readers, history
<1>10. CASE Restart
  <2>1. \A s \in Session : row[s] \in Row /\ disk.row[s] \in Row
    OBVIOUS
  <2>2. \A s \in Session : Restored(s) \in Row
    BY <2>1 DEF Restored, NewRow, Row, Standing
  <2> QED
    BY <1>10, <2>2 DEF Restart
<1>11. CASE UNCHANGED vars
    BY <1>11 DEF vars, readers, history
<1> QED
    BY <1>2, <1>3, <1>4, <1>5, <1>6, <1>7, <1>8, <1>9, <1>10, <1>11 DEF Next, Poll

-----------------------------------------------------------------------------
(* Money is counted once.                                                  *)

LEMMA MoneyInit == Init => IInv
<1> SUFFICES ASSUME Init PROVE \A s \in Session : MoneyInv(s)
    BY ShapeInit DEF IInv
<1> QED
    BY DEF Init, Image, Nothing, NewRow, MoneyInv, NothingWritten, MemoryBehind, DiskBehind, SeenBehind

(* The rest of the money a file holds stays with a row whose cost and      *)
(* file do not change, whatever its standing becomes, short of being born. *)
LEMMA MoneyStays ==
    ASSUME NEW s \in Session, MoneyInv(s),
           row'[s].cost = row[s].cost, row'[s].at # "unborn" \/ row'[s] = row[s],
           row[s].at = "gone" => row'[s].at = "gone",
           file'[s] = file[s], paid'[s] = paid[s], counted'[s] = counted[s],
           seen'[s] = seen[s] \/ seen'[s] = None, disk' = disk, again' = again
    PROVE  MoneyInv(s)'
  BY DEF MoneyInv, NothingWritten, MemoryBehind, DiskBehind, SeenBehind

LEMMA MoneyNext == IInv /\ [Next]_vars => IInv'
<1> SUFFICES ASSUME IInv, [Next]_vars, NEW t \in Session
             PROVE  MoneyInv(t)'
    BY ShapeNext DEF IInv
<1>0. Shape /\ Shape' /\ MoneyInv(t)
    BY ShapeNext DEF IInv
<1>a. /\ row[t] \in Row /\ file[t] \in 0 .. MaxRecords
      /\ paid[t] \in Nat /\ counted[t] \in Nat
      /\ seen[t] \in Nat \cup {None} /\ tail[t] \in Nat \cup {None}
      /\ disk.row[t] \in Row /\ disk.counted[t] \in Nat
    BY <1>0 DEF Shape
<1>b. row[t].cost \in Nat /\ disk.row[t].cost \in Nat
    BY <1>a DEF Row
<1>c. ASSUME NEW s \in Session, NEW to, row[s].at # "gone", to # "unborn",
             row' = [row EXCEPT ![s].at = to],
             UNCHANGED <<file, paid, counted, seen, disk, again>>
      PROVE  MoneyInv(t)'
  <2>1. /\ row'[t].cost = row[t].cost
        /\ row'[t].at # "unborn" \/ row'[t] = row[t]
        /\ row[t].at = "gone" => row'[t].at = "gone"
    BY <1>c, <1>0, <1>a DEF Shape, Row
  <2> QED BY <2>1, <1>c, <1>0, MoneyStays
<1>d. ASSUME UNCHANGED <<row, file, paid, counted, seen, disk, again>>
      PROVE  MoneyInv(t)'
    BY <1>d, <1>0, MoneyStays
<1>1. ASSUME NEW s \in Session, Request(s) PROVE MoneyInv(t)'
  <2>1. CASE Launch(s) \/ Revive(s)
    BY <2>1, <1>c DEF Launch, Revive, Goes, Admitted, readers, history
  <2>2. CASE Archive(s)
    BY <2>2, <1>c DEF Archive, Goes, readers, history
  <2>3. CASE ResumeQueue(s)
    <3>1. row'[t].cost = row[t].cost /\ row'[t].at = row[t].at
      BY <2>3, <1>0, <1>a DEF ResumeQueue, Shape, Row
    <3> QED
      BY <2>3, <3>1, <1>0
      DEF ResumeQueue, readers, MoneyInv, NothingWritten, MemoryBehind, DiskBehind, SeenBehind
  <2> QED BY <1>1, <2>1, <2>2, <2>3 DEF Request
<1>2. ASSUME NEW s \in Session, Agent(s) PROVE MoneyInv(t)'
  <2>1. CASE Start(s) \/ End(s) \/ RemoveEntry(s)
    BY <2>1, <1>c DEF Start, End, RemoveEntry, Goes, readers, history
  <2>2. CASE ForgetTranscript(s)
    BY <2>2, <1>d DEF ForgetTranscript, history
  <2>3. CASE Write(s)
    <3>1. CASE t = s
      <4>1. file'[t] = file[t] + 1 /\ paid'[t] = paid[t] + 1
        BY <2>3, <3>1, <1>0 DEF Write, Shape
      <4>2. /\ row[t].at = "live"
            /\ UNCHANGED <<row, counted, seen, disk, again>>
        BY <2>3, <3>1 DEF Write, readers
      <4> QED
        BY <4>1, <4>2, <1>0, <1>a, <1>b
        DEF MoneyInv, NothingWritten, MemoryBehind, DiskBehind, SeenBehind
    <3>2. CASE t # s
      BY <2>3, <3>2, <1>0, MoneyStays DEF Write, readers, Shape
    <3> QED BY <3>1, <3>2
  <2>4. CASE Cut(s)
    <3>1. /\ file'[t] \in 0 .. file[t]
          /\ UNCHANGED <<row, paid, counted, seen, disk, again>>
      BY <2>4, <1>0, <1>a DEF Cut, readers, history, Shape
    <3> QED
      BY <3>1, <1>0, <1>a, <1>b
      DEF MoneyInv, NothingWritten, MemoryBehind, DiskBehind, SeenBehind
  <2> QED BY <1>2, <2>1, <2>2, <2>3, <2>4 DEF Agent
<1>3. CASE PollBegins
    BY <1>3, <1>d DEF PollBegins, history
<1>4. CASE PollTranscripts
  <2>1. /\ From(t) \in Nat /\ Upto(t) \in Nat /\ Upto(t) <= file[t]
        /\ Upto(t) > From(t) /\ ~Behind(t) => Upto(t) = file[t] \/ Upto(t) >= row[t].cost
    BY <1>a, <1>b DEF Upto, From, Behind
  <2>2. /\ t \in again => t \in again'
        /\ \/ seen'[t] = None
           \/ /\ seen'[t] = Upto(t) /\ Upto(t) > From(t)
              /\ t \notin again' => ~Behind(t)
        /\ UNCHANGED <<row, file, paid, counted, disk>>
    BY <1>4 DEF PollTranscripts
  <2> QED
    BY <2>1, <2>2, <1>0, <1>a, <1>b
    DEF MoneyInv, NothingWritten, MemoryBehind, DiskBehind, SeenBehind
<1>5. CASE PollApplies
  <2>0. /\ counted'[t] = counted[t] + Gain[t]
        /\ seen'[t] = None
        /\ row'[t] = IF t \in Told THEN Costed(t) ELSE row[t]
        /\ UNCHANGED <<file, paid, disk, again>>
    BY <1>5 DEF PollApplies, Bumped
  <2>1. CASE t \in Told
    <3>1. seen[t] \in Nat /\ row[t].at \notin {"unborn", "gone"}
      BY <2>1, <1>a DEF Told, Present
    <3>2. row'[t].at = row[t].at /\ row'[t].cost = seen[t]
      BY <2>0, <2>1, <1>a DEF Costed, Row
    <3>3. Gain[t] = IF seen[t] > row[t].cost THEN seen[t] - row[t].cost ELSE 0
      BY <2>1, <3>1, <1>b DEF Gain, Delta
    <3> QED
      BY <2>0, <3>1, <3>2, <3>3, <1>0, <1>a, <1>b
      DEF MoneyInv, NothingWritten, MemoryBehind, DiskBehind, SeenBehind
  <2>2. CASE t \notin Told
    <3>1. Gain[t] = 0
      BY <2>2 DEF Gain, Delta
    <3> QED
      BY <2>0, <2>2, <3>1, <1>0, <1>a, MoneyStays
  <2> QED BY <2>1, <2>2
<1>6. CASE DrainQueue
  <2>1. CASE row' = row
    BY <1>6, <2>1, <1>d DEF DrainQueue, readers, history
  <2>2. CASE \E s \in Session : Goes(s, "queued", "preparing")
    BY <1>6, <2>2, <1>c DEF DrainQueue, Goes, readers, history
  <2> QED BY <1>6, <2>1, <2>2 DEF DrainQueue
<1>7. CASE Tick \/ SetBack
    BY <1>7, <1>d DEF Tick, SetBack, readers, history
<1>8. CASE Save
    BY <1>8, <1>0
    DEF Save, Image, readers, history, MoneyInv, NothingWritten, MemoryBehind, DiskBehind, SeenBehind
<1>9. CASE Restart
  <2>1. /\ row'[t] = Restored(t) /\ counted'[t] = disk.counted[t]
        /\ again' = disk.again
        /\ seen'[t] = None /\ UNCHANGED <<file, paid, disk>>
    BY <1>9 DEF Restart
  <2>2. CASE disk.row[t].at \notin {"unborn", "gone"}
    <3>1. row'[t].at = "ended" /\ row'[t].cost = disk.row[t].cost
      BY <2>1, <2>2, <1>a DEF Restored, Row
    <3> QED
      BY <2>1, <2>2, <3>1, <1>0
      DEF MoneyInv, NothingWritten, MemoryBehind, DiskBehind, SeenBehind
  <2>3. CASE disk.row[t].at \in {"unborn", "gone"} /\ row[t].at = "unborn"
    <3>1. row'[t] = row[t]
      BY <2>1, <2>3 DEF Restored
    <3> QED
      BY <2>1, <2>3, <3>1, <1>0, <1>a, <1>b
      DEF MoneyInv, NothingWritten, MemoryBehind, DiskBehind, SeenBehind
  <2>4. CASE disk.row[t].at \in {"unborn", "gone"} /\ row[t].at # "unborn"
    <3>1. row'[t].at = "gone"
      BY <2>1, <2>4 DEF Restored, NewRow
    <3> QED
      BY <2>1, <2>4, <3>1, <1>0
      DEF MoneyInv, NothingWritten, MemoryBehind, DiskBehind, SeenBehind
  <2> QED BY <2>2, <2>3, <2>4
<1>10. CASE UNCHANGED vars
    BY <1>10, <1>d DEF vars, readers, history
<1> QED
    BY <1>1, <1>2, <1>3, <1>4, <1>5, <1>6, <1>7, <1>8, <1>9, <1>10 DEF Next, Poll

(* A session's money is counted once: the ledger is never given more of a  *)
(* session than it has spent, whatever is cut, saved and restored, until a *)
(* reader that begins a long transcript again falls behind its row's cost. *)
THEOREM MoneyIsCountedOnce == Spec => []CountedOnce
<1>1. Init => IInv
    BY MoneyInit
<1>2. IInv /\ [Next]_vars => IInv'
    BY MoneyNext
<1>3. IInv => CountedOnce
    BY DEF IInv, MoneyInv, MemoryBehind, CountedOnce
<1> QED
    BY <1>1, <1>2, <1>3, PTL DEF Spec

-----------------------------------------------------------------------------
(* The operator's word stands.  While its transcript has not been cut, a   *)
(* row has cost no more than that holds, and what a poll has read of it    *)
(* is no less than its cost until the reader falls behind.  So a row the   *)
(* operator lets go on stays spent and not paused, in memory as on disk.   *)

Priced(r) == r.spent => r.cost >= Budget
Stands(r) == ~r.paused /\ (r.at \notin {"unborn", "gone"} => r.spent)

Unasked(s) == row[s].at = "unborn" => s \notin decided \cup disk.decided
CostIsRead(s) ==
    /\ Priced(row[s]) /\ Priced(disk.row[s])
    /\ s \notin short =>
           /\ row[s].cost <= file[s] /\ disk.row[s].cost <= file[s]
           /\ seen[s] # None => seen[s] <= file[s]
SeenIsAhead(s) == s \notin again \cup short /\ seen[s] # None => seen[s] >= row[s].cost
MemoryStands(s) == s \in decided \ (again \cup short) => Stands(row[s])
DiskStands(s) == s \in disk.decided \ (disk.again \cup short) => Stands(disk.row[s])
WordInv(s) ==
    Unasked(s) /\ CostIsRead(s) /\ SeenIsAhead(s) /\ MemoryStands(s) /\ DiskStands(s)
OInv == Shape /\ \A s \in Session : WordInv(s)

LEMMA WordInit == Init => OInv
  BY ShapeInit
  DEF Init, Image, NewRow, Nothing, OInv, WordInv, Unasked, CostIsRead, SeenIsAhead,
      Priced, MemoryStands, DiskStands

(* A row whose standing changes while it exists keeps its word.            *)
LEMMA WordStays ==
    ASSUME NEW t \in Session, WordInv(t),
           row'[t].paused = row[t].paused, row'[t].spent = row[t].spent,
           row'[t].cost = row[t].cost,
           row'[t].at # "unborn" \/ row'[t].at = row[t].at,
           row[t].at = "gone" => row'[t].at = "gone",
           UNCHANGED <<file, seen, decided, again, short, disk>>
    PROVE  WordInv(t)'
  BY DEF WordInv, Unasked, CostIsRead, SeenIsAhead, Priced, MemoryStands, DiskStands, Stands

LEMMA WordNext == OInv /\ [Next]_vars => OInv'
<1> SUFFICES ASSUME OInv, [Next]_vars, NEW t \in Session
             PROVE  WordInv(t)'
    BY ShapeNext DEF OInv
<1>0. Shape /\ Shape' /\ WordInv(t)
    BY ShapeNext DEF OInv
<1>a. /\ row[t] \in Row /\ disk.row[t] \in Row
      /\ file[t] \in Nat /\ seen[t] \in Nat \cup {None}
    BY <1>0 DEF Shape
<1>b. row[t].cost \in Nat /\ disk.row[t].cost \in Nat
    BY <1>a DEF Row
<1>c. ASSUME NEW s \in Session, NEW to, row[s].at # "gone", to # "unborn",
             row' = [row EXCEPT ![s].at = to],
             UNCHANGED <<file, seen, decided, again, short, disk>>
      PROVE  WordInv(t)'
  <2>1. /\ row'[t].paused = row[t].paused /\ row'[t].spent = row[t].spent
        /\ row'[t].cost = row[t].cost
        /\ row'[t].at # "unborn" \/ row'[t].at = row[t].at
        /\ row[t].at = "gone" => row'[t].at = "gone"
    BY <1>c, <1>0, <1>a DEF Shape, Row
  <2> QED BY <2>1, <1>c, <1>0, WordStays
<1>d. ASSUME UNCHANGED <<row, file, seen, decided, again, short, disk>>
      PROVE  WordInv(t)'
    BY <1>d, <1>0, WordStays
<1>1. ASSUME NEW s \in Session, Request(s) PROVE WordInv(t)'
  <2>1. CASE Launch(s) \/ Revive(s)
    BY <2>1, <1>c DEF Launch, Revive, Goes, Admitted, readers, history
  <2>2. CASE Archive(s)
    BY <2>2, <1>c DEF Archive, Goes, readers, history
  <2>3. CASE ResumeQueue(s)
    <3>0. UNCHANGED <<file, seen, again, short, disk>>
      BY <2>3 DEF ResumeQueue, readers
    <3>1. CASE t = s
      <4>1. /\ row'[t].at = row[t].at /\ row'[t].spent = row[t].spent
            /\ row'[t].cost = row[t].cost /\ row'[t].paused = FALSE
            /\ row[t].at \notin {"unborn", "gone"}
            /\ t \in decided' => t \in decided \/ row[t].spent
        BY <2>3, <3>1, <1>0, <1>a DEF ResumeQueue, Shape, Row, Present
      <4> QED
        BY <3>0, <4>1, <1>0
        DEF WordInv, Unasked, CostIsRead, SeenIsAhead, Priced, MemoryStands, DiskStands, Stands
    <3>2. CASE t # s
      <4>1. row'[t] = row[t] /\ (t \in decided' <=> t \in decided)
        BY <2>3, <3>2, <1>0 DEF ResumeQueue, Shape
      <4> QED
        BY <3>0, <4>1, <1>0
        DEF WordInv, Unasked, CostIsRead, SeenIsAhead, Priced, MemoryStands, DiskStands, Stands
    <3> QED BY <3>1, <3>2
  <2> QED BY <1>1, <2>1, <2>2, <2>3 DEF Request
<1>2. ASSUME NEW s \in Session, Agent(s) PROVE WordInv(t)'
  <2>1. CASE Start(s) \/ End(s) \/ RemoveEntry(s)
    BY <2>1, <1>c DEF Start, End, RemoveEntry, Goes, readers, history
  <2>2. CASE ForgetTranscript(s)
    BY <2>2, <1>d DEF ForgetTranscript, history
  <2>3. CASE Write(s)
    <3>1. /\ file'[t] = file[t] \/ file'[t] = file[t] + 1
          /\ UNCHANGED <<row, seen, decided, again, short, disk>>
      BY <2>3, <1>0 DEF Write, readers, Shape
    <3> QED
      BY <3>1, <1>0, <1>a, <1>b
      DEF WordInv, Unasked, CostIsRead, SeenIsAhead, Priced, MemoryStands, DiskStands, Stands
  <2>4. CASE Cut(s)
    <3>1. /\ UNCHANGED <<row, seen, decided, again, disk>>
          /\ t \in short' \/ (t \notin short /\ file'[t] = file[t])
          /\ t \in short => t \in short'
      BY <2>4, <1>0 DEF Cut, readers, Shape
    <3> QED
      BY <3>1, <1>0
      DEF WordInv, Unasked, CostIsRead, SeenIsAhead, Priced, MemoryStands, DiskStands, Stands
  <2> QED BY <1>2, <2>1, <2>2, <2>3, <2>4 DEF Agent
<1>3. CASE PollBegins
    BY <1>3, <1>d DEF PollBegins, history
<1>4. CASE PollTranscripts
  <2>1. /\ From(t) \in Nat /\ Upto(t) \in Nat /\ Upto(t) <= file[t]
        /\ Upto(t) > From(t) /\ ~Behind(t) => Upto(t) = file[t] \/ Upto(t) >= row[t].cost
    BY <1>0, <1>a, <1>b DEF Upto, From, Behind, Shape
  <2>2. /\ t \in again => t \in again'
        /\ \/ seen'[t] = None
           \/ /\ seen'[t] = Upto(t) /\ Upto(t) > From(t)
              /\ t \notin again' => ~Behind(t)
        /\ UNCHANGED <<row, file, decided, short, disk>>
    BY <1>4 DEF PollTranscripts
  <2> QED
    BY <2>1, <2>2, <1>0, <1>a, <1>b
    DEF WordInv, Unasked, CostIsRead, SeenIsAhead, Priced, MemoryStands, DiskStands, Stands
<1>5. CASE PollApplies
  <2>0. /\ row'[t] = IF t \in Told THEN Costed(t) ELSE row[t]
        /\ seen'[t] = None
        /\ UNCHANGED <<file, decided, again, short, disk>>
    BY <1>5 DEF PollApplies
  <2>1. CASE t \in Told
    <3>1. /\ row'[t].at = row[t].at /\ row[t].at \notin {"unborn", "gone"}
          /\ row'[t].cost = seen[t] /\ seen[t] \in Nat
          /\ row'[t].spent = (seen[t] >= Budget)
      BY <2>0, <2>1, <1>a DEF Costed, Row, Told, Present
    <3>2. Priced(row'[t])
      BY <3>1 DEF Priced
    <3>3. ASSUME t \in decided \ (again \cup short) PROVE Stands(row'[t])
      <4>1. row[t].spent /\ ~row[t].paused
        BY <3>1, <3>3, <1>0 DEF WordInv, MemoryStands, Stands
      <4>2. seen[t] >= row[t].cost /\ row[t].cost >= Budget
        BY <3>1, <3>3, <4>1, <1>0 DEF WordInv, CostIsRead, Priced, SeenIsAhead
      <4>3. ~row'[t].paused
        BY <2>0, <2>1, <4>1, <1>a DEF Costed, Row
      <4>4. seen[t] >= Budget
        BY <4>2, <3>1, <1>b
      <4> QED BY <3>1, <4>3, <4>4 DEF Stands
    <3> QED
      BY <2>0, <3>1, <3>2, <3>3, <1>0
      DEF WordInv, Unasked, CostIsRead, SeenIsAhead, MemoryStands, DiskStands
  <2>2. CASE t \notin Told
    BY <2>0, <2>2, <1>0
    DEF WordInv, Unasked, CostIsRead, SeenIsAhead, Priced, MemoryStands, DiskStands, Stands
  <2> QED BY <2>1, <2>2
<1>6. CASE DrainQueue
  <2>1. CASE row' = row
    BY <1>6, <2>1, <1>d DEF DrainQueue, readers, history
  <2>2. CASE \E s \in Session : Goes(s, "queued", "preparing")
    BY <1>6, <2>2, <1>c DEF DrainQueue, Goes, readers, history
  <2> QED BY <1>6, <2>1, <2>2 DEF DrainQueue
<1>7. CASE Tick \/ SetBack
    BY <1>7, <1>d DEF Tick, SetBack, readers, history
<1>8. CASE Save
    BY <1>8, <1>0
    DEF Save, Image, readers, history, WordInv, Unasked, CostIsRead, SeenIsAhead,
        Priced, MemoryStands, DiskStands, Stands
<1>9. CASE Restart
  <2>1. /\ row'[t] = Restored(t) /\ decided' = disk.decided /\ again' = disk.again
        /\ seen'[t] = None
        /\ UNCHANGED <<file, short, disk>>
    BY <1>9 DEF Restart
  <2>2. CASE disk.row[t].at \notin {"unborn", "gone"}
    <3>1. /\ row'[t].at = "ended" /\ row'[t].paused = disk.row[t].paused
          /\ row'[t].spent = disk.row[t].spent /\ row'[t].cost = disk.row[t].cost
      BY <2>1, <2>2, <1>a DEF Restored, Row
    <3> QED
      BY <2>1, <2>2, <3>1, <1>0
      DEF WordInv, Unasked, CostIsRead, SeenIsAhead, Priced, MemoryStands, DiskStands, Stands
  <2>3. CASE disk.row[t].at \in {"unborn", "gone"} /\ row[t].at = "unborn"
    <3>1. row'[t] = row[t]
      BY <2>1, <2>3 DEF Restored
    <3> QED
      BY <2>1, <2>3, <3>1, <1>0
      DEF WordInv, Unasked, CostIsRead, SeenIsAhead, Priced, MemoryStands, DiskStands, Stands
  <2>4. CASE disk.row[t].at \in {"unborn", "gone"} /\ row[t].at # "unborn"
    <3>1. row'[t].at = "gone" /\ ~row'[t].paused /\ ~row'[t].spent /\ row'[t].cost = 0
      BY <2>1, <2>4 DEF Restored, NewRow
    <3> QED
      BY <2>1, <3>1, <1>0, <1>a
      DEF WordInv, Unasked, CostIsRead, SeenIsAhead, Priced, MemoryStands, DiskStands, Stands
  <2> QED BY <2>2, <2>3, <2>4
<1>10. CASE UNCHANGED vars
    BY <1>10, <1>d DEF vars, readers, history
<1> QED
    BY <1>1, <1>2, <1>3, <1>4, <1>5, <1>6, <1>7, <1>8, <1>9, <1>10 DEF Next, Poll

(* A queue that the operator lets go on past its budget is not paused by   *)
(* that budget again, through ends, revives, polls of any size, saves and  *)
(* restores, until its transcript is cut or its reader falls behind.       *)
THEOREM OverrideHolds == Spec => OverrideStands
<1>1. Init => OInv
    BY WordInit
<1>2. OInv /\ [Next]_vars => OInv'
    BY WordNext
<1>3. OInv' => [\A s \in Session \ (again' \cup short') :
                   s \in decided \cap decided' /\ row'[s].paused => row[s].paused]_vars
    BY DEF OInv, WordInv, MemoryStands, Stands, vars
<1> QED
    BY <1>1, <1>2, <1>3, PTL DEF Spec, OverrideStands

-----------------------------------------------------------------------------
(* The ledger keeps the window whole.                                      *)

(* The bucket of a minute is v; a minute without one has Nothing.          *)
Holds(l, m, v) ==
    \/ \E i \in DOMAIN l : l[i].minute = m /\ l[i].by = v
    \/ v = Nothing /\ \A i \in DOMAIN l : l[i].minute # m

Ordered(l) == \A i \in DOMAIN l : \A j \in 1 .. i - 1 : l[j].minute < l[i].minute

(* A ledger in order, with all of what the log says from a minute on.      *)
Whole(l, lg, from) ==
    /\ l \in Seq(Bucket) /\ Ordered(l)
    /\ lg \in [Minute -> [Session -> Nat]]
    /\ \A m \in from .. MaxMinute : Holds(l, m, lg[m])

LEMMA MinIs ==
    ASSUME NEW U, U \subseteq Nat, U # {}
    PROVE  Min(U) \in U /\ \A y \in U : Min(U) <= y
<1> DEFINE R == {ss \in Nat \X Nat : ss[1] < ss[2]}
<1>1. IsWellFoundedOn(R, Nat)
  BY NatLessThanWellFounded DEF OpToRel
<1>2. \A x, y \in Nat : x < y => <<x, y>> \in R
  OBVIOUS
<1> HIDE DEF R
<1>3. PICK m \in U : \A y \in U : ~(<<y, m>> \in R)
  BY <1>1, WFMin
<1>4. m \in Nat /\ \A y \in U : m <= y
  <2>1. \A y \in U : y \in Nat /\ m \in Nat /\ ~(y < m)
    BY <1>2, <1>3
  <2> QED
    BY <1>3, <2>1
<1>5. \E x \in U : \A y \in U : x =< y
  BY <1>3, <1>4
<1>6. Min(U) \in U /\ \A y \in U : Min(U) =< y
  BY <1>5 DEF Min
<1> QED
  BY <1>6

(* What SelectInSeq finds.                                                 *)
First(I) == IF I # {} THEN Min(I) ELSE 0

LEMMA FirstIs ==
    ASSUME NEW n \in Nat, NEW I, I \subseteq 1..n
    PROVE  \/ First(I) = 0 /\ I = {}
           \/ First(I) \in I /\ First(I) \in 1..n /\ \A i \in I : First(I) <= i
<1>1. CASE I = {}
  BY <1>1 DEF First
<1>2. CASE I # {}
  <2>1. I \subseteq Nat
    OBVIOUS
  <2>2. Min(I) \in I /\ \A i \in I : Min(I) <= i
    BY <1>2, <2>1, MinIs
  <2> QED
    BY <1>2, <2>2 DEF First
<1> QED
  BY <1>1, <1>2

LEMMA PrunedIs ==
    ASSUME NEW l, NEW t
    PROVE  Pruned(l, t) = LET k == First({i \in 1..Len(l) : l[i].minute >= Oldest(t)})
                          IN IF k = 0 THEN <<>> ELSE SubSeq(l, k, Len(l))
BY DEF Pruned, SelectInSeq, First

LEMMA RecordIs ==
    ASSUME NEW l, NEW at, NEW gain
    PROVE  Record(l, at, gain) =
             LET k == First({i \in 1..Len(l) : l[i].minute = at})
                 j == First({i \in 1..Len(l) : l[i].minute > at})
             IN IF k > 0 THEN [l EXCEPT ![k].by = Bumped(@, gain)]
                ELSE InsertAt(l, IF j > 0 THEN j ELSE Len(l) + 1,
                              [minute |-> at, by |-> gain])
BY DEF Record, SelectInSeq, First

LEMMA FoundIs ==
    ASSUME NEW l, NEW m
    PROVE  SelectInSeq(l, LAMBDA b : b.minute = m) = First({i \in 1..Len(l) : l[i].minute = m})
BY DEF SelectInSeq, First

LEMMA SeqIs ==
    ASSUME NEW S, NEW l \in Seq(S)
    PROVE  /\ Len(l) \in Nat /\ DOMAIN l = 1..Len(l)
           /\ \A i \in 1..Len(l) : l[i] \in S
OBVIOUS

LEMMA JoinIs ==
    ASSUME NEW S, NEW a \in Seq(S), NEW b \in Seq(S)
    PROVE  /\ a \o b \in Seq(S) /\ Len(a \o b) = Len(a) + Len(b)
           /\ \A i \in 1..Len(a) : (a \o b)[i] = a[i]
           /\ \A i \in 1..Len(b) : (a \o b)[Len(a) + i] = b[i]
OBVIOUS

LEMMA OrderIs ==
    ASSUME NEW l \in Seq(Bucket)
    PROVE  Ordered(l) <=>
             \A i, j \in 1..Len(l) : j < i => l[j].minute < l[i].minute
<1>1. Len(l) \in Nat /\ DOMAIN l = 1..Len(l)
  BY SeqIs
<1>2. \A i \in 1..Len(l) : 1 .. i - 1 = {j \in 1..Len(l) : j < i}
  BY <1>1
<1> QED
  BY <1>1, <1>2 DEF Ordered

LEMMA SuffixIs ==
    ASSUME NEW S, NEW l \in Seq(S), NEW k \in 1..Len(l)
    PROVE  /\ SubSeq(l, k, Len(l)) \in Seq(S)
           /\ Len(SubSeq(l, k, Len(l))) = Len(l) - k + 1
           /\ \A i \in 1..(Len(l) - k + 1) : SubSeq(l, k, Len(l))[i] = l[k + i - 1]
OBVIOUS

(* Pruning drops what is older than the window and nothing else.           *)
LEMMA PrunedKeeps ==
    ASSUME NEW l \in Seq(Bucket), Ordered(l), NEW t \in Nat
    PROVE  /\ Pruned(l, t) \in Seq(Bucket) /\ Ordered(Pruned(l, t))
           /\ \A m \in Int : \A v : m >= Oldest(t) /\ Holds(l, m, v) => Holds(Pruned(l, t), m, v)
<1> DEFINE n == Len(l)
           I == {i \in 1..n : l[i].minute >= Oldest(t)}
           k == First(I)
           r == Pruned(l, t)
<1>0. n \in Nat /\ DOMAIN l = 1..n /\ \A i \in 1..n : l[i] \in Bucket /\ l[i].minute \in Int
  <2>1. n \in Nat /\ DOMAIN l = 1..n /\ \A i \in 1..n : l[i] \in Bucket
    BY SeqIs
  <2>2. \A b \in Bucket : b.minute \in Int
    BY DEF Bucket, Minute
  <2> QED
    BY <2>1, <2>2
<1>1. \A i, j \in 1..n : j < i => l[j].minute < l[i].minute
  BY OrderIs
<1>2. Oldest(t) \in Int
  BY SpendAssumption DEF Oldest
<1>3. \/ k = 0 /\ I = {}
      \/ k \in I /\ k \in 1..n /\ \A i \in I : k <= i
  <2>1. I \subseteq 1..n
    OBVIOUS
  <2> HIDE DEF I, n
  <2> QED
    BY <1>0, <2>1, FirstIs
<1>4. r = IF k = 0 THEN <<>> ELSE SubSeq(l, k, n)
  BY PrunedIs
<1>5. CASE k = 0 /\ I = {}
  <2>1. r = <<>>
    BY <1>4, <1>5
  <2> HIDE DEF r
  <2>2. r \in Seq(Bucket) /\ Ordered(r) /\ DOMAIN r = {}
    BY <2>1 DEF Ordered
  <2>3. ASSUME NEW m \in Int, NEW v, m >= Oldest(t), Holds(l, m, v) PROVE Holds(r, m, v)
    <3>1. \A i \in DOMAIN l : l[i].minute # m
      BY <1>0, <1>5, <2>3
    <3> QED
      BY <2>2, <2>3, <3>1 DEF Holds
  <2> QED
    BY <2>2, <2>3 DEF r
<1>6. CASE k \in I /\ k \in 1..n /\ \A i \in I : k <= i
  <2>0. k \in 1..n /\ k # 0 /\ \A i \in I : k <= i
    BY <1>6
  <2>1. r = SubSeq(l, k, n)
    BY <1>4, <2>0
  <2> HIDE DEF k, r
  <2>2. /\ r \in Seq(Bucket) /\ Len(r) = n - k + 1 /\ DOMAIN r = 1..Len(r)
        /\ \A i \in 1..(n - k + 1) : r[i] = l[k + i - 1]
    BY <2>0, <2>1, SuffixIs, SeqIs
  <2> HIDE DEF n
  <2>3. Ordered(r)
    <3> SUFFICES ASSUME NEW i \in 1..Len(r), NEW j \in 1..Len(r), j < i
                 PROVE  r[j].minute < r[i].minute
      BY <2>2, OrderIs
    <3>1. /\ k + i - 1 \in 1..n /\ k + j - 1 \in 1..n /\ k + j - 1 < k + i - 1
          /\ r[i] = l[k + i - 1] /\ r[j] = l[k + j - 1]
      BY <1>0, <2>0, <2>2
    <3> QED
      BY <1>1, <3>1
  <2>4. ASSUME NEW m \in Int, NEW v, m >= Oldest(t), Holds(l, m, v) PROVE Holds(r, m, v)
    <3>1. ASSUME NEW i \in 1..n, l[i].minute = m
          PROVE  \E x \in DOMAIN r : r[x] = l[i]
      <4>1. k <= i
        BY <2>0, <2>4, <3>1
      <4> DEFINE x == i - k + 1
      <4>2. x \in 1..(n - k + 1) /\ x \in DOMAIN r /\ k + x - 1 = i
        BY <1>0, <2>0, <2>2, <4>1
      <4> HIDE DEF x
      <4> QED
        BY <2>2, <4>2
    <3>2. \A x \in DOMAIN r : \E i \in 1..n : r[x] = l[i]
      <4> SUFFICES ASSUME NEW x \in 1..(n - k + 1) PROVE \E i \in 1..n : r[x] = l[i]
        BY <2>2
      <4>1. k + x - 1 \in 1..n
        BY <1>0, <2>0
      <4> QED
        BY <2>2, <4>1
    <3>3. CASE \E i \in DOMAIN l : l[i].minute = m /\ l[i].by = v
      <4>1. PICK i \in 1..n : l[i].minute = m /\ l[i].by = v
        BY <1>0, <3>3
      <4> QED
        BY <3>1, <4>1 DEF Holds
    <3>4. CASE v = Nothing /\ \A i \in DOMAIN l : l[i].minute # m
      <4>1. \A x \in DOMAIN r : r[x].minute # m
        BY <1>0, <3>2, <3>4
      <4> QED
        BY <3>4, <4>1 DEF Holds
    <3> QED
      BY <2>4, <3>3, <3>4 DEF Holds
  <2> QED
    BY <2>2, <2>3, <2>4 DEF r
<1> QED
  BY <1>3, <1>5, <1>6

(* What becomes of a sequence that takes in one more.                      *)
LEMMA InsertIs ==
    ASSUME NEW S, NEW l \in Seq(S), NEW e \in S, NEW k \in 1..(Len(l) + 1)
    PROVE  /\ InsertAt(l, k, e) \in Seq(S) /\ Len(InsertAt(l, k, e)) = Len(l) + 1
           /\ \A i \in 1..(k - 1) : InsertAt(l, k, e)[i] = l[i]
           /\ InsertAt(l, k, e)[k] = e
           /\ \A i \in k..Len(l) : InsertAt(l, k, e)[i + 1] = l[i]
<1> DEFINE a == SubSeq(l, 1, k - 1)
           b == SubSeq(l, k, Len(l))
           c == <<e>>
           r == InsertAt(l, k, e)
<1>0. Len(l) \in Nat /\ k \in Nat
  BY SeqIs
<1>1. a \in Seq(S) /\ Len(a) = k - 1 /\ \A i \in 1..(k - 1) : a[i] = l[i]
  BY <1>0
<1>2. b \in Seq(S) /\ Len(b) = Len(l) - k + 1
      /\ \A i \in 1..(Len(l) - k + 1) : b[i] = l[k + i - 1]
  BY <1>0
<1>3. c \in Seq(S) /\ Len(c) = 1 /\ c[1] = e
  OBVIOUS
<1>4. r = (a \o c) \o b
  BY DEF InsertAt
<1> HIDE DEF a, b, c, r
<1>5. a \o c \in Seq(S) /\ Len(a \o c) = k
      /\ (\A i \in 1..(k - 1) : (a \o c)[i] = l[i]) /\ (a \o c)[k] = e
  <2>1. /\ a \o c \in Seq(S) /\ Len(a \o c) = Len(a) + Len(c)
        /\ \A i \in 1..Len(a) : (a \o c)[i] = a[i]
        /\ \A i \in 1..Len(c) : (a \o c)[Len(a) + i] = c[i]
    <3>1. a \in Seq(S) /\ c \in Seq(S)
      BY <1>1, <1>3
    <3>2. a \o c \in Seq(S) /\ Len(a \o c) = Len(a) + Len(c)
      BY <3>1, JoinIs
    <3>3. \A i \in 1..Len(a) : (a \o c)[i] = a[i]
      BY <3>1, JoinIs
    <3>4. \A i \in 1..Len(c) : (a \o c)[Len(a) + i] = c[i]
      BY <3>1, JoinIs
    <3> QED
      BY <3>2, <3>3, <3>4
  <2>2. 1 \in 1..Len(c) /\ Len(a) + 1 = k /\ Len(a) + Len(c) = k
    BY <1>0, <1>1, <1>3
  <2>3. (a \o c)[Len(a) + 1] = c[1]
    BY <2>1, <2>2
  <2> QED
    BY <1>1, <1>3, <2>1, <2>2, <2>3
<1> DEFINE d == a \o c
<1>6. d \in Seq(S) /\ Len(d) = k
      /\ (\A i \in 1..(k - 1) : d[i] = l[i]) /\ d[k] = e /\ r = d \o b
  BY <1>4, <1>5
<1> HIDE DEF d
<1>7. /\ d \o b \in Seq(S) /\ Len(d \o b) = Len(d) + Len(b)
      /\ \A i \in 1..Len(d) : (d \o b)[i] = d[i]
      /\ \A i \in 1..Len(b) : (d \o b)[Len(d) + i] = b[i]
  <2>1. d \in Seq(S) /\ b \in Seq(S)
    BY <1>2, <1>6
  <2> QED
    BY <2>1, JoinIs
<1>8. r \in Seq(S) /\ Len(r) = Len(l) + 1
  BY <1>0, <1>2, <1>6, <1>7
<1>9. (\A i \in 1..(k - 1) : r[i] = l[i]) /\ r[k] = e
  BY <1>0, <1>6, <1>7
<1>10. ASSUME NEW i \in k..Len(l) PROVE r[i + 1] = l[i]
  <2> DEFINE x == i + 1 - k
  <2>1. x \in 1..Len(b) /\ x \in 1..(Len(l) - k + 1) /\ k + x = i + 1 /\ k + x - 1 = i
    BY <1>0, <1>2
  <2> HIDE DEF x
  <2>2. (d \o b)[Len(d) + x] = b[x]
    BY <1>7, <2>1
  <2>3. r[k + x] = b[x]
    BY <1>6, <2>2
  <2>4. b[x] = l[k + x - 1]
    BY <1>2, <2>1
  <2> QED
    BY <2>1, <2>3, <2>4
<1> QED
  BY <1>8, <1>9, <1>10 DEF r

(* Recording an increase in a minute adds it to that minute's bucket.      *)
LEMMA RecordKeeps ==
    ASSUME NEW l \in Seq(Bucket), Ordered(l), NEW at \in Minute, NEW gain \in [Session -> Nat]
    PROVE  /\ Record(l, at, gain) \in Seq(Bucket) /\ Ordered(Record(l, at, gain))
           /\ \A m, v : m # at /\ Holds(l, m, v) => Holds(Record(l, at, gain), m, v)
           /\ \A v : Holds(l, at, v) => Holds(Record(l, at, gain), at, Bumped(v, gain))
<1> DEFINE n == Len(l)
           I == {i \in 1..n : l[i].minute = at}
           J == {i \in 1..n : l[i].minute > at}
           k == First(I)
           j == First(J)
           p == IF j > 0 THEN j ELSE n + 1
           e == [minute |-> at, by |-> gain]
           r == Record(l, at, gain)
<1>0. /\ n \in Nat /\ DOMAIN l = 1..n /\ at \in Int
      /\ \A i \in 1..n : l[i] \in Bucket /\ l[i].minute \in Int /\ l[i].by \in [Session -> Nat]
  <2>1. n \in Nat /\ DOMAIN l = 1..n /\ \A i \in 1..n : l[i] \in Bucket
    BY SeqIs
  <2>2. \A b \in Bucket : b.minute \in Int /\ b.by \in [Session -> Nat]
    BY DEF Bucket, Minute
  <2>3. at \in Int
    BY DEF Minute
  <2> QED
    BY <2>1, <2>2, <2>3
<1>1. \A x, y \in 1..n : y < x => l[y].minute < l[x].minute
  BY OrderIs
<1>2. /\ \/ k = 0 /\ I = {}
         \/ k \in I /\ k \in 1..n /\ \A i \in I : k <= i
      /\ \/ j = 0 /\ J = {}
         \/ j \in J /\ j \in 1..n /\ \A i \in J : j <= i
  <2>1. I \subseteq 1..n /\ J \subseteq 1..n
    OBVIOUS
  <2> HIDE DEF I, J, n
  <2> QED
    BY <1>0, <2>1, FirstIs
<1>3. r = IF k > 0 THEN [l EXCEPT ![k].by = Bumped(@, gain)] ELSE InsertAt(l, p, e)
  BY RecordIs
<1>4. CASE k \in I /\ k \in 1..n
  <2>0. k \in 1..n /\ l[k].minute = at /\ k > 0
    BY <1>4, <1>0
  <2>1. r = [l EXCEPT ![k] = [l[k] EXCEPT !.by = Bumped(l[k].by, gain)]]
    BY <1>0, <1>3, <2>0
  <2> HIDE DEF k, r
  <2> DEFINE c == [l[k] EXCEPT !.by = Bumped(l[k].by, gain)]
  <2>2. c \in Bucket /\ c.minute = at /\ c.by = Bumped(l[k].by, gain)
    <3>1. l[k] \in Bucket /\ l[k].by \in [Session -> Nat]
      BY <1>0, <2>0
    <3>2. Bumped(l[k].by, gain) \in [Session -> Nat]
      BY <3>1 DEF Bumped
    <3> QED
      BY <2>0, <3>1, <3>2 DEF Bucket
  <2>3. r = [l EXCEPT ![k] = c]
    BY <2>1
  <2> HIDE DEF c
  <2>4. /\ r \in Seq(Bucket) /\ DOMAIN r = 1..n /\ Len(r) = n
        /\ r[k] = c /\ \A i \in (1..n) \ {k} : r[i] = l[i]
    BY <1>0, <2>0, <2>2, <2>3
  <2>5. \A i \in 1..n : r[i].minute = l[i].minute
    BY <2>0, <2>2, <2>4
  <2> HIDE DEF n
  <2>6. Ordered(r)
    BY <1>1, <2>4, <2>5, OrderIs
  <2>7. ASSUME NEW m, NEW v, m # at, Holds(l, m, v) PROVE Holds(r, m, v)
    <3>1. CASE \E i \in DOMAIN l : l[i].minute = m /\ l[i].by = v
      <4>1. PICK i \in 1..n : l[i].minute = m /\ l[i].by = v
        BY <1>0, <3>1
      <4>2. i # k
        BY <2>0, <2>7, <4>1
      <4> QED
        BY <2>4, <4>1, <4>2 DEF Holds
    <3>2. CASE v = Nothing /\ \A i \in DOMAIN l : l[i].minute # m
      BY <1>0, <2>4, <2>5, <3>2 DEF Holds
    <3> QED
      BY <2>7, <3>1, <3>2 DEF Holds
  <2>8. ASSUME NEW v, Holds(l, at, v) PROVE Holds(r, at, Bumped(v, gain))
    <3>1. PICK i \in 1..n : l[i].minute = at /\ l[i].by = v
      BY <1>0, <2>0, <2>8 DEF Holds
    <3>2. i = k
      <4>1. ~(i < k) /\ ~(k < i)
        BY <1>0, <1>1, <2>0, <3>1
      <4> QED
        BY <1>0, <2>0, <4>1
    <3> QED
      BY <2>0, <2>2, <2>4, <3>1, <3>2 DEF Holds
  <2> QED
    BY <2>4, <2>6, <2>7, <2>8 DEF r
<1>5. CASE k = 0 /\ I = {}
  <2>0. \A i \in 1..n : l[i].minute # at
    BY <1>5
  <2>1. r = InsertAt(l, p, e)
    BY <1>3, <1>5
  <2>2. /\ p \in 1..(n + 1)
        /\ \A i \in 1..n : i < p => l[i].minute < at
        /\ \A i \in 1..n : i >= p => l[i].minute > at
    <3>1. CASE j = 0 /\ J = {}
      <4>1. p = n + 1 /\ \A i \in 1..n : ~(l[i].minute > at)
        BY <3>1
      <4> HIDE DEF p, n, j
      <4> QED
        BY <1>0, <2>0, <4>1
    <3>2. CASE j \in J /\ j \in 1..n /\ \A i \in J : j <= i
      <4>1. p = j /\ j \in 1..n /\ l[j].minute > at
        BY <1>0, <3>2
      <4>2. \A i \in 1..n : l[i].minute > at => j <= i
        BY <3>2
      <4> HIDE DEF j, p, n
      <4>3. \A i \in 1..n : i < p => l[i].minute < at
        BY <1>0, <2>0, <4>1, <4>2
      <4>4. \A i \in 1..n : i >= p => l[i].minute > at
        BY <1>0, <1>1, <4>1
      <4> QED
        BY <1>0, <4>1, <4>3, <4>4
    <3> QED
      BY <1>2, <3>1, <3>2
  <2>3. e \in Bucket /\ e.minute = at /\ e.by = gain
    BY DEF Bucket
  <2> HIDE DEF p, e, r, k, j, I, J
  <2>4. /\ r \in Seq(Bucket) /\ Len(r) = n + 1 /\ DOMAIN r = 1..(n + 1)
        /\ \A i \in 1..(p - 1) : r[i] = l[i]
        /\ r[p] = e
        /\ \A i \in p..n : r[i + 1] = l[i]
    <3>1. /\ InsertAt(l, p, e) \in Seq(Bucket) /\ Len(InsertAt(l, p, e)) = n + 1
          /\ \A i \in 1..(p - 1) : InsertAt(l, p, e)[i] = l[i]
          /\ InsertAt(l, p, e)[p] = e
          /\ \A i \in p..n : InsertAt(l, p, e)[i + 1] = l[i]
      BY <2>2, <2>3, InsertIs
    <3>2. DOMAIN InsertAt(l, p, e) = 1..(n + 1)
      BY <3>1, SeqIs
    <3> QED
      BY <2>1, <3>1, <3>2
  <2> HIDE DEF n
  <2>5. \A x \in 1..(n + 1) :
           \/ x < p /\ x \in 1..n /\ r[x] = l[x]
           \/ x = p /\ r[x] = e
           \/ x > p /\ x - 1 \in 1..n /\ x - 1 >= p /\ r[x] = l[x - 1]
    <3> SUFFICES ASSUME NEW x \in 1..(n + 1)
                 PROVE \/ x < p /\ x \in 1..n /\ r[x] = l[x]
                       \/ x = p /\ r[x] = e
                       \/ x > p /\ x - 1 \in 1..n /\ x - 1 >= p /\ r[x] = l[x - 1]
      OBVIOUS
    <3>1. CASE x < p
      <4>1. x \in 1..(p - 1) /\ x \in 1..n
        BY <1>0, <2>2, <3>1
      <4> QED
        BY <2>4, <3>1, <4>1
    <3>2. CASE x = p
      BY <2>4, <3>2
    <3>3. CASE x > p
      <4>1. x - 1 \in p..n /\ x - 1 \in 1..n /\ x - 1 >= p /\ (x - 1) + 1 = x
        BY <1>0, <2>2, <3>3
      <4>2. r[(x - 1) + 1] = l[x - 1]
        BY <2>4, <4>1
      <4> QED
        BY <3>3, <4>1, <4>2
    <3> QED
      BY <1>0, <2>2, <3>1, <3>2, <3>3
  <2>6. \A i \in 1..n : \E x \in 1..(n + 1) : r[x] = l[i]
    <3> SUFFICES ASSUME NEW i \in 1..n PROVE \E x \in 1..(n + 1) : r[x] = l[i]
      OBVIOUS
    <3>1. CASE i < p
      <4>1. i \in 1..(p - 1) /\ i \in 1..(n + 1)
        BY <1>0, <2>2, <3>1
      <4> QED
        BY <2>4, <4>1
    <3>2. CASE i >= p
      <4>1. i \in p..n /\ i + 1 \in 1..(n + 1)
        BY <1>0, <2>2, <3>2
      <4> QED
        BY <2>4, <4>1
    <3> QED
      BY <1>0, <2>2, <3>1, <3>2
  <2>7. Ordered(r)
    <3> SUFFICES ASSUME NEW x \in 1..(n + 1), NEW y \in 1..(n + 1), y < x
                 PROVE  r[y].minute < r[x].minute
      BY <2>4, OrderIs
    <3>1. CASE x < p
      <4>1. x \in 1..n /\ y \in 1..n /\ y < p /\ x # p /\ ~(x > p)
            /\ y # p /\ ~(y > p)
        BY <1>0, <2>2, <3>1
      <4>2. r[x] = l[x]
        BY <2>5, <4>1
      <4>3. r[y] = l[y]
        BY <2>5, <4>1
      <4>4. l[y].minute < l[x].minute
        BY <1>1, <4>1
      <4> QED
        BY <4>2, <4>3, <4>4
    <3>2. CASE x = p
      <4>1. y \in 1..n /\ y < p /\ y # p /\ ~(y > p)
        BY <1>0, <2>2, <3>2
      <4>2. r[x] = e
        BY <2>4, <3>2
      <4>3. r[y] = l[y]
        BY <2>5, <4>1
      <4> QED
        BY <2>2, <2>3, <4>1, <4>2, <4>3
    <3>3. CASE x > p
      <4>1. x - 1 \in 1..n /\ x - 1 >= p /\ r[x] = l[x - 1]
        BY <1>0, <2>2, <2>5, <3>3
      <4>2. CASE y < p
        <5>1. y \in 1..n /\ r[y] = l[y] /\ y < x - 1
          BY <1>0, <2>2, <2>5, <4>1, <4>2
        <5> QED
          BY <1>1, <4>1, <5>1
      <4>3. CASE y = p
        <5>1. r[y] = e
          BY <2>4, <4>3
        <5> QED
          BY <2>2, <2>3, <4>1, <5>1
      <4>4. CASE y > p
        <5>1. y - 1 \in 1..n /\ r[y] = l[y - 1] /\ y - 1 < x - 1
          BY <1>0, <2>2, <2>5, <4>4
        <5> QED
          BY <1>1, <4>1, <5>1
      <4> QED
        BY <1>0, <2>2, <4>2, <4>3, <4>4
    <3> QED
      BY <1>0, <2>2, <3>1, <3>2, <3>3
  <2>8. \A x \in 1..(n + 1) : r[x] = e \/ \E i \in 1..n : r[x] = l[i]
    BY <2>5
  <2>9. ASSUME NEW m, NEW v, m # at, Holds(l, m, v) PROVE Holds(r, m, v)
    <3>1. CASE \E i \in DOMAIN l : l[i].minute = m /\ l[i].by = v
      BY <1>0, <2>4, <2>6, <3>1 DEF Holds
    <3>2. CASE v = Nothing /\ \A i \in DOMAIN l : l[i].minute # m
      <4>1. \A x \in DOMAIN r : r[x].minute # m
        BY <1>0, <2>3, <2>4, <2>8, <2>9, <3>2
      <4> QED
        BY <3>2, <4>1 DEF Holds
    <3> QED
      BY <2>9, <3>1, <3>2 DEF Holds
  <2>10. ASSUME NEW v, Holds(l, at, v) PROVE Holds(r, at, Bumped(v, gain))
    <3>1. v = Nothing
      BY <1>0, <2>0, <2>10 DEF Holds
    <3>2. Bumped(v, gain) = gain
      BY <3>1 DEF Bumped, Nothing
    <3>3. p \in DOMAIN r /\ r[p].minute = at /\ r[p].by = gain
      BY <2>2, <2>3, <2>4
    <3> QED
      BY <3>2, <3>3 DEF Holds
  <2> QED
    BY <2>4, <2>7, <2>9, <2>10 DEF r
<1> QED
  BY <1>2, <1>4, <1>5

(* The window in memory and on disk, from the latest minute that was ever  *)
(* the first of one.                                                       *)
WInv ==
    /\ Shape
    /\ now \in Minute /\ peak \in Minute /\ now <= peak
    /\ Whole(ledger, log, Oldest(peak))
    /\ Whole(disk.ledger, disk.log, Oldest(peak))

LEMMA OldestGrows ==
    ASSUME NEW t \in Nat, NEW u \in Nat, t <= u
    PROVE  /\ Oldest(t) \in Nat /\ Oldest(u) \in Nat /\ Oldest(t) <= Oldest(u)
           /\ Oldest(u) <= u
BY SpendAssumption DEF Oldest

LEMMA LaterIsWhole ==
    ASSUME NEW l, NEW lg, NEW a \in Nat, NEW b \in Nat, a <= b, Whole(l, lg, a)
    PROVE  Whole(l, lg, b)
<1>1. b .. MaxMinute \subseteq a .. MaxMinute
  BY SpendAssumption
<1> QED
  BY <1>1 DEF Whole

LEMMA PrunedIsWhole ==
    ASSUME NEW l, NEW lg, NEW t \in Nat, NEW u \in Nat, t <= u, Whole(l, lg, Oldest(u))
    PROVE  Whole(Pruned(l, t), lg, Oldest(u))
<1>1. l \in Seq(Bucket) /\ Ordered(l) /\ lg \in [Minute -> [Session -> Nat]]
      /\ \A m \in Oldest(u) .. MaxMinute : Holds(l, m, lg[m])
  BY DEF Whole
<1>2. /\ Pruned(l, t) \in Seq(Bucket) /\ Ordered(Pruned(l, t))
      /\ \A m \in Int : \A v : m >= Oldest(t) /\ Holds(l, m, v) => Holds(Pruned(l, t), m, v)
  BY <1>1, PrunedKeeps
<1>3. \A m \in Oldest(u) .. MaxMinute : m \in Int /\ m >= Oldest(t)
  BY OldestGrows, SpendAssumption
<1>4. \A m \in Oldest(u) .. MaxMinute : Holds(Pruned(l, t), m, lg[m])
  BY <1>1, <1>2, <1>3
<1> QED
  BY <1>1, <1>2, <1>4 DEF Whole

LEMMA RecordIsWhole ==
    ASSUME NEW l, NEW lg, NEW at \in Minute, NEW from \in Nat,
           NEW gain \in [Session -> Nat], Whole(l, lg, from)
    PROVE  Whole(Record(l, at, gain), [lg EXCEPT ![at] = Bumped(@, gain)], from)
<1> DEFINE r == Record(l, at, gain)
           g == [lg EXCEPT ![at] = Bumped(@, gain)]
<1>1. l \in Seq(Bucket) /\ Ordered(l) /\ lg \in [Minute -> [Session -> Nat]]
      /\ \A m \in from .. MaxMinute : Holds(l, m, lg[m])
  BY DEF Whole
<1>2. /\ r \in Seq(Bucket) /\ Ordered(r)
      /\ \A m, v : m # at /\ Holds(l, m, v) => Holds(r, m, v)
      /\ \A v : Holds(l, at, v) => Holds(r, at, Bumped(v, gain))
  BY <1>1, RecordKeeps
<1>3. /\ g \in [Minute -> [Session -> Nat]]
      /\ g[at] = Bumped(lg[at], gain)
      /\ \A m \in Minute : m # at => g[m] = lg[m]
  <2>1. Bumped(lg[at], gain) \in [Session -> Nat]
    BY <1>1 DEF Bumped
  <2> QED
    BY <1>1, <2>1
<1> HIDE DEF r, g
<1>4. ASSUME NEW m \in from .. MaxMinute PROVE Holds(r, m, g[m])
  <2>1. m \in Minute
    BY SpendAssumption DEF Minute
  <2>2. CASE m = at
    BY <1>1, <1>2, <1>3, <2>2
  <2>3. CASE m # at
    BY <1>1, <1>2, <1>3, <2>1, <2>3
  <2> QED
    BY <2>2, <2>3
<1>5. Whole(r, g, from)
  BY <1>2, <1>3, <1>4 DEF Whole
<1> QED
  BY <1>5 DEF r, g

LEMMA NoGain ==
    ASSUME NEW lg \in [Minute -> [Session -> Nat]], NEW at \in Minute,
           NEW gain \in [Session -> Nat], \A s \in Session : gain[s] = 0
    PROVE  [lg EXCEPT ![at] = Bumped(@, gain)] = lg
<1>1. lg[at] \in [Session -> Nat]
  OBVIOUS
<1>2. \A s \in Session : lg[at][s] + gain[s] = lg[at][s]
  BY <1>1
<1>3. Bumped(lg[at], gain) = lg[at]
  BY <1>1, <1>2 DEF Bumped
<1> QED
  BY <1>3

LEMMA WindowInit == ASSUME Init PROVE WInv
<1>1. 0 \in Minute
  BY SpendAssumption DEF Minute
<1>2. <<>> \in Seq(Bucket) /\ Ordered(<<>>)
  <2>1. <<>> \in Seq(Bucket) /\ DOMAIN <<>> = {}
    OBVIOUS
  <2> QED
    BY <2>1 DEF Ordered
<1>3. \A m : Holds(<<>>, m, Nothing)
  BY DEF Holds
<1>4. /\ log \in [Minute -> [Session -> Nat]] /\ \A m \in Minute : log[m] = Nothing
  BY DEF Init, Nothing
<1>5. Whole(<<>>, log, Oldest(peak))
  <2>1. peak = 0 /\ Oldest(0) = 0
    BY SpendAssumption DEF Init, Oldest
  <2>2. \A m \in Oldest(peak) .. MaxMinute : m \in Minute
    BY <2>1 DEF Minute
  <2> QED
    BY <1>2, <1>3, <1>4, <2>2 DEF Whole
<1>6. ledger = <<>> /\ disk.ledger = <<>> /\ disk.log = log
  BY DEF Init, Image
<1> QED
  BY <1>1, <1>5, <1>6, ShapeInit DEF WInv, Init

(* What a poll has found is booked in the minute it is applied.            *)
LEMMA PollIsWhole ==
    ASSUME WInv, PollApplies
    PROVE  Whole(ledger', log', Oldest(peak))
<1>1. /\ now \in Minute /\ now \in Nat /\ peak \in Nat /\ now <= peak
      /\ Whole(ledger, log, Oldest(peak))
  BY DEF WInv, Minute
<1>2. Oldest(peak) \in Nat
  BY <1>1, OldestGrows
<1>3. Gain \in [Session -> Nat] /\ \A s \in Session : Delta(s) = 0 => Gain[s] = 0
  <2>1. \A s \in Session : Delta(s) \in Int
    BY DEF WInv, Shape, Delta, Told, Row
  <2> QED
    BY <2>1 DEF Gain
<1> DEFINE g == [log EXCEPT ![now] = Bumped(@, Gain)]
           r == Record(ledger, now, Gain)
<1>4. log' = g
  BY DEF PollApplies
<1>5. Whole(r, g, Oldest(peak))
  BY <1>1, <1>2, <1>3, RecordIsWhole
<1>6. (\A s \in Session : Gain[s] = 0) => g = log
  <2>1. log \in [Minute -> [Session -> Nat]]
    BY <1>1 DEF Whole
  <2> QED
    BY <1>1, <1>3, <2>1, NoGain
<1> HIDE DEF g, r
<1>7. Whole(Pruned(r, now), g, Oldest(peak))
  BY <1>1, <1>5, PrunedIsWhole
<1>8. Whole(Pruned(ledger, now), log, Oldest(peak))
  BY <1>1, PrunedIsWhole
<1>9. CASE \A s \in Session : Delta(s) = 0
  <2>1. ledger' = ledger
    BY <1>9 DEF PollApplies
  <2>2. g = log
    BY <1>3, <1>6, <1>9
  <2> QED
    BY <1>1, <1>4, <2>1, <2>2
<1>10. CASE ~(\A s \in Session : Delta(s) = 0) /\ \A s \in Session : Gain[s] = 0
  <2>1. ledger' = Pruned(ledger, now)
    BY <1>10 DEF PollApplies
  <2> QED
    BY <1>4, <1>6, <1>8, <1>10, <2>1
<1>11. CASE ~(\A s \in Session : Delta(s) = 0) /\ ~(\A s \in Session : Gain[s] = 0)
  <2>1. ledger' = Pruned(r, now)
    BY <1>11 DEF PollApplies, r
  <2> QED
    BY <1>4, <1>7, <2>1
<1> QED
  BY <1>9, <1>10, <1>11

LEMMA WindowNext ==
    ASSUME WInv, [Next]_vars
    PROVE  WInv'
<1>0. Shape'
  BY ShapeNext DEF WInv
<1>1. /\ now \in Minute /\ peak \in Minute /\ now \in Nat /\ peak \in Nat /\ now <= peak
      /\ Whole(ledger, log, Oldest(peak))
      /\ Whole(disk.ledger, disk.log, Oldest(peak))
  BY DEF WInv, Minute
<1>2. ASSUME UNCHANGED <<ledger, log, now, peak, disk>> PROVE WInv'
  <2>1. Oldest(peak)' = Oldest(peak)
    BY <1>2 DEF Oldest
  <2> QED
    BY <1>0, <1>1, <1>2, <2>1 DEF WInv
<1>3. ASSUME NEW s \in Session, Request(s) PROVE WInv'
  BY <1>2, <1>3 DEF Request, Launch, Revive, Archive, ResumeQueue, readers, history
<1>4. ASSUME NEW s \in Session, Agent(s) PROVE WInv'
  BY <1>2, <1>4 DEF Agent, Start, RemoveEntry, ForgetTranscript, End, Write, Cut, history
<1>5. CASE PollBegins \/ PollTranscripts \/ DrainQueue
  BY <1>2, <1>5 DEF PollBegins, PollTranscripts, DrainQueue, history
<1>6. CASE PollApplies
  <2>1. UNCHANGED <<now, peak, disk>>
    BY <1>6 DEF PollApplies
  <2>2. Whole(ledger', log', Oldest(peak))
    BY <1>6, PollIsWhole
  <2>3. Oldest(peak)' = Oldest(peak)
    BY <2>1 DEF Oldest
  <2> QED
    BY <1>0, <1>1, <2>1, <2>2, <2>3 DEF WInv
<1>7. CASE Tick
  <2>1. /\ UNCHANGED <<ledger, disk, log>>
        /\ now' \in Minute /\ peak' \in Minute /\ now' <= peak'
        /\ peak' \in Nat /\ peak <= peak'
    BY <1>1, <1>7, SpendAssumption DEF Tick, Minute
  <2>2. Oldest(peak)' = Oldest(peak')
    BY DEF Oldest
  <2>3. Oldest(peak) \in Nat /\ Oldest(peak') \in Nat /\ Oldest(peak) <= Oldest(peak')
    BY <1>1, <2>1, OldestGrows
  <2>4. Whole(ledger, log, Oldest(peak')) /\ Whole(disk.ledger, disk.log, Oldest(peak'))
    BY <1>1, <2>3, LaterIsWhole
  <2> QED
    BY <1>0, <2>1, <2>2, <2>4 DEF WInv
<1>8. CASE SetBack
  <2>1. /\ UNCHANGED <<ledger, disk, log, peak>>
        /\ now' \in Minute /\ now' <= peak
    BY <1>1, <1>8, SpendAssumption DEF SetBack, Minute, history
  <2>2. Oldest(peak)' = Oldest(peak)
    BY <2>1 DEF Oldest
  <2> QED
    BY <1>0, <1>1, <2>1, <2>2 DEF WInv
<1>9. CASE Save
  <2>1. UNCHANGED <<ledger, log, now, peak>> /\ disk'.ledger = ledger /\ disk'.log = log
    BY <1>9 DEF Save, Image, history
  <2>2. Oldest(peak)' = Oldest(peak)
    BY <2>1 DEF Oldest
  <2> QED
    BY <1>0, <1>1, <2>1, <2>2 DEF WInv
<1>10. CASE Restart
  <2>1. UNCHANGED <<now, peak, disk>> /\ log' = disk.log
        /\ ledger' = Pruned(disk.ledger, now)
    BY <1>10 DEF Restart, RestoredLedger
  <2>2. Whole(Pruned(disk.ledger, now), disk.log, Oldest(peak))
    BY <1>1, PrunedIsWhole
  <2>3. Oldest(peak)' = Oldest(peak)
    BY <2>1 DEF Oldest
  <2> QED
    BY <1>0, <1>1, <2>1, <2>2, <2>3 DEF WInv
<1>11. CASE UNCHANGED vars
  BY <1>2, <1>11 DEF vars, history
<1> QED
  BY <1>3, <1>4, <1>5, <1>6, <1>7, <1>8, <1>9, <1>10, <1>11 DEF Next, Poll

(* A ledger in order has one bucket a minute, which is the one it finds.   *)
LEMMA WholeIsWhole ==
    ASSUME WInv
    PROVE  WindowIsWhole
<1>1. /\ ledger \in Seq(Bucket) /\ Ordered(ledger)
      /\ \A m \in Oldest(peak) .. MaxMinute : Holds(ledger, m, log[m])
  BY DEF WInv, Whole
<1>2. Len(ledger) \in Nat /\ DOMAIN ledger = 1..Len(ledger)
      /\ \A i \in 1..Len(ledger) : ledger[i].minute \in Int
  <2>1. \A b \in Bucket : b.minute \in Int
    BY DEF Bucket, Minute
  <2> QED
    BY <1>1, <2>1, SeqIs
<1>3. ASSUME NEW m \in Oldest(peak) .. MaxMinute
      PROVE  LET at == SelectInSeq(ledger, LAMBDA b : b.minute = m)
             IN log[m] = IF at = 0 THEN Nothing ELSE ledger[at].by
  <2> DEFINE I == {i \in 1..Len(ledger) : ledger[i].minute = m}
             at == First(I)
  <2>1. SelectInSeq(ledger, LAMBDA b : b.minute = m) = at
    BY FoundIs
  <2>2. \/ at = 0 /\ I = {}
        \/ at \in I /\ at \in 1..Len(ledger)
    <3>1. I \subseteq 1..Len(ledger)
      OBVIOUS
    <3> HIDE DEF I
    <3> QED
      BY <1>2, <3>1, FirstIs
  <2>3. Holds(ledger, m, log[m])
    BY <1>1
  <2>4. log[m] = IF at = 0 THEN Nothing ELSE ledger[at].by
    <3>1. CASE at = 0 /\ I = {}
      <4>1. \A i \in DOMAIN ledger : ledger[i].minute # m
        BY <1>2, <3>1
      <4> HIDE DEF at, I
      <4> QED
        BY <2>3, <3>1, <4>1 DEF Holds
    <3>2. CASE at \in I /\ at \in 1..Len(ledger)
      <4>0. \A i \in I : ledger[i].minute = m
        OBVIOUS
      <4> HIDE DEF at, I
      <4>1. at \in 1..Len(ledger) /\ ledger[at].minute = m /\ at # 0
        BY <1>2, <3>2, <4>0
      <4>2. PICK i \in 1..Len(ledger) : ledger[i].minute = m /\ ledger[i].by = log[m]
        BY <1>2, <2>3, <4>1 DEF Holds
      <4>3. \A x, y \in 1..Len(ledger) : y < x => ledger[y].minute < ledger[x].minute
        BY <1>1, OrderIs
      <4>4. ~(i < at) /\ ~(at < i)
        BY <1>2, <4>1, <4>2, <4>3
      <4>5. i = at
        BY <1>2, <4>1, <4>4
      <4> QED
        BY <4>1, <4>2, <4>5
    <3> QED
      BY <2>2, <3>1, <3>2
  <2> HIDE DEF at
  <2> QED
    BY <2>1, <2>4
<1>4. \A i \in DOMAIN ledger : \A j \in 1 .. i - 1 : ledger[j].minute < ledger[i].minute
  BY <1>1 DEF Ordered
<1> QED
  BY <1>3, <1>4 DEF WindowIsWhole

(* What was recorded in a minute of the latest window is in that minute's  *)
(* bucket, for any window, clock and number of sessions, with the clock    *)
(* set back, polls that read a file piece by piece, and restarts.          *)
THEOREM WindowHolds == Spec => []WindowIsWhole
<1>1. Init => WInv
  BY WindowInit
<1>2. WInv /\ [Next]_vars => WInv'
  BY WindowNext
<1>3. WInv => WindowIsWhole
  BY WholeIsWhole
<1> QED
  BY <1>1, <1>2, <1>3, PTL DEF Spec
=============================================================================
