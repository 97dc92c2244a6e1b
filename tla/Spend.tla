------------------------------- MODULE Spend -------------------------------
(***************************************************************************)
(* What the fleet has spent: the agents' transcripts, the readers that     *)
(* follow them, the cost each row shows, the ledger of the rolling window  *)
(* and the ceiling that admission reads from it.                           *)
(*                                                                         *)
(* The poller takes its targets under the registry's mutex, reads the      *)
(* files under a mutex of the readers' own, and applies what it has read   *)
(* under the registry's again; rows come and go between the three.         *)
(*                                                                         *)
(* A record of a transcript is a request not seen before, and costs one    *)
(* unit.  A file that is gone and a file that is empty look the same to a  *)
(* reader: both start it over.                                             *)
(***************************************************************************)
EXTENDS Integers, SequencesExt

CONSTANTS
    Session,       \* ids; none is given out twice
    MaxRecords,    \* bound: records an agent writes
    MaxMinute,     \* bound: the clock
    MaxCounted,    \* bound: money counted of a session that is read again
    PollSize,      \* records one poll reads of one file (MAX_POLL_BYTES)
    Budget,        \* Session::budget_usd
    Ceiling,       \* AdmissionConfig::spend_ceiling_usd
    Window         \* AdmissionConfig::spend_window, in minutes

ASSUME SpendAssumption ==
    /\ {MaxRecords, MaxMinute, MaxCounted, Ceiling} \subseteq Nat
    /\ {PollSize, Budget, Window} \subseteq Nat \ {0}

Minute == 0 .. MaxMinute
None == -1
Standing == {"unborn", "queued", "preparing", "live", "ended", "gone"}
Row == [at: Standing, cost: Nat, spent: BOOLEAN, paused: BOOLEAN]
Nothing == [s \in Session |-> 0]
NewRow(at) == [at |-> at, cost |-> 0, spent |-> FALSE, paused |-> FALSE]
Bucket == [minute: Minute, by: [Session -> Nat]]

VARIABLES
    row,        \* standing, cost_usd, budget_exhausted, and a queue it paused
    ledger,     \* SpendLedger::buckets
    now,        \* the clock
    file,       \* records in the transcript of each session
    tail,       \* records each reader has read, None without a reader
    poll,       \* where the poller stands, and the rows it polls
    seen,       \* what it has read of each: a cost, or None if nothing new
    owed,       \* a call of drain_queue is on its way
    leaving,    \* removed rows whose reader is still to be forgotten
    disk,       \* rows and ledger as last saved
    paid,       \* history: what each session has really spent
    counted,    \* history: what the ledger was given of it
    log,        \* history: the same by minute, nothing ever dropped
    peak,       \* history: the latest time the clock has shown
    decided,    \* history: rows the operator lets go on past their budget
    again,      \* history: sessions re-read from the start in more than one poll
    short       \* history: sessions whose transcript was cut

readers == <<tail, poll, seen, leaving>>
history == <<paid, counted, log, peak, decided, again, short>>
vars == <<row, ledger, now, file, readers, owed, disk, history>>

TypeOK ==
    /\ row \in [Session -> Row]
    /\ ledger \in Seq(Bucket)
    /\ {now, peak} \subseteq Minute
    /\ file \in [Session -> 0 .. MaxRecords]
    /\ paid \in [Session -> 0 .. MaxRecords]
    /\ tail \in [Session -> Nat \cup {None}]
    /\ poll \in [at: {"idle", "reading", "applying"}, of: SUBSET Session]
    /\ seen \in [Session -> Nat \cup {None}]
    /\ leaving \subseteq Session /\ owed \in BOOLEAN
    /\ counted \in [Session -> Nat]
    /\ log \in [Minute -> [Session -> Nat]]
    /\ {decided, again, short} \subseteq SUBSET Session

Present(s) == row[s].at \notin {"unborn", "gone"}
Live(s) == row[s].at \in {"preparing", "live"}

-----------------------------------------------------------------------------
(* SpendLedger.  A bucket a minute, oldest first.  What comes out of order *)
(* goes where it belongs.                                                  *)

Bumped(by, gain) == [s \in Session |-> by[s] + gain[s]]

(* Slip: a minute that is not the last is taken for a new one.             *)
RecordFault(l, at, gain) ==
    IF l # <<>> /\ l[Len(l)].minute = at
    THEN [l EXCEPT ![Len(l)].by = Bumped(@, gain)]
    ELSE Append(l, [minute |-> at, by |-> gain])
Record(l, at, gain) ==
    LET same == SelectInSeq(l, LAMBDA b : b.minute = at)
        later == SelectInSeq(l, LAMBDA b : b.minute > at)
    IN IF same > 0 THEN [l EXCEPT ![same].by = Bumped(@, gain)]
       ELSE InsertAt(l, IF later > 0 THEN later ELSE Len(l) + 1,
                     [minute |-> at, by |-> gain])

(* The first minute of the window that ends at t.                          *)
Oldest(t) == IF t >= Window THEN t - Window + 1 ELSE 0

Pruned(l, t) ==
    LET first == SelectInSeq(l, LAMBDA b : b.minute >= Oldest(t))
    IN IF first = 0 THEN <<>> ELSE SubSeq(l, first, Len(l))

WindowTotal(l, t) ==
    LET inside == SelectSeq(l, LAMBDA b : b.minute >= Oldest(t))
    IN FoldLeft(LAMBDA total, b : total + SumFunction(b.by), 0, inside)

(* The gate of admission; slots and memory are not its subject here.       *)
Blocked == WindowTotal(ledger, now) >= Ceiling
Admitted(next) == IF Blocked THEN "queued" ELSE next

-----------------------------------------------------------------------------
(* Rows.                                                                   *)

Goes(s, from, to) == row[s].at = from /\ row' = [row EXCEPT ![s].at = to]

Launch(s) ==
    /\ row[s].at = "unborn"
    /\ row' = [row EXCEPT ![s].at = Admitted("preparing")]
    /\ UNCHANGED <<ledger, now, file, readers, owed, disk, history>>

Revive(s) ==
    /\ Goes(s, "ended", Admitted("preparing"))
    /\ UNCHANGED <<ledger, now, file, readers, owed, disk, history>>

Start(s) ==
    /\ Goes(s, "preparing", "live")
    /\ UNCHANGED <<ledger, now, file, readers, owed, disk, history>>

(* remove_entry, of a launch whose start fails: the row goes under the     *)
(* mutex, its reader after that.                                           *)
RemoveEntry(s) ==
    /\ paid[s] = 0
    /\ Goes(s, "preparing", "gone")
    /\ leaving' = leaving \cup {s}
    /\ UNCHANGED <<ledger, now, file, tail, poll, seen, owed, disk, history>>

ForgetTranscript(s) ==
    /\ s \in leaving
    /\ leaving' = leaving \ {s}
    /\ tail' = [tail EXCEPT ![s] = None]
    /\ UNCHANGED <<row, ledger, now, file, poll, seen, owed, disk, history>>

(* A later start that fails, and the end of a process; both drain the      *)
(* queue when they are done.                                               *)
End(s) ==
    /\ Goes(s, "preparing", "ended") \/ Goes(s, "live", "ended")
    /\ owed' = TRUE
    /\ UNCHANGED <<ledger, now, file, readers, disk, history>>

(* The archive keeps the reader: only remove_entry forgets it.             *)
Archive(s) ==
    /\ Goes(s, "ended", "gone") \/ Goes(s, "queued", "gone")
    /\ owed' = TRUE
    /\ UNCHANGED <<ledger, now, file, readers, disk, history>>

DrainQueue ==
    /\ owed
    /\ IF Blocked THEN row' = row
       ELSE \/ \E s \in Session : Goes(s, "queued", "preparing")
            \/ (\A s \in Session : row[s].at # "queued") /\ row' = row
    /\ owed' = (row' # row)
    /\ UNCHANGED <<ledger, now, file, readers, disk, history>>

(* The operator lets a queue go on that ran out of its budget.             *)
ResumeQueue(s) ==
    /\ Present(s) /\ row[s].paused
    /\ row' = [row EXCEPT ![s].paused = FALSE]
    /\ decided' = IF row[s].spent THEN decided \cup {s} ELSE decided
    /\ UNCHANGED <<ledger, now, file, readers, owed, disk, paid, counted, log, peak,
                   again, short>>

-----------------------------------------------------------------------------
(* The agents and their transcripts.                                       *)

Write(s) ==
    /\ row[s].at = "live" /\ paid[s] < MaxRecords /\ file[s] < MaxRecords
    /\ paid' = [paid EXCEPT ![s] = @ + 1]
    /\ file' = [file EXCEPT ![s] = @ + 1]
    /\ UNCHANGED <<row, ledger, now, readers, owed, disk, counted, log, peak, decided,
                   again, short>>

(* A transcript is cut short or cleaned up underneath its reader.          *)
Cut(s) ==
    /\ counted[s] < MaxCounted
    /\ \E n \in 0 .. file[s] - 1 : file' = [file EXCEPT ![s] = n]
    /\ short' = short \cup {s}
    /\ UNCHANGED <<row, ledger, now, readers, owed, disk, paid, counted, log, peak,
                   decided, again>>

-----------------------------------------------------------------------------
(* The poller.                                                             *)

(* Slip: a row that is past its budget has nothing more to tell.           *)
TargetsFault == {s \in Session : Live(s) /\ ~row[s].spent}
Targets == {s \in Session : Live(s)}
PollBegins ==
    /\ poll.at = "idle" /\ Targets # {}
    /\ poll' = [at |-> "reading", of |-> Targets]
    /\ UNCHANGED <<row, ledger, now, file, tail, seen, leaving, owed, disk, history>>

(* TranscriptTail::poll.  A file shorter than what was read of it is read  *)
(* from the start again, as far as one poll goes.  (History: that may be   *)
(* short of what the row has cost, with the rest of the file to come.)     *)
From(s) == IF tail[s] = None \/ file[s] < tail[s] THEN 0 ELSE tail[s]
Upto(s) == IF file[s] < From(s) + PollSize THEN file[s] ELSE From(s) + PollSize
Behind(s) == Upto(s) \in From(s) + 1 .. file[s] - 1 /\ Upto(s) < row[s].cost

PollTranscripts ==
    /\ poll.at = "reading"
    /\ tail' = [s \in Session |-> IF s \in poll.of THEN Upto(s) ELSE tail[s]]
    /\ seen' = [s \in Session |->
                   IF s \in poll.of /\ Upto(s) > From(s) THEN Upto(s) ELSE None]
    /\ poll' = [poll EXCEPT !.at = "applying"]
    /\ again' = again \cup {s \in poll.of : Behind(s)}
    /\ UNCHANGED <<row, ledger, now, file, leaving, owed, disk, paid, counted, log, peak,
                   decided, short>>

(* A row that is gone by now is passed over.  The budget is held against   *)
(* what the row has cost; a queue is paused once, at the crossing.         *)
Told == {s \in Session : seen[s] # None /\ Present(s)}
Delta(s) == IF s \in Told THEN seen[s] - row[s].cost ELSE 0
(* Slips: the whole cost taken for the increase, and the pause at every    *)
(* poll past the budget.                                                   *)
GainFault == [s \in Session |-> IF s \in Told /\ Delta(s) > 0 THEN seen[s] ELSE 0]
Gain == [s \in Session |-> IF Delta(s) > 0 THEN Delta(s) ELSE 0]
CostedFault(s) ==
    [row[s] EXCEPT !.cost = seen[s], !.spent = seen[s] >= Budget,
                   !.paused = @ \/ seen[s] >= Budget]
Costed(s) ==
    LET over == seen[s] >= Budget
    IN [row[s] EXCEPT !.cost = seen[s], !.spent = over,
                      !.paused = @ \/ (over /\ ~row[s].spent)]

PollApplies ==
    /\ poll.at = "applying"
    /\ row' = [s \in Session |-> IF s \in Told THEN Costed(s) ELSE row[s]]
    /\ ledger' = IF \A s \in Session : Delta(s) = 0 THEN ledger
                 ELSE IF \A s \in Session : Gain[s] = 0 THEN Pruned(ledger, now)
                 ELSE Pruned(Record(ledger, now, Gain), now)
    /\ counted' = Bumped(counted, Gain)
    /\ log' = [log EXCEPT ![now] = Bumped(@, Gain)]
    /\ seen' = [s \in Session |-> None]
    /\ poll' = [at |-> "idle", of |-> {}]
    /\ UNCHANGED <<now, file, tail, leaving, owed, disk, paid, peak, decided, again,
                   short>>

-----------------------------------------------------------------------------
(* The clock, which may be set back, and the store.                        *)

Tick ==
    /\ now < MaxMinute
    /\ now' = now + 1
    /\ peak' = IF now < peak THEN peak ELSE now + 1
    /\ UNCHANGED <<row, ledger, file, readers, owed, disk, paid, counted, log, decided,
                   again, short>>

SetBack ==
    /\ now > 0
    /\ now' = now - 1
    /\ UNCHANGED <<row, ledger, file, readers, owed, disk, history>>

Image == [row |-> row, ledger |-> ledger, counted |-> counted, log |-> log,
          decided |-> decided, again |-> again]

Save ==
    /\ disk # Image
    /\ disk' = Image
    /\ UNCHANGED <<row, ledger, now, file, readers, owed, history>>

(* The daemon ends, in whatever way, and starts from the store.  No agent  *)
(* survives that, no reader is kept, and a row that was never saved is     *)
(* lost.                                                                   *)
Restored(s) ==
    IF disk.row[s].at \notin {"unborn", "gone"} THEN [disk.row[s] EXCEPT !.at = "ended"]
    ELSE IF row[s].at = "unborn" THEN row[s]
    ELSE NewRow("gone")
RestoredLedger == Pruned(disk.ledger, now)

Restart ==
    /\ \A s \in Session : counted[s] < MaxCounted
    /\ row' = [s \in Session |-> Restored(s)]
    /\ ledger' = RestoredLedger
    /\ tail' = [s \in Session |-> None]
    /\ poll' = [at |-> "idle", of |-> {}]
    /\ seen' = [s \in Session |-> None]
    /\ leaving' = {} /\ owed' = FALSE
    /\ counted' = disk.counted /\ log' = disk.log
    /\ decided' = disk.decided /\ again' = disk.again
    /\ UNCHANGED <<now, file, disk, paid, peak, short>>

-----------------------------------------------------------------------------
Init ==
    /\ row = [s \in Session |-> NewRow("unborn")]
    /\ ledger = <<>>
    /\ now = 0 /\ peak = 0
    /\ file = Nothing /\ paid = Nothing /\ counted = Nothing
    /\ log = [m \in Minute |-> Nothing]
    /\ tail = [s \in Session |-> None]
    /\ seen = [s \in Session |-> None]
    /\ poll = [at |-> "idle", of |-> {}]
    /\ leaving = {} /\ owed = FALSE
    /\ decided = {} /\ again = {} /\ short = {}
    /\ disk = Image

Poll == PollBegins \/ PollTranscripts \/ PollApplies
Request(s) == Launch(s) \/ Revive(s) \/ Archive(s) \/ ResumeQueue(s)
Agent(s) == Start(s) \/ RemoveEntry(s) \/ ForgetTranscript(s) \/ End(s)
            \/ Write(s) \/ Cut(s)

Next ==
    \/ \E s \in Session : Request(s) \/ Agent(s)
    \/ Poll \/ DrainQueue
    \/ Tick \/ SetBack \/ Save \/ Restart

Spec == Init /\ [][Next]_vars /\ WF_vars(Poll) /\ WF_vars(DrainQueue)

-----------------------------------------------------------------------------
(* A session's money is counted once, however often its row is polled,     *)
(* revived, or restored from a store that is behind: what the ledger was   *)
(* given of a session never exceeds what it has spent.  But for a session  *)
(* whose transcript, longer than one poll reads, was read from the start   *)
(* again: it falls behind its cost, and is booked as it catches up.        *)
CountedOnce == \A s \in Session \ again : counted[s] <= paid[s]
(* Without the exception, as the comments of record_session_at have it.    *)
NeverCountedTwice == \A s \in Session : counted[s] <= paid[s]

(* What was recorded in a minute is in that minute's bucket until the      *)
(* latest window the clock has shown is past it, with the clock set back   *)
(* and the ledger restored in between; and the buckets are in order, which *)
(* is what lets the ledger be pruned from the front.                       *)
WindowIsWhole ==
    /\ \A i \in DOMAIN ledger : \A j \in 1 .. i - 1 : ledger[j].minute < ledger[i].minute
    /\ \A m \in Oldest(peak) .. MaxMinute :
          LET at == SelectInSeq(ledger, LAMBDA b : b.minute = m)
          IN log[m] = IF at = 0 THEN Nothing ELSE ledger[at].by

(* A queue that the operator lets go on past its budget is not paused by   *)
(* that budget again, whatever is polled, ended, revived, saved or         *)
(* restored meanwhile, unless the transcript was cut or fell behind.       *)
OverrideStands ==
    [][\A s \in Session \ (again' \cup short') :
          s \in decided \cap decided' /\ row'[s].paused => row[s].paused]_vars

(* The cost of a row that lives catches up with its transcript.            *)
CostCatchesUp ==
    \A s \in Session :
        row[s].at = "live" /\ row[s].cost < file[s]
            ~> row[s].at # "live" \/ row[s].cost >= file[s]

(* A reader is kept for a row that exists, or is on its way out.           *)
ReadersHaveRows ==
    \A s \in Session : tail[s] # None => Present(s) \/ s \in leaving

(* A queued session is started when the window has room for it again.      *)
QueueIsAdmitted ==
    \A s \in Session :
        []<>(row[s].at # "queued" \/ Blocked)
=============================================================================
