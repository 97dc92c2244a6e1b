----------------------------- MODULE Attention -----------------------------
(***************************************************************************)
(* When the operator is told that a session waits: the statuses of the     *)
(* rows and the notices of the registry's NotificationCenter.  Every       *)
(* change of a row is made, and judged by the center, in one critical      *)
(* section of the registry's mutex.  How the events that tell of it reach  *)
(* the window is the subject of Stream.                                    *)
(*                                                                         *)
(* AwaitingInput stands for NeedsYou too, Working for Thinking, and Idle   *)
(* for every other status of a live row that asks nothing.                 *)
(***************************************************************************)
EXTENDS Sessions, Integers

CONSTANT
    Reports        \* the statuses hooks report

Wanting == {"NeedsApproval", "AwaitingInput"}
Live == {"Starting", "Idle", "Working", "Unknown"} \cup Wanting
Status == Live \cup {"unborn", "Queued", "Exited", "gone"}
Key == Wanting \cup {"stalled"}

ASSUME AttentionAssumption == Reports \subseteq {"Idle", "Working"} \cup Wanting

VARIABLES
    status,     \* Session::status of each row
    life,       \* whether the row owns a process, or is prepared for one
    held,       \* rows that have worked past STALL_THRESHOLD
    stalled,    \* Session::stalled, the sweep's finding of that
    active,     \* NotificationCenter::active: the keys of each session
    pending,    \* NotificationCenter::pending: the wait each notice is for
    due         \* sessions whose pending notice has had its grace

center == <<active, pending, due>>
rows == <<status, life, held, stalled>>
attentionVars == <<rows, center>>

AttentionTypeOK ==
    /\ status \in [Session -> Status]
    /\ life \in [Session -> {"down", "prepared", "running"}]
    /\ held \subseteq Session /\ stalled \subseteq Session
    /\ active \in [Session -> SUBSET Key]
    /\ pending \in [Session -> Wanting \cup {"none"}]
    /\ due \subseteq Session

AttentionInit ==
    /\ status = [s \in Session |-> "unborn"]
    /\ life = [s \in Session |-> "down"]
    /\ held = {} /\ stalled = {} /\ due = {}
    /\ active = [s \in Session |-> {}]
    /\ pending = [s \in Session |-> "none"]

(* NotificationCenter::observe, of s moving to v.  A notice that is out    *)
(* already is left alone.  Any other change retracts what the session has; *)
(* a wait then raises its notice, or holds it back when it interrupts the  *)
(* start or a tool and the grace period of that has not passed.            *)
Raised(s, v) == v \in Wanting /\ v \in active[s]
Suppressed(s, v, grace) == v \in Wanting /\ grace /\ status[s] \in {"Starting", "Working"}
(* Slips: a retraction that leaves the notice held back, and a hold for a  *)
(* status that asks nothing.                                               *)
ObserveKeepsPending(s, v, grace) ==
    IF Raised(s, v) THEN UNCHANGED center
    ELSE /\ due' = due \ {s}
         /\ pending' = IF Suppressed(s, v, grace)
                       THEN [pending EXCEPT ![s] = v] ELSE pending
         /\ active' = [active EXCEPT ![s] =
                IF v \in Wanting /\ ~Suppressed(s, v, grace) THEN {v} ELSE {}]
Observe(s, v, grace) ==
    IF Raised(s, v) THEN UNCHANGED center
    ELSE /\ due' = due \ {s}
         /\ pending' = [pending EXCEPT ![s] =
                IF Suppressed(s, v, grace) THEN v ELSE "none"]
         /\ active' = [active EXCEPT ![s] =
                IF v \in Wanting /\ ~Suppressed(s, v, grace) THEN {v} ELSE {}]

(* A status that does not change keeps the time it was entered.            *)
SetStatus(s, v) ==
    /\ status' = [status EXCEPT ![s] = v]
    /\ held' = IF status[s] = v THEN held ELSE held \ {s}
    /\ UNCHANGED stalled

(* A hook is applied to whatever row is there: Supervision shows how it    *)
(* comes to be late.                                                       *)
There(s) == status[s] \notin {"unborn", "gone"}
ApplyHook(s, v, grace) ==
    /\ There(s)
    /\ SetStatus(s, v)
    /\ Observe(s, v, grace)
    /\ UNCHANGED life

(* Output moves a starting row and no other.                               *)
HandleOutput(s) ==
    /\ status[s] = "Starting" /\ life[s] # "down"
    /\ SetStatus(s, "Idle")
    /\ Observe(s, "Idle", FALSE)
    /\ UNCHANGED life

(* The end of the process.                                                 *)
MarkProcessExit(s) ==
    /\ life[s] = "running"
    /\ life' = [life EXCEPT ![s] = "down"]
    /\ SetStatus(s, "Exited")
    /\ Observe(s, "Exited", FALSE)

(* The monitor loses sight of the process: the center is not asked.        *)
MarkProcessUnknown(s) ==
    /\ life[s] = "running" /\ status[s] # "Unknown"
    /\ SetStatus(s, "Unknown")
    /\ UNCHANGED <<life, center>>

(* A launch, a revival, a restart or a turn of the drain, and the first    *)
(* two when they have to queue: the center is not asked.                   *)
Begin(s) ==
    /\ status[s] # "gone" /\ life[s] = "down"
    /\ life' = [life EXCEPT ![s] = "prepared"]
    /\ SetStatus(s, "Starting")
    /\ UNCHANGED center
Enqueue(s) ==
    /\ status[s] \notin {"Queued", "gone"} /\ life[s] = "down"
    /\ SetStatus(s, "Queued")
    /\ UNCHANGED <<life, center>>

(* prepare_and_start registers the process, or rejects it for a row that   *)
(* has left Starting, which is then left as it is.                         *)
Registers(s) ==
    /\ life[s] = "prepared"
    /\ life' = [life EXCEPT ![s] =
                   IF status[s] = "Starting" THEN "running" ELSE "down"]
    /\ UNCHANGED <<status, held, stalled, center>>

(* The preparation fails, or it or a wait in the queue is ended by a kill. *)
StartEnds(s) ==
    /\ \/ life[s] = "prepared" /\ status[s] = "Starting"
       \/ status[s] = "Queued"
    /\ life' = [life EXCEPT ![s] = "down"]
    /\ SetStatus(s, "Exited")
    /\ Observe(s, "Exited", FALSE)

(* A launch undone, or an archived row: retract_session.                   *)
RemoveEntry(s) ==
    /\ There(s) /\ life[s] # "running"
    /\ status' = [status EXCEPT ![s] = "gone"]
    /\ life' = [life EXCEPT ![s] = "down"]
    /\ held' = held \ {s}
    /\ stalled' = stalled \ {s}
    /\ active' = [active EXCEPT ![s] = {}]
    /\ pending' = [pending EXCEPT ![s] = "none"]
    /\ due' = due \ {s}

(* Time passes for a row that works and for a notice held back.            *)
WorksLong(s) ==
    /\ status[s] = "Working" /\ s \notin held
    /\ held' = held \cup {s}
    /\ UNCHANGED <<status, life, stalled, center>>
GraceEnds(s) ==
    /\ pending[s] # "none" /\ s \notin due
    /\ due' = due \cup {s}
    /\ UNCHANGED <<rows, active, pending>>

(* recheck_notifications: the sweep finds the stalled rows, then the       *)
(* center raises what is due of the waits that last, and a notice for each *)
(* stalled row.                                                            *)
LastsFault(s) == s \in due /\ status[s] # pending[s] /\ status[s] \in Wanting
Lasts(s) == s \in due /\ status[s] = pending[s] /\ status[s] \notin active[s]
Rechecked(s) ==
    (IF Lasts(s) THEN {status[s]} ELSE active[s])
        \cup (IF s \in held THEN {"stalled"} ELSE {})
RecheckNotifications ==
    /\ stalled' = held
    /\ active' = [s \in Session |-> Rechecked(s)]
    /\ pending' = [s \in Session |-> IF s \in due THEN "none" ELSE pending[s]]
    /\ due' = {}
    /\ UNCHANGED <<status, life, held>>

Row(s) ==
    \/ \E v \in Reports, grace \in BOOLEAN : ApplyHook(s, v, grace)
    \/ HandleOutput(s) \/ MarkProcessExit(s) \/ MarkProcessUnknown(s)
    \/ Begin(s) \/ Enqueue(s) \/ Registers(s) \/ StartEnds(s) \/ RemoveEntry(s)
    \/ WorksLong(s) \/ GraceEnds(s)
AttentionNext == RecheckNotifications \/ \E s \in Session : Row(s)

(* Time passes, and the scheduler sweeps at least every                    *)
(* NOTIFICATION_RECHECK_INTERVAL.                                          *)
Fairness ==
    /\ WF_attentionVars(RecheckNotifications)
    /\ \A s \in Session : WF_attentionVars(GraceEnds(s))
AttentionSpec == AttentionInit /\ [][AttentionNext]_attentionVars /\ Fairness

----------------------------------------------------------------------------
(* What should hold.                                                       *)

(* The center is not asked when a row begins to start, is queued, or is    *)
(* lost sight of.  In these statuses a row keeps the notices it had.       *)
Unasked == {"Starting", "Queued", "Unknown"}

(* In every other, a notice that is out is for the wait the session is in, *)
(* a stall's for a row that works, and a notice held back for the wait the *)
(* session is in; and a session has one of all of these at the most, none  *)
(* when it has ended.                                                      *)
StatusNotice(s) ==
    active[s] \cap Wanting # {} =>
        \/ active[s] = {status[s]}
        \/ status[s] \in Unasked /\ \E k \in Wanting : active[s] = {k}
StallNotice(s) == "stalled" \in active[s] =>
    active[s] = {"stalled"} /\ status[s] \in {"Working"} \cup Unasked
HeldBack(s) == pending[s] # "none" =>
    active[s] = {} /\ status[s] \in {pending[s]} \cup Unasked
NoticesAreCurrent ==
    \A s \in Session : StatusNotice(s) /\ StallNotice(s) /\ HeldBack(s)

(* A session that goes on waiting for the operator is noticed, and so is   *)
(* one that works on past the stall threshold.                             *)
WaitIsNoticed ==
    \A s \in Session :
        /\ \A v \in Wanting :
               status[s] = v ~> (v \in active[s] \/ status[s] # v)
        /\ s \in held ~> ("stalled" \in active[s] \/ s \notin held)

(* notification.rs says that attention signals are ignored right after a   *)
(* tool begins, and that repeated hooks are idempotent.  So a notice held  *)
(* back comes out when its grace is over, and no repetition brings it out  *)
(* before.                                                                 *)
GraceIsKept ==
    [][\A s \in Session :
        pending[s] # "none" /\ pending[s] \in active'[s] => s \in due]_attentionVars
=============================================================================
