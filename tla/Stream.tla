------------------------------- MODULE Stream -------------------------------
(***************************************************************************)
(* How the window follows the fleet: the events the registry sends of its  *)
(* rows and notices, the queues they pass, and what the shell and the page *)
(* make of them.                                                           *)
(*                                                                         *)
(* A row and its notices change in one critical section of the registry's  *)
(* mutex (which changes there are is Supervision's and Attention's         *)
(* subject: any are allowed here).  The events that tell of a change are   *)
(* sent one by one after the mutex is let go, by whichever thread made it, *)
(* so threads overtake each other.  The events pass bounded queues that    *)
(* drop what does not fit (the subscriber's, the connection's; one queue   *)
(* here) to the shell, which keeps the badge, and then to the page, which  *)
(* keeps the rows and the toasts and may ask for a snapshot of the fleet.  *)
(***************************************************************************)
EXTENDS Sessions, Integers, Sequences, SequencesExt

CONSTANTS
    Cause,         \* what a session may be noticed for, finitely many things
    Capacity,      \* places in the queue of events
    MaxOut,        \* bound: threads with events still to send
    MaxOpens,      \* bound: times the window is opened again
    MaxChanges     \* bound: what happens to the rows

ASSUME StreamAssumption ==
    /\ {Capacity, MaxOut, MaxOpens, MaxChanges} \subseteq Nat
    /\ Capacity > 0
    /\ IsFiniteSet(Cause)

Present == {"calm", "waiting"}
Standing == Present \cup {"unborn", "gone"}
Shown == Present \cup {"none"}

(* What is sent: a row as it was when its thread looked, the end of a row, *)
(* a notice raised or retracted.                                           *)
Message ==
    [kind: {"row"}, session: Session, what: Present]
        \cup [kind: {"gone"}, session: Session, what: {"none"}]
        \cup [kind: {"raised", "retracted"}, session: Session, what: Cause]
Msg(kind, s, what) == [kind |-> kind, session |-> s, what |-> what]
OfRows == {"row", "gone"}
OfNotices == {"raised", "retracted"}

VARIABLES
    standing,   \* the registry's rows: Session::status as the window knows it
    notices,    \* the notices that are out: the causes of each session
    owes,       \* sessions a thread is about to look at and send (emit_session)
    out,        \* events captured and not yet sent, a sequence per thread
    channel,    \* events on their way to the window
    shell,      \* the shell's bridge: asking for the fleet, or following it
    badge,      \* the shell: whom the badge counts
    page,       \* the page: not listening yet, at rest, or loading a snapshot
    answer,     \* the snapshot on its way
    buffer,     \* events the page kept while it was loading
    shows,      \* the row the page shows of each session
    toasts,     \* attention toasts on the page, causes of each session
    opens,      \* bounded: times the window was opened again
    changes,    \* bounded: what has happened to the rows
    lost,       \* history: sessions whose last word to the shell went astray
    stale,      \* history: the same for the page's rows
    mends,      \* history: sessions the snapshot on its way sets right
    silent      \* history: sessions a notice of which went astray

registry == <<standing, notices, changes>>
pageVars == <<page, answer, buffer, shows, toasts>>
window == <<shell, badge, pageVars, opens>>
history == <<lost, stale, mends, silent>>
vars == <<registry, owes, out, channel, window, history>>

TypeOK ==
    /\ standing \in [Session -> Standing]
    /\ notices \in [Session -> SUBSET Cause]
    /\ owes \subseteq Session /\ badge \subseteq Session
    /\ shell \in {"asks", "follows"}
    /\ out \in Seq(Seq(Message))
    /\ channel \in Seq(Message) /\ buffer \in Seq(Message)
    /\ page \in {"deaf", "idle", "asked", "answered"}
    /\ answer \in [Session -> Shown] /\ shows \in [Session -> Shown]
    /\ toasts \in [Session -> SUBSET Cause]
    /\ opens \in 0 .. MaxOpens /\ changes \in 0 .. MaxChanges
    /\ {lost, stale, mends, silent} \subseteq SUBSET Session

Nobody == [s \in Session |-> "none"]
Silence == [s \in Session |-> {}]
Init ==
    /\ standing = [s \in Session |-> "unborn"]
    /\ notices = Silence /\ toasts = Silence
    /\ out = <<>> /\ channel = <<>> /\ buffer = <<>>
    /\ owes = {} /\ badge = {} /\ answer = Nobody /\ shows = Nobody
    /\ shell = "follows" /\ page = "deaf" /\ opens = 0 /\ changes = 0
    /\ lost = {} /\ stale = {} /\ mends = {} /\ silent = {}

----------------------------------------------------------------------------
(* The registry.                                                           *)

(* A thread leaves the mutex with these events to send.                    *)
Sends(batch) ==
    /\ Len(out) < MaxOut
    /\ out' = IF batch = <<>> THEN out ELSE Append(out, batch)
Happens == changes < MaxChanges /\ changes' = changes + 1

ToldFault(after) ==
    SetToSeq({Msg("raised", p[1], p[2]) : p \in
        {p \in Session \X Cause : p[2] \in after[p[1]] \ notices[p[1]]}})
(* NotificationChange::into_event: what is told of a change of the active  *)
(* notices, retractions first.                                             *)
Told(after) ==
    LET Keys(kind, has, hasnot) ==
            {Msg(kind, p[1], p[2]) : p \in
                {p \in Session \X Cause : p[2] \in has[p[1]] \ hasnot[p[1]]}}
    IN SetToSeq(Keys("retracted", notices, after))
           \o SetToSeq(Keys("raised", after, notices))

(* A launch: emit_session looks at the row again, in a critical section of *)
(* its own, before it sends it.                                            *)
Launch(s) ==
    /\ standing[s] = "unborn"
    /\ Happens
    /\ standing' = [standing EXCEPT ![s] = "calm"]
    /\ owes' = owes \cup {s}
    /\ UNCHANGED <<notices, out, channel, window, history>>

(* A hook, output, an exit: the row and its notices as they now are.       *)
Change(s, v, causes) ==
    /\ standing[s] \in Present
    /\ Happens
    /\ standing' = [standing EXCEPT ![s] = v]
    /\ notices' = [notices EXCEPT ![s] = causes]
    /\ Sends(<<Msg("row", s, v)>> \o Told(notices'))
    /\ UNCHANGED <<owes, channel, window, history>>

(* The sweep of the center: notices alone.                                 *)
Recheck(s, causes) ==
    /\ standing[s] \in Present /\ causes # notices[s]
    /\ Happens
    /\ notices' = [notices EXCEPT ![s] = causes]
    /\ Sends(Told(notices'))
    /\ UNCHANGED <<standing, owes, channel, window, history>>

(* Every operation that ends with emit_session, a restart's new status or  *)
(* none included.                                                          *)
Touch(s, v) ==
    /\ standing[s] \in Present
    /\ Happens
    /\ standing' = [standing EXCEPT ![s] = v]
    /\ owes' = owes \cup {s}
    /\ UNCHANGED <<notices, out, channel, window, history>>
EmitSession(s) ==
    /\ s \in owes
    /\ owes' = owes \ {s}
    /\ IF standing[s] \in Present THEN Sends(<<Msg("row", s, standing[s])>>) ELSE UNCHANGED out
    /\ UNCHANGED <<registry, channel, window, history>>

(* A launch undone, or an archived row.                                    *)
RemoveRow(s) ==
    /\ standing[s] \in Present
    /\ Happens
    /\ standing' = [standing EXCEPT ![s] = "gone"]
    /\ notices' = [notices EXCEPT ![s] = {}]
    /\ Sends(<<Msg("gone", s, "none")>> \o Told(notices'))
    /\ UNCHANGED <<owes, channel, window, history>>

----------------------------------------------------------------------------
(* The events on their way.                                                *)

About(s, kinds, batches) ==
    \E j \in DOMAIN batches : \E k \in DOMAIN batches[j] :
        batches[j][k].session = s /\ batches[j][k].kind \in kinds
(* What the thread at place i has still to send after its next event.      *)
AfterHead(i) ==
    IF Len(out[i]) = 1 THEN RemoveAt(out, i)
                       ELSE [out EXCEPT ![i] = Tail(@)]
AsShown(v) == IF v \in Present THEN v ELSE "none"

(* History: an event goes astray when the queue is full or an older one    *)
(* about the same session is still to be sent.  The last one to be sent    *)
(* puts a row right again, if it tells of the row as it is.                *)
Astray(m, i, kinds) ==
    /\ m.kind \in kinds
    /\ Len(channel) >= Capacity \/ About(m.session, kinds, SubSeq(out, 1, i - 1))
PutsRight(m, i) ==
    /\ m.kind \in OfRows /\ ~Astray(m, i, OfRows)
    /\ ~About(m.session, OfRows, AfterHead(i))
    /\ m.what = AsShown(standing[m.session])
Marked(set, m, i) ==
    IF Astray(m, i, OfRows) THEN set \cup {m.session}
    ELSE IF PutsRight(m, i) THEN set \ {m.session} ELSE set

(* emit: into the queue, or nowhere when the queue is full.                *)
Emit(i) ==
    LET m == Head(out[i])
    IN  /\ out' = AfterHead(i)
        /\ channel' = IF Len(channel) < Capacity THEN Append(channel, m) ELSE channel
        /\ lost' = Marked(lost, m, i)
        /\ stale' = Marked(stale, m, i)
        /\ mends' = IF Astray(m, i, OfRows) THEN mends \ {m.session} ELSE mends
        /\ silent' = IF Astray(m, i, OfNotices) THEN silent \cup {m.session} ELSE silent
        /\ UNCHANGED <<registry, owes, window>>

----------------------------------------------------------------------------
(* The window.                                                             *)

(* sessionState.js: one event applied to the rows and the toasts.          *)
ApplyRow(view, m) == [view EXCEPT ![m.session] = m.what]
ApplyToasts(m) ==
    CASE m.kind = "row" -> toasts
      [] m.kind = "gone" -> [toasts EXCEPT ![m.session] = {}]
      [] m.kind = "raised" -> [toasts EXCEPT ![m.session] = @ \cup {m.what}]
      [] m.kind = "retracted" -> [toasts EXCEPT ![m.session] = @ \ {m.what}]

CountedFault(m) ==
    CASE m.kind # "row" -> badge
      [] m.kind = "row" /\ m.what = "waiting" -> badge \cup {m.session}
      [] m.kind = "row" /\ m.what # "waiting" -> badge \ {m.session}
(* The shell: update_taskbar_waiting_count.                                *)
Counted(m) ==
    CASE m.kind \in OfNotices -> badge
      [] m.kind \in OfRows /\ m.what = "waiting" -> badge \cup {m.session}
      [] m.kind \in OfRows /\ m.what # "waiting" -> badge \ {m.session}

(* The shell, once it follows, counts the next event and passes it to the  *)
(* page, where it is lost until the page listens.  A page that is loading  *)
(* applies it and keeps it.                                                *)
Deliver ==
    LET m == Head(channel)
        listening == page # "deaf"
        loading == page \in {"asked", "answered"}
    IN  /\ shell = "follows" /\ channel # <<>>
        /\ channel' = Tail(channel)
        /\ badge' = Counted(m)
        /\ shows' = IF listening /\ m.kind \in OfRows THEN ApplyRow(shows, m) ELSE shows
        /\ toasts' = IF listening THEN ApplyToasts(m) ELSE toasts
        /\ buffer' = IF loading /\ m.kind \in OfRows THEN Append(buffer, m) ELSE buffer
        /\ stale' = IF ~listening /\ m.kind \in OfRows
                    THEN stale \cup {m.session} ELSE stale
        /\ silent' = IF ~listening /\ m.kind \in OfNotices
                     THEN silent \cup {m.session} ELSE silent
        /\ UNCHANGED <<registry, owes, out, shell, page, answer, opens, lost, mends>>

(* loadSnapshot: at the start, once the page listens, and when asked to.   *)
LoadSnapshot ==
    /\ page \in {"deaf", "idle"}
    /\ page' = "asked"
    /\ buffer' = <<>>
    /\ UNCHANGED <<registry, owes, out, channel, shell, badge, answer, shows, toasts,
                   opens, history>>
TakeSnapshot ==
    /\ page = "asked"
    /\ page' = "answered"
    /\ answer' = [s \in Session |-> AsShown(standing[s])]
    /\ mends' = {s \in Session : ~About(s, OfRows, out \o <<channel, buffer>>)}
    /\ UNCHANGED <<registry, owes, out, channel, shell, badge, buffer, shows, toasts,
                   opens, lost, stale, silent>>
ReconciledFault == answer
(* The snapshot replaces the rows, and what was kept is applied again in   *)
(* its order, so that the last event of a row decides it.                  *)
Reconciled ==
    [s \in Session |->
        LET last == SelectLastInSeq(buffer, LAMBDA m : m.session = s)
        IN IF last = 0 THEN answer[s] ELSE buffer[last].what]
SnapshotArrives ==
    /\ page = "answered"
    /\ page' = "idle"
    /\ shows' = Reconciled
    /\ toasts' = [s \in Session |->
           IF \E k \in DOMAIN buffer : buffer[k].session = s /\ buffer[k].kind = "gone"
           THEN {} ELSE toasts[s]]
    /\ buffer' = <<>>
    /\ answer' = Nobody
    /\ stale' = stale \ mends
    /\ mends' = {}
    /\ UNCHANGED <<registry, owes, out, channel, shell, badge, opens, lost, silent>>
SnapshotFails ==
    /\ page \in {"asked", "answered"}
    /\ page' = "idle"
    /\ buffer' = <<>> /\ answer' = Nobody /\ mends' = {}
    /\ UNCHANGED <<registry, owes, out, channel, shell, badge, shows, toasts, opens,
                   lost, stale, silent>>

(* The window is closed and opened again: a new subscription, a shell that *)
(* has yet to ask for the fleet, a page that has yet to load.              *)
Reopen ==
    /\ opens < MaxOpens
    /\ opens' = opens + 1
    /\ channel' = <<>>
    /\ shell' = "asks" /\ badge' = {}
    /\ page' = "deaf" /\ answer' = Nobody /\ buffer' = <<>>
    /\ shows' = Nobody
    /\ toasts' = [s \in Session |-> {}]
    /\ lost' = {s \in lost : About(s, OfRows, out)}
    /\ stale' = Session /\ mends' = {}
    /\ silent' = {s \in silent : About(s, OfNotices, out)}
    /\ UNCHANGED <<registry, owes, out>>

(* Its bridge waits two seconds for a snapshot.  With one the badge counts *)
(* who waits now; without, nobody, and so it stays of a session that waits *)
(* until the next word of it.                                              *)
Waiting == {s \in Session : standing[s] = "waiting"}
ShellFollows ==
    LET comes == {s \in Session : About(s, OfRows, Append(out, channel))}
    IN  /\ shell = "asks"
        /\ shell' = "follows"
        /\ \/ badge' = Waiting /\ lost' = lost \cap comes
           \/ UNCHANGED badge /\ lost' = lost \cup (Waiting \ comes)
        /\ UNCHANGED <<registry, owes, out, channel, pageVars, opens, stale, mends,
                       silent>>

----------------------------------------------------------------------------
Registry(s) ==
    \/ Launch(s) \/ EmitSession(s) \/ RemoveRow(s)
    \/ \E v \in Present :
        Touch(s, v) \/ \E causes \in SUBSET Cause : Change(s, v, causes)
    \/ \E causes \in SUBSET Cause : Recheck(s, causes)
Sender == \E i \in DOMAIN out : Emit(i)
Page == LoadSnapshot \/ TakeSnapshot \/ SnapshotArrives \/ SnapshotFails
Next ==
    \/ \E s \in Session : Registry(s)
    \/ Sender \/ Deliver \/ Page \/ Reopen \/ ShellFollows
Spec == Init /\ [][Next]_vars

----------------------------------------------------------------------------
(* When nothing is on its way, the page shows every row as it is, unless   *)
(* the last word about it was dropped, overtaken by an older one or spoken *)
(* to a page that did not listen, and no snapshot has put it right.        *)
AtRest == out = <<>> /\ channel = <<>> /\ owes = {}
ShowsTheFleet ==
    AtRest /\ page = "idle" => \A s \in Session \ stale : shows[s] = AsShown(standing[s])

(* The same of the badge of a shell that follows, which no snapshot puts   *)
(* right but the shell's first; when that was not answered in time, it     *)
(* misses who waited then, until the next word of them.                    *)
BadgeCountsTheWaiting ==
    AtRest /\ shell = "follows" =>
        \A s \in Session \ lost : (s \in badge) = (standing[s] = "waiting")

(* A toast stays no longer than its notice, and a page that was there from *)
(* the start has a toast for each.                                         *)
ToastsFollowNotices ==
    AtRest /\ page # "deaf" => \A s \in Session \ silent :
        /\ toasts[s] \subseteq notices[s]
        /\ opens = 0 => toasts[s] = notices[s]

=============================================================================
