------------------------------- MODULE Store -------------------------------
(***************************************************************************)
(* How the fleet reaches disk and comes back: the subscriber that turns    *)
(* events into a token (bridge_store), the writer thread that turns tokens *)
(* into snapshots (run_writer), the shutdown that stops both and writes    *)
(* the last snapshot itself (finish_shutdown), and the restart that reads  *)
(* the store and picks the next session id (from_store).                   *)
(*                                                                         *)
(* A fleet is its rows, its archives and `rev`, the number of changes made *)
(* to it: one image of the fleet is newer than another if its rev is       *)
(* larger.  A write replaces the file whole or not at all (write_atomic).  *)
(***************************************************************************)
EXTENDS Integers, FiniteSets, Sequences

CONSTANTS
    MaxId,         \* bound: ids are 1 .. MaxId
    MaxRev,        \* bound: changes, before the shutdown adds its own
    MaxArchives,   \* MAX_ARCHIVES
    Capacity,      \* SUBSCRIBER_QUEUE_CAPACITY
    Outputs,       \* subscribers are also told of output
    ThreadsFail,   \* the thread of a launch may fail to start
    WritesFail,    \* a write to disk may fail
    Crashes        \* the daemon may die at any point

ASSUME StoreAssumption ==
    /\ MaxId \in Nat /\ MaxRev \in Nat /\ MaxArchives \in Nat
    /\ Capacity \in Nat \ {0}
    /\ {Outputs, ThreadsFail, WritesFail, Crashes} \subseteq BOOLEAN

Id == 1 .. MaxId
Rev == 0 .. MaxRev + 1
Fleet == [live: SUBSET Id, archives: SUBSET [id: Id, at: Rev], rev: Rev]
NoFleet == [live |-> {}, archives |-> {}, rev |-> 0]
Named(f) == f.live \cup {a.id : a \in f.archives}

Phases == {"serving", "closing", "draining", "stopping", "ended", "saving",
           "saved", "down"}

VARIABLES
    phase,      \* how far finish_shutdown has got
    fleet,      \* the registry's rows and archives
    nextId,     \* State::next_id
    emitters,   \* changes made whose event is not yet sent
    channel,    \* the bridge's subscription, the events in it
    bridge,     \* the bridge's thread
    token,      \* the writer's channel of one
    writer,     \* the writer's thread
    taken,      \* the snapshot the writer has in hand
    leaving,    \* the writer has seen its senders gone
    final,      \* the snapshot finish_shutdown has in hand
    disk,       \* sessions.json
    healthy,    \* StoreHealth is None
    due,        \* history: the fleet's rev when its processes had ended
    missed,     \* history: the last write of the shutdown failed
    crowded,    \* history: output has kept a change out of the channel
    named       \* history: every id the store has ever named

registry == <<fleet, nextId, emitters>>
bridging == <<channel, bridge, token, crowded>>
writing == <<writer, taken, leaving, disk, named, healthy>>
closing == <<phase, final, due, missed>>
vars == <<registry, bridging, writing, closing>>

TypeOK ==
    /\ phase \in Phases
    /\ fleet \in Fleet /\ taken \in Fleet /\ final \in Fleet /\ disk \in Fleet
    /\ nextId \in 1 .. MaxId + 1
    /\ emitters \in Nat
    /\ channel \in Seq({"change", "output"}) /\ Len(channel) <= Capacity
    /\ bridge \in {"receiving", "telling", "gone"}
    /\ writer \in {"idle", "gathering", "writing", "gone"}
    /\ token \in BOOLEAN /\ leaving \in BOOLEAN /\ healthy \in BOOLEAN
    /\ missed \in BOOLEAN /\ crowded \in BOOLEAN
    /\ due \in Rev
    /\ named \subseteq Id

-----------------------------------------------------------------------------
(* The registry.                                                           *)

\* trim_archives: what is past its age goes, then the oldest past the count.
\* The clock may have passed any stamp but the last.
Trimmed(archives, horizon) ==
    LET young == {a \in archives : a.at >= horizon} IN
    {a \in young : Cardinality({b \in young : b.at > a.at}) < MaxArchives}

\* A change is made under the mutex and its event is sent after it is let go.
Change(live, archives) ==
    /\ fleet' = [live |-> live, archives |-> archives, rev |-> fleet.rev + 1]
    /\ emitters' = emitters + 1

Changing == phase # "down" /\ fleet.rev < MaxRev

Launch ==
    /\ Changing /\ nextId \in Id
    /\ Change(fleet.live \cup {nextId}, fleet.archives)
    /\ nextId' = nextId + 1
    /\ UNCHANGED <<bridging, writing, closing>>

\* launch could not start the row's thread: remove_entry.
LaunchUndone(id) ==
    /\ Changing /\ ThreadsFail
    /\ Change(fleet.live \ {id}, fleet.archives)
    /\ UNCHANGED <<nextId, bridging, writing, closing>>

Archive(id) ==
    /\ Changing
    /\ \E horizon \in 0 .. fleet.rev + 1 :
          Change(fleet.live \ {id},
                 Trimmed({a \in fleet.archives : a.id # id}
                            \cup {[id |-> id, at |-> fleet.rev + 1]}, horizon))
    /\ UNCHANGED <<nextId, bridging, writing, closing>>

\* Any other change of a row that is announced: a hook, an exit, a rename.
Touch ==
    /\ Changing /\ fleet.live # {}
    /\ Change(fleet.live, fleet.archives)
    /\ UNCHANGED <<nextId, bridging, writing, closing>>

\* emit: the newest event is the one that a full channel loses.
Send(event) ==
    IF bridge # "gone" /\ Len(channel) < Capacity
    THEN channel' = Append(channel, event) ELSE UNCHANGED channel

Emit ==
    /\ emitters > 0
    /\ emitters' = emitters - 1
    /\ Send("change")
    /\ crowded' = (crowded \/ /\ Len(channel) = Capacity
                              /\ \A i \in DOMAIN channel : channel[i] = "output")
    /\ UNCHANGED <<fleet, nextId, bridge, token, writing, closing>>

EmitOutput ==
    /\ Outputs /\ phase # "down" /\ fleet.live # {}
    /\ Send("output")
    /\ UNCHANGED <<registry, bridge, token, crowded, writing, closing>>

-----------------------------------------------------------------------------
(* bridge_store: the stop flag is read once a turn.  A receiver that is    *)
(* dropped takes its channel with it.                                      *)

Turn(rest) ==
    IF phase = "serving" THEN bridge' = "receiving" /\ channel' = rest
                         ELSE bridge' = "gone" /\ channel' = <<>>

BridgeTakes ==
    /\ bridge = "receiving" /\ channel # <<>>
    /\ IF Head(channel) = "change"
       THEN bridge' = "telling" /\ channel' = Tail(channel)
       ELSE Turn(Tail(channel))
    /\ UNCHANGED <<registry, token, crowded, writing, closing>>

\* StoreWriter::update: a token already there is enough.
BridgeTells ==
    /\ bridge = "telling"
    /\ token' = TRUE
    /\ Turn(channel)
    /\ UNCHANGED <<registry, crowded, writing, closing>>

BridgeTimesOutFault ==
    /\ bridge = "receiving" /\ channel = <<>>
    /\ bridge' = "gone"
    /\ UNCHANGED <<registry, channel, token, crowded, writing, closing>>

BridgeTimesOut ==
    /\ bridge = "receiving" /\ channel = <<>>
    /\ Turn(channel)
    /\ UNCHANGED <<registry, token, crowded, writing, closing>>

-----------------------------------------------------------------------------
(* run_writer.                                                             *)

SendersGoneFault ==
    bridge = "gone" /\ phase \notin {"serving", "closing", "draining"}

\* Both senders dropped: the bridge's when its thread ends, the server's
\* when finish_shutdown drops the writer.
SendersGone == bridge = "gone" /\ phase \notin {"serving", "closing"}

WriterWakes ==
    /\ writer = "idle" /\ token
    /\ token' = FALSE /\ writer' = "gathering"
    /\ UNCHANGED <<registry, channel, bridge, crowded, taken, leaving, disk,
                   named, healthy, closing>>

WriterEnds ==
    /\ writer = "idle" /\ ~token /\ SendersGone
    /\ writer' = "gone"
    /\ UNCHANGED <<registry, bridging, taken, leaving, disk, named, healthy,
                   closing>>

\* A token puts the quiet deadline off, but never the last one.
WriterGathersMore ==
    /\ writer = "gathering" /\ token
    /\ token' = FALSE
    /\ UNCHANGED <<registry, channel, bridge, crowded, writing, closing>>

\* A deadline has passed, or recv_timeout has found the senders gone.
TakeSnapshot ==
    /\ writer = "gathering"
    /\ leaving' \in {FALSE, SendersGone /\ ~token}
    /\ taken' = fleet /\ writer' = "writing"
    /\ UNCHANGED <<registry, bridging, disk, named, healthy, closing>>

\* write_atomic: the whole file or none of it.
Replace(snapshot) == disk' = snapshot /\ named' = named \cup Named(snapshot)

WriteStoreFault ==
    /\ writer = "writing"
    /\ Replace(taken) /\ healthy' = TRUE /\ token' = FALSE
    /\ writer' = IF leaving THEN "gone" ELSE "idle"
    /\ taken' = NoFleet /\ leaving' = FALSE
    /\ UNCHANGED <<registry, channel, bridge, crowded, closing>>

WriteStore ==
    /\ writer = "writing"
    /\ \/ Replace(taken) /\ healthy' = TRUE
       \/ WritesFail /\ healthy' = FALSE /\ UNCHANGED <<disk, named>>
    /\ writer' = IF leaving THEN "gone" ELSE "idle"
    /\ taken' = NoFleet /\ leaving' = FALSE
    /\ UNCHANGED <<registry, bridging, closing>>

-----------------------------------------------------------------------------
(* finish_shutdown, one action for each thing it waits for.                *)

Shutdown ==
    /\ phase = "serving" /\ phase' = "closing"
    /\ UNCHANGED <<registry, bridging, writing, final, due, missed>>

BridgeJoined ==
    /\ phase = "closing" /\ bridge = "gone"
    /\ phase' = "draining"
    /\ UNCHANGED <<registry, bridging, writing, final, due, missed>>

WriterJoinedFault ==
    /\ phase = "draining"
    /\ phase' = "stopping"
    /\ UNCHANGED <<registry, bridging, writing, final, due, missed>>

WriterJoined ==
    /\ phase = "draining" /\ writer = "gone"
    /\ phase' = "stopping"
    /\ UNCHANGED <<registry, bridging, writing, final, due, missed>>

\* registry.shutdown: every process is stopped and its row says so.
StopFleet ==
    /\ phase = "stopping" /\ phase' = "ended"
    /\ IF fleet.live = {} THEN UNCHANGED <<fleet, emitters>>
                          ELSE Change(fleet.live, fleet.archives)
    /\ due' = fleet'.rev
    /\ UNCHANGED <<nextId, bridging, writing, final, missed>>

FinalSnapshot ==
    /\ phase = "ended" /\ phase' = "saving"
    /\ final' = fleet
    /\ UNCHANGED <<registry, bridging, writing, due, missed>>

FinalWriteFault ==
    /\ phase = "saving" /\ phase' = "saved"
    /\ IF healthy THEN UNCHANGED <<disk, named>> ELSE Replace(final)
    /\ final' = NoFleet
    /\ UNCHANGED <<registry, bridging, writer, taken, leaving, healthy, due,
                   missed>>

FinalWrite ==
    /\ phase = "saving" /\ phase' = "saved"
    /\ \/ Replace(final) /\ UNCHANGED missed
       \/ WritesFail /\ missed' = TRUE /\ UNCHANGED <<disk, named>>
    /\ final' = NoFleet
    /\ UNCHANGED <<registry, bridging, writer, taken, leaving, healthy, due>>

\* What a process leaves behind when it ends, whichever way.
Die ==
    /\ phase' = "down"
    /\ fleet' = NoFleet /\ nextId' = 1 /\ emitters' = 0
    /\ channel' = <<>> /\ bridge' = "gone" /\ token' = FALSE /\ crowded' = FALSE
    /\ writer' = "gone" /\ taken' = NoFleet /\ leaving' = FALSE
    /\ healthy' = TRUE /\ final' = NoFleet /\ due' = 0 /\ missed' = FALSE
    /\ UNCHANGED <<disk, named>>

Exit == phase = "saved" /\ Die
Crash == Crashes /\ phase # "down" /\ Die

RestoredIdFault(f) == {0} \cup f.live

\* from_store: the next id is above every id of the store, archives that are
\* then trimmed included.  A row that is live and archived is live.
RestoredId(f) == {0} \cup Named(f)

Restart ==
    /\ phase = "down" /\ phase' = "serving"
    /\ disk.rev < MaxRev
    /\ \E last \in RestoredId(disk) :
          /\ \A id \in RestoredId(disk) : id <= last
          /\ nextId' = last + 1
    /\ \E horizon \in 0 .. disk.rev + 1 :
          fleet' = [disk EXCEPT
             !.archives = {a \in Trimmed(@, horizon) : a.id \notin disk.live}]
    /\ bridge' = "receiving" /\ writer' = "idle"
    /\ UNCHANGED <<emitters, channel, token, crowded, taken, leaving,
                   disk, named, healthy, final, due, missed>>

Init ==
    /\ phase = "serving" /\ fleet = NoFleet /\ nextId = 1 /\ emitters = 0
    /\ channel = <<>> /\ bridge = "receiving" /\ token = FALSE
    /\ crowded = FALSE /\ writer = "idle" /\ taken = NoFleet
    /\ leaving = FALSE /\ final = NoFleet /\ disk = NoFleet
    /\ healthy = TRUE /\ due = 0 /\ missed = FALSE /\ named = {}

Requests == Launch \/ Touch \/ \E id \in fleet.live : LaunchUndone(id) \/ Archive(id)
Bridge == BridgeTakes \/ BridgeTells \/ BridgeTimesOut
Writer == WriterWakes \/ WriterGathersMore \/ TakeSnapshot \/ WriteStore \/ WriterEnds
Closing == BridgeJoined \/ WriterJoined \/ StopFleet \/ FinalSnapshot
              \/ FinalWrite \/ Exit

Next ==
    \/ Requests \/ Emit \/ EmitOutput
    \/ Bridge \/ Writer
    \/ Shutdown \/ Closing
    \/ Crash \/ Restart

Spec == Init /\ [][Next]_vars

\* Threads run.  A token that keeps coming cannot keep the writer from its
\* snapshot: the last deadline does not move.
FairSpec ==
    /\ Spec
    /\ WF_vars(Emit) /\ WF_vars(Bridge) /\ WF_vars(Closing)
    /\ WF_vars(TakeSnapshot) /\ WF_vars(Writer)
-----------------------------------------------------------------------------
(* Properties.                                                             *)

\* The store never goes back: the writer's snapshots and the last one of the
\* shutdown reach disk in the order they were taken ("an older snapshot
\* cannot race the synchronous final write", finish_shutdown).
NoStaleOverwrite == [][disk'.rev >= disk.rev]_vars

\* While the daemon serves, a change that is not on disk is on its way there
\* (its event, the token, the writer), or StoreHealth tells the operator.
\* Output that has crowded a change out of the channel is excepted.
Coming ==
    \/ emitters > 0 \/ \E i \in DOMAIN channel : channel[i] = "change"
    \/ bridge = "telling" \/ token

OnItsWay ==
    \/ Coming \/ writer = "gathering"
    \/ writer = "writing" /\ taken.rev = fleet.rev

NoSilentLoss ==
    phase = "serving" /\ disk.rev < fleet.rev => OnItsWay \/ ~healthy \/ crowded

\* The next id is above every id that memory, a snapshot in hand or the disk
\* knows, live or archived, so that no launch takes over another's row.
IdsAreFresh ==
    phase # "down" =>
        \A f \in {fleet, taken, final, disk} : \A id \in Named(f) : id < nextId

\* After a shutdown that could write, the disk has the fleet as it was when
\* the last of its processes had ended.
NothingLeftBehind == phase = "saved" /\ ~missed => disk.rev >= due

\* A shutdown that is asked for comes to its end, through the two joins.
ShutdownEnds == phase = "closing" ~> phase = "down"

\* The debounce puts a save off, and never for good.
ChangesReachDisk ==
    \A r \in Rev : phase = "serving" /\ fleet.rev = r ~>
        disk.rev >= r \/ phase # "serving" \/ ~healthy \/ crowded

\* registry/mod.rs:441, "an id that has been handed out must never be handed
\* out again, even once the record naming it has aged out".
IdsNeverReturn == phase # "down" => nextId \notin named
=============================================================================
