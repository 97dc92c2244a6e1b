---------------------------- MODULE StoreProofs ----------------------------
(***************************************************************************)
(* Proofs about Store, for any bounds and whatever fails.                  *)
(***************************************************************************)
EXTENDS Store, TLAPS

\* Who may hold a snapshot, and how new it is.  The shutdown takes its own
\* only when the writer is gone, so that two are never in hand at once.
OneWriter == phase \in {"stopping", "ended", "saving", "saved", "down"} => writer = "gone"
Ordered ==
    /\ phase # "down" => disk.rev <= fleet.rev
    /\ writer = "writing" => disk.rev <= taken.rev
    /\ phase # "down" /\ writer = "writing" => taken.rev <= fleet.rev
    /\ phase = "saving" => disk.rev <= final.rev /\ final.rev <= fleet.rev

\* What the shutdown owes is in the fleet, then in hand, then on disk.  Only
\* the exits it causes may take the last revision of the bound.
Owed ==
    /\ phase \in {"ended", "saving", "saved"} \/ fleet.rev <= MaxRev
    /\ phase = "ended" => due <= fleet.rev
    /\ phase = "saving" => due <= final.rev

\* Both threads are there while the daemon serves, and hold nothing when it
\* does not run.
Attended ==
    /\ phase = "serving" => bridge # "gone" /\ writer # "gone" /\ ~leaving
    /\ phase = "down" => taken = NoFleet /\ final = NoFleet /\ ~leaving

\* A change that the snapshot in hand is too old for is still to come, even if
\* the last write has failed and this one succeeds.
HandIsFollowed ==
    phase = "serving" /\ writer = "writing" /\ taken.rev < fleet.rev
        => Coming \/ crowded

IInv == TypeOK /\ OneWriter /\ Ordered /\ Owed /\ NothingLeftBehind
            /\ IdsAreFresh /\ Attended /\ HandIsFollowed /\ NoSilentLoss

-----------------------------------------------------------------------------
(* The registry's operators.                                               *)

\* Trimming only removes.
LEMMA TrimmedShrinks ==
    ASSUME NEW S, NEW h PROVE Trimmed(S, h) \subseteq S
  BY DEF Trimmed

\* So an archive list that is trimmed names nobody new.
LEMMA NamedByType ==
    ASSUME NEW f \in Fleet PROVE Named(f) \subseteq Id
  BY DEF Fleet, Named

LEMMA NoFleetIsFleet == NoFleet \in Fleet /\ Named(NoFleet) = {}
  BY StoreAssumption DEF NoFleet, Fleet, Named, Rev

\* What a change of the fleet leaves the threads of the store to do.
Same == UNCHANGED <<bridging, writing, closing>>

LEMMA ChangeKeeps ==
    ASSUME IInv, NEW live \in SUBSET Id, NEW archives \in SUBSET [id: Id, at: Rev],
           Changing, Change(live, archives), Same, nextId' \in 1 .. MaxId + 1,
           nextId <= nextId',
           \A id \in live \cup {a.id : a \in archives} : id < nextId'
    PROVE  IInv'
  <1> USE StoreAssumption DEF IInv, Same, bridging, writing, closing, Changing
  <1>1. fleet' \in Fleet /\ fleet'.rev = fleet.rev + 1 /\ fleet.rev \in Nat
        /\ Named(fleet') = live \cup {a.id : a \in archives}
    <2>1. fleet \in Fleet
      BY DEF TypeOK
    <2>2. fleet.rev \in Nat /\ fleet.rev + 1 \in Rev
      BY <2>1 DEF Fleet, Rev
    <2>3. fleet' = [live |-> live, archives |-> archives, rev |-> fleet.rev + 1]
      BY DEF Change
    <2> QED
      BY <2>2, <2>3 DEF Fleet, Named
  <1>2. TypeOK'
    BY <1>1 DEF TypeOK, Change
  <1>3. OneWriter' /\ NothingLeftBehind' /\ Attended'
    BY DEF OneWriter, NothingLeftBehind, Attended
  <1>4. Ordered' /\ Owed'
    BY <1>1 DEF Ordered, Owed, TypeOK, Fleet, Rev
  <1>5. IdsAreFresh'
    <2>1. ASSUME NEW f \in {taken, final, disk}, NEW id \in Named(f)
          PROVE  id < nextId'
      <3>1. id < nextId /\ id \in Id
        BY <2>1, NamedByType DEF IdsAreFresh, TypeOK
      <3> QED BY <3>1 DEF TypeOK, Id
    <2> QED BY <1>1, <2>1 DEF IdsAreFresh
  <1>6. HandIsFollowed' /\ NoSilentLoss'
    BY DEF HandIsFollowed, NoSilentLoss, OnItsWay, Coming, Change, TypeOK
  <1> QED BY <1>2, <1>3, <1>4, <1>5, <1>6

LEMMA InitIsFine == Init => IInv
  <1> SUFFICES ASSUME Init PROVE IInv
    OBVIOUS
  <1> USE StoreAssumption, NoFleetIsFleet DEF Init
  <1>1. TypeOK
    <2>1. channel \in Seq({"change", "output"}) /\ Len(channel) <= Capacity
      OBVIOUS
    <2>2. nextId \in 1 .. MaxId + 1 /\ emitters \in Nat /\ due \in Rev
      BY DEF Rev
    <2>3. phase \in Phases
      BY DEF Phases
    <2>4. /\ token \in BOOLEAN /\ leaving \in BOOLEAN /\ healthy \in BOOLEAN
          /\ missed \in BOOLEAN /\ crowded \in BOOLEAN /\ named \subseteq Id
      OBVIOUS
    <2> QED BY <2>1, <2>2, <2>3, <2>4 DEF TypeOK
  <1>2. OneWriter /\ Ordered /\ Owed /\ NothingLeftBehind /\ Attended
        /\ HandIsFollowed /\ NoSilentLoss
    BY DEF OneWriter, Ordered, Owed, NothingLeftBehind, Attended, HandIsFollowed,
           NoSilentLoss, NoFleet
  <1>3. IdsAreFresh
    BY DEF IdsAreFresh
  <1> QED BY <1>1, <1>2, <1>3 DEF IInv

-----------------------------------------------------------------------------
(* One lemma for each group of actions.                                    *)

LEMMA RequestsKeep == IInv /\ Requests => IInv'
  <1> SUFFICES ASSUME IInv, Requests PROVE IInv'
    OBVIOUS
  <1> USE StoreAssumption DEF Same
  <1>1. fleet \in Fleet /\ fleet.live \subseteq Id /\ fleet.rev \in Rev
        /\ fleet.archives \subseteq [id: Id, at: Rev]
        /\ nextId \in 1 .. MaxId + 1
    BY DEF IInv, TypeOK, Fleet
  <1>2. ASSUME Changing
        PROVE  /\ \A id \in fleet.live \cup {a.id : a \in fleet.archives} : id < nextId
               /\ fleet.rev + 1 \in Rev
    BY <1>1, <1>2 DEF IInv, IdsAreFresh, Changing, Named, Rev
  <1>3. CASE Launch
    <2>1. nextId \in Id /\ nextId' = nextId + 1 /\ Changing
      BY <1>3 DEF Launch
    <2>2. \A id \in (fleet.live \cup {nextId}) \cup {a.id : a \in fleet.archives} : id < nextId'
      <3>1. \A id \in fleet.live \cup {a.id : a \in fleet.archives} : id \in Id
        BY <1>1
      <3> QED BY <1>1, <1>2, <2>1, <3>1 DEF Id
    <2> QED BY <1>1, <1>3, <2>1, <2>2, ChangeKeeps DEF Launch, Id
  <1>4. CASE Touch
    BY <1>1, <1>2, <1>4, ChangeKeeps DEF Touch
  <1>5. ASSUME NEW id \in fleet.live, LaunchUndone(id) PROVE IInv'
    BY <1>1, <1>2, <1>5, ChangeKeeps DEF LaunchUndone
  <1>6. ASSUME NEW id \in fleet.live, Archive(id) PROVE IInv'
    <2> DEFINE kept == {a \in fleet.archives : a.id # id} \cup {[id |-> id, at |-> fleet.rev + 1]}
    <2>1. Changing /\ nextId' = nextId /\ Same
      BY <1>6 DEF Archive
    <2>2. PICK horizon \in 0 .. fleet.rev + 1 :
             Change(fleet.live \ {id}, Trimmed(kept, horizon))
      BY <1>6 DEF Archive
    <2>3. Trimmed(kept, horizon) \subseteq kept
      BY TrimmedShrinks
    <2>4. kept \subseteq [id: Id, at: Rev]
      BY <1>1, <1>2, <2>1
    <2>5. \A a \in kept : a.id \in fleet.live \cup {b.id : b \in fleet.archives}
      OBVIOUS
    <2>6. \A i \in (fleet.live \ {id}) \cup {a.id : a \in Trimmed(kept, horizon)} : i < nextId'
      BY <1>2, <2>1, <2>3, <2>5
    <2> HIDE DEF kept
    <2> QED BY <1>1, <2>1, <2>2, <2>3, <2>4, <2>6, ChangeKeeps
  <1> QED BY <1>3, <1>4, <1>5, <1>6 DEF Requests

\* An event that is not sent has either found a change in the channel before
\* it, or output that has crowded it out.
LEMMA EmitKeeps == IInv /\ (Emit \/ EmitOutput) => IInv'
  <1> SUFFICES ASSUME IInv, Emit \/ EmitOutput PROVE IInv'
    OBVIOUS
  <1> USE StoreAssumption DEF IInv, writing, closing, registry
  <1> DEFINE event == IF Emit THEN "change" ELSE "output"
  <1>1. UNCHANGED <<fleet, nextId, bridge, token, writing, closing>>
    BY DEF Emit, EmitOutput
  <1>2. channel \in Seq({"change", "output"}) /\ Len(channel) \in Nat /\ Len(channel) <= Capacity
    BY DEF TypeOK
  <1>3. \/ channel' = channel
        \/ /\ Len(channel) < Capacity
           /\ \/ channel' = Append(channel, "change")
              \/ channel' = Append(channel, "output")
    BY DEF Emit, EmitOutput, Send
  <1>4. channel' \in Seq({"change", "output"}) /\ Len(channel') <= Capacity
    BY <1>2, <1>3
  <1>5. TypeOK'
    <2>1. crowded' \in BOOLEAN
      BY Zenon DEF TypeOK, Emit, EmitOutput
    <2>2. emitters' \in Nat
      BY DEF TypeOK, Emit, EmitOutput
    <2> QED BY <1>1, <1>4, <2>1, <2>2 DEF TypeOK
  <1>6. OneWriter' /\ Ordered' /\ Owed' /\ NothingLeftBehind' /\ Attended'
    BY <1>1 DEF OneWriter, Ordered, Owed, NothingLeftBehind, Attended
  <1>7. IdsAreFresh'
    BY <1>1 DEF IdsAreFresh
  <1>8. ASSUME phase = "serving", Coming PROVE Coming' \/ crowded'
    <2>1. ASSUME \E i \in DOMAIN channel : channel[i] = "change"
          PROVE  \E i \in DOMAIN channel' : channel'[i] = "change"
      BY <1>2, <1>3, <2>1
    <2>2. CASE EmitOutput
      BY <1>1, <1>8, <2>1, <2>2 DEF Coming, EmitOutput
    <2>3. CASE Emit
      <3>1. CASE Len(channel) < Capacity
        <4>1. channel' = Append(channel, "change")
          BY <1>8, <2>3, <3>1 DEF Emit, Send, Attended
        <4>2. Len(channel) + 1 \in DOMAIN channel' /\ channel'[Len(channel) + 1] = "change"
          BY <1>2, <4>1
        <4> QED BY <4>2 DEF Coming
      <3>2. CASE Len(channel) = Capacity
        <4>1. channel' = channel
          BY <1>2, <2>3, <3>2 DEF Emit, Send
        <4>2. \A i \in DOMAIN channel : channel[i] \in {"change", "output"}
          BY <1>2
        <4>3. CASE \A i \in DOMAIN channel : channel[i] = "output"
          <5>1. crowded'
            BY <2>3, <3>2, <4>3, Zenon DEF Emit
          <5> QED BY <5>1
        <4>4. CASE \E i \in DOMAIN channel : channel[i] = "change"
          BY <4>1, <4>4 DEF Coming
        <4> QED BY <4>2, <4>3, <4>4
      <3> QED BY <1>2, <3>1, <3>2
    <2> QED BY <2>2, <2>3
  <1>9. crowded => crowded'
    BY Zenon DEF Emit, EmitOutput
  <1>10. HandIsFollowed' /\ NoSilentLoss'
    BY <1>1, <1>8, <1>9 DEF HandIsFollowed, NoSilentLoss, OnItsWay
  <1> QED BY <1>5, <1>6, <1>7, <1>10

\* A change that leaves the channel is in the bridge's hands, then the token.
LEMMA BridgeKeeps == IInv /\ Bridge => IInv'
  <1> SUFFICES ASSUME IInv, Bridge PROVE IInv'
    OBVIOUS
  <1> USE StoreAssumption DEF IInv, registry, writing, closing
  <1>1. UNCHANGED <<registry, crowded, writing, closing>>
    BY DEF Bridge, BridgeTakes, BridgeTells, BridgeTimesOut
  <1>2. channel \in Seq({"change", "output"}) /\ Len(channel) \in Nat
        /\ Len(channel) <= Capacity
    BY DEF TypeOK
  <1>3. channel # <<>> => /\ Tail(channel) \in Seq({"change", "output"})
                          /\ Len(Tail(channel)) <= Capacity
    BY <1>2
  <1>4. \/ channel' = channel
        \/ channel' = <<>>
        \/ channel # <<>> /\ channel' = Tail(channel)
    BY <1>2 DEF Bridge, BridgeTakes, BridgeTells, BridgeTimesOut, Turn
  <1>5. channel' \in Seq({"change", "output"}) /\ Len(channel') <= Capacity
    <2>1. <<>> \in Seq({"change", "output"}) /\ Len(<<>>) <= Capacity
      OBVIOUS
    <2> QED BY <1>2, <1>3, <1>4, <2>1
  <1>6. TypeOK'
    <2>1. token' \in BOOLEAN
      BY Zenon DEF TypeOK, Bridge, BridgeTakes, BridgeTells, BridgeTimesOut
    <2>2. bridge' \in {"receiving", "telling", "gone"}
      BY DEF Bridge, BridgeTakes, BridgeTells, BridgeTimesOut, Turn
    <2> QED BY <1>1, <1>5, <2>1, <2>2 DEF TypeOK
  <1>7. OneWriter' /\ Ordered' /\ Owed' /\ NothingLeftBehind' /\ IdsAreFresh'
    BY <1>1 DEF OneWriter, Ordered, Owed, NothingLeftBehind, IdsAreFresh
  <1>8. Attended' /\ (phase = "serving" => bridge' \in {"receiving", "telling"})
    BY <1>1 DEF Attended, Bridge, BridgeTakes, BridgeTells, BridgeTimesOut, Turn
  <1>9. ASSUME phase = "serving", Coming PROVE Coming'
    <2>1. CASE BridgeTells
      BY <2>1 DEF Coming, BridgeTells
    <2>2. CASE BridgeTimesOut
      BY <1>1, <1>9, <2>2 DEF Coming, BridgeTimesOut, Turn
    <2>3. CASE BridgeTakes
      <3>1. CASE Head(channel) = "change"
        BY <2>3, <3>1 DEF Coming, BridgeTakes
      <3>2. CASE Head(channel) # "change"
        <4>1. channel # <<>> /\ channel' = Tail(channel) /\ token' = token /\ bridge = "receiving"
          BY <1>9, <2>3, <3>2 DEF BridgeTakes, Turn
        <4>2. ASSUME \E i \in DOMAIN channel : channel[i] = "change"
              PROVE  \E i \in DOMAIN channel' : channel'[i] = "change"
          <5>1. PICK i \in 1 .. Len(channel) : channel[i] = "change"
            BY <1>2, <4>2
          <5>2. i # 1
            BY <1>2, <3>2, <4>1, <5>1
          <5>3. i - 1 \in DOMAIN channel' /\ channel'[i - 1] = "change"
            BY <1>2, <4>1, <5>1, <5>2
          <5> QED BY <5>3
        <4> QED BY <1>1, <1>9, <4>1, <4>2 DEF Coming
      <3> QED BY <3>1, <3>2
    <2> QED BY <2>1, <2>2, <2>3 DEF Bridge
  <1>10. HandIsFollowed' /\ NoSilentLoss'
    BY <1>1, <1>9 DEF HandIsFollowed, NoSilentLoss, OnItsWay
  <1> QED BY <1>6, <1>7, <1>8, <1>10

\* The writer's snapshot is never older than the store it replaces, and
\* nothing but the writer writes while it lives.
LEMMA WriterKeeps == IInv /\ Writer => IInv'
  <1> SUFFICES ASSUME IInv, Writer PROVE IInv'
    OBVIOUS
  <1> USE StoreAssumption, NoFleetIsFleet DEF IInv, registry, bridging, closing
  <1>1. CASE WriterWakes
    <2> USE <1>1 DEF WriterWakes
    <2>1. TypeOK' /\ OneWriter' /\ Ordered' /\ Owed' /\ NothingLeftBehind'
      BY DEF TypeOK, OneWriter, Ordered, Owed, NothingLeftBehind
    <2>2. IdsAreFresh' /\ Attended' /\ HandIsFollowed' /\ NoSilentLoss'
      BY DEF IdsAreFresh, Attended, HandIsFollowed, Coming, NoSilentLoss, OnItsWay
    <2> QED BY <2>1, <2>2
  <1>2. CASE WriterEnds
    <2> USE <1>2 DEF WriterEnds
    <2>1. TypeOK' /\ OneWriter' /\ Ordered' /\ Owed' /\ NothingLeftBehind'
      BY DEF TypeOK, OneWriter, Ordered, Owed, NothingLeftBehind
    <2>2. IdsAreFresh' /\ Attended' /\ HandIsFollowed' /\ NoSilentLoss'
      BY DEF IdsAreFresh, Attended, HandIsFollowed, Coming, NoSilentLoss, SendersGone
    <2> QED BY <2>1, <2>2
  <1>3. CASE WriterGathersMore
    <2> USE <1>3 DEF WriterGathersMore, writing
    <2>1. TypeOK' /\ OneWriter' /\ Ordered' /\ Owed' /\ NothingLeftBehind'
      BY DEF TypeOK, OneWriter, Ordered, Owed, NothingLeftBehind
    <2>2. IdsAreFresh' /\ Attended' /\ HandIsFollowed' /\ NoSilentLoss'
      BY DEF IdsAreFresh, Attended, HandIsFollowed, Coming, NoSilentLoss, OnItsWay
    <2> QED BY <2>1, <2>2
  <1>4. CASE TakeSnapshot
    <2> USE <1>4 DEF TakeSnapshot
    <2>1. phase \notin {"stopping", "ended", "saving", "saved", "down"}
      BY DEF OneWriter
    <2>2. leaving' \in BOOLEAN /\ (phase = "serving" => ~leaving')
      BY Zenon DEF SendersGone
    <2>3. TypeOK'
      BY <2>2 DEF TypeOK
    <2>4. OneWriter' /\ Owed' /\ NothingLeftBehind' /\ Attended'
      BY <2>1, <2>2 DEF OneWriter, Owed, NothingLeftBehind, Attended
    <2>5. Ordered'
      BY <2>1 DEF Ordered, TypeOK, Fleet, Rev
    <2>6. IdsAreFresh'
      BY DEF IdsAreFresh
    <2>7. HandIsFollowed' /\ NoSilentLoss'
      BY DEF HandIsFollowed, NoSilentLoss, OnItsWay, TypeOK, Fleet, Rev
    <2> QED BY <2>3, <2>4, <2>5, <2>6, <2>7
  <1>5. CASE WriteStore
    <2> USE <1>5 DEF WriteStore, Replace
    <2>1. phase \notin {"stopping", "ended", "saving", "saved", "down"}
      BY DEF OneWriter
    <2>2. /\ disk' \in {disk, taken} /\ taken' = NoFleet /\ leaving' = FALSE
          /\ writer' \in {"idle", "gone"} /\ (~leaving => writer' = "idle")
      OBVIOUS
    <2>3. TypeOK'
      <3>1. healthy' \in BOOLEAN
        OBVIOUS
      <3>2. named' \subseteq Id
        BY NamedByType DEF TypeOK
      <3> QED BY <2>2, <3>1, <3>2 DEF TypeOK
    <2>4. OneWriter' /\ Owed' /\ NothingLeftBehind' /\ Attended'
      BY <2>1, <2>2 DEF OneWriter, Owed, NothingLeftBehind, Attended
    <2>5. Ordered'
      BY <2>1, <2>2 DEF Ordered, TypeOK, Fleet, Rev
    <2>6. IdsAreFresh'
      BY <2>2 DEF IdsAreFresh
    <2>7. HandIsFollowed' /\ NoSilentLoss'
      <3>1. disk.rev \in Nat /\ taken.rev \in Nat /\ fleet.rev \in Nat
        BY DEF TypeOK, Fleet, Rev
      <3>2. phase = "serving" /\ taken.rev < fleet.rev => Coming \/ crowded
        BY DEF HandIsFollowed
      <3>3. CASE disk' = taken
        BY <2>2, <3>1, <3>2, <3>3 DEF HandIsFollowed, NoSilentLoss, OnItsWay, Coming
      <3>4. CASE healthy' = FALSE
        BY <2>2, <3>4 DEF HandIsFollowed, NoSilentLoss
      <3> QED BY <3>3, <3>4
    <2> QED BY <2>3, <2>4, <2>5, <2>6, <2>7
  <1> QED BY <1>1, <1>2, <1>3, <1>4, <1>5 DEF Writer

\* A process that ends leaves the disk and nothing in hand.
LEMMA DieKeeps == IInv /\ Die => IInv'
  <1> SUFFICES ASSUME IInv, Die PROVE IInv'
    OBVIOUS
  <1> USE StoreAssumption, NoFleetIsFleet DEF IInv, Die
  <1>1. TypeOK'
    <2>1. 0 \in Rev /\ phase' \in Phases /\ nextId' \in 1 .. MaxId + 1
      BY DEF Rev, Phases
    <2>2. channel' \in Seq({"change", "output"}) /\ Len(channel') <= Capacity
      OBVIOUS
    <2>3. /\ token' \in BOOLEAN /\ leaving' \in BOOLEAN /\ healthy' \in BOOLEAN
          /\ missed' \in BOOLEAN /\ crowded' \in BOOLEAN
      OBVIOUS
    <2> QED BY <2>1, <2>2, <2>3 DEF TypeOK
  <1>2. OneWriter' /\ Ordered' /\ Owed' /\ NothingLeftBehind' /\ IdsAreFresh'
    BY DEF OneWriter, Ordered, Owed, NothingLeftBehind, IdsAreFresh, NoFleet
  <1>3. Attended' /\ HandIsFollowed' /\ NoSilentLoss'
    BY DEF Attended, HandIsFollowed, NoSilentLoss
  <1> QED BY <1>1, <1>2, <1>3

\* The restart: nothing in hand, the fleet is the store's, and the next id is
\* above all the store names, what is trimmed included.
LEMMA RestartKeeps == IInv /\ Restart => IInv'
  <1> SUFFICES ASSUME IInv, Restart PROVE IInv'
    OBVIOUS
  <1> USE StoreAssumption DEF IInv, Restart
  <1>1. PICK last \in RestoredId(disk) :
           (\A id \in RestoredId(disk) : id <= last) /\ nextId' = last + 1
    OBVIOUS
  <1>2. PICK horizon \in 0 .. disk.rev + 1 :
           fleet' = [disk EXCEPT
             !.archives = {a \in Trimmed(@, horizon) : a.id \notin disk.live}]
    OBVIOUS
  <1>3. disk \in Fleet /\ Named(disk) \subseteq Id
    BY NamedByType DEF TypeOK
  <1>4. Trimmed(disk.archives, horizon) \subseteq disk.archives
    BY TrimmedShrinks
  <1>5. fleet' \in Fleet /\ fleet'.rev = disk.rev /\ Named(fleet') \subseteq Named(disk)
    BY <1>2, <1>3, <1>4 DEF Fleet, Named
  <1>6. nextId' \in 1 .. MaxId + 1 /\ \A id \in Named(disk) : id < nextId'
    <2>1. \A id \in RestoredId(disk) : id \in 0 .. MaxId
      BY <1>3 DEF RestoredId, Id
    <2>2. Named(disk) \subseteq RestoredId(disk)
      BY DEF RestoredId
    <2> QED BY <1>1, <2>1, <2>2
  <1>7. writer = "gone" /\ phase = "down"
    BY DEF OneWriter
  <1>8. TypeOK'
    BY <1>5, <1>6 DEF TypeOK, Phases
  <1>9. Ordered' /\ OneWriter' /\ Owed' /\ NothingLeftBehind'
    BY <1>3, <1>5 DEF Ordered, OneWriter, Owed, NothingLeftBehind, Fleet, Rev
  <1>10. HandIsFollowed' /\ NoSilentLoss'
    BY <1>3, <1>5 DEF HandIsFollowed, NoSilentLoss, Fleet, Rev
  <1>11. IdsAreFresh'
    BY <1>5, <1>6, NoFleetIsFleet DEF IdsAreFresh, Attended
  <1>12. Attended'
    BY DEF Attended
  <1> QED BY <1>8, <1>9, <1>10, <1>11, <1>12

\* The shutdown: it goes on when the thread it joins has ended, and its own
\* snapshot is newer than any the writer had.
LEMMA ClosingKeeps == IInv /\ (Shutdown \/ Closing) => IInv'
  <1> SUFFICES ASSUME IInv, Shutdown \/ Closing PROVE IInv'
    OBVIOUS
  <1> USE StoreAssumption, NoFleetIsFleet DEF IInv, registry, bridging, writing
  <1>1. CASE Shutdown \/ BridgeJoined \/ WriterJoined
    <2> USE <1>1 DEF Shutdown, BridgeJoined, WriterJoined
    <2>1. phase' \in {"closing", "draining", "stopping"} /\ phase \in {"serving", "closing", "draining"}
          /\ (phase' = "stopping" => writer = "gone")
      OBVIOUS
    <2>2. UNCHANGED <<registry, bridging, writing, final, due, missed>>
      OBVIOUS
    <2>3. TypeOK' /\ OneWriter' /\ Ordered' /\ Owed' /\ NothingLeftBehind'
      BY <2>1, <2>2 DEF TypeOK, Phases, OneWriter, Ordered, Owed, NothingLeftBehind
    <2>4. IdsAreFresh' /\ Attended' /\ HandIsFollowed' /\ NoSilentLoss'
      BY <2>1, <2>2 DEF IdsAreFresh, Attended, HandIsFollowed, NoSilentLoss
    <2> QED BY <2>3, <2>4
  <1>2. CASE StopFleet
    <2> USE <1>2 DEF StopFleet
    <2>1. fleet \in Fleet /\ fleet.rev \in Nat /\ writer = "gone"
      BY DEF TypeOK, Fleet, Rev, OneWriter
    <2>2. fleet'.rev \in Nat /\ fleet.rev <= fleet'.rev /\ Named(fleet') = Named(fleet)
      BY <2>1 DEF Change, Named
    <2>3. OneWriter' /\ Ordered' /\ Owed' /\ NothingLeftBehind'
      BY <2>1, <2>2 DEF OneWriter, Ordered, Owed, NothingLeftBehind, TypeOK, Fleet, Rev
    <2>4. IdsAreFresh' /\ Attended' /\ HandIsFollowed' /\ NoSilentLoss'
      BY <2>1, <2>2 DEF IdsAreFresh, Attended, HandIsFollowed, NoSilentLoss
    <2>5. TypeOK'
      <3>1. fleet.rev <= MaxRev
        BY DEF Owed
      <3>2. fleet' \in Fleet /\ due' \in Rev /\ emitters' \in Nat
        BY <2>1, <3>1 DEF TypeOK, Change, Fleet, Rev
      <3> QED BY <3>2 DEF TypeOK, Phases
    <2> QED BY <2>3, <2>4, <2>5
  <1>3. CASE FinalSnapshot
    <2> USE <1>3 DEF FinalSnapshot
    <2>1. fleet \in Fleet /\ fleet.rev \in Nat /\ writer = "gone"
      BY DEF TypeOK, Fleet, Rev, OneWriter
    <2>2. TypeOK' /\ OneWriter' /\ Ordered' /\ Owed' /\ NothingLeftBehind'
      BY <2>1 DEF TypeOK, Phases, OneWriter, Ordered, Owed, NothingLeftBehind
    <2>3. IdsAreFresh' /\ Attended' /\ HandIsFollowed' /\ NoSilentLoss'
      BY <2>1 DEF IdsAreFresh, Attended, HandIsFollowed, NoSilentLoss
    <2> QED BY <2>2, <2>3
  <1>4. CASE FinalWrite
    <2> USE <1>4 DEF FinalWrite, Replace
    <2>1. /\ writer = "gone" /\ disk.rev \in Nat /\ final.rev \in Nat /\ due \in Nat
          /\ disk' \in {disk, final} /\ (disk' = disk \/ missed' = missed)
      BY DEF TypeOK, Fleet, Rev, OneWriter
    <2>2. TypeOK'
      <3>1. missed' \in BOOLEAN
        BY DEF TypeOK
      <3>2. named' \subseteq Id
        BY NamedByType DEF TypeOK
      <3> QED BY <2>1, <3>1, <3>2 DEF TypeOK, Phases
    <2>3. OneWriter' /\ Ordered' /\ Owed'
      BY <2>1 DEF OneWriter, Ordered, Owed
    <2>4. NothingLeftBehind'
      <3>1. due <= final.rev
        BY DEF Owed
      <3>2. disk' = final \/ missed'
        OBVIOUS
      <3> QED BY <2>1, <3>1, <3>2 DEF NothingLeftBehind
    <2>5. IdsAreFresh' /\ Attended' /\ HandIsFollowed' /\ NoSilentLoss'
      BY <2>1 DEF IdsAreFresh, Attended, HandIsFollowed, NoSilentLoss
    <2> QED BY <2>2, <2>3, <2>4, <2>5
  <1>5. CASE Exit
    BY <1>5, DieKeeps DEF Exit
  <1> QED BY <1>1, <1>2, <1>3, <1>4, <1>5 DEF Closing

LEMMA StutterKeeps == IInv /\ UNCHANGED vars => IInv'
  BY DEF vars, registry, bridging, writing, closing, IInv, TypeOK, OneWriter,
         Ordered, Owed, NothingLeftBehind, IdsAreFresh, Attended,
         HandIsFollowed, NoSilentLoss, OnItsWay, Coming

LEMMA Inductive == IInv /\ [Next]_vars => IInv'
  BY RequestsKeep, EmitKeeps, BridgeKeeps, WriterKeeps, ClosingKeeps,
     DieKeeps, RestartKeeps, StutterKeeps DEF Next, Crash

LEMMA Invariance == Spec => []IInv
  BY InitIsFine, Inductive, PTL DEF Spec

-----------------------------------------------------------------------------
(* What is proved.                                                         *)

\* Types, for any bounds: no channel outgrows its capacity, no id its range.
THEOREM TypesHold == Spec => []TypeOK
  <1>1. IInv => TypeOK
    BY DEF IInv
  <1> QED BY Invariance, <1>1, PTL

\* finish_shutdown, run_writer: the store never goes back to an older fleet,
\* through shutdowns, failing writes, crashes and restarts.
THEOREM StoreNeverGoesBack == Spec => NoStaleOverwrite
  <1>1. IInv /\ [Next]_vars => disk'.rev >= disk.rev \/ UNCHANGED vars
    <2> SUFFICES ASSUME IInv, Next PROVE disk'.rev >= disk.rev
      BY DEF vars
    <2>1. disk.rev \in Nat /\ taken.rev \in Nat /\ final.rev \in Nat
      BY StoreAssumption DEF IInv, TypeOK, Fleet, Rev
    <2>2. \/ disk' = disk
          \/ disk' = taken /\ writer = "writing"
          \/ disk' = final /\ phase = "saving"
      BY DEF Next, Requests, Launch, LaunchUndone, Archive, Touch, Emit, EmitOutput,
             Bridge, BridgeTakes, BridgeTells, BridgeTimesOut, Writer, WriterWakes,
             WriterEnds, WriterGathersMore, TakeSnapshot, WriteStore, Replace,
             Shutdown, Closing, BridgeJoined, WriterJoined, StopFleet,
             FinalSnapshot, FinalWrite, Exit, Crash, Die, Restart, writing
    <2> QED BY <2>1, <2>2 DEF IInv, Ordered
  <1>2. IInv /\ [Next]_vars => [disk'.rev >= disk.rev]_vars
    BY <1>1
  <1> QED BY Invariance, <1>2, PTL DEF Spec, NoStaleOverwrite

\* from_store, launch: no launch takes an id that memory or disk still names.
THEOREM FreshIdsHold == Spec => []IdsAreFresh
  <1>1. IInv => IdsAreFresh
    BY DEF IInv
  <1> QED BY Invariance, <1>1, PTL

\* emit, bridge_store, run_writer: while the daemon serves, a change that is
\* not on disk is on its way there or reported, output aside.
THEOREM LossIsNeverSilent == Spec => []NoSilentLoss
  <1>1. IInv => NoSilentLoss
    BY DEF IInv
  <1> QED BY Invariance, <1>1, PTL

\* finish_shutdown: the last write has every exit it caused.
THEOREM ShutdownSavesAll == Spec => []NothingLeftBehind
  <1>1. IInv => NothingLeftBehind
    BY DEF IInv
  <1> QED BY Invariance, <1>1, PTL
=============================================================================
