------------------------- MODULE PromptQueueProofs -------------------------
(***************************************************************************)
(* Proofs about PromptQueue, for any number of prompts, threads and places *)
(* in the queue.                                                           *)
(*                                                                         *)
(* PauseIsTheOperators needs no invariant: each action, by itself, keeps a *)
(* pause that is neither None nor FocusedAndEdited.  NoBurst needs one:    *)
(* the queue's belief that a prompt is in flight may outlast the fact, but *)
(* never falls short of it.  QueueIsPumped needs that a queue is held for   *)
(* unsubmitted input only while its row has the focus.                     *)
(* EveryPromptAccounted follows from Accounts, which says of each place a  *)
(* prompt can be in that no other holds it; Moves is all that a step can   *)
(* do to the prompts, and each move is a step of PromptLife.               *)
(***************************************************************************)
EXTENDS PromptQueue, FiniteSetTheorems, TLAPS

\* A row that has not left Idle since the last prompt was taken is Idle, and
\* the queue holds.
HoldIsKept ==
    /\ awaiting \in BOOLEAN /\ ready \in BOOLEAN
    /\ status # "Idle" => ready
    /\ ~ready => awaiting

\* Whoever's turn it is, the step is one of these.
LEMMA Steps ==
    ASSUME Next
    PROVE  \/ PumpQueue \/ ResumeQueue
           \/ \E p \in hands : Write(p) \/ WriteFails(p)
           \/ Save \/ CrashAndRestore
           \/ EnqueuePrompt \/ PauseQueue
           \/ \E p : RemoveQueuedPrompt(p)
           \/ \E p, to : ReorderQueuedPrompt(p, to)
           \/ \E send \in BOOLEAN : TypeInput(send)
           \/ FocusHere \/ FocusElsewhere \/ BroadcastJudged \/ BroadcastWritten
           \/ Prepare \/ Accept \/ StartFails \/ HandleOutput
           \/ MarkProcessExit \/ MarkProcessUnknown \/ ExhaustBudget \/ RegainBudget
           \/ \E st \in Status \ {"Starting", "Exited"} : ApplyHook(st)
  BY DEF Next, Operator, Session, Daemon

-----------------------------------------------------------------------------
\* What the pump settles the pause to, before and after it looks at the status.
LEMMA PumpPauses ==
    ASSUME PumpQueue, paused \notin {"None", "FocusedAndEdited"}
    PROVE  paused' # "None"
  <1> DEFINE held == IF focused /\ edited THEN HoldForFocusEdit(paused)
                                          ELSE ClearFocusEdit(paused)
  <1>1. held = paused
    BY DEF HoldForFocusEdit, ClearFocusEdit
  <1>2. paused' = held \/ (status \in DOMAIN Attention /\ paused' = Attention[status])
    BY DEF PumpQueue
  <1>3. ASSUME status \in DOMAIN Attention PROVE Attention[status] # "None"
    BY <1>3 DEF Attention
  <1> QED BY <1>1, <1>2, <1>3

\* Only ResumeQueue ends a pause that is not for unsubmitted input.
LEMMA StepPauses ==
    ASSUME [Next]_vars, paused \notin {"None", "FocusedAndEdited"}, paused' = "None"
    PROVE  ResumeQueue
  <1>1. CASE UNCHANGED vars
    BY <1>1 DEF vars
  <1>2. CASE Next
    <2> USE DEF row, entries, holds, pane, threads
    <2>1. CASE PumpQueue
      BY <2>1, PumpPauses
    <2>2. CASE ResumeQueue
      BY <2>2
    <2>3. CASE \E p \in hands : Write(p) \/ WriteFails(p)
      BY <2>3 DEF Write, WriteFails
    <2>4. CASE Save \/ CrashAndRestore
      BY <2>4 DEF Save, CrashAndRestore, RestoredPause
    <2>5. CASE EnqueuePrompt \/ PauseQueue
      BY <2>5 DEF EnqueuePrompt, PauseQueue
    <2>6. CASE \E p : RemoveQueuedPrompt(p)
      BY <2>6 DEF RemoveQueuedPrompt
    <2>7. CASE \E p, to : ReorderQueuedPrompt(p, to)
      BY <2>7 DEF ReorderQueuedPrompt
    <2>8. CASE \E send \in BOOLEAN : TypeInput(send)
      BY <2>8 DEF TypeInput, HoldForFocusEdit, ClearFocusEdit
    <2>9. CASE FocusHere \/ FocusElsewhere \/ BroadcastJudged \/ BroadcastWritten
      BY <2>9 DEF FocusHere, FocusElsewhere, BroadcastJudged, BroadcastWritten, ClearFocusEdit
    <2>10. CASE Prepare \/ Accept \/ StartFails \/ HandleOutput
      BY <2>10 DEF Prepare, Accept, StartFails, HandleOutput, ClearFocusEdit
    <2>11. CASE MarkProcessExit \/ MarkProcessUnknown \/ ExhaustBudget \/ RegainBudget
      BY <2>11 DEF MarkProcessExit, MarkProcessUnknown, ExhaustBudget, RegainBudget
    <2>12. CASE \E st \in Status \ {"Starting", "Exited"} : ApplyHook(st)
      BY <2>12 DEF ApplyHook, ClearFocusEdit
    <2> QED BY <1>2, Steps, <2>1, <2>2, <2>3, <2>4, <2>5, <2>6, <2>7, <2>8, <2>9, <2>10, <2>11, <2>12
  <1> QED BY <1>1, <1>2

\* Hooks, exits, pumps, the end of an edit and a restart of the daemon leave
\* a queue paused: prompt_queue.rs ends a pause only in resume_queue, and the
\* hold for unsubmitted input where the input ends.
THEOREM PauseHolds == Spec => PauseIsTheOperators
  <1>1. [Next]_vars => (paused \notin {"None", "FocusedAndEdited"} /\ paused' = "None" => ResumeQueue)
    BY StepPauses
  <1> QED BY <1>1, PTL DEF Spec, PauseIsTheOperators

-----------------------------------------------------------------------------
LEMMA InitHold == ASSUME Init PROVE HoldIsKept
  BY DEF Init, HoldIsKept

\* The pump takes a prompt only when it does not hold, and lets the hold go
\* only when the row is not Idle.
LEMMA PumpHold ==
    ASSUME HoldIsKept, PumpQueue
    PROVE  HoldIsKept' /\ (hands' \ hands # {} => ready)
  <1> DEFINE held == IF focused /\ edited THEN HoldForFocusEdit(paused)
                                          ELSE ClearFocusEdit(paused)
  <1>1. UNCHANGED status
    BY DEF PumpQueue, row
  <1>2. CASE UNCHANGED <<queue, awaiting, hands, ready>>
    BY <1>1, <1>2 DEF HoldIsKept
  <1>3. CASE Takes(held) /\ awaiting' = TRUE /\ ready' = FALSE
    BY <1>1, <1>3 DEF HoldIsKept, Takes
  <1>4. CASE awaiting' = (awaiting /\ status = "Idle") /\ UNCHANGED <<queue, hands, ready>>
    BY <1>1, <1>4 DEF HoldIsKept
  <1> QED BY <1>2, <1>3, <1>4 DEF PumpQueue

LEMMA StepHold ==
    ASSUME HoldIsKept, [Next]_vars
    PROVE  HoldIsKept' /\ (hands' \ hands # {} => ready)
  <1>1. CASE UNCHANGED vars
    BY <1>1 DEF vars, HoldIsKept
  <1>2. CASE Next
    <2> USE DEF row, entries, holds, pane, threads, HoldIsKept
    <2>1. CASE PumpQueue
      BY <2>1, PumpHold
    <2>2. CASE ResumeQueue
      BY <2>2 DEF ResumeQueue
    <2>3. CASE \E p \in hands : Write(p) \/ WriteFails(p)
      BY <2>3 DEF Write, WriteFails
    <2>4. CASE Save \/ CrashAndRestore
      BY <2>4 DEF Save, CrashAndRestore
    <2>5. CASE EnqueuePrompt \/ PauseQueue
      BY <2>5 DEF EnqueuePrompt, PauseQueue
    <2>6. CASE \E p : RemoveQueuedPrompt(p)
      BY <2>6 DEF RemoveQueuedPrompt
    <2>7. CASE \E p, to : ReorderQueuedPrompt(p, to)
      BY <2>7 DEF ReorderQueuedPrompt
    <2>8. CASE \E send \in BOOLEAN : TypeInput(send)
      BY <2>8 DEF TypeInput
    <2>9. CASE FocusHere \/ FocusElsewhere \/ BroadcastJudged \/ BroadcastWritten
      BY <2>9 DEF FocusHere, FocusElsewhere, BroadcastJudged, BroadcastWritten
    <2>10. CASE Prepare \/ Accept \/ StartFails \/ HandleOutput
      BY <2>10 DEF Prepare, Accept, StartFails, HandleOutput
    <2>11. CASE MarkProcessExit \/ MarkProcessUnknown \/ ExhaustBudget \/ RegainBudget
      BY <2>11 DEF MarkProcessExit, MarkProcessUnknown, ExhaustBudget, RegainBudget
    <2>12. CASE \E st \in Status \ {"Starting", "Exited"} : ApplyHook(st)
      <3>1. UNCHANGED <<awaiting, hands>>
        BY <2>12 DEF ApplyHook
      <3>2. (status' = "Idle" /\ ready' = ready) \/ ready' = TRUE
        BY <2>12 DEF ApplyHook
      <3> QED BY <3>1, <3>2
    <2> QED BY <1>2, Steps, <2>1, <2>2, <2>3, <2>4, <2>5, <2>6, <2>7, <2>8, <2>9, <2>10, <2>11, <2>12
  <1> QED BY <1>1, <1>2

\* The queue takes a prompt only if the row has left Idle, or the operator
\* resumed, since it took the last one: what observe's awaiting_pickup is for.
THEOREM NoBurstHolds == Spec => NoBurst
  <1>1. Init => HoldIsKept
    BY InitHold
  <1>2. HoldIsKept /\ [Next]_vars => HoldIsKept'
    BY StepHold
  <1>3. HoldIsKept /\ [Next]_vars => (hands' \ hands # {} => ready)
    BY StepHold
  <1> QED BY <1>1, <1>2, <1>3, PTL DEF Spec, NoBurst

-----------------------------------------------------------------------------
(* What the model's operators on sequences do to the prompts in a queue. *)

LEMMA Elements ==
    ASSUME NEW S, NEW q \in Seq(S)
    PROVE  /\ Len(q) \in Nat /\ DOMAIN q = 1..Len(q)
           /\ \A i \in DOMAIN q : q[i] \in S
           /\ q = <<>> <=> Len(q) = 0
OBVIOUS

LEMMA TakeHead ==
    ASSUME NEW S, NEW q \in Seq(S), q # <<>>
    PROVE  /\ Tail(q) \in Seq(S) /\ Len(Tail(q)) = Len(q) - 1
           /\ Head(q) \in ToSet(q) /\ Head(q) \in S
           /\ IsInjective(q) => /\ IsInjective(Tail(q))
                                /\ ToSet(Tail(q)) = ToSet(q) \ {Head(q)}
<1> DEFINE r == Tail(q)
<1>1. /\ Len(q) \in Nat /\ Len(q) > 0 /\ DOMAIN q = 1..Len(q)
      /\ r \in Seq(S) /\ Len(r) = Len(q) - 1 /\ DOMAIN r = 1..Len(r)
      /\ \A i \in 1..Len(r) : r[i] = q[i + 1]
      /\ Head(q) = q[1]
  OBVIOUS
<1> HIDE DEF r
<1>2. Head(q) \in ToSet(q) /\ Head(q) \in S
  BY <1>1 DEF ToSet
<1>3. ASSUME IsInjective(q) PROVE IsInjective(r) /\ ToSet(r) = ToSet(q) \ {Head(q)}
  <2>0. \A i, j \in 1..Len(q) : q[i] = q[j] => i = j
    BY <1>1, <1>3 DEF IsInjective
  <2>1. IsInjective(r)
    <3> SUFFICES ASSUME NEW i \in 1..Len(r), NEW j \in 1..Len(r), r[i] = r[j] PROVE i = j
      BY <1>1 DEF IsInjective
    <3>1. i + 1 \in 1..Len(q) /\ j + 1 \in 1..Len(q) /\ q[i + 1] = q[j + 1]
      BY <1>1
    <3>2. i + 1 = j + 1
      BY <2>0, <3>1
    <3> QED
      BY <3>2
  <2>2. ToSet(r) \subseteq ToSet(q) \ {Head(q)}
    <3> SUFFICES ASSUME NEW i \in 1..Len(r) PROVE r[i] \in ToSet(q) /\ r[i] # Head(q)
      BY <1>1 DEF ToSet
    <3>1. i + 1 \in 1..Len(q) /\ 1 \in 1..Len(q) /\ i + 1 # 1 /\ r[i] = q[i + 1]
      BY <1>1
    <3>2. r[i] # q[1]
      BY <2>0, <3>1
    <3> QED
      BY <1>1, <3>1, <3>2 DEF ToSet
  <2>3. ASSUME NEW x \in ToSet(q), x # Head(q) PROVE x \in ToSet(r)
    <3>1. PICK i \in 1..Len(q) : q[i] = x
      BY <1>1 DEF ToSet
    <3>2. i # 1 /\ i - 1 \in 1..Len(r) /\ r[i - 1] = x
      BY <1>1, <2>3, <3>1
    <3> QED
      BY <1>1, <3>2 DEF ToSet
  <2> QED
    BY <2>1, <2>2, <2>3
<1> QED
  BY <1>1, <1>2, <1>3 DEF r

LEMMA AppendOne ==
    ASSUME NEW S, NEW q \in Seq(S), NEW e \in S
    PROVE  /\ Append(q, e) \in Seq(S) /\ Len(Append(q, e)) = Len(q) + 1
           /\ ToSet(Append(q, e)) = ToSet(q) \cup {e}
           /\ IsInjective(q) /\ e \notin ToSet(q) => IsInjective(Append(q, e))
<1> DEFINE r == Append(q, e)
<1>1. /\ Len(q) \in Nat /\ DOMAIN q = 1..Len(q)
      /\ r \in Seq(S) /\ Len(r) = Len(q) + 1 /\ DOMAIN r = 1..Len(r)
      /\ \A i \in 1..Len(q) : r[i] = q[i]
      /\ r[Len(r)] = e
  OBVIOUS
<1> HIDE DEF r
<1>2. DOMAIN r = DOMAIN q \cup {Len(r)}
  BY <1>1
<1>3. ToSet(r) = ToSet(q) \cup {e}
  BY <1>1, <1>2 DEF ToSet
<1>4. ASSUME IsInjective(q), e \notin ToSet(q) PROVE IsInjective(r)
  BY <1>1, <1>2, <1>4 DEF IsInjective, ToSet
<1> QED
  BY <1>1, <1>3, <1>4 DEF r

LEMMA Positions ==
    ASSUME NEW p \in ToSet(queue)
    PROVE  Position(p) \in DOMAIN queue /\ queue[Position(p)] = p
BY DEF Position, ToSet

LEMMA Joined ==
    ASSUME NEW S, NEW a \in Seq(S), NEW b \in Seq(S)
    PROVE  /\ a \o b \in Seq(S) /\ Len(a \o b) = Len(a) + Len(b)
           /\ Len(a) \in Nat /\ Len(b) \in Nat
           /\ \A i \in 1..Len(a) : (a \o b)[i] = a[i]
           /\ \A i \in 1..Len(b) : (a \o b)[Len(a) + i] = b[i]
OBVIOUS

LEMMA RemoveOne ==
    ASSUME NEW S, NEW q \in Seq(S), NEW k \in DOMAIN q
    PROVE  /\ RemoveAt(q, k) \in Seq(S) /\ Len(RemoveAt(q, k)) = Len(q) - 1
           /\ IsInjective(q) => /\ IsInjective(RemoveAt(q, k))
                                /\ ToSet(RemoveAt(q, k)) = ToSet(q) \ {q[k]}
<1> DEFINE a == SubSeq(q, 1, k - 1)
           b == SubSeq(q, k + 1, Len(q))
           r == RemoveAt(q, k)
<1>1. Len(q) \in Nat /\ DOMAIN q = 1..Len(q) /\ k \in 1..Len(q)
  OBVIOUS
<1>2. /\ a \in Seq(S) /\ Len(a) = k - 1
      /\ \A i \in 1..(k - 1) : a[i] = q[i]
  BY <1>1
<1>3. /\ b \in Seq(S) /\ Len(b) = Len(q) - k
      /\ \A i \in 1..(Len(q) - k) : b[i] = q[k + i]
  BY <1>1
<1>4. r = a \o b
  BY DEF RemoveAt
<1> HIDE DEF a, b, r
<1>5. /\ r \in Seq(S) /\ Len(r) = Len(q) - 1 /\ DOMAIN r = 1..Len(r)
  <2>1. r \in Seq(S) /\ Len(r) = Len(a) + Len(b)
    BY <1>2, <1>3, <1>4, Joined
  <2> QED
    BY <2>1, <1>1, <1>2, <1>3
<1>6. \A i \in 1..Len(r) : r[i] = IF i < k THEN q[i] ELSE q[i + 1]
  <2> SUFFICES ASSUME NEW i \in 1..Len(r) PROVE r[i] = IF i < k THEN q[i] ELSE q[i + 1]
    OBVIOUS
  <2>1. CASE i < k
    <3>1. i \in 1..Len(a) /\ i \in 1..(k - 1)
      BY <1>1, <1>2, <1>5, <2>1
    <3>2. r[i] = a[i]
      BY <1>2, <1>3, <1>4, <3>1, Joined
    <3> QED
      BY <1>2, <2>1, <3>1, <3>2
  <2>2. CASE i >= k
    <3> DEFINE j == i - (k - 1)
    <3>1. j \in 1..Len(b) /\ i = Len(a) + j /\ k + j = i + 1 /\ ~(i < k)
      BY <1>1, <1>2, <1>3, <1>5, <2>2
    <3> HIDE DEF j
    <3>2. r[i] = b[j]
      <4>1. \A m \in 1..Len(b) : (a \o b)[Len(a) + m] = b[m]
        <5>1. a \in Seq(S) /\ b \in Seq(S)
          BY <1>2, <1>3
        <5> QED
          BY <5>1, Joined
      <4>2. r[Len(a) + j] = b[j]
        <5>1. (a \o b)[Len(a) + j] = b[j]
          BY <3>1, <4>1
        <5> QED
          BY <1>4, <5>1
      <4> QED
        BY <3>1, <4>2
    <3>3. b[j] = q[k + j]
      BY <1>3, <3>1
    <3> QED
      BY <3>1, <3>2, <3>3
  <2> QED
    BY <2>1, <2>2, <1>1, <1>5
<1>7. ASSUME IsInjective(q) PROVE IsInjective(r) /\ ToSet(r) = ToSet(q) \ {q[k]}
  <2>0. \A i, j \in 1..Len(q) : q[i] = q[j] => i = j
    BY <1>1, <1>7 DEF IsInjective
  <2>1. IsInjective(r)
    <3> SUFFICES ASSUME NEW i \in 1..Len(r), NEW j \in 1..Len(r), r[i] = r[j] PROVE i = j
      BY <1>5 DEF IsInjective
    <3> QED
      BY <1>1, <1>5, <1>6, <2>0
  <2>2. ASSUME NEW x \in ToSet(r) PROVE x \in ToSet(q) \ {q[k]}
    <3>1. PICK i \in 1..Len(r) : r[i] = x
      BY <1>5, <2>2 DEF ToSet
    <3>2. PICK j \in 1..Len(q) : j # k /\ q[j] = x
      BY <1>1, <1>5, <1>6, <3>1
    <3> QED
      BY <1>1, <2>0, <3>2 DEF ToSet
  <2>3. ASSUME NEW x \in ToSet(q), x # q[k] PROVE x \in ToSet(r)
    <3>1. PICK j \in 1..Len(q) : q[j] = x
      BY <1>1 DEF ToSet
    <3>2. j # k
      BY <2>3, <3>1
    <3>3. CASE j < k
      <4>1. j \in 1..Len(r) /\ r[j] = x
        BY <1>1, <1>5, <1>6, <3>1, <3>3
      <4> QED
        BY <1>5, <4>1 DEF ToSet
    <3>4. CASE j > k
      <4>1. j - 1 \in 1..Len(r) /\ r[j - 1] = x
        BY <1>1, <1>5, <1>6, <3>1, <3>4
      <4> QED
        BY <1>5, <4>1 DEF ToSet
    <3> QED
      BY <1>1, <3>1, <3>2, <3>3, <3>4
  <2> QED
    BY <2>1, <2>2, <2>3
<1> QED
  BY <1>5, <1>7 DEF r

LEMMA InsertOne ==
    ASSUME NEW S, NEW q \in Seq(S), NEW e \in S, NEW k \in 1..(Len(q) + 1)
    PROVE  /\ InsertAt(q, k, e) \in Seq(S) /\ Len(InsertAt(q, k, e)) = Len(q) + 1
           /\ IsInjective(q) /\ e \notin ToSet(q) =>
                /\ IsInjective(InsertAt(q, k, e))
                /\ ToSet(InsertAt(q, k, e)) = ToSet(q) \cup {e}
<1> DEFINE a == SubSeq(q, 1, k - 1)
           c == <<e>>
           b == SubSeq(q, k, Len(q))
           r == InsertAt(q, k, e)
<1>1. Len(q) \in Nat /\ DOMAIN q = 1..Len(q) /\ k \in 1..(Len(q) + 1)
  OBVIOUS
<1>2. /\ a \in Seq(S) /\ Len(a) = k - 1
      /\ \A i \in 1..(k - 1) : a[i] = q[i]
  BY <1>1
<1>3. /\ b \in Seq(S) /\ Len(b) = Len(q) - k + 1
      /\ \A i \in 1..(Len(q) - k + 1) : b[i] = q[k + i - 1]
  BY <1>1
<1>4. c \in Seq(S) /\ Len(c) = 1 /\ c[1] = e
  OBVIOUS
<1>5. r = (a \o c) \o b
  BY DEF InsertAt
<1> HIDE DEF a, b, c, r
<1>6. /\ a \o c \in Seq(S) /\ Len(a \o c) = k
      /\ \A i \in 1..(k - 1) : (a \o c)[i] = q[i]
      /\ (a \o c)[k] = e
  <2>1. a \o c \in Seq(S) /\ Len(a \o c) = Len(a) + Len(c)
    BY <1>2, <1>4, Joined
  <2>2. \A i \in 1..(k - 1) : (a \o c)[i] = q[i]
    BY <1>2, <1>4, Joined
  <2>3. (a \o c)[Len(a) + 1] = c[1]
    <3>1. 1 \in 1..Len(c)
      BY <1>4
    <3>2. \A m \in 1..Len(c) : (a \o c)[Len(a) + m] = c[m]
      BY <1>2, <1>4, Joined
    <3> QED
      BY <3>1, <3>2
  <2>4. Len(a) + 1 = k
    BY <1>1, <1>2
  <2> QED
    BY <1>1, <1>2, <1>4, <2>1, <2>2, <2>3, <2>4
<1>7. r \in Seq(S) /\ Len(r) = Len(q) + 1 /\ DOMAIN r = 1..Len(r)
  <2>1. r \in Seq(S) /\ Len(r) = Len(a \o c) + Len(b)
    BY <1>3, <1>5, <1>6, Joined
  <2> QED
    BY <1>1, <1>3, <1>6, <2>1
<1>8. /\ \A i \in 1..(k - 1) : r[i] = q[i]
      /\ r[k] = e
      /\ \A i \in k..Len(q) : r[i + 1] = q[i]
  <2>1. \A i \in 1..k : r[i] = (a \o c)[i]
    BY <1>3, <1>5, <1>6, Joined
  <2>2. \A i \in 1..(k - 1) : r[i] = q[i]
    BY <1>1, <1>6, <2>1
  <2>3. r[k] = e
    BY <1>1, <1>6, <2>1
  <2>4. ASSUME NEW i \in k..Len(q) PROVE r[i + 1] = q[i]
    <3> DEFINE j == i + 1 - k
    <3>1. /\ j \in 1..Len(b) /\ j \in 1..(Len(q) - k + 1)
          /\ i + 1 = k + j /\ k + j - 1 = i
      BY <1>1, <1>3
    <3> HIDE DEF j
    <3>2. r[k + j] = b[j]
      <4> DEFINE d == a \o c
      <4>1. \A m \in 1..Len(b) : (d \o b)[Len(d) + m] = b[m]
        <5>1. d \in Seq(S)
          BY <1>6
        <5> HIDE DEF d
        <5> QED
          BY <1>3, <5>1, Joined
      <4>2. r = d \o b /\ Len(d) = k
        BY <1>5, <1>6
      <4> HIDE DEF d
      <4> QED
        BY <3>1, <4>1, <4>2
    <3>3. b[j] = q[k + j - 1]
      BY <1>3, <3>1
    <3> QED
      BY <3>1, <3>2, <3>3
  <2> QED
    BY <2>2, <2>3, <2>4
<1>9. ASSUME IsInjective(q), e \notin ToSet(q)
      PROVE  IsInjective(r) /\ ToSet(r) = ToSet(q) \cup {e}
  <2>0. /\ \A i, j \in 1..Len(q) : q[i] = q[j] => i = j
        /\ \A i \in 1..Len(q) : q[i] # e
    BY <1>1, <1>9 DEF IsInjective, ToSet
  <2>1. ASSUME NEW i \in 1..Len(r)
        PROVE  \/ i = k /\ r[i] = e
               \/ i < k /\ i \in 1..Len(q) /\ r[i] = q[i]
               \/ i > k /\ i - 1 \in 1..Len(q) /\ r[i] = q[i - 1]
    <3>1. CASE i < k
      BY <1>1, <1>7, <1>8, <3>1
    <3>2. CASE i = k
      BY <1>8, <3>2
    <3>3. CASE i > k
      <4>1. i - 1 \in k..Len(q) /\ i - 1 \in 1..Len(q) /\ (i - 1) + 1 = i
        BY <1>1, <1>7, <3>3
      <4>2. r[(i - 1) + 1] = q[i - 1]
        BY <1>8, <4>1
      <4> QED
        BY <3>3, <4>1, <4>2
    <3> QED
      BY <1>1, <1>7, <3>1, <3>2, <3>3
  <2>2. IsInjective(r)
    <3> SUFFICES ASSUME NEW i \in 1..Len(r), NEW j \in 1..Len(r), r[i] = r[j] PROVE i = j
      BY <1>7 DEF IsInjective
    <3>1. CASE i = k
      BY <1>1, <1>7, <2>0, <2>1, <3>1
    <3>2. CASE j = k
      BY <1>1, <1>7, <2>0, <2>1, <3>2
    <3>3. CASE i # k /\ j # k
      <4> DEFINE old(x) == IF x < k THEN x ELSE x - 1
      <4>1. \A x \in 1..Len(r) : x # k => old(x) \in 1..Len(q) /\ r[x] = q[old(x)]
        BY <1>1, <1>7, <2>1
      <4>2. old(i) = old(j)
        BY <2>0, <3>3, <4>1
      <4> QED
        BY <1>1, <1>7, <3>3, <4>2
    <3> QED
      BY <3>1, <3>2, <3>3
  <2>3. ToSet(r) \subseteq ToSet(q) \cup {e}
    BY <1>1, <1>7, <2>1 DEF ToSet
  <2>4. e \in ToSet(r)
    <3>1. k \in 1..Len(r)
      BY <1>1, <1>7
    <3> QED
      BY <1>7, <1>8, <3>1 DEF ToSet
  <2>5. ASSUME NEW x \in ToSet(q) PROVE x \in ToSet(r)
    <3>1. PICK j \in 1..Len(q) : q[j] = x
      BY <1>1 DEF ToSet
    <3>2. CASE j < k
      <4>1. j \in 1..Len(r) /\ r[j] = x
        BY <1>1, <1>7, <1>8, <3>1, <3>2
      <4> QED
        BY <1>7, <4>1 DEF ToSet
    <3>3. CASE j >= k
      <4>1. j + 1 \in 1..Len(r) /\ r[j + 1] = x
        BY <1>1, <1>7, <1>8, <3>1, <3>3
      <4> QED
        BY <1>7, <4>1 DEF ToSet
    <3> QED
      BY <1>1, <3>1, <3>2, <3>3
  <2> QED
    BY <2>2, <2>3, <2>4, <2>5
<1> QED
  BY <1>7, <1>9 DEF r

-----------------------------------------------------------------------------
(* The types. *)

DiskTyped ==
    /\ disk \in [queue : Seq(1..MaxPrompts), lastId : 0..MaxPrompts, spent : BOOLEAN]
    /\ Len(disk.queue) <= MaxQueued

TInv == TypeOK /\ DiskTyped

\* What TypeOK says, a variable at a time.
LEMMA TypeParts ==
    TypeOK <=> /\ status \in Status /\ paused \in Pause
               /\ running \in BOOLEAN /\ spent \in BOOLEAN /\ awaiting \in BOOLEAN
               /\ focused \in BOOLEAN /\ edited \in BOOLEAN /\ ready \in BOOLEAN
               /\ queue \in Seq(1..MaxPrompts) /\ Len(queue) <= MaxQueued
               /\ lastId \in 0..MaxPrompts
               /\ pumps \in 0..MaxPumps /\ casts \in 0..MaxCasts
               /\ hands \subseteq 1..MaxPrompts
               /\ fates \in [{"delivered", "dropped", "withdrawn"} -> SUBSET (1..MaxPrompts)]
BY DEF TypeOK

LEMMA HeldTypes ==
    ASSUME NEW p \in Pause
    PROVE  ClearFocusEdit(p) \in Pause /\ HoldForFocusEdit(p) \in Pause
BY DEF ClearFocusEdit, HoldForFocusEdit, Pause

LEMMA PumpTypes ==
    ASSUME pumps \in 0..MaxPumps
    PROVE  (Pump => pumps' \in 0..MaxPumps) /\ (Pumped => pumps' \in 0..MaxPumps)
BY BoundsAssumption DEF Pump, Pumped

\* The queue after an edit of the operator's, and the prompt it is about.
LEMMA RemoveTypes ==
    ASSUME TypeOK, NEW p, RemoveQueuedPrompt(p)
    PROVE  /\ p \in ToSet(queue) /\ p \in 1..MaxPrompts
           /\ queue' \in Seq(1..MaxPrompts) /\ Len(queue') = Len(queue) - 1
           /\ Len(queue) \in Nat
           /\ IsInjective(queue) => IsInjective(queue') /\ ToSet(queue') = ToSet(queue) \ {p}
<1>1. p \in ToSet(queue) /\ queue' = RemoveAt(queue, Position(p))
  BY DEF RemoveQueuedPrompt
<1>2. queue \in Seq(1..MaxPrompts)
  BY DEF TypeOK
<1>3. Position(p) \in DOMAIN queue /\ queue[Position(p)] = p
  BY <1>1, Positions
<1>4. p \in 1..MaxPrompts /\ Len(queue) \in Nat
  <2>1. /\ Len(queue) \in Nat
        /\ \A i \in DOMAIN queue : queue[i] \in 1..MaxPrompts
    BY <1>2, Elements
  <2> QED
    BY <1>2, <1>3, <2>1
<1>5. /\ RemoveAt(queue, Position(p)) \in Seq(1..MaxPrompts)
      /\ Len(RemoveAt(queue, Position(p))) = Len(queue) - 1
      /\ IsInjective(queue) => /\ IsInjective(RemoveAt(queue, Position(p)))
                               /\ ToSet(RemoveAt(queue, Position(p))) = ToSet(queue) \ {p}
  BY <1>2, <1>3, RemoveOne
<1> QED
  BY <1>1, <1>4, <1>5

LEMMA ReorderTypes ==
    ASSUME TypeOK, NEW p, NEW to \in Nat, ReorderQueuedPrompt(p, to)
    PROVE  /\ queue' \in Seq(1..MaxPrompts) /\ Len(queue') = Len(queue)
           /\ IsInjective(queue) => IsInjective(queue') /\ ToSet(queue') = ToSet(queue)
           /\ queue # <<>>
<1> DEFINE rest == RemoveAt(queue, Position(p))
           place == IF to > Len(rest) THEN Len(rest) ELSE to
<1>1. p \in ToSet(queue) /\ queue' = InsertAt(rest, place + 1, p)
  BY DEF ReorderQueuedPrompt
<1>2. queue \in Seq(1..MaxPrompts)
  BY DEF TypeOK
<1>3. Position(p) \in DOMAIN queue /\ queue[Position(p)] = p
  BY <1>1, Positions
<1>4. p \in 1..MaxPrompts /\ queue # <<>> /\ Len(queue) \in Nat
  <2>1. /\ Len(queue) \in Nat /\ DOMAIN queue = 1..Len(queue)
        /\ \A i \in DOMAIN queue : queue[i] \in 1..MaxPrompts
        /\ queue = <<>> <=> Len(queue) = 0
    BY <1>2, Elements
  <2> QED
    BY <1>2, <1>3, <2>1
<1>5. /\ rest \in Seq(1..MaxPrompts) /\ Len(rest) = Len(queue) - 1
      /\ IsInjective(queue) => IsInjective(rest) /\ ToSet(rest) = ToSet(queue) \ {p}
  BY <1>2, <1>3, RemoveOne
<1> HIDE DEF rest
<1> DEFINE k == place + 1
<1>6. k \in 1..(Len(rest) + 1) /\ queue' = InsertAt(rest, k, p)
  BY <1>1, <1>4, <1>5
<1> HIDE DEF place, k
<1>7. /\ queue' \in Seq(1..MaxPrompts) /\ Len(queue') = Len(rest) + 1
      /\ IsInjective(rest) /\ p \notin ToSet(rest) =>
           IsInjective(queue') /\ ToSet(queue') = ToSet(rest) \cup {p}
  <2>1. /\ InsertAt(rest, k, p) \in Seq(1..MaxPrompts) /\ Len(InsertAt(rest, k, p)) = Len(rest) + 1
        /\ IsInjective(rest) /\ p \notin ToSet(rest) =>
             /\ IsInjective(InsertAt(rest, k, p))
             /\ ToSet(InsertAt(rest, k, p)) = ToSet(rest) \cup {p}
    <3>1. rest \in Seq(1..MaxPrompts) /\ p \in 1..MaxPrompts /\ k \in 1..(Len(rest) + 1)
      BY <1>4, <1>5, <1>6
    <3> DEFINE S == 1..MaxPrompts
    <3>2. rest \in Seq(S) /\ p \in S
      BY <3>1
    <3> HIDE DEF S
    <3>3. /\ InsertAt(rest, k, p) \in Seq(S) /\ Len(InsertAt(rest, k, p)) = Len(rest) + 1
          /\ IsInjective(rest) /\ p \notin ToSet(rest) =>
               /\ IsInjective(InsertAt(rest, k, p))
               /\ ToSet(InsertAt(rest, k, p)) = ToSet(rest) \cup {p}
      BY <3>1, <3>2, InsertOne
    <3> QED
      BY <3>3 DEF S
  <2> QED
    BY <1>6, <2>1
<1>8. Len(queue') = Len(queue)
  BY <1>4, <1>5, <1>7
<1>9. IsInjective(queue) => IsInjective(queue') /\ ToSet(queue') = ToSet(queue)
  BY <1>1, <1>5, <1>7
<1> QED
  BY <1>4, <1>7, <1>8, <1>9

LEMMA EnqueueTypes ==
    ASSUME TypeOK, EnqueuePrompt
    PROVE  /\ lastId' = lastId + 1 /\ lastId' \in 1..MaxPrompts /\ lastId \in Nat
           /\ queue' \in Seq(1..MaxPrompts) /\ Len(queue') = Len(queue) + 1
           /\ Len(queue') <= MaxQueued
           /\ ToSet(queue') = ToSet(queue) \cup {lastId'}
           /\ IsInjective(queue) /\ lastId' \notin ToSet(queue) => IsInjective(queue')
<1>1. queue \in Seq(1..MaxPrompts) /\ lastId \in 0..MaxPrompts
  BY DEF TypeOK
<1>2. lastId' = lastId + 1 /\ lastId < MaxPrompts
      /\ queue' = Append(queue, lastId') /\ Len(queue) < MaxQueued
  BY DEF EnqueuePrompt, Room
<1>3. lastId' \in 1..MaxPrompts
  BY <1>1, <1>2, BoundsAssumption
<1>4. /\ queue' \in Seq(1..MaxPrompts) /\ Len(queue') = Len(queue) + 1
      /\ ToSet(queue') = ToSet(queue) \cup {lastId'}
      /\ IsInjective(queue) /\ lastId' \notin ToSet(queue) => IsInjective(queue')
  <2> DEFINE e == lastId'
  <2>1. e \in 1..MaxPrompts /\ queue' = Append(queue, e)
    BY <1>2, <1>3
  <2> HIDE DEF e
  <2>2. /\ queue' \in Seq(1..MaxPrompts) /\ Len(queue') = Len(queue) + 1
        /\ ToSet(queue') = ToSet(queue) \cup {e}
        /\ IsInjective(queue) /\ e \notin ToSet(queue) => IsInjective(queue')
    <3> DEFINE q == queue
    <3>1. q \in Seq(1..MaxPrompts) /\ queue' = Append(q, e)
      BY <1>1, <2>1
    <3> HIDE DEF q
    <3>2. /\ Append(q, e) \in Seq(1..MaxPrompts) /\ Len(Append(q, e)) = Len(q) + 1
          /\ ToSet(Append(q, e)) = ToSet(q) \cup {e}
          /\ IsInjective(q) /\ e \notin ToSet(q) => IsInjective(Append(q, e))
      BY <2>1, <3>1, AppendOne
    <3> QED
      BY <3>1, <3>2 DEF q
  <2> QED
    BY <2>2 DEF e
<1>5. Len(queue') <= MaxQueued
  <2>1. Len(queue) \in Nat
    BY <1>1
  <2> QED
    BY <1>2, <1>4, <2>1, BoundsAssumption
<1> QED
  BY <1>1, <1>2, <1>3, <1>4, <1>5

\* A pump that takes a prompt takes the first; one that does not leaves the
\* queue and the hands as they are.
LEMMA PumpTakes ==
    ASSUME TypeOK, PumpQueue
    PROVE  \/ UNCHANGED <<queue, hands>>
           \/ \E p \in ToSet(queue) :
                 /\ queue # <<>> /\ p = Head(queue)
                 /\ queue' = Tail(queue) /\ hands' = hands \cup {p}
                 /\ p \in 1..MaxPrompts
                 /\ awaiting' = TRUE
<1> DEFINE held == IF focused /\ edited THEN HoldForFocusEdit(paused)
                                        ELSE ClearFocusEdit(paused)
<1>1. \/ UNCHANGED <<queue, hands>>
      \/ /\ Takes(held) /\ Pop /\ hands' = hands \cup {Head(queue)} /\ awaiting' = TRUE
  BY DEF PumpQueue
<1>2. CASE UNCHANGED <<queue, hands>>
  BY <1>2
<1>3. CASE /\ Takes(held) /\ Pop /\ hands' = hands \cup {Head(queue)} /\ awaiting' = TRUE
  <2>1. queue # <<>> /\ queue' = Tail(queue)
    BY <1>3 DEF Takes, Pop
  <2>2. queue \in Seq(1..MaxPrompts)
    BY DEF TypeOK
  <2>3. Head(queue) \in ToSet(queue) /\ Head(queue) \in 1..MaxPrompts
    BY <2>1, <2>2, TakeHead
  <2> QED
    BY <1>3, <2>1, <2>3
<1> QED
  BY <1>1, <1>2, <1>3

LEMMA TypedInit == ASSUME Init PROVE TInv
<1>1. <<>> \in Seq(1..MaxPrompts) /\ Len(<<>>) = 0
  OBVIOUS
<1>2. /\ queue \in Seq(1..MaxPrompts) /\ Len(queue) <= MaxQueued
      /\ lastId \in 0..MaxPrompts /\ pumps \in 0..MaxPumps /\ casts \in 0..MaxCasts
  BY <1>1, BoundsAssumption DEF Init
<1>3. fates \in [{"delivered", "dropped", "withdrawn"} -> SUBSET (1..MaxPrompts)]
  BY DEF Init
<1>4. /\ status \in Status /\ paused \in Pause
      /\ running \in BOOLEAN /\ spent \in BOOLEAN /\ awaiting \in BOOLEAN
      /\ focused \in BOOLEAN /\ edited \in BOOLEAN /\ ready \in BOOLEAN
      /\ hands \subseteq 1..MaxPrompts
  BY DEF Init, Status, Pause
<1>5. TypeOK
  BY <1>2, <1>3, <1>4, TypeParts
<1>6. DiskTyped
  BY <1>1, <1>2, BoundsAssumption DEF Init, DiskTyped
<1> QED
  BY <1>5, <1>6 DEF TInv

\* The queue and the counters are typed, and the rest is as it was or one of
\* the values the source names.
LEMMA TypedParts ==
    ASSUME TInv,
           status' \in Status, paused' \in Pause,
           running' \in BOOLEAN, spent' \in BOOLEAN, awaiting' \in BOOLEAN,
           focused' \in BOOLEAN, edited' \in BOOLEAN, ready' \in BOOLEAN,
           queue' \in Seq(1..MaxPrompts), Len(queue') <= MaxQueued,
           lastId' \in 0..MaxPrompts,
           pumps' \in 0..MaxPumps, casts' \in 0..MaxCasts,
           hands' \subseteq 1..MaxPrompts,
           fates' \in [{"delivered", "dropped", "withdrawn"} -> SUBSET (1..MaxPrompts)],
           DiskTyped'
    PROVE  TInv'
BY DEF TInv, TypeOK

LEMMA FatesTyped ==
    ASSUME TypeOK, NEW f \in {"delivered", "dropped", "withdrawn"}, NEW p \in 1..MaxPrompts,
           fates' = [fates EXCEPT ![f] = @ \cup {p}]
    PROVE  /\ fates' \in [{"delivered", "dropped", "withdrawn"} -> SUBSET (1..MaxPrompts)]
           /\ fates'[f] = fates[f] \cup {p}
           /\ \A g \in {"delivered", "dropped", "withdrawn"} \ {f} : fates'[g] = fates[g]
BY DEF TypeOK

LEMMA TypedNext ==
    ASSUME TInv, [Next]_vars
    PROVE  TInv'
<1> USE DEF row, entries, holds, pane, threads
<1>0. /\ status \in Status /\ paused \in Pause
      /\ running \in BOOLEAN /\ spent \in BOOLEAN /\ awaiting \in BOOLEAN
      /\ focused \in BOOLEAN /\ edited \in BOOLEAN /\ ready \in BOOLEAN
      /\ queue \in Seq(1..MaxPrompts) /\ Len(queue) <= MaxQueued
      /\ lastId \in 0..MaxPrompts
      /\ pumps \in 0..MaxPumps /\ casts \in 0..MaxCasts
      /\ hands \subseteq 1..MaxPrompts
      /\ fates \in [{"delivered", "dropped", "withdrawn"} -> SUBSET (1..MaxPrompts)]
  BY TypeParts DEF TInv
<1>d. disk' = disk => DiskTyped'
  BY DEF TInv, DiskTyped
<1>s. {"None", "NotRunning", "Operator", "BudgetExhausted", "FocusedAndEdited"} \subseteq Pause
      /\ {"Starting", "Idle", "Working", "Exited"} \subseteq Status
  BY DEF Pause, Status
<1>h. ClearFocusEdit(paused) \in Pause /\ HoldForFocusEdit(paused) \in Pause
  BY <1>0, HeldTypes
<1>p. (Pump => pumps' \in 0..MaxPumps) /\ (Pumped => pumps' \in 0..MaxPumps)
  BY <1>0, PumpTypes
<1>1. CASE UNCHANGED vars
  BY <1>0, <1>1, <1>d, TypedParts DEF vars
<1>2. CASE PumpQueue
  <2>1. UNCHANGED <<row, lastId, pane, casts, disk, fates>> /\ Pumped
    BY <1>2 DEF PumpQueue
  <2>2. paused' \in Pause
    <3>1. \A st \in DOMAIN Attention : Attention[st] \in Pause
      BY DEF Attention, Pause
    <3> QED
      BY <1>2, <1>h, <3>1 DEF PumpQueue
  <2>3. awaiting' \in BOOLEAN /\ ready' \in BOOLEAN
    BY <1>0, <1>2 DEF PumpQueue
  <2>4. queue' \in Seq(1..MaxPrompts) /\ Len(queue') <= MaxQueued /\ hands' \subseteq 1..MaxPrompts
    <3>1. CASE UNCHANGED <<queue, hands>>
      BY <1>0, <3>1
    <3>2. ASSUME NEW p \in ToSet(queue),
                 queue # <<>>, p = Head(queue), queue' = Tail(queue),
                 hands' = hands \cup {p}, p \in 1..MaxPrompts
          PROVE  /\ queue' \in Seq(1..MaxPrompts) /\ Len(queue') <= MaxQueued
                 /\ hands' \subseteq 1..MaxPrompts
      <4>1. Tail(queue) \in Seq(1..MaxPrompts) /\ Len(Tail(queue)) = Len(queue) - 1
        BY <1>0, <3>2, TakeHead
      <4>2. Len(queue) \in Nat
        BY <1>0, Elements
      <4>3. queue' \in Seq(1..MaxPrompts) /\ Len(queue') = Len(queue) - 1
        BY <3>2, <4>1
      <4>4. Len(queue') <= MaxQueued
        BY <1>0, <4>2, <4>3, BoundsAssumption
      <4>5. hands' \subseteq 1..MaxPrompts
        BY <1>0, <3>2
      <4> QED
        BY <4>3, <4>4, <4>5
    <3> QED
      BY <1>2, <3>1, <3>2, PumpTakes DEF TInv
  <2> QED
    BY <1>0, <1>d, <1>p, <2>1, <2>2, <2>3, <2>4, TypedParts
<1>3. CASE ResumeQueue
  BY <1>0, <1>3, <1>d, <1>p, <1>s, TypedParts DEF ResumeQueue
<1>4. ASSUME NEW p \in hands, Write(p) \/ WriteFails(p) PROVE TInv'
  <2>1. fates' \in [{"delivered", "dropped", "withdrawn"} -> SUBSET (1..MaxPrompts)]
    <3>1. p \in 1..MaxPrompts
      BY <1>0
    <3>2. CASE Write(p)
      <4>1. fates' = [fates EXCEPT !["delivered"] = @ \cup {p}]
        BY <3>2 DEF Write
      <4> QED
        BY <3>1, <4>1, FatesTyped DEF TInv
    <3>3. CASE WriteFails(p)
      <4>1. fates' = [fates EXCEPT !["dropped"] = @ \cup {p}]
        BY <3>3 DEF WriteFails
      <4> QED
        BY <3>1, <4>1, FatesTyped DEF TInv
    <3> QED
      BY <1>4, <3>2, <3>3
  <2>2. paused' \in Pause /\ hands' \subseteq 1..MaxPrompts
        /\ UNCHANGED <<row, entries, awaiting, pane, pumps, casts, disk, ready>>
    BY <1>0, <1>4, <1>s DEF Write, WriteFails
  <2> QED
    BY <1>0, <1>d, <2>1, <2>2, TypedParts
<1>5. CASE Save
  <2>1. DiskTyped'
    BY <1>0, <1>5 DEF Save, DiskTyped
  <2> QED
    BY <1>0, <1>5, <2>1, TypedParts DEF Save
<1>6. CASE CrashAndRestore
  <2>1. disk.queue \in Seq(1..MaxPrompts) /\ Len(disk.queue) <= MaxQueued
        /\ disk.lastId \in 0..MaxPrompts /\ disk.spent \in BOOLEAN
    BY DEF TInv, DiskTyped
  <2>2. 0 \in 0..MaxPumps /\ 0 \in 0..MaxCasts
    BY BoundsAssumption
  <2> QED
    BY <1>0, <1>6, <1>d, <1>s, <2>1, <2>2, TypedParts DEF CrashAndRestore, RestoredPause
<1>7. CASE EnqueuePrompt
  <2>1. queue' \in Seq(1..MaxPrompts) /\ Len(queue') <= MaxQueued /\ lastId' \in 0..MaxPrompts
    <3>1. queue' \in Seq(1..MaxPrompts) /\ Len(queue') <= MaxQueued /\ lastId' \in 1..MaxPrompts
      BY <1>7, EnqueueTypes DEF TInv
    <3> QED
      BY <3>1
  <2> QED
    BY <1>0, <1>7, <1>d, <1>p, <2>1, TypedParts DEF EnqueuePrompt
<1>8. CASE PauseQueue
  BY <1>0, <1>8, <1>d, <1>s, TypedParts DEF PauseQueue
<1>9. ASSUME NEW p, RemoveQueuedPrompt(p) PROVE TInv'
  <2>1. p \in 1..MaxPrompts /\ queue' \in Seq(1..MaxPrompts)
        /\ Len(queue') = Len(queue) - 1 /\ Len(queue) \in Nat
    BY <1>9, RemoveTypes DEF TInv
  <2>2. Len(queue') <= MaxQueued
    BY <1>0, <2>1, BoundsAssumption
  <2>3. fates' = [fates EXCEPT !.withdrawn = @ \cup {p}]
        /\ UNCHANGED <<row, lastId, holds, pane, pumps, threads, disk, ready>>
    BY <1>9 DEF RemoveQueuedPrompt
  <2>4. fates' \in [{"delivered", "dropped", "withdrawn"} -> SUBSET (1..MaxPrompts)]
    BY <1>0, <2>1, <2>3
  <2> QED
    BY <1>0, <1>d, <2>1, <2>2, <2>3, <2>4, TypedParts
<1>10. ASSUME NEW p, NEW to \in 0..MaxQueued, ReorderQueuedPrompt(p, to) PROVE TInv'
  <2>1. to \in Nat
    OBVIOUS
  <2>2. queue' \in Seq(1..MaxPrompts) /\ Len(queue') = Len(queue)
    BY <1>10, <2>1, ReorderTypes DEF TInv
  <2>3. UNCHANGED <<row, lastId, holds, pane, pumps, threads, disk, fates, ready>>
    BY <1>10 DEF ReorderQueuedPrompt
  <2> QED
    BY <1>0, <1>d, <2>2, <2>3, TypedParts
<1>11. ASSUME NEW send \in BOOLEAN, TypeInput(send) PROVE TInv'
  <2>1. edited' \in BOOLEAN /\ paused' \in Pause
    BY <1>0, <1>11, <1>h DEF TypeInput
  <2> QED
    BY <1>0, <1>11, <1>d, <2>1, TypedParts DEF TypeInput
<1>12. CASE FocusHere \/ FocusElsewhere
  BY <1>0, <1>12, <1>d, <1>h, <1>p, TypedParts DEF FocusHere, FocusElsewhere
<1>13. CASE BroadcastJudged \/ BroadcastWritten
  <2>1. casts' \in 0..MaxCasts
    BY <1>0, <1>13, BoundsAssumption DEF BroadcastJudged, BroadcastWritten
  <2> QED
    BY <1>0, <1>13, <1>d, <2>1, TypedParts DEF BroadcastJudged, BroadcastWritten
<1>14. CASE Prepare \/ Accept \/ StartFails
  BY <1>0, <1>14, <1>d, <1>s, TypedParts DEF Prepare, Accept, StartFails
<1>15. CASE HandleOutput
  <2>1. status' \in Status /\ edited' \in BOOLEAN /\ paused' \in Pause
    BY <1>0, <1>15, <1>h, <1>s DEF HandleOutput
  <2> QED
    BY <1>0, <1>15, <1>d, <2>1, TypedParts DEF HandleOutput
<1>16. CASE MarkProcessExit \/ MarkProcessUnknown
  BY <1>0, <1>16, <1>d, <1>s, <1>p, TypedParts DEF MarkProcessExit, MarkProcessUnknown
<1>17. CASE ExhaustBudget \/ RegainBudget
  BY <1>0, <1>17, <1>d, <1>s, TypedParts DEF ExhaustBudget, RegainBudget
<1>18. ASSUME NEW st \in Status \ {"Starting", "Exited"}, ApplyHook(st) PROVE TInv'
  <2>1. edited' \in BOOLEAN /\ paused' \in Pause /\ ready' \in BOOLEAN
    BY <1>0, <1>18, <1>h DEF ApplyHook
  <2> QED
    BY <1>0, <1>18, <1>d, <1>p, <2>1, TypedParts DEF ApplyHook
<1> QED
  BY <1>1, <1>2, <1>3, <1>4, <1>5, <1>6, <1>7, <1>8, <1>9, <1>10, <1>11, <1>12, <1>13,
     <1>14, <1>15, <1>16, <1>17, <1>18 DEF Next, Operator, Session, Daemon

\* Every variable keeps its type and the queue its limit, with crashes, typing
\* and early output included.
THEOREM TypeHolds == Spec => []TypeOK
<1>1. Init => TInv
  BY TypedInit
<1>2. TInv /\ [Next]_vars => TInv'
  BY TypedNext
<1>3. TInv => TypeOK
  BY DEF TInv
<1> QED
  BY <1>1, <1>2, <1>3, PTL DEF Spec

-----------------------------------------------------------------------------
\* Only the focused row's queue is held for unsubmitted input.
HeldInFocus == paused = "FocusedAndEdited" => focused

LEMMA HeldInFocusNext ==
    ASSUME HeldInFocus, [Next]_vars
    PROVE  HeldInFocus'
<1> USE DEF row, entries, holds, pane, threads, HeldInFocus, HoldForFocusEdit, ClearFocusEdit
<1>1. CASE PumpQueue
  <2> DEFINE held == IF focused /\ edited THEN HoldForFocusEdit(paused)
                                          ELSE ClearFocusEdit(paused)
  <2>1. paused' = held \/ (status \in DOMAIN Attention /\ paused' = Attention[status])
    BY <1>1 DEF PumpQueue
  <2>2. ASSUME status \in DOMAIN Attention PROVE Attention[status] # "FocusedAndEdited"
    BY <2>2 DEF Attention
  <2>3. held = "FocusedAndEdited" => focused
    OBVIOUS
  <2>4. focused' = focused
    BY <1>1 DEF PumpQueue
  <2> QED
    BY <2>1, <2>2, <2>3, <2>4
<1>2. CASE UNCHANGED vars
  BY <1>2 DEF vars
<1>3. ASSUME NEW p, \/ Write(p) \/ WriteFails(p) \/ RemoveQueuedPrompt(p)
                    \/ \E to : ReorderQueuedPrompt(p, to)
      PROVE  HeldInFocus'
  BY <1>3 DEF Write, WriteFails, RemoveQueuedPrompt, ReorderQueuedPrompt
<1>4. ASSUME NEW send \in BOOLEAN, TypeInput(send) PROVE HeldInFocus'
  BY <1>4 DEF TypeInput
<1>5. ASSUME NEW st \in Status \ {"Starting", "Exited"}, ApplyHook(st) PROVE HeldInFocus'
  BY <1>5 DEF ApplyHook
<1>6. CASE CrashAndRestore
  BY <1>6 DEF CrashAndRestore, RestoredPause
<1>7. CASE Save \/ EnqueuePrompt \/ PauseQueue \/ ResumeQueue
  BY <1>7 DEF Save, EnqueuePrompt, PauseQueue, ResumeQueue
<1>8. CASE FocusHere \/ FocusElsewhere \/ BroadcastJudged \/ BroadcastWritten
  BY <1>8 DEF FocusHere, FocusElsewhere, BroadcastJudged, BroadcastWritten
<1>9. CASE Prepare \/ Accept \/ StartFails \/ HandleOutput
  BY <1>9 DEF Prepare, Accept, StartFails, HandleOutput
<1>10. CASE MarkProcessExit \/ MarkProcessUnknown \/ ExhaustBudget \/ RegainBudget
  BY <1>10 DEF MarkProcessExit, MarkProcessUnknown, ExhaustBudget, RegainBudget
<1> QED
  BY <1>1, <1>2, <1>3, <1>4, <1>5, <1>6, <1>7, <1>8, <1>9, <1>10, Steps

\* What QueueIsPumped says of a step.
PumpsBehind ==
    Unpumped' => \/ Unpumped
                 \/ HandleOutput /\ status = "Starting"
                 \/ TypeInput(TRUE) /\ paused = "FocusedAndEdited"

\* Whoever gives the queue cause to send is about to pump, but for two steps.
LEMMA PumpedNext ==
    ASSUME TInv, TInv', HeldInFocus, [Next]_vars
    PROVE  PumpsBehind
<1> USE DEF row, entries, holds, pane, threads
<1>0. pumps \in Nat
  BY BoundsAssumption DEF TInv, TypeOK
<1>a. Pump => PumpsBehind
  BY <1>0 DEF Pump, PumpsBehind, Unpumped
<1>b. status' # "Idle" => PumpsBehind
  BY DEF PumpsBehind, Unpumped
<1>c. paused' # "None" => PumpsBehind
  BY DEF PumpsBehind, Unpumped
<1>d. ASSUME UNCHANGED <<status, running, paused, awaiting, pumps>>, queue = <<>> => queue' = <<>>
      PROVE  PumpsBehind
  BY <1>d DEF PumpsBehind, Unpumped
<1>1. CASE UNCHANGED vars
  BY <1>1, <1>d DEF vars
<1>2. CASE PumpQueue
  <2> DEFINE held == IF focused /\ edited THEN HoldForFocusEdit(paused)
                                          ELSE ClearFocusEdit(paused)
  <2>1. UNCHANGED <<status, running>>
    BY <1>2 DEF PumpQueue
  <2>2. ASSUME status = "Idle" PROVE queue' = <<>> \/ paused' # "None" \/ awaiting'
    <3>1. status \notin DOMAIN Attention
      BY <2>2 DEF Attention
    <3>2. CASE queue = <<>> /\ held = "None"
      BY <1>2, <3>2 DEF PumpQueue
    <3>3. CASE ~(queue = <<>> /\ held = "None")
      <4>1. /\ paused' = held
            /\ IF Takes(held) THEN awaiting' = TRUE
               ELSE awaiting' = (awaiting /\ status = "Idle") /\ UNCHANGED queue
        BY <1>2, <3>1, <3>3 DEF PumpQueue
      <4>2. CASE Takes(held)
        BY <4>1, <4>2
      <4>3. CASE ~Takes(held)
        <5>1. held # "None" \/ awaiting \/ queue = <<>>
          BY <2>2, <4>3 DEF Takes
        <5>2. awaiting \in BOOLEAN
          BY DEF TInv, TypeOK
        <5> QED
          BY <2>2, <4>1, <4>3, <5>1, <5>2
      <4> QED
        BY <4>2, <4>3
    <3> QED
      BY <3>2, <3>3
  <2>3. awaiting' \in BOOLEAN
    BY DEF TInv, TypeOK
  <2> QED
    BY <2>1, <2>2, <2>3 DEF PumpsBehind, Unpumped
<1>3. CASE ResumeQueue
  BY <1>3, <1>a DEF ResumeQueue
<1>4. ASSUME NEW p \in hands, Write(p) \/ WriteFails(p) PROVE PumpsBehind
  BY <1>4, <1>c, <1>d DEF Write, WriteFails
<1>5. CASE Save
  BY <1>5, <1>d DEF Save
<1>6. CASE CrashAndRestore
  BY <1>6, <1>b DEF CrashAndRestore
<1>7. CASE EnqueuePrompt
  BY <1>7, <1>a DEF EnqueuePrompt
<1>8. CASE PauseQueue
  BY <1>8, <1>c DEF PauseQueue
<1>9. ASSUME NEW p, RemoveQueuedPrompt(p) PROVE PumpsBehind
  <2>1. queue # <<>>
    BY <1>9 DEF RemoveQueuedPrompt, ToSet
  <2> QED
    BY <1>9, <2>1, <1>d DEF RemoveQueuedPrompt
<1>10. ASSUME NEW p, NEW to \in 0..MaxQueued, ReorderQueuedPrompt(p, to) PROVE PumpsBehind
  <2>1. queue # <<>>
    BY <1>10 DEF ReorderQueuedPrompt, ToSet
  <2> QED
    BY <1>10, <2>1, <1>d DEF ReorderQueuedPrompt
<1>11. ASSUME NEW send \in BOOLEAN, TypeInput(send) PROVE PumpsBehind
  <2>0. UNCHANGED <<status, running, awaiting, pumps, queue>>
    BY <1>11 DEF TypeInput
  <2>1. CASE focused /\ ~send
    BY <1>11, <2>1, <1>c DEF TypeInput, HoldForFocusEdit
  <2>2. CASE ~(focused /\ ~send) /\ paused # "FocusedAndEdited"
    <3>1. paused' = paused
      BY <1>11, <2>2 DEF TypeInput, ClearFocusEdit
    <3> QED
      BY <2>0, <3>1, <1>d
  <2>3. CASE ~(focused /\ ~send) /\ paused = "FocusedAndEdited"
    <3>1. send = TRUE
      BY <2>3 DEF HeldInFocus
    <3> QED
      BY <1>11, <2>3, <3>1 DEF PumpsBehind
  <2> QED
    BY <2>1, <2>2, <2>3
<1>12. CASE FocusHere
  BY <1>12, <1>d DEF FocusHere
<1>13. CASE FocusElsewhere
  BY <1>13, <1>a DEF FocusElsewhere
<1>14. CASE BroadcastJudged \/ BroadcastWritten
  BY <1>14, <1>d DEF BroadcastJudged, BroadcastWritten
<1>15. CASE Prepare \/ Accept \/ StartFails
  BY <1>15, <1>b DEF Prepare, Accept, StartFails
<1>16. CASE HandleOutput
  <2>1. CASE status = "Starting"
    BY <1>16, <2>1 DEF PumpsBehind
  <2>2. CASE status = "Idle"
    BY <1>16, <2>2, <1>d DEF HandleOutput
  <2>3. CASE status \notin {"Starting", "Idle"}
    BY <1>16, <2>3, <1>b DEF HandleOutput
  <2> QED
    BY <2>1, <2>2, <2>3
<1>17. CASE MarkProcessExit \/ MarkProcessUnknown
  BY <1>17, <1>b DEF MarkProcessExit, MarkProcessUnknown
<1>18. CASE ExhaustBudget
  BY <1>18, <1>c DEF ExhaustBudget
<1>19. CASE RegainBudget
  BY <1>19, <1>d DEF RegainBudget
<1>20. ASSUME NEW st \in Status \ {"Starting", "Exited"}, ApplyHook(st) PROVE PumpsBehind
  BY <1>20, <1>a DEF ApplyHook
<1> QED
  BY <1>1, <1>2, <1>3, <1>4, <1>5, <1>6, <1>7, <1>8, <1>9, <1>10, <1>11, <1>12, <1>13,
     <1>14, <1>15, <1>16, <1>17, <1>18, <1>19, <1>20 DEF Next, Operator, Session, Daemon

\* No step leaves a queue that may send with nobody on the way to pump it, for
\* any number of prompts, places and threads, with early output, typing and
\* crashes: registry/prompt_queue.rs pumps behind every change that could let
\* the queue go, but for the output that first makes a row Idle and the
\* submitted line that ends a pause for unsubmitted input.
THEOREM PumpedHolds == Spec => QueueIsPumped
<1>1. Init => TInv /\ HeldInFocus
  BY TypedInit DEF Init, HeldInFocus
<1>2. TInv /\ HeldInFocus /\ [Next]_vars => (TInv /\ HeldInFocus)'
  BY TypedNext, HeldInFocusNext
<1>3. TInv /\ TInv' /\ HeldInFocus /\ [Next]_vars => PumpsBehind
  BY PumpedNext
<1> QED
  BY <1>1, <1>2, <1>3, PTL DEF Spec, QueueIsPumped, PumpsBehind

-----------------------------------------------------------------------------
(* Where the prompts are. *)

Settled == fates.delivered \cup fates.dropped \cup fates.withdrawn

\* No prompt is in two places, or twice in the queue, and none is missing.
Accounts ==
    /\ IsInjective(queue)
    /\ ToSet(queue) \cap hands = {}
    /\ (ToSet(queue) \cup hands) \cap Settled = {}
    /\ fates.delivered \cap fates.dropped = {}
    /\ (fates.delivered \cup fates.dropped) \cap fates.withdrawn = {}
    /\ ToSet(queue) \cup hands \cup Settled = 1..lastId

PInv == TInv /\ Accounts

\* One prompt goes from the queue to the hands, or from either to the settled,
\* or comes to the queue; or none moves.
Stays == UNCHANGED <<hands, fates, lastId>> /\ ToSet(queue') = ToSet(queue)

Comes(p) ==
    /\ p = lastId + 1 /\ lastId' = p
    /\ ToSet(queue') = ToSet(queue) \cup {p}
    /\ UNCHANGED <<hands, fates>>

Taken(p) ==
    /\ p \in ToSet(queue) /\ ToSet(queue') = ToSet(queue) \ {p}
    /\ hands' = hands \cup {p}
    /\ UNCHANGED <<fates, lastId>>

Settles(p, f) ==
    /\ fates' = [fates EXCEPT ![f] = @ \cup {p}]
    /\ f \in {"delivered", "dropped"} =>
          p \in hands /\ hands' = hands \ {p} /\ ToSet(queue') = ToSet(queue)
    /\ f = "withdrawn" =>
          p \in ToSet(queue) /\ ToSet(queue') = ToSet(queue) \ {p} /\ hands' = hands
    /\ lastId' = lastId

Moves ==
    \/ Stays
    \/ \E p \in 1..MaxPrompts : Comes(p) \/ Taken(p)
          \/ \E f \in {"delivered", "dropped", "withdrawn"} : Settles(p, f)

LEMMA EveryMove ==
    ASSUME ~Crashes, PInv, [Next]_vars
    PROVE  Moves /\ IsInjective(queue')
<1> USE DEF row, entries, holds, pane, threads
<1>0. IsInjective(queue) /\ TypeOK /\ queue \in Seq(1..MaxPrompts) /\ hands \subseteq 1..MaxPrompts
  BY DEF PInv, TInv, TypeOK, Accounts
<1>s. ASSUME UNCHANGED <<queue, hands, fates, lastId>> PROVE Moves /\ IsInjective(queue')
  BY <1>s, <1>0 DEF Moves, Stays
<1>1. CASE UNCHANGED vars
  BY <1>1, <1>s DEF vars
<1>2. CASE PumpQueue
  <2>1. UNCHANGED <<fates, lastId>>
    BY <1>2 DEF PumpQueue
  <2>2. CASE UNCHANGED <<queue, hands>>
    BY <2>1, <2>2, <1>s
  <2>3. ASSUME NEW p \in ToSet(queue),
               queue # <<>>, p = Head(queue), queue' = Tail(queue),
               hands' = hands \cup {p}, p \in 1..MaxPrompts
        PROVE  Moves /\ IsInjective(queue')
    <3>1. IsInjective(Tail(queue)) /\ ToSet(Tail(queue)) = ToSet(queue) \ {Head(queue)}
      BY <1>0, <2>3, TakeHead
    <3>2. IsInjective(queue') /\ ToSet(queue') = ToSet(queue) \ {p}
      BY <2>3, <3>1
    <3>3. Taken(p)
      BY <2>1, <2>3, <3>2 DEF Taken
    <3> QED
      BY <2>3, <3>2, <3>3 DEF Moves
  <2> QED
    BY <1>0, <1>2, <2>2, <2>3, PumpTakes
<1>3. CASE ResumeQueue
  BY <1>3, <1>s DEF ResumeQueue
<1>4. ASSUME NEW p \in hands, Write(p) PROVE Moves /\ IsInjective(queue')
  <2>1. Settles(p, "delivered") /\ queue' = queue
    BY <1>4 DEF Write, Settles
  <2> QED
    BY <1>0, <2>1 DEF Moves
<1>5. ASSUME NEW p \in hands, WriteFails(p) PROVE Moves /\ IsInjective(queue')
  <2>1. Settles(p, "dropped") /\ queue' = queue
    BY <1>5 DEF WriteFails, Settles
  <2> QED
    BY <1>0, <2>1 DEF Moves
<1>6. CASE Save \/ CrashAndRestore
  BY <1>6 DEF Save, CrashAndRestore
<1>7. CASE EnqueuePrompt
  <2> DEFINE e == lastId + 1
  <2>1. lastId' = e /\ e \in 1..MaxPrompts
        /\ ToSet(queue') = ToSet(queue) \cup {e}
        /\ (IsInjective(queue) /\ e \notin ToSet(queue) => IsInjective(queue'))
    BY <1>0, <1>7, EnqueueTypes
  <2>2. e \notin ToSet(queue)
    <3>1. lastId \in Nat /\ ToSet(queue) \subseteq 1..lastId
      BY <1>0, <1>7, EnqueueTypes DEF PInv, Accounts
    <3> QED
      BY <3>1
  <2>3. UNCHANGED <<hands, fates>>
    BY <1>7 DEF EnqueuePrompt
  <2>4. Comes(e)
    BY <2>1, <2>3 DEF Comes
  <2> HIDE DEF e
  <2> QED
    BY <1>0, <2>1, <2>2, <2>4 DEF Moves
<1>8. CASE PauseQueue
  BY <1>8, <1>s DEF PauseQueue
<1>9. ASSUME NEW p, RemoveQueuedPrompt(p) PROVE Moves /\ IsInjective(queue')
  <2>1. /\ p \in ToSet(queue) /\ p \in 1..MaxPrompts
        /\ IsInjective(queue') /\ ToSet(queue') = ToSet(queue) \ {p}
    BY <1>0, <1>9, RemoveTypes
  <2>2. Settles(p, "withdrawn")
    BY <1>9, <2>1 DEF RemoveQueuedPrompt, Settles
  <2> QED
    BY <2>1, <2>2 DEF Moves
<1>10. ASSUME NEW p, NEW to \in 0..MaxQueued, ReorderQueuedPrompt(p, to)
       PROVE  Moves /\ IsInjective(queue')
  <2>1. to \in Nat
    OBVIOUS
  <2>2. IsInjective(queue') /\ ToSet(queue') = ToSet(queue)
    BY <1>0, <1>10, <2>1, ReorderTypes
  <2>3. UNCHANGED <<hands, fates, lastId>>
    BY <1>10 DEF ReorderQueuedPrompt
  <2> QED
    BY <2>2, <2>3 DEF Moves, Stays
<1>11. ASSUME NEW send \in BOOLEAN, TypeInput(send) PROVE Moves /\ IsInjective(queue')
  BY <1>11, <1>s DEF TypeInput
<1>12. CASE FocusHere \/ FocusElsewhere \/ BroadcastJudged \/ BroadcastWritten
  BY <1>12, <1>s DEF FocusHere, FocusElsewhere, BroadcastJudged, BroadcastWritten
<1>13. CASE Prepare \/ Accept \/ StartFails \/ HandleOutput
  BY <1>13, <1>s DEF Prepare, Accept, StartFails, HandleOutput
<1>14. CASE MarkProcessExit \/ MarkProcessUnknown \/ ExhaustBudget \/ RegainBudget
  BY <1>14, <1>s DEF MarkProcessExit, MarkProcessUnknown, ExhaustBudget, RegainBudget
<1>15. ASSUME NEW st \in Status \ {"Starting", "Exited"}, ApplyHook(st)
       PROVE  Moves /\ IsInjective(queue')
  BY <1>15, <1>s DEF ApplyHook
<1> QED
  BY <1>1, <1>2, <1>3, <1>4, <1>5, <1>6, <1>7, <1>8, <1>9, <1>10, <1>11, <1>12, <1>13,
     <1>14, <1>15 DEF Next, Operator, Session, Daemon

LEMMA AccountsKept ==
    ASSUME PInv, Moves, IsInjective(queue'), TInv'
    PROVE  Accounts'
<1> DEFINE Q == ToSet(queue)
           R == ToSet(queue')
           d == fates.delivered
           x == fates.dropped
           w == fates.withdrawn
<1>0. /\ Q \cap hands = {} /\ (Q \cup hands) \cap (d \cup x \cup w) = {}
      /\ d \cap x = {} /\ (d \cup x) \cap w = {}
      /\ Q \cup hands \cup d \cup x \cup w = 1..lastId
      /\ lastId \in Nat /\ TypeOK
  BY DEF PInv, TInv, TypeOK, Accounts, Settled
<1>1. SUFFICES
        /\ R \cap hands' = {} /\ (R \cup hands') \cap (d' \cup x' \cup w') = {}
        /\ d' \cap x' = {} /\ (d' \cup x') \cap w' = {}
        /\ R \cup hands' \cup d' \cup x' \cup w' = 1..lastId'
  BY DEF Accounts, Settled
<1>2. CASE Stays
  <2>1. R = Q /\ hands' = hands /\ d' = d /\ x' = x /\ w' = w /\ lastId' = lastId
    BY <1>2 DEF Stays
  <2> QED
    BY <1>0, <2>1
<1>3. ASSUME NEW p \in 1..MaxPrompts, Comes(p)
      PROVE  /\ R \cap hands' = {} /\ (R \cup hands') \cap (d' \cup x' \cup w') = {}
             /\ d' \cap x' = {} /\ (d' \cup x') \cap w' = {}
             /\ R \cup hands' \cup d' \cup x' \cup w' = 1..lastId'
  <2>1. R = Q \cup {p} /\ hands' = hands /\ d' = d /\ x' = x /\ w' = w
        /\ p = lastId + 1 /\ lastId' = p
    BY <1>3 DEF Comes
  <2>2. p \notin 1..lastId /\ 1..lastId' = 1..lastId \cup {p}
    BY <1>0, <2>1
  <2> HIDE DEF Q, R, d, x, w
  <2> QED
    BY <1>0, <2>1, <2>2
<1>4. ASSUME NEW p \in 1..MaxPrompts, Taken(p)
      PROVE  /\ R \cap hands' = {} /\ (R \cup hands') \cap (d' \cup x' \cup w') = {}
             /\ d' \cap x' = {} /\ (d' \cup x') \cap w' = {}
             /\ R \cup hands' \cup d' \cup x' \cup w' = 1..lastId'
  <2>1. p \in Q /\ R = Q \ {p} /\ hands' = hands \cup {p}
        /\ d' = d /\ x' = x /\ w' = w /\ lastId' = lastId
    BY <1>4 DEF Taken
  <2> HIDE DEF Q, R, d, x, w
  <2> QED
    BY <1>0, <2>1
<1>5. ASSUME NEW p \in 1..MaxPrompts, NEW f \in {"delivered", "dropped", "withdrawn"},
             Settles(p, f)
      PROVE  /\ R \cap hands' = {} /\ (R \cup hands') \cap (d' \cup x' \cup w') = {}
             /\ d' \cap x' = {} /\ (d' \cup x') \cap w' = {}
             /\ R \cup hands' \cup d' \cup x' \cup w' = 1..lastId'
  <2>1. /\ fates'[f] = fates[f] \cup {p} /\ lastId' = lastId
        /\ \A g \in {"delivered", "dropped", "withdrawn"} \ {f} : fates'[g] = fates[g]
    BY <1>0, <1>5, FatesTyped DEF Settles
  <2>2. CASE f = "delivered"
    <3>1. p \in hands /\ hands' = hands \ {p} /\ R = Q /\ d' = d \cup {p} /\ x' = x /\ w' = w
      BY <1>5, <2>1, <2>2 DEF Settles
    <3> HIDE DEF Q, R, d, x, w
    <3> QED
      BY <1>0, <2>1, <3>1
  <2>3. CASE f = "dropped"
    <3>1. p \in hands /\ hands' = hands \ {p} /\ R = Q /\ d' = d /\ x' = x \cup {p} /\ w' = w
      BY <1>5, <2>1, <2>3 DEF Settles
    <3> HIDE DEF Q, R, d, x, w
    <3> QED
      BY <1>0, <2>1, <3>1
  <2>4. CASE f = "withdrawn"
    <3>1. p \in Q /\ hands' = hands /\ R = Q \ {p} /\ d' = d /\ x' = x /\ w' = w \cup {p}
      BY <1>5, <2>1, <2>4 DEF Settles
    <3> HIDE DEF Q, R, d, x, w
    <3> QED
      BY <1>0, <2>1, <3>1
  <2> QED
    BY <2>2, <2>3, <2>4
<1> QED
  BY <1>2, <1>3, <1>4, <1>5 DEF Moves

\* A queue without duplicates has as many places as prompts.
LEMMA PlacesArePrompts ==
    ASSUME NEW S, NEW q \in Seq(S), IsInjective(q)
    PROVE  IsFiniteSet(ToSet(q)) /\ Cardinality(ToSet(q)) = Len(q) /\ Len(q) \in Nat
<1> DEFINE n == Len(q)
           T == ToSet(q)
<1>1. n \in Nat /\ DOMAIN q = 1..n
  BY Elements
<1>2. q \in [1..n -> T]
  BY <1>1 DEF ToSet
<1>3. q \in Bijection(1..n, T)
  <2>1. q \in Injection(1..n, T)
    BY <1>1, <1>2 DEF Injection, IsInjective
  <2>2. q \in Surjection(1..n, T)
    BY <1>1, <1>2 DEF Surjection, ToSet
  <2> QED
    BY <2>1, <2>2 DEF Bijection
<1>4. ExistsBijection(1..n, T)
  BY <1>3 DEF ExistsBijection
<1>5. Cardinality(T) = n /\ IsFiniteSet(T)
  <2>1. Cardinality(T) = n
    BY <1>1, <1>4, FS_CountingElements
  <2>2. IsFiniteSet(T)
    BY <1>1, <1>4, FS_NatBijection
  <2> QED
    BY <2>1, <2>2
<1> QED
  BY <1>1, <1>5

LEMMA ApartAdd ==
    ASSUME NEW A, NEW B, IsFiniteSet(A), IsFiniteSet(B), A \cap B = {}
    PROVE  /\ IsFiniteSet(A \cup B)
           /\ Cardinality(A \cup B) = Cardinality(A) + Cardinality(B)
<1>1. Cardinality(A) \in Nat /\ Cardinality(B) \in Nat
  BY FS_CardinalityType
<1>2. Cardinality(A \cap B) = 0
  BY FS_EmptySet
<1>3. /\ IsFiniteSet(A \cup B)
      /\ Cardinality(A \cup B) = Cardinality(A) + Cardinality(B) - Cardinality(A \cap B)
  BY FS_Union
<1> QED
  BY <1>1, <1>2, <1>3

LEMMA AccountsAddUp ==
    ASSUME PInv
    PROVE  EveryPromptAccounted
<1> DEFINE Q == ToSet(queue)
           d == fates.delivered
           x == fates.dropped
           w == fates.withdrawn
<1>0. /\ IsInjective(queue) /\ queue \in Seq(1..MaxPrompts)
      /\ Q \cap hands = {} /\ (Q \cup hands) \cap (d \cup x \cup w) = {}
      /\ d \cap x = {} /\ (d \cup x) \cap w = {}
      /\ Q \cup hands \cup d \cup x \cup w = 1..lastId
      /\ lastId \in Nat
      /\ fates \in [{"delivered", "dropped", "withdrawn"} -> SUBSET (1..MaxPrompts)]
  BY DEF PInv, TInv, TypeOK, Accounts, Settled
<1>1. UNION {fates[f] : f \in DOMAIN fates} = d \cup x \cup w
  BY <1>0
<1>2. Cardinality(Q) = Len(queue) /\ IsFiniteSet(Q)
  BY <1>0, PlacesArePrompts
<1>3. IsFiniteSet(1..lastId) /\ Cardinality(1..lastId) = lastId
  BY <1>0, FS_Interval
<1> HIDE DEF Q, d, x, w
<1>4. IsFiniteSet(hands) /\ IsFiniteSet(d) /\ IsFiniteSet(x) /\ IsFiniteSet(w)
  <2>1. /\ hands \subseteq 1..lastId /\ d \subseteq 1..lastId
        /\ x \subseteq 1..lastId /\ w \subseteq 1..lastId
    BY <1>0
  <2> QED
    BY <1>3, <2>1, FS_Subset
<1>5. /\ IsFiniteSet(Q \cup hands)
      /\ Cardinality(Q \cup hands) = Cardinality(Q) + Cardinality(hands)
  BY <1>0, <1>2, <1>4, ApartAdd
<1>6. /\ IsFiniteSet(d \cup x)
      /\ Cardinality(d \cup x) = Cardinality(d) + Cardinality(x)
  BY <1>0, <1>4, ApartAdd
<1>7. /\ IsFiniteSet((d \cup x) \cup w)
      /\ Cardinality((d \cup x) \cup w) = Cardinality(d \cup x) + Cardinality(w)
  BY <1>0, <1>4, <1>6, ApartAdd
<1>8. Cardinality((Q \cup hands) \cup ((d \cup x) \cup w))
        = Cardinality(Q \cup hands) + Cardinality((d \cup x) \cup w)
  BY <1>0, <1>5, <1>7, ApartAdd
<1>9. (Q \cup hands) \cup ((d \cup x) \cup w) = 1..lastId
  BY <1>0
<1>10. /\ Cardinality(Q) \in Nat /\ Cardinality(hands) \in Nat /\ Cardinality(d) \in Nat
       /\ Cardinality(x) \in Nat /\ Cardinality(w) \in Nat
  BY <1>2, <1>4, FS_CardinalityType
<1>11. Len(queue) + Cardinality(hands) + Cardinality(d) + Cardinality(x) + Cardinality(w) = lastId
  <2>1. Cardinality((Q \cup hands) \cup ((d \cup x) \cup w)) = lastId
    BY <1>3, <1>9
  <2>2. lastId = Cardinality(Q \cup hands) + Cardinality((d \cup x) \cup w)
    BY <1>8, <2>1
  <2>3. lastId = (Cardinality(Q) + Cardinality(hands))
                  + ((Cardinality(d) + Cardinality(x)) + Cardinality(w))
    BY <1>5, <1>6, <1>7, <2>2
  <2> QED
    BY <1>2, <1>10, <2>3
<1>12. Q \cup hands \cup (d \cup x \cup w) = 1..lastId
  BY <1>0
<1> QED
  BY <1>0, <1>1, <1>11, <1>12 DEF EveryPromptAccounted, Q, d, x, w

LEMMA PInvInit == ASSUME Init PROVE PInv
<1>1. /\ queue = <<>> /\ hands = {} /\ lastId = 0
      /\ fates = [delivered |-> {}, dropped |-> {}, withdrawn |-> {}]
  BY DEF Init
<1>2. ToSet(queue) = {} /\ IsInjective(queue) /\ Settled = {} /\ 1..0 = {}
  BY <1>1 DEF ToSet, IsInjective, Settled
<1>3. Accounts
  BY <1>1, <1>2 DEF Accounts
<1> QED
  BY <1>3, TypedInit DEF PInv

LEMMA PInvKept ==
    ASSUME ~Crashes, PInv, [Next]_vars
    PROVE  PInv'
<1>1. TInv'
  BY TypedNext DEF PInv
<1> QED
  BY <1>1, EveryMove, AccountsKept DEF PInv

\* Every prompt that was given an id is in the queue, once, or in the hands of
\* one thread, or settled, for any number of prompts, places and threads; as
\* long as the daemon lives, for a crash brings back what the last save held.
THEOREM AccountsHold ==
    ASSUME ~Crashes
    PROVE  Spec => []EveryPromptAccounted
<1>1. Init => PInv
  BY PInvInit
<1>2. PInv /\ [Next]_vars => PInv'
  BY PInvKept
<1>3. PInv => EveryPromptAccounted
  BY AccountsAddUp
<1> QED
  BY <1>1, <1>2, <1>3, PTL DEF Spec

-----------------------------------------------------------------------------
(* The refinement of PromptLife. *)

fate == [p \in 1..MaxPrompts |-> FateOf(p)]

\* What FateOf says of a prompt that is in one place.
LEMMA FateIs ==
    ASSUME PInv, NEW p
    PROVE  /\ p \in fates.delivered <=> FateOf(p) = "delivered"
           /\ p \in fates.dropped <=> FateOf(p) = "dropped"
           /\ p \in fates.withdrawn <=> FateOf(p) = "withdrawn"
           /\ p \in hands <=> FateOf(p) = "taken"
           /\ p \in ToSet(queue) <=> FateOf(p) = "waiting"
           /\ p \notin 1..lastId <=> FateOf(p) = "unborn"
BY DEF PInv, Accounts, Settled, FateOf

LEMMA FateWaits ==
    ASSUME PInv', NEW p, p \in ToSet(queue')
    PROVE  FateOf(p)' = "waiting"
BY DEF PInv, Accounts, Settled, FateOf

LEMMA FateTaken ==
    ASSUME PInv', NEW p, p \in hands'
    PROVE  FateOf(p)' = "taken"
BY DEF PInv, Accounts, Settled, FateOf

LEMMA FateSettled ==
    ASSUME PInv', NEW p, NEW f \in {"delivered", "dropped", "withdrawn"}, p \in fates'[f]
    PROVE  FateOf(p)' = f
BY DEF PInv, Accounts, Settled, FateOf

LEMMA FateStays ==
    ASSUME NEW p,
           p \in fates'.delivered <=> p \in fates.delivered,
           p \in fates'.dropped <=> p \in fates.dropped,
           p \in fates'.withdrawn <=> p \in fates.withdrawn,
           p \in hands' <=> p \in hands,
           p \in ToSet(queue') <=> p \in ToSet(queue)
    PROVE  FateOf(p)' = FateOf(p)
BY DEF FateOf

\* One prompt moves, the way PromptLife lets it.
LEMMA OneFollows ==
    ASSUME NEW p \in 1..MaxPrompts, NEW f,
           <<FateOf(p), f>> \in Life!Follows, FateOf(p)' = f,
           \A r \in (1..MaxPrompts) \ {p} : FateOf(r)' = FateOf(r)
    PROVE  Life!Next
<1>1. p \in Life!Prompt /\ f \in Life!Fate
  BY DEF Life!Prompt, Life!Fate, Life!Follows
<1>2. fate[p] = FateOf(p) /\ fate' = [fate EXCEPT ![p] = f]
  BY DEF fate
<1> QED
  BY <1>1, <1>2 DEF Life!Next, fate

LEMMA MovesFollow ==
    ASSUME PInv, PInv', Moves
    PROVE  Life!Next \/ UNCHANGED fate
<1>0. TypeOK
  BY DEF PInv, TInv
<1>f. {<<"unborn", "waiting">>, <<"waiting", "taken">>, <<"waiting", "withdrawn">>,
       <<"taken", "delivered">>, <<"taken", "dropped">>} = Life!Follows
  BY DEF Life!Follows
<1>1. CASE Stays
  <2>1. \A r \in 1..MaxPrompts : FateOf(r)' = FateOf(r)
    BY <1>1, FateStays DEF Stays
  <2> QED
    BY <2>1 DEF fate
<1>2. ASSUME NEW p \in 1..MaxPrompts, Comes(p) PROVE Life!Next
  <2>1. FateOf(p) = "unborn"
    <3>1. p \notin 1..lastId
      BY <1>0, <1>2 DEF Comes, TypeOK
    <3> QED
      BY <3>1, FateIs
  <2>2. FateOf(p)' = "waiting"
    <3>1. p \in ToSet(queue')
      BY <1>2 DEF Comes
    <3> QED
      BY <3>1, FateWaits
  <2>3. \A r \in (1..MaxPrompts) \ {p} : FateOf(r)' = FateOf(r)
    BY <1>2, FateStays DEF Comes
  <2> QED
    BY <1>f, <2>1, <2>2, <2>3, OneFollows
<1>3. ASSUME NEW p \in 1..MaxPrompts, Taken(p) PROVE Life!Next
  <2>1. FateOf(p) = "waiting"
    BY <1>3, FateIs DEF Taken
  <2>2. FateOf(p)' = "taken"
    <3>1. p \in hands'
      BY <1>3 DEF Taken
    <3> QED
      BY <3>1, FateTaken
  <2>3. \A r \in (1..MaxPrompts) \ {p} : FateOf(r)' = FateOf(r)
    BY <1>3, FateStays DEF Taken
  <2> QED
    BY <1>f, <2>1, <2>2, <2>3, OneFollows
<1>4. ASSUME NEW p \in 1..MaxPrompts, NEW f \in {"delivered", "dropped", "withdrawn"},
             Settles(p, f)
      PROVE  Life!Next
  <2>1. /\ fates'[f] = fates[f] \cup {p}
        /\ \A g \in {"delivered", "dropped", "withdrawn"} \ {f} : fates'[g] = fates[g]
    BY <1>0, <1>4, FatesTyped DEF Settles
  <2>2. FateOf(p) = IF f = "withdrawn" THEN "waiting" ELSE "taken"
    BY <1>4, FateIs DEF Settles
  <2>3. FateOf(p)' = f
    BY <2>1, FateSettled
  <2>4. \A r \in (1..MaxPrompts) \ {p} : FateOf(r)' = FateOf(r)
    <3> SUFFICES ASSUME NEW r \in (1..MaxPrompts) \ {p} PROVE FateOf(r)' = FateOf(r)
      OBVIOUS
    <3>1. /\ r \in fates'.delivered <=> r \in fates.delivered
          /\ r \in fates'.dropped <=> r \in fates.dropped
          /\ r \in fates'.withdrawn <=> r \in fates.withdrawn
      BY <2>1
    <3>2. /\ r \in hands' <=> r \in hands
          /\ r \in ToSet(queue') <=> r \in ToSet(queue)
      BY <1>4 DEF Settles
    <3> QED
      BY <3>1, <3>2, FateStays
  <2>5. <<FateOf(p), f>> \in Life!Follows
    BY <1>f, <2>2
  <2> QED
    BY <2>3, <2>4, <2>5, OneFollows
<1> QED
  BY <1>1, <1>2, <1>3, <1>4 DEF Moves

\* Each prompt the operator submits waits, is taken or withdrawn, and a taken
\* one is delivered or reported, once: the queue implements PromptLife, for any
\* number of prompts, places and threads, as long as the daemon lives.
THEOREM LifeHolds ==
    ASSUME ~Crashes
    PROVE  Spec => ImplementsPromptLife
<1>1. Init => Life!Init
  <2> SUFFICES ASSUME Init PROVE Life!Init
    OBVIOUS
  <2>1. ToSet(queue) = {} /\ hands = {} /\ fates = [delivered |-> {}, dropped |-> {}, withdrawn |-> {}]
    BY DEF Init, ToSet
  <2>2. \A p \in 1..MaxPrompts : FateOf(p) = "unborn"
    BY <2>1 DEF FateOf
  <2> QED
    BY <2>2 DEF Life!Init, Life!Prompt
<1>2. PInv /\ [Next]_vars => [Life!Next]_fate
  <2> SUFFICES ASSUME PInv, [Next]_vars PROVE Life!Next \/ UNCHANGED fate
    OBVIOUS
  <2> QED
    BY EveryMove, PInvKept, MovesFollow
<1> QED
  BY <1>1, <1>2, PInvInit, PInvKept, PTL DEF Spec, ImplementsPromptLife, Life!Spec, fate
=============================================================================
