---------------------------- MODULE LandingProofs ----------------------------
(***************************************************************************)
(* Proofs about Landing, for any sets of sessions, clients and changes and *)
(* any number of steps of agents and operator.                             *)
(***************************************************************************)
EXTENDS Landing, TLAPS

(* The daemon's part of a landing, and an archive *)
Later == {"owner", "record", "archive", "release", "branch", "remove"}

(* What a request's stage says of it: it has an outcome once it has left    *)
(* the gate, and only the row that owns the landed tree gets further than   *)
(* "owner".                                                                 *)
Flow(c) ==
    LET j == job[c] IN
    /\ j.at \in Within <=> gate = c
    /\ j.at \in Within \cup {"waiting"} => j.source \in Place
    /\ j.at \in Within \cup {"idle", "waiting"} => j.out = "none" /\ j.session = None
    /\ j.at \in Later => j.session \in Session
    /\ j.at = "owner" => j.out = "landed"
    /\ j.at = "record" => j.out = "landed" /\ j.source = j.session
    /\ j.at \in {"archive", "release", "branch", "remove"} =>
         j.out = "none" \/ (j.out = "landed" /\ j.source = j.session)

(* What a Return does to the job, and that it leaves the other jobs alone.  *)
LEMMA ReturnEffect ==
    ASSUME TypeOK, NEW c \in Client, NEW out \in Outcome, Return(c, out)
    PROVE  /\ job' \in [Client -> Job]
           /\ \A d \in Client \ {c} : job'[d] = job[d]
           /\ job'[c].out = out /\ job'[c].at \in {"owner", "done"}
           /\ out # "landed" => job'[c] = [Idle EXCEPT !.at = "done", !.out = out]
           /\ out = "landed" => /\ job'[c].patch = job[c].patch
                                /\ job'[c].target = job[c].target
                                /\ job'[c].source = job[c].source
           /\ job'[c].at = "owner" => out = "landed" /\ job'[c].session \in Session
           /\ gate' = None /\ there' = there /\ branch' = branch
           /\ row' = row /\ landed' = landed
<1> DEFINE j == job[c]
<1>1. j \in Job
  BY DEF TypeOK
<1>2. gate' = None /\ there' = there /\ branch' = branch /\ row' = row /\ landed' = landed
  BY DEF Return
<1>3. PICK k \in After(j, out) : job' = [job EXCEPT ![c] = k]
  BY DEF Return
<1>4. CASE out # "landed"
  <2>1. k = [Idle EXCEPT !.at = "done", !.out = out]
    BY <1>3, <1>4 DEF After
  <2>2. k \in Job /\ k.at = "done" /\ k.out = out
    BY <2>1 DEF Idle, Job, Stage, Place, Outcome
  <2>3. job' \in [Client -> Job] /\ job'[c] = k /\ \A d \in Client \ {c} : job'[d] = job[d]
    BY <1>3, <2>2 DEF TypeOK
  <2>4. QED BY <1>2, <1>4, <2>1, <2>2, <2>3
<1>5. CASE out = "landed"
  <2>1. /\ k \in Job /\ k.out = out
        /\ k.at = "done" \/ (k.at = "owner" /\ k.session \in Session)
        /\ k.patch = j.patch /\ k.target = j.target /\ k.source = j.source
    <3>1. CASE k = [j EXCEPT !.at = "done", !.pin = None, !.found = {}, !.out = out]
      BY <1>1, <3>1 DEF Job, Stage
    <3>2. ASSUME NEW n \in Session,
                 k = [j EXCEPT !.at = "owner", !.session = n, !.pin = None, !.found = {},
                               !.out = out]
          PROVE  <2>1
      BY <1>1, <3>2 DEF Job, Stage
    <3>3. QED BY <1>3, <1>5, <3>1, <3>2 DEF After
  <2>2. job' \in [Client -> Job] /\ job'[c] = k /\ \A d \in Client \ {c} : job'[d] = job[d]
    BY <1>3, <2>1 DEF TypeOK
  <2>3. QED BY <1>2, <1>5, <2>1, <2>2
<1>6. QED BY <1>4, <1>5

-----------------------------------------------------------------------------
(* Types *)

LEMMA TypeInit == Init => TypeOK
BY MaxOthersIsNat DEF Init, TypeOK, Place, Tree, Idle, Job, Stage, Outcome

(* A tree that gets other files keeps its type, as one everyone else edits. *)
LEMMA TypeHolding ==
    ASSUME TypeOK, NEW p \in Place, NEW files \in SUBSET Change, Holding(p, files)
    PROVE  tree' \in [Place -> Tree]
BY DEF TypeOK, Holding, Tree

LEMMA TypeOthers ==
    ASSUME TypeOK, NEW p \in Place, NEW t \in Tree, Others(p, t)
    PROVE  /\ tree' \in [Place -> Tree]
           /\ job' \in [Client -> Job]
           /\ UNCHANGED <<there, branch, row, landed, gate>>
<1>1. tree[p] \in Tree /\ tree' \in [Place -> Tree]
  BY DEF TypeOK, Others
<1>2. ASSUME NEW c \in Client PROVE job'[c] \in Job
  <2>1. job[c] \in Job
    BY DEF TypeOK
  <2>2. t.files \ tree[p].files \in SUBSET Change
    BY <1>1 DEF Tree
  <2>3. job[c].found \cup (t.files \ tree[p].files) \in SUBSET Change
    BY <2>1, <2>2 DEF Job
  <2>4. [job[c] EXCEPT !.found = @ \cup (t.files \ tree[p].files)] \in Job
    BY <2>1, <2>3 DEF Job
  <2>5. QED BY <2>1, <2>4 DEF Others
<1>3. QED BY <1>1, <1>2 DEF Others

LEMMA TypeServe == ASSUME TypeOK, NEW c \in Client, Flow(c), Serve(c) PROVE TypeOK'
<1> DEFINE j == job[c]
<1>0. j \in Job /\ others' \in 0..MaxOthers /\ j.target \in Place
  BY DEF TypeOK, Serve, Job
<1>1. ASSUME NEW out \in Outcome, Return(c, out), tree' \in [Place -> Tree] PROVE TypeOK'
  BY <1>0, <1>1, ReturnEffect DEF TypeOK
<1>2. ASSUME NEW at \in Stage, Proceed(c, at) PROVE TypeOK'
  <2>1. [j EXCEPT !.at = at] \in Job
    BY <1>0 DEF Job
  <2>2. job' = [job EXCEPT ![c] = [j EXCEPT !.at = at]] /\ job \in [Client -> Job]
    BY <1>2 DEF Proceed, TypeOK
  <2>3. job' \in [Client -> Job]
    BY <2>1, <2>2
  <2>4. QED BY <1>0, <1>2, <2>3 DEF Proceed, TypeOK
<1>3. {"landed", "dirty", "mixed", "cut", "refused"} \subseteq Outcome
  BY DEF Outcome
<1>4. CASE Enter(c)
  <2>1. job' \in [Client -> Job]
    BY <1>4 DEF Enter, TypeOK, Job, Stage, Within
  <2>2. QED BY <1>0, <1>4, <2>1 DEF Enter, TypeOK
<1>5. CASE Unavailable(c)
  <2>1. Return(c, "refused") /\ tree' = tree
    BY <1>5 DEF Unavailable
  <2>2. QED BY <2>1, <1>1, <1>3 DEF TypeOK
<1>6. CASE ReadHead(c)
  <2>1. CASE Return(c, "refused") /\ tree' = tree
    BY <2>1, <1>1, <1>3 DEF TypeOK
  <2>2. CASE /\ job' = [job EXCEPT ![c].at = "dirty", ![c].found = tree[j.target].files]
             /\ UNCHANGED <<tree, there, branch, row, landed, gate>>
    <3>1. tree[j.target].files \in SUBSET Change
      BY <1>0 DEF TypeOK, Tree
    <3>4. [j EXCEPT !.at = "dirty", !.found = tree[j.target].files] \in Job
      BY <1>0, <3>1 DEF Job, Stage, Within
    <3>2. job' \in [Client -> Job]
      BY <2>2, <3>4 DEF TypeOK
    <3>3. QED BY <1>0, <2>2, <3>2 DEF TypeOK
  <2>3. QED BY <1>6, <2>1, <2>2 DEF ReadHead
<1>7. CASE CheckDirty(c)
  <2>1. CASE Return(c, "dirty") /\ tree' = tree
    BY <2>1, <1>1, <1>3 DEF TypeOK
  <2>2. CASE Proceed(c, "patch")
    BY <2>2, <1>2 DEF Stage, Within
  <2>3. QED BY <1>7, <2>1, <2>2 DEF CheckDirty
<1>8. CASE ReadPatch(c)
  <2>1. CASE Return(c, "refused") /\ tree' = tree
    BY <2>1, <1>1, <1>3 DEF TypeOK
  <2>2. CASE /\ job' = [job EXCEPT ![c].at = "check", ![c].patch = SourcePatch(j.source)]
             /\ UNCHANGED <<tree, there, branch, row, landed, gate>>
             /\ Exists(j.source)
    <3>1. SourcePatch(j.source) \in SUBSET Change
      BY <1>0, <2>2 DEF SourcePatch, Exists, TypeOK, Tree, Place
    <3>4. [j EXCEPT !.at = "check", !.patch = SourcePatch(j.source)] \in Job
      BY <1>0, <3>1 DEF Job, Stage, Within
    <3>2. job' \in [Client -> Job]
      BY <2>2, <3>4 DEF TypeOK
    <3>3. QED BY <1>0, <2>2, <3>2 DEF TypeOK
  <2>3. QED BY <1>8, <2>1, <2>2 DEF ReadPatch
<1>9. CASE CheckPatch(c)
  <2>1. CASE Return(c, "refused") /\ tree' = tree
    BY <2>1, <1>1, <1>3 DEF TypeOK
  <2>2. CASE Proceed(c, "write")
    BY <2>2, <1>2 DEF Stage, Within
  <2>3. QED BY <1>9, <2>1, <2>2 DEF CheckPatch
<1>10. ASSUME NEW files, files \in {tree[j.target].files \cup q : q \in SUBSET j.patch}
                             \cup {tree[j.target].files \ q : q \in SUBSET j.patch},
              Holding(j.target, files)
       PROVE  tree' \in [Place -> Tree]
  <2>1. files \in SUBSET Change
    BY <1>0, <1>10 DEF TypeOK, Tree, Job
  <2>2. QED BY <1>0, <1>10, <2>1, TypeHolding
<1>11. CASE WritePatch(c)
  <2>1. CASE Return(c, "refused") /\ tree' = tree
    BY <2>1, <1>1, <1>3 DEF TypeOK
  <2>2. CASE Holding(j.target, tree[j.target].files \cup j.patch)
    <3>1. tree' \in [Place -> Tree]
      BY <2>2, <1>10
    <3>2. CASE Return(c, "landed")
      BY <3>1, <3>2, <1>1, <1>3
    <3>3. CASE /\ job' = [job EXCEPT ![c].at = "verify"]
               /\ UNCHANGED <<there, branch, row, landed, gate>>
      <4>1. job' \in [Client -> Job]
        BY <3>3 DEF TypeOK, Job, Stage, Within
      <4>2. QED BY <1>0, <3>1, <3>3, <4>1 DEF TypeOK
    <3>4. QED BY <1>11, <2>2, <3>2, <3>3, <2>1 DEF WritePatch
  <2>3. QED BY <1>11, <2>1, <2>2 DEF WritePatch
<1>12. CASE WriteCutOff(c)
  <2>1. PICK part \in SUBSET j.patch : Holding(j.target, tree[j.target].files \cup part)
    BY <1>12 DEF WriteCutOff
  <2>2. tree' \in [Place -> Tree] /\ Return(c, "cut")
    BY <2>1, <1>10, <1>12 DEF WriteCutOff
  <2>3. QED BY <2>2, <1>1, <1>3
<1>13. CASE RunVerify(c)
  <2>1. CASE Return(c, "landed") /\ tree' = tree
    BY <2>1, <1>1, <1>3 DEF TypeOK
  <2>2. CASE Proceed(c, "reverse")
    BY <2>2, <1>2 DEF Stage, Within
  <2>3. QED BY <1>13, <2>1, <2>2 DEF RunVerify
<1>14. CASE Reverse(c)
  <2>1. CASE Holding(j.target, tree[j.target].files \ j.patch) /\ Return(c, "refused")
    BY <2>1, <1>1, <1>3, <1>10
  <2>2. CASE /\ \E part \in SUBSET j.patch : Holding(j.target, tree[j.target].files \ part)
             /\ Return(c, "mixed")
    BY <2>2, <1>1, <1>3, <1>10
  <2>3. QED BY <1>14, <2>1, <2>2 DEF Reverse
<1>15. CASE CheckOwner(c)
  BY <1>15, <1>2 DEF CheckOwner, Stage
<1>16. CASE RecordLanding(c)
  <2>1. job' \in [Client -> Job]
    BY <1>16 DEF RecordLanding, TypeOK, Job, Stage
  <2>2. landed' \subseteq Session
    BY <1>0, <1>16 DEF RecordLanding, TypeOK, Flow, Later
  <2>3. QED BY <1>0, <1>16, <2>1, <2>2 DEF RecordLanding, TypeOK
<1>17. CASE CheckStopped(c)
  BY <1>17, <1>2 DEF CheckStopped, Stage
<1>18. CASE ReleaseWorktree(c)
  <2> DEFINE s == j.session
  <2>0. [j EXCEPT !.at = "branch"] \in Job
    BY <1>0 DEF Job, Stage
  <2>1. job' \in [Client -> Job]
    BY <1>18, <2>0 DEF ReleaseWorktree, TypeOK
  <2>2. there' \in [Session -> BOOLEAN]
    BY <1>18 DEF ReleaseWorktree, TypeOK
  <2>3. s \in Place
    BY <1>18 DEF ReleaseWorktree, Flow, Later, Place
  <2>4. [tree[s] EXCEPT !.files = tree[s].head, !.new = {}] \in Tree
    BY <2>3 DEF TypeOK, Tree
  <2>5. CASE tree' = [tree EXCEPT ![s].files = tree[s].head, ![s].new = {}]
    <3>1. tree' = [tree EXCEPT ![s] = [tree[s] EXCEPT !.files = tree[s].head, !.new = {}]]
      BY <2>5, <2>3 DEF TypeOK
    <3>2. tree' \in [Place -> Tree]
      BY <2>4, <3>1, <2>3 DEF TypeOK
    <3>3. QED BY <1>0, <1>18, <2>1, <2>2, <3>2 DEF ReleaseWorktree, TypeOK
  <2>6. CASE tree' = tree
    BY <1>0, <1>18, <2>1, <2>2, <2>6 DEF ReleaseWorktree, TypeOK
  <2>7. QED BY <1>18, <2>5, <2>6 DEF ReleaseWorktree
<1>21. CASE DeleteBranch(c)
  <2>1. job' \in [Client -> Job]
    BY <1>21 DEF DeleteBranch, TypeOK, Job, Stage
  <2>2. branch' \in [Session -> BOOLEAN]
    BY <1>21 DEF DeleteBranch, TypeOK
  <2>3. QED BY <1>0, <1>21, <2>1, <2>2 DEF DeleteBranch, TypeOK
<1>19. CASE RemoveRow(c)
  <2>1. job' \in [Client -> Job]
    BY <1>19 DEF RemoveRow, TypeOK, Job, Stage
  <2>2. row' \in [Session -> {"live", "ended", "gone"}]
    BY <1>19 DEF RemoveRow, TypeOK
  <2>3. QED BY <1>0, <1>19, <2>1, <2>2 DEF RemoveRow, TypeOK
<1>20. QED BY <1>4, <1>5, <1>6, <1>7, <1>8, <1>9, <1>11, <1>12, <1>13, <1>14, <1>15,
             <1>16, <1>17, <1>18, <1>19, <1>21 DEF Serve, Thread

LEMMA TypeAsk == ASSUME TypeOK, NEW c \in Client, Ask(c) PROVE TypeOK'
<1> DEFINE j == job[c]
<1>0. j \in Job /\ others' = others
  BY DEF TypeOK, Ask
<1>1. CASE AskLanding(c)
  <2>1. PICK s \in Place, t \in Place, pin \in {None} \cup {tree[p].head : p \in Place} :
          job' = [job EXCEPT ![c] = Request(s, t, pin)]
    BY <1>1 DEF AskLanding
  <2>2. pin \in (SUBSET Change) \cup {None}
    BY DEF TypeOK, Tree
  <2>3. Request(s, t, pin) \in Job
    BY <2>2 DEF Request, Idle, Job, Stage, Place, Outcome
  <2>4. job' \in [Client -> Job]
    BY <2>1, <2>3 DEF TypeOK
  <2>5. QED BY <1>0, <1>1, <2>4 DEF AskLanding, TypeOK
<1>2. CASE AskArchive(c)
  <2>1. PICK s \in Session : job' = [job EXCEPT ![c].at = "archive", ![c].session = s]
    BY <1>2 DEF AskArchive
  <2>3. [j EXCEPT !.at = "archive", !.session = s] \in Job
    BY <1>0 DEF Job, Stage
  <2>4. job' \in [Client -> Job]
    BY <2>1, <2>3 DEF TypeOK
  <2>2. QED BY <1>0, <1>2, <2>4 DEF AskArchive, TypeOK
<1>3. QED BY <1>1, <1>2 DEF Ask

(* What the trees become under everyone else. *)
LEMMA Edited ==
    ASSUME TypeOK, NEW p \in Place, Edit(p) \/ Commit(p) \/ Push(p)
    PROVE  \E t \in Tree : /\ Others(p, t)
                          /\ tree[p].head \subseteq t.head
                          /\ tree[p].files \subseteq t.files
                          /\ Writer(p)
<1>0. tree[p] \in Tree
  BY DEF TypeOK
<1>1. CASE Edit(p)
  <2>1. PICK x \in Change :
          \/ Others(p, [tree[p] EXCEPT !.files = @ \cup {x}])
          \/ Others(p, [tree[p] EXCEPT !.new = @ \cup {x}])
    BY <1>1 DEF Edit
  <2>2. [tree[p] EXCEPT !.files = @ \cup {x}] \in Tree
    BY <1>0 DEF Tree
  <2>3. [tree[p] EXCEPT !.new = @ \cup {x}] \in Tree
    BY <1>0 DEF Tree
  <2>4. Writer(p)
    BY <1>1 DEF Edit
  <2>5. QED BY <1>0, <2>1, <2>2, <2>3, <2>4 DEF Tree
<1>2. CASE Commit(p)
  <2> DEFINE all == tree[p].files \cup tree[p].new
             t == [tree[p] EXCEPT !.head = all, !.files = all, !.new = {}]
  <2>1. t \in Tree /\ t.head = all /\ t.files = all
    BY <1>0 DEF Tree
  <2>2. Others(p, t) /\ Writer(p) /\ tree[p].head \subseteq all /\ tree[p].files \subseteq all
    BY <1>2 DEF Commit
  <2>3. QED BY <2>1, <2>2
<1>3. CASE Push(p)
  <2> DEFINE t == [tree[p] EXCEPT !.pushed = @ \cup tree[p].head]
  <2>1. t \in Tree /\ t.head = tree[p].head /\ t.files = tree[p].files
    BY <1>0 DEF Tree
  <2>2. Others(p, t) /\ Writer(p)
    BY <1>3 DEF Push
  <2>3. QED BY <2>1, <2>2
<1>4. QED BY <1>1, <1>2, <1>3

LEMMA MergeGrows ==
    ASSUME TypeOK, NEW s \in Session, Merge(s)
    PROVE  \E t \in Tree : /\ Others(Main, t)
                          /\ tree[Main].head \subseteq t.head
                          /\ tree[Main].files \subseteq t.files
<1> DEFINE fresh == tree[s].head \ tree[Main].head
           t == [tree[Main] EXCEPT !.head = @ \cup fresh, !.files = @ \cup fresh]
<1>1. tree[Main] \in Tree /\ tree[s] \in Tree
  BY DEF TypeOK, Place
<1>2. fresh \subseteq Change
  BY <1>1 DEF Tree
<1>3. t \in Tree /\ tree[Main].head \subseteq t.head /\ tree[Main].files \subseteq t.files
  BY <1>1, <1>2 DEF Tree
<1>4. Others(Main, t)
  BY DEF Merge
<1>5. QED BY <1>3, <1>4

(* Everyone else either adds to one tree or moves one row between live and  *)
(* ended.                                                                   *)
Grows(p, t) ==
    /\ Others(p, t) /\ Writer(p)
    /\ tree[p].head \subseteq t.head
    /\ tree[p].files \subseteq t.files

Moves(s) ==
    /\ UNCHANGED <<tree, there, branch, landed, job, gate>>
    /\ \/ row[s] = "live" /\ row' = [row EXCEPT ![s] = "ended"]
       \/ row[s] = "ended" /\ row' = [row EXCEPT ![s] = "live"]

LEMMA WorldStep ==
    ASSUME TypeOK, World
    PROVE  \/ \E p \in Place : \E t \in Tree : Grows(p, t)
           \/ \E s \in Session : Moves(s)
<1>1. CASE \E p \in Place : Edit(p) \/ Commit(p) \/ Push(p)
  BY <1>1, Edited DEF Grows
<1>2. CASE \E s \in Session : Merge(s)
  <2>1. \E t \in Tree : Grows(Main, t)
    BY <1>2, MergeGrows DEF Grows, Writer
  <2>2. QED BY <2>1 DEF Place
<1>3. ASSUME NEW s \in Session, Exit(s) \/ Revive(s) PROVE Moves(s)
  BY <1>3 DEF Exit, Revive, Moves
<1>4. CASE \E s \in Session : Exit(s) \/ Revive(s)
  BY <1>4, <1>3
<1>5. \/ \E p \in Place : Edit(p) \/ Commit(p) \/ Push(p)
      \/ \E s \in Session : Merge(s)
      \/ \E s \in Session : Exit(s) \/ Revive(s)
  BY DEF World, Place
<1>6. QED BY <1>1, <1>2, <1>4, <1>5

LEMMA TypeNext ==
    ASSUME TypeOK, \A c \in Client : Flow(c), [Next]_vars
    PROVE  TypeOK'
<1>1. ASSUME NEW c \in Client, Ask(c) PROVE TypeOK'
  BY <1>1, TypeAsk
<1>2. ASSUME NEW c \in Client, Serve(c) PROVE TypeOK'
  BY <1>2, TypeServe
<1>3. CASE World
  <2>1. others' \in 0..MaxOthers
    BY <1>3, MaxOthersIsNat DEF World, TypeOK
  <2>2. ASSUME NEW p \in Place, NEW t \in Tree, Grows(p, t) PROVE TypeOK'
    BY <2>1, <2>2, TypeOthers DEF TypeOK, Grows
  <2>3. ASSUME NEW s \in Session, Moves(s) PROVE TypeOK'
    BY <2>1, <2>3 DEF TypeOK, Moves
  <2>4. QED BY <1>3, <2>2, <2>3, WorldStep
<1>4. CASE UNCHANGED vars
  BY <1>4 DEF vars, TypeOK
<1>5. QED BY <1>1, <1>2, <1>3, <1>4 DEF Next

-----------------------------------------------------------------------------
(* The course of a request *)

(* A step of c leaves the other requests where they are, except that at     *)
(* most c comes to hold the gate or gives it up.                            *)
LEMMA FlowOther ==
    ASSUME TypeOK, NEW c \in Client, NEW d \in Client \ {c}, Flow(c), Flow(d),
           job'[d] = job[d], gate' \in {gate, c} \/ (gate = c /\ gate' = None),
           gate' = c => gate \in {None, c}
    PROVE  Flow(d)'
<1>1. (gate' = d) <=> (gate = d)
  BY NamesAreDistinct
<1>2. QED BY <1>1 DEF Flow

LEMMA FlowServe ==
    ASSUME TypeOK, \A d \in Client : Flow(d), NEW c \in Client, Serve(c)
    PROVE  \A d \in Client : Flow(d)'
<1> DEFINE j == job[c]
<1>0. j \in Job /\ Flow(c) /\ c # None
  BY NamesAreDistinct DEF TypeOK
<1>1. ASSUME NEW out \in Outcome, Return(c, out), j.at \in Within
      PROVE  \A d \in Client : Flow(d)'
  <2>1. gate = c
    BY <1>0, <1>1 DEF Flow
  <2>2. Flow(c)'
    <3>1. /\ job'[c].out = out /\ job'[c].at \in {"owner", "done"} /\ gate' = None
          /\ job'[c].at = "owner" => out = "landed" /\ job'[c].session \in Session
      BY <1>1, ReturnEffect
    <3>2. QED BY <1>0, <3>1 DEF Flow, Later, Within
  <2>3. gate' = None /\ \A d \in Client \ {c} : job'[d] = job[d]
    BY <1>1, ReturnEffect
  <2>5. ASSUME NEW d \in Client \ {c} PROVE Flow(d)'
    BY <1>0, <2>1, <2>3, FlowOther
  <2>4. QED BY <2>2, <2>5
<1>2. ASSUME job' \in [Client -> Job], \A d \in Client \ {c} : job'[d] = job[d],
             gate' = gate, Flow(c)'
      PROVE  \A d \in Client : Flow(d)'
  BY <1>0, <1>2, FlowOther
<1>3. ASSUME NEW at \in Within, j.at \in Within, gate' = gate,
             \A d \in Client \ {c} : job'[d] = job[d],
             job' \in [Client -> Job], job'[c].at = at, job'[c].source = j.source,
             job'[c].target = j.target, job'[c].out = j.out, job'[c].session = j.session
      PROVE  \A d \in Client : Flow(d)'
  <2>1. Flow(c)'
    BY <1>0, <1>3 DEF Flow, Later, Within
  <2>2. QED BY <1>2, <1>3, <2>1
<1>4. ASSUME NEW at \in Within, j.at \in Within, Proceed(c, at)
      PROVE  \A d \in Client : Flow(d)'
  <2>1. /\ \A d \in Client \ {c} : job'[d] = job[d]
        /\ job'[c] = [j EXCEPT !.at = at]
        /\ gate' = gate
    BY <1>4 DEF Proceed, TypeOK
  <2>2. job' \in [Client -> Job]
    BY <1>0, <1>4 DEF Proceed, TypeOK, Job, Stage
  <2>3. QED BY <1>0, <1>3, <1>4, <2>1, <2>2 DEF Job
<1>5. {"landed", "dirty", "mixed", "cut", "refused"} \subseteq Outcome
  BY DEF Outcome
<1>6. CASE Enter(c)
  <2>1. /\ \A d \in Client \ {c} : job'[d] = job[d]
        /\ job'[c] = [j EXCEPT !.at = "head"]
        /\ gate = None /\ gate' = c /\ j.at = "waiting"
    BY <1>6 DEF Enter, TypeOK
  <2>2. Flow(c)'
    BY <1>0, <2>1 DEF Flow, Later, Within, Job
  <2>3. QED BY <1>0, <2>1, <2>2, FlowOther
<1>7. CASE Unavailable(c)
  BY <1>7, <1>1, <1>5 DEF Unavailable, Within
<1>8. CASE ReadHead(c)
  <2>1. CASE job' = [job EXCEPT ![c].at = "dirty", ![c].found = tree[j.target].files]
    <3>1. TypeOK' /\ j.at = "head"
      BY <1>0, <1>8, TypeServe DEF ReadHead
    <3>2. /\ \A d \in Client \ {c} : job'[d] = job[d]
          /\ job'[c] = [j EXCEPT !.at = "dirty", !.found = tree[j.target].files]
      BY <2>1 DEF TypeOK
    <3>3. gate' = gate
      BY <1>0, <1>8, <3>1, <3>2, ReturnEffect, <1>5 DEF ReadHead, Job
    <3>4. QED BY <1>0, <1>3, <3>1, <3>2, <3>3 DEF TypeOK, Within, Job
  <2>2. QED BY <1>8, <1>1, <1>5, <2>1 DEF ReadHead, Within
<1>9. CASE CheckDirty(c)
  BY <1>9, <1>1, <1>4, <1>5 DEF CheckDirty, Within
<1>10. CASE ReadPatch(c)
  <2>1. CASE job' = [job EXCEPT ![c].at = "check", ![c].patch = SourcePatch(j.source)]
    <3>1. TypeOK' /\ j.at = "patch"
      BY <1>0, <1>10, TypeServe DEF ReadPatch
    <3>2. /\ \A d \in Client \ {c} : job'[d] = job[d]
          /\ job'[c] = [j EXCEPT !.at = "check", !.patch = SourcePatch(j.source)]
      BY <2>1 DEF TypeOK
    <3>3. gate' = gate
      BY <1>0, <1>10, <3>1, <3>2, ReturnEffect, <1>5 DEF ReadPatch, Job
    <3>4. QED BY <1>0, <1>3, <3>1, <3>2, <3>3 DEF TypeOK, Within, Job
  <2>2. QED BY <1>10, <1>1, <1>5, <2>1 DEF ReadPatch, Within
<1>11. CASE CheckPatch(c)
  BY <1>11, <1>1, <1>4, <1>5 DEF CheckPatch, Within
<1>12. CASE WritePatch(c)
  <2>1. CASE job' = [job EXCEPT ![c].at = "verify"] /\ gate' = gate
    <3>1. /\ \A d \in Client \ {c} : job'[d] = job[d]
          /\ job'[c] = [j EXCEPT !.at = "verify"]
          /\ job' \in [Client -> Job]
      BY <1>0, <2>1 DEF TypeOK, Job, Stage, Within
    <3>2. j.at = "write"
      BY <1>12 DEF WritePatch
    <3>3. QED BY <1>0, <1>3, <2>1, <3>1, <3>2 DEF Within, Job
  <2>2. QED BY <1>12, <1>1, <1>5, <2>1 DEF WritePatch, Within
<1>13. CASE WriteCutOff(c)
  BY <1>13, <1>1, <1>5 DEF WriteCutOff, Within
<1>14. CASE RunVerify(c)
  BY <1>14, <1>1, <1>4, <1>5 DEF RunVerify, Within
<1>15. CASE Reverse(c)
  BY <1>15, <1>1, <1>5 DEF Reverse, Within
<1>16. ASSUME NEW at \in Stage \ Within, j.at \in Later \ {"owner"}, gate' = gate,
              job' = [job EXCEPT ![c].at = at],
              at \in Later => at \in {"archive", "release", "branch", "remove"},
              at # "idle", at # "waiting"
       PROVE  \A d \in Client : Flow(d)'
  <2>1. /\ \A d \in Client \ {c} : job'[d] = job[d]
        /\ job' \in [Client -> Job]
        /\ job'[c] = [j EXCEPT !.at = at]
    BY <1>0, <1>16 DEF TypeOK, Job
  <2>2. Flow(c)'
    BY <1>0, <1>16, <2>1 DEF Flow, Later, Within, Job
  <2>3. QED BY <1>2, <1>16, <2>1, <2>2
<1>17. CASE CheckOwner(c)
  <2> DEFINE at == IF row[j.session] # "gone" /\ j.source = j.session /\ there[j.session]
                   THEN "record" ELSE "done"
  <2>1. /\ \A d \in Client \ {c} : job'[d] = job[d]
        /\ job'[c] = [j EXCEPT !.at = at]
        /\ job' \in [Client -> Job] /\ gate' = gate
    BY <1>0, <1>17 DEF CheckOwner, Proceed, TypeOK, Job, Stage
  <2>2. Flow(c)'
    BY <1>0, <1>17, <2>1 DEF CheckOwner, Flow, Later, Within, Job
  <2>3. QED BY <1>2, <2>1, <2>2
<1>18. CASE RecordLanding(c)
  BY <1>16, <1>18 DEF RecordLanding, Later, Stage, Within
<1>19. CASE CheckStopped(c)
  BY <1>16, <1>19 DEF CheckStopped, Proceed, Later, Stage, Within
<1>20. CASE ReleaseWorktree(c)
  BY <1>16, <1>20 DEF ReleaseWorktree, Later, Stage, Within
<1>21. CASE RemoveRow(c)
  BY <1>16, <1>21 DEF RemoveRow, Later, Stage, Within
<1>23. CASE DeleteBranch(c)
  BY <1>16, <1>23 DEF DeleteBranch, Later, Stage, Within
<1>22. QED BY <1>6, <1>7, <1>8, <1>9, <1>10, <1>11, <1>12, <1>13, <1>14, <1>15, <1>17,
             <1>18, <1>19, <1>20, <1>21, <1>23 DEF Serve, Thread

LEMMA FlowAsk ==
    ASSUME TypeOK, \A d \in Client : Flow(d), NEW c \in Client, Ask(c)
    PROVE  \A d \in Client : Flow(d)'
<1> DEFINE j == job[c]
<1>0. j \in Job /\ Flow(c) /\ c # None /\ gate' = gate /\ j.at = "idle"
  BY NamesAreDistinct DEF TypeOK, Ask, AskLanding, AskArchive
<1>1. CASE AskLanding(c)
  <2>1. PICK s \in Place, t \in Place, pin \in {None} \cup {tree[p].head : p \in Place} :
          job' = [job EXCEPT ![c] = Request(s, t, pin)]
    BY <1>1 DEF AskLanding
  <2>2. /\ \A d \in Client \ {c} : job'[d] = job[d]
        /\ job'[c] = Request(s, t, pin)
    BY <2>1 DEF TypeOK
  <2>3. Flow(c)'
    BY <1>0, <2>2 DEF Flow, Later, Within, Request, Idle
  <2>4. QED BY <1>0, <2>2, <2>3, FlowOther
<1>2. CASE AskArchive(c)
  <2>1. PICK s \in Session : job' = [job EXCEPT ![c].at = "archive", ![c].session = s]
    BY <1>2 DEF AskArchive
  <2>2. /\ \A d \in Client \ {c} : job'[d] = job[d]
        /\ job'[c] = [j EXCEPT !.at = "archive", !.session = s]
    BY <2>1 DEF TypeOK
  <2>3. Flow(c)'
    BY <1>0, <2>2 DEF Flow, Later, Within, Job
  <2>4. QED BY <1>0, <2>2, <2>3, FlowOther
<1>3. QED BY <1>1, <1>2 DEF Ask

(* Whoever edits a tree, a request only follows with what it found.         *)
LEMMA OthersJobs ==
    ASSUME TypeOK, NEW p \in Place, NEW t \in Tree, Others(p, t), NEW c \in Client
    PROVE  /\ \/ /\ job[c].target = p /\ job[c].at \in Within \ {"head"}
                 /\ job'[c] = [job[c] EXCEPT !.found = @ \cup (t.files \ tree[p].files)]
              \/ /\ job[c].target # p \/ job[c].at \notin Within \ {"head"}
                 /\ job'[c] = job[c]
           /\ job'[c].at = job[c].at /\ job'[c].session = job[c].session
           /\ job'[c].source = job[c].source /\ job'[c].target = job[c].target
           /\ job'[c].patch = job[c].patch /\ job'[c].out = job[c].out
BY DEF Others, TypeOK, Job

LEMMA FlowWorld ==
    ASSUME TypeOK, \A d \in Client : Flow(d), World
    PROVE  \A d \in Client : Flow(d)'
<1>1. ASSUME NEW p \in Place, NEW t \in Tree, Grows(p, t), NEW d \in Client PROVE Flow(d)'
  <2>1. Others(p, t) /\ gate' = gate
    BY <1>1 DEF Grows, Others
  <2>2. Flow(d)
    OBVIOUS
  <2>3. QED BY <2>1, <2>2, OthersJobs DEF Flow
<1>2. ASSUME NEW s \in Session, Moves(s), NEW d \in Client PROVE Flow(d)'
  BY <1>2 DEF Moves, Flow
<1>3. QED BY <1>1, <1>2, WorldStep

IFlow == TypeOK /\ \A c \in Client : Flow(c)

LEMMA FlowInit == Init => IFlow
BY TypeInit, NamesAreDistinct DEF Init, IFlow, Flow, Idle, Within, Later

LEMMA FlowNext == ASSUME IFlow, [Next]_vars PROVE IFlow'
<1>1. TypeOK'
  BY TypeNext DEF IFlow
<1>2. ASSUME NEW c \in Client, Ask(c) PROVE \A d \in Client : Flow(d)'
  BY <1>2, FlowAsk DEF IFlow
<1>3. ASSUME NEW c \in Client, Serve(c) PROVE \A d \in Client : Flow(d)'
  BY <1>3, FlowServe DEF IFlow
<1>4. CASE World
  BY <1>1, <1>4, FlowWorld DEF IFlow
<1>5. CASE UNCHANGED vars
  BY <1>1, <1>5 DEF vars, IFlow, Flow
<1>6. QED BY <1>1, <1>2, <1>3, <1>4, <1>5 DEF Next, IFlow

(* The variables keep the types of TypeOK: a request's stages, what git     *)
(* sees of a tree, the registry's rows (land.rs, registry/mod.rs).          *)
THEOREM TypeHolds == Spec => []TypeOK
<1>1. Init => IFlow BY FlowInit
<1>2. IFlow /\ [Next]_vars => IFlow' BY FlowNext
<1>3. IFlow => TypeOK BY DEF IFlow
<1>4. QED BY <1>1, <1>2, <1>3, PTL DEF Spec

-----------------------------------------------------------------------------
(* Rows *)

(* Each thread works on its own request.                                    *)
LEMMA OneJob ==
    ASSUME TypeOK, NEW c \in Client, Ask(c) \/ Serve(c)
    PROVE  \A d \in Client \ {c} : job'[d] = job[d]
<1>1. ASSUME NEW out \in Outcome, Return(c, out)
      PROVE  \A d \in Client \ {c} : job'[d] = job[d]
  BY <1>1, ReturnEffect
<1>2. {"landed", "dirty", "mixed", "cut", "refused"} \subseteq Outcome
  BY DEF Outcome
<1>3. ASSUME NEW at, Proceed(c, at) PROVE \A d \in Client \ {c} : job'[d] = job[d]
  BY <1>3 DEF Proceed, TypeOK
<1>4. CASE AskLanding(c) \/ AskArchive(c) \/ Enter(c)
  BY <1>4 DEF AskLanding, AskArchive, Enter, TypeOK
<1>5. CASE Unavailable(c) \/ CheckDirty(c) \/ CheckPatch(c) \/ WriteCutOff(c) \/ RunVerify(c)
           \/ Reverse(c)
  BY <1>5, <1>1, <1>2, <1>3
     DEF Unavailable, CheckDirty, CheckPatch, WriteCutOff, RunVerify, Reverse
<1>6. CASE ReadHead(c) \/ ReadPatch(c) \/ WritePatch(c)
  BY <1>6, <1>1, <1>2 DEF ReadHead, ReadPatch, WritePatch, TypeOK
<1>7. CASE CheckOwner(c) \/ CheckStopped(c)
  BY <1>7, <1>3 DEF CheckOwner, CheckStopped
<1>8. CASE RecordLanding(c) \/ ReleaseWorktree(c) \/ DeleteBranch(c) \/ RemoveRow(c)
  BY <1>8 DEF RecordLanding, ReleaseWorktree, DeleteBranch, RemoveRow, TypeOK
<1>9. QED BY <1>4, <1>5, <1>6, <1>7, <1>8 DEF Ask, Serve, Thread

Settled(c) == job[c].at \notin Within \cup {"idle", "waiting"}

(* A request that is past the gate only changes its stage.                  *)
LEMMA SettledStays ==
    ASSUME IFlow, [Next]_vars, NEW d \in Client, Settled(d)
    PROVE  /\ job'[d].out = job[d].out /\ job'[d].session = job[d].session
           /\ job'[d].source = job[d].source
<1>0. TypeOK /\ job[d] \in Job
  BY DEF IFlow, TypeOK
<1>1. ASSUME NEW c \in Client, Ask(c) \/ Serve(c), d # c
      PROVE  job'[d] = job[d]
  BY <1>0, <1>1, OneJob
<1>2. CASE Ask(d)
  BY <1>2 DEF Ask, AskLanding, AskArchive, Settled
<1>3. CASE Serve(d)
  <2>1. CheckOwner(d) \/ RecordLanding(d) \/ CheckStopped(d) \/ ReleaseWorktree(d)
        \/ DeleteBranch(d) \/ RemoveRow(d)
    BY <1>3 DEF Serve, Thread, Settled, Within, Enter, Unavailable, ReadHead, CheckDirty,
                ReadPatch, CheckPatch, WritePatch, WriteCutOff, RunVerify, Reverse
  <2>2. \E at : job' = [job EXCEPT ![d].at = at]
    BY <2>1 DEF CheckOwner, RecordLanding, CheckStopped, ReleaseWorktree, DeleteBranch, RemoveRow,
                Proceed
  <2>3. PICK at : job' = [job EXCEPT ![d].at = at]
    BY <2>2
  <2>4. job'[d] = [job[d] EXCEPT !.at = at]
    BY <1>0, <2>3 DEF TypeOK
  <2>5. QED BY <1>0, <2>4 DEF Job
<1>4. CASE World
  <2>1. ASSUME NEW p \in Place, NEW t \in Tree, Grows(p, t)
        PROVE  job'[d].out = job[d].out /\ job'[d].session = job[d].session
               /\ job'[d].source = job[d].source
    BY <1>0, <2>1, OthersJobs DEF Grows
  <2>2. ASSUME NEW s \in Session, Moves(s) PROVE job' = job
    BY <2>2 DEF Moves
  <2>3. QED BY <1>0, <1>4, <2>1, <2>2, WorldStep
<1>5. CASE UNCHANGED vars
  BY <1>5 DEF vars
<1>6. QED BY <1>1, <1>2, <1>3, <1>4, <1>5 DEF Next

LandedItself(s) ==
    \E c \in Client : job[c].out = "landed" /\ job[c].session = s /\ job[c].source = s

Archived(s) == \E c \in Client : job[c].out = "none" /\ job[c].session = s

LEMMA ReasonsStay ==
    ASSUME IFlow, [Next]_vars, NEW s \in Session
    PROVE  (LandedItself(s) => LandedItself(s)') /\ (Archived(s) => Archived(s)')
<1>1. ASSUME NEW c \in Client, job[c].session = s PROVE Settled(c)
  BY <1>1, NamesAreDistinct DEF IFlow, Flow, Settled
<1>2. QED BY <1>1, SettledStays DEF LandedItself, Archived

(* Only these two steps change the rows' landings, or take a row away.      *)
LEMMA RowSteps ==
    ASSUME IFlow, [Next]_vars, NEW s \in Session
    PROVE  /\ s \in landed' => \/ s \in landed
                              \/ \E c \in Client : job[c].session = s /\ job[c].at = "record"
           /\ row'[s] = "gone" =>
                \/ row[s] = "gone"
                \/ \E c \in Client : job[c].session = s /\ job[c].at = "remove"
<1>0. TypeOK
  BY DEF IFlow
<1>1. ASSUME UNCHANGED <<row, landed>>
      PROVE  (s \in landed' => s \in landed) /\ (row'[s] = "gone" => row[s] = "gone")
  BY <1>1
<1>2. ASSUME NEW c \in Client, Ask(c) PROVE UNCHANGED <<row, landed>>
  BY <1>2 DEF Ask, AskLanding, AskArchive
<1>3. ASSUME NEW c \in Client, Serve(c), ~RecordLanding(c), ~RemoveRow(c)
      PROVE  UNCHANGED <<row, landed>>
  <2>1. ASSUME NEW out, Return(c, out) PROVE UNCHANGED <<row, landed>>
    BY <2>1 DEF Return
  <2>2. ASSUME NEW at, Proceed(c, at) PROVE UNCHANGED <<row, landed>>
    BY <2>2 DEF Proceed
  <2>3. QED
    BY <1>3, <2>1, <2>2 DEF Serve, Thread, Enter, Unavailable, ReadHead, CheckDirty, ReadPatch,
       CheckPatch, WritePatch, WriteCutOff, RunVerify, Reverse, CheckOwner, CheckStopped,
       ReleaseWorktree, DeleteBranch
<1>4. ASSUME NEW c \in Client, RecordLanding(c)
      PROVE  /\ row' = row
             /\ s \in landed' => s \in landed \/ (job[c].session = s /\ job[c].at = "record")
  BY <1>4 DEF RecordLanding
<1>5. ASSUME NEW c \in Client, RemoveRow(c)
      PROVE  /\ landed' = landed
             /\ row'[s] = "gone" => row[s] = "gone" \/ (job[c].session = s /\ job[c].at = "remove")
  BY <1>0, <1>5 DEF RemoveRow, TypeOK
<1>6. CASE World
  <2>1. ASSUME NEW p \in Place, NEW t \in Tree, Grows(p, t) PROVE UNCHANGED <<row, landed>>
    BY <2>1 DEF Grows, Others
  <2>2. ASSUME NEW r \in Session, Moves(r)
        PROVE  landed' = landed /\ (row'[s] = "gone" => row[s] = "gone")
    BY <1>0, <2>2 DEF Moves, TypeOK
  <2>3. QED BY <1>0, <1>6, <1>1, <2>1, <2>2, WorldStep
<1>7. CASE UNCHANGED vars
  BY <1>1, <1>7 DEF vars
<1>8. QED BY <1>1, <1>2, <1>3, <1>4, <1>5, <1>6, <1>7 DEF Next

LEMMA RowsNext ==
    ASSUME IFlow, RetiredForItsOwn, [Next]_vars PROVE RetiredForItsOwn'
<1> SUFFICES ASSUME NEW s \in Session
             PROVE  /\ s \in landed' => LandedItself(s)'
                    /\ row'[s] = "gone" => LandedItself(s)' \/ Archived(s)'
  BY DEF RetiredForItsOwn, LandedItself, Archived
<1>1. /\ s \in landed => LandedItself(s)
      /\ row[s] = "gone" => LandedItself(s) \/ Archived(s)
  BY DEF RetiredForItsOwn, LandedItself, Archived
<1>2. ASSUME NEW c \in Client, job[c].session = s, job[c].at = "record" PROVE LandedItself(s)
  BY <1>2 DEF IFlow, Flow, LandedItself
<1>3. ASSUME NEW c \in Client, job[c].session = s, job[c].at = "remove"
      PROVE  LandedItself(s) \/ Archived(s)
  BY <1>3 DEF IFlow, Flow, LandedItself, Archived
<1>4. QED BY <1>1, <1>2, <1>3, RowSteps, ReasonsStay

(* However threads, agents and operator interleave, a row records a landing *)
(* or goes unasked only when its own tree landed (dispatch.rs owns_source,  *)
(* record_landing and archive).                                             *)
THEOREM RowsHold == Spec => []RetiredForItsOwn
<1>1. Init => IFlow /\ RetiredForItsOwn
  BY FlowInit DEF Init, RetiredForItsOwn
<1>2. IFlow /\ RetiredForItsOwn /\ [Next]_vars => (IFlow /\ RetiredForItsOwn)'
  BY FlowNext, RowsNext
<1>3. QED BY <1>1, <1>2, PTL DEF Spec

-----------------------------------------------------------------------------
(* Branches *)

(* The daemon commits nothing.                                              *)
LEMMA NoCommit ==
    ASSUME TypeOK, NEW c \in Client, Ask(c) \/ Serve(c), NEW p \in Place
    PROVE  tree'[p].head = tree[p].head /\ tree'[p].pushed = tree[p].pushed
<1>1. ASSUME NEW q, NEW files, Holding(q, files)
      PROVE  tree'[p].head = tree[p].head /\ tree'[p].pushed = tree[p].pushed
  BY <1>1 DEF Holding, TypeOK, Tree
<1>2. CASE ReleaseWorktree(c)
  BY <1>2 DEF ReleaseWorktree, TypeOK, Tree
<1>3. CASE WritePatch(c) \/ WriteCutOff(c) \/ Reverse(c)
  BY <1>1, <1>3 DEF WritePatch, WriteCutOff, Reverse
<1>4. CASE ~ReleaseWorktree(c) /\ ~WritePatch(c) /\ ~WriteCutOff(c) /\ ~Reverse(c)
  <2>1. tree' = tree
    BY <1>4 DEF Ask, AskLanding, AskArchive, Serve, Thread, Enter, Unavailable, ReadHead,
       CheckDirty, ReadPatch, CheckPatch, RunVerify, CheckOwner, CheckStopped, RecordLanding,
       DeleteBranch, RemoveRow, Proceed
  <2>2. QED BY <2>1
<1>5. QED BY <1>2, <1>3, <1>4

(* Nothing but an archive takes a checkout or a branch away.                *)
LEMMA NoRelease ==
    ASSUME NEW c \in Client, Ask(c) \/ Serve(c), ~ReleaseWorktree(c), ~DeleteBranch(c)
    PROVE  there' = there /\ branch' = branch
<1>1. ASSUME NEW out, Return(c, out) PROVE there' = there /\ branch' = branch
  BY <1>1 DEF Return
<1>2. ASSUME NEW at, Proceed(c, at) PROVE there' = there /\ branch' = branch
  BY <1>2 DEF Proceed
<1>3. QED
  BY <1>1, <1>2 DEF Ask, AskLanding, AskArchive, Serve, Thread, Enter, Unavailable, ReadHead,
     CheckDirty, ReadPatch, CheckPatch, WritePatch, WriteCutOff, RunVerify, Reverse, CheckOwner,
     CheckStopped, RecordLanding, RemoveRow

(* A checkout has its branch, so an agent commits only to a branch that is  *)
(* there.                                                                   *)
ICommits == \A s \in Session : there[s] => branch[s]

LEMMA CommitsNext ==
    ASSUME TypeOK, ICommits, CommitsKept, [Next]_vars
    PROVE  ICommits' /\ CommitsKept'
<1>0. Main \in Place /\ Session \subseteq Place
  BY DEF Place
<1>1. ASSUME NEW c \in Client, Ask(c) \/ Serve(c) PROVE ICommits' /\ CommitsKept'
  <2>0. \A s \in Session : Merged(s)' <=> Merged(s)
    BY <1>0, <1>1, NoCommit DEF Merged
  <2>1. CASE ReleaseWorktree(c)
    <3>1. branch' = branch /\ \A s \in Session : there'[s] => there[s]
      BY <2>1 DEF ReleaseWorktree, TypeOK
    <3>2. QED BY <2>0, <3>1 DEF ICommits, CommitsKept
  <2>2. CASE DeleteBranch(c)
    <3>1. there' = there /\ \A s \in Session :
            branch'[s] = branch[s] \/ (~there[s] /\ Merged(s))
      BY <2>2 DEF DeleteBranch, TypeOK
    <3>2. QED BY <2>0, <3>1 DEF ICommits, CommitsKept
  <2>3. CASE ~ReleaseWorktree(c) /\ ~DeleteBranch(c)
    BY <1>1, <2>0, <2>3, NoRelease DEF ICommits, CommitsKept
  <2>4. QED BY <2>1, <2>2, <2>3
<1>2. ASSUME NEW p \in Place, NEW t \in Tree, Grows(p, t) PROVE ICommits' /\ CommitsKept'
  <2>1. there' = there /\ branch' = branch /\ tree' = [tree EXCEPT ![p] = t]
    BY <1>2 DEF Grows, Others
  <2>2. tree[p].head \subseteq t.head /\ (p # Main => p \in Session /\ there[p])
    BY <1>2, <1>0 DEF Grows, Writer, Place
  <2>3. ASSUME NEW s \in Session, s # p, Merged(s) PROVE Merged(s)'
    <3>1. tree'[s] = tree[s] /\ tree[Main].head \subseteq tree'[Main].head
      BY <1>0, <2>1, <2>2, <2>3 DEF TypeOK
    <3>2. QED BY <2>3, <3>1 DEF Merged
  <2>4. QED BY <1>0, <2>1, <2>2, <2>3, NamesAreDistinct DEF ICommits, CommitsKept
<1>3. ASSUME NEW s \in Session, Moves(s) PROVE ICommits' /\ CommitsKept'
  BY <1>3 DEF Moves, ICommits, CommitsKept, Merged
<1>4. CASE UNCHANGED vars
  BY <1>4 DEF vars, ICommits, CommitsKept, Merged
<1>5. QED BY <1>1, <1>2, <1>3, <1>4, WorldStep DEF Next

(* No commit of a session is lost, however its row is archived and whatever *)
(* agent and operator commit or merge meanwhile (worktree.rs remove).       *)
THEOREM CommitsHold == Spec => []CommitsKept
<1>1. Init => IFlow /\ ICommits /\ CommitsKept
  BY FlowInit DEF Init, ICommits, CommitsKept
<1>2. IFlow /\ ICommits /\ CommitsKept /\ [Next]_vars => (IFlow /\ ICommits /\ CommitsKept)'
  BY FlowNext, CommitsNext DEF IFlow
<1>3. QED BY <1>1, <1>2, PTL DEF Spec

-----------------------------------------------------------------------------
(* Trees *)

Applied(c) == job[c].at \in {"verify", "reverse"} \/ job[c].out = "landed"

(* What a target and a request know of each other, while the target is there. *)
Tracked(c) ==
    LET j == job[c] IN
    Exists(j.target) =>
      /\ Applied(c) => j.patch \subseteq tree[j.target].files
      /\ j.at \in {"dirty", "patch", "check", "write"} => j.found = tree[j.target].files
      /\ j.at \in {"verify", "reverse"} =>
           tree[j.target].files = j.found \cup j.patch /\ j.patch \cap j.found = {}

(* Once a target was found clean, what landed there before is committed.    *)
Apart(c, d) ==
    job[c].target = job[d].target =>
      /\ Applied(c) /\ Applied(d) =>
           /\ job[c].patch \cap job[d].patch = {}
           /\ \/ job[c].patch \subseteq tree[job[c].target].head
              \/ job[d].patch \subseteq tree[job[c].target].head
      /\ job[c].at \in {"patch", "check", "write"} /\ Applied(d) =>
           job[d].patch \subseteq tree[job[c].target].head

ITrees == /\ \A c \in Client : Tracked(c)
          /\ \A c, d \in Client : c # d => Apart(c, d)

(* A request that is at rest is not disturbed by a step that leaves its      *)
(* patch in the target.                                                     *)
LEMMA RestStays ==
    ASSUME IFlow, ITrees, NEW c \in Client, gate = c, NEW d \in Client \ {c},
           job'[d] = job[d], there' = there,
           Applied(d) /\ Exists(job[d].target) =>
             job[d].patch \subseteq tree'[job[d].target].files
    PROVE  Tracked(d)'
<1>1. job[d].at \notin Within
  BY DEF IFlow, Flow
<1>2. QED BY <1>1 DEF ITrees, Tracked, Applied, Within, Exists

(* The steps that leave every tree alone and do not apply a patch.          *)
LEMMA TreesSame ==
    ASSUME IFlow, ITrees, NEW c \in Client, \A d \in Client \ {c} : job'[d] = job[d],
           tree' = tree, there' = there, Tracked(c)',
           Applied(c)' => Applied(c) /\ job'[c].patch = job[c].patch,
           Applied(c)' \/ job'[c].at \in {"patch", "check", "write"} =>
             job'[c].target = job[c].target,
           job'[c].at \in {"patch", "check", "write"} =>
             \A d \in Client \ {c} : Applied(d) /\ job[d].target = job[c].target =>
               job[d].patch \subseteq tree[job[c].target].head
    PROVE  ITrees'
<1>1. ASSUME NEW d \in Client \ {c} PROVE Tracked(d)'
  BY <1>1 DEF ITrees, Tracked, Applied, Exists
<1>2. ASSUME NEW d \in Client \ {c}, NEW e \in Client \ {c}, d # e PROVE Apart(d, e)'
  BY <1>2 DEF ITrees, Apart, Applied
<1>3. ASSUME NEW d \in Client \ {c} PROVE Apart(c, d)' /\ Apart(d, c)'
  <2>1. Apart(c, d) /\ Apart(d, c)
    BY DEF ITrees
  <2>2. (Applied(d)' <=> Applied(d)) /\ job'[d] = job[d]
    BY DEF Applied
  <2>3. QED BY <2>1, <2>2 DEF Apart
<1>4. QED BY <1>1, <1>2, <1>3 DEF ITrees

(* A refusal that leaves the trees alone.                                   *)
LEMMA TreesRefused ==
    ASSUME IFlow, ITrees, NEW c \in Client, NEW out \in Outcome \ {"landed"},
           Return(c, out), tree' = tree
    PROVE  ITrees'
<1>1. /\ \A d \in Client \ {c} : job'[d] = job[d]
      /\ job'[c] = [Idle EXCEPT !.at = "done", !.out = out]
      /\ there' = there
  BY ReturnEffect DEF IFlow
<1>2. job'[c].at = "done" /\ job'[c].out # "landed"
  BY <1>1 DEF Idle
<1>3. Tracked(c)' /\ ~Applied(c)'
  BY <1>2 DEF Tracked, Applied
<1>4. QED BY <1>1, <1>2, <1>3, TreesSame

(* The patch is in the target, and nobody else's lies there uncommitted.    *)
LEMMA TreesWritten ==
    ASSUME IFlow, ITrees, NEW c \in Client, job[c].at = "write",
           Exists(job[c].target), Fits(job[c].target, job[c].patch),
           Holding(job[c].target, tree[job[c].target].files \cup job[c].patch),
           there' = there, \A d \in Client \ {c} : job'[d] = job[d],
           job'[c].patch = job[c].patch, job'[c].target = job[c].target,
           \/ job'[c].at = "verify" /\ job'[c].found = job[c].found
           \/ job'[c].at \in {"owner", "done"}
    PROVE  ITrees'
<1> DEFINE j == job[c]
<1>0. TypeOK /\ j \in Job /\ Flow(c) /\ Tracked(c) /\ j.target \in Place
  BY DEF IFlow, ITrees, TypeOK, Job
<1>1. \A d \in Client \ {c} : job[d].target \in Place /\ Tracked(d) /\ Apart(c, d)
  BY <1>0 DEF ITrees, TypeOK, Job
<1>2. /\ tree'[j.target].files = tree[j.target].files \cup j.patch
      /\ \A p \in Place : /\ tree'[p].head = tree[p].head
                          /\ tree[p].files \subseteq tree'[p].files
  BY <1>0 DEF Holding, TypeOK, Tree
<1>3. j.found = tree[j.target].files /\ j.patch \cap tree[j.target].files = {}
  BY <1>0 DEF Tracked, Fits
<1>4. Tracked(c)'
  BY <1>2, <1>3, <1>0 DEF Tracked, Applied
<1>5. gate = c
  BY <1>0 DEF Flow, Within
<1>6. ASSUME NEW d \in Client \ {c} PROVE Tracked(d)'
  <2>1. Applied(d) /\ Exists(job[d].target) => job[d].patch \subseteq tree'[job[d].target].files
    BY <1>1, <1>2 DEF Tracked
  <2>2. QED BY <1>5, <2>1, RestStays
<1>7. ASSUME NEW d \in Client \ {c}, NEW e \in Client \ {c}, d # e PROVE Apart(d, e)'
  BY <1>1, <1>2, <1>7 DEF ITrees, Apart, Applied
<1>8. ASSUME NEW d \in Client \ {c} PROVE Apart(c, d)' /\ Apart(d, c)'
  <2>1. job[d].at \notin Within
    BY <1>5 DEF IFlow, Flow
  <2>2. (Applied(d)' <=> Applied(d)) /\ job'[d] = job[d]
    BY DEF Applied
  <2>3. Applied(d) /\ job[d].target = j.target =>
          /\ job[d].patch \subseteq tree[j.target].files
          /\ job[d].patch \subseteq tree[j.target].head
    BY <1>1 DEF Tracked, Apart
  <2>4. Applied(d) /\ job[d].target = j.target =>
          /\ job[d].patch \cap j.patch = {}
          /\ job[d].patch \subseteq tree'[j.target].head
    BY <1>0, <1>2, <1>3, <2>3
  <2>5. job'[c].at \notin {"patch", "check", "write"}
    OBVIOUS
  <2>6. QED BY <2>1, <2>2, <2>4, <2>5 DEF Apart, Within
<1>9. QED BY <1>4, <1>6, <1>7, <1>8 DEF ITrees

(* A part of the patch is written or taken back, and c gives up.            *)
LEMMA TreesLeft ==
    ASSUME IFlow, ITrees, NEW c \in Client, NEW p \in Place, NEW files, Holding(p, files),
           gate = c, NEW out \in Outcome \ {"landed"}, Return(c, out),
           \A d \in Client \ {c} : Applied(d) /\ p = job[d].target /\ Exists(p) =>
             job[d].patch \subseteq files
    PROVE  ITrees'
<1>1. /\ \A d \in Client \ {c} : job'[d] = job[d]
      /\ job'[c] = [Idle EXCEPT !.at = "done", !.out = out]
      /\ there' = there
  BY ReturnEffect DEF IFlow
<1>2. job'[c].at = "done" /\ job'[c].out # "landed"
  BY <1>1 DEF Idle
<1>3. Tracked(c)' /\ ~Applied(c)'
  BY <1>2 DEF Tracked, Applied
<1>4. TypeOK /\ \A d \in Client : job[d].target \in Place
  BY DEF IFlow, TypeOK, Job
<1>5. \A q \in Place : /\ tree'[q].head = tree[q].head
                       /\ tree'[q].files = IF p = q THEN files ELSE tree[q].files
  BY <1>4 DEF Holding, TypeOK, Tree
<1>6. ASSUME NEW d \in Client \ {c} PROVE Tracked(d)'
  <2>1. Applied(d) /\ Exists(job[d].target) => job[d].patch \subseteq tree'[job[d].target].files
    BY <1>4, <1>5 DEF ITrees, Tracked
  <2>2. QED BY <1>1, <2>1, RestStays
<1>7. ASSUME NEW d \in Client \ {c}, NEW e \in Client \ {c}, d # e PROVE Apart(d, e)'
  BY <1>1, <1>4, <1>5, <1>7 DEF ITrees, Apart, Applied
<1>8. ASSUME NEW d \in Client \ {c} PROVE Apart(c, d)' /\ Apart(d, c)'
  BY <1>2, <1>3 DEF Apart
<1>9. QED BY <1>3, <1>6, <1>7, <1>8 DEF ITrees

(* A stage past the gate, or before it, that leaves the trees alone.        *)
LEMMA TreesStage ==
    ASSUME IFlow, ITrees, NEW c \in Client, NEW at \in Stage \ Within,
           job' = [job EXCEPT ![c].at = at], job[c].at \notin Within,
           tree' = tree, there' = there
    PROVE  ITrees'
<1>1. /\ \A d \in Client \ {c} : job'[d] = job[d]
      /\ job'[c] = [job[c] EXCEPT !.at = at]
      /\ job[c] \in Job
  BY DEF IFlow, TypeOK
<1>2. /\ job'[c].at = at /\ job'[c].out = job[c].out /\ job'[c].patch = job[c].patch
      /\ job'[c].target = job[c].target
  BY <1>1 DEF Job
<1>3. Tracked(c)' /\ (Applied(c)' => Applied(c))
  BY <1>2 DEF Tracked, Applied, ITrees, Within, Exists
<1>4. QED BY <1>1, <1>2, <1>3, TreesSame DEF Within

LEMMA TreesAsk == ASSUME IFlow, ITrees, NEW c \in Client, Ask(c) PROVE ITrees'
<1>0. TypeOK /\ job[c].at = "idle" /\ tree' = tree /\ there' = there /\ job[c].out = "none"
  BY DEF IFlow, Flow, Ask, AskLanding, AskArchive
<1>1. \A d \in Client \ {c} : job'[d] = job[d]
  BY <1>0, OneJob
<1>2. job'[c].at \in {"waiting", "archive"} /\ job'[c].out = "none"
  <2>2. CASE AskLanding(c)
    <3>1. ASSUME NEW s, NEW t, NEW pin, job' = [job EXCEPT ![c] = Request(s, t, pin)]
          PROVE  job'[c].at = "waiting" /\ job'[c].out = "none"
      BY <1>0, <3>1 DEF TypeOK, Request, Idle
    <3>2. QED BY <2>2, <3>1 DEF AskLanding
  <2>3. CASE AskArchive(c)
    <3>1. PICK s \in Session : job' = [job EXCEPT ![c].at = "archive", ![c].session = s]
      BY <2>3 DEF AskArchive
    <3>2. job'[c] = [job[c] EXCEPT !.at = "archive", !.session = s]
      BY <1>0, <3>1 DEF TypeOK
    <3>3. QED BY <1>0, <3>2 DEF TypeOK, Job
  <2>4. QED BY <2>2, <2>3 DEF Ask
<1>3. Tracked(c)' /\ ~Applied(c)'
  BY <1>2 DEF Tracked, Applied
<1>4. QED BY <1>0, <1>1, <1>2, <1>3, TreesSame

(* The steps under the gate.                                                *)
LEMMA TreesGate ==
    ASSUME IFlow, ITrees, NEW c \in Client,
           Enter(c) \/ Unavailable(c) \/ ReadHead(c) \/ CheckDirty(c) \/ ReadPatch(c)
           \/ CheckPatch(c) \/ WritePatch(c) \/ WriteCutOff(c) \/ RunVerify(c) \/ Reverse(c),
           \A d \in Client \ {c} : job'[d] = job[d]
    PROVE  ITrees'
<1> DEFINE j == job[c]
<1>0. TypeOK /\ j \in Job /\ Flow(c) /\ Tracked(c) /\ Main \in Place /\ j.target \in Place
  BY DEF IFlow, ITrees, TypeOK, Place, Job
<1>1. {"dirty", "mixed", "cut", "refused"} \subseteq Outcome \ {"landed"}
  BY DEF Outcome
<1>2. ASSUME NEW out \in {"dirty", "refused"}, Return(c, out), tree' = tree PROVE ITrees'
  BY <1>1, <1>2, TreesRefused
<1>3. CASE Enter(c)
  <2>1. job'[c] = [j EXCEPT !.at = "head"] /\ j.at = "waiting" /\ j.out = "none"
    BY <1>0, <1>3 DEF Enter, TypeOK, Flow
  <2>2. job'[c].at = "head" /\ job'[c].out = "none"
    BY <1>0, <2>1 DEF Job
  <2>3. Tracked(c)' /\ ~Applied(c)'
    BY <2>2 DEF Tracked, Applied
  <2>4. QED BY <1>3, <2>2, <2>3, TreesSame DEF Enter
<1>4. CASE Unavailable(c)
  BY <1>2, <1>4 DEF Unavailable
<1>5. CASE ReadHead(c)
  <2>1. CASE /\ job' = [job EXCEPT ![c].at = "dirty", ![c].found = tree[j.target].files]
             /\ UNCHANGED <<tree, there, branch, row, landed, gate>>
    <3>1. /\ job'[c] = [j EXCEPT !.at = "dirty", !.found = tree[j.target].files]
          /\ j.at = "head" /\ j.out = "none"
      BY <1>0, <1>5, <2>1 DEF ReadHead, TypeOK, Flow, Within
    <3>2. /\ job'[c].at = "dirty" /\ job'[c].out = "none" /\ job'[c].target = j.target
          /\ job'[c].found = tree[j.target].files
      BY <1>0, <3>1 DEF Job
    <3>3. Tracked(c)' /\ ~Applied(c)'
      BY <2>1, <3>2 DEF Tracked, Applied
    <3>4. QED BY <2>1, <3>2, <3>3, TreesSame
  <2>2. QED BY <1>2, <1>5, <2>1 DEF ReadHead
<1>6. ASSUME NEW at \in {"patch", "write"}, Proceed(c, at), j.at \in {"dirty", "check"},
             at = "write" => j.at = "check",
             \A d \in Client \ {c} : Applied(d) /\ job[d].target = j.target =>
               job[d].patch \subseteq tree[j.target].head
      PROVE  ITrees'
  <2>1. job'[c] = [j EXCEPT !.at = at] /\ tree' = tree /\ there' = there
    BY <1>0, <1>6 DEF Proceed, TypeOK
  <2>2. /\ job'[c].at = at /\ job'[c].out = j.out /\ job'[c].target = j.target
        /\ job'[c].source = j.source /\ job'[c].patch = j.patch /\ job'[c].found = j.found
    BY <1>0, <2>1 DEF Job
  <2>3. j.out = "none"
    BY <1>0, <1>6 DEF Flow, Within
  <2>4. ~Applied(c)'
    BY <2>2, <2>3 DEF Applied
  <2>5. Tracked(c)'
    BY <1>0, <1>6, <2>1, <2>2, <2>4 DEF Tracked, Exists
  <2>6. QED BY <1>6, <2>1, <2>2, <2>4, <2>5, TreesSame
<1>7. CASE CheckDirty(c)
  <2>1. CASE Proceed(c, "patch") /\ ~Dirty(j.target)
    <3>2. j.at = "dirty" /\ Exists(j.target)
      BY <1>7 DEF CheckDirty
    <3>1. \A d \in Client \ {c} : Applied(d) /\ job[d].target = j.target =>
            job[d].patch \subseteq tree[j.target].head
      BY <2>1, <3>2 DEF Dirty, ITrees, Tracked
    <3>3. QED BY <1>6, <2>1, <3>1, <3>2
  <2>2. QED BY <1>2, <1>7, <2>1 DEF CheckDirty
<1>8. CASE ReadPatch(c)
  <2>1. CASE /\ job' = [job EXCEPT ![c].at = "check", ![c].patch = SourcePatch(j.source)]
             /\ UNCHANGED <<tree, there, branch, row, landed, gate>>
             /\ SourcePatch(j.source) # {}
    <3>1. /\ job'[c] = [j EXCEPT !.at = "check", !.patch = SourcePatch(j.source)]
          /\ j.at = "patch" /\ j.out = "none"
      BY <1>0, <1>8, <2>1 DEF ReadPatch, TypeOK, Flow, Within
    <3>2. /\ job'[c].at = "check" /\ job'[c].out = "none" /\ job'[c].target = j.target
          /\ job'[c].source = j.source /\ job'[c].patch = SourcePatch(j.source)
          /\ job'[c].found = j.found
      BY <1>0, <3>1 DEF Job
    <3>3. ~Applied(c)'
      BY <3>2 DEF Applied
    <3>4. Tracked(c)'
      BY <1>0, <2>1, <3>1, <3>2, <3>3 DEF Tracked, Exists, SourcePatch
    <3>5. \A d \in Client \ {c} : Applied(d) /\ job[d].target = j.target =>
            job[d].patch \subseteq tree[j.target].head
      BY <3>1 DEF ITrees, Apart
    <3>6. QED BY <2>1, <3>2, <3>3, <3>4, <3>5, TreesSame
  <2>2. QED BY <1>2, <1>8, <2>1 DEF ReadPatch
<1>9. CASE CheckPatch(c)
  <2>1. CASE Proceed(c, "write")
    <3>1. j.at = "check"
      BY <1>9 DEF CheckPatch
    <3>2. \A d \in Client \ {c} : Applied(d) /\ job[d].target = j.target =>
            job[d].patch \subseteq tree[j.target].head
      BY <3>1 DEF ITrees, Apart
    <3>3. QED BY <1>6, <2>1, <3>1, <3>2
  <2>2. QED BY <1>2, <1>9, <2>1 DEF CheckPatch
<1>10. ASSUME j.at \in Within PROVE gate = c
  BY <1>0, <1>10 DEF Flow
<1>11. CASE WritePatch(c)
  <2>1. CASE /\ Fits(j.target, j.patch) /\ Exists(j.target) /\ j.at = "write"
             /\ Holding(j.target, tree[j.target].files \cup j.patch)
             /\ \/ Return(c, "landed")
                \/ /\ job' = [job EXCEPT ![c].at = "verify"]
                   /\ UNCHANGED <<there, branch, row, landed, gate>>
    <3>1. CASE Return(c, "landed")
      <4>1. "landed" \in Outcome
        BY DEF Outcome
      <4>2. /\ job'[c].patch = j.patch /\ job'[c].target = j.target /\ there' = there
            /\ job'[c].at \in {"owner", "done"}
        BY <1>0, <3>1, <4>1, ReturnEffect
      <4>3. QED BY <2>1, <4>2, TreesWritten
    <3>2. CASE /\ job' = [job EXCEPT ![c].at = "verify"]
               /\ UNCHANGED <<there, branch, row, landed, gate>>
      <4>1. job'[c] = [j EXCEPT !.at = "verify"]
        BY <3>2, <1>0 DEF TypeOK
      <4>2. /\ job'[c].patch = j.patch /\ job'[c].target = j.target /\ job'[c].at = "verify"
            /\ job'[c].found = j.found
        BY <1>0, <4>1 DEF Job
      <4>3. QED BY <2>1, <3>2, <4>2, TreesWritten
    <3>3. QED BY <2>1, <3>1, <3>2
  <2>2. CASE Return(c, "refused") /\ tree' = tree
    BY <1>2, <2>2
  <2>3. QED BY <1>11, <2>1, <2>2 DEF WritePatch
<1>12. CASE WriteCutOff(c)
  <2>1. PICK part \in SUBSET j.patch : Holding(j.target, tree[j.target].files \cup part)
    BY <1>12 DEF WriteCutOff
  <2>2. Return(c, "cut") /\ gate = c
    BY <1>10, <1>12 DEF WriteCutOff, Within
  <2>3. \A d \in Client \ {c} : Applied(d) /\ j.target = job[d].target /\ Exists(j.target) =>
          job[d].patch \subseteq tree[j.target].files \cup part
    BY DEF ITrees, Tracked
  <2>4. QED BY <1>0, <1>1, <2>1, <2>2, <2>3, TreesLeft
<1>13. CASE RunVerify(c)
  <2>1. j.at = "verify" /\ j.out = "none" /\ Applied(c)
    BY <1>0, <1>13 DEF RunVerify, Tracked, Applied, Flow, Within
  <2>2. CASE Return(c, "landed") /\ tree' = tree
    <3>1. "landed" \in Outcome
      BY DEF Outcome
    <3>2. /\ job'[c].patch = j.patch /\ job'[c].target = j.target /\ there' = there
          /\ job'[c].at \in {"owner", "done"}
      BY <1>0, <2>2, <3>1, ReturnEffect
    <3>3. Tracked(c)'
      BY <1>0, <2>1, <2>2, <3>2 DEF Tracked, Exists
    <3>4. QED BY <2>1, <2>2, <3>2, <3>3, TreesSame
  <2>3. CASE Proceed(c, "reverse")
    <3>1. job'[c] = [j EXCEPT !.at = "reverse"] /\ tree' = tree /\ there' = there
      BY <1>0, <2>3 DEF Proceed, TypeOK
    <3>2. /\ job'[c].patch = j.patch /\ job'[c].target = j.target /\ job'[c].at = "reverse"
          /\ job'[c].found = j.found
      BY <1>0, <3>1 DEF Job
    <3>3. Tracked(c)'
      BY <1>0, <2>1, <3>1, <3>2 DEF Tracked, Exists
    <3>4. QED BY <2>1, <3>1, <3>2, <3>3, TreesSame
  <2>4. QED BY <1>13, <2>2, <2>3 DEF RunVerify
<1>14. CASE Reverse(c)
  <2>1. j.at = "reverse" /\ Applied(c) /\ gate = c
    BY <1>0, <1>10, <1>14 DEF Reverse, Applied, Within
  <2>2. ASSUME NEW part \in SUBSET j.patch, NEW d \in Client \ {c}, Applied(d),
               j.target = job[d].target, Exists(j.target)
        PROVE  job[d].patch \subseteq tree[j.target].files \ part
    <3>1. Tracked(d) /\ Apart(c, d)
      BY DEF ITrees
    <3>2. QED BY <2>1, <2>2, <3>1 DEF Tracked, Apart
  <2>3. ASSUME NEW part \in SUBSET j.patch, NEW out \in {"mixed", "refused"},
               Holding(j.target, tree[j.target].files \ part), Return(c, out)
        PROVE  ITrees'
    BY <1>0, <1>1, <2>1, <2>2, <2>3, TreesLeft
  <2>4. QED BY <1>14, <2>3 DEF Reverse
<1>15. QED BY <1>3, <1>4, <1>5, <1>7, <1>8, <1>9, <1>11, <1>12, <1>13, <1>14

LEMMA TreesServe == ASSUME IFlow, ITrees, NEW c \in Client, Serve(c) PROVE ITrees'
<1> DEFINE j == job[c]
<1>0. TypeOK /\ j \in Job /\ Flow(c)
  BY DEF IFlow, TypeOK
<1>1. \A d \in Client \ {c} : job'[d] = job[d]
  BY <1>0, OneJob
<1>2. ASSUME j.at \in Later PROVE j.at \notin Within
  BY <1>2 DEF Later, Within
<1>3. CASE CheckOwner(c)
  BY <1>2, <1>3, TreesStage DEF CheckOwner, Proceed, Later, Stage, Within
<1>4. CASE RecordLanding(c)
  BY <1>2, <1>4, TreesStage DEF RecordLanding, Later, Stage, Within
<1>5. CASE CheckStopped(c)
  BY <1>2, <1>5, TreesStage DEF CheckStopped, Proceed, Later, Stage, Within
<1>6. CASE RemoveRow(c)
  BY <1>2, <1>6, TreesStage DEF RemoveRow, Later, Stage, Within
<1>9. CASE DeleteBranch(c)
  BY <1>2, <1>9, TreesStage DEF DeleteBranch, Later, Stage, Within
<1>7. CASE ReleaseWorktree(c)
  <2> DEFINE s == j.session
  <2>1. s \in Session /\ j.at = "release" /\ s # Main /\ s \in Place
    BY <1>0, <1>7, NamesAreDistinct DEF ReleaseWorktree, Flow, Later, Place
  <2>2. /\ \A p \in Place : tree'[p].head = tree[p].head
        /\ \A p \in Place : Exists(p)' => Exists(p) /\ tree'[p] = tree[p]
    <3>1. CASE UNCHANGED <<tree, there>>
      BY <3>1 DEF Exists
    <3>2. CASE /\ there' = [there EXCEPT ![s] = FALSE]
               /\ tree' = [tree EXCEPT ![s].files = tree[s].head, ![s].new = {}]
      <4>1. \A p \in Place \ {s} : tree'[p] = tree[p]
        BY <1>0, <2>1, <3>2 DEF TypeOK
      <4>2. tree'[s].head = tree[s].head
        BY <1>0, <2>1, <3>2 DEF TypeOK, Tree
      <4>3. \A p \in Place : Exists(p)' => Exists(p) /\ p # s
        BY <1>0, <2>1, <3>2 DEF Exists, TypeOK
      <4>4. QED BY <4>1, <4>2, <4>3
    <3>3. QED BY <1>7, <3>1, <3>2 DEF ReleaseWorktree
  <2>3. job'[c] = [j EXCEPT !.at = "branch"]
    BY <1>0, <1>7 DEF ReleaseWorktree, TypeOK
  <2>4. /\ job'[c].at = "branch" /\ job'[c].out = j.out /\ job'[c].patch = j.patch
        /\ job'[c].target = j.target
    BY <1>0, <2>3 DEF Job
  <2>5. ASSUME NEW d \in Client
        PROVE  /\ Applied(d)' <=> Applied(d)
               /\ job'[d].patch = job[d].patch /\ job'[d].target = job[d].target
               /\ job[d].target \in Place
               /\ job'[d] = job[d] \/ job'[d].at = "branch"
    BY <1>0, <1>1, <2>1, <2>4 DEF Applied, TypeOK, Job
  <2>6. ASSUME NEW d \in Client PROVE Tracked(d)'
    <3>1. Tracked(d)
      BY DEF ITrees
    <3>2. Exists(job[d].target)' =>
            Exists(job[d].target) /\ tree'[job[d].target] = tree[job[d].target]
      BY <2>2, <2>5
    <3>3. QED BY <2>5, <3>1, <3>2 DEF Tracked, Exists
  <2>7. ASSUME NEW d \in Client, NEW e \in Client, d # e PROVE Apart(d, e)'
    <3>1. Apart(d, e)
      BY <2>7 DEF ITrees
    <3>2. QED BY <2>2, <2>5, <3>1 DEF Apart
  <2>8. QED BY <2>5, <2>6, <2>7 DEF ITrees
<1>8. QED BY <1>1, <1>3, <1>4, <1>5, <1>6, <1>7, <1>9, TreesGate DEF Serve, Thread

LEMMA TreesWorld == ASSUME IFlow, ITrees, World PROVE ITrees'
<1>0. TypeOK /\ Main \in Place
  BY DEF IFlow, Place
<1>1. ASSUME NEW p \in Place, NEW t \in Tree, Grows(p, t) PROVE ITrees'
  <2>1. /\ Others(p, t) /\ there' = there
        /\ \A q \in Place \ {p} : tree'[q] = tree[q]
        /\ tree'[p] = t
        /\ tree[p].head \subseteq t.head /\ tree[p].files \subseteq t.files
    BY <1>0, <1>1 DEF Grows, Others, TypeOK
  <2>2. \A q \in Place : /\ tree[q].files \subseteq tree'[q].files
                        /\ tree[q].head \subseteq tree'[q].head
    BY <2>1
  <2>3. ASSUME NEW d \in Client PROVE Applied(d)' <=> Applied(d)
    <3>1. job'[d].at = job[d].at /\ job'[d].out = job[d].out
      BY <1>0, <2>1, OthersJobs
    <3>2. QED BY <3>1 DEF Applied
  <2>4. ASSUME NEW d \in Client PROVE Tracked(d)'
    <3> DEFINE j == job[d]
    <3>1. Tracked(d) /\ j \in Job /\ j.target \in Place
      BY <1>0 DEF ITrees, TypeOK, Job
    <3>2. /\ job'[d].at = j.at /\ job'[d].source = j.source /\ job'[d].target = j.target
          /\ job'[d].patch = j.patch
      BY <1>0, <2>1, OthersJobs
    <3>3. Exists(j.target) /\ Applied(d)' => job'[d].patch \subseteq tree'[j.target].files
      BY <2>2, <2>3, <3>1, <3>2 DEF Tracked
    <3>5. CASE j.target = p /\ j.at \in Within \ {"head"}
      <4>1. job'[d] = [j EXCEPT !.found = @ \cup (t.files \ tree[p].files)]
        BY <1>0, <2>1, <3>5, OthersJobs
      <4>2. job'[d].found = j.found \cup (t.files \ tree[p].files)
        BY <3>1, <4>1 DEF Job
      <4>3. j.at \in {"dirty", "patch", "check", "write"} /\ Exists(p) => job'[d].found = t.files
        BY <2>1, <3>1, <3>5, <4>2 DEF Tracked
      <4>4. j.at \in {"verify", "reverse"} /\ Exists(p) =>
              t.files = job'[d].found \cup j.patch /\ j.patch \cap job'[d].found = {}
        BY <2>1, <3>1, <3>5, <4>2 DEF Tracked, Applied
      <4>5. QED BY <2>1, <3>2, <3>3, <3>5, <4>3, <4>4 DEF Tracked, Exists
    <3>6. CASE j.target # p \/ j.at \notin Within \ {"head"}
      <4>1. job'[d] = job[d]
        BY <1>0, <2>1, <3>6, OthersJobs
      <4>2. j.at \in {"dirty", "patch", "check", "write", "verify", "reverse"} =>
              tree'[j.target] = tree[j.target]
        BY <2>1, <3>1, <3>6 DEF Within
      <4>3. QED BY <2>1, <3>1, <3>2, <3>3, <4>1, <4>2 DEF Tracked, Exists
    <3>7. QED BY <3>5, <3>6
  <2>5. ASSUME NEW d \in Client, NEW e \in Client, d # e PROVE Apart(d, e)'
    <3>1. Apart(d, e) /\ job[d].target \in Place
      BY <1>0, <2>5 DEF ITrees, TypeOK, Job
    <3>2. \A f \in Client : /\ job'[f].patch = job[f].patch
                           /\ job'[f].target = job[f].target /\ job'[f].at = job[f].at
      BY <1>0, <2>1, OthersJobs
    <3>3. QED BY <2>2, <2>3, <3>1, <3>2 DEF Apart
  <2>6. QED BY <2>4, <2>5 DEF ITrees
<1>2. ASSUME NEW s \in Session, Moves(s) PROVE ITrees'
  BY <1>2 DEF Moves, ITrees, Tracked, Apart, Applied, Exists
<1>3. QED BY <1>0, <1>1, <1>2, WorldStep

LEMMA TreesInit == Init => ITrees
BY DEF Init, ITrees, Tracked, Apart, Applied, Idle, Exists

LEMMA TreesNext == ASSUME IFlow, ITrees, [Next]_vars PROVE ITrees'
<1>1. CASE UNCHANGED vars
  BY <1>1 DEF vars, ITrees, Tracked, Apart, Applied, Exists
<1>2. QED BY <1>1, TreesAsk, TreesServe, TreesWorld DEF Next

LEMMA OneLandingNext == IFlow /\ ITrees => OneLandingAtATime
BY DEF ITrees, Tracked, Apart, Applied, OneLandingAtATime, Loose

(* Whatever is asked, committed or edited meanwhile, the patches of two     *)
(* landings never lie uncommitted in one target (LandQueue, dirty_paths).   *)
THEOREM OneLandingHolds == Spec => []OneLandingAtATime
<1>1. Init => IFlow /\ ITrees BY FlowInit, TreesInit
<1>2. IFlow /\ ITrees /\ [Next]_vars => (IFlow /\ ITrees)' BY FlowNext, TreesNext
<1>3. QED BY <1>1, <1>2, OneLandingNext, PTL DEF Spec

(* A step of c under the gate ends with all of the patch or none of it.     *)
LEMMA WholeGate ==
    ASSUME IFlow, ITrees, NEW c \in Client, Serve(c), job[c].at \in Within
    PROVE  EndsWhole(c)
<1> DEFINE j == job[c]
<1>0. TypeOK /\ j \in Job /\ Flow(c) /\ Tracked(c) /\ Main \in Place /\ j.target \in Place
  BY DEF IFlow, ITrees, TypeOK, Place, Job
<1>1. SUFFICES ASSUME j.at \in Within \ {"head"}, job'[c].at \notin Within,
                      j.target \in {Main} \cup {s \in Session : there'[s]}
               PROVE  /\ job'[c].out = "landed" => tree'[j.target].files = j.found \cup j.patch
                      /\ job'[c].out \in {"dirty", "refused"} => tree'[j.target].files = j.found
  BY DEF EndsWhole
<1>2. j.at # "head" /\ j.at \notin Later /\ j.at # "waiting"
  BY <1>1 DEF Within, Later
<1>3. ASSUME NEW out \in Outcome, Return(c, out)
      PROVE  job'[c].out = out /\ there' = there
  BY <1>0, <1>3, ReturnEffect
<1>4. {"landed", "dirty", "mixed", "cut", "refused"} \subseteq Outcome
  BY DEF Outcome
<1>5. ASSUME NEW at \in Within, Proceed(c, at) PROVE FALSE
  <2>1. job'[c] = [j EXCEPT !.at = at]
    BY <1>0, <1>5 DEF Proceed, TypeOK
  <2>2. QED BY <1>0, <1>1, <1>5, <2>1 DEF Job
<1>6. ASSUME NEW out \in {"dirty", "refused"}, Return(c, out), tree' = tree,
             j.at \in {"dirty", "patch", "check", "write"}
      PROVE  job'[c].out = out /\ tree'[j.target].files = j.found
  <2>1. Exists(j.target) /\ job'[c].out = out
    BY <1>1, <1>3, <1>4, <1>6 DEF Exists
  <2>2. QED BY <1>0, <1>6, <2>1 DEF Tracked
<1>7. CASE Unavailable(c) \/ CheckDirty(c) \/ CheckPatch(c)
  BY <1>2, <1>5, <1>6, <1>7 DEF Unavailable, CheckDirty, CheckPatch, Within
<1>8. CASE ReadPatch(c)
  <2>1. ASSUME job' = [job EXCEPT ![c].at = "check", ![c].patch = SourcePatch(j.source)]
        PROVE  FALSE
    <3>1. job'[c] = [j EXCEPT !.at = "check", !.patch = SourcePatch(j.source)]
      BY <1>0, <2>1 DEF TypeOK
    <3>2. QED BY <1>0, <1>1, <3>1 DEF Job, Within
  <2>2. QED BY <1>6, <1>8, <2>1 DEF ReadPatch
<1>9. ASSUME NEW files, Holding(j.target, files) PROVE tree'[j.target].files = files
  BY <1>0, <1>9 DEF Holding, TypeOK, Tree
<1>10. CASE WritePatch(c)
  <2>1. ASSUME job' = [job EXCEPT ![c].at = "verify"] PROVE FALSE
    <3>1. job'[c] = [j EXCEPT !.at = "verify"]
      BY <1>0, <2>1 DEF TypeOK
    <3>2. QED BY <1>0, <1>1, <3>1 DEF Job, Within
  <2>2. CASE Return(c, "refused") /\ tree' = tree
    BY <1>6, <1>10, <2>2 DEF WritePatch
  <2>3. CASE Holding(j.target, tree[j.target].files \cup j.patch) /\ Return(c, "landed")
    <3>1. j.found = tree[j.target].files
      BY <1>0, <1>10 DEF WritePatch, Tracked
    <3>2. QED BY <1>3, <1>4, <1>9, <2>3, <3>1
  <2>4. QED BY <1>10, <2>1, <2>2, <2>3 DEF WritePatch
<1>11. CASE WriteCutOff(c)
  BY <1>3, <1>4, <1>11 DEF WriteCutOff
<1>12. CASE RunVerify(c)
  <2>1. CASE Return(c, "landed") /\ tree' = tree
    <3>1. Exists(j.target)
      BY <1>1, <1>3, <1>4, <2>1 DEF Exists
    <3>2. tree[j.target].files = j.found \cup j.patch
      BY <1>0, <1>12, <3>1 DEF RunVerify, Tracked
    <3>3. QED BY <1>3, <1>4, <2>1, <3>2
  <2>2. QED BY <1>5, <1>12, <2>1 DEF RunVerify, Within
<1>13. CASE Reverse(c)
  <2>2. CASE /\ Exists(j.target) /\ Holding(j.target, tree[j.target].files \ j.patch)
             /\ Return(c, "refused")
    <3>2. tree[j.target].files = j.found \cup j.patch /\ j.patch \cap j.found = {}
      BY <1>0, <1>13, <2>2 DEF Reverse, Tracked
    <3>1. tree'[j.target].files = j.found
      BY <1>9, <2>2, <3>2
    <3>3. QED BY <1>3, <1>4, <2>2, <3>1
  <2>3. CASE Return(c, "mixed")
    BY <1>3, <1>4, <2>3
  <2>4. QED BY <1>13, <2>2, <2>3 DEF Reverse
<1>14. QED
  BY <1>2, <1>7, <1>8, <1>10, <1>11, <1>12, <1>13 DEF Serve, Thread, Enter, ReadHead,
     CheckOwner, RecordLanding, CheckStopped, ReleaseWorktree, DeleteBranch, RemoveRow, Later

LEMMA WholeNext == ASSUME IFlow, ITrees, [Next]_vars, NEW c \in Client PROVE EndsWhole(c)
<1>0. TypeOK
  BY DEF IFlow
<1>1. CASE job[c].at \notin Within \/ job'[c].at = job[c].at
  BY <1>1 DEF EndsWhole
<1>2. ASSUME NEW d \in Client, Ask(d) \/ Serve(d), d # c PROVE job'[c] = job[c]
  BY <1>0, <1>2, OneJob
<1>3. CASE Ask(c)
  BY <1>1, <1>3 DEF Ask, AskLanding, AskArchive, Within
<1>4. CASE World
  <2>1. ASSUME NEW p \in Place, NEW t \in Tree, Grows(p, t) PROVE job'[c].at = job[c].at
    BY <1>0, <2>1, OthersJobs DEF Grows
  <2>2. ASSUME NEW s \in Session, Moves(s) PROVE job'[c].at = job[c].at
    BY <2>2 DEF Moves
  <2>3. QED BY <1>0, <1>1, <1>4, <2>1, <2>2, WorldStep
<1>5. CASE UNCHANGED vars
  BY <1>1, <1>5 DEF vars
<1>6. QED BY <1>1, <1>2, <1>3, <1>4, <1>5, WholeGate DEF Next

(* A landing that ends leaves its whole patch in the target or none of it,  *)
(* beside what everyone else did there (land.rs run_land, apply_patch).     *)
THEOREM WholeHolds == Spec => Whole
<1>1. Init => IFlow /\ ITrees BY FlowInit, TreesInit
<1>2. IFlow /\ ITrees /\ [Next]_vars => (IFlow /\ ITrees)' BY FlowNext, TreesNext
<1>3. IFlow /\ ITrees /\ [Next]_vars => \A c \in Client : EndsWhole(c) BY WholeNext
<1>4. QED BY <1>1, <1>2, <1>3, PTL DEF Spec, Whole
=============================================================================
