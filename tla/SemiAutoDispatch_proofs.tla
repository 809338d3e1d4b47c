----------------------- MODULE SemiAutoDispatch_proofs -----------------------
(***************************************************************************)
(* The dispatch ledger, for any handoffs, threads, processes, seals and    *)
(* protocols and any number of crashes: what its files and entries say of  *)
(* each other, exactly-once as a refinement, and that entries only         *)
(* advance.  Then the dispatcher over it, for any number of requests: it   *)
(* only ever makes steps of the ledger, so the ledger's theorems hold of   *)
(* it; no lease outlives its request, and a turn that started has its one  *)
(* outcome.                                                                *)
(***************************************************************************)
EXTENDS SemiAutoDispatch, TLAPS

(***************************************************************************)
(* The dispatch ledger                                                     *)
(***************************************************************************)


\* An actor is in the critical section exactly while it holds its process's
\* lock, so a process has at most one actor there.
LockOK == \A a \in Actor : pc[a].step \in InSection <=> lock[Proc(a)] = a

\* Console threads work on workspace handoffs, runners on smoke handoffs: a
\* handoff's record files are written under one lock only.
ThreadOp == {"prepare", "approve", "reject", "start", "complete", "fail"}
RunnerOp == {"prepareSmoke", "bind", "transition", "complete", "fail"}
OwnerOK ==
    \A a \in Actor :
        \/ pc[a].step = "idle" /\ pc[a].op = "none"
        \/ a \in Thread /\ pc[a].id \in Handoff /\ pc[a].op \in ThreadOp
        \/ a \in Runner /\ pc[a].id \in Smoke /\ pc[a].op \in RunnerOp

\* Which record files can exist together.
FilesOK ==
    \A h \in Handoff :
        /\ files[h] # {} => "artifact" \in files[h]
        /\ "attempt" \in files[h] => "approval" \in files[h]
        /\ ~ {"approval", "rejection"} \subseteq files[h]
        /\ files[h] \cap {"result", "failure"} # {} => "attempt" \in files[h]

\* What the checks of Enter established still holds when the record is written.
Checked(c) ==
    /\ c.op \in {"complete", "fail"} => started[c.id] > 0
    /\ c.step = "checked" =>
         /\ c.op = "prepare" => files[c.id] = {}
         /\ c.op \in {"approve", "reject"} =>
                files[c.id] \cap {"approval", "rejection"} = {}
         /\ c.op = "start" =>
                /\ "approval" \in files[c.id]
                /\ files[c.id] \cap {"attempt", "result", "failure"} = {}
CheckedOK == \A t \in Thread : Checked(pc[t])

\* An entry under edit was in the ledger, so its artifact is on disk.
EditOK ==
    \A a \in Actor :
        pc[a].step \in InSection /\ pc[a].op \notin {"prepare", "prepareSmoke"} =>
            "artifact" \in files[pc[a].id]

\* Once written, the record is on disk; a start is still the first.
Written(c) ==
    c.step \in {"written", "staged"} =>
        /\ c.op # "transition" => RecordOf[c.op] \in files[c.id]
        /\ c.op = "start" => /\ started[c.id] = 0
                             /\ files[c.id] \cap {"result", "failure"} = {}
WrittenOK == \A a \in Actor : Written(pc[a])

\* A counted start left its attempt record.
StartedOK ==
    \A h \in Handoff : started[h] <= 1
                       /\ (started[h] > 0 => "attempt" \in files[h])

\* Every copy an actor may write back is backed by record files.
ViewsBacked == \A a \in Actor : view[a] # NoView => Backed(view[a])

IInv ==
    /\ TypeOK /\ LockOK /\ OwnerOK /\ FilesOK /\ CheckedOK /\ WrittenOK
    /\ EditOK /\ StartedOK /\ LedgerBacked /\ ViewsBacked

-----------------------------------------------------------------------------
(* Steps outside the critical section.                                     *)

\* What actor a may be doing outside the critical section.
OutsideOK(a, e) ==
    /\ e \in [op : Op, id : Id \cup {NoId}, step : Step \ InSection]
    /\ \/ e.step = "idle" /\ e.op = "none"
       \/ a \in Thread /\ e.id \in Handoff /\ e.op \in ThreadOp
       \/ a \in Runner /\ e.id \in Smoke /\ e.op \in RunnerOp
    /\ a \in Thread /\ e.op \in {"complete", "fail"} => started[e.id] > 0

\* Actor a goes from one place outside the critical section to another.
Outside(a, e) ==
    /\ pc[a].step \notin InSection
    /\ pc' = [pc EXCEPT ![a] = e]
    /\ seen' \in [Actor -> Binding]
    /\ UNCHANGED <<disk, lock, view, world, history>>

\* A step outside the critical section keeps the inductive invariant.
LEMMA OutsideStep ==
    ASSUME IInv, NEW a \in Actor, NEW e, OutsideOK(a, e), Outside(a, e)
    PROVE  IInv'
<1> USE DEF Outside, disk, world, history
<1>1. TypeOK'
  BY DEF IInv, TypeOK, OutsideOK, Step, InSection
<1>2. LockOK'
  BY DEF IInv, TypeOK, LockOK, OutsideOK
<1>3. OwnerOK'
  BY DEF IInv, TypeOK, OwnerOK, OutsideOK
<1>4. FilesOK'
  BY DEF IInv, FilesOK
<1>5. CheckedOK'
  BY DEF IInv, TypeOK, CheckedOK, Checked, OutsideOK, Step, InSection, Actor
<1>6. WrittenOK'
  BY DEF IInv, TypeOK, WrittenOK, Written, OutsideOK, InSection
<1>7. StartedOK'
  BY DEF IInv, StartedOK
<1>8. LedgerBacked' /\ ViewsBacked'
  BY DEF IInv, LedgerBacked, ViewsBacked, Backed
<1>9. EditOK'
  BY DEF IInv, TypeOK, EditOK, OutsideOK
<1> QED BY <1>1, <1>2, <1>3, <1>4, <1>5, <1>6, <1>7, <1>8, <1>9 DEF IInv

\* Every call, inspection and verification step is one of them.
LEMMA CallStep ==
    ASSUME IInv, Calls
    PROVE  IInv'
<1>1. ASSUME NEW t \in Thread, NEW h \in Handoff, NEW op \in ThreadOp,
             NEW step \in {"called", "route", "ready"}, Call(t, op, h, step),
             op \in {"complete", "fail"} => started[h] > 0
      PROVE  IInv'
  <2> DEFINE e == [op |-> op, id |-> h, step |-> step]
  <2>1. OutsideOK(t, e)
    BY <1>1 DEF OutsideOK, Op, Step, InSection, Id, ThreadOp
  <2>2. Outside(t, e)
    BY <1>1 DEF Outside, Call, Idle, IInv, TypeOK, Actor, InSection
  <2> QED BY <2>1, <2>2, OutsideStep DEF Actor
<1>2. ASSUME NEW r \in Runner, NEW s \in Smoke, CallSmoke(r, s)
      PROVE  IInv'
  <2>1. PICK op \in RunnerOp : Call(r, op, s, "ready")
    BY <1>2 DEF CallSmoke, RunnerOp
  <2> DEFINE e == [op |-> op, id |-> s, step |-> "ready"]
  <2>2. OutsideOK(r, e)
    BY ActorAssumption DEF OutsideOK, Op, Step, InSection, Id, RunnerOp
  <2>3. Outside(r, e)
    BY <2>1 DEF Outside, Call, Idle, IInv, TypeOK, Actor, InSection
  <2> QED BY <2>2, <2>3, OutsideStep DEF Actor
<1> QED
  BY <1>1, <1>2
  DEF Calls, CallPrepare, CallDecide, CallStart, CallFinish, ThreadOp

\* An actor that leaves without having entered.
LEMMA LeaveStep ==
    ASSUME IInv, NEW a \in Actor, pc[a].step \notin InSection, Leave(a),
           UNCHANGED <<disk, lock, view, world, history>>
    PROVE  IInv'
<1>1. OutsideOK(a, Idle)
  BY DEF OutsideOK, Idle, Op, Step, InSection
<1>2. Outside(a, Idle)
  BY DEF Outside, Leave, IInv, TypeOK, Blank, Binding
<1> QED BY <1>1, <1>2, OutsideStep

\* An actor that goes on to its next unlocked step.
LEMMA GotoStep ==
    ASSUME IInv, NEW a \in Actor, pc[a].step \notin InSection \cup {"idle"},
           NEW step \in Step \ InSection, Goto(a, step),
           seen' \in [Actor -> Binding],
           UNCHANGED <<disk, lock, view, world, history>>
    PROVE  IInv'
<1> DEFINE e == [op |-> pc[a].op, id |-> pc[a].id, step |-> step]
<1>1. OutsideOK(a, e)
  BY DEF OutsideOK, IInv, TypeOK, OwnerOK, CheckedOK, Checked
<1>2. pc[a] \in [op : Op, id : Id \cup {NoId}, step : Step]
  BY DEF IInv, TypeOK
<1>3. [pc[a] EXCEPT !.step = step] = e
  BY <1>2
<1>4. pc' = [pc EXCEPT ![a] = e]
  BY <1>3 DEF Goto
<1>5. Outside(a, e)
  BY <1>4 DEF Outside
<1> HIDE DEF e
<1> QED BY <1>1, <1>5, OutsideStep

\* The unlocked inspections and verifications keep the invariant: each moves its
\* actor on, or makes it leave.
LEMMA InspectStep ==
    ASSUME IInv, NEW a \in Actor,
           \/ InspectDecision(a) \/ InspectStart(a)
           \/ ResolveRoute(a) \/ VerifyTree(a) \/ VerifyProtocol(a)
    PROVE  IInv'
<1> USE DEF Proceed, At, Step, InSection
<1>0. seen \in [Actor -> Binding]
  BY DEF IInv, TypeOK
<1>1. CASE InspectDecision(a)
  BY <1>0, <1>1, LeaveStep, GotoStep DEF InspectDecision
<1>2. CASE InspectStart(a)
  BY <1>0, <1>2, LeaveStep, GotoStep DEF InspectStart
<1>3. CASE ResolveRoute(a)
  <2>1. [seen EXCEPT ![a].seal = ref] \in [Actor -> Binding]
    BY <1>0 DEF IInv, TypeOK, Binding
  <2> QED BY <1>3, <2>1, LeaveStep, GotoStep DEF ResolveRoute
<1>4. CASE VerifyTree(a)
  BY <1>0, <1>4, LeaveStep, GotoStep DEF VerifyTree
<1>5. CASE VerifyProtocol(a)
  <2>1. [seen EXCEPT ![a].proto = proto] \in [Actor -> Binding]
    BY <1>0 DEF IInv, TypeOK, Binding
  <2> QED BY <1>5, <2>1, LeaveStep, GotoStep DEF VerifyProtocol
<1> QED BY <1>1, <1>2, <1>3, <1>4, <1>5

-----------------------------------------------------------------------------
(* The critical section.                                                   *)

\* Entering it: what Enter checked is what the record's writer relies on.
LEMMA EnteredStep ==
    ASSUME IInv, NEW a \in Actor, pc[a].step = "ready", Free(a),
           Goto(a, "checked"), lock' = [lock EXCEPT ![Proc(a)] = a],
           view' = [view EXCEPT ![a] = ledger], UNCHANGED <<seen, disk, world, history>>,
           pc[a].op = "prepare" => "artifact" \notin files[pc[a].id],
           pc[a].op \notin {"prepare", "prepareSmoke"} =>
               ledger[pc[a].id].state # "ABSENT",
           pc[a].op \in {"approve", "reject"} =>
               files[pc[a].id] \cap {"approval", "rejection"} = {},
           pc[a].op = "start" =>
               /\ ledger[pc[a].id].state = "DISPATCHABLE"
               /\ files[pc[a].id] \cap {"attempt", "result", "failure"} = {}
    PROVE  IInv'
<1> USE DEF Goto, disk, world, history
<1>1. TypeOK'
  BY ViewAssumption DEF IInv, TypeOK, Step, InSection, Proc, Process, Actor
<1>2. LockOK'
  BY ActorAssumption
  DEF IInv, TypeOK, LockOK, Free, InSection, Proc, Process, Actor
<1>3. OwnerOK'
  BY DEF IInv, TypeOK, OwnerOK
<1>4. FilesOK'
  BY DEF IInv, FilesOK
<1>5. CheckedOK'
  <2>1. ASSUME a \in Thread
        PROVE  /\ pc[a].id \in Handoff
               /\ pc[a].op = "prepare" => files[pc[a].id] = {}
               /\ pc[a].op = "start" => "approval" \in files[pc[a].id]
    <3>1. pc[a].id \in Handoff
      BY <2>1, ActorAssumption DEF IInv, OwnerOK
    <3> QED BY <3>1 DEF IInv, FilesOK, LedgerBacked, Backed, Id
  <2>2. SUFFICES ASSUME NEW t \in Thread PROVE Checked(pc[t])'
    BY DEF CheckedOK
  <2>3. CASE t = a
    BY <2>1, <2>3 DEF IInv, TypeOK, CheckedOK, Checked
  <2>4. CASE t # a
    BY <2>4 DEF IInv, TypeOK, CheckedOK, Checked, Actor
  <2> QED BY <2>3, <2>4
<1>6. WrittenOK'
  BY DEF IInv, TypeOK, WrittenOK, Written
<1>7. StartedOK'
  BY DEF IInv, StartedOK
<1>8. LedgerBacked' /\ ViewsBacked'
  BY DEF IInv, TypeOK, LedgerBacked, ViewsBacked, Backed
<1>9. EditOK'
  <2>1. pc[a].id \in Id
    BY DEF IInv, OwnerOK, Id
  <2>2. pc[a].op \notin {"prepare", "prepareSmoke"} => "artifact" \in files[pc[a].id]
    BY <2>1 DEF IInv, LedgerBacked, Backed
  <2> QED BY <2>2 DEF IInv, TypeOK, EditOK, InSection
<1> QED BY <1>1, <1>2, <1>3, <1>4, <1>5, <1>6, <1>7, <1>8, <1>9 DEF IInv

\* Every operation that enters the critical section keeps the invariant.
LEMMA EnterStep ==
    ASSUME IInv, NEW a \in Actor,
           \/ EnterPrepare(a) \/ EnterPrepareSmoke(a) \/ EnterDecide(a)
           \/ EnterStart(a) \/ EnterComplete(a) \/ EnterFail(a)
           \/ EnterBind(a) \/ EnterTransition(a)
    PROVE  IInv'
<1>1. ASSUME NEW from, NEW blockers, Enter(a, from, blockers),
             pc[a].op = "prepare" => "artifact" \in blockers,
             pc[a].op \notin {"prepare", "prepareSmoke"} => "ABSENT" \notin from,
             pc[a].op \in {"approve", "reject"} => {"approval", "rejection"} \subseteq blockers,
             pc[a].op = "start" =>
                 /\ from = {"DISPATCHABLE"}
                 /\ {"attempt", "result", "failure"} \subseteq blockers
      PROVE  IInv'
  <2>1. CASE ledger[pc[a].id].state \in from /\ files[pc[a].id] \cap blockers = {}
    BY <1>1, <2>1, EnteredStep DEF Enter
  <2>2. CASE ~ (ledger[pc[a].id].state \in from /\ files[pc[a].id] \cap blockers = {})
    BY <1>1, <2>2, LeaveStep DEF Enter, InSection
  <2> QED BY <2>1, <2>2
<1> QED
  BY <1>1
  DEF EnterPrepare, EnterPrepareSmoke, EnterDecide, EnterStart,
      EnterComplete, EnterFail, EnterBind, EnterTransition

\* Two actors of one process are never in the critical section together.
LEMMA MutualExclusion ==
    ASSUME IInv, NEW a \in Actor, NEW b \in Actor, Proc(a) = Proc(b),
           pc[a].step \in InSection, pc[b].step \in InSection
    PROVE  a = b
BY DEF IInv, LockOK

\* The handoff a writer works on, and the record it writes.
LEMMA WriterFacts ==
    ASSUME IInv, NEW a \in Actor, pc[a].step # "idle"
    PROVE  /\ pc[a].id \in Id
           /\ pc[a].id \in Handoff <=> a \in Thread
           /\ pc[a].op \in {"prepare", "approve", "reject", "start"} => a \in Thread
           /\ pc[a].op # "transition" => RecordOf[pc[a].op] \in Record
BY ActorAssumption, IdAssumption
DEF IInv, OwnerOK, ThreadOp, RunnerOp, RecordOf, Record, Id, Actor, Idle

\* Writing the record file.
LEMMA WriteStep ==
    ASSUME IInv, NEW a \in Actor, WriteRecord(a)
    PROVE  IInv'
<1> USE DEF WriteRecord, Goto, world, history
<1>a. /\ pc[a].step = "checked" /\ pc[a].step \in InSection
      /\ UNCHANGED <<ledger, tmp, lock, view, seen, route, ref, tree, proto, churn, started>>
  BY DEF InSection
<1>b. /\ pc[a].id \in Id
      /\ pc[a].id \in Handoff <=> a \in Thread
      /\ pc[a].op \in {"prepare", "approve", "reject", "start"} => a \in Thread
      /\ pc[a].op # "transition" => RecordOf[pc[a].op] \in Record
  BY <1>a, WriterFacts
<1>c. \A i \in Id : files[i] \subseteq files'[i]
  BY <1>b DEF IInv, TypeOK
<1>1. TypeOK'
  <2>1. files' \in [Id -> SUBSET Record]
    BY <1>b DEF IInv, TypeOK
  <2>2. envelope' \in [Handoff -> Binding]
    BY <1>b DEF IInv, TypeOK
  <2>3. fresh' \in [Handoff -> SUBSET {"route", "tree", "proto"}]
    BY <1>b DEF IInv, TypeOK, Holding
  <2>4. /\ pc' \in [Actor -> [op : Op, id : Id \cup {NoId}, step : Step]]
        /\ \A b \in Actor : pc'[b].step \in InSection <=> view[b] # NoView
    BY <1>a DEF IInv, TypeOK, Step, InSection
  <2> QED BY <1>a, <2>1, <2>2, <2>3, <2>4 DEF IInv, TypeOK
<1>2. LockOK'
  BY <1>a DEF IInv, TypeOK, LockOK, InSection
<1>3. OwnerOK'
  BY <1>a DEF IInv, TypeOK, OwnerOK
<1>4. FilesOK'
  <2>1. ASSUME a \in Thread
        PROVE  /\ Checked(pc[a])
               /\ pc[a].op \in ThreadOp
               /\ pc[a].op \in {"complete", "fail"} => "attempt" \in files[pc[a].id]
    <3>1. Checked(pc[a]) /\ pc[a].op \in ThreadOp
      BY <1>a, <2>1, ActorAssumption DEF IInv, CheckedOK, OwnerOK
    <3> QED BY <3>1, <1>b, <2>1 DEF Checked, IInv, StartedOK
  <2>2. SUFFICES ASSUME NEW h \in Handoff
        PROVE  /\ files'[h] # {} => "artifact" \in files'[h]
               /\ "attempt" \in files'[h] => "approval" \in files'[h]
               /\ ~ {"approval", "rejection"} \subseteq files'[h]
               /\ files'[h] \cap {"result", "failure"} # {} => "attempt" \in files'[h]
    BY DEF FilesOK
  <2>3. CASE files'[h] = files[h]
    BY <2>3 DEF IInv, FilesOK
  <2>4. CASE files'[h] # files[h]
    <3>1. /\ h = pc[a].id /\ a \in Thread
          /\ files'[h] = files[h] \cup {RecordOf[pc[a].op]}
      BY <2>4, <1>b DEF IInv, TypeOK, Id
    <3>2. pc[a].op # "prepare" => "artifact" \in files[h]
      BY <1>a, <2>1, <3>1 DEF IInv, EditOK, ThreadOp
    <3> QED BY <1>a, <2>1, <3>1, <3>2 DEF IInv, FilesOK, Checked, ThreadOp, RecordOf
  <2> QED BY <2>3, <2>4
<1>5. CheckedOK'
  <2>1. SUFFICES ASSUME NEW t \in Thread PROVE Checked(pc[t])'
    BY DEF CheckedOK
  <2>2. CASE t = a
    BY <1>a, <2>2 DEF IInv, TypeOK, CheckedOK, Checked
  <2>3. CASE t # a /\ pc[t].step = "checked"
    <3>1. a \notin Thread
      BY <1>a, <2>3, MutualExclusion DEF InSection, Proc, Actor
    <3>2. pc[t].id \in Handoff
      BY <2>3, WriterFacts DEF Actor
    <3>3. files'[pc[t].id] = files[pc[t].id]
      BY <1>b, <3>1, <3>2 DEF IInv, TypeOK, Id
    <3>4. pc'[t] = pc[t] /\ Checked(pc[t])
      BY <2>3 DEF IInv, TypeOK, CheckedOK
    <3> QED BY <1>a, <3>3, <3>4 DEF Checked
  <2>4. CASE t # a /\ pc[t].step # "checked"
    BY <1>a, <2>4 DEF IInv, TypeOK, CheckedOK, Checked
  <2> QED BY <2>2, <2>3, <2>4
<1>6. WrittenOK'
  <2>1. SUFFICES ASSUME NEW b \in Actor PROVE Written(pc[b])'
    BY DEF WrittenOK
  <2>2. CASE b = a
    <3>1. pc'[a] = [pc[a] EXCEPT !.step = "written"]
      BY DEF IInv, TypeOK
    <3>2. /\ pc'[a].op = pc[a].op /\ pc'[a].id = pc[a].id
      BY <3>1 DEF IInv, TypeOK
    <3>3. pc[a].op # "transition" => RecordOf[pc[a].op] \in files'[pc[a].id]
      BY <1>b DEF IInv, TypeOK
    <3>4. ASSUME pc[a].op = "start"
          PROVE  /\ started[pc[a].id] = 0
                 /\ files'[pc[a].id] \cap {"result", "failure"} = {}
      <4>1. a \in Thread /\ Checked(pc[a])
        BY <1>b, <3>4 DEF IInv, CheckedOK
      <4>2. files'[pc[a].id] = files[pc[a].id] \cup {"attempt"}
        BY <1>b, <3>4 DEF IInv, TypeOK, RecordOf
      <4> QED BY <1>a, <1>b, <3>4, <4>1, <4>2 DEF Checked, IInv, TypeOK, StartedOK
    <3> QED BY <1>a, <2>2, <3>2, <3>3, <3>4 DEF Written
  <2>3. CASE b # a /\ pc[b].step \in {"written", "staged"}
    <3>1. pc'[b] = pc[b] /\ Written(pc[b])
      BY <2>3 DEF IInv, TypeOK, WrittenOK
    <3>2. pc[b].id \in Id /\ (pc[b].op = "start" => b \in Thread /\ pc[b].id \in Handoff)
      BY <2>3, WriterFacts
    <3>3. pc[b].op = "start" => a \notin Thread
      BY <1>a, <2>3, <3>2, MutualExclusion DEF InSection, Proc, Actor
    <3>4. pc[b].op = "start" => files'[pc[b].id] = files[pc[b].id]
      BY <1>b, <3>2, <3>3 DEF IInv, TypeOK
    <3> QED BY <1>a, <1>c, <3>1, <3>2, <3>4 DEF Written
  <2>4. CASE b # a /\ pc[b].step \notin {"written", "staged"}
    BY <1>a, <2>4 DEF IInv, TypeOK, Written
  <2> QED BY <2>2, <2>3, <2>4
<1>7. StartedOK'
  BY <1>a, <1>c DEF IInv, StartedOK, Id
<1>8. LedgerBacked' /\ ViewsBacked'
  BY <1>a, <1>c DEF IInv, LedgerBacked, ViewsBacked, Backed, Id
<1>9. EditOK'
  <2>1. \A b \in Actor : pc'[b].op = pc[b].op /\ pc'[b].id = pc[b].id
    BY DEF IInv, TypeOK
  <2>2. \A b \in Actor : pc'[b].step \in InSection => pc[b].step \in InSection
    BY <1>a DEF IInv, TypeOK
  <2>3. \A b \in Actor : pc[b].step \in InSection => pc[b].id \in Id
    BY WriterFacts DEF InSection
  <2> QED BY <1>c, <2>1, <2>2, <2>3 DEF IInv, EditOK
<1> QED BY <1>1, <1>2, <1>3, <1>4, <1>5, <1>6, <1>7, <1>8, <1>9 DEF IInv

\* The edited entry is a ledger entry, and backed if its record is on disk.
LEMMA NewEntryFacts ==
    ASSUME NEW op \in ThreadOp \cup RunnerOp, NEW e \in Entry
    PROVE  /\ NewEntry(op, e) \in Entry
           /\ NewEntry(op, e).state =
                CASE op \in {"prepare", "prepareSmoke"} -> "PREPARED"
                  [] op = "approve" -> "DISPATCHABLE"
                  [] op = "reject" -> "REJECTED"
                  [] op \in {"start", "transition"} -> "SENT"
                  [] op = "complete" -> "COMPLETED"
                  [] op = "fail" -> "FAILED"
                  [] op = "bind" -> e.state
           /\ NewEntry(op, e).bound => e.bound \/ op = "bind"
<1> USE DEF NewEntry, Entry, LedgerState
<1>1. CASE op \in {"prepare", "prepareSmoke"}
  BY <1>1 DEF PreparedEntry, Absent
<1>2. CASE op = "approve"
  BY <1>2 DEF ApprovedEntry
<1>3. CASE op = "reject"
  BY <1>3 DEF RejectedEntry
<1>4. CASE op = "start"
  BY <1>4 DEF StartedEntry
<1>5. CASE op = "transition"
  <2>1. NewEntry(op, e) = [state |-> "SENT", sends |-> e.sends + 1, bound |-> e.bound]
    BY <1>5 DEF TransitionEntry
  <2>2. e.sends + 1 \in Nat /\ e.bound \in BOOLEAN
    OBVIOUS
  <2> HIDE DEF NewEntry
  <2> QED BY <1>5, <2>1, <2>2
<1>6. CASE op = "complete"
  BY <1>6 DEF CompletedEntry
<1>7. CASE op = "fail"
  BY <1>7 DEF FailedEntry
<1>8. CASE op = "bind"
  BY <1>8 DEF BoundEntry
<1> QED
  BY <1>1, <1>2, <1>3, <1>4, <1>5, <1>6, <1>7, <1>8 DEF ThreadOp, RunnerOp

\* Staging the edited copy of the ledger.
LEMMA StageStep ==
    ASSUME IInv, NEW a \in Actor, StageLedger(a)
    PROVE  IInv'
<1> USE DEF StageLedger, Goto, world, history
<1>a. /\ pc[a].step = "written" /\ pc[a].step \in InSection
      /\ UNCHANGED <<ledger, files, envelope, lock, view, seen, route, ref,
                     tree, proto, churn, started, fresh>>
  BY DEF InSection
<1>b. pc[a].id \in Id /\ (pc[a].id \in Handoff <=> a \in Thread)
  BY <1>a, WriterFacts
<1>c. view[a] # NoView /\ view[a] \in Ledger
  BY <1>a DEF IInv, TypeOK
<1>d. /\ view[a][pc[a].id] \in Entry
      /\ pc[a].op \in ThreadOp \cup RunnerOp
      /\ NewEntry(pc[a].op, view[a][pc[a].id]) \in Entry
  <2>1. view[a][pc[a].id] \in Entry
    BY <1>b, <1>c DEF Ledger
  <2>2. pc[a].op \in ThreadOp \cup RunnerOp
    BY <1>a DEF IInv, OwnerOK
  <2> QED BY <2>1, <2>2, NewEntryFacts
<1>e. tmp' \in Ledger
  BY <1>c, <1>d DEF Ledger
<1>1. TypeOK'
  BY <1>a, <1>e DEF IInv, TypeOK, Step, InSection
<1>2. LockOK'
  BY <1>a DEF IInv, TypeOK, LockOK, InSection
<1>3. OwnerOK'
  BY <1>a DEF IInv, TypeOK, OwnerOK
<1>4. FilesOK'
  BY <1>a DEF IInv, FilesOK
<1>f. /\ \A b \in Actor : pc'[b].op = pc[b].op /\ pc'[b].id = pc[b].id
      /\ \A b \in Actor : b # a => pc'[b] = pc[b]
      /\ pc'[a].step = "staged"
  BY DEF IInv, TypeOK
<1>5. CheckedOK'
  <2> SUFFICES ASSUME NEW t \in Thread PROVE Checked(pc[t])'
    BY DEF CheckedOK
  <2>1. CASE t = a
    BY <1>a, <1>f, <2>1 DEF IInv, CheckedOK, Checked
  <2>2. CASE t # a
    BY <1>a, <1>f, <2>2 DEF IInv, CheckedOK, Checked, Actor
  <2> QED BY <2>1, <2>2
<1>6. WrittenOK'
  <2> SUFFICES ASSUME NEW b \in Actor PROVE Written(pc[b])'
    BY DEF WrittenOK
  <2>1. CASE b = a
    BY <1>a, <1>f, <2>1 DEF IInv, WrittenOK, Written
  <2>2. CASE b # a
    BY <1>a, <1>f, <2>2 DEF IInv, WrittenOK, Written
  <2> QED BY <2>1, <2>2
<1>7. StartedOK'
  BY <1>a DEF IInv, StartedOK
<1>8. Backed(tmp)'
  <2> DEFINE i == pc[a].id  new == NewEntry(pc[a].op, view[a][i])
  <2>1. Backed(view[a])
    BY <1>c DEF IInv, ViewsBacked
  <2>2. pc[a].op # "transition" => RecordOf[pc[a].op] \in files[i]
    BY <1>a DEF IInv, WrittenOK, Written
  <2>3. pc[a].op = "transition" => i \notin Handoff
    BY <1>a, <1>b, ActorAssumption DEF IInv, OwnerOK, ThreadOp
  <2>4. "artifact" \in files[i]
    BY <1>a, <2>2 DEF IInv, EditOK, RecordOf
  <2>5. /\ tmp'[i] = new
        /\ \A j \in Id : j # i => tmp'[j] = view[a][j]
    BY <1>b, <1>c DEF Ledger
  <2>6. /\ new.state = "DISPATCHABLE" => "approval" \in files[i]
        /\ new.state = "REJECTED" => "rejection" \in files[i]
        /\ new.state = "SENT" /\ i \in Handoff => "attempt" \in files[i]
        /\ new.state = "COMPLETED" => "result" \in files[i]
        /\ new.state = "FAILED" => "failure" \in files[i]
        /\ new.bound => "binding" \in files[i]
    BY <1>b, <1>d, <2>1, <2>2, <2>3, NewEntryFacts
    DEF Backed, RecordOf, ThreadOp, RunnerOp
  <2> HIDE DEF new
  <2> QED BY <1>a, <2>1, <2>4, <2>5, <2>6 DEF Backed
<1>9. LedgerBacked' /\ ViewsBacked'
  BY <1>a, <1>8 DEF IInv, LedgerBacked, ViewsBacked, Backed
<1>10. EditOK'
  BY <1>a DEF IInv, TypeOK, EditOK, InSection
<1> QED BY <1>1, <1>2, <1>3, <1>4, <1>5, <1>6, <1>7, <1>9, <1>10 DEF IInv

\* Replacing the ledger and leaving the critical section.
LEMMA InstallStep ==
    ASSUME IInv, NEW a \in Actor, InstallLedger(a)
    PROVE  IInv'
<1> USE DEF InstallLedger, Leave, Installs, world
<1>a. /\ pc[a].step = "staged" /\ pc[a].step \in InSection
      /\ UNCHANGED <<files, envelope, route, ref, tree, proto, churn, fresh>>
      /\ \A b \in Actor : b # a => pc'[b] = pc[b] /\ view'[b] = view[b]
      /\ pc'[a] = Idle /\ view'[a] = NoView
  BY DEF InSection, IInv, TypeOK
<1>b. pc[a].id \in Id /\ (pc[a].op = "start" => a \in Thread /\ pc[a].id \in Handoff)
  BY <1>a, WriterFacts
<1>c. /\ started' \in [Handoff -> Nat]
      /\ \A h \in Handoff : \/ started'[h] = started[h]
                            \/ /\ h = pc[a].id /\ pc[a].op = "start"
                               /\ started[h] = 0 /\ started'[h] = 1
  <2>1. pc[a].op = "start" => started[pc[a].id] = 0
    BY <1>a DEF IInv, WrittenOK, Written
  <2> QED BY <1>b, <2>1 DEF IInv, TypeOK
<1>1. TypeOK'
  <2>1. ledger' \in Ledger /\ tmp' \in Ledger \cup {NoView}
    BY DEF IInv, TypeOK
  <2>2. lock' \in [Process -> Actor \cup {NoActor}]
    BY DEF IInv, TypeOK
  <2>3. /\ pc' \in [Actor -> [op : Op, id : Id \cup {NoId}, step : Step]]
        /\ view' \in [Actor -> Ledger \cup {NoView}]
        /\ seen' \in [Actor -> Binding]
    BY DEF IInv, TypeOK, Idle, Op, Step, Blank, Binding
  <2>4. \A b \in Actor : pc'[b].step \in InSection <=> view'[b] # NoView
    BY <1>a DEF IInv, TypeOK, Idle, InSection
  <2> QED BY <1>a, <1>c, <2>1, <2>2, <2>3, <2>4 DEF IInv, TypeOK
<1>2. LockOK'
  <2> SUFFICES ASSUME NEW b \in Actor
               PROVE  pc'[b].step \in InSection <=> lock'[Proc(b)] = b
    BY DEF LockOK
  <2>1. lock' = [lock EXCEPT ![Proc(a)] = NoActor] /\ Proc(a) \in Process /\ Proc(b) \in Process
    BY DEF Proc, Process, Actor
  <2>2. CASE b = a
    BY <1>a, <2>1, <2>2, ActorAssumption DEF IInv, TypeOK, Idle, InSection
  <2>3. CASE b # a
    BY <1>a, <2>1, <2>3, ActorAssumption, MutualExclusion DEF IInv, TypeOK, LockOK
  <2> QED BY <2>2, <2>3
<1>3. OwnerOK'
  BY <1>a DEF IInv, OwnerOK, Idle
<1>4. FilesOK'
  BY <1>a DEF IInv, FilesOK
<1>5. CheckedOK'
  <2> SUFFICES ASSUME NEW t \in Thread PROVE Checked(pc[t])'
    BY DEF CheckedOK
  <2>1. CASE t = a
    BY <1>a, <2>1 DEF Idle, Checked
  <2>2. CASE t # a
    <3>1. Checked(pc[t])
      BY DEF IInv, CheckedOK
    <3>2. pc[t].op \in {"complete", "fail"} => pc[t].id \in Handoff
      BY ActorAssumption DEF IInv, OwnerOK, Actor
    <3>3. pc[t].op \in {"complete", "fail"} => started'[pc[t].id] > 0
      BY <1>c, <3>1, <3>2 DEF Checked
    <3> QED BY <1>a, <2>2, <3>1, <3>3 DEF Checked, Actor
  <2> QED BY <2>1, <2>2
<1>6. WrittenOK'
  <2> SUFFICES ASSUME NEW b \in Actor PROVE Written(pc[b])'
    BY DEF WrittenOK
  <2>1. CASE b = a
    BY <1>a, <2>1 DEF Idle, Written
  <2>2. CASE b # a /\ pc[b].step \in {"written", "staged"} /\ pc[b].op = "start"
    <3>1. pc[a].op # "start"
      BY <1>a, <1>b, <2>2, WriterFacts, MutualExclusion DEF Proc, InSection
    <3>2. started' = started
      BY <3>1
    <3> QED BY <1>a, <2>2, <3>2 DEF IInv, WrittenOK, Written
  <2>3. CASE b # a /\ ~ (pc[b].step \in {"written", "staged"} /\ pc[b].op = "start")
    BY <1>a, <2>3 DEF IInv, WrittenOK, Written
  <2> QED BY <2>1, <2>2, <2>3
<1>7. StartedOK'
  <2>1. pc[a].op = "start" => "attempt" \in files[pc[a].id]
    BY <1>a DEF IInv, WrittenOK, Written, RecordOf
  <2> QED BY <1>a, <1>c, <2>1 DEF IInv, StartedOK, TypeOK
<1>8. LedgerBacked'
  BY <1>a DEF IInv, LedgerBacked, Backed
<1>9. ViewsBacked'
  BY <1>a DEF IInv, ViewsBacked, Backed
<1>10. EditOK'
  BY <1>a DEF IInv, EditOK, Idle, InSection
<1> QED BY <1>1, <1>2, <1>3, <1>4, <1>5, <1>6, <1>7, <1>8, <1>9, <1>10 DEF IInv

-----------------------------------------------------------------------------
(* The environment.                                                        *)

\* A change of the world keeps the invariant, which does not mention the world.
LEMMA ChurnStep ==
    ASSUME IInv, ChangeRoute \/ Rebind \/ EditTree
    PROVE  IInv'
<1> USE DEF ChangeRoute, Rebind, EditTree, Change, disk, memory
<1>1. fresh' \in [Handoff -> SUBSET {"route", "tree", "proto"}]
  BY DEF IInv, TypeOK, Refresh, Holding
<1>2. TypeOK'
  <2>1. route' \in BOOLEAN
    <3>1. route' = ~ route \/ route' = route
      OBVIOUS
    <3> HIDE DEF ChangeRoute, Rebind, EditTree
    <3> QED BY <3>1, Zenon DEF IInv, TypeOK
  <2>2. ref' \in Seal /\ tree' \in Seal /\ churn' \in Nat
    BY DEF IInv, TypeOK
  <2> QED BY <1>1, <2>1, <2>2 DEF IInv, TypeOK
<1>3. (LockOK /\ OwnerOK /\ FilesOK /\ CheckedOK /\ WrittenOK /\ EditOK /\ StartedOK)'
  BY DEF IInv, LockOK, OwnerOK, FilesOK, CheckedOK, Checked, WrittenOK, Written,
         EditOK, StartedOK
<1>4. LedgerBacked' /\ ViewsBacked'
  BY DEF IInv, LedgerBacked, ViewsBacked, Backed
<1> QED BY <1>2, <1>3, <1>4 DEF IInv

\* A crash keeps the invariant: what stays on disk is all that it relies on.
LEMMA CrashStep ==
    ASSUME IInv, NEW p \in Process, Crash(p)
    PROVE  IInv'
<1> USE DEF Crash, Change, disk
<1>a. /\ UNCHANGED <<ledger, tmp, files, envelope, started, route, ref, tree>>
      /\ \A b \in Actor : IF Proc(b) = p THEN pc'[b] = Idle /\ view'[b] = NoView
                           ELSE pc'[b] = pc[b] /\ view'[b] = view[b]
  OBVIOUS
<1>1. TypeOK'
  <2>1. fresh' \in [Handoff -> SUBSET {"route", "tree", "proto"}]
    BY DEF IInv, TypeOK, Refresh, Holding
  <2>2. /\ pc' \in [Actor -> [op : Op, id : Id \cup {NoId}, step : Step]]
        /\ view' \in [Actor -> Ledger \cup {NoView}]
        /\ seen' \in [Actor -> Binding]
    BY DEF IInv, TypeOK, Idle, Op, Step, Blank, Binding
  <2>3. /\ lock' \in [Process -> Actor \cup {NoActor}]
        /\ proto' \in Protocol \cup {Undiscovered}
        /\ churn' \in Nat
    BY DEF IInv, TypeOK
  <2>4. \A b \in Actor : pc'[b].step \in InSection <=> view'[b] # NoView
    BY <1>a DEF IInv, TypeOK, Idle, InSection
  <2> QED BY <1>a, <2>1, <2>2, <2>3, <2>4 DEF IInv, TypeOK
<1>2. LockOK'
  <2> SUFFICES ASSUME NEW b \in Actor
               PROVE  pc'[b].step \in InSection <=> lock'[Proc(b)] = b
    BY DEF LockOK
  <2>1. Proc(b) \in Process
    BY DEF Proc, Process, Actor
  <2> QED BY <1>a, <2>1, ActorAssumption DEF IInv, TypeOK, LockOK, Idle, InSection
<1>3. OwnerOK' /\ FilesOK' /\ StartedOK'
  BY <1>a DEF IInv, OwnerOK, FilesOK, StartedOK, Idle
<1>4. CheckedOK'
  BY <1>a DEF IInv, CheckedOK, Checked, Idle, Actor
<1>5. WrittenOK' /\ EditOK'
  BY <1>a DEF IInv, WrittenOK, Written, EditOK, Idle, InSection
<1>6. LedgerBacked' /\ ViewsBacked'
  BY <1>a DEF IInv, LedgerBacked, ViewsBacked, Backed
<1> QED BY <1>1, <1>2, <1>3, <1>4, <1>5, <1>6 DEF IInv

\* So does a write that fails, which is a crash of one operation.
LEMMA WriteFailsStep ==
    ASSUME IInv, NEW a \in Actor, WriteFails(a)
    PROVE  IInv'
<1> USE DEF WriteFails, Change, disk, Leave
<1>a. /\ UNCHANGED <<ledger, tmp, files, envelope, started, route, ref, tree, proto, fresh>>
      /\ pc'[a] = Idle /\ view'[a] = NoView
      /\ \A b \in Actor : b # a => pc'[b] = pc[b] /\ view'[b] = view[b]
  BY DEF IInv, TypeOK
<1>1. TypeOK'
  <2>1. /\ pc' \in [Actor -> [op : Op, id : Id \cup {NoId}, step : Step]]
        /\ view' \in [Actor -> Ledger \cup {NoView}]
        /\ seen' \in [Actor -> Binding]
    BY DEF IInv, TypeOK, Idle, Op, Step, Blank, Binding
  <2>2. lock' \in [Process -> Actor \cup {NoActor}]
    BY DEF IInv, TypeOK
  <2>c. churn' \in Nat
    BY DEF IInv, TypeOK
  <2>3. \A b \in Actor : pc'[b].step \in InSection <=> view'[b] # NoView
    BY <1>a DEF IInv, TypeOK, Idle, InSection
  <2> QED BY <1>a, <2>1, <2>2, <2>c, <2>3 DEF IInv, TypeOK
<1>2. LockOK'
  <2> SUFFICES ASSUME NEW b \in Actor
               PROVE  pc'[b].step \in InSection <=> lock'[Proc(b)] = b
    BY DEF LockOK
  <2>1. Proc(a) \in Process /\ Proc(b) \in Process /\ lock[Proc(a)] = a
    BY DEF Proc, Process, Actor, IInv, LockOK
  <2>2. b # NoActor
    BY ActorAssumption
  <2>3. CASE b = a
    BY <1>a, <2>1, <2>2, <2>3 DEF IInv, TypeOK, Idle, InSection
  <2>4. CASE b # a
    BY <1>a, <2>1, <2>2, <2>4 DEF IInv, TypeOK, LockOK
  <2> QED BY <2>3, <2>4
<1>3. OwnerOK' /\ FilesOK' /\ StartedOK'
  BY <1>a DEF IInv, OwnerOK, FilesOK, StartedOK, Idle
<1>4. CheckedOK'
  <2> SUFFICES ASSUME NEW t \in Thread PROVE Checked(pc[t])'
    BY DEF CheckedOK
  <2>1. t \in Actor
    BY DEF Actor
  <2>2. CASE t = a
    BY <1>a, <2>2 DEF Checked, Idle
  <2>3. CASE t # a
    <3>1. pc'[t] = pc[t]
      BY <1>a, <2>1, <2>3
    <3> QED BY <1>a, <3>1 DEF IInv, CheckedOK, Checked
  <2> QED BY <2>2, <2>3
<1>5. WrittenOK' /\ EditOK'
  BY <1>a DEF IInv, WrittenOK, Written, EditOK, Idle, InSection
<1>6. LedgerBacked' /\ ViewsBacked'
  BY <1>a DEF IInv, LedgerBacked, ViewsBacked, Backed
<1> QED BY <1>1, <1>2, <1>3, <1>4, <1>5, <1>6 DEF IInv

-----------------------------------------------------------------------------
(* The theorems.                                                           *)

\* The initial states satisfy the invariant.
LEMMA InitIInv == Init => IInv
<1> SUFFICES ASSUME Init PROVE IInv
  OBVIOUS
<1> USE DEF Init
<1>1. Absent \in Entry
  BY DEF Absent, Entry, LedgerState
<1>2. TypeOK
  BY <1>1
  DEF TypeOK, Ledger, Record, Binding, Blank, Idle, Op, Step, InSection, Process
<1>3. LockOK
  BY ActorAssumption DEF LockOK, Idle, InSection, Proc, Process, Actor
<1>4. OwnerOK /\ FilesOK /\ CheckedOK /\ WrittenOK /\ EditOK /\ StartedOK
  BY DEF OwnerOK, FilesOK, CheckedOK, Checked, WrittenOK, Written, EditOK,
         StartedOK, Idle, InSection, Id, Actor
<1>5. LedgerBacked /\ ViewsBacked
  BY DEF LedgerBacked, ViewsBacked, Backed, Absent
<1> QED BY <1>2, <1>3, <1>4, <1>5 DEF IInv

\* Every step, stuttering included, keeps the invariant.
LEMMA NextIInv == IInv /\ [Next]_vars => IInv'
<1> SUFFICES ASSUME IInv, [Next]_vars PROVE IInv'
  OBVIOUS
<1>1. CASE Calls
  BY <1>1, CallStep
<1>2. ASSUME NEW a \in Actor, StoreStep(a) PROVE IInv'
  BY <1>2, InspectStep, EnterStep, WriteStep, StageStep, InstallStep DEF StoreStep
<1>3. CASE Environment
  BY <1>3, ChurnStep, CrashStep, WriteFailsStep DEF Environment
<1>4. CASE UNCHANGED vars
  BY <1>4
  DEF vars, IInv, TypeOK, LockOK, OwnerOK, FilesOK, CheckedOK, Checked, WrittenOK,
      Written, EditOK, StartedOK, LedgerBacked, ViewsBacked, Backed
<1> QED BY <1>1, <1>2, <1>3, <1>4 DEF Next

\* The inductive invariant holds in every reachable state: lock, owner, record
\* files and ledger copies agree at every point of every operation.
THEOREM Inductive == Spec => []IInv
BY InitIInv, NextIInv, PTL DEF Spec

\* Type correctness of the dispatch ledger.
THEOREM TypeCorrect == Spec => []TypeOK
BY Inductive, PTL DEF IInv

\* start_dispatch succeeds at most once per handoff, for any number of console
\* threads and smoke runners and with crashes anywhere.
THEOREM AtMostOnce == Spec => []AtMostOneStart
<1>1. IInv => AtMostOneStart
  BY DEF IInv, StartedOK, AtMostOneStart
<1> QED BY <1>1, Inductive, PTL

\* The ledger never claims a step whose record file is not on disk.
THEOREM WriteAhead == Spec => []LedgerBacked
<1>1. IInv => LedgerBacked
  BY DEF IInv
<1> QED BY <1>1, Inductive, PTL

-----------------------------------------------------------------------------
(* Refinement: the record files implement ExactlyOnceDispatch.             *)

phaseBar == [h \in Handoff |-> Reached(h)]

\* A step that touches neither the record files nor the count of started
\* dispatches is a stutter of the abstract protocol.
LEMMA SamePhase ==
    ASSUME UNCHANGED <<files, started>>
    PROVE  UNCHANGED <<phaseBar, started>>
BY DEF phaseBar, Reached

\* Only the handoff whose record is written can change phase.
LEMMA MovedPhase ==
    ASSUME NEW h \in Handoff, NEW r, IInv, files' = [files EXCEPT ![h] = @ \cup {r}]
    PROVE  phaseBar' = [phaseBar EXCEPT ![h] = Reached(h)']
BY DEF phaseBar, Reached, IInv, TypeOK, Id

\* Writing a record file moves its handoff to the next phase.
LEMMA WriteMoves ==
    ASSUME IInv, NEW a \in Actor, WriteRecord(a)
    PROVE  [Promise!Next]_<<phaseBar, started>>
<1> PICK h : h = pc[a].id
  OBVIOUS
<1>1. /\ pc[a].step = "checked" /\ pc[a].step \in InSection
      /\ started' = started
  BY DEF WriteRecord, InSection
<1>2. h \in Id /\ (h \in Handoff <=> a \in Thread)
  BY <1>1, WriterFacts
<1>3. CASE a \notin Thread
  <2>1. \A g \in Handoff : files'[g] = files[g]
    BY <1>2, <1>3 DEF WriteRecord, IInv, TypeOK, Id
  <2>2. phaseBar' = phaseBar
    BY <2>1 DEF phaseBar, Reached
  <2> QED BY <1>1, <2>2
<1>4. CASE a \in Thread
  <2>1. /\ pc[a].op \in ThreadOp /\ Checked(pc[a]) /\ h \in Handoff
    BY <1>1, <1>2, <1>4, ActorAssumption DEF IInv, OwnerOK, CheckedOK
  <2>2. files' = [files EXCEPT ![h] = @ \cup {RecordOf[pc[a].op]}]
    BY <2>1 DEF WriteRecord, ThreadOp
  <2>3. files'[h] = files[h] \cup {RecordOf[pc[a].op]}
    BY <1>2, <2>2 DEF IInv, TypeOK
  <2>4. phaseBar' = [phaseBar EXCEPT ![h] = Reached(h)'] /\ phaseBar[h] = Reached(h)
    BY <2>1, <2>2, MovedPhase DEF phaseBar
  <2>5. /\ pc[a].op # "prepare" => "artifact" \in files[h]
        /\ "attempt" \in files[h] => "approval" \in files[h]
        /\ ~ {"approval", "rejection"} \subseteq files[h]
        /\ files[h] \cap {"result", "failure"} # {} => "attempt" \in files[h]
    BY <1>1, <2>1 DEF IInv, EditOK, FilesOK, ThreadOp
  <2> USE DEF Promise!Next, Promise!Move
  <2>6. CASE pc[a].op = "prepare"
    <3>1. Reached(h) = "none" /\ Reached(h)' = "proposed"
      BY <1>1, <2>1, <2>3, <2>6 DEF Checked, Reached, RecordOf
    <3>2. Promise!Propose(h)
      BY <1>1, <2>4, <3>1 DEF Promise!Propose, phaseBar
    <3> QED BY <2>1, <3>2
  <2>7. CASE pc[a].op = "approve"
    <3>1. Reached(h) = "proposed" /\ Reached(h)' = "approved"
      BY <1>1, <2>1, <2>3, <2>5, <2>7 DEF Checked, Reached, RecordOf
    <3>2. Promise!Approve(h)
      BY <1>1, <2>4, <3>1 DEF Promise!Approve, phaseBar
    <3> QED BY <2>1, <3>2
  <2>8. CASE pc[a].op = "reject"
    <3>1. Reached(h) = "proposed" /\ Reached(h)' = "rejected"
      BY <1>1, <2>1, <2>3, <2>5, <2>8 DEF Checked, Reached, RecordOf
    <3>2. Promise!Reject(h)
      BY <1>1, <2>4, <3>1 DEF Promise!Reject, phaseBar
    <3> QED BY <2>1, <3>2
  <2>9. CASE pc[a].op = "start"
    <3>1. Reached(h) = "approved" /\ Reached(h)' = "consumed"
      BY <1>1, <2>1, <2>3, <2>5, <2>9 DEF Checked, Reached, RecordOf
    <3>2. Promise!Consume(h)
      BY <1>1, <2>4, <3>1 DEF Promise!Consume, phaseBar
    <3> QED BY <2>1, <3>2
  <2>10. CASE pc[a].op \in {"complete", "fail"}
    <3>1. "attempt" \in files[h]
      BY <2>1, <2>10 DEF Checked, IInv, StartedOK
    <3>2. Reached(h) \in {"consumed", "settled"} /\ Reached(h)' = "settled"
      BY <2>3, <2>10, <3>1 DEF Reached, RecordOf
    <3>3. CASE Reached(h) = "consumed"
      <4>1. Promise!Settle(h)
        BY <1>1, <2>4, <3>2, <3>3 DEF Promise!Settle, phaseBar
      <4> QED BY <2>1, <4>1
    <3>4. CASE Reached(h) = "settled"
      BY <1>1, <2>4, <3>2, <3>4 DEF phaseBar
    <3> QED BY <3>2, <3>3, <3>4
  <2> QED BY <2>1, <2>6, <2>7, <2>8, <2>9, <2>10 DEF ThreadOp
<1> QED BY <1>3, <1>4

\* A successful start is the one send of a consumed handoff.
LEMMA InstallSends ==
    ASSUME IInv, NEW a \in Actor, InstallLedger(a)
    PROVE  [Promise!Next]_<<phaseBar, started>>
<1>1. phaseBar' = phaseBar
  BY DEF InstallLedger, phaseBar, Reached
<1>2. CASE started' = started
  BY <1>1, <1>2
<1>3. CASE started' # started
  <2> DEFINE h == pc[a].id
  <2>1. pc[a].op = "start" /\ started' = [started EXCEPT ![h] = @ + 1]
        /\ pc[a].step = "staged"
    BY <1>3 DEF InstallLedger
  <2>2. h \in Handoff
    BY <2>1, WriterFacts
  <2>3. /\ started[h] = 0 /\ "attempt" \in files[h]
        /\ files[h] \cap {"result", "failure"} = {}
    BY <2>1 DEF IInv, WrittenOK, Written, RecordOf
  <2>4. phaseBar[h] = "consumed"
    BY <2>2, <2>3 DEF phaseBar, Reached
  <2>5. started' = [started EXCEPT ![h] = 1]
    BY <2>1, <2>2, <2>3 DEF IInv, TypeOK
  <2>6. Promise!Send(h)
    BY <1>1, <2>3, <2>4, <2>5 DEF Promise!Send, phaseBar
  <2> QED BY <2>2, <2>6 DEF Promise!Next
<1> QED BY <1>2, <1>3

\* Every step of the ledger is a step of the abstract protocol or a stutter.
LEMMA StepMoves == IInv /\ [Next]_vars => [Promise!Next]_<<phaseBar, started>>
<1> SUFFICES ASSUME IInv, [Next]_vars PROVE [Promise!Next]_<<phaseBar, started>>
  OBVIOUS
<1>1. CASE UNCHANGED <<files, started>>
  BY <1>1, SamePhase
<1>2. CASE ~ UNCHANGED <<files, started>>
  <2>1. PICK a \in Actor : WriteRecord(a) \/ InstallLedger(a)
    BY <1>2
    DEF Next, vars, Calls, CallPrepare, CallDecide, CallStart, CallFinish, CallSmoke,
        Call, StoreStep, InspectDecision, InspectStart, ResolveRoute, VerifyTree,
        VerifyProtocol, EnterPrepare, EnterPrepareSmoke, EnterDecide, EnterStart,
        EnterComplete, EnterFail, EnterBind, EnterTransition, Enter, StageLedger,
        Environment, ChangeRoute, Rebind, EditTree, Crash, WriteFails, Change, disk, history
  <2> QED BY <2>1, WriteMoves, InstallSends
<1> QED BY <1>1, <1>2

\* The ledger implements the exactly-once protocol: every behaviour of the
\* record files is one of ExactlyOnceDispatch, whatever the ledger loses.
THEOREM Refinement == Spec => ExactlyOnce
<1>1. Init => Promise!Init
  BY DEF Init, Promise!Init, Reached, Id
<1>2. IInv /\ [Next]_vars
        => [Promise!Next]_<<[h \in Handoff |-> Reached(h)], started>>
  BY StepMoves DEF phaseBar
<1> QED BY <1>1, <1>2, Inductive, PTL DEF Spec, ExactlyOnce, Promise!Spec

-----------------------------------------------------------------------------
(* A started turn is fresh: what the unlocked verification of a start has  *)
(* read so far was collected by the history of its approval.               *)

\* The facts a start has verified when it is at a step.
Past(step) ==
    CASE step \in {"idle", "called", "route"} -> {}
      [] step = "tree" -> {"route"}
      [] step = "proto" -> {"route", "tree"}
      [] step \in {"ready", "checked", "written", "staged"} -> {"route", "tree", "proto"}

\* A start past its inspection is of an approved handoff, and what it has
\* verified was true at some instant since that approval.
Verified(c) ==
    c.op = "start" =>
        /\ c.step \notin {"idle", "called"} => "approval" \in files[c.id]
        /\ Past(c.step) \subseteq fresh[c.id]

\* Facts that hold now were collected for every approved handoff.
Collected == \A h \in Handoff : "approval" \in files[h] => Holding(h) \subseteq fresh[h]

FreshOK ==
    /\ Collected
    /\ \A t \in Thread : Verified(pc[t])
    /\ StartIsFresh

\* A step of one actor that touches neither the record files nor the facts.
LEMMA FreshLocal ==
    ASSUME IInv, FreshOK, NEW a \in Actor, NEW e, pc' = [pc EXCEPT ![a] = e],
           a \in Thread => Verified(e),
           UNCHANGED <<files, envelope, route, tree, proto, fresh, started>>
    PROVE  FreshOK'
<1>1. Collected' /\ StartIsFresh'
  BY DEF FreshOK, Collected, Holding, StartIsFresh
<1>2. ASSUME NEW t \in Thread PROVE Verified(pc[t])'
  <2>1. t \in Actor /\ pc'[t] = IF t = a THEN e ELSE pc[t]
    BY DEF Actor, IInv, TypeOK
  <2>2. Verified(pc'[t])
    BY <2>1 DEF FreshOK
  <2> QED BY <2>2 DEF Verified
<1> QED BY <1>1, <1>2 DEF FreshOK

\* An actor that goes to another step of its operation.
LEMMA FreshGoto ==
    ASSUME IInv, FreshOK, NEW a \in Actor, NEW step, Goto(a, step),
           a \in Thread /\ pc[a].op = "start" =>
               /\ "approval" \in files[pc[a].id]
               /\ Past(step) \subseteq fresh[pc[a].id],
           UNCHANGED <<files, envelope, route, tree, proto, fresh, started>>
    PROVE  FreshOK'
<1> PICK e : e = [pc[a] EXCEPT !.step = step]
  OBVIOUS
<1>1. pc[a] \in [op : Op, id : Id \cup {NoId}, step : Step]
  BY DEF IInv, TypeOK
<1>2. e.op = pc[a].op /\ e.id = pc[a].id /\ e.step = step
  BY <1>1
<1>3. pc' = [pc EXCEPT ![a] = e]
  BY Zenon DEF Goto
<1>4. a \in Thread => Verified(e)
  BY <1>2 DEF Verified
<1> QED BY <1>3, <1>4, FreshLocal

\* An actor that leaves its operation without a send.
LEMMA FreshLeave ==
    ASSUME IInv, FreshOK, NEW a \in Actor, Leave(a),
           UNCHANGED <<files, envelope, route, tree, proto, fresh, started>>
    PROVE  FreshOK'
<1>1. Verified(Idle)
  BY DEF Verified, Idle
<1> QED BY <1>1, FreshLocal DEF Leave

\* Calls, and the steps of the unlocked verification.
LEMMA FreshOutside ==
    ASSUME IInv, FreshOK, NEW a \in Actor,
           \/ InspectDecision(a) \/ InspectStart(a)
           \/ ResolveRoute(a) \/ VerifyTree(a) \/ VerifyProtocol(a)
    PROVE  FreshOK'
<1>1. /\ pc[a].step # "idle" => pc[a].id \in Id /\ (pc[a].id \in Handoff <=> a \in Thread)
      /\ a \in Thread => Verified(pc[a])
  BY WriterFacts DEF FreshOK
<1>2. UNCHANGED <<files, envelope, route, tree, proto, fresh, started>>
  BY DEF InspectDecision, InspectStart, ResolveRoute, VerifyTree, VerifyProtocol,
         disk, world, history
<1>3. a \in Thread /\ pc[a].step # "idle" /\ "approval" \in files[pc[a].id]
        => Holding(pc[a].id) \subseteq fresh[pc[a].id]
  BY <1>1 DEF FreshOK, Collected
<1>4. CASE InspectDecision(a)
  BY <1>2, <1>4, FreshGoto, FreshLeave DEF InspectDecision, Proceed
<1>5. CASE InspectStart(a)
  BY <1>2, <1>5, FreshGoto, FreshLeave DEF InspectStart, Proceed, At, Past
<1>6. CASE ResolveRoute(a)
  <2>1. CASE route
    <3>1. pc[a].step = "route" /\ Goto(a, "tree") /\ "route" \in Holding(pc[a].id)
      BY <1>6, <2>1 DEF ResolveRoute, Holding
    <3> QED BY <1>1, <1>2, <1>3, <3>1, FreshGoto DEF Past, Verified
  <2> QED BY <1>2, <1>6, <2>1, FreshLeave DEF ResolveRoute
<1>7. CASE VerifyTree(a)
  <2>1. CASE Goto(a, "proto") /\ (pc[a].op = "start" => envelope[pc[a].id].seal = tree)
    <3>1. pc[a].step = "tree" /\ (pc[a].op = "start" => "tree" \in Holding(pc[a].id))
      BY <1>7, <2>1 DEF VerifyTree, Holding
    <3> QED BY <1>1, <1>2, <1>3, <2>1, <3>1, FreshGoto DEF Past, Verified
  <2> QED BY <1>2, <1>7, <2>1, FreshLeave DEF VerifyTree, Proceed
<1>8. CASE VerifyProtocol(a)
  <2>1. CASE Goto(a, "ready") /\ (pc[a].op = "start" => envelope[pc[a].id].proto = proto)
    <3>1. pc[a].step = "proto" /\ (pc[a].op = "start" => "proto" \in Holding(pc[a].id))
      BY <1>8, <2>1 DEF VerifyProtocol, Holding
    <3> QED BY <1>1, <1>2, <1>3, <2>1, <3>1, FreshGoto DEF Past, Verified
  <2> QED BY <1>2, <1>8, <2>1, FreshLeave DEF VerifyProtocol
<1> QED BY <1>4, <1>5, <1>6, <1>7, <1>8

\* A call has verified nothing yet.
LEMMA FreshCall ==
    ASSUME IInv, FreshOK, Calls
    PROVE  FreshOK'
<1>1. PICK a \in Actor, op \in Op, i \in Id, step \in {"called", "route", "ready"} :
          Call(a, op, i, step) /\ (op = "start" => step = "called")
  BY DEF Calls, CallPrepare, CallDecide, CallStart, CallFinish, CallSmoke, Op, Id, Actor
<1> DEFINE e == [op |-> op, id |-> i, step |-> step]
<1>2. Verified(e)
  BY <1>1 DEF Verified, Past
<1>3. pc' = [pc EXCEPT ![a] = e]
  BY <1>1 DEF Call
<1>4. UNCHANGED <<files, envelope, route, tree, proto, fresh, started>>
  BY <1>1 DEF Call, disk, world, history
<1> HIDE DEF e
<1> QED BY <1>2, <1>3, <1>4, FreshLocal

\* Entering the critical section, and staging, verify nothing more.
LEMMA FreshEnter ==
    ASSUME IInv, FreshOK, NEW a \in Actor,
           \/ EnterPrepare(a) \/ EnterPrepareSmoke(a) \/ EnterDecide(a)
           \/ EnterStart(a) \/ EnterComplete(a) \/ EnterFail(a)
           \/ EnterBind(a) \/ EnterTransition(a) \/ StageLedger(a)
    PROVE  FreshOK'
<1>1. a \in Thread => Verified(pc[a])
  BY DEF FreshOK
<1>2. ASSUME NEW from, NEW blockers, Enter(a, from, blockers) PROVE FreshOK'
  BY <1>1, <1>2, FreshGoto, FreshLeave DEF Enter, Past, Verified, disk, world, history
<1>3. CASE StageLedger(a)
  BY <1>1, <1>3, FreshGoto DEF StageLedger, Past, Verified, world, history
<1> QED
  BY <1>2, <1>3
  DEF EnterPrepare, EnterPrepareSmoke, EnterDecide, EnterStart,
      EnterComplete, EnterFail, EnterBind, EnterTransition

\* The record file of an approval opens a new collection, at a moment when no
\* start of that handoff can have read anything.
LEMMA FreshWrite ==
    ASSUME IInv, FreshOK, NEW a \in Actor, WriteRecord(a)
    PROVE  FreshOK'
<1> PICK i : i = pc[a].id
  OBVIOUS
<1>1. /\ pc[a].step = "checked" /\ i \in Id /\ (i \in Handoff <=> a \in Thread)
      /\ pc[a].op \in {"prepare", "approve", "reject", "start"} => a \in Thread
      /\ UNCHANGED <<route, tree, proto, started>>
  BY WriterFacts DEF WriteRecord, world
<1>2. a \in Thread => Checked(pc[a])
  BY DEF IInv, CheckedOK
<1>3. /\ files' \in [Id -> SUBSET Record]
      /\ \A j \in Id : files[j] \subseteq files'[j]
      /\ \A j \in Id : "approval" \in files'[j] => "approval" \in files[j] \/ (j = i /\ pc[a].op = "approve")
  <2>1. CASE pc[a].op = "transition"
    BY <2>1 DEF WriteRecord, IInv, TypeOK
  <2>2. CASE pc[a].op # "transition"
    <3>1. files' = [files EXCEPT ![i] = @ \cup {RecordOf[pc[a].op]}]
      BY <2>2 DEF WriteRecord
    <3>2. pc[a].op \in ThreadOp \cup RunnerOp
      BY <1>1 DEF IInv, OwnerOK
    <3>3. RecordOf[pc[a].op] \in Record
          /\ (RecordOf[pc[a].op] = "approval" => pc[a].op = "approve")
      BY <2>2, <3>2 DEF RecordOf, Record, ThreadOp, RunnerOp
    <3> QED BY <1>1, <3>1, <3>3 DEF IInv, TypeOK
  <2> QED BY <2>1, <2>2
<1>4. \A h \in Handoff : h # i \/ pc[a].op # "prepare" => envelope'[h] = envelope[h]
  BY DEF WriteRecord, IInv, TypeOK
<1>5. \A h \in Handoff : fresh'[h] = IF h = i /\ pc[a].op = "approve" THEN Holding(h) ELSE fresh[h]
  BY DEF WriteRecord, IInv, TypeOK
<1>6. pc[a].op = "approve" => "approval" \notin files[i]
  BY <1>1, <1>2 DEF Checked
<1>7. pc[a].op = "prepare" => "approval" \notin files'[i]
  BY <1>1, <1>2, <1>3 DEF Checked
<1>8. Collected'
  <2> SUFFICES ASSUME NEW h \in Handoff, "approval" \in files'[h]
               PROVE  Holding(h)' \subseteq fresh'[h]
    BY DEF Collected
  <2>1. envelope'[h] = envelope[h]
    BY <1>4, <1>7
  <2>2. Holding(h)' = Holding(h)
    BY <1>1, <2>1 DEF Holding
  <2>3. h \in Id
    BY DEF Id
  <2> QED BY <1>3, <1>5, <2>2, <2>3 DEF FreshOK, Collected
<1>9. StartIsFresh'
  <2> SUFFICES ASSUME NEW h \in Handoff, started[h] > 0
               PROVE  fresh'[h] = {"route", "tree", "proto"}
    BY <1>1 DEF StartIsFresh
  <2>1. "approval" \in files[h]
    BY DEF IInv, StartedOK, FilesOK
  <2> QED BY <1>5, <1>6, <2>1 DEF FreshOK, StartIsFresh
<1>10. ASSUME NEW t \in Thread PROVE Verified(pc[t])'
  <2>1. Verified(pc[t]) /\ t \in Actor
    BY DEF FreshOK, Actor
  <2>2. /\ pc'[t].op = pc[t].op /\ pc'[t].id = pc[t].id
        /\ pc'[t].step = IF t = a THEN "written" ELSE pc[t].step
    BY <2>1 DEF WriteRecord, Goto, IInv, TypeOK
  <2>3. Past(pc'[t].step) = Past(pc[t].step)
    BY <1>1, <2>2 DEF Past
  <2>4. CASE pc[t].op = "start" /\ pc[t].step \notin {"idle", "called"}
    <3>1. pc[t].id \in Handoff /\ pc[t].id \in Id
      BY <2>1, <2>4, WriterFacts
    <3>2. "approval" \in files[pc[t].id] /\ Past(pc[t].step) \subseteq fresh[pc[t].id]
      BY <2>1, <2>4 DEF Verified
    <3>3. fresh'[pc[t].id] = fresh[pc[t].id]
      BY <1>5, <1>6, <3>1, <3>2
    <3> QED BY <1>3, <2>2, <2>3, <3>1, <3>2, <3>3 DEF Verified
  <2>5. CASE pc[t].op = "start" /\ pc[t].step \in {"idle", "called"}
    BY <1>1, <2>2, <2>5 DEF Verified, Past
  <2>6. CASE pc[t].op # "start"
    BY <2>2, <2>6 DEF Verified
  <2> QED BY <2>4, <2>5, <2>6
<1> QED BY <1>8, <1>9, <1>10 DEF FreshOK

\* A successful start had verified all three facts.
LEMMA FreshInstall ==
    ASSUME IInv, FreshOK, NEW a \in Actor, InstallLedger(a)
    PROVE  FreshOK'
<1>1. /\ pc[a].step = "staged"
      /\ UNCHANGED <<files, envelope, route, tree, proto, fresh>>
      /\ pc' = [pc EXCEPT ![a] = Idle]
  BY DEF InstallLedger, Leave, world
<1>2. Collected'
  BY <1>1 DEF FreshOK, Collected, Holding
<1>3. ASSUME NEW t \in Thread PROVE Verified(pc[t])'
  <2>1. t \in Actor /\ pc'[t] = IF t = a THEN Idle ELSE pc[t]
    BY <1>1 DEF Actor, IInv, TypeOK
  <2>2. Verified(pc'[t])
    BY <2>1 DEF FreshOK, Verified, Idle
  <2> QED BY <1>1, <2>2 DEF Verified
<1>4. StartIsFresh'
  <2>1. pc[a].op = "start" => /\ a \in Thread
                              /\ fresh[pc[a].id] = {"route", "tree", "proto"}
    <3> SUFFICES ASSUME pc[a].op = "start"
                 PROVE  a \in Thread /\ fresh[pc[a].id] = {"route", "tree", "proto"}
      OBVIOUS
    <3>1. a \in Thread /\ pc[a].id \in Handoff
      BY <1>1, WriterFacts
    <3>2. {"route", "tree", "proto"} \subseteq fresh[pc[a].id]
      BY <1>1, <3>1 DEF FreshOK, Verified, Past
    <3>3. fresh[pc[a].id] \in SUBSET {"route", "tree", "proto"}
      BY <3>1 DEF IInv, TypeOK
    <3> QED BY <3>1, <3>2, <3>3
  <2>2. \A h \in Handoff : started'[h] # started[h] => h = pc[a].id /\ pc[a].op = "start"
    BY DEF InstallLedger, IInv, TypeOK
  <2> SUFFICES ASSUME NEW h \in Handoff, started'[h] > 0
               PROVE  fresh[h] = {"route", "tree", "proto"}
    BY <1>1 DEF StartIsFresh
  <2> QED BY <2>1, <2>2 DEF FreshOK, StartIsFresh
<1> QED BY <1>2, <1>3, <1>4 DEF FreshOK

\* Changes of the world are collected as they happen.
LEMMA FreshChange ==
    ASSUME IInv, FreshOK, Refresh, UNCHANGED <<files, started>>,
           \A t \in Thread : pc'[t] = pc[t] \/ pc'[t] = Idle
    PROVE  FreshOK'
<1>1. /\ \A h \in Handoff : fresh[h] \subseteq fresh'[h]
      /\ \A h \in Handoff : "approval" \in files[h] => Holding(h)' \subseteq fresh'[h]
      /\ \A h \in Handoff : fresh'[h] \subseteq fresh[h] \cup {"route", "tree", "proto"}
  BY DEF Refresh, Holding
<1>2. Collected'
  BY <1>1 DEF Collected
<1>3. StartIsFresh'
  BY <1>1 DEF FreshOK, StartIsFresh
<1>4. ASSUME NEW t \in Thread PROVE Verified(pc[t])'
  <2>1. CASE pc'[t] = Idle
    BY <2>1 DEF Verified, Idle
  <2>2. CASE pc'[t] = pc[t] /\ pc[t].op = "start"
    <3>1. Verified(pc[t])
      BY DEF FreshOK
    <3>2. pc[t].step # "idle" => pc[t].id \in Handoff
      BY WriterFacts DEF Actor
    <3> QED BY <1>1, <2>2, <3>1, <3>2 DEF Verified, Past
  <2>3. CASE pc'[t] = pc[t] /\ pc[t].op # "start"
    BY <2>3 DEF Verified
  <2> QED BY <2>1, <2>2, <2>3
<1> QED BY <1>2, <1>3, <1>4 DEF FreshOK

\* Every step keeps it.
LEMMA NextFresh == IInv /\ FreshOK /\ [Next]_vars => FreshOK'
<1> SUFFICES ASSUME IInv, FreshOK, [Next]_vars PROVE FreshOK'
  OBVIOUS
<1>1. CASE Calls
  BY <1>1, FreshCall
<1>2. ASSUME NEW a \in Actor, StoreStep(a) PROVE FreshOK'
  BY <1>2, FreshOutside, FreshEnter, FreshWrite, FreshInstall DEF StoreStep
<1>3. CASE ChangeRoute \/ Rebind \/ EditTree
  BY <1>3, FreshChange DEF ChangeRoute, Rebind, EditTree, Change, disk, memory
<1>4. ASSUME NEW p \in Process, Crash(p) PROVE FreshOK'
  <2>1. \A t \in Thread : pc'[t] = pc[t] \/ pc'[t] = Idle
    BY <1>4 DEF Crash, Actor
  <2> QED BY <1>4, <2>1, FreshChange DEF Crash, Change, disk
<1>5. ASSUME NEW a \in Actor, WriteFails(a) PROVE FreshOK'
  BY <1>5, FreshLeave DEF WriteFails, Change, disk
<1>6. CASE UNCHANGED vars
  BY <1>6 DEF vars, FreshOK, Collected, Holding, Verified, StartIsFresh
<1> QED BY <1>1, <1>2, <1>3, <1>4, <1>5, <1>6 DEF Next, Environment

\* A started turn was verified after its approval, whatever the world, the
\* other threads and the crashes of any process did in between.
THEOREM FreshStart == Spec => []StartIsFresh
<1>1. Init => FreshOK
  BY DEF Init, FreshOK, Collected, Verified, StartIsFresh, Idle, Id, Actor
<1>2. FreshOK => StartIsFresh
  BY DEF FreshOK
<1> QED BY <1>1, <1>2, NextFresh, Inductive, PTL DEF Spec

-----------------------------------------------------------------------------
(* One process alone: while no runner works, the copy of the ledger in the *)
(* critical section is the ledger, and what was staged is what is          *)
(* installed.                                                              *)

Alone == \A r \in Runner : pc[r] = Idle

\* The states the check of each console operation accepts.
From(op) ==
    CASE op = "prepare" -> {"ABSENT"}
      [] op \in {"approve", "reject"} -> {"PREPARED"}
      [] op = "start" -> {"DISPATCHABLE"}
      [] op = "complete" -> {"SENT"}
      [] op = "fail" -> {"PREPARED", "DISPATCHABLE", "SENT"}

\* The ledger with the edit of a call.
Edited(l, c) == [l EXCEPT ![c.id] = NewEntry(c.op, @)]

Synced(t) ==
    pc[t].step \in InSection =>
        /\ view[t] = ledger
        /\ ledger[pc[t].id].state \in From(pc[t].op)
        /\ pc[t].step = "staged" => tmp = Edited(ledger, pc[t])
SyncOK == \A t \in Thread : Synced(t)

\* The only writer is a console thread.
LEMMA SoleWriter ==
    ASSUME IInv, Alone, NEW a \in Actor, pc[a].step \in InSection
    PROVE  /\ a \in Thread
           /\ pc[a].id \in Handoff /\ pc[a].id \in Id /\ pc[a].op \in ThreadOp
           /\ \A t \in Thread : pc[t].step \in InSection => t = a
<1>1. a \in Thread
  BY DEF Alone, Idle, InSection, Actor
<1>2. pc[a].id \in Handoff /\ pc[a].id \in Id /\ pc[a].op \in ThreadOp
  BY <1>1, ActorAssumption DEF IInv, OwnerOK, InSection, Id
<1>3. \A t \in Thread : pc[t].step \in InSection => t = a
  BY <1>1, MutualExclusion DEF Proc, Actor
<1> QED BY <1>1, <1>2, <1>3

\* Steps that add nobody to the critical section and leave the ledger alone.
LEMMA SyncFrame ==
    ASSUME SyncOK, UNCHANGED <<ledger, tmp>>,
           \A t \in Thread : pc'[t].step \in InSection => pc'[t] = pc[t] /\ view'[t] = view[t]
    PROVE  SyncOK'
BY DEF SyncOK, Synced, Edited

\* Outside, the critical section is not disturbed.
LEMMA SyncOutside ==
    ASSUME IInv, SyncOK, NEW a \in Actor, NEW e,
           pc' = [pc EXCEPT ![a] = e], e.step \notin InSection,
           UNCHANGED <<ledger, tmp>>,
           view' = view \/ view' = [view EXCEPT ![a] = NoView]
    PROVE  SyncOK'
<1>1. \A t \in Thread : pc'[t].step \in InSection => pc'[t] = pc[t] /\ view'[t] = view[t]
  BY DEF IInv, TypeOK, Actor
<1> QED BY <1>1, SyncFrame

\* An actor that leaves, or goes on outside the critical section.
LEMMA SyncLeave ==
    ASSUME IInv, SyncOK, NEW a \in Actor, Leave(a), UNCHANGED <<ledger, tmp>>,
           view' = view \/ view' = [view EXCEPT ![a] = NoView]
    PROVE  SyncOK'
BY SyncOutside DEF Leave, Idle, InSection

LEMMA SyncGoto ==
    ASSUME IInv, SyncOK, NEW a \in Actor, NEW step, Goto(a, step), step \notin InSection,
           UNCHANGED <<ledger, tmp, view>>
    PROVE  SyncOK'
<1> PICK e : e = [pc[a] EXCEPT !.step = step]
  OBVIOUS
<1>1. pc' = [pc EXCEPT ![a] = e] /\ e.step = step
  BY DEF Goto, IInv, TypeOK
<1> QED BY <1>1, SyncOutside

\* Entering: the copy is the ledger, and its entry passed the check.
LEMMA SyncEnter ==
    ASSUME IInv, Alone, SyncOK, NEW a \in Actor, NEW from, NEW blockers,
           Enter(a, from, blockers), a \in Thread => from \subseteq From(pc[a].op)
    PROVE  SyncOK'
<1>1. CASE Leave(a) /\ UNCHANGED view
  BY <1>1, SyncLeave DEF Enter, disk
<1>2. CASE /\ Goto(a, "checked") /\ view' = [view EXCEPT ![a] = ledger]
           /\ ledger[pc[a].id].state \in from
  <2> SUFFICES ASSUME NEW t \in Thread PROVE Synced(t)'
    BY DEF SyncOK
  <2>1. t \in Actor /\ UNCHANGED <<ledger, tmp>>
    BY DEF Enter, disk, Actor
  <2>2. CASE t # a
    BY <1>2, <2>1, <2>2 DEF SyncOK, Synced, Edited, Goto, IInv, TypeOK
  <2>3. CASE t = a
    <3>1. /\ pc'[t].op = pc[t].op /\ pc'[t].id = pc[t].id /\ pc'[t].step = "checked"
          /\ view'[t] = ledger
      BY <1>2, <2>1, <2>3 DEF Goto, IInv, TypeOK
    <3> QED BY <1>2, <2>1, <2>3, <3>1 DEF Synced
  <2> QED BY <2>2, <2>3
<1> QED BY <1>1, <1>2 DEF Enter

LEMMA SyncEnters ==
    ASSUME IInv, Alone, SyncOK, NEW a \in Actor,
           \/ EnterPrepare(a) \/ EnterPrepareSmoke(a) \/ EnterDecide(a)
           \/ EnterStart(a) \/ EnterComplete(a) \/ EnterFail(a)
           \/ EnterBind(a) \/ EnterTransition(a)
    PROVE  SyncOK'
<1>1. pc[a].step = "ready" /\ a \in Thread => pc[a].op \in ThreadOp
  BY ActorAssumption DEF IInv, OwnerOK
<1>2. CASE EnterPrepare(a)
  BY <1>2, SyncEnter DEF EnterPrepare, From
<1>3. CASE EnterDecide(a)
  BY <1>3, SyncEnter DEF EnterDecide, From
<1>4. CASE EnterStart(a)
  BY <1>4, SyncEnter DEF EnterStart, From
<1>5. CASE EnterComplete(a)
  BY <1>5, SyncEnter DEF EnterComplete, From
<1>6. CASE EnterFail(a)
  BY <1>6, SyncEnter DEF EnterFail, From
<1>7. CASE EnterPrepareSmoke(a) \/ EnterBind(a) \/ EnterTransition(a)
  <2>1. pc[a].step = "ready" /\ pc[a].op \notin ThreadOp
    BY <1>7 DEF EnterPrepareSmoke, EnterBind, EnterTransition, Enter, ThreadOp
  <2>2. a \notin Thread
    BY <1>1, <2>1
  <2> QED BY <1>7, <2>2, SyncEnter DEF EnterPrepareSmoke, EnterBind, EnterTransition
<1> QED BY <1>2, <1>3, <1>4, <1>5, <1>6, <1>7

\* Writing the record and staging the copy.
LEMMA SyncWrite ==
    ASSUME IInv, Alone, SyncOK, NEW a \in Actor, WriteRecord(a) \/ StageLedger(a)
    PROVE  SyncOK'
<1>1. /\ pc[a].step \in InSection /\ UNCHANGED <<ledger, view>>
      /\ a \in Thread /\ \A t \in Thread : pc[t].step \in InSection => t = a
  <2>1. pc[a].step \in InSection /\ UNCHANGED <<ledger, view>>
    BY DEF WriteRecord, StageLedger, InSection
  <2> QED BY <2>1, SoleWriter
<1>2. /\ pc'[a].op = pc[a].op /\ pc'[a].id = pc[a].id
      /\ \A t \in Thread : t # a => pc'[t] = pc[t]
  BY DEF WriteRecord, StageLedger, Goto, IInv, TypeOK, Actor
<1>3. pc'[a].step = "staged" => tmp' = Edited(ledger, pc[a])
  <2>1. CASE WriteRecord(a)
    BY <2>1 DEF WriteRecord, Goto, IInv, TypeOK
  <2>2. CASE StageLedger(a)
    BY <1>1, <2>2 DEF StageLedger, Edited, SyncOK, Synced
  <2> QED BY <2>1, <2>2
<1>4. Edited(ledger', pc'[a]) = Edited(ledger, pc[a])
  BY <1>1, <1>2 DEF Edited
<1> QED BY <1>1, <1>2, <1>3, <1>4 DEF SyncOK, Synced

\* Installing it: the critical section is empty afterwards.
LEMMA SyncInstall ==
    ASSUME IInv, Alone, SyncOK, NEW a \in Actor, InstallLedger(a)
    PROVE  /\ SyncOK'
           /\ a \in Thread /\ pc[a].id \in Handoff /\ pc[a].op \in ThreadOp
           /\ ledger[pc[a].id].state \in From(pc[a].op)
           /\ Installs(a) /\ ledger' = Edited(ledger, pc[a])
<1>1. /\ pc[a].step \in InSection /\ pc[a].step = "staged"
      /\ pc' = [pc EXCEPT ![a] = Idle]
  BY DEF InstallLedger, InSection, Leave
<1>2. /\ a \in Thread /\ pc[a].id \in Handoff /\ pc[a].id \in Id /\ pc[a].op \in ThreadOp
      /\ \A t \in Thread : pc[t].step \in InSection => t = a
  BY <1>1, SoleWriter
<1>3. /\ ledger[pc[a].id].state \in From(pc[a].op)
      /\ tmp = Edited(ledger, pc[a])
  BY <1>1, <1>2 DEF SyncOK, Synced
<1>4. tmp # NoView
  <2>1. ledger[pc[a].id] \in Entry
    BY <1>2 DEF IInv, TypeOK, Ledger
  <2>2. NewEntry(pc[a].op, ledger[pc[a].id]) \in Entry
    BY <1>2, <2>1, NewEntryFacts
  <2>3. Edited(ledger, pc[a]) \in Ledger
    BY <2>2 DEF Edited, IInv, TypeOK, Ledger
  <2> QED BY <1>3, <2>3, ViewAssumption
<1>5. \A t \in Thread : pc'[t].step \notin InSection
  BY <1>1, <1>2 DEF Idle, InSection, IInv, TypeOK, Actor
<1>6. SyncOK'
  BY <1>5 DEF SyncOK, Synced
<1>7. ledger' = tmp /\ Installs(a)
  BY <1>1, <1>4 DEF InstallLedger, Installs
<1> QED BY <1>2, <1>3, <1>6, <1>7

\* Every step keeps it.
LEMMA NextSync == IInv /\ Alone /\ SyncOK /\ [Next]_vars => SyncOK'
<1> SUFFICES ASSUME IInv, Alone, SyncOK, [Next]_vars PROVE SyncOK'
  OBVIOUS
<1>1. CASE Calls
  <2>1. PICK a \in Actor, op \in Op, i \in Id, step \in {"called", "route", "ready"} :
          Call(a, op, i, step)
    BY <1>1 DEF Calls, CallPrepare, CallDecide, CallStart, CallFinish, CallSmoke, Op, Id, Actor
  <2> QED BY <2>1, SyncOutside DEF Call, InSection, disk
<1>2. ASSUME NEW a \in Actor, StoreStep(a) PROVE SyncOK'
  <2>1. CASE InspectDecision(a)
    BY <2>1, SyncGoto, SyncLeave DEF InspectDecision, Proceed, disk, InSection
  <2>2. CASE InspectStart(a)
    BY <2>2, SyncGoto, SyncLeave DEF InspectStart, Proceed, disk, InSection
  <2>3. CASE ResolveRoute(a)
    BY <2>3, SyncGoto, SyncLeave DEF ResolveRoute, disk, InSection
  <2>4. CASE VerifyTree(a)
    BY <2>4, SyncGoto, SyncLeave DEF VerifyTree, Proceed, disk, InSection
  <2>5. CASE VerifyProtocol(a)
    BY <2>5, SyncGoto, SyncLeave DEF VerifyProtocol, disk, InSection
  <2> QED BY <1>2, <2>1, <2>2, <2>3, <2>4, <2>5, SyncEnters, SyncWrite, SyncInstall
          DEF StoreStep
<1>3. CASE ChangeRoute \/ Rebind \/ EditTree \/ UNCHANGED vars
  BY <1>3, SyncFrame DEF ChangeRoute, Rebind, EditTree, Change, disk, memory, vars
<1>4. ASSUME NEW p \in Process, Crash(p) PROVE SyncOK'
  <2>1. \A t \in Thread : pc'[t].step \in InSection => pc'[t] = pc[t] /\ view'[t] = view[t]
    BY <1>4 DEF Crash, Idle, InSection, Actor
  <2> QED BY <1>4, <2>1, SyncFrame DEF Crash, Change, disk
<1>5. ASSUME NEW a \in Actor, WriteFails(a) PROVE SyncOK'
  BY <1>5, SyncLeave DEF WriteFails, Change, disk
<1> QED BY <1>1, <1>2, <1>3, <1>4, <1>5 DEF Next, Environment

\* What a step of the ledger does to it: an edit from an accepted state.
LEMMA LedgerEdit ==
    ASSUME IInv, Alone, SyncOK, [Next]_vars, ledger' # ledger
    PROVE  \E t \in Thread : /\ InstallLedger(t)
                            /\ pc[t].id \in Handoff /\ pc[t].op \in ThreadOp
                            /\ ledger[pc[t].id].state \in From(pc[t].op)
                            /\ ledger' = Edited(ledger, pc[t])
<1>1. PICK a \in Actor : InstallLedger(a)
  BY DEF Next, vars, Calls, CallPrepare, CallDecide, CallStart, CallFinish, CallSmoke,
         Call, StoreStep, InspectDecision, InspectStart, ResolveRoute, VerifyTree,
         VerifyProtocol, EnterPrepare, EnterPrepareSmoke, EnterDecide, EnterStart,
         EnterComplete, EnterFail, EnterBind, EnterTransition, Enter, WriteRecord, StageLedger,
         Environment, ChangeRoute, Rebind, EditTree, Crash, WriteFails, Change, disk
<1> QED BY <1>1, SyncInstall

\* Such an edit moves its entry up.
LEMMA EditAdvances ==
    ASSUME IInv, Alone, SyncOK, [Next]_vars, NEW i \in Id
    PROVE  /\ Rank(ledger[i].state) <= Rank(ledger'[i].state)
           /\ ledger[i].state \in Terminal => ledger'[i] = ledger[i]
<1>1. ledger[i] \in Entry
  BY DEF IInv, TypeOK, Ledger
<1>2. Rank(ledger[i].state) \in Nat
  BY <1>1 DEF Entry, LedgerState, Rank, Terminal
<1>3. CASE ledger' = ledger
  BY <1>2, <1>3
<1>4. CASE ledger' # ledger
  <2>1. PICK t \in Thread : /\ pc[t].id \in Handoff /\ pc[t].op \in ThreadOp
                           /\ ledger[pc[t].id].state \in From(pc[t].op)
                           /\ ledger' = Edited(ledger, pc[t])
    BY <1>4, LedgerEdit
  <2>2. CASE i # pc[t].id
    BY <1>2, <2>1, <2>2 DEF Edited, IInv, TypeOK, Ledger
  <2>3. CASE i = pc[t].id
    <3>1. ledger'[i] = NewEntry(pc[t].op, ledger[i])
      BY <2>1, <2>3 DEF Edited, IInv, TypeOK, Ledger
    <3>2. /\ pc[t].op = "prepare" => ledger'[i].state = "PREPARED"
          /\ pc[t].op = "approve" => ledger'[i].state = "DISPATCHABLE"
          /\ pc[t].op = "reject" => ledger'[i].state = "REJECTED"
          /\ pc[t].op = "start" => ledger'[i].state = "SENT"
          /\ pc[t].op = "complete" => ledger'[i].state = "COMPLETED"
          /\ pc[t].op = "fail" => ledger'[i].state = "FAILED"
      BY <1>1, <2>1, <3>1, NewEntryFacts
    <3> QED BY <2>1, <2>3, <3>2 DEF From, ThreadOp, Rank, Terminal
  <2> QED BY <2>2, <2>3
<1> QED BY <1>3, <1>4

\* With one process no commit is undone: the ledger only advances, and a
\* terminal entry is final, for any number of threads and any crash.
THEOREM Advances ==
    ASSUME Runner = {}
    PROVE  Spec => LedgerAdvances
<1>1. Alone
  BY DEF Alone
<1>2. Init => SyncOK
  BY DEF Init, SyncOK, Synced, Idle, InSection, Actor
<1>3. IInv /\ SyncOK /\ [Next]_vars => SyncOK'
  BY <1>1, NextSync
<1>4. IInv /\ SyncOK /\ [Next]_vars =>
        [\A i \in Id :
           /\ Rank(ledger[i].state) <= Rank(ledger'[i].state)
           /\ ledger[i].state \in Terminal => ledger'[i] = ledger[i]]_vars
  BY <1>1, EditAdvances
<1> QED BY <1>2, <1>3, <1>4, Inductive, PTL DEF Spec, LedgerAdvances

(***************************************************************************)
(* The semi-automatic dispatcher                                           *)
(***************************************************************************)


\* Stages that wait for a ledger call; that have an identity; of a turn.
Calling == {"store", "decide", "start", "complete", "fail"}
Placed == Leased \cup {"get", "set"}
Running == {"turn", "complete", "error", "fail"}

\* A request and the ledger call of its thread.
Paired(j, c) ==
    /\ j.stage # "none" => j.id \in Handoff
    /\ j.stage \in Calling => c.id = j.id /\ c.step # "idle"
    /\ j.stage \notin Calling => c = Idle
    /\ j.stage = "store" => c.op \in {"prepare", "approve", "reject"}
    /\ j.stage = "decide" => c.op = "approve"
    /\ j.stage \in {"start", "complete", "fail"} => c.op = j.stage
    /\ j.stage \in {"complete", "fail"} => c.step \in {"ready"} \cup InSection
    /\ j.stage \in Placed => j.identity \in Identity
    /\ j.stage \in Running => started[j.id] > 0
    /\ j.stage = "artifact" => "artifact" \in files[j.id]
PairedOK == \A t \in Thread : Paired(job[t], pc[t])

\* A prepared envelope seals a real fingerprint of the workspace.
SealOK ==
    /\ \A h \in Handoff : "artifact" \in files[h] => envelope[h].seal \in Seal
    /\ \A t \in Thread :
         pc[t].op = "prepare" /\ pc[t].step \in {"tree", "proto", "ready", "checked"}
             => seen[t].seal \in Seal

\* An outcome on disk is in the ledger, or its writer is about to put it
\* there, or that writer was cut off.
Writing(h, op) ==
    \E t \in Thread : /\ pc[t].op = op /\ pc[t].id = h
                     /\ pc[t].step \in {"written", "staged"}
RecordedOK ==
    \A h \in Handoff \ cut :
        /\ "result" \in files[h] => ledger[h].state = "COMPLETED" \/ Writing(h, "complete")
        /\ "failure" \in files[h] => ledger[h].state = "FAILED" \/ Writing(h, "fail")

\* A dispatch that started is SENT until its outcome is recorded ...
SentOK == \A h \in Handoff : started[h] > 0 => ledger[h].state \in {"SENT", "COMPLETED", "FAILED"}

\* ... and while it is, some request still runs its turn.
PendingOK ==
    \A h \in Handoff \ cut :
        started[h] > 0 /\ ledger[h].state = "SENT" =>
            \E t \in Thread : job[t].stage \in Running /\ job[t].id = h

SemiIInv ==
    /\ IInv /\ Alone /\ SyncOK /\ SealOK
    /\ SemiTypeOK /\ PairedOK /\ LeaseIsHeld
    /\ RecordedOK /\ SentOK /\ PendingOK

-----------------------------------------------------------------------------
(* Envelopes.                                                              *)

Reading == {"tree", "proto", "ready", "checked"}

\* Steps that write no envelope: what is being read stays a fingerprint.
LEMMA SealFrame ==
    ASSUME SealOK, UNCHANGED <<files, envelope>>,
           \A t \in Thread :
             pc'[t].op = "prepare" /\ pc'[t].step \in Reading =>
               \/ seen'[t].seal \in Seal
               \/ /\ pc[t].op = "prepare" /\ pc[t].step \in Reading
                  /\ seen'[t].seal = seen[t].seal
    PROVE  SealOK'
BY DEF SealOK, Reading

\* A step of one actor that keeps what it has read.
LEMMA SealKept ==
    ASSUME IInv, SealOK, NEW a \in Actor, UNCHANGED <<files, envelope>>,
           NEW e, pc' = [pc EXCEPT ![a] = e],
           e.op = "prepare" /\ e.step \in Reading =>
               pc[a].op = "prepare" /\ pc[a].step \in Reading /\ seen'[a] = seen[a],
           \A b \in Actor : b # a => seen'[b] = seen[b]
    PROVE  SealOK'
<1>1. ASSUME NEW t \in Thread, pc'[t].op = "prepare", pc'[t].step \in Reading
      PROVE  pc[t].op = "prepare" /\ pc[t].step \in Reading /\ seen'[t].seal = seen[t].seal
  <2>1. t \in Actor /\ pc'[t] = IF t = a THEN e ELSE pc[t]
    BY DEF IInv, TypeOK, Actor
  <2>2. CASE t = a
    BY <1>1, <2>1, <2>2
  <2>3. CASE t # a
    BY <1>1, <2>1, <2>3 DEF IInv, TypeOK
  <2> QED BY <2>2, <2>3
<1> QED BY <1>1, SealFrame

LEMMA SealLeave ==
    ASSUME IInv, SealOK, NEW a \in Actor, Leave(a), UNCHANGED <<files, envelope>>
    PROVE  SealOK'
<1>1. Idle.op # "prepare" /\ \A b \in Actor : b # a => seen'[b] = seen[b]
  BY DEF Leave, Idle, IInv, TypeOK
<1> QED BY <1>1, SealKept DEF Leave

LEMMA SealGoto ==
    ASSUME IInv, SealOK, NEW a \in Actor, NEW step, Goto(a, step),
           UNCHANGED <<files, envelope, seen>>,
           pc[a].op = "prepare" /\ step \in Reading => pc[a].step \in Reading
    PROVE  SealOK'
<1> PICK e : e = [pc[a] EXCEPT !.step = step]
  OBVIOUS
<1>1. pc[a] \in [op : Op, id : Id \cup {NoId}, step : Step]
  BY DEF IInv, TypeOK
<1>2. e.step = step /\ e.op = pc[a].op
  BY <1>1
<1>3. pc' = [pc EXCEPT ![a] = e]
  BY Zenon DEF Goto
<1> QED BY <1>2, <1>3, SealKept

\* A registered fingerprint is read, and the protocol beside it.
LEMMA SealRead ==
    ASSUME IInv, SealOK, NEW a \in Actor,
           ResolveRoute(a) \/ VerifyTree(a) \/ VerifyProtocol(a)
    PROVE  SealOK'
<1>1. UNCHANGED <<files, envelope>>
  BY DEF ResolveRoute, VerifyTree, VerifyProtocol, disk
<1>2. seen \in [Actor -> Binding] /\ ref \in Seal
  BY DEF IInv, TypeOK
<1>3. CASE ResolveRoute(a) /\ ~ Leave(a)
  <2>1. /\ pc[a].step = "route" /\ Goto(a, "tree")
        /\ seen' = [seen EXCEPT ![a].seal = ref]
    BY <1>3 DEF ResolveRoute
  <2>2. seen'[a].seal = ref /\ \A t \in Actor : t # a => seen'[t] = seen[t] /\ pc'[t] = pc[t]
    BY <1>2, <2>1 DEF Binding, Goto, IInv, TypeOK
  <2> QED BY <1>1, <1>2, <2>2, SealFrame DEF Actor
<1>4. CASE VerifyTree(a) /\ ~ Leave(a)
  BY <1>1, <1>4, SealGoto DEF VerifyTree, Proceed, Reading
<1>5. CASE VerifyProtocol(a) /\ ~ Leave(a)
  <2>1. /\ pc[a].step = "proto" /\ Goto(a, "ready")
        /\ seen' = [seen EXCEPT ![a].proto = proto]
    BY <1>5 DEF VerifyProtocol
  <2>2. /\ seen'[a].seal = seen[a].seal
        /\ \A t \in Actor : t # a => seen'[t] = seen[t] /\ pc'[t] = pc[t]
        /\ pc'[a].op = pc[a].op
    BY <1>2, <2>1 DEF Binding, Goto, IInv, TypeOK
  <2>3. \A t \in Thread : pc'[t].op = "prepare" /\ pc'[t].step \in Reading =>
                 /\ pc[t].op = "prepare" /\ pc[t].step \in Reading
                 /\ seen'[t].seal = seen[t].seal
    BY <2>1, <2>2 DEF Actor, Reading
  <2> QED BY <1>1, <2>3, SealFrame
<1> QED BY <1>1, <1>3, <1>4, <1>5, SealLeave

\* The record file of a prepare and its envelope are written together.
LEMMA SealWrite ==
    ASSUME IInv, SealOK, NEW a \in Actor, WriteRecord(a)
    PROVE  SealOK'
<1> PICK i : i = pc[a].id
  OBVIOUS
<1>1. /\ pc[a].step = "checked" /\ i \in Id /\ (i \in Handoff <=> a \in Thread)
      /\ pc[a].op \in ThreadOp \cup RunnerOp
      /\ a \in Thread => pc[a].op \in ThreadOp
  BY WriterFacts, ActorAssumption DEF WriteRecord, IInv, OwnerOK
<1>2. \A h \in Handoff : "artifact" \in files'[h] =>
           "artifact" \in files[h] \/ (h = i /\ pc[a].op = "prepare")
  <2>1. pc[a].op # "transition" /\ i \in Handoff =>
            (RecordOf[pc[a].op] = "artifact" => pc[a].op = "prepare")
    BY <1>1 DEF RecordOf, ThreadOp
  <2> QED BY <1>1, <2>1 DEF WriteRecord, IInv, TypeOK, Id
<1>3. ASSUME NEW h \in Handoff, "artifact" \in files'[h] PROVE envelope'[h].seal \in Seal
  <2>1. CASE h = i /\ pc[a].op = "prepare"
    <3>1. a \in Thread /\ seen[a].seal \in Seal
      BY <1>1, <2>1 DEF SealOK
    <3> QED BY <2>1, <3>1 DEF WriteRecord, IInv, TypeOK
  <2>2. CASE ~ (h = i /\ pc[a].op = "prepare")
    <3>1. envelope'[h] = envelope[h]
      BY <2>2 DEF WriteRecord, IInv, TypeOK
    <3> QED BY <1>2, <1>3, <2>2, <3>1 DEF SealOK
  <2> QED BY <2>1, <2>2
<1>4. ASSUME NEW t \in Thread, pc'[t].op = "prepare", pc'[t].step \in Reading
      PROVE  seen'[t].seal \in Seal
  <2>1. t # a /\ pc'[t] = pc[t] /\ seen'[t] = seen[t]
    BY <1>4 DEF WriteRecord, Goto, Reading, IInv, TypeOK, Actor
  <2> QED BY <1>4, <2>1 DEF SealOK, Reading
<1> QED BY <1>3, <1>4 DEF SealOK, Reading

\* Every step of the ledger keeps it.
LEMMA NextSeal == IInv /\ SealOK /\ [Next]_vars => SealOK'
<1> SUFFICES ASSUME IInv, SealOK, [Next]_vars PROVE SealOK'
  OBVIOUS
<1>1. CASE Calls
  <2>1. PICK a \in Actor, op \in Op, i \in Id, step \in {"called", "route", "ready"} :
          Call(a, op, i, step) /\ (op = "prepare" => step = "route")
    BY <1>1 DEF Calls, CallPrepare, CallDecide, CallStart, CallFinish, CallSmoke, Op, Id, Actor
  <2> DEFINE e == [op |-> op, id |-> i, step |-> step]
  <2>2. /\ e.op = "prepare" => e.step \notin Reading
        /\ pc' = [pc EXCEPT ![a] = e] /\ UNCHANGED <<files, envelope, seen>>
    BY <2>1 DEF Call, Reading, disk
  <2> HIDE DEF e
  <2> QED BY <2>2, SealKept
<1>2. ASSUME NEW a \in Actor, StoreStep(a) PROVE SealOK'
  <2>1. CASE InspectDecision(a)
    BY <2>1, SealGoto, SealLeave DEF InspectDecision, Proceed, disk
  <2>2. CASE InspectStart(a)
    BY <2>2, SealGoto, SealLeave DEF InspectStart, At, Proceed, disk
  <2>3. ASSUME NEW from, NEW blockers, Enter(a, from, blockers) PROVE SealOK'
    BY <2>3, SealGoto, SealLeave DEF Enter, disk, Reading
  <2>4. CASE StageLedger(a)
    BY <2>4, SealGoto DEF StageLedger, Reading
  <2>5. CASE InstallLedger(a)
    BY <2>5, SealLeave DEF InstallLedger
  <2> QED
    BY <1>2, <2>1, <2>2, <2>3, <2>4, <2>5, SealRead, SealWrite
    DEF StoreStep, EnterPrepare, EnterPrepareSmoke, EnterDecide, EnterStart,
        EnterComplete, EnterFail, EnterBind, EnterTransition
<1>3. CASE ChangeRoute \/ Rebind \/ EditTree \/ UNCHANGED vars
  BY <1>3, SealFrame DEF ChangeRoute, Rebind, EditTree, Change, disk, memory, vars
<1>4. ASSUME NEW p \in Process, Crash(p) PROVE SealOK'
  <2>1. \A t \in Thread : pc'[t].step \in Reading => pc'[t] = pc[t] /\ seen'[t] = seen[t]
    BY <1>4 DEF Crash, Idle, Reading, Actor
  <2> QED BY <1>4, <2>1, SealFrame DEF Crash, Change, disk
<1>5. ASSUME NEW a \in Actor, WriteFails(a) PROVE SealOK'
  BY <1>5, SealLeave DEF WriteFails, Change, disk
<1> QED BY <1>1, <1>2, <1>3, <1>4, <1>5 DEF Next, Environment

-----------------------------------------------------------------------------
(* The dispatcher makes steps of the ledger.                               *)

\* A stage's call is one the ledger offers.
LEMMA CallsOfStage ==
    ASSUME SemiIInv, NEW t \in Thread, job[t].id \in Handoff,
           \/ Call(t, "approve", job[t].id, "called")
           \/ Call(t, "start", job[t].id, "called")
           \/ started[job[t].id] > 0 /\ Call(t, "complete", job[t].id, "ready")
           \/ started[job[t].id] > 0 /\ Call(t, "fail", job[t].id, "ready")
    PROVE  Calls
BY DEF Calls, CallDecide, CallStart, CallFinish

\* Every step of the dispatcher is a step of the ledger, or leaves it alone.
LEMMA SemiStep ==
    ASSUME SemiIInv, [SemiNext]_allVars
    PROVE  [Next]_vars
<1>1. \A t \in Thread : /\ Paired(job[t], pc[t])
                        /\ job[t].stage # "none" => job[t].id \in Handoff
  BY DEF SemiIInv, PairedOK, Paired
<1>2. ASSUME NEW t \in Thread, NEW h \in Handoff, ServeStore(t, h) \/ ServeApproveAndSend(t, h)
      PROVE  [Next]_vars
  BY <1>2 DEF ServeStore, ServeApproveAndSend, Next, Calls
<1>3. ASSUME NEW t \in Thread, ThreadStep(t) PROVE [Next]_vars
  <2>1. CASE RunStore(t)
    BY <2>1 DEF RunStore, Next, Actor
  <2>2. CASE RequireSemiAuto(t)
    BY <1>1, <2>2, CallsOfStage DEF RequireSemiAuto, In, Next
  <2>3. CASE GuardSet(t)
    BY <1>1, <2>3, CallsOfStage DEF GuardSet, In, Next
  <2>4. CASE RunTransport(t)
    <3>1. started[job[t].id] > 0
      BY <1>1, <2>4 DEF RunTransport, In, Paired, Running
    <3> QED BY <1>1, <2>4, <3>1, CallsOfStage DEF RunTransport, In, Next
  <2>5. CASE RecordError(t)
    <3>1. started[job[t].id] > 0
      BY <1>1, <2>5 DEF RecordError, In, Paired, Running
    <3> QED BY <1>1, <2>5, <3>1, CallsOfStage DEF RecordError, In, Next
  <2>6. CASE ReadArtifact(t) \/ GuardGet(t) \/ RaiseAttention(t) \/ Release(t)
    BY <2>6 DEF ReadArtifact, GuardGet, RaiseAttention, Release
  <2> QED BY <1>3, <2>1, <2>2, <2>3, <2>4, <2>5, <2>6 DEF ThreadStep
<1>4. ASSUME NEW t \in Thread, StoreFails(t) PROVE [Next]_vars
  BY <1>4 DEF StoreFails, Next, Environment, Actor
<1>5. CASE SetMode \/ Quiesce \/ UNCHANGED allVars
  BY <1>5 DEF SetMode, Quiesce, allVars, vars
<1>6. CASE World
  BY <1>6 DEF World, Next, Environment
<1>7. CASE CrashConsole
  BY <1>7 DEF CrashConsole, Next, Environment, Process
<1> QED BY <1>2, <1>3, <1>4, <1>5, <1>6, <1>7 DEF SemiNext

\* No runner works here.
LEMMA SemiAlone ==
    ASSUME SemiIInv, [SemiNext]_allVars
    PROVE  Alone'
<1>1. ASSUME NEW t \in Thread, NEW e, pc' = [pc EXCEPT ![t] = e] PROVE Alone'
  BY <1>1, ActorAssumption DEF SemiIInv, Alone, IInv, TypeOK, Actor
<1>2. CASE UNCHANGED pc
  BY <1>2 DEF SemiIInv, Alone
<1>3. CASE CrashConsole
  BY <1>3 DEF CrashConsole, Crash, SemiIInv, Alone, Actor
<1>4. ASSUME NEW t \in Thread, RunStore(t) PROVE Alone'
  <2>1. StoreStep(t)
    BY <1>4 DEF RunStore
  <2> QED
    BY <1>1, <1>2, <2>1
    DEF StoreStep, InspectDecision, InspectStart, ResolveRoute, VerifyTree,
        VerifyProtocol, EnterPrepare, EnterPrepareSmoke, EnterDecide, EnterStart,
        EnterComplete, EnterFail, EnterBind, EnterTransition, Enter, WriteRecord,
        StageLedger, InstallLedger, Proceed, Goto, Leave
<1> QED
  BY <1>1, <1>2, <1>3, <1>4
  DEF SemiNext, allVars, ServeStore, ServeApproveAndSend, CallPrepare, CallDecide, Call,
      ThreadStep, RequireSemiAuto, ReadArtifact, GuardGet, GuardSet, RunTransport,
      RecordError, RaiseAttention, Release, StoreFails, WriteFails, Leave, SetMode,
      World, ChangeRoute, Rebind, EditTree, Quiesce, memory, vars

-----------------------------------------------------------------------------
(* A store step of a thread: it goes on, is refused, or installs.          *)

GoesOn(t, step) ==
    /\ step \in Step \ {"idle"} /\ Goto(t, step)
    /\ pc[t].step \in {"ready"} \cup InSection => step \in InSection
    /\ pc[t].step \in {"written", "staged"} => step \in {"written", "staged"}
    /\ UNCHANGED <<ledger, started>>
    /\ UNCHANGED files \/ WriteRecord(t)

Refused(t) ==
    /\ Leave(t)
    /\ pc[t].step \notin InSection
    /\ UNCHANGED <<ledger, started, files>>
    /\ pc[t].op = "fail" /\ pc[t].step = "ready" =>
         /\ Free(t)
         /\ \/ ledger[pc[t].id].state # "SENT"
            \/ "failure" \in files[pc[t].id]

\* One of the three.
LEMMA StoreStepCases ==
    ASSUME NEW t \in Thread, StoreStep(t)
    PROVE  \/ \E step \in Step : GoesOn(t, step)
           \/ Refused(t)
           \/ InstallLedger(t)
<1> USE DEF Step, InSection, disk, history, world
<1>1. CASE InspectDecision(t)
  BY <1>1 DEF InspectDecision, Proceed, GoesOn, Refused
<1>2. CASE InspectStart(t)
  BY <1>2 DEF InspectStart, At, Proceed, GoesOn, Refused
<1>3. CASE ResolveRoute(t)
  BY <1>3 DEF ResolveRoute, GoesOn, Refused
<1>4. CASE VerifyTree(t)
  BY <1>4 DEF VerifyTree, Proceed, GoesOn, Refused
<1>5. CASE VerifyProtocol(t)
  BY <1>5 DEF VerifyProtocol, GoesOn, Refused
<1>6. ASSUME NEW from, NEW blockers, Enter(t, from, blockers),
             pc[t].op = "fail" => "SENT" \in from /\ blockers = {"failure"}
      PROVE  (\E step \in Step : GoesOn(t, step)) \/ Refused(t)
  BY <1>6 DEF Enter, GoesOn, Refused
<1>7. CASE WriteRecord(t)
  <2>1. GoesOn(t, "written")
    BY <1>7 DEF WriteRecord, GoesOn
  <2> QED BY <2>1
<1>8. CASE StageLedger(t)
  <2>1. GoesOn(t, "staged")
    BY <1>8 DEF StageLedger, GoesOn
  <2> QED BY <2>1
<1> QED
  BY <1>1, <1>2, <1>3, <1>4, <1>5, <1>6, <1>7, <1>8
  DEF StoreStep, EnterPrepare, EnterPrepareSmoke, EnterDecide, EnterStart,
      EnterComplete, EnterFail, EnterBind, EnterTransition

-----------------------------------------------------------------------------
(* The ledger's side of the outcome.                                       *)

\* What an install does to the states of the ledger and to started.
LEMMA InstallEffect ==
    ASSUME IInv, Alone, SyncOK, NEW t \in Thread, InstallLedger(t)
    PROVE  /\ Installs(t) /\ pc[t].step = "staged" /\ pc' = [pc EXCEPT ![t] = Idle]
           /\ UNCHANGED files
           /\ pc[t].id \in Handoff /\ pc[t].op \in ThreadOp
           /\ ledger[pc[t].id].state \in From(pc[t].op)
           /\ \A h \in Handoff : h # pc[t].id =>
                ledger'[h] = ledger[h] /\ started'[h] = started[h]
           /\ pc[t].op = "start" => /\ started'[pc[t].id] = started[pc[t].id] + 1
                                    /\ ledger'[pc[t].id].state = "SENT"
           /\ pc[t].op # "start" => started'[pc[t].id] = started[pc[t].id]
           /\ pc[t].op = "complete" => ledger'[pc[t].id].state = "COMPLETED"
           /\ pc[t].op = "fail" => ledger'[pc[t].id].state = "FAILED"
<1>1. /\ pc[t].id \in Handoff /\ pc[t].op \in ThreadOp
      /\ ledger[pc[t].id].state \in From(pc[t].op)
      /\ Installs(t) /\ ledger' = Edited(ledger, pc[t])
  BY SyncInstall DEF Actor
<1>2. pc[t].id \in Id /\ ledger[pc[t].id] \in Entry
  BY <1>1 DEF IInv, TypeOK, Ledger, Id
<1>3. /\ ledger'[pc[t].id] = NewEntry(pc[t].op, ledger[pc[t].id])
      /\ \A h \in Handoff : h # pc[t].id => ledger'[h] = ledger[h]
  BY <1>1, <1>2 DEF Edited, IInv, TypeOK, Ledger, Id
<1>4. /\ pc[t].op = "start" => ledger'[pc[t].id].state = "SENT"
      /\ pc[t].op = "complete" => ledger'[pc[t].id].state = "COMPLETED"
      /\ pc[t].op = "fail" => ledger'[pc[t].id].state = "FAILED"
  BY <1>1, <1>2, <1>3, NewEntryFacts
<1>5. /\ \A h \in Handoff : h # pc[t].id => started'[h] = started[h]
      /\ pc[t].op = "start" => started'[pc[t].id] = started[pc[t].id] + 1
      /\ pc[t].op # "start" => started'[pc[t].id] = started[pc[t].id]
  BY <1>1 DEF InstallLedger, IInv, TypeOK
<1>6. UNCHANGED files /\ pc[t].step = "staged" /\ pc' = [pc EXCEPT ![t] = Idle]
  BY DEF InstallLedger, Leave
<1> QED BY <1>1, <1>3, <1>4, <1>5, <1>6

\* Only an install changes the ledger or counts a start.
LEMMA SemiLedger ==
    ASSUME SemiIInv, [SemiNext]_allVars, ledger' # ledger \/ started' # started
    PROVE  \E t \in Thread : RunStore(t) /\ InstallLedger(t)
<1>1. ASSUME NEW t \in Thread, RunStore(t) PROVE InstallLedger(t)
  BY <1>1, StoreStepCases DEF RunStore, GoesOn, Refused
<1> QED
  BY <1>1
  DEF SemiNext, allVars, ServeStore, ServeApproveAndSend, CallPrepare, CallDecide, Call,
      ThreadStep, RequireSemiAuto, ReadArtifact, GuardGet, GuardSet, RunTransport,
      RecordError, RaiseAttention, Release, StoreFails, WriteFails, SetMode,
      World, ChangeRoute, Rebind, EditTree, Quiesce, CrashConsole, Crash, Change,
      disk, history, vars

\* A started dispatch is SENT, COMPLETED or FAILED.
LEMMA SentStep ==
    ASSUME SemiIInv, [SemiNext]_allVars
    PROVE  SentOK'
<1>1. CASE UNCHANGED <<ledger, started>>
  BY <1>1 DEF SemiIInv, SentOK
<1>2. CASE ~ UNCHANGED <<ledger, started>>
  <2>1. PICK t \in Thread : InstallLedger(t)
    BY <1>2, SemiLedger
  <2>2. /\ pc[t].id \in Handoff /\ pc[t].op \in ThreadOp
        /\ ledger[pc[t].id].state \in From(pc[t].op)
        /\ \A h \in Handoff : h # pc[t].id =>
                ledger'[h] = ledger[h] /\ started'[h] = started[h]
        /\ pc[t].op = "start" => ledger'[pc[t].id].state = "SENT"
        /\ pc[t].op # "start" => started'[pc[t].id] = started[pc[t].id]
        /\ pc[t].op = "complete" => ledger'[pc[t].id].state = "COMPLETED"
        /\ pc[t].op = "fail" => ledger'[pc[t].id].state = "FAILED"
    BY <2>1, InstallEffect DEF SemiIInv
  <2>3. started[pc[t].id] > 0 => ledger[pc[t].id].state \in {"SENT", "COMPLETED", "FAILED"}
    BY <2>2 DEF SemiIInv, SentOK
  <2>4. pc[t].op \in {"prepare", "approve", "reject"} => ~ (started[pc[t].id] > 0)
    BY <2>2, <2>3 DEF From
  <2> QED BY <2>2, <2>4 DEF SemiIInv, SentOK, ThreadOp
<1> QED BY <1>1, <1>2

\* Steps that touch neither ledger nor record files, and let no writer go.
LEMMA RecordedFrame ==
    ASSUME RecordedOK, UNCHANGED <<files, ledger>>, cut \subseteq cut',
           \A t \in Thread : pc[t].step \in {"written", "staged"} =>
               \/ pc[t].id \in cut'
               \/ /\ pc'[t].op = pc[t].op /\ pc'[t].id = pc[t].id
                  /\ pc'[t].step \in {"written", "staged"}
    PROVE  RecordedOK'
<1> SUFFICES ASSUME NEW h \in Handoff \ cut'
             PROVE  /\ "result" \in files[h] => ledger[h].state = "COMPLETED" \/ Writing(h, "complete")'
                    /\ "failure" \in files[h] => ledger[h].state = "FAILED" \/ Writing(h, "fail")'
  BY DEF RecordedOK
<1>1. ASSUME NEW op, Writing(h, op) PROVE Writing(h, op)'
  BY <1>1 DEF Writing
<1> QED BY <1>1 DEF RecordedOK

\* An outcome is in the ledger, being written, or cut off.
LEMMA RecordedStore ==
    ASSUME SemiIInv, NEW t \in Thread, StoreStep(t), UNCHANGED cut
    PROVE  RecordedOK'
<1>0. IInv /\ Alone /\ SyncOK /\ RecordedOK /\ t \in Actor
  BY DEF SemiIInv, Actor
<1>1. CASE Refused(t)
  BY <1>0, <1>1, RecordedFrame DEF Refused, Leave, IInv, TypeOK, InSection, Actor
<1>2. ASSUME NEW step \in Step, GoesOn(t, step), ~ WriteRecord(t) PROVE RecordedOK'
  <2>1. /\ pc'[t].op = pc[t].op /\ pc'[t].id = pc[t].id /\ pc'[t].step = step
        /\ \A u \in Thread : u # t => pc'[u] = pc[u]
    BY <1>0, <1>2 DEF GoesOn, Goto, IInv, TypeOK, Actor
  <2> QED BY <1>0, <1>2, <2>1, RecordedFrame DEF GoesOn
<1>3. CASE WriteRecord(t)
  <2>1. /\ pc[t].step \in InSection /\ pc[t].step = "checked" /\ UNCHANGED ledger
        /\ pc'[t].op = pc[t].op /\ pc'[t].id = pc[t].id /\ pc'[t].step = "written"
    BY <1>0, <1>3 DEF WriteRecord, Goto, InSection, IInv, TypeOK
  <2>2. /\ pc[t].id \in Handoff /\ pc[t].id \in Id /\ pc[t].op \in ThreadOp
        /\ \A u \in Thread : pc[u].step \in InSection => u = t
    BY <1>0, <2>1, SoleWriter
  <2>3. /\ \A h \in Handoff : h # pc[t].id => files'[h] = files[h]
        /\ files'[pc[t].id] = files[pc[t].id] \cup {RecordOf[pc[t].op]}
    BY <1>0, <1>3, <2>2 DEF WriteRecord, IInv, TypeOK, ThreadOp, Id
  <2>4. \A h, op : ~ Writing(h, op)
    BY <2>1, <2>2 DEF Writing, InSection
  <2>5. Writing(pc[t].id, pc[t].op)'
    BY <2>1 DEF Writing
  <2>6. /\ RecordOf[pc[t].op] = "result" => pc[t].op = "complete"
        /\ RecordOf[pc[t].op] = "failure" => pc[t].op = "fail"
    BY <2>2 DEF RecordOf, ThreadOp
  <2> QED BY <1>0, <2>1, <2>2, <2>3, <2>4, <2>5, <2>6 DEF RecordedOK
<1>4. CASE InstallLedger(t)
  <2>1. /\ pc[t].id \in Handoff /\ pc[t].op \in ThreadOp
        /\ pc[t].step = "staged" /\ UNCHANGED files
        /\ ledger[pc[t].id].state \in From(pc[t].op)
        /\ \A h \in Handoff : h # pc[t].id => ledger'[h] = ledger[h]
        /\ pc[t].op = "complete" => ledger'[pc[t].id].state = "COMPLETED"
        /\ pc[t].op = "fail" => ledger'[pc[t].id].state = "FAILED"
    BY <1>0, <1>4, InstallEffect
  <2>2. \A u \in Thread : pc[u].step \in InSection => u = t
    BY <1>0, <2>1, SoleWriter DEF InSection
  <2>3. \A h, op : Writing(h, op) => h = pc[t].id /\ op = pc[t].op
    BY <2>2 DEF Writing, InSection
  <2>4. ledger[pc[t].id].state \notin {"COMPLETED", "FAILED"}
    BY <2>1 DEF From, ThreadOp
  <2> QED BY <1>0, <2>1, <2>3, <2>4 DEF RecordedOK
<1> QED BY <1>1, <1>2, <1>3, <1>4, StoreStepCases

-----------------------------------------------------------------------------
(* Requests.                                                               *)

\* Where a request stands when its call returned (ok) or raised.
Resumed(j, ok, n) ==
    /\ n.stage \notin Calling
    /\ n.stage # "none" => n.id = j.id /\ n.identity = j.identity
    /\ j.stage \in Leased <=> n.stage \in Leased
    /\ n.stage \notin {"get", "set"}
    /\ n.stage = "artifact" => j.stage = "decide" /\ ok
    /\ n.stage = "turn" <=> j.stage = "start" /\ ok
    /\ n.stage = "error" <=> j.stage = "complete" /\ ~ ok

LEMMA Resume ==
    ASSUME NEW t \in Thread, NEW ok \in BOOLEAN, job \in [Thread -> Job],
           job[t].stage \in Calling,
           IF After(job[t], ok) = "none" THEN End(t) ELSE Move(t, After(job[t], ok))
    PROVE  \E n \in Job : job' = [job EXCEPT ![t] = n] /\ Resumed(job[t], ok, n)
<1> PICK j \in Job : j = job[t]
  OBVIOUS
<1> PICK s : s = After(j, ok)
  OBVIOUS
<1>1. /\ s \in Stage \ Calling
      /\ s \notin {"get", "set"}
      /\ j.stage \in Leased <=> s \in Leased
      /\ s = "artifact" => j.stage = "decide" /\ ok
      /\ s = "turn" <=> j.stage = "start" /\ ok
      /\ s = "error" <=> j.stage = "complete" /\ ~ ok
  <2>1. j.stage = "store" => s = "none"
    BY DEF After
  <2>2. j.stage = "decide" => s = IF ok THEN "artifact" ELSE "none"
    BY DEF After
  <2>3. j.stage = "start" => s = IF ok THEN "turn" ELSE "release"
    BY DEF After
  <2>4. j.stage = "complete" => s = IF ok THEN "release" ELSE "error"
    BY DEF After
  <2>5. j.stage = "fail" => s = IF ok /\ j.asks THEN "attention" ELSE "release"
    BY DEF After
  <2> QED BY <2>1, <2>2, <2>3, <2>4, <2>5 DEF Calling, Stage, Leased
<1>2. CASE s = "none"
  <2>1. NoJob \in Job /\ NoJob.stage = "none"
    BY DEF NoJob, Job, Stage
  <2>2. job' = [job EXCEPT ![t] = NoJob]
    BY <1>2 DEF End
  <2> QED BY <1>1, <1>2, <2>1, <2>2 DEF Resumed
<1>3. CASE s # "none"
  <2> PICK n : n = [j EXCEPT !.stage = s]
    OBVIOUS
  <2>1. n \in Job /\ n.stage = s /\ n.id = j.id /\ n.identity = j.identity
    BY <1>1 DEF Job
  <2>2. job' = [job EXCEPT ![t].stage = s]
    BY <1>3 DEF Move
  <2>3. job' = [job EXCEPT ![t] = n]
    BY <2>2, Zenon
  <2> QED BY <1>1, <2>1, <2>3 DEF Resumed
<1> QED BY <1>2, <1>3

\* A request that moves to another stage.
LEMMA MoveJob ==
    ASSUME NEW t \in Thread, NEW s \in Stage, job \in [Thread -> Job], Move(t, s)
    PROVE  \E n \in Job : /\ job' = [job EXCEPT ![t] = n]
                          /\ n.stage = s /\ n.id = job[t].id /\ n.identity = job[t].identity
<1> PICK n : n = [job[t] EXCEPT !.stage = s]
  OBVIOUS
<1>1. job[t] \in Job
  OBVIOUS
<1>2. n \in Job /\ n.stage = s /\ n.id = job[t].id /\ n.identity = job[t].identity
  BY <1>1 DEF Job
<1>3. job' = [job EXCEPT ![t] = n]
  BY Zenon DEF Move
<1> QED BY <1>2, <1>3

\* One request changes, with its call; everything it relies on only grows.
Grows ==
    /\ \A h \in Handoff : files[h] \subseteq files'[h]
    /\ \A h \in Handoff : started[h] > 0 => started'[h] > 0

LEMMA PairedLocal ==
    ASSUME SemiIInv, Grows, NEW t \in Thread, NEW n, NEW c,
           job' = [job EXCEPT ![t] = n], pc' = [pc EXCEPT ![t] = c], Paired(n, c)'
    PROVE  PairedOK'
<1> SUFFICES ASSUME NEW u \in Thread PROVE Paired(job[u], pc[u])'
  BY DEF PairedOK
<1>0. job \in [Thread -> Job] /\ pc \in [Actor -> [op : Op, id : Id \cup {NoId}, step : Step]]
      /\ u \in Actor
  BY DEF SemiIInv, SemiTypeOK, IInv, TypeOK, Actor
<1>1. CASE u = t
  <2>1. job'[u] = n /\ pc'[u] = c
    BY <1>0, <1>1
  <2> QED BY <2>1 DEF Paired
<1>2. CASE u # t
  <2>1. job'[u] = job[u] /\ pc'[u] = pc[u] /\ Paired(job[u], pc[u])
    BY <1>0, <1>2 DEF SemiIInv, PairedOK
  <2>2. job[u].stage \in Running \cup {"artifact"} => job[u].id \in Handoff
    BY <2>1 DEF Paired, Running
  <2> QED BY <2>1, <2>2 DEF Paired, Grows, Running
<1> QED BY <1>1, <1>2

\* The same when only the request changes.
LEMMA PairedJob ==
    ASSUME SemiIInv, NEW t \in Thread, NEW n, job' = [job EXCEPT ![t] = n],
           UNCHANGED vars, Paired(n, pc[t])
    PROVE  PairedOK'
<1>1. pc' = [pc EXCEPT ![t] = pc[t]] /\ Grows
  BY DEF SemiIInv, IInv, TypeOK, Grows, vars
<1>2. UNCHANGED <<files, started>>
  BY DEF vars
<1> PICK c : c = pc[t]
  OBVIOUS
<1>3. Paired(n, c)'
  BY <1>2 DEF Paired
<1>4. pc' = [pc EXCEPT ![t] = c]
  BY <1>1
<1> QED BY <1>1, <1>3, <1>4, PairedLocal

\* A request that makes a call: the call is the one its new stage waits for.
LEMMA PairedCall ==
    ASSUME SemiIInv, NEW t \in Thread, NEW n \in Job, NEW op, NEW step,
           job' = [job EXCEPT ![t] = n], Call(t, op, n.id, step), n.id \in Handoff,
           n.stage \in Calling, step # "idle",
           n.stage = "store" => op \in {"prepare", "approve", "reject"},
           n.stage = "decide" => op = "approve",
           n.stage \in {"start", "complete", "fail"} => op = n.stage,
           n.stage \in {"complete", "fail"} => step = "ready" /\ started[n.id] > 0,
           n.stage \in Placed => n.identity \in Identity
    PROVE  PairedOK' /\ job' \in [Thread -> Job]
<1> PICK c : c = [op |-> op, id |-> n.id, step |-> step]
  OBVIOUS
<1>1. /\ pc' = [pc EXCEPT ![t] = c] /\ UNCHANGED <<files, started>>
      /\ c.op = op /\ c.id = n.id /\ c.step = step
  BY DEF Call, disk, history
<1>2. Grows
  BY <1>1 DEF Grows
<1>3. Paired(n, c)'
  BY <1>1 DEF Paired, Calling, Running
<1>4. job' \in [Thread -> Job]
  BY DEF SemiIInv, SemiTypeOK
<1> QED BY <1>1, <1>2, <1>3, <1>4, PairedLocal

\* A request that goes on, or ends, without a call.
LEMMA PairedStay ==
    ASSUME SemiIInv, NEW t \in Thread, job[t].stage \notin Calling, UNCHANGED vars,
           \/ End(t)
           \/ \E n \in Job : /\ job' = [job EXCEPT ![t] = n]
                             /\ n.stage \notin Calling \cup Running
                             /\ n.stage # "artifact" /\ n.id \in Handoff
                             /\ n.stage \in Placed => n.identity \in Identity
    PROVE  PairedOK' /\ job' \in [Thread -> Job]
<1>1. Paired(job[t], pc[t]) /\ pc[t] = Idle
  BY DEF SemiIInv, PairedOK, Paired
<1>2. NoJob \in Job /\ NoJob.stage = "none"
  BY DEF NoJob, Job, Stage
<1>3. PICK n \in Job : job' = [job EXCEPT ![t] = n] /\ Paired(n, pc[t])
  <2>1. CASE End(t)
    BY <1>1, <1>2, <2>1 DEF End, Paired, Calling, Placed, Leased, Running
  <2>2. CASE ~ End(t)
    BY <1>1, <2>2 DEF Paired, Calling
  <2> QED BY <2>1, <2>2
<1>4. job' \in [Thread -> Job]
  BY <1>3 DEF SemiIInv, SemiTypeOK
<1> QED BY <1>3, <1>4, PairedJob

\* The steps of a request that make no ledger step.
LEMMA PairedRequest ==
    ASSUME SemiIInv, NEW t \in Thread,
           \/ \E h \in Handoff : ServeStore(t, h) \/ ServeApproveAndSend(t, h)
           \/ RequireSemiAuto(t) \/ ReadArtifact(t) \/ GuardGet(t) \/ GuardSet(t)
           \/ RunTransport(t) \/ RecordError(t) \/ RaiseAttention(t) \/ Release(t)
    PROVE  PairedOK' /\ job' \in [Thread -> Job]
<1>0. /\ job \in [Thread -> Job] /\ job[t] \in Job
      /\ Paired(job[t], pc[t]) /\ SealOK
  BY DEF SemiIInv, SemiTypeOK, PairedOK
<1>1. ASSUME NEW h \in Handoff, NEW stage \in {"store", "mode"}, Serve(t, h, stage)
      PROVE  \E n \in Job : job' = [job EXCEPT ![t] = n] /\ n.stage = stage /\ n.id = h
  <2> PICK n : n = [NoJob EXCEPT !.stage = stage, !.id = h]
    OBVIOUS
  <2>1. n \in Job /\ n.stage = stage /\ n.id = h
    BY DEF NoJob, Job, Stage
  <2>2. job' = [job EXCEPT ![t] = n]
    BY <1>1 DEF Serve
  <2> QED BY <2>1, <2>2
<1>2. ASSUME NEW h \in Handoff, ServeStore(t, h) PROVE PairedOK' /\ job' \in [Thread -> Job]
  <2>1. PICK n \in Job : job' = [job EXCEPT ![t] = n] /\ n.stage = "store" /\ n.id = h
    BY <1>1, <1>2 DEF ServeStore
  <2>2. PICK op \in {"prepare", "approve", "reject"}, step \in {"route", "called"} :
            Call(t, op, n.id, step)
    BY <1>2, <2>1 DEF ServeStore, CallPrepare, CallDecide
  <2>3. n.stage \in Calling /\ n.stage \notin Placed \cup {"decide", "start", "complete", "fail"}
    BY <2>1 DEF Calling, Placed, Leased
  <2> QED BY <2>1, <2>2, <2>3, PairedCall
<1>3. ASSUME NEW h \in Handoff, ServeApproveAndSend(t, h)
      PROVE  PairedOK' /\ job' \in [Thread -> Job]
  <2>1. PICK n \in Job : job' = [job EXCEPT ![t] = n] /\ n.stage = "mode" /\ n.id = h
    BY <1>1, <1>3 DEF ServeApproveAndSend
  <2>2. job[t].stage \notin Calling /\ n.stage \notin Calling \cup Running \cup Placed
    BY <1>3, <2>1 DEF ServeApproveAndSend, Serve, In, Calling, Running, Placed, Leased
  <2> QED BY <1>3, <2>1, <2>2, PairedStay DEF ServeApproveAndSend
<1>4. ASSUME NEW s \in Calling \ {"store"}, NEW op, NEW step, Move(t, s), Call(t, op, job[t].id, step),
             op = IF s = "decide" THEN "approve" ELSE s,
             step = IF s \in {"complete", "fail"} THEN "ready" ELSE "called",
             s = "decide" \/ job[t].stage \in Placed,
             s \in {"complete", "fail"} => job[t].stage \in Running,
             job[t].stage # "none"
      PROVE  PairedOK' /\ job' \in [Thread -> Job]
  <2>1. s \in Stage
    BY DEF Calling, Stage
  <2>2. PICK n \in Job : /\ job' = [job EXCEPT ![t] = n]
                         /\ n.stage = s /\ n.id = job[t].id /\ n.identity = job[t].identity
    BY <1>0, <1>4, <2>1, MoveJob
  <2>3. /\ n.id \in Handoff
        /\ s # "decide" => n.identity \in Identity
        /\ s \in {"complete", "fail"} => started[n.id] > 0
    BY <1>0, <1>4, <2>2 DEF Paired
  <2>4. "decide" \notin Placed
    BY DEF Placed, Leased
  <2> QED BY <1>4, <2>2, <2>3, <2>4, PairedCall DEF Calling
<1>5. CASE RequireSemiAuto(t)
  <2>1. job[t].stage = "mode" /\ job[t].stage \notin Calling
    BY <1>5 DEF RequireSemiAuto, In, Calling
  <2>2. CASE mode = "SEMI_AUTO"
    BY <1>4, <1>5, <2>1, <2>2 DEF RequireSemiAuto, Calling
  <2>3. CASE mode # "SEMI_AUTO"
    BY <1>5, <2>1, <2>3, PairedStay DEF RequireSemiAuto
  <2> QED BY <2>2, <2>3
<1>6. CASE GuardSet(t)
  BY <1>4, <1>6 DEF GuardSet, In, Calling, Placed, Leased
<1>7. CASE RunTransport(t)
  <2>1. job[t].stage = "turn" /\ job[t].stage \in Placed /\ job[t].stage \in Running
    BY <1>7 DEF RunTransport, In, Placed, Leased, Running
  <2>2. CASE Move(t, "complete") /\ Call(t, "complete", job[t].id, "ready")
    BY <1>4, <2>1, <2>2 DEF Calling
  <2>3. ASSUME NEW asks \in BOOLEAN, Call(t, "fail", job[t].id, "ready"),
               job' = [job EXCEPT ![t].stage = "fail", ![t].asks = asks]
        PROVE  PairedOK' /\ job' \in [Thread -> Job]
    <3> PICK n : n = [job[t] EXCEPT !.stage = "fail", !.asks = asks]
      OBVIOUS
    <3>1. n \in Job /\ n.stage = "fail" /\ n.id = job[t].id /\ n.identity = job[t].identity
      BY <1>0 DEF Job, Stage
    <3>2. job' = [job EXCEPT ![t] = n]
      BY <2>3, <1>0
    <3>3. n.id \in Handoff /\ n.identity \in Identity /\ started[n.id] > 0
      BY <1>0, <2>1, <3>1 DEF Paired
    <3> QED BY <2>3, <3>1, <3>2, <3>3, PairedCall DEF Calling
  <2> QED BY <1>7, <2>2, <2>3 DEF RunTransport
<1>8. CASE RecordError(t)
  BY <1>4, <1>8 DEF RecordError, In, Calling, Placed, Leased, Running
<1>9. ASSUME NEW s \in {"set", "release"}, Move(t, s), UNCHANGED vars,
             job[t].stage \in Placed, job[t].stage \notin Calling
      PROVE  PairedOK' /\ job' \in [Thread -> Job]
  <2>1. s \in Stage /\ s \notin Calling \cup Running /\ s # "artifact"
    BY DEF Calling, Stage, Running
  <2>2. PICK n \in Job : /\ job' = [job EXCEPT ![t] = n]
                         /\ n.stage = s /\ n.id = job[t].id /\ n.identity = job[t].identity
    BY <1>0, <1>9, <2>1, MoveJob
  <2>3. n.id \in Handoff /\ n.identity \in Identity
    BY <1>0, <1>9, <2>2 DEF Paired, Placed, Leased
  <2> QED BY <1>9, <2>1, <2>2, <2>3, PairedStay
<1>10. CASE GuardGet(t)
  <2>1. job[t].stage = "get" /\ job[t].stage \in Placed /\ job[t].stage \notin Calling
    BY <1>10 DEF GuardGet, In, Placed, Calling
  <2> QED BY <1>9, <1>10, <2>1, PairedStay DEF GuardGet
<1>11. CASE RaiseAttention(t)
  BY <1>9, <1>11 DEF RaiseAttention, In, Placed, Leased, Calling
<1>12. CASE Release(t)
  BY <1>12, PairedStay DEF Release, In, Calling
<1>13. CASE ReadArtifact(t)
  <2>1. job[t].stage = "artifact" /\ job[t].stage \notin Calling /\ UNCHANGED vars
    BY <1>13 DEF ReadArtifact, In, Calling
  <2>2. job[t].id \in Handoff /\ envelope[job[t].id].seal \in Seal
    BY <1>0, <2>1 DEF Paired, SealOK
  <2> PICK i : i = HeadOf[envelope[job[t].id].seal]
    OBVIOUS
  <2>3. i \in Identity
    BY <2>2 DEF Identity
  <2> PICK n : n = [job[t] EXCEPT !.stage = "get", !.identity = i]
    OBVIOUS
  <2>4. n \in Job /\ n.stage = "get" /\ n.id = job[t].id /\ n.identity = i
    BY <1>0, <2>3 DEF Job, Stage
  <2>5. job' = [job EXCEPT ![t].stage = "get", ![t].identity = i]
    BY <1>13 DEF ReadArtifact
  <2>6. job' = [job EXCEPT ![t] = n]
    BY <1>0, <2>5
  <2> QED BY <2>1, <2>2, <2>3, <2>4, <2>6, PairedStay DEF Calling, Running
<1> QED
  BY <1>2, <1>3, <1>5, <1>6, <1>7, <1>8, <1>10, <1>11, <1>12, <1>13

\* A request whose call goes on, is refused, fails or has installed.
LEMMA StoreEffect ==
    ASSUME SemiIInv, NEW t \in Thread, RunStore(t) \/ StoreFails(t)
    PROVE  /\ job[t].stage \in Calling /\ Paired(job[t], pc[t])
           /\ \/ /\ RunStore(t) /\ UNCHANGED job
                 /\ \E step \in Step \ {"idle"} : GoesOn(t, step)
              \/ /\ Refused(t) /\ RunStore(t) /\ ~ Installs(t)
                 /\ \E n \in Job : job' = [job EXCEPT ![t] = n] /\ Resumed(job[t], FALSE, n)
              \/ /\ StoreFails(t)
                 /\ \E n \in Job : job' = [job EXCEPT ![t] = n] /\ Resumed(job[t], FALSE, n)
              \/ /\ InstallLedger(t) /\ RunStore(t)
                 /\ \E n \in Job : job' = [job EXCEPT ![t] = n] /\ Resumed(job[t], TRUE, n)
<1>0. /\ IInv /\ Alone /\ SyncOK /\ t \in Actor /\ job \in [Thread -> Job]
      /\ Paired(job[t], pc[t])
      /\ pc \in [Actor -> [op : Op, id : Id \cup {NoId}, step : Step]]
  BY DEF SemiIInv, SemiTypeOK, PairedOK, Actor, IInv, TypeOK
<1>1. pc[t].step # "idle"
  BY DEF RunStore, StoreFails, StoreStep, InspectDecision, InspectStart, At, ResolveRoute,
         VerifyTree, VerifyProtocol, EnterPrepare, EnterPrepareSmoke, EnterDecide,
         EnterStart, EnterComplete, EnterFail, EnterBind, EnterTransition, Enter,
         WriteRecord, StageLedger, InstallLedger, WriteFails, InSection
<1>2. job[t].stage \in Calling
  BY <1>0, <1>1 DEF Paired, Idle
<1>3. ASSUME NEW ok \in BOOLEAN,
             IF After(job[t], ok) = "none" THEN End(t) ELSE Move(t, After(job[t], ok))
      PROVE  \E n \in Job : job' = [job EXCEPT ![t] = n] /\ Resumed(job[t], ok, n)
  BY <1>0, <1>2, <1>3, Resume
<1>4. CASE StoreFails(t)
  BY <1>0, <1>2, <1>3, <1>4 DEF StoreFails
<1>5. CASE RunStore(t) /\ \E step \in Step : GoesOn(t, step)
  <2>1. PICK step \in Step \ {"idle"} : GoesOn(t, step)
    BY <1>5 DEF GoesOn
  <2>2. pc'[t].step = step
    BY <1>0, <2>1 DEF GoesOn, Goto
  <2>3. pc'[t] # Idle
    BY <2>2 DEF Idle
  <2> QED BY <1>0, <1>2, <1>5, <2>1, <2>3 DEF RunStore
<1>6. CASE RunStore(t) /\ Refused(t)
  <2>1. pc'[t] = Idle /\ Installs(t) = FALSE
    BY <1>0, <1>6 DEF Refused, Leave, Installs, InSection
  <2>2. IF After(job[t], FALSE) = "none" THEN End(t) ELSE Move(t, After(job[t], FALSE))
    BY <1>6, <2>1 DEF RunStore
  <2> QED BY <1>0, <1>2, <1>3, <1>6, <2>1, <2>2
<1>7. CASE RunStore(t) /\ InstallLedger(t)
  <2>1. pc' = [pc EXCEPT ![t] = Idle] /\ Installs(t)
    BY <1>0, <1>7, InstallEffect
  <2>2. pc'[t] = Idle /\ Installs(t) = TRUE
    BY <1>0, <2>1 DEF Installs
  <2>3. IF After(job[t], TRUE) = "none" THEN End(t) ELSE Move(t, After(job[t], TRUE))
    BY <1>7, <2>2 DEF RunStore
  <2> QED BY <1>0, <1>2, <1>3, <1>7, <2>3
<1> QED BY <1>4, <1>5, <1>6, <1>7, StoreStepCases DEF RunStore

LEMMA PairedStore ==
    ASSUME SemiIInv, NEW t \in Thread, RunStore(t) \/ StoreFails(t)
    PROVE  PairedOK' /\ job' \in [Thread -> Job]
<1>0. /\ IInv /\ Alone /\ SyncOK /\ t \in Actor /\ job \in [Thread -> Job]
      /\ job[t].stage \in Calling /\ Paired(job[t], pc[t])
      /\ pc \in [Actor -> [op : Op, id : Id \cup {NoId}, step : Step]]
  BY StoreEffect DEF SemiIInv, SemiTypeOK, Actor, IInv, TypeOK
<1>1. ASSUME NEW step \in Step \ {"idle"}, GoesOn(t, step), UNCHANGED job
      PROVE  PairedOK'
  <2>1. UNCHANGED started /\ (UNCHANGED files \/ WriteRecord(t))
    BY <1>1 DEF GoesOn
  <2>2. \A h \in Handoff : files[h] \subseteq files'[h]
    BY <1>0, <2>1 DEF WriteRecord, IInv, TypeOK, Id
  <2>3. Grows
    BY <2>1, <2>2 DEF Grows
  <2> PICK c : c = [pc[t] EXCEPT !.step = step]
    OBVIOUS
  <2>4. c.op = pc[t].op /\ c.id = pc[t].id /\ c.step = step
    BY <1>0
  <2>5. pc' = [pc EXCEPT ![t] = c]
    BY <1>1, Zenon DEF GoesOn, Goto
  <2>6. job' = [job EXCEPT ![t] = job[t]]
    BY <1>0, <1>1
  <2> PICK n : n = job[t]
    OBVIOUS
  <2>7. Paired(n, c)'
    BY <1>0, <1>1, <2>1, <2>4 DEF Paired, Calling, Running, GoesOn
  <2> QED BY <2>3, <2>5, <2>6, <2>7, PairedLocal
<1>2. ASSUME NEW n \in Job, NEW ok \in BOOLEAN, job' = [job EXCEPT ![t] = n],
             Resumed(job[t], ok, n), pc' = [pc EXCEPT ![t] = Idle], UNCHANGED files,
             \A h \in Handoff : started[h] > 0 => started'[h] > 0,
             ok /\ job[t].stage = "start" => started'[job[t].id] > 0,
             ok /\ job[t].stage = "decide" => "artifact" \in files[job[t].id]
      PROVE  PairedOK' /\ job' \in [Thread -> Job]
  <2>1. Grows
    BY <1>2 DEF Grows
  <2>2. job[t].id \in Handoff
    BY <1>0 DEF Paired, Calling
  <2>3. Paired(n, Idle)'
    <3>1. n.stage \in Running => started'[n.id] > 0
      BY <1>0, <1>2, <2>2 DEF Resumed, Paired, Calling, Running
    <3>2. n.stage \in Placed => n.identity \in Identity
      BY <1>0, <1>2 DEF Resumed, Paired, Placed, Leased
    <3> QED BY <1>0, <1>2, <2>2, <3>1, <3>2 DEF Resumed, Paired, Calling
  <2>4. job' \in [Thread -> Job]
    BY <1>0, <1>2
  <2> QED BY <1>2, <2>1, <2>3, <2>4, PairedLocal
<1>3. CASE UNCHANGED job /\ \E step \in Step \ {"idle"} : GoesOn(t, step)
  BY <1>0, <1>1, <1>3
<1>4. CASE /\ Refused(t) \/ StoreFails(t)
           /\ \E n \in Job : job' = [job EXCEPT ![t] = n] /\ Resumed(job[t], FALSE, n)
  <2>1. pc' = [pc EXCEPT ![t] = Idle] /\ UNCHANGED <<files, started>>
    BY <1>4 DEF Refused, StoreFails, WriteFails, Change, Leave, disk
  <2>2. PICK n \in Job : job' = [job EXCEPT ![t] = n] /\ Resumed(job[t], FALSE, n)
    BY <1>4
  <2> QED BY <1>2, <2>1, <2>2
<1>5. CASE /\ InstallLedger(t)
           /\ \E n \in Job : job' = [job EXCEPT ![t] = n] /\ Resumed(job[t], TRUE, n)
  <2>1. /\ pc[t].step = "staged" /\ pc' = [pc EXCEPT ![t] = Idle] /\ UNCHANGED files
        /\ pc[t].id \in Handoff
        /\ \A h \in Handoff : h # pc[t].id => started'[h] = started[h]
        /\ pc[t].op = "start" => started'[pc[t].id] = started[pc[t].id] + 1
        /\ pc[t].op # "start" => started'[pc[t].id] = started[pc[t].id]
    BY <1>0, <1>5, InstallEffect
  <2>2. started[pc[t].id] \in Nat
    BY <1>0, <2>1 DEF IInv, TypeOK
  <2>3. /\ \A h \in Handoff : started[h] > 0 => started'[h] > 0
        /\ job[t].stage = "start" => started'[job[t].id] > 0
    BY <1>0, <2>1, <2>2 DEF Paired
  <2>4. job[t].stage = "decide" => "artifact" \in files[job[t].id]
    BY <1>0, <2>1 DEF Paired, IInv, EditOK, InSection, Calling
  <2>5. PICK n \in Job : job' = [job EXCEPT ![t] = n] /\ Resumed(job[t], TRUE, n)
    BY <1>5
  <2> QED BY <1>2, <2>1, <2>3, <2>4, <2>5
<1> QED BY <1>3, <1>4, <1>5, StoreEffect

\* A crash ends every request with its call.
LEMMA PairedCrash ==
    ASSUME SemiIInv, CrashConsole
    PROVE  /\ PairedOK' /\ job' \in [Thread -> Job]
           /\ \A t \in Thread : job'[t] = NoJob /\ pc'[t] = Idle
           /\ cut \subseteq cut' /\ cut' \subseteq Handoff
           /\ \A t \in Thread : job[t].stage # "none" => job[t].id \in cut'
<1>0. /\ \A t \in Thread : Paired(job[t], pc[t]) /\ job[t] \in Job
      /\ cut \subseteq Handoff
  BY DEF SemiIInv, PairedOK, SemiTypeOK
<1>1. NoJob \in Job /\ NoJob.stage = "none"
  BY DEF NoJob, Job, Stage
<1>2. \A t \in Thread : job'[t] = NoJob /\ pc'[t] = Idle
  BY DEF CrashConsole, Crash, Proc, Actor
<1>3. PairedOK'
  BY <1>1, <1>2 DEF PairedOK, Paired, Calling, Placed, Leased, Running
<1>4. job' \in [Thread -> Job]
  BY <1>1 DEF CrashConsole
<1>5. NoId \notin Handoff
  BY IdAssumption DEF Id
<1>6. cut \subseteq cut' /\ cut' \subseteq Handoff
  BY <1>0, <1>5 DEF CrashConsole, Job
<1>7. \A t \in Thread : job[t].stage # "none" => job[t].id \in cut'
  BY <1>0, <1>5 DEF CrashConsole, Paired
<1> QED BY <1>2, <1>3, <1>4, <1>6, <1>7

\* Every step keeps requests and calls in pairs.
LEMMA PairedStep ==
    ASSUME SemiIInv, [SemiNext]_allVars
    PROVE  PairedOK' /\ job' \in [Thread -> Job]
<1>1. ASSUME UNCHANGED <<job, pc, files, started>> PROVE PairedOK' /\ job' \in [Thread -> Job]
  BY <1>1 DEF SemiIInv, SemiTypeOK, PairedOK, Paired
<1>2. CASE SetMode \/ World \/ Quiesce \/ UNCHANGED allVars
  BY <1>1, <1>2 DEF SetMode, World, ChangeRoute, Rebind, EditTree, Change, Quiesce,
                    allVars, vars, semi, memory, disk
<1> QED
  BY <1>2, PairedCrash, PairedRequest, PairedStore DEF SemiNext, ThreadStep

\* Types of the dispatcher's own variables.
LEMMA SemiTypeStep ==
    ASSUME SemiIInv, [SemiNext]_allVars, TypeOK', PairedOK', job' \in [Thread -> Job]
    PROVE  SemiTypeOK'
<1>0. /\ \A t \in Thread : Paired(job[t], pc[t])
      /\ SemiTypeOK
  BY DEF SemiIInv, PairedOK
<1>1. mode' \in Mode
  BY <1>0 DEF SemiTypeOK, SemiNext, allVars, ServeStore, ServeApproveAndSend, Serve, ThreadStep,
      RunStore, RequireSemiAuto, ReadArtifact, GuardGet, GuardSet, RunTransport, RecordError,
      RaiseAttention, Release, StoreFails, SetMode, World, Quiesce, CrashConsole, semi
<1>2. requests' \in 0 .. MaxRequests
  <2>1. requests' = requests \/ (requests < MaxRequests /\ requests' = requests + 1)
    BY DEF SemiNext, allVars, ServeStore, ServeApproveAndSend, Serve, ThreadStep,
      RunStore, RequireSemiAuto, ReadArtifact, GuardGet, GuardSet, RunTransport, RecordError,
      RaiseAttention, Release, StoreFails, SetMode, World, Quiesce, CrashConsole, semi
  <2>2. requests \in 0 .. MaxRequests
    BY <1>0 DEF SemiTypeOK
  <2> QED BY <2>1, <2>2, RequestAssumption
<1>3. attention' \in Handoff \cup {NoId}
  <2>1. ASSUME NEW t \in Thread, RaiseAttention(t) PROVE attention' \in Handoff \cup {NoId}
    BY <1>0, <2>1 DEF RaiseAttention, In, Paired, SemiTypeOK
  <2> QED BY <1>0, <2>1 DEF SemiTypeOK, SemiNext, allVars, ServeStore, ServeApproveAndSend,
      Serve, ThreadStep, RunStore, RequireSemiAuto, ReadArtifact, GuardGet, GuardSet,
      RunTransport, RecordError, Release, StoreFails, SetMode, World, Quiesce, CrashConsole, semi
<1>4. lease' \in [Identity -> Handoff \cup {NoId}]
  <2>1. ASSUME NEW t \in Thread, GuardSet(t) PROVE lease' \in [Identity -> Handoff \cup {NoId}]
    <3>1. job[t].id \in Handoff
      BY <1>0, <2>1 DEF GuardSet, In, Paired
    <3> QED BY <1>0, <2>1, <3>1 DEF GuardSet, SemiTypeOK
  <2>2. ASSUME NEW t \in Thread, Release(t) PROVE lease' \in [Identity -> Handoff \cup {NoId}]
    BY <1>0, <2>2 DEF Release, SemiTypeOK
  <2>3. CASE CrashConsole
    BY <2>3 DEF CrashConsole
  <2> QED BY <1>0, <2>1, <2>2, <2>3 DEF SemiTypeOK, SemiNext, allVars, ServeStore,
      ServeApproveAndSend, Serve, ThreadStep, RunStore, RequireSemiAuto, ReadArtifact, GuardGet,
      RunTransport, RecordError, RaiseAttention, StoreFails, SetMode, World, Quiesce, semi
<1>5. cut' \subseteq Handoff
  <2>1. ASSUME NEW t \in Thread, StoreFails(t) PROVE cut' \subseteq Handoff
    <3>1. job[t].stage \in Calling
      BY <2>1, StoreEffect
    <3>2. job[t].id \in Handoff
      BY <1>0, <3>1 DEF Paired, Calling
    <3> QED BY <1>0, <2>1, <3>2 DEF StoreFails, SemiTypeOK
  <2> QED BY <1>0, <2>1, PairedCrash DEF SemiTypeOK, SemiNext, allVars, ServeStore,
      ServeApproveAndSend, Serve, ThreadStep, RunStore, RequireSemiAuto, ReadArtifact, GuardGet,
      GuardSet, RunTransport, RecordError, RaiseAttention, Release, SetMode, World, Quiesce, semi
<1> QED BY <1>1, <1>2, <1>3, <1>4, <1>5 DEF SemiTypeOK

-----------------------------------------------------------------------------
(* The lease.                                                              *)

\* A request that keeps its lease, while the leases stay.
LEMMA LeaseLocal ==
    ASSUME LeaseIsHeld, job \in [Thread -> Job], UNCHANGED lease, NEW t \in Thread, NEW n,
           job' = [job EXCEPT ![t] = n],
           job[t].stage \in Leased =>
               n.stage \in Leased /\ n.id = job[t].id /\ n.identity = job[t].identity
    PROVE  LeaseIsHeld'
<1> SUFFICES ASSUME NEW i \in Identity, lease[i] # NoId
             PROVE  \E u \in Thread : /\ job'[u].stage \in Leased
                                     /\ job'[u].id = lease[i] /\ job'[u].identity = i
  BY DEF LeaseIsHeld
<1>1. PICK u \in Thread : job[u].stage \in Leased /\ job[u].id = lease[i] /\ job[u].identity = i
  BY DEF LeaseIsHeld
<1>2. job'[u] = IF u = t THEN n ELSE job[u]
  OBVIOUS
<1> QED BY <1>1, <1>2

\* The same, for a request that moves.
LEMMA LeaseMove ==
    ASSUME LeaseIsHeld, job \in [Thread -> Job], UNCHANGED lease, NEW t \in Thread,
           NEW s \in Stage, Move(t, s), job[t].stage \in Leased => s \in Leased
    PROVE  LeaseIsHeld'
BY MoveJob, LeaseLocal

\* A lease is there only while a request that took it has still to release it.
LEMMA LeaseStep ==
    ASSUME SemiIInv, [SemiNext]_allVars
    PROVE  LeaseIsHeld'
<1>0. /\ LeaseIsHeld /\ job \in [Thread -> Job] /\ lease \in [Identity -> Handoff \cup {NoId}]
      /\ \A t \in Thread : Paired(job[t], pc[t])
  BY DEF SemiIInv, PairedOK, SemiTypeOK
<1>1. CASE UNCHANGED <<job, lease>>
  BY <1>0, <1>1 DEF LeaseIsHeld
<1>2. ASSUME NEW t \in Thread, NEW n, job' = [job EXCEPT ![t] = n], UNCHANGED lease,
             job[t].stage \notin Leased
      PROVE  LeaseIsHeld'
  BY <1>0, <1>2, LeaseLocal
<1>3. ASSUME NEW t \in Thread, NEW h \in Handoff, ServeStore(t, h) \/ ServeApproveAndSend(t, h)
      PROVE  LeaseIsHeld'
  BY <1>2, <1>3 DEF ServeStore, ServeApproveAndSend, Serve, In, Leased
<1>4. ASSUME NEW t \in Thread, RequireSemiAuto(t) \/ GuardGet(t) PROVE LeaseIsHeld'
  <2>1. UNCHANGED lease /\ job[t].stage \notin Leased
    BY <1>4 DEF RequireSemiAuto, GuardGet, In, Leased
  <2>2. End(t) \/ \E s \in Stage : Move(t, s)
    BY <1>4 DEF RequireSemiAuto, GuardGet, Stage
  <2> QED BY <1>0, <1>2, <2>1, <2>2, LeaseMove DEF End
<1>5. ASSUME NEW t \in Thread, ReadArtifact(t) PROVE LeaseIsHeld'
  <2>1. UNCHANGED lease /\ job[t].stage \notin Leased
    BY <1>5 DEF ReadArtifact, In, Leased
  <2>2. \E n : job' = [job EXCEPT ![t] = n]
    <3> PICK i : i = HeadOf[envelope[job[t].id].seal]
      OBVIOUS
    <3> PICK n : n = [job[t] EXCEPT !.stage = "get", !.identity = i]
      OBVIOUS
    <3>1. job' = [job EXCEPT ![t] = n]
      BY <1>0, <1>5 DEF ReadArtifact
    <3> QED BY <3>1
  <2> QED BY <1>2, <2>1, <2>2
<1>6. ASSUME NEW t \in Thread, GuardSet(t) PROVE LeaseIsHeld'
  <2>1. PICK n \in Job : /\ job' = [job EXCEPT ![t] = n] /\ n.stage = "start"
                         /\ n.id = job[t].id /\ n.identity = job[t].identity
    BY <1>0, <1>6, MoveJob DEF GuardSet, Stage
  <2>2. /\ job[t].stage = "set" /\ job[t].identity \in Identity
        /\ lease' = [lease EXCEPT ![job[t].identity] = job[t].id]
    BY <1>0, <1>6 DEF GuardSet, In, Paired, Placed
  <2> SUFFICES ASSUME NEW i \in Identity, lease'[i] # NoId
               PROVE  \E u \in Thread : /\ job'[u].stage \in Leased
                                       /\ job'[u].id = lease'[i] /\ job'[u].identity = i
    BY DEF LeaseIsHeld
  <2>3. CASE i = job[t].identity
    <3>1. job'[t] = n /\ lease'[i] = job[t].id
      BY <1>0, <2>1, <2>2, <2>3
    <3> QED BY <2>1, <2>3, <3>1 DEF Leased
  <2>4. CASE i # job[t].identity
    <3>1. lease'[i] = lease[i]
      BY <1>0, <2>2, <2>4
    <3>2. PICK u \in Thread : job[u].stage \in Leased /\ job[u].id = lease[i] /\ job[u].identity = i
      BY <1>0, <3>1 DEF LeaseIsHeld
    <3>3. job'[u] = job[u]
      BY <1>0, <2>1, <2>4, <3>2
    <3> QED BY <3>1, <3>2, <3>3
  <2> QED BY <2>3, <2>4
<1>7. ASSUME NEW t \in Thread, RunTransport(t) PROVE LeaseIsHeld'
  <2>1. UNCHANGED lease
    BY <1>7 DEF RunTransport
  <2>2. CASE Move(t, "complete")
    BY <1>0, <2>1, <2>2, LeaseMove DEF Stage, Leased
  <2>3. ASSUME NEW asks \in BOOLEAN, job' = [job EXCEPT ![t].stage = "fail", ![t].asks = asks]
        PROVE  LeaseIsHeld'
    <3> PICK n : n = [job[t] EXCEPT !.stage = "fail", !.asks = asks]
      OBVIOUS
    <3>1. n.stage = "fail" /\ n.id = job[t].id /\ n.identity = job[t].identity
      BY <1>0 DEF Job
    <3>2. job' = [job EXCEPT ![t] = n]
      BY <1>0, <2>3
    <3> QED BY <1>0, <2>1, <3>1, <3>2, LeaseLocal DEF Leased
  <2> QED BY <1>7, <2>2, <2>3 DEF RunTransport
<1>8. ASSUME NEW t \in Thread, RecordError(t) \/ RaiseAttention(t) PROVE LeaseIsHeld'
  BY <1>0, <1>8, LeaseMove DEF RecordError, RaiseAttention, Stage, Leased
<1>9. ASSUME NEW t \in Thread, Release(t) PROVE LeaseIsHeld'
  <2>1. /\ job' = [job EXCEPT ![t] = NoJob]
        /\ lease' = IF lease[job[t].identity] = job[t].id
                    THEN [lease EXCEPT ![job[t].identity] = NoId] ELSE lease
    BY <1>9 DEF Release, End
  <2> SUFFICES ASSUME NEW i \in Identity, lease'[i] # NoId
               PROVE  \E u \in Thread : /\ job'[u].stage \in Leased
                                       /\ job'[u].id = lease'[i] /\ job'[u].identity = i
    BY DEF LeaseIsHeld
  <2>2. /\ lease'[i] = lease[i]
        /\ i # job[t].identity \/ lease[i] # job[t].id
    BY <1>0, <2>1
  <2>3. PICK u \in Thread : job[u].stage \in Leased /\ job[u].id = lease[i] /\ job[u].identity = i
    BY <1>0, <2>2 DEF LeaseIsHeld
  <2>4. u # t
    BY <2>2, <2>3
  <2>5. job'[u] = job[u]
    BY <1>0, <2>1, <2>4
  <2> QED BY <2>2, <2>3, <2>5
<1>10. ASSUME NEW t \in Thread, RunStore(t) \/ StoreFails(t) PROVE LeaseIsHeld'
  <2>1. UNCHANGED lease
    BY <1>10 DEF RunStore, StoreFails
  <2>2. UNCHANGED job \/ \E n \in Job, ok \in BOOLEAN :
                             job' = [job EXCEPT ![t] = n] /\ Resumed(job[t], ok, n)
    BY <1>10, StoreEffect
  <2>3. ASSUME NEW n \in Job, NEW ok \in BOOLEAN, job' = [job EXCEPT ![t] = n], Resumed(job[t], ok, n)
        PROVE  LeaseIsHeld'
    <3>1. job[t].stage \in Leased =>
              n.stage \in Leased /\ n.id = job[t].id /\ n.identity = job[t].identity
      BY <2>3 DEF Resumed, Leased
    <3> QED BY <1>0, <2>1, <2>3, <3>1, LeaseLocal
  <2> QED BY <1>1, <2>1, <2>2, <2>3
<1>11. CASE CrashConsole
  BY <1>11 DEF CrashConsole, LeaseIsHeld
<1>12. CASE SetMode \/ World \/ Quiesce \/ UNCHANGED allVars
  BY <1>1, <1>12 DEF SetMode, World, Quiesce, allVars, semi
<1> QED
  BY <1>3, <1>4, <1>5, <1>6, <1>7, <1>8, <1>9, <1>10, <1>11, <1>12 DEF SemiNext, ThreadStep

-----------------------------------------------------------------------------
(* The outcome of a turn.                                                  *)

\* A writer that is cut off belongs to a request that is cut off.
LEMMA RecordedStep ==
    ASSUME SemiIInv, [SemiNext]_allVars
    PROVE  RecordedOK'
<1>0. /\ RecordedOK /\ cut \subseteq Handoff
      /\ \A t \in Thread : Paired(job[t], pc[t]) /\ t \in Actor
      /\ pc \in [Actor -> [op : Op, id : Id \cup {NoId}, step : Step]]
  BY DEF SemiIInv, PairedOK, SemiTypeOK, IInv, TypeOK, Actor
<1>1. CASE UNCHANGED <<files, ledger, cut, pc>>
  BY <1>0, <1>1, RecordedFrame
<1>2. ASSUME NEW t \in Thread, NEW op, NEW i, NEW step, Call(t, op, i, step), UNCHANGED cut
      PROVE  RecordedOK'
  <2>1. UNCHANGED <<files, ledger>>
    BY <1>2 DEF Call, disk
  <2>2. \A u \in Thread : pc[u].step \in {"written", "staged"} => pc'[u] = pc[u]
    BY <1>0, <1>2 DEF Call, Idle
  <2> QED BY <1>0, <1>2, <2>1, <2>2, RecordedFrame
<1>3. ASSUME NEW t \in Thread, RunStore(t) PROVE RecordedOK'
  BY <1>3, RecordedStore DEF RunStore
<1>4. ASSUME NEW t \in Thread, StoreFails(t) PROVE RecordedOK'
  <2>1. job[t].stage \in Calling /\ Paired(job[t], pc[t])
    BY <1>4, StoreEffect
  <2>2. /\ UNCHANGED <<files, ledger>> /\ cut \subseteq cut' /\ pc[t].id \in cut'
        /\ \A u \in Thread : u # t => pc'[u] = pc[u]
    BY <1>0, <1>4, <2>1 DEF StoreFails, WriteFails, Change, Leave, disk, Paired
  <2> QED BY <1>0, <2>2, RecordedFrame
<1>5. CASE CrashConsole
  <2>1. UNCHANGED <<files, ledger>> /\ cut \subseteq cut'
    BY <1>5, PairedCrash DEF CrashConsole, Crash, Change, disk
  <2>2. ASSUME NEW t \in Thread, pc[t].step \in {"written", "staged"} PROVE pc[t].id \in cut'
    <3>1. job[t].stage \in Calling /\ pc[t].id = job[t].id
      BY <1>0, <2>2 DEF Paired, Idle
    <3> QED BY <1>5, <3>1, PairedCrash DEF Calling
  <2> QED BY <1>0, <2>1, <2>2, RecordedFrame
<1>6. CASE World
  BY <1>1, <1>6 DEF World, semi, ChangeRoute, Rebind, EditTree, Change, disk, memory
<1>7. ASSUME NEW t \in Thread, NEW h \in Handoff, ServeStore(t, h) \/ ServeApproveAndSend(t, h)
      PROVE  RecordedOK'
  BY <1>1, <1>2, <1>7 DEF ServeStore, ServeApproveAndSend, Serve, CallPrepare, CallDecide, vars
<1>8. ASSUME NEW t \in Thread, ThreadStep(t), ~ RunStore(t) PROVE RecordedOK'
  <2>1. CASE GuardSet(t) \/ RunTransport(t) \/ RecordError(t)
    BY <1>2, <2>1 DEF GuardSet, RunTransport, RecordError
  <2>2. CASE RequireSemiAuto(t)
    BY <1>1, <1>2, <2>2 DEF RequireSemiAuto, vars
  <2>3. CASE ReadArtifact(t) \/ GuardGet(t) \/ RaiseAttention(t) \/ Release(t)
    BY <1>1, <2>3 DEF ReadArtifact, GuardGet, RaiseAttention, Release, vars
  <2> QED BY <1>8, <2>1, <2>2, <2>3 DEF ThreadStep
<1>9. CASE SetMode \/ Quiesce \/ UNCHANGED allVars
  BY <1>1, <1>9 DEF SetMode, Quiesce, allVars, vars
<1> QED BY <1>3, <1>4, <1>5, <1>6, <1>7, <1>8, <1>9 DEF SemiNext

\* A running turn goes on running, or its request is cut off.
LEMMA PendingFrame ==
    ASSUME SemiIInv, UNCHANGED <<ledger, started>>, cut \subseteq cut',
           \A t \in Thread : job[t].stage \in Running =>
               \/ job[t].id \in cut'
               \/ job'[t].stage \in Running /\ job'[t].id = job[t].id
               \/ ledger[job[t].id].state # "SENT"
    PROVE  PendingOK'
<1> SUFFICES ASSUME NEW h \in Handoff \ cut', started[h] > 0, ledger[h].state = "SENT"
             PROVE  \E t \in Thread : job'[t].stage \in Running /\ job'[t].id = h
  BY DEF PendingOK
<1>1. PICK t \in Thread : job[t].stage \in Running /\ job[t].id = h
  BY DEF SemiIInv, PendingOK
<1> QED BY <1>1

\* The same for one request that moves, between stages of a turn or outside.
LEMMA PendingMove ==
    ASSUME SemiIInv, UNCHANGED <<ledger, started, cut>>, NEW t \in Thread, NEW n,
           job' = [job EXCEPT ![t] = n],
           job[t].stage \in Running => n.stage \in Running /\ n.id = job[t].id
    PROVE  PendingOK'
<1>1. \A u \in Thread : job'[u] = IF u = t THEN n ELSE job[u]
  BY DEF SemiIInv, SemiTypeOK
<1> QED BY <1>1, PendingFrame

\* The ledger call of a turn: a refused failure finds its outcome recorded.
LEMMA PendingStore ==
    ASSUME SemiIInv, NEW t \in Thread, RunStore(t) \/ StoreFails(t)
    PROVE  PendingOK'
<1>0. /\ IInv /\ Alone /\ SyncOK /\ t \in Actor /\ job \in [Thread -> Job]
      /\ job[t].stage \in Calling /\ Paired(job[t], pc[t]) /\ RecordedOK /\ SentOK
  BY StoreEffect DEF SemiIInv, SemiTypeOK, Actor
<1>1. CASE UNCHANGED job /\ RunStore(t) /\ \E step \in Step \ {"idle"} : GoesOn(t, step)
  BY <1>1, PendingFrame DEF RunStore, GoesOn
<1>2. CASE StoreFails(t) /\ \E n \in Job : job' = [job EXCEPT ![t] = n]
  <2>1. /\ UNCHANGED <<ledger, started>> /\ cut \subseteq cut' /\ job[t].id \in cut'
        /\ \A u \in Thread : u # t => job'[u] = job[u]
    BY <1>0, <1>2 DEF StoreFails, WriteFails, Change, disk
  <2> QED BY <2>1, PendingFrame
<1>3. ASSUME Refused(t), RunStore(t), NEW n \in Job, job' = [job EXCEPT ![t] = n],
             Resumed(job[t], FALSE, n)
      PROVE  PendingOK'
  <2>1. UNCHANGED <<ledger, started, cut>> /\ \A u \in Thread : u # t => job'[u] = job[u]
    BY <1>0, <1>3 DEF Refused, RunStore
  <2>2. CASE job[t].stage = "complete"
    <3>1. n.stage = "error" /\ n.id = job[t].id
      BY <1>3, <2>2 DEF Resumed
    <3> QED BY <1>3, <2>1, <3>1, PendingMove DEF Running
  <2>3. CASE job[t].stage = "fail"
    <3>1. /\ pc[t].op = "fail" /\ pc[t].step = "ready" /\ pc[t].id = job[t].id
          /\ job[t].id \in Handoff /\ Free(t)
          /\ ledger[pc[t].id].state # "SENT" \/ "failure" \in files[pc[t].id]
      BY <1>0, <1>3, <2>3 DEF Refused, Paired, Calling
    <3>2. \A op : ~ Writing(job[t].id, op)
      <4> SUFFICES ASSUME NEW u \in Thread, pc[u].step \in {"written", "staged"} PROVE FALSE
        BY DEF Writing
      <4>1. lock[Proc(u)] = u /\ Proc(u) = Proc(t) /\ u # NoActor
        BY <1>0, ActorAssumption DEF IInv, LockOK, InSection, Proc, Actor
      <4> QED BY <3>1, <4>1 DEF Free
    <3>3. ledger[job[t].id].state = "SENT" => job[t].id \in cut
      BY <1>0, <3>1, <3>2 DEF RecordedOK
    <3> QED BY <2>1, <3>3, PendingFrame
  <2>4. CASE job[t].stage \notin {"complete", "fail"}
    <3>1. job[t].stage \notin Running
      BY <1>0, <2>4 DEF Calling, Running
    <3> QED BY <1>3, <2>1, <3>1, PendingMove
  <2> QED BY <2>2, <2>3, <2>4
<1>4. ASSUME InstallLedger(t), RunStore(t), NEW n \in Job, job' = [job EXCEPT ![t] = n],
             Resumed(job[t], TRUE, n)
      PROVE  PendingOK'
  <2>1. /\ pc[t].id \in Handoff /\ pc[t].op \in ThreadOp
        /\ ledger[pc[t].id].state \in From(pc[t].op)
        /\ \A h \in Handoff : h # pc[t].id =>
             ledger'[h] = ledger[h] /\ started'[h] = started[h]
        /\ pc[t].op # "start" => started'[pc[t].id] = started[pc[t].id]
        /\ pc[t].op = "complete" => ledger'[pc[t].id].state = "COMPLETED"
        /\ pc[t].op = "fail" => ledger'[pc[t].id].state = "FAILED"
    BY <1>0, <1>4, InstallEffect
  <2>2. pc[t].id = job[t].id /\ UNCHANGED cut
    BY <1>0, <1>4 DEF Paired, RunStore
  <2> SUFFICES ASSUME NEW h \in Handoff \ cut, started'[h] > 0, ledger'[h].state = "SENT"
               PROVE  \E u \in Thread : job'[u].stage \in Running /\ job'[u].id = h
    BY <2>2 DEF PendingOK
  <2>3. CASE h = job[t].id
    <3>1. pc[t].op \notin {"complete", "fail"}
      BY <2>1, <2>2, <2>3
    <3>2. pc[t].op \in {"prepare", "approve", "reject"} => ~ (started[h] > 0)
      BY <1>0, <2>1, <2>2, <2>3 DEF SentOK, From
    <3>3. pc[t].op = "start"
      BY <2>1, <2>2, <2>3, <3>1, <3>2 DEF ThreadOp
    <3>4. job[t].stage = "start"
      BY <1>0, <3>3 DEF Paired, Calling
    <3>5. n.stage = "turn" /\ n.id = h /\ job'[t] = n
      BY <1>0, <1>4, <2>3, <3>4 DEF Resumed
    <3> QED BY <3>5 DEF Running
  <2>4. CASE h # job[t].id
    <3>1. started[h] > 0 /\ ledger[h].state = "SENT"
      BY <2>1, <2>2, <2>4
    <3>2. PICK u \in Thread : job[u].stage \in Running /\ job[u].id = h
      BY <3>1 DEF SemiIInv, PendingOK
    <3>3. job'[u] = job[u]
      BY <1>0, <1>4, <2>4, <3>2
    <3> QED BY <3>2, <3>3
  <2> QED BY <2>3, <2>4
<1> QED BY <1>1, <1>2, <1>3, <1>4, StoreEffect

LEMMA PendingStep ==
    ASSUME SemiIInv, [SemiNext]_allVars
    PROVE  PendingOK'
<1>0. /\ job \in [Thread -> Job] /\ \A t \in Thread : Paired(job[t], pc[t])
  BY DEF SemiIInv, PairedOK, SemiTypeOK
<1>1. CASE UNCHANGED <<ledger, started, cut, job>>
  BY <1>0, <1>1, PendingFrame
<1>2. ASSUME NEW t \in Thread, NEW n, job' = [job EXCEPT ![t] = n],
             UNCHANGED <<ledger, started, cut>>, job[t].stage \notin Running
      PROVE  PendingOK'
  BY <1>2, PendingMove
<1>3. ASSUME NEW t \in Thread, NEW s \in Stage, Move(t, s), UNCHANGED <<ledger, started, cut>>,
             job[t].stage \in Running => s \in Running
      PROVE  PendingOK'
  BY <1>0, <1>3, MoveJob, PendingMove
<1>4. ASSUME NEW t \in Thread, NEW op, NEW i, NEW step, Call(t, op, i, step)
      PROVE  UNCHANGED <<ledger, started>>
  BY <1>4 DEF Call, disk, history
<1>5. ASSUME NEW t \in Thread, NEW h \in Handoff, ServeStore(t, h) \/ ServeApproveAndSend(t, h)
      PROVE  PendingOK'
  <2>1. /\ \E n : job' = [job EXCEPT ![t] = n]
        /\ UNCHANGED cut /\ job[t].stage \notin Running
    BY <1>5 DEF ServeStore, ServeApproveAndSend, Serve, In, Running
  <2>2. UNCHANGED <<ledger, started>>
    BY <1>4, <1>5 DEF ServeStore, ServeApproveAndSend, CallPrepare, CallDecide, vars
  <2> QED BY <1>2, <2>1, <2>2
<1>6. ASSUME NEW t \in Thread, RequireSemiAuto(t) \/ GuardGet(t) PROVE PendingOK'
  <2>1. UNCHANGED <<ledger, started, cut>> /\ job[t].stage \notin Running
    BY <1>4, <1>6 DEF RequireSemiAuto, GuardGet, In, Running, vars
  <2>2. End(t) \/ \E s \in Stage : Move(t, s)
    BY <1>6 DEF RequireSemiAuto, GuardGet, Stage
  <2> QED BY <1>2, <1>3, <2>1, <2>2 DEF End
<1>7. ASSUME NEW t \in Thread, ReadArtifact(t) PROVE PendingOK'
  <2>1. UNCHANGED <<ledger, started, cut>> /\ job[t].stage \notin Running
    BY <1>7 DEF ReadArtifact, In, Running, vars
  <2>2. \E n : job' = [job EXCEPT ![t] = n]
    <3> PICK i : i = HeadOf[envelope[job[t].id].seal]
      OBVIOUS
    <3> PICK n : n = [job[t] EXCEPT !.stage = "get", !.identity = i]
      OBVIOUS
    <3>1. job' = [job EXCEPT ![t] = n]
      BY <1>0, <1>7 DEF ReadArtifact
    <3> QED BY <3>1
  <2> QED BY <1>2, <2>1, <2>2
<1>8. ASSUME NEW t \in Thread, GuardSet(t) \/ RecordError(t) PROVE PendingOK'
  <2>1. UNCHANGED <<ledger, started, cut>>
    BY <1>4, <1>8 DEF GuardSet, RecordError
  <2> QED BY <1>3, <1>8, <2>1 DEF GuardSet, RecordError, In, Stage, Running
<1>9. ASSUME NEW t \in Thread, RaiseAttention(t) \/ Release(t) PROVE PendingOK'
  <2>1. UNCHANGED <<ledger, started, cut>> /\ job[t].stage \notin Running
    BY <1>9 DEF RaiseAttention, Release, In, Running, vars
  <2>2. End(t) \/ \E s \in Stage : Move(t, s)
    BY <1>9 DEF RaiseAttention, Release, Stage
  <2> QED BY <1>2, <1>3, <2>1, <2>2 DEF End
<1>10. ASSUME NEW t \in Thread, RunTransport(t) PROVE PendingOK'
  <2>1. UNCHANGED <<ledger, started, cut>>
    BY <1>4, <1>10 DEF RunTransport
  <2>2. CASE Move(t, "complete")
    BY <1>3, <2>1, <2>2 DEF Stage, Running
  <2>3. ASSUME NEW asks \in BOOLEAN, job' = [job EXCEPT ![t].stage = "fail", ![t].asks = asks]
        PROVE  PendingOK'
    <3> PICK n : n = [job[t] EXCEPT !.stage = "fail", !.asks = asks]
      OBVIOUS
    <3>1. n.stage = "fail" /\ n.id = job[t].id
      BY <1>0 DEF Job
    <3>2. job' = [job EXCEPT ![t] = n]
      BY <1>0, <2>3
    <3> QED BY <2>1, <3>1, <3>2, PendingMove DEF Running
  <2> QED BY <1>10, <2>2, <2>3 DEF RunTransport
<1>11. CASE CrashConsole
  <2>1. UNCHANGED <<ledger, started>>
    BY <1>11 DEF CrashConsole, Crash, Change, disk
  <2> QED BY <1>11, <2>1, PairedCrash, PendingFrame DEF Running
<1>12. CASE SetMode \/ World \/ Quiesce \/ UNCHANGED allVars
  BY <1>1, <1>12 DEF SetMode, World, Quiesce, allVars, semi, vars, ChangeRoute, Rebind,
                     EditTree, Change, disk
<1> QED
  BY <1>5, <1>6, <1>7, <1>8, <1>9, <1>10, <1>11, <1>12, PendingStore DEF SemiNext, ThreadStep

-----------------------------------------------------------------------------
(* The theorems.                                                           *)

\* The initial states satisfy the invariant.
LEMMA SemiInitInv == SemiInit => SemiIInv
<1> SUFFICES ASSUME SemiInit PROVE SemiIInv
  OBVIOUS
<1>1. Init /\ IInv
  BY InitIInv DEF SemiInit
<1>2. Alone /\ SyncOK
  BY <1>1 DEF Init, Alone, SyncOK, Synced, Idle, InSection, Actor
<1>3. SealOK
  BY <1>1 DEF Init, SealOK, Idle, Id, Actor
<1>4. SemiTypeOK
  BY <1>1, RequestAssumption DEF SemiInit, SemiTypeOK, IInv, NoJob, Job, Stage
<1>5. PairedOK
  BY <1>1 DEF Init, SemiInit, PairedOK, Paired, NoJob, Calling, Placed, Leased, Running, Actor
<1>6. LeaseIsHeld
  BY DEF SemiInit, LeaseIsHeld
<1>7. RecordedOK /\ SentOK /\ PendingOK
  BY <1>1 DEF Init, RecordedOK, SentOK, PendingOK, Id
<1> QED BY <1>1, <1>2, <1>3, <1>4, <1>5, <1>6, <1>7 DEF SemiIInv

\* Every step, stuttering included, keeps the invariant.
LEMMA SemiNextInv == SemiIInv /\ [SemiNext]_allVars => SemiIInv'
<1> SUFFICES ASSUME SemiIInv, [SemiNext]_allVars PROVE SemiIInv'
  OBVIOUS
<1>1. [Next]_vars
  BY SemiStep
<1>2. IInv' /\ SyncOK' /\ SealOK'
  BY <1>1, NextIInv, NextSync, NextSeal DEF SemiIInv
<1>3. PairedOK' /\ job' \in [Thread -> Job]
  BY PairedStep
<1>4. SemiTypeOK'
  BY <1>2, <1>3, SemiTypeStep DEF IInv
<1> QED
  BY <1>2, <1>3, <1>4, SemiAlone, LeaseStep, RecordedStep, SentStep, PendingStep DEF SemiIInv

\* Requests, ledger calls, leases and outcomes agree in every reachable state.
THEOREM SemiInductive == SemiSafety => []SemiIInv
BY SemiInitInv, SemiNextInv, PTL DEF SemiSafety

\* The dispatcher is a client of the ledger: each of its behaviours is one of
\* DispatchLedger, so every theorem about the ledger holds of it too.
THEOREM SemiImplementsLedger == SemiSafety => Spec
<1>1. SemiInit => Init
  BY DEF SemiInit
<1>2. SemiIInv /\ [SemiNext]_allVars => [Next]_vars
  BY SemiStep
<1> QED BY <1>1, <1>2, SemiInductive, PTL DEF SemiSafety, Spec

\* In particular a handoff is started at most once, after its facts were
\* verified, and its record files go through the exactly-once protocol.
THEOREM SemiExactlyOnce == SemiSafety => [](AtMostOneStart /\ StartIsFresh) /\ ExactlyOnce
BY SemiImplementsLedger, AtMostOnce, FreshStart, Refinement, PTL

\* No lease outlives its request, whichever way the request ends: by its
\* outcome, by a refusal, by a failed write or by the death of the console.
THEOREM LeasesAreHeld == SemiSafety => []LeaseIsHeld
<1>1. SemiIInv => LeaseIsHeld
  BY DEF SemiIInv
<1> QED BY <1>1, SemiInductive, PTL

\* A turn has one outcome unless a write of it was cut off.
THEOREM OneOutcomeOnly == SemiSafety => []OneOutcome
<1>1. SemiIInv => OneOutcome
  <2> SUFFICES ASSUME SemiIInv, NEW h \in Handoff \ cut, {"result", "failure"} \subseteq files[h]
               PROVE  FALSE
    BY DEF OneOutcome
  <2>1. /\ ledger[h].state = "COMPLETED" \/ Writing(h, "complete")
        /\ ledger[h].state = "FAILED" \/ Writing(h, "fail")
    BY DEF SemiIInv, RecordedOK
  <2>2. ASSUME NEW t \in Thread, pc[t].id = h, pc[t].op \in {"complete", "fail"},
               pc[t].step \in {"written", "staged"}
        PROVE  ledger[h].state \notin {"COMPLETED", "FAILED"}
    BY <2>2 DEF SemiIInv, SyncOK, Synced, From, InSection
  <2>3. PICK t \in Thread, u \in Thread :
            /\ pc[t].op = "complete" /\ pc[t].step \in {"written", "staged"}
            /\ pc[u].op = "fail" /\ pc[u].step \in {"written", "staged"}
    BY <2>1, <2>2 DEF Writing
  <2>4. t = u
    BY <2>3, SoleWriter DEF SemiIInv, InSection, Actor
  <2> QED BY <2>3, <2>4
<1> QED BY <1>1, SemiInductive, PTL

\* A dispatch that started has its outcome in the ledger once its request is
\* over, unless a crash or a failed write cut the request off.
THEOREM OutcomesAreRecorded == SemiSafety => []OutcomeRecorded
<1>1. SemiIInv => OutcomeRecorded
  <2> SUFFICES ASSUME SemiIInv, NEW h \in Handoff \ cut, started[h] > 0,
                      ledger[h].state \notin {"COMPLETED", "FAILED"}
               PROVE  \E t \in Thread : job[t].stage \in Leased /\ job[t].id = h
    BY DEF OutcomeRecorded
  <2>1. ledger[h].state = "SENT"
    BY DEF SemiIInv, SentOK
  <2> QED BY <2>1 DEF SemiIInv, PendingOK, Running, Leased
<1> QED BY <1>1, SemiInductive, PTL
==============================================================================
