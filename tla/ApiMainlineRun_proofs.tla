------------------------ MODULE ApiMainlineRun_proofs ------------------------
(* Proofs about ApiMainlineRun, for any threads, candidates and bounds.    *)
EXTENDS ApiMainlineRun, TLAPS

-----------------------------------------------------------------------------
(* The inductive invariant: what the ledgers say of one candidate, and how *)
(* far the one thread that claimed a candidate has brought it.             *)

CandOK(c) ==
    /\ calls[c] <= 1
    /\ calls[c] = 1 => {"approval", "attempt"} \subseteq files[c]
                      /\ run[c] \in {"SENDING", "COMPLETED", "FAILED"}
    /\ "cancellation" \in files[c] => calls[c] = 0 /\ "approval" \notin files[c]
    /\ record[c].status \in {"NONE", "READY", "STALE"} =>
          run[c] = "NONE" /\ files[c] = {}
    /\ record[c].status \in Ended \ {"STALE"} => run[c] = record[c].status
    /\ record[c].status = "SENDING" => run[c] \notin {"NONE", "CANCELLED"}
    /\ run[c] = "COMPLETED" =>
          c \in applied /\ calls[c] = 1 /\ {"approval", "result"} \subseteq files[c]

Evidence(t) ==
    IF pc[t].op = "approve" THEN {"approval", "attempt"} ELSE {"cancellation"}

\* Before the transport is called.
DecidingOK(t, c) ==
    /\ pc[t].op \in {"approve", "cancel"}
    /\ record[c].status = "DECIDING" /\ calls[c] = 0
    /\ run[c] = IF At(t, "recorded") THEN Decision(t) ELSE "NONE"
    /\ pc[t].step \in {"decided", "opened"} => files[c] = {}
    /\ At(t, "approved") => pc[t].op = "approve" /\ files[c] = {"approval"}
    /\ pc[t].step \in {"evident", "recorded"} => files[c] = Evidence(t)

\* From the call on.
RunningOK(t, c) ==
    /\ pc[t].op = "approve"
    /\ record[c].status = "SENDING"
    /\ calls[c] = IF At(t, "sending") THEN 0 ELSE 1
    /\ {"approval", "attempt"} \subseteq files[c] /\ "cancellation" \notin files[c]
    /\ run[c] = "SENDING" \/ pc[t].step \in {"finished"} \cup Handling
    /\ pc[t].step \in {"sending", "waiting", "valid", "applied"} =>
          files[c] = {"approval", "attempt"}
    /\ pc[t].step \in {"applied", "answered", "finished"} => c \in applied
    /\ pc[t].step \in {"answered", "finished"} => "result" \in files[c]
    /\ At(t, "finished") => run[c] = "COMPLETED"
    /\ pc[t].step \in {"failed", "closed"} => "failure" \in files[c]
    /\ At(t, "closed") => run[c] = "FAILED"

OwnerOK(t) ==
    pc[t].step \in Owning =>
        /\ Mine(t) \in Candidate
        /\ pc[t].step \in Deciding => DecidingOK(t, Mine(t))
        /\ pc[t].step \notin Deciding => RunningOK(t, Mine(t))

\* A thread on its way to a claim.
AskerOK(t) ==
    pc[t].step \in {"asked", "vetted", "claiming"} =>
        Mine(t) \in Candidate /\ pc[t].op \in {"approve", "cancel"}

OneOwner ==
    \A t, u \in Thread : pc[t].step \in Owning /\ pc[u].step \in Owning => t = u

IInv ==
    /\ TypeOK
    /\ OneLive
    /\ OneOwner
    /\ \A c \in Candidate : CandOK(c)
    /\ \A t \in Thread : AskerOK(t) /\ OwnerOK(t)

-----------------------------------------------------------------------------
(* Types.                                                                  *)

LEMMA StepTypes ==
    /\ Deciding \subseteq Step /\ Trying \subseteq Step /\ Handling \subseteq Step
    /\ Owning \subseteq Step /\ Locked \subseteq Step
    /\ "idle" \notin Owning /\ "vetted" \notin Owning
    /\ Locked \cap Owning = {}
    /\ Idle \in State
BY DEF Step, Locked, Deciding, Trying, Handling, Owning, State, Idle, Op

\* Moving a thread to another step.
LEMMA GotoFacts ==
    ASSUME TypeOK, NEW t \in Thread, NEW step \in Step, Goto(t, step)
    PROVE  /\ pc' \in [Thread -> State]
           /\ pc'[t].step = step /\ pc'[t].op = pc[t].op /\ pc'[t].cand = pc[t].cand
           /\ \A u \in Thread : u # t => pc'[u] = pc[u]
BY DEF TypeOK, Goto, State

\* Moving a thread altogether.
LEMMA MoveFacts ==
    ASSUME TypeOK, NEW t \in Thread, NEW s \in State, pc' = [pc EXCEPT ![t] = s]
    PROVE  /\ pc' \in [Thread -> State]
           /\ pc'[t] = s
           /\ \A u \in Thread : u # t => pc'[u] = pc[u]
BY DEF TypeOK

\* Ending a request.
LEMMA LeaveFacts ==
    ASSUME TypeOK, NEW t \in Thread, Leave(t)
    PROVE  /\ pc' \in [Thread -> State]
           /\ pc'[t] = Idle /\ pc'[t].step = "idle"
           /\ \A u \in Thread : u # t => pc'[u] = pc[u]
BY StepTypes DEF TypeOK, Leave, Idle

LEMMA StatusFacts ==
    ASSUME TypeOK, NEW c \in Candidate, NEW status \in StartStatus, SetStatus(c, status)
    PROVE  /\ record' \in [Candidate -> Record]
           /\ record'[c].status = status
           /\ \A d \in Candidate : d # c => record'[d] = record[d]
BY DEF TypeOK, SetStatus, Record

LEMMA FileFacts ==
    ASSUME TypeOK, NEW c \in Candidate, NEW kind \in File, WriteFile(c, kind)
    PROVE  /\ files' \in [Candidate -> SUBSET File]
           /\ files'[c] = files[c] \cup {kind}
           /\ \A d \in Candidate : d # c => files'[d] = files[d]
BY DEF TypeOK, WriteFile

-----------------------------------------------------------------------------
(* Two kinds of step.                                                      *)

\* A step that writes nothing, of threads that own nothing after it.
LEMMA QuietStep ==
    ASSUME IInv, TypeOK',
           UNCHANGED <<record, run, files, calls, applied>>,
           \A u \in Thread :
               pc'[u] = pc[u] \/ (pc'[u].step \notin Owning /\ AskerOK(u)')
    PROVE  IInv'
<1>1. OneLive'
  BY DEF IInv, OneLive, Live
<1>2. OneOwner'
  BY DEF IInv, OneOwner
<1>3. ASSUME NEW c \in Candidate PROVE CandOK(c)'
  BY DEF IInv, CandOK
<1>4. ASSUME NEW u \in Thread PROVE AskerOK(u)' /\ OwnerOK(u)'
  <2>1. CASE pc'[u] = pc[u]
    BY <2>1 DEF IInv, AskerOK, OwnerOK, DecidingOK, RunningOK, Mine, At, Decision, Evidence
  <2>2. CASE pc'[u].step \notin Owning /\ AskerOK(u)'
    BY <2>2 DEF OwnerOK
  <2>. QED BY <2>1, <2>2
<1>. QED BY <1>1, <1>2, <1>3, <1>4 DEF IInv

\* A step of the owner of c writes about c only.
Frame(t, c) ==
    /\ \A u \in Thread : u # t => pc'[u] = pc[u]
    /\ \A d \in Candidate : d # c =>
         /\ record'[d] = record[d] /\ run'[d] = run[d]
         /\ files'[d] = files[d] /\ calls'[d] = calls[d]
    /\ applied \subseteq applied'

LEMMA OwnerStep ==
    ASSUME IInv, TypeOK', NEW t \in Thread, NEW c \in Candidate,
           pc[t].step \in Owning, Mine(t) = c, Frame(t, c),
           CandOK(c)', OwnerOK(t)', AskerOK(t)'
    PROVE  IInv'
<1>1. Live(c)
  BY DEF IInv, OwnerOK, DecidingOK, RunningOK, Live, InFlight
<1>2. OneLive'
  BY <1>1 DEF IInv, OneLive, Live, Frame
<1>3. \A u \in Thread : u # t => pc'[u].step \notin Owning
  BY DEF IInv, OneOwner, Frame
<1>4. ASSUME NEW d \in Candidate PROVE CandOK(d)'
  BY DEF IInv, CandOK, Frame
<1>5. ASSUME NEW u \in Thread PROVE AskerOK(u)' /\ OwnerOK(u)'
  BY <1>3 DEF IInv, OwnerOK, AskerOK, Frame, Mine
<1>. QED BY <1>2, <1>3, <1>4, <1>5 DEF IInv, OneOwner

\* What holds of an owner before its step.
LEMMA OwnerFacts ==
    ASSUME IInv, NEW t \in Thread, pc[t].step \in Owning
    PROVE  /\ Mine(t) \in Candidate
           /\ CandOK(Mine(t))
           /\ pc[t].step \in Deciding => DecidingOK(t, Mine(t))
           /\ pc[t].step \notin Deciding => RunningOK(t, Mine(t))
BY DEF IInv, OwnerOK

-----------------------------------------------------------------------------
(* Steps of no owner.                                                      *)

\* Requests, checks and refusals write nothing.
LEMMA CallStep ==
    ASSUME IInv, NEW t \in Thread, Call(t) \/ PrepareReturn(t) \/ Vet(t) \/ ClaimRead(t)
    PROVE  IInv'
<1>. USE StepTypes DEF ledgers, locks, control
<1>1. TypeOK
  BY DEF IInv
<1>2. /\ UNCHANGED <<record, run, files, calls, applied, enabled, canonical, changes, faults>>
      /\ runLock' = runLock
      /\ startLock' \in Thread \cup {NoThread}
  BY <1>1 DEF Call, PrepareRead, Ask, PrepareReturn, Vet, ClaimRead, Take, Release, TypeOK
<1>3. /\ pc' \in [Thread -> State]
      /\ \A u \in Thread : pc'[u] = pc[u] \/ (pc'[u].step \notin Owning /\ AskerOK(u)')
  <2>1. CASE \E r \in Request : PrepareRead(t, r)
    <3>1. PICK r \in Request : PrepareRead(t, r)
      BY <2>1
    <3>. DEFINE s == [Idle EXCEPT !.op = "prepare", !.step = "sealing",
                                  !.request = r, !.seen = canonical]
    <3>2. s \in State
      BY <1>1 DEF State, TypeOK, Step, Locked, Op
    <3>3. pc' = [pc EXCEPT ![t] = s]
      BY <3>1 DEF PrepareRead
    <3>4. s.step = "sealing" /\ "sealing" \in Locked
      BY DEF Locked, Idle
    <3>. HIDE DEF s
    <3>. QED BY <1>1, <3>2, <3>3, <3>4, MoveFacts DEF AskerOK
  <2>2. CASE \E c \in Candidate, op \in {"approve", "cancel"} : Ask(t, c, op)
    <3>1. PICK c \in Candidate, op \in {"approve", "cancel"} : Ask(t, c, op)
      BY <2>2
    <3>. DEFINE s == [Idle EXCEPT !.op = op, !.step = "asked", !.cand = c]
    <3>2. s \in State
      BY DEF State, Step, Locked, Op
    <3>3. pc' = [pc EXCEPT ![t] = s]
      BY <3>1 DEF Ask
    <3>4. s.step = "asked" /\ "asked" \in Locked /\ s.cand = c /\ s.op = op
      BY DEF Locked, Idle
    <3>. HIDE DEF s
    <3>. QED BY <1>1, <3>2, <3>3, <3>4, MoveFacts DEF AskerOK, Mine
  <2>3. CASE Leave(t)
    BY <1>1, <2>3, LeaveFacts DEF AskerOK
  <2>4. CASE Vet(t) /\ Goto(t, "vetted")
    <3>1. "vetted" \in Step /\ pc[t].step = "asked"
      BY <2>4 DEF Step, Vet, At
    <3>2. Mine(t) \in Candidate /\ pc[t].op \in {"approve", "cancel"}
      BY <3>1 DEF IInv, AskerOK
    <3>. QED BY <1>1, <2>4, <3>1, <3>2, GotoFacts DEF AskerOK, Mine
  <2>5. CASE ClaimRead(t) /\ pc' = [pc EXCEPT ![t].step = "claiming", ![t].seen = canonical]
    <3>1. pc[t].step = "vetted"
      BY <2>5 DEF ClaimRead, At
    <3>2. Mine(t) \in Candidate /\ pc[t].op \in {"approve", "cancel"}
      BY <3>1 DEF IInv, AskerOK
    <3>. DEFINE s == [pc[t] EXCEPT !.step = "claiming", !.seen = canonical]
    <3>3. s \in State /\ s.step = "claiming" /\ s.cand = Mine(t) /\ s.op = pc[t].op
      BY <1>1 DEF TypeOK, State, Step, Locked, Mine
    <3>4. pc' = [pc EXCEPT ![t] = s]
      BY <1>1, <2>5 DEF TypeOK, State
    <3>5. "claiming" \in Locked
      BY DEF Locked
    <3>. HIDE DEF s
    <3>. QED BY <1>1, <3>2, <3>3, <3>4, <3>5, MoveFacts DEF AskerOK, Mine
  <2>. QED BY <2>1, <2>2, <2>3, <2>4, <2>5 DEF Call, PrepareReturn, Vet, ClaimRead
<1>4. TypeOK'
  BY <1>1, <1>2, <1>3 DEF TypeOK
<1>. QED BY <1>2, <1>3, <1>4, QuietStep

\* The world moves without the stores.
LEMMA WorldStep ==
    ASSUME IInv, Crash \/ Switch \/ Drift
    PROVE  IInv'
<1>. USE StepTypes DEF ledgers, locks, control
<1>1. TypeOK
  BY DEF IInv
<1>2. UNCHANGED <<record, run, files, calls, applied>>
  BY DEF Crash, Switch, Drift
<1>3. /\ pc' \in [Thread -> State]
      /\ \A u \in Thread : pc'[u] = pc[u] \/ (pc'[u].step \notin Owning /\ AskerOK(u)')
  <2>1. CASE Crash
    <3>1. \A u \in Thread : pc'[u] = Idle /\ pc'[u].step = "idle"
      BY <2>1 DEF Crash, Idle
    <3>2. pc' \in [Thread -> State]
      BY <2>1 DEF Crash
    <3>. QED BY <3>1, <3>2 DEF AskerOK
  <2>2. CASE pc' = pc
    BY <1>1, <2>2 DEF TypeOK
  <2>. QED BY <2>1, <2>2 DEF Switch, Drift
<1>4. /\ enabled' \in BOOLEAN /\ canonical' \in Canon
      /\ startLock' \in Thread \cup {NoThread} /\ runLock' \in Thread \cup {NoThread}
  BY <1>1 DEF Crash, Switch, Drift, TypeOK, Release
<1>5. changes' \in 0..MaxChange /\ faults' \in 0..MaxFault
  BY <1>1, BoundAssumption DEF Crash, Switch, Drift, TypeOK
<1>6. TypeOK'
  BY <1>1, <1>2, <1>3, <1>4, <1>5 DEF TypeOK
<1>. QED BY <1>2, <1>3, <1>6, QuietStep

\* A new candidate is the only live one, and nobody owns any.
LEMMA PrepareStep ==
    ASSUME IInv, NEW t \in Thread, PrepareWrite(t)
    PROVE  IInv'
<1>. USE StepTypes
<1>1. TypeOK /\ Leave(t)
  BY DEF IInv, PrepareWrite
<1>2. UNCHANGED <<run, files, calls, applied, runLock, enabled, canonical, changes, faults>>
      /\ startLock' = NoThread
  BY DEF PrepareWrite, Release, control
<1>3. PICK c \in Candidate :
        record[c].status = "NONE" /\ record' = Sealed(c, pc[t].request, pc[t].seen)
  BY DEF PrepareWrite
<1>4. \A d \in Candidate : record[d].status \notin InFlight
  BY DEF PrepareWrite, SomeInFlight
<1>5. \A u \in Thread : pc[u].step \notin Owning
  BY <1>4 DEF IInv, OwnerOK, DecidingOK, RunningOK, InFlight
<1>6. /\ record' \in [Candidate -> Record]
      /\ record'[c].status = "READY"
      /\ \A d \in Candidate : d # c =>
            record'[d].status = IF record[d].status = "READY" THEN "STALE"
                                ELSE record[d].status
  <2>1. pc[t].request \in Request \cup {NoRequest} /\ pc[t].seen \in Canon \cup {NoCanon}
    BY <1>1 DEF TypeOK, State
  <2>. QED BY <1>1, <1>3, <2>1 DEF Sealed, TypeOK, Record, StartStatus
<1>7. TypeOK'
  BY <1>1, <1>2, <1>6, LeaveFacts DEF TypeOK
<1>8. OneLive'
  BY <1>4, <1>6 DEF OneLive, Live, InFlight
<1>9. \A u \in Thread : pc'[u].step \notin Owning
  BY <1>1, <1>5, LeaveFacts
<1>10. ASSUME NEW d \in Candidate PROVE CandOK(d)'
  <2>1. CandOK(d)
    BY DEF IInv
  <2>2. CASE d = c
    BY <1>2, <1>3, <1>6, <2>1, <2>2 DEF CandOK, Ended
  <2>3. CASE d # c
    BY <1>2, <1>6, <2>1, <2>3 DEF CandOK, Ended
  <2>. QED BY <2>2, <2>3
<1>11. ASSUME NEW u \in Thread PROVE AskerOK(u)'
  BY <1>1, LeaveFacts DEF IInv, AskerOK, Mine
<1>. QED BY <1>7, <1>8, <1>9, <1>10, <1>11 DEF IInv, OneOwner, OwnerOK

\* A claim makes its thread the one owner of the one live candidate.
LEMMA ClaimStep ==
    ASSUME IInv, NEW t \in Thread, ClaimWrite(t)
    PROVE  IInv'
<1>. DEFINE c == Mine(t)
<1>. USE StepTypes
<1>1. TypeOK /\ c \in Candidate /\ pc[t].op \in {"approve", "cancel"}
  BY DEF IInv, AskerOK, ClaimWrite, At
<1>2. UNCHANGED <<run, files, calls, applied, runLock, enabled, canonical, changes, faults>>
      /\ startLock' = NoThread
  BY DEF ClaimWrite, Release, control
<1>3. CASE ~ Claimable(t)
  <2>1. record' = record /\ Leave(t)
    BY <1>3 DEF ClaimWrite
  <2>2. TypeOK'
    BY <1>1, <1>2, <2>1, LeaveFacts DEF TypeOK
  <2>. QED BY <1>1, <1>2, <2>1, <2>2, LeaveFacts, QuietStep DEF AskerOK
<1>4. CASE Claimable(t)
  <2>1. SetStatus(c, "DECIDING") /\ Goto(t, "decided") /\ record[c].status = "READY"
        /\ pc[t].step = "claiming"
    BY <1>4 DEF ClaimWrite, Claimable, Mine, At
  <2>2. "DECIDING" \in StartStatus /\ "decided" \in Step /\ "decided" \in Deciding
        /\ "decided" \in Owning
    BY DEF StartStatus, Step, Deciding, Owning
  <2>3. TypeOK'
    BY <1>1, <1>2, <2>1, <2>2, StatusFacts, GotoFacts DEF TypeOK
  <2>4. \A d \in Candidate : d # c => record'[d] = record[d] /\ ~ Live(d)
    BY <1>1, <2>1, <2>2, StatusFacts DEF IInv, OneLive, Live
  <2>5. OneLive'
    BY <2>4 DEF OneLive, Live
  <2>6. \A u \in Thread : pc[u].step \notin Owning
    BY <1>1, <2>1, <2>4 DEF IInv, OwnerOK, DecidingOK, RunningOK, Live, InFlight
  <2>7. \A u \in Thread : u # t => pc'[u].step \notin Owning
    BY <1>1, <2>1, <2>2, <2>6, GotoFacts
  <2>8. CandOK(c)
    BY <1>1 DEF IInv
  <2>9. record'[c].status = "DECIDING"
    BY <1>1, <2>1, <2>2, StatusFacts
  <2>10. ASSUME NEW d \in Candidate PROVE CandOK(d)'
    <3>1. CASE d = c
      BY <1>2, <2>1, <2>8, <2>9, <3>1 DEF CandOK, Ended
    <3>2. CASE d # c
      BY <1>2, <2>4, <3>2 DEF IInv, CandOK
    <3>. QED BY <3>1, <3>2
  <2>11. pc'[t].step = "decided" /\ Mine(t)' = c /\ pc'[t].op = pc[t].op
    BY <1>1, <2>1, <2>2, GotoFacts DEF Mine
  <2>12. OwnerOK(t)'
    <3>1. calls[c] = 0 /\ run[c] = "NONE" /\ files[c] = {}
      BY <1>1, <2>1, <2>8 DEF CandOK, TypeOK
    <3>. QED BY <1>1, <1>2, <2>2, <2>9, <2>11, <3>1 DEF OwnerOK, DecidingOK, At, Decision
  <2>13. ASSUME NEW u \in Thread PROVE AskerOK(u)' /\ OwnerOK(u)'
    BY <1>1, <2>1, <2>2, <2>7, <2>11, <2>12, GotoFacts DEF IInv, AskerOK, OwnerOK, Mine
  <2>. QED BY <2>3, <2>5, <2>7, <2>10, <2>13 DEF IInv, OneOwner
<1>. QED BY <1>3, <1>4

-----------------------------------------------------------------------------
(* Steps of the owner of a candidate c.                                    *)

\* The owner moves on to another step of its decision or its execution.
LEMMA OwnerMoves ==
    ASSUME IInv, TypeOK', NEW t \in Thread, NEW c \in Candidate,
           pc[t].step \in Owning, Mine(t) = c,
           NEW step \in Owning, Goto(t, step),
           \A d \in Candidate : d # c =>
             /\ record'[d] = record[d] /\ run'[d] = run[d]
             /\ files'[d] = files[d] /\ calls'[d] = calls[d],
           applied \subseteq applied',
           CandOK(c)',
           step \in Deciding => DecidingOK(t, c)',
           step \notin Deciding => RunningOK(t, c)'
    PROVE  IInv'
<1>1. TypeOK /\ step \in Step
  BY StepTypes DEF IInv
<1>2. /\ pc'[t].step = step /\ pc'[t].cand = c
      /\ \A u \in Thread : u # t => pc'[u] = pc[u]
  BY <1>1, GotoFacts DEF Mine
<1>3. OwnerOK(t)'
  BY <1>2 DEF OwnerOK, Mine
<1>4. AskerOK(t)'
  BY <1>2 DEF AskerOK, Owning, Deciding, Trying, Handling
<1>. QED BY <1>2, <1>3, <1>4, OwnerStep DEF Frame

\* The owner ends its request.
LEMMA OwnerLeaves ==
    ASSUME IInv, TypeOK', NEW t \in Thread, NEW c \in Candidate,
           pc[t].step \in Owning, Mine(t) = c, Leave(t),
           \A d \in Candidate : d # c =>
             /\ record'[d] = record[d] /\ run'[d] = run[d]
             /\ files'[d] = files[d] /\ calls'[d] = calls[d],
           applied \subseteq applied',
           CandOK(c)'
    PROVE  IInv'
<1>1. /\ pc'[t].step = "idle"
      /\ \A u \in Thread : u # t => pc'[u] = pc[u]
  BY LeaveFacts DEF IInv
<1>2. OwnerOK(t)' /\ AskerOK(t)'
  BY <1>1, StepTypes DEF OwnerOK, AskerOK
<1>. QED BY <1>1, <1>2, OwnerStep DEF Frame

\* A record file: what it takes, and what it says of the candidate.
LEMMA WritesStep ==
    ASSUME IInv, NEW t \in Thread, NEW c \in Candidate, Mine(t) = c,
           NEW from \in Owning, NEW to \in Owning, NEW kind \in File,
           Writes(t, from, kind, to),
           files'[c] = files[c] \cup {kind} =>
             CandOK(c)' /\ (IF to \in Deciding THEN DecidingOK(t, c)' ELSE RunningOK(t, c)')
    PROVE  IInv'
<1>1. TypeOK /\ to \in Step
  BY StepTypes DEF IInv
<1>2. /\ pc[t].step = from /\ Goto(t, to) /\ WriteFile(c, kind)
      /\ UNCHANGED <<record, run, startLock, runLock, enabled, canonical, changes,
                     calls, applied, faults>>
  BY DEF Writes, At, locks, control
<1>3. TypeOK'
  BY <1>1, <1>2, GotoFacts, FileFacts DEF TypeOK
<1>4. \A d \in Candidate : d # c => files'[d] = files[d]
  BY <1>1, <1>2, FileFacts
<1>5. files'[c] = files[c] \cup {kind}
  BY <1>1, <1>2, FileFacts
<1>. QED BY <1>2, <1>3, <1>4, <1>5, OwnerMoves

\* The evidence of the decision.
LEMMA EvidenceStep ==
    ASSUME IInv, NEW t \in Thread, NEW c \in Candidate, Mine(t) = c,
           WriteApproval(t) \/ WriteAttempt(t) \/ WriteCancellation(t)
    PROVE  IInv'
<1>. USE DEF Owning, Deciding, File
<1>1. TypeOK /\ CandOK(c)
  BY DEF IInv
<1>2. /\ UNCHANGED <<record, run, calls, applied>>
      /\ pc[t].step \in {"opened", "approved"}
  BY DEF WriteApproval, WriteAttempt, WriteCancellation, Writes, At
<1>3. DecidingOK(t, c)
  BY <1>2, OwnerFacts
<1>4. run[c] = "NONE" /\ record[c].status = "DECIDING" /\ calls[c] = 0
  BY <1>2, <1>3 DEF DecidingOK, At
<1>5. CASE WriteApproval(t)
  <2>1. /\ pc[t].op = "approve" /\ files[c] = {} /\ Goto(t, "approved")
        /\ Writes(t, "opened", "approval", "approved")
    BY <1>3, <1>5 DEF WriteApproval, Writes, At, DecidingOK
  <2>2. pc'[t].step = "approved" /\ pc'[t].op = "approve"
    BY <1>1, <2>1, GotoFacts DEF Step
  <2>3. ASSUME files'[c] = files[c] \cup {"approval"} PROVE CandOK(c)' /\ DecidingOK(t, c)'
    BY <1>2, <1>4, <2>1, <2>2, <2>3 DEF CandOK, DecidingOK, At, Ended
  <2>. QED BY <2>1, <2>3, WritesStep
<1>6. CASE WriteAttempt(t)
  <2>1. /\ pc[t].op = "approve" /\ files[c] = {"approval"} /\ Goto(t, "evident")
        /\ Writes(t, "approved", "attempt", "evident")
    BY <1>3, <1>6 DEF WriteAttempt, Writes, At, DecidingOK
  <2>2. pc'[t].step = "evident" /\ pc'[t].op = "approve"
    BY <1>1, <2>1, GotoFacts DEF Step
  <2>3. ASSUME files'[c] = files[c] \cup {"attempt"} PROVE CandOK(c)' /\ DecidingOK(t, c)'
    BY <1>2, <1>4, <2>1, <2>2, <2>3 DEF CandOK, DecidingOK, At, Ended, Evidence
  <2>. QED BY <2>1, <2>3, WritesStep
<1>7. CASE WriteCancellation(t)
  <2>1. /\ pc[t].op = "cancel" /\ files[c] = {} /\ Goto(t, "evident")
        /\ Writes(t, "opened", "cancellation", "evident")
    BY <1>3, <1>7 DEF WriteCancellation, Writes, At, DecidingOK
  <2>2. pc'[t].step = "evident" /\ pc'[t].op = "cancel"
    BY <1>1, <2>1, GotoFacts DEF Step
  <2>3. ASSUME files'[c] = files[c] \cup {"cancellation"} PROVE CandOK(c)' /\ DecidingOK(t, c)'
    BY <1>2, <1>4, <2>1, <2>2, <2>3 DEF CandOK, DecidingOK, At, Ended, Evidence
  <2>. QED BY <2>1, <2>3, WritesStep
<1>. QED BY <1>5, <1>6, <1>7

\* The outcome of the execution.
LEMMA OutcomeStep ==
    ASSUME IInv, NEW t \in Thread, NEW c \in Candidate, Mine(t) = c,
           WriteResult(t) \/ WriteFailure(t)
    PROVE  IInv'
<1>. USE DEF Owning, Deciding, Trying, Handling, File
<1>1. TypeOK /\ CandOK(c)
  BY DEF IInv
<1>2. /\ UNCHANGED <<record, run, calls, applied>>
      /\ pc[t].step \in {"applied", "failing"}
  BY DEF WriteResult, WriteFailure, Writes, At
<1>3. RunningOK(t, c)
  BY <1>2, OwnerFacts
<1>4. CASE WriteResult(t)
  <2>1. Goto(t, "answered") /\ Writes(t, "applied", "result", "answered") /\ At(t, "applied")
    BY <1>4 DEF WriteResult, Writes
  <2>2. pc'[t].step = "answered" /\ pc'[t].op = pc[t].op
    BY <1>1, <2>1, GotoFacts DEF Step
  <2>3. ASSUME files'[c] = files[c] \cup {"result"} PROVE CandOK(c)' /\ RunningOK(t, c)'
    BY <1>1, <1>2, <1>3, <2>1, <2>2, <2>3 DEF CandOK, RunningOK, At, Ended
  <2>. QED BY <2>1, <2>3, WritesStep
<1>5. CASE WriteFailure(t)
  <2>1. Goto(t, "failed") /\ Writes(t, "failing", "failure", "failed") /\ At(t, "failing")
    BY <1>5 DEF WriteFailure, Writes
  <2>2. pc'[t].step = "failed" /\ pc'[t].op = pc[t].op
    BY <1>1, <2>1, GotoFacts DEF Step
  <2>3. ASSUME files'[c] = files[c] \cup {"failure"} PROVE CandOK(c)' /\ RunningOK(t, c)'
    BY <1>1, <1>2, <1>3, <2>1, <2>2, <2>3 DEF CandOK, RunningOK, At, Ended
  <2>. QED BY <2>1, <2>3, WritesStep
<1>. QED BY <1>4, <1>5

\* The run ledger is opened; then it consumes the candidate.
LEMMA DecideStep ==
    ASSUME IInv, NEW t \in Thread, NEW c \in Candidate, Mine(t) = c,
           Open(t) \/ WriteRun(t)
    PROVE  IInv'
<1>. USE DEF Owning, Deciding
<1>1. TypeOK /\ CandOK(c)
  BY DEF IInv
<1>2. /\ UNCHANGED <<record, files, startLock, enabled, canonical, changes, calls,
                     applied, faults>>
      /\ runLock' \in Thread \cup {NoThread}
      /\ pc[t].step \in {"decided", "evident"}
  BY DEF Open, WriteRun, At, ledgers, control, Take, Release
<1>3. DecidingOK(t, c)
  BY <1>2, OwnerFacts
<1>4. CASE Open(t)
  <2>1. Goto(t, "opened") /\ run' = run /\ At(t, "decided")
    BY <1>4 DEF Open, ledgers
  <2>2. /\ pc' \in [Thread -> State]
        /\ pc'[t].step = "opened" /\ pc'[t].op = pc[t].op
    BY <1>1, <2>1, GotoFacts DEF Step
  <2>3. TypeOK'
    BY <1>1, <1>2, <2>1, <2>2 DEF TypeOK
  <2>4. CandOK(c)' /\ DecidingOK(t, c)'
    BY <1>1, <1>2, <1>3, <2>1, <2>2 DEF CandOK, DecidingOK, At
  <2>. QED BY <1>2, <2>1, <2>3, <2>4, OwnerMoves
<1>5. CASE WriteRun(t)
  <2>1. Goto(t, "recorded") /\ run' = [run EXCEPT ![c] = Decision(t)] /\ At(t, "evident")
    BY <1>5 DEF WriteRun
  <2>2. /\ pc' \in [Thread -> State]
        /\ pc'[t].step = "recorded" /\ pc'[t].op = pc[t].op
    BY <1>1, <2>1, GotoFacts DEF Step
  <2>3. /\ run' \in [Candidate -> RunStatus] /\ run'[c] = Decision(t)
        /\ \A d \in Candidate : d # c => run'[d] = run[d]
    BY <1>1, <2>1 DEF TypeOK, RunStatus, Decision
  <2>4. TypeOK'
    BY <1>1, <1>2, <2>2, <2>3 DEF TypeOK
  <2>5. CandOK(c)'
    BY <1>1, <1>2, <1>3, <2>1, <2>3 DEF CandOK, DecidingOK, At, Decision, Ended
  <2>6. DecidingOK(t, c)'
    BY <1>2, <1>3, <2>1, <2>2, <2>3 DEF DecidingOK, At, Decision, Evidence
  <2>. QED BY <1>2, <2>1, <2>3, <2>4, <2>5, <2>6, OwnerMoves
<1>. QED BY <1>4, <1>5

\* The start ledger takes the decision: an approved candidate is being sent, a
\* cancelled one has ended.
LEMMA DecisionStep ==
    ASSUME IInv, NEW t \in Thread, NEW c \in Candidate, Mine(t) = c, MarkDecision(t)
    PROVE  IInv'
<1>. USE DEF Owning, Deciding, Trying
<1>1. TypeOK /\ CandOK(c)
  BY DEF IInv
<1>2. /\ UNCHANGED <<run, files, startLock, runLock, enabled, canonical, changes, calls,
                     applied, faults>>
      /\ At(t, "recorded") /\ SetStatus(c, Decision(t)) /\ Decision(t) \in StartStatus
  BY DEF MarkDecision, locks, control, Decision, StartStatus
<1>3. DecidingOK(t, c)
  BY <1>2, OwnerFacts DEF At
<1>4. /\ record' \in [Candidate -> Record] /\ record'[c].status = Decision(t)
      /\ \A d \in Candidate : d # c => record'[d] = record[d]
  BY <1>1, <1>2, StatusFacts
<1>5. CASE pc[t].op = "approve"
  <2>1. Goto(t, "sending")
    BY <1>5 DEF MarkDecision
  <2>2. /\ pc' \in [Thread -> State]
        /\ pc'[t].step = "sending" /\ pc'[t].op = "approve"
    BY <1>1, <1>5, <2>1, GotoFacts DEF Step
  <2>3. TypeOK'
    BY <1>1, <1>2, <1>4, <2>2 DEF TypeOK
  <2>4. CandOK(c)' /\ RunningOK(t, c)'
    BY <1>1, <1>2, <1>3, <1>4, <1>5, <2>2
    DEF CandOK, DecidingOK, RunningOK, At, Decision, Evidence, Ended, Handling
  <2>. QED BY <1>2, <1>4, <2>1, <2>3, <2>4, OwnerMoves DEF At
<1>6. CASE pc[t].op # "approve"
  <2>1. Leave(t)
    BY <1>6 DEF MarkDecision
  <2>2. TypeOK'
    BY <1>1, <1>2, <1>4, <2>1, LeaveFacts DEF TypeOK
  <2>3. CandOK(c)'
    BY <1>1, <1>2, <1>3, <1>4, <1>6
    DEF CandOK, DecidingOK, At, Decision, Evidence, Ended
  <2>. QED BY <1>2, <1>4, <2>1, <2>2, <2>3, OwnerLeaves DEF At
<1>. QED BY <1>5, <1>6

\* The call, and what becomes of its answer.
LEMMA CallAndApply ==
    ASSUME IInv, NEW t \in Thread, NEW c \in Candidate, Mine(t) = c,
           Transport(t) \/ Answer(t) \/ Apply(t)
    PROVE  IInv'
<1>. USE DEF Owning, Deciding, Trying, Handling
<1>1. TypeOK /\ CandOK(c)
  BY DEF IInv
<1>2. /\ UNCHANGED <<record, run, files, startLock, runLock, enabled, changes, faults>>
      /\ pc[t].step \in {"sending", "waiting", "valid"}
  BY DEF Transport, Answer, Apply, At, ledgers, locks, control
<1>3. RunningOK(t, c)
  BY <1>2, OwnerFacts
<1>4. ASSUME NEW step \in Trying \cup Handling, Goto(t, step)
      PROVE  /\ pc' \in [Thread -> State]
             /\ pc'[t].step = step /\ pc'[t].op = "approve"
  BY <1>1, <1>3, <1>4, StepTypes, GotoFacts DEF RunningOK
<1>5. CASE Transport(t)
  <2>1. /\ Goto(t, "waiting") /\ At(t, "sending")
        /\ calls' = [calls EXCEPT ![c] = @ + 1] /\ UNCHANGED <<canonical, applied>>
    BY <1>5 DEF Transport, control
  <2>2. calls[c] = 0 /\ calls'[c] = 1 /\ calls' \in [Candidate -> Nat]
        /\ \A d \in Candidate : d # c => calls'[d] = calls[d]
    BY <1>1, <1>3, <2>1 DEF TypeOK, RunningOK
  <2>3. TypeOK'
    BY <1>1, <1>2, <1>4, <2>1, <2>2 DEF TypeOK
  <2>4. CandOK(c)' /\ RunningOK(t, c)'
    BY <1>1, <1>2, <1>3, <1>4, <2>1, <2>2 DEF CandOK, RunningOK, At, Ended
  <2>. QED BY <1>2, <2>1, <2>2, <2>3, <2>4, OwnerMoves
<1>6. CASE Answer(t)
  <2>1. PICK step \in {"valid", "failing"} : Goto(t, step)
    BY <1>6 DEF Answer
  <2>2. At(t, "waiting") /\ UNCHANGED <<calls, canonical, applied>>
    BY <1>6 DEF Answer, control
  <2>3. TypeOK'
    BY <1>1, <1>2, <1>4, <2>1, <2>2 DEF TypeOK
  <2>4. CandOK(c)' /\ RunningOK(t, c)'
    BY <1>1, <1>2, <1>3, <1>4, <2>1, <2>2 DEF CandOK, RunningOK, At, Ended
  <2>. QED BY <1>2, <2>1, <2>2, <2>3, <2>4, OwnerMoves
<1>7. CASE Apply(t)
  <2>1. At(t, "valid") /\ calls' = calls
    BY <1>7 DEF Apply
  <2>2. CASE enabled
    <3>1. Goto(t, "applied") /\ applied' = applied \cup {c} /\ canonical' \in Canon
      BY <1>7, <2>2 DEF Apply
    <3>2. TypeOK'
      BY <1>1, <1>2, <1>4, <2>1, <3>1 DEF TypeOK
    <3>3. CandOK(c)' /\ RunningOK(t, c)'
      BY <1>1, <1>2, <1>3, <1>4, <2>1, <3>1 DEF CandOK, RunningOK, At, Ended
    <3>. QED BY <1>2, <2>1, <3>1, <3>2, <3>3, OwnerMoves
  <2>3. CASE ~ enabled
    <3>1. Goto(t, "failing") /\ applied' = applied /\ canonical' = canonical
      BY <1>7, <2>3 DEF Apply
    <3>2. TypeOK'
      BY <1>1, <1>2, <1>4, <2>1, <3>1 DEF TypeOK
    <3>3. CandOK(c)' /\ RunningOK(t, c)'
      BY <1>1, <1>2, <1>3, <1>4, <2>1, <3>1 DEF CandOK, RunningOK, At, Ended
    <3>. QED BY <1>2, <2>1, <3>1, <3>2, <3>3, OwnerMoves
  <2>. QED BY <2>2, <2>3
<1>. QED BY <1>5, <1>6, <1>7

\* The run ledger takes the outcome.
LEMMA FinishStep ==
    ASSUME IInv, NEW t \in Thread, NEW c \in Candidate, Mine(t) = c,
           FinishCompleted(t) \/ FinishFailed(t)
    PROVE  IInv'
<1>. USE DEF Owning, Deciding, Trying, Handling
<1>1. TypeOK /\ CandOK(c)
  BY DEF IInv
<1>2. /\ UNCHANGED <<record, files, startLock, runLock, enabled, canonical, changes, calls,
                     applied, faults>>
      /\ pc[t].step \in {"answered", "failed"}
  BY DEF FinishCompleted, FinishFailed, Finish, At, locks, control
<1>3. RunningOK(t, c)
  BY <1>2, OwnerFacts
<1>4. PICK status \in {"COMPLETED", "FAILED"}, step \in {"finished", "closed"} :
        /\ Goto(t, step) /\ run' = [run EXCEPT ![c] = status]
        /\ \/ status = "COMPLETED" /\ step = "finished" /\ At(t, "answered")
           \/ status = "FAILED" /\ step = "closed" /\ At(t, "failed")
  BY DEF FinishCompleted, FinishFailed, Finish
<1>5. /\ pc' \in [Thread -> State]
      /\ pc'[t].step = step /\ pc'[t].op = "approve"
  BY <1>1, <1>3, <1>4, StepTypes, GotoFacts DEF RunningOK
<1>6. /\ run' \in [Candidate -> RunStatus] /\ run'[c] = status
      /\ \A d \in Candidate : d # c => run'[d] = run[d]
  BY <1>1, <1>4 DEF TypeOK, RunStatus
<1>7. TypeOK'
  BY <1>1, <1>2, <1>5, <1>6 DEF TypeOK
<1>8. CandOK(c)'
  BY <1>1, <1>2, <1>3, <1>4, <1>6 DEF CandOK, RunningOK, At, Ended
<1>9. RunningOK(t, c)'
  BY <1>1, <1>2, <1>3, <1>4, <1>5, <1>6 DEF RunningOK, At
<1>. QED BY <1>2, <1>4, <1>6, <1>7, <1>8, <1>9, OwnerMoves

\* The start ledger takes the outcome, and the candidate has no owner.
LEMMA EndStep ==
    ASSUME IInv, NEW t \in Thread, NEW c \in Candidate, Mine(t) = c,
           MarkCompleted(t) \/ MarkFailed(t)
    PROVE  IInv'
<1>. USE DEF Owning, Deciding, Trying, Handling
<1>1. TypeOK /\ CandOK(c)
  BY DEF IInv
<1>2. /\ UNCHANGED <<run, files, startLock, runLock, enabled, canonical, changes, calls,
                     applied, faults>>
      /\ pc[t].step \in {"finished", "closed"} /\ Leave(t)
  BY DEF MarkCompleted, MarkFailed, MarkEnd, At, locks, control
<1>3. RunningOK(t, c)
  BY <1>2, OwnerFacts
<1>4. PICK status \in {"COMPLETED", "FAILED"} :
        SetStatus(c, status) /\ run[c] = status
  BY <1>3 DEF MarkCompleted, MarkFailed, MarkEnd, RunningOK
<1>5. /\ record' \in [Candidate -> Record] /\ record'[c].status = status
      /\ \A d \in Candidate : d # c => record'[d] = record[d]
  BY <1>1, <1>4, StatusFacts DEF StartStatus
<1>6. TypeOK'
  BY <1>1, <1>2, <1>5, LeaveFacts DEF TypeOK
<1>7. CandOK(c)'
  BY <1>1, <1>2, <1>3, <1>4, <1>5 DEF CandOK, RunningOK, Ended
<1>. QED BY <1>2, <1>5, <1>6, <1>7, OwnerLeaves

\* A write that fails writes nothing: the handler takes over, or the request
\* ends and its candidate keeps what is written.
LEMMA FaultStep ==
    ASSUME IInv, NEW t \in Thread, WriteFails(t)
    PROVE  IInv'
<1>1. TypeOK
  BY DEF IInv
<1>2. /\ UNCHANGED <<record, run, files, enabled, canonical, changes, calls, applied>>
      /\ startLock' \in Thread \cup {NoThread} /\ runLock' \in Thread \cup {NoThread}
  BY <1>1 DEF WriteFails, ledgers, control, ReleaseOf, TypeOK
<1>3. faults' \in 0..MaxFault
  BY <1>1, BoundAssumption DEF WriteFails, TypeOK
<1>4. CASE pc[t].step \in Trying
  <2>1. /\ Goto(t, "failing") /\ pc[t].step \notin Deciding /\ pc[t].step \in Owning
        /\ pc[t].step \notin {"sending", "waiting"}
    BY <1>4 DEF WriteFails, Trying, Deciding, Owning
  <2>2. PICK d \in Candidate : Mine(t) = d
    BY <2>1, OwnerFacts
  <2>3. CandOK(d) /\ RunningOK(t, d)
    BY <2>1, <2>2, OwnerFacts
  <2>4. /\ pc' \in [Thread -> State]
        /\ pc'[t].step = "failing" /\ pc'[t].op = pc[t].op
    BY <1>1, <2>1, GotoFacts DEF Step, Handling
  <2>5. TypeOK'
    BY <1>1, <1>2, <1>3, <2>4 DEF TypeOK
  <2>6. CandOK(d)'
    BY <1>2, <2>3 DEF CandOK
  <2>7. RunningOK(t, d)'
    BY <1>2, <2>1, <2>3, <2>4 DEF RunningOK, At, Handling
  <2>. QED BY <1>2, <2>1, <2>2, <2>5, <2>6, <2>7, OwnerMoves
           DEF Owning, Deciding, Trying, Handling
<1>5. CASE pc[t].step \notin Trying
  <2>1. Leave(t)
    BY <1>5 DEF WriteFails
  <2>2. TypeOK'
    BY <1>1, <1>2, <1>3, <2>1, LeaveFacts DEF TypeOK
  <2>3. \A u \in Thread : pc'[u] = pc[u] \/ (pc'[u].step \notin Owning /\ AskerOK(u)')
    BY <1>1, <2>1, LeaveFacts, StepTypes DEF AskerOK
  <2>. QED BY <1>2, <2>2, <2>3, QuietStep
<1>. QED BY <1>4, <1>5

-----------------------------------------------------------------------------
(* The invariant.                                                          *)

LEMMA InitIInv == Init => IInv
<1>. SUFFICES ASSUME Init PROVE IInv
  OBVIOUS
<1>1. TypeOK
  BY StepTypes, BoundAssumption
  DEF Init, TypeOK, Record, StartStatus, RunStatus
<1>2. \A t \in Thread : pc[t] = Idle /\ pc[t].step = "idle"
  BY DEF Init, Idle
<1>3. \A c \in Candidate :
        record[c].status = "NONE" /\ run[c] = "NONE" /\ files[c] = {} /\ calls[c] = 0
  BY DEF Init
<1>4. OneLive
  BY <1>3 DEF OneLive, Live, InFlight
<1>5. \A c \in Candidate : CandOK(c)
  BY <1>3 DEF CandOK, Ended
<1>. QED BY <1>1, <1>2, <1>4, <1>5, StepTypes DEF IInv, OneOwner, AskerOK, OwnerOK

LEMMA NextIInv == IInv /\ [Next]_vars => IInv'
<1>. SUFFICES ASSUME IInv, [Next]_vars PROVE IInv'
  OBVIOUS
<1>1. CASE UNCHANGED vars
  <2>1. TypeOK'
    BY <1>1 DEF IInv, TypeOK, vars
  <2>. QED BY <1>1, <2>1, QuietStep DEF vars
<1>2. ASSUME NEW t \in Thread, Call(t) \/ WriteFails(t) PROVE IInv'
  BY <1>2, CallStep, FaultStep
<1>3. ASSUME NEW t \in Thread, Proceed(t) PROVE IInv'
  <2>1. CASE PrepareReturn(t) \/ Vet(t) \/ ClaimRead(t)
    BY <2>1, CallStep
  <2>2. CASE PrepareWrite(t)
    BY <2>2, PrepareStep
  <2>3. CASE ClaimWrite(t)
    BY <2>3, ClaimStep
  <2>4. CASE ~ (PrepareReturn(t) \/ Vet(t) \/ ClaimRead(t) \/ PrepareWrite(t) \/ ClaimWrite(t))
    <3>1. pc[t].step \in Owning
      BY <1>3, <2>4
      DEF Proceed, Open, WriteApproval, WriteAttempt, WriteCancellation, Writes, WriteRun,
          MarkDecision, Transport, Answer, Apply, WriteResult, FinishCompleted, FinishFailed,
          Finish, MarkCompleted, MarkFailed, MarkEnd, WriteFailure, At,
          Owning, Deciding, Trying, Handling
    <3>2. PICK c \in Candidate : Mine(t) = c
      BY <3>1, OwnerFacts
    <3>. QED BY <1>3, <2>4, <3>2, DecideStep, EvidenceStep, DecisionStep, CallAndApply,
                OutcomeStep, FinishStep, EndStep DEF Proceed
  <2>. QED BY <2>1, <2>2, <2>3, <2>4
<1>4. CASE Crash \/ Switch \/ Drift
  BY <1>4, WorldStep
<1>. QED BY <1>1, <1>2, <1>3, <1>4 DEF Next

\* The invariant holds in every reachable state.
THEOREM Inductive == Spec => []IInv
BY InitIInv, NextIInv, PTL DEF Spec

-----------------------------------------------------------------------------
(* Theorems.                                                               *)

\* The stores are well typed, for any threads, candidates and bounds.
THEOREM TypeCorrect == Spec => []TypeOK
<1>1. IInv => TypeOK
  BY DEF IInv
<1>. QED BY <1>1, Inductive, PTL

\* However many threads prepare, claim, cancel and crash, at most one candidate
\* waits for a decision or is being run.
THEOREM AtMostOneLive == Spec => []OneLive
<1>1. IInv => OneLive
  BY DEF IInv
<1>. QED BY <1>1, Inductive, PTL

\* No candidate is paid for twice, or without its approval and its attempt on
\* disk, or after it was cancelled.
THEOREM PaidAtMostOnce == Spec => []PaidOnce
<1>1. IInv => PaidOnce
  BY DEF IInv, CandOK, PaidOnce
<1>. QED BY <1>1, Inductive, PTL

\* The start ledger and the run ledger agree after any crash or failed write.
THEOREM LedgersAlwaysAgree == Spec => []LedgersAgree
<1>1. ASSUME IInv PROVE LedgersAgree
  <2>1. ASSUME NEW c \in Candidate, run[c] # "NONE"
        PROVE  record[c].status \in InFlight \cup (Ended \ {"STALE"})
    BY <1>1, <2>1 DEF IInv, CandOK, TypeOK, Record, StartStatus, InFlight, Ended
  <2>. QED BY <1>1, <2>1 DEF IInv, CandOK, LedgersAgree
<1>. QED BY <1>1, Inductive, PTL

\* A run whose output can be dispatched was paid for and its delta was applied.
THEOREM HandoffAlwaysApplied == Spec => []HandoffIsApplied
<1>1. IInv => HandoffIsApplied
  BY DEF IInv, CandOK, HandoffIsApplied
<1>. QED BY <1>1, Inductive, PTL

\* Outside prepare, a record changes only when its candidate is live, and keeps
\* a status.
LEMMA RecordSteps ==
    ASSUME IInv, [Next]_vars, \A t \in Thread : ~ PrepareWrite(t), NEW c \in Candidate
    PROVE  record'[c] = record[c] \/ (Live(c) /\ record'[c].status # "NONE")
<1>1. CASE record' = record
  BY <1>1
<1>2. CASE record' # record
  <2>1. PICK t \in Thread :
          ClaimWrite(t) \/ MarkDecision(t) \/ MarkCompleted(t) \/ MarkFailed(t)
    BY <1>2
    DEF Next, vars, ledgers, Call, PrepareRead, Ask, Proceed, PrepareReturn, Vet,
        ClaimRead, Open, WriteApproval, WriteAttempt, WriteCancellation, Writes,
        WriteRun, Transport, Answer, Apply, WriteResult, FinishCompleted, Finish,
        WriteFailure, FinishFailed, WriteFails, Crash, Switch, Drift
  <2>2. PICK status \in StartStatus \ {"NONE"} : SetStatus(Mine(t), status)
    BY <1>2, <2>1
    DEF ClaimWrite, MarkDecision, MarkCompleted, MarkFailed, MarkEnd, Decision, StartStatus
  <2>3. Mine(t) \in Candidate /\ Live(Mine(t))
    <3>1. CASE ClaimWrite(t)
      <4>1. pc[t].step = "claiming" /\ Claimable(t)
        BY <1>2, <3>1 DEF ClaimWrite, At
      <4>. QED BY <4>1 DEF IInv, AskerOK, Claimable, Live
    <3>2. CASE ~ ClaimWrite(t)
      <4>1. pc[t].step \in Owning
        BY <2>1, <3>2 DEF MarkDecision, MarkCompleted, MarkFailed, MarkEnd, At,
                          Owning, Deciding, Trying, Handling
      <4>. QED BY <4>1, OwnerFacts DEF DecidingOK, RunningOK, Live, InFlight
    <3>. QED BY <3>1, <3>2
  <2>4. /\ record'[Mine(t)].status = status
        /\ \A d \in Candidate : d # Mine(t) => record'[d] = record[d]
    BY <2>2, <2>3, StatusFacts DEF IInv
  <2>. QED BY <2>3, <2>4
<1>. QED BY <1>1, <1>2

\* prepare takes one candidate that was none, and ends what was READY.
LEMMA PrepareSteps ==
    ASSUME IInv, NEW t \in Thread, PrepareWrite(t)
    PROVE  /\ \E c \in Candidate :
                /\ record[c].status = "NONE" /\ record'[c].status = "READY"
                /\ \A d \in Candidate : d # c =>
                     record'[d].status = IF record[d].status = "READY" THEN "STALE"
                                         ELSE record[d].status
           /\ UNCHANGED <<files, calls>>
<1>1. PICK c \in Candidate :
        record[c].status = "NONE" /\ record' = Sealed(c, pc[t].request, pc[t].seen)
  BY DEF PrepareWrite
<1>2. TypeOK
  BY DEF IInv
<1>3. record'[c].status = "READY"
  BY <1>1 DEF Sealed
<1>4. ASSUME NEW d \in Candidate, d # c
      PROVE  record'[d].status = IF record[d].status = "READY" THEN "STALE"
                                 ELSE record[d].status
  BY <1>1, <1>2, <1>4 DEF Sealed, TypeOK, Record
<1>. QED BY <1>1, <1>3, <1>4 DEF PrepareWrite

\* What ended stays ended, under every interleaving of the two ledgers.
THEOREM EndedForever == Spec => EndedStays
<1>1. ASSUME IInv, [Next]_vars, NEW c \in Candidate, record[c].status \in Ended
      PROVE  record'[c].status = record[c].status
  <2>1. CASE \A t \in Thread : ~ PrepareWrite(t)
    BY <1>1, <2>1, RecordSteps DEF Live, InFlight, Ended
  <2>2. CASE \E t \in Thread : PrepareWrite(t)
    BY <1>1, <2>2, PrepareSteps DEF Ended
  <2>. QED BY <2>1, <2>2
<1>2. IInv /\ [Next]_vars =>
        [\A c \in Candidate :
           record[c].status \in Ended => record'[c].status = record[c].status]_vars
  BY <1>1
<1>. QED BY <1>2, Inductive, PTL DEF Spec, EndedStays

-----------------------------------------------------------------------------
(* Refinement: the run is an exactly-once dispatch.                        *)

\* A step that moves the phase of one candidate.
LEMMA PhaseMoves ==
    ASSUME NEW c \in Candidate, NEW from, NEW to,
           PhaseOf(c) = from, PhaseOf(c)' = to, calls' = calls,
           \A d \in Candidate : d # c => PhaseOf(d)' = PhaseOf(d)
    PROVE  Dispatch!Move(c, from, to)
<1>1. Phases' = [Phases EXCEPT ![c] = to]
  BY DEF Phases
<1>2. Phases[c] = from
  BY DEF Phases
<1>. QED BY <1>1, <1>2 DEF Dispatch!Move

\* prepare proposes a candidate; what it ends keeps its files.
LEMMA PrepareProposes ==
    ASSUME IInv, NEW t \in Thread, PrepareWrite(t)
    PROVE  Dispatch!Next
<1>1. PICK c \in Candidate :
        /\ record[c].status = "NONE" /\ record'[c].status = "READY"
        /\ \A d \in Candidate : d # c =>
             record'[d].status = IF record[d].status = "READY" THEN "STALE"
                                 ELSE record[d].status
  BY PrepareSteps
<1>2. UNCHANGED <<files, calls>>
  BY PrepareSteps
<1>3. files[c] = {}
  BY <1>1 DEF IInv, CandOK
<1>4. PhaseOf(c) = "none" /\ PhaseOf(c)' = "proposed"
  BY <1>1, <1>2, <1>3 DEF PhaseOf
<1>5. \A d \in Candidate : d # c => PhaseOf(d)' = PhaseOf(d)
  BY <1>1, <1>2 DEF PhaseOf
<1>6. Dispatch!Propose(c)
  BY <1>2, <1>4, <1>5, PhaseMoves DEF Dispatch!Propose
<1>. QED BY <1>6 DEF Dispatch!Next

\* A record file moves the phase of its candidate, or comes after the outcome.
LEMMA WritesMove ==
    ASSUME IInv, NEW t \in Thread,
           WriteApproval(t) \/ WriteAttempt(t) \/ WriteCancellation(t)
             \/ WriteResult(t) \/ WriteFailure(t)
    PROVE  [Dispatch!Next]_<<Phases, calls>>
<1>. USE DEF Owning, Deciding, Trying, Handling
<1>1. pc[t].step \in {"opened", "approved", "applied", "failing"}
  BY DEF WriteApproval, WriteAttempt, WriteCancellation, WriteResult, WriteFailure,
         Writes, At
<1>2. PICK c \in Candidate : Mine(t) = c
  BY <1>1, OwnerFacts
<1>3. /\ pc[t].step \in {"opened", "approved"} => DecidingOK(t, c)
      /\ pc[t].step \in {"applied", "failing"} => RunningOK(t, c)
  BY <1>1, <1>2, OwnerFacts
<1>4. UNCHANGED <<record, calls>>
  BY DEF WriteApproval, WriteAttempt, WriteCancellation, WriteResult, WriteFailure, Writes
<1>5. ASSUME NEW kind \in File, WriteFile(c, kind)
      PROVE  /\ files'[c] = files[c] \cup {kind}
             /\ \A d \in Candidate : d # c => PhaseOf(d)' = PhaseOf(d)
  BY <1>4, <1>5, FileFacts DEF IInv, PhaseOf
<1>6. CASE WriteApproval(t)
  <2>1. At(t, "opened") /\ WriteFile(c, "approval")
    BY <1>2, <1>6 DEF WriteApproval, Writes
  <2>2. PhaseOf(c) = "proposed" /\ PhaseOf(c)' = "approved"
    BY <1>3, <1>4, <1>5, <2>1 DEF PhaseOf, DecidingOK, At, File
  <2>. QED BY <1>4, <1>5, <2>1, <2>2, PhaseMoves DEF Dispatch!Next, Dispatch!Approve, File
<1>7. CASE WriteAttempt(t)
  <2>1. At(t, "approved") /\ WriteFile(c, "attempt")
    BY <1>2, <1>7 DEF WriteAttempt, Writes
  <2>2. PhaseOf(c) = "approved" /\ PhaseOf(c)' = "consumed"
    BY <1>3, <1>4, <1>5, <2>1 DEF PhaseOf, DecidingOK, At, File
  <2>. QED BY <1>4, <1>5, <2>1, <2>2, PhaseMoves DEF Dispatch!Next, Dispatch!Consume, File
<1>8. CASE WriteCancellation(t)
  <2>1. At(t, "opened") /\ WriteFile(c, "cancellation")
    BY <1>2, <1>8 DEF WriteCancellation, Writes
  <2>2. PhaseOf(c) = "proposed" /\ PhaseOf(c)' = "rejected"
    BY <1>3, <1>4, <1>5, <2>1 DEF PhaseOf, DecidingOK, At, File
  <2>. QED BY <1>4, <1>5, <2>1, <2>2, PhaseMoves DEF Dispatch!Next, Dispatch!Reject, File
<1>9. CASE WriteResult(t) \/ WriteFailure(t)
  <2>1. PICK kind \in {"result", "failure"} : WriteFile(c, kind)
    BY <1>2, <1>9 DEF WriteResult, WriteFailure, Writes
  <2>2. RunningOK(t, c)
    BY <1>3, <1>9 DEF WriteResult, WriteFailure, Writes, At
  <2>3. PhaseOf(c) \in {"consumed", "settled"} /\ PhaseOf(c)' = "settled"
    BY <1>5, <2>1, <2>2 DEF PhaseOf, RunningOK, File
  <2>4. CASE PhaseOf(c) = "consumed"
    BY <1>4, <1>5, <2>1, <2>3, <2>4, PhaseMoves DEF Dispatch!Next, Dispatch!Settle, File
  <2>5. CASE PhaseOf(c) = "settled"
    <3>1. \A d \in Candidate : PhaseOf(d)' = PhaseOf(d)
      BY <1>5, <2>1, <2>3, <2>5 DEF File
    <3>. QED BY <1>4, <3>1 DEF Phases
  <2>. QED BY <2>3, <2>4, <2>5
<1>. QED BY <1>6, <1>7, <1>8, <1>9

\* The transport is the one send, of a candidate that is consumed.
LEMMA TransportSends ==
    ASSUME IInv, NEW t \in Thread, Transport(t)
    PROVE  Dispatch!Next
<1>1. pc[t].step = "sending" /\ files' = files /\ record' = record
  BY DEF Transport, At, ledgers
<1>2. PICK c \in Candidate : Mine(t) = c
  BY <1>1, OwnerFacts DEF Owning, Trying
<1>3. RunningOK(t, c)
  BY <1>1, <1>2, OwnerFacts DEF Owning, Trying, Deciding
<1>4. calls[c] = 0 /\ files[c] = {"approval", "attempt"}
  BY <1>1, <1>3 DEF RunningOK, At
<1>5. calls' = [calls EXCEPT ![c] = 1]
  BY <1>2, <1>4 DEF Transport, IInv, TypeOK
<1>6. Phases[c] = "consumed"
  BY <1>4 DEF Phases, PhaseOf
<1>7. Phases' = Phases
  BY <1>1 DEF Phases, PhaseOf
<1>8. Dispatch!Send(c)
  BY <1>4, <1>5, <1>6, <1>7 DEF Dispatch!Send
<1>. QED BY <1>8 DEF Dispatch!Next

\* Every step of the stores is a step of the exactly-once protocol or a stutter.
LEMMA StepMoves == IInv /\ [Next]_vars => [Dispatch!Next]_<<Phases, calls>>
<1>. SUFFICES ASSUME IInv, [Next]_vars PROVE [Dispatch!Next]_<<Phases, calls>>
  OBVIOUS
<1>1. CASE \E t \in Thread : PrepareWrite(t)
  BY <1>1, PrepareProposes
<1>2. CASE \E t \in Thread : Transport(t)
  BY <1>2, TransportSends
<1>3. CASE \E t \in Thread : WriteApproval(t) \/ WriteAttempt(t) \/ WriteCancellation(t)
                               \/ WriteResult(t) \/ WriteFailure(t)
  BY <1>3, WritesMove
<1>4. CASE \A t \in Thread :
             /\ ~ PrepareWrite(t) /\ ~ Transport(t)
             /\ ~ (WriteApproval(t) \/ WriteAttempt(t) \/ WriteCancellation(t)
                     \/ WriteResult(t) \/ WriteFailure(t))
  <2>1. files' = files /\ calls' = calls
    BY <1>4
    DEF Next, vars, ledgers, Call, PrepareRead, Ask, Proceed, PrepareReturn, Vet,
        ClaimRead, ClaimWrite, Open, WriteRun, MarkDecision, Answer, Apply,
        FinishCompleted, FinishFailed, Finish, MarkCompleted, MarkFailed, MarkEnd,
        WriteFails, Crash, Switch, Drift
  <2>2. \A c \in Candidate : record'[c].status = "NONE" <=> record[c].status = "NONE"
    BY <1>4, RecordSteps DEF Live, InFlight
  <2>3. Phases' = Phases
    BY <2>1, <2>2 DEF Phases, PhaseOf
  <2>. QED BY <2>1, <2>3
<1>. QED BY <1>1, <1>2, <1>3, <1>4

\* The paid run implements the exactly-once protocol, as the dispatch ledger
\* does, whatever the console loses on the way.
THEOREM Refinement == Spec => ExactlyOnce
<1>1. Init => Dispatch!Init
  BY DEF Init, Dispatch!Init, Phases, PhaseOf
<1>2. IInv /\ [Next]_vars => [Dispatch!Next]_<<Phases, calls>>
  BY StepMoves
<1>. QED BY <1>1, <1>2, Inductive, PTL DEF Spec, ExactlyOnce, Dispatch!Spec
=============================================================================
