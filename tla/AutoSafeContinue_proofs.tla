----------------------- MODULE AutoSafeContinue_proofs -----------------------
(***************************************************************************)
(* For any number of invocations, kills, edits and answers: the evidence   *)
(* on disk is true of the call (TraceBacked), an approval is paid for once *)
(* (PaidOnce) and its calls pass its cap by no more than the usage of the  *)
(* first answer left uncounted (CostWithinCap).                            *)
(***************************************************************************)
EXTENDS AutoSafeContinue, TLAPS

(***************************************************************************)
(* The scripts                                                             *)
(***************************************************************************)

\* A script reaches its step k after a step x.
Prior(s, k, x) == \E j \in 1 .. k - 1 : Steps(s)[j] = x

Ordered(s) ==
  /\ Len(Steps(s)) \in 1 .. 8
  /\ \A k \in 1 .. Len(Steps(s)) :
       /\ Steps(s)[k] = "call" => s \in Reviewer /\ Prior(s, k, "attempt") /\ ~Prior(s, k, "call")
       /\ Steps(s)[k] \in {"capture", "comparison"} => Prior(s, k, "call")
       /\ Steps(s)[k] = "result" =>
            /\ Prior(s, k, "approval") /\ (s \in Reviewer => Prior(s, k, "call"))
       /\ Steps(s)[k] \in {"completed", "ledger"} => Prior(s, k, "result")
       /\ Steps(s)[k] = "auto" =>
            /\ s = "auto" /\ Prior(s, k, "attempt") /\ Prior(s, k, "approval")
       /\ Steps(s)[k] # "none"
  /\ s \in Reviewer \cup {"auto"} => "attempt" \in Guard(s)

\* In every script the attempt comes before the call, what is said of the call
\* after it, and an earlier attempt refuses a script that pays.
LEMMA ScriptsOrdered == \A s \in AllScripts : Ordered(s)
<1> SUFFICES ASSUME NEW s \in AllScripts PROVE Ordered(s)
  OBVIOUS
<1>1. s \in Reviewer \cup {"auto"} => "attempt" \in Guard(s)
  BY DEF Guard, Reviewer
<1>2. CASE s = "live"
  BY <1>1, <1>2, SMT DEF Ordered, Prior, Steps, Live, Reviewer
<1>3. CASE s = "r2"
  BY <1>1, <1>3, SMT DEF Ordered, Prior, Steps, R2, Reviewer
<1>4. CASE s = "r3"
  BY <1>1, <1>4, SMT DEF Ordered, Prior, Steps, R3, Reviewer
<1>5. CASE s = "calibration"
  BY <1>1, <1>5, SMT DEF Ordered, Prior, Steps, Calibration, Reviewer
<1>6. CASE s = "holdout"
  BY <1>1, <1>6, SMT DEF Ordered, Prior, Steps, Holdout, Reviewer
<1>7. CASE s = "evidence"
  BY <1>1, <1>7, SMT DEF Ordered, Prior, Steps, EvidenceHoldout, Reviewer
<1>8. CASE s = "alignment"
  BY <1>1, <1>8, SMT DEF Ordered, Prior, Steps, Alignment, Reviewer
<1>9. CASE s = "alignmentHoldout"
  BY <1>1, <1>9, SMT DEF Ordered, Prior, Steps, AlignmentHoldout, Reviewer
<1>10. CASE s = "pilot"
  BY <1>1, <1>10, SMT DEF Ordered, Prior, Steps, Pilot, Reviewer
<1>11. CASE s = "retry"
  BY <1>1, <1>11, SMT DEF Ordered, Prior, Steps, Retry, Reviewer
<1>12. CASE s = "auto"
  BY <1>1, <1>12, SMT DEF Ordered, Prior, Steps, Automatic, Reviewer
<1> QED
  BY <1>2, <1>3, <1>4, <1>5, <1>6, <1>7, <1>8, <1>9, <1>10, <1>11, <1>12 DEF AllScripts, Reviewer

(***************************************************************************)
(* Types, and what a step of the run does                                  *)
(***************************************************************************)

StepName == {"call", "apply", "seal", "send", "return", "again", "finish"}
AutoRecord == [step : StepName, mainline : Turn \cup {NoTurn},
               cycles : Nat, reported : Nat, cost : Nat, sealed : Nat]

Typed ==
  /\ script \in AllScripts
  /\ calls \in Nat /\ spent \in Nat /\ uncounted \in Nat /\ edits \in Nat
  /\ run \in [Invocation -> [at : Nat, answer : Answers \cup {"none"}]]
  /\ \A i \in Invocation :
       /\ run[i].at <= Len(Steps(script))
       /\ run[i].at = 0 => run[i] = Idle
  /\ auto \in [Invocation -> AutoRecord]

Past(i, x) == Prior(script, run[i].at, x)

\* Only invocation i moved, past x if it was at a step and is not done.
Moved(i, x) ==
  /\ run' \in [Invocation -> [at : Nat, answer : Answers \cup {"none"}]]
  /\ run'[i].at <= Len(Steps(script))
  /\ run'[i].at = 0 => run'[i] = Idle
  /\ \A j \in Invocation \ {i} : run'[j] = run[j]
  /\ run'[i] # Idle => \A y : Prior(script, run'[i].at, y) <=> Past(i, y) \/ y = x

LEMMA PriorAt ==
  ASSUME NEW s, NEW k \in Nat, NEW x
  PROVE  /\ k >= 1 => (Prior(s, k + 1, x) <=> Prior(s, k, x) \/ Steps(s)[k] = x)
         /\ k <= 1 => ~Prior(s, k, x)
<1>1. ASSUME k >= 1 PROVE 1 .. (k + 1) - 1 = (1 .. k - 1) \cup {k}
  BY <1>1
<1>2. k <= 1 => 1 .. k - 1 = {}
  OBVIOUS
<1> QED
  BY <1>1, <1>2 DEF Prior

LEMMA NothingBefore == \A s, x : ~Prior(s, 0, x) /\ ~Prior(s, 1, x)
BY DEF Prior

LEMMA IdleAt ==
  ASSUME Typed, NEW i \in Invocation
  PROVE  /\ run[i] = Idle <=> run[i].at = 0
         /\ run[i] # Idle => /\ run[i].at \in 1 .. Len(Steps(script))
                             /\ Item(i) = Steps(script)[run[i].at]
                             /\ Item(i) # "none"
         /\ run[i] = Idle => Item(i) = "none" /\ \A x : ~Past(i, x)
<1>1. Ordered(script)
  BY ScriptsOrdered DEF Typed
<1>2. run[i] = Idle <=> run[i].at = 0
  BY DEF Typed, Idle
<1>3. ASSUME run[i] # Idle
      PROVE  run[i].at \in 1 .. Len(Steps(script)) /\ Item(i) = Steps(script)[run[i].at]
  BY <1>1, <1>2, <1>3 DEF Typed, Item, Ordered
<1>4. ASSUME run[i] = Idle PROVE \A x : ~Past(i, x)
  BY <1>2, <1>4, NothingBefore DEF Past
<1> QED
  BY <1>1, <1>2, <1>3, <1>4 DEF Ordered, Item

\* What the script says of the step an invocation is at.
LEMMA ItemOrdered ==
  ASSUME Typed, NEW i \in Invocation, run[i] # Idle
  PROVE  /\ Item(i) = "call" => script \in Reviewer /\ Past(i, "attempt") /\ ~Past(i, "call")
         /\ Item(i) \in {"capture", "comparison"} => Past(i, "call")
         /\ Item(i) = "result" => Past(i, "approval") /\ (script \in Reviewer => Past(i, "call"))
         /\ Item(i) \in {"completed", "ledger"} => Past(i, "result")
         /\ Item(i) = "auto" => script = "auto" /\ Past(i, "attempt") /\ Past(i, "approval")
BY IdleAt, ScriptsOrdered DEF Typed, Ordered, Past

LEMMA AdvanceMoves ==
  ASSUME Typed, NEW i \in Invocation, run[i] # Idle,
         NEW answer \in Answers \cup {"none"}, Advance(i, answer)
  PROVE  Moved(i, Item(i))
<1> DEFINE k == run[i].at
           n == Len(Steps(script))
<1>1. k \in 1 .. n /\ Item(i) = Steps(script)[k] /\ n \in 1 .. 8
  BY IdleAt, ScriptsOrdered DEF Typed, Ordered
<1>2. CASE k = n
  BY <1>1, <1>2 DEF Advance, Moved, Typed, Idle
<1>3. CASE k # n
  <2>1. run'[i] = [at |-> k + 1, answer |-> answer] /\ k + 1 <= n /\ k \in Nat /\ k >= 1
    BY <1>1, <1>3 DEF Advance, Typed
  <2>2. \A y : Prior(script, k + 1, y) <=> Prior(script, k, y) \/ Steps(script)[k] = y
    BY <2>1, PriorAt
  <2>3. run' \in [Invocation -> [at : Nat, answer : Answers \cup {"none"}]]
        /\ \A j \in Invocation \ {i} : run'[j] = run[j]
    BY <1>1, <1>3, <2>1 DEF Advance, Typed
  <2> QED
    BY <1>1, <2>1, <2>2, <2>3 DEF Moved, Past
<1> QED
  BY <1>2, <1>3

\* An invocation that ends or is killed is idle again.
LEMMA EndMoves ==
  ASSUME Typed, NEW i \in Invocation, NEW x, run' = [run EXCEPT ![i] = Idle]
  PROVE  Moved(i, x) /\ run'[i] = Idle
BY DEF Typed, Moved, Idle

LEMMA BeginMoves ==
  ASSUME Typed, NEW i \in Invocation, run[i] = Idle, run' = [run EXCEPT ![i] = [Idle EXCEPT !.at = 1]]
  PROVE  /\ run' \in [Invocation -> [at : Nat, answer : Answers \cup {"none"}]]
         /\ run'[i].at = 1 /\ run'[i] # Idle /\ 1 <= Len(Steps(script))
         /\ \A j \in Invocation \ {i} : run'[j] = run[j]
         /\ \A x : ~Prior(script, run'[i].at, x)
<1>1. run'[i] = [at |-> 1, answer |-> "none"]
  BY DEF Typed, Idle
<1>2. /\ run' \in [Invocation -> [at : Nat, answer : Answers \cup {"none"}]]
      /\ \A j \in Invocation \ {i} : run'[j] = run[j]
  BY <1>1 DEF Typed, Idle
<1>3. 1 <= Len(Steps(script))
  <2> DEFINE n == Len(Steps(script))
  <2>1. n \in 1 .. 8
    BY ScriptsOrdered DEF Typed, Ordered
  <2> HIDE DEF n
  <2>2. 1 <= n
    BY <2>1
  <2> QED
    BY <2>2 DEF n
<1>4. run'[i].at = 1 /\ run'[i] # Idle
  BY <1>1 DEF Idle
<1>5. \A x : ~Prior(script, run'[i].at, x)
  BY <1>4, NothingBefore
<1> QED
  BY <1>2, <1>3, <1>4, <1>5

(***************************************************************************)
(* The evidence                                                            *)
(***************************************************************************)

\* What an invocation is past is on disk, or was paid for.
Backed(i) ==
  /\ \A x \in {"approval", "attempt", "result"} : Past(i, x) => x \in files
  /\ Past(i, "call") => calls > 0

Evident == Typed /\ (\A i \in Invocation : Backed(i)) /\ TraceBacked

\* A step that writes or pays for what it moves past, and takes nothing back,
\* keeps every invocation backed.
LEMMA MovesBacked ==
  ASSUME Evident, NEW i \in Invocation, NEW x, Moved(i, x), UNCHANGED script,
         files \subseteq files', calls' \in Nat, calls' >= calls,
         x \in {"approval", "attempt", "result"} => x \in files',
         x = "call" => calls' > 0
  PROVE  \A j \in Invocation : Backed(j)'
<1> SUFFICES ASSUME NEW j \in Invocation PROVE Backed(j)'
  OBVIOUS
<1>1. calls \in Nat
  BY DEF Evident, Typed
<1>2. CASE j # i
  BY <1>1, <1>2 DEF Evident, Backed, Past, Moved
<1>3. CASE j = i /\ run'[i] # Idle
  BY <1>1, <1>3 DEF Evident, Backed, Past, Moved
<1>4. CASE j = i /\ run'[i] = Idle
  <2>1. run'[i].at = 0
    BY <1>4 DEF Idle
  <2> QED
    BY <1>4, <2>1, NothingBefore DEF Backed, Past
<1> QED
  BY <1>2, <1>3, <1>4

\* The types after a step that moves one invocation.
LEMMA MovesTyped ==
  ASSUME Typed, NEW i \in Invocation, NEW x, Moved(i, x), UNCHANGED script,
         calls' \in Nat, spent' \in Nat, uncounted' \in Nat, edits' \in Nat,
         auto' \in [Invocation -> AutoRecord]
  PROVE  Typed'
BY DEF Typed, Moved

LEMMA StartTyped == Start \in AutoRecord
BY DEF Start, AutoRecord, StepName

\* A step that writes x and passes it keeps the traces, if what x says is so.
LEMMA MovesEvident ==
  ASSUME Evident, NEW i \in Invocation, NEW x, Moved(i, x), UNCHANGED script,
         spent' \in Nat, uncounted' \in Nat, edits' \in Nat, auto' \in [Invocation -> AutoRecord],
         files \subseteq files', calls' \in Nat, calls' >= calls,
         x \in {"approval", "attempt", "result"} => x \in files',
         x = "call" => calls' > 0,
         TraceBacked'
  PROVE  Evident'
BY MovesBacked, MovesTyped DEF Evident

LEMMA ShotKeepsAuto ==
  ASSUME Typed, NEW i \in Invocation, Shot(i)
  PROVE  /\ auto' \in [Invocation -> AutoRecord]
         /\ spent' = spent /\ uncounted' = uncounted /\ edits' = edits
         /\ spent' \in Nat /\ uncounted' \in Nat /\ edits' \in Nat
         /\ auto'[i] = IF run'[i] = Idle THEN Start ELSE auto[i]
         /\ \A j \in Invocation \ {i} : auto'[j] = auto[j]
BY StartTyped DEF Typed, Shot

\* Each step of a script, with the invocation it moves.
LEMMA ShotMoves ==
  ASSUME Typed, NEW i \in Invocation, ShotStep(i), ~Begin(i)
  PROVE  run[i] # Idle /\ \E x : Moved(i, x) /\ (run'[i] # Idle => x = Item(i) /\ x # "auto")
<1>1. CASE Verify(i)
  BY <1>1, IdleAt, AdvanceMoves, EndMoves DEF Verify
<1>2. CASE Write(i)
  BY <1>2, IdleAt, AdvanceMoves, EndMoves DEF Write, Written, Typed
<1>3. CASE Call(i)
  BY <1>3, IdleAt, AdvanceMoves, EndMoves DEF Call
<1>4. CASE Capture(i)
  BY <1>4, IdleAt, AdvanceMoves, EndMoves DEF Capture, Typed
<1>5. CASE Compare(i)
  BY <1>5, IdleAt, AdvanceMoves, EndMoves DEF Compare, Typed
<1>6. CASE Raise(i)
  BY <1>6, IdleAt, EndMoves DEF Raise
<1>7. CASE Kill(i)
  BY <1>7, IdleAt, EndMoves DEF Kill
<1> QED
  BY <1>1, <1>2, <1>3, <1>4, <1>5, <1>6, <1>7 DEF ShotStep

LEMMA LimitIs == /\ Limit = 1 <=> script \in Reviewer
                 /\ script \in Reviewer => Limit = 1
                 /\ script = "auto" => Limit = 2
BY DEF Limit, Reviewer

LEMMA ShotEvident ==
  ASSUME Evident, NEW i \in Invocation, Shot(i)
  PROVE  Evident'
<1>0. /\ Typed /\ TraceBacked /\ calls \in Nat
      /\ auto' \in [Invocation -> AutoRecord] /\ spent' \in Nat /\ uncounted' \in Nat /\ edits' \in Nat
  BY ShotKeepsAuto DEF Evident, Typed
<1>1. CASE Begin(i)
  <2>1. /\ run[i] = Idle /\ run' = [run EXCEPT ![i] = [Idle EXCEPT !.at = 1]]
        /\ UNCHANGED <<script, files, calls>>
    BY <1>1 DEF Begin
  <2>2. /\ run' \in [Invocation -> [at : Nat, answer : Answers \cup {"none"}]]
        /\ run'[i].at = 1 /\ run'[i] # Idle /\ 1 <= Len(Steps(script))
        /\ \A j \in Invocation \ {i} : run'[j] = run[j]
        /\ \A x : ~Prior(script, run'[i].at, x)
    BY <1>0, <2>1, BeginMoves
  <2>3. Typed'
    BY <1>0, <2>1, <2>2 DEF Typed
  <2>4. \A j \in Invocation : Backed(j)'
    BY <2>1, <2>2 DEF Evident, Backed, Past
  <2>5. TraceBacked'
    BY <1>0, <2>1 DEF TraceBacked, Limit
  <2> QED
    BY <2>3, <2>4, <2>5 DEF Evident
<1>2. CASE Verify(i) \/ Raise(i) \/ Kill(i)
  <2>1. UNCHANGED <<script, files, calls>>
    BY <1>2 DEF Verify, Raise, Kill
  <2>2. PICK x : Moved(i, x) /\ x \notin {"approval", "attempt", "result", "call"}
    <3>1. CASE Verify(i)
      <4>1. Item(i) = "verify" /\ run[i] # Idle
        BY <1>0, <3>1, IdleAt DEF Verify
      <4> QED
        BY <1>0, <3>1, <4>1, AdvanceMoves, EndMoves DEF Verify
    <3>2. CASE Raise(i) \/ Kill(i)
      <4>1. Moved(i, "none")
        BY <1>0, <3>2, EndMoves DEF Raise, Kill
      <4> QED
        BY <4>1
    <3> QED
      BY <1>2, <3>1, <3>2
  <2>3. TraceBacked'
    BY <1>0, <2>1 DEF TraceBacked, Limit
  <2> QED
    BY <1>0, <2>1, <2>2, <2>3, MovesEvident
<1>3. CASE Write(i)
  <2>1. /\ Item(i) \in Written /\ run[i] # Idle /\ files' = files \cup {Item(i)}
        /\ UNCHANGED <<script, calls>>
    BY <1>0, <1>3, IdleAt DEF Write, Written
  <2>2. Moved(i, Item(i))
    BY <1>0, <1>3, <2>1, AdvanceMoves DEF Write, Typed
  <2>3. Backed(i)
    BY DEF Evident
  <2>4. /\ Item(i) = "result" => "approval" \in files /\ (script \in Reviewer => calls > 0)
        /\ Item(i) \in {"completed", "ledger"} => "result" \in files
    BY <1>0, <2>1, <2>3, ItemOrdered DEF Backed
  <2>5. TraceBacked'
    BY <1>0, <2>1, <2>4, LimitIs DEF TraceBacked, Written, Limit
  <2>6. Item(i) # "call"
    BY <2>1 DEF Written
  <2> QED
    BY <1>0, <2>1, <2>2, <2>5, <2>6, MovesEvident
<1>4. CASE Call(i)
  <2>1. /\ Item(i) = "call" /\ run[i] # Idle /\ calls' = calls + 1
        /\ UNCHANGED <<script, files>>
    BY <1>0, <1>4, IdleAt DEF Call
  <2>2. Moved(i, Item(i))
    BY <1>0, <1>4, <2>1, AdvanceMoves DEF Call
  <2>3. "attempt" \in files
    BY <1>0, <2>1, ItemOrdered DEF Evident, Backed
  <2>4. TraceBacked'
    BY <1>0, <2>1, <2>3 DEF TraceBacked, Limit
  <2> QED
    BY <1>0, <2>1, <2>2, <2>4, MovesEvident
<1>5. CASE Capture(i) \/ Compare(i)
  <2>1. /\ Item(i) \in {"capture", "comparison"} /\ run[i] # Idle
        /\ files \subseteq files' /\ files' \subseteq files \cup {"capture", "comparison"}
        /\ UNCHANGED <<script, calls>>
    BY <1>0, <1>5, IdleAt DEF Capture, Compare
  <2>2. Moved(i, Item(i))
    BY <1>0, <1>5, <2>1, AdvanceMoves DEF Capture, Compare, Typed
  <2>3. calls > 0
    BY <1>0, <2>1, ItemOrdered DEF Evident, Backed
  <2>4. TraceBacked'
    BY <1>0, <2>1, <2>3 DEF TraceBacked, Limit
  <2> QED
    BY <1>0, <2>1, <2>2, <2>4, MovesEvident
<1> QED
  BY <1>1, <1>2, <1>3, <1>4, <1>5 DEF Shot, ShotStep

\* The step of the automatic runner: Item "auto" comes with the script, the
\* approval and the attempt.
LEMMA RunningAuto ==
  ASSUME Evident, NEW i \in Invocation, Item(i) = "auto"
  PROVE  run[i] # Idle /\ script = "auto" /\ {"approval", "attempt"} \subseteq files
<1>1. Typed /\ run[i] # Idle
  BY IdleAt DEF Evident
<1> QED
  BY <1>1, ItemOrdered DEF Evident, Backed

\* The steps of the automatic runner between its approval and its result only
\* write its record, and pay.
Inside(i) ==
  FirstCall(i) \/ Apply(i) \/ Seal(i) \/ Send(i) \/ Refused(i) \/ Return(i) \/ Again(i)

LEMMA Became ==
  ASSUME Typed, NEW i \in Invocation, NEW r \in AutoRecord, Becomes(i, r)
  PROVE  /\ auto' \in [Invocation -> AutoRecord] /\ auto'[i] = r
         /\ \A j \in Invocation \ {i} : auto'[j] = auto[j]
BY DEF Typed, Becomes

LEMMA BecameAt ==
  ASSUME Typed, NEW i \in Invocation, NEW step \in StepName, To(i, step)
  PROVE  /\ auto' \in [Invocation -> AutoRecord] /\ auto'[i] = [auto[i] EXCEPT !.step = step]
         /\ \A j \in Invocation \ {i} : auto'[j] = auto[j]
<1>1. [auto[i] EXCEPT !.step = step] \in AutoRecord
  BY DEF Typed, AutoRecord
<1> QED
  BY <1>1, Became DEF To

\* What each of them makes of the record and of the money.
Only(i) ==
  /\ auto' \in [Invocation -> AutoRecord]
  /\ \A j \in Invocation \ {i} : auto'[j] = auto[j]

LEMMA FirstCallDoes ==
  ASSUME Typed, NEW i \in Invocation, FirstCall(i)
  PROVE  /\ Only(i) /\ calls' = calls + 1
         /\ \E cost \in 0 .. Worst : \E estimate \in 0 .. cost :
              spent' = spent + cost /\ uncounted' = uncounted + cost - estimate /\ auto'[i].cost = estimate
         /\ auto'[i].step \in {"apply", "finish"}
         /\ auto'[i].cycles = auto[i].cycles /\ auto'[i].reported = auto[i].reported
<1>1. PICK cost \in 0 .. Worst, turn \in Turn \cup {NoTurn}, estimate \in Nat, step \in {"apply", "finish"} :
        /\ estimate <= cost /\ spent' = spent + cost /\ uncounted' = uncounted + cost - estimate
        /\ Becomes(i, [auto[i] EXCEPT !.mainline = turn, !.cost = estimate, !.step = step])
  <2>1. \A cost \in 0 .. Worst : \A estimate \in 0 .. cost : estimate \in Nat /\ estimate <= cost
    BY CapAssumption
  <2> QED
    BY <2>1 DEF FirstCall, Estimates
<1> DEFINE r == [auto[i] EXCEPT !.mainline = turn, !.cost = estimate, !.step = step]
<1>2. /\ r \in AutoRecord /\ r.cost = estimate /\ r.step = step
      /\ r.cycles = auto[i].cycles /\ r.reported = auto[i].reported
  <2>1. auto[i] \in AutoRecord /\ estimate \in Nat /\ step \in StepName
    BY CapAssumption DEF Typed, StepName
  <2> QED
    BY <2>1 DEF AutoRecord
<1>3. Becomes(i, r)
  BY <1>1
<1> HIDE DEF r
<1>4. Only(i) /\ auto'[i] = r
  BY <1>2, <1>3, Became DEF Only
<1> QED
  BY <1>1, <1>2, <1>4 DEF FirstCall

LEMMA ApplyDoes ==
  ASSUME Typed, NEW i \in Invocation, Apply(i)
  PROVE  /\ Only(i) /\ UNCHANGED <<calls, spent, uncounted>>
         /\ auto'[i].cycles = auto[i].cycles
         /\ \/ auto'[i].step = "finish"
            \/ auto'[i].step = "seal" /\ auto'[i].reported = auto[i].reported + auto[i].cost
<1>1. auto[i] \in AutoRecord
  BY DEF Typed
<1>2. CASE To(i, "finish")
  <2>1. /\ Only(i) /\ auto'[i] = [auto[i] EXCEPT !.step = "finish"]
    BY <1>2, BecameAt DEF StepName, Only
  <2> QED
    BY <1>1, <2>1 DEF Apply, shotVars, AutoRecord
<1>3. CASE ~To(i, "finish")
  <2> DEFINE step == IF auto[i].mainline.output.handoff = "none" THEN "finish" ELSE "seal"
             total == auto[i].reported + auto[i].cost
             r == [auto[i] EXCEPT !.reported = total, !.step = step]
  <2>1. Becomes(i, r)
    BY <1>3 DEF Apply
  <2>2. step \in {"finish", "seal"} /\ step \in StepName /\ total \in Nat
    BY <1>1 DEF StepName, AutoRecord
  <2> HIDE DEF step, total
  <2>3. /\ r \in AutoRecord /\ r.cycles = auto[i].cycles /\ r.step = step
        /\ r.reported = total
    BY <1>1, <2>2 DEF AutoRecord
  <2> HIDE DEF r
  <2>4. Only(i) /\ auto'[i] = r
    BY <2>1, <2>3, Became DEF Only
  <2> QED
    BY <2>2, <2>3, <2>4 DEF Apply, shotVars, total
<1> QED
  BY <1>2, <1>3

LEMMA SealDoes ==
  ASSUME Typed, NEW i \in Invocation, Seal(i)
  PROVE  /\ Only(i) /\ UNCHANGED <<calls, spent, uncounted>>
         /\ auto'[i].step \in {"send", "finish"}
         /\ auto'[i].cycles = auto[i].cycles /\ auto'[i].reported = auto[i].reported
<1> DEFINE step == IF Decision(i) = "ALLOW_AUTO_ADVANCE" THEN "send" ELSE "finish"
           r == [auto[i] EXCEPT !.sealed = edits, !.step = step]
<1>1. Becomes(i, r)
  BY DEF Seal
<1>2. step \in {"send", "finish"} /\ step \in StepName
  BY DEF StepName
<1> HIDE DEF step
<1>3. /\ r \in AutoRecord /\ r.step = step
      /\ r.cycles = auto[i].cycles /\ r.reported = auto[i].reported
  BY <1>2 DEF AutoRecord, Typed
<1> HIDE DEF r
<1>4. Only(i) /\ auto'[i] = r
  BY <1>1, <1>3, Became DEF Only
<1> QED
  BY <1>2, <1>3, <1>4 DEF Seal, shotVars

LEMMA SendDoes ==
  ASSUME Typed, NEW i \in Invocation, Send(i)
  PROVE  /\ Only(i) /\ UNCHANGED <<calls, spent, uncounted>>
         /\ auto'[i].reported = auto[i].reported
         /\ \/ auto'[i].step = "finish"
            \/ auto[i].cycles = 0 /\ auto'[i].step = "return" /\ auto'[i].cycles = 1
<1>1. auto[i] \in AutoRecord
  BY DEF Typed
<1>2. CASE To(i, "finish")
  <2>1. /\ Only(i) /\ auto'[i] = [auto[i] EXCEPT !.step = "finish"]
    BY <1>2, BecameAt DEF StepName, Only
  <2> QED
    BY <1>1, <2>1 DEF Send, shotVars, AutoRecord
<1>3. CASE ~To(i, "finish")
  <2> DEFINE step == IF auto[i].cycles = 0 THEN "return" ELSE "finish"
             count == auto[i].cycles + 1
             r == [auto[i] EXCEPT !.cycles = count, !.step = step]
  <2>1. Becomes(i, r)
    BY <1>3 DEF Send
  <2>2. /\ step \in StepName /\ count \in Nat
        /\ step = "finish" \/ (auto[i].cycles = 0 /\ step = "return" /\ count = 1)
    BY <1>1 DEF StepName, AutoRecord
  <2> HIDE DEF step, count
  <2>3. /\ r \in AutoRecord /\ r.cycles = count /\ r.step = step
        /\ r.reported = auto[i].reported
    BY <1>1, <2>2 DEF AutoRecord
  <2> HIDE DEF r
  <2>4. Only(i) /\ auto'[i] = r
    BY <2>1, <2>3, Became DEF Only
  <2> QED
    BY <2>2, <2>3, <2>4 DEF Send, shotVars
<1> QED
  BY <1>2, <1>3

LEMMA RefusedDoes ==
  ASSUME Typed, NEW i \in Invocation, Refused(i)
  PROVE  Only(i) /\ UNCHANGED <<calls, spent, uncounted>> /\ auto'[i].step = "finish"
<1>1. Only(i) /\ auto'[i] = [auto[i] EXCEPT !.step = "finish"]
  BY BecameAt DEF Refused, StepName, Only
<1> QED
  BY <1>1 DEF Refused, shotVars, Typed, AutoRecord

LEMMA ReturnDoes ==
  ASSUME Typed, NEW i \in Invocation, Return(i)
  PROVE  /\ Only(i) /\ UNCHANGED <<calls, spent, uncounted>>
         /\ auto'[i].cycles = auto[i].cycles /\ auto'[i].reported = auto[i].reported
         /\ \/ auto'[i].step = "finish"
            \/ auto'[i].step = "again" /\ auto[i].reported + auto'[i].cost <= Cap
<1>1. PICK bound \in Bounds :
        Becomes(i, [auto[i] EXCEPT !.cost = bound, !.step =
                      IF control = "off" \/ auto[i].reported + bound > Cap THEN "finish" ELSE "again"])
  BY DEF Return
<1> DEFINE step == IF control = "off" \/ auto[i].reported + bound > Cap THEN "finish" ELSE "again"
           r == [auto[i] EXCEPT !.cost = bound, !.step = step]
<1>2. bound \in Nat /\ Cap \in Nat /\ auto[i] \in AutoRecord
  BY CapAssumption DEF Typed
<1>3. /\ step \in StepName
      /\ step = "finish" \/ (step = "again" /\ auto[i].reported + bound <= Cap)
  BY <1>2 DEF StepName, AutoRecord
<1>4. Becomes(i, r)
  BY <1>1
<1> HIDE DEF step
<1>5. /\ r \in AutoRecord /\ r.step = step /\ r.cost = bound
      /\ r.cycles = auto[i].cycles /\ r.reported = auto[i].reported
  BY <1>2, <1>3 DEF AutoRecord
<1> HIDE DEF r
<1>6. Only(i) /\ auto'[i] = r
  BY <1>4, <1>5, Became DEF Only
<1> QED
  BY <1>3, <1>5, <1>6 DEF Return, shotVars

LEMMA AgainDoes ==
  ASSUME Typed, NEW i \in Invocation, Again(i)
  PROVE  /\ Only(i) /\ auto'[i].cycles = auto[i].cycles /\ uncounted' = uncounted
         /\ \/ UNCHANGED <<calls, spent>> /\ auto'[i].step = "finish"
            \/ /\ calls' = calls + 1 /\ auto'[i].step \in {"finish", "seal"}
               /\ \E cost \in 0 .. auto[i].cost : spent' = spent + cost
<1>1. auto[i] \in AutoRecord
  BY DEF Typed
<1>2. ASSUME To(i, "finish") PROVE Only(i) /\ auto'[i].cycles = auto[i].cycles /\ auto'[i].step = "finish"
  <2>1. Only(i) /\ auto'[i] = [auto[i] EXCEPT !.step = "finish"]
    BY <1>2, BecameAt DEF StepName, Only
  <2> QED
    BY <1>1, <2>1 DEF AutoRecord
<1>3. CASE To(i, "finish") /\ UNCHANGED <<calls, spent>>
  BY <1>2, <1>3 DEF Again
<1>4. CASE ~(To(i, "finish") /\ UNCHANGED <<calls, spent>>)
  <2>1. PICK cost \in 0 .. auto[i].cost, turn \in Turn \cup {NoTurn}, estimate \in Nat :
          /\ uncounted' = uncounted /\ calls' = calls + 1 /\ spent' = spent + cost
          /\ \/ To(i, "finish")
             \/ Becomes(i, [auto[i] EXCEPT !.mainline = turn, !.reported = @ + estimate, !.step =
                              IF turn.output.handoff = "none" THEN "finish" ELSE "seal"])
    <3>1. \A cost \in 0 .. auto[i].cost : \A estimate \in 0 .. cost : estimate \in Nat
      BY <1>1 DEF AutoRecord
    <3> QED
      BY <1>4, <3>1 DEF Again, Estimates
  <2>2. CASE To(i, "finish")
    BY <1>2, <2>1, <2>2
  <2>3. CASE ~To(i, "finish")
    <3> DEFINE step == IF turn.output.handoff = "none" THEN "finish" ELSE "seal"
               total == auto[i].reported + estimate
               r == [auto[i] EXCEPT !.mainline = turn, !.reported = total, !.step = step]
    <3>1. Becomes(i, r)
      BY <2>1, <2>3
    <3>2. step \in {"finish", "seal"} /\ step \in StepName /\ total \in Nat
      BY <1>1 DEF StepName, AutoRecord
    <3> HIDE DEF step, total
    <3>3. r \in AutoRecord /\ r.cycles = auto[i].cycles /\ r.step = step
      BY <1>1, <3>2 DEF AutoRecord
    <3> HIDE DEF r
    <3>4. Only(i) /\ auto'[i] = r
      BY <3>1, <3>3, Became DEF Only
    <3> QED
      BY <2>1, <3>2, <3>3, <3>4
  <2> QED
    BY <2>2, <2>3
<1> QED
  BY <1>3, <1>4

LEMMA InsideKeeps ==
  ASSUME Typed, NEW i \in Invocation, Inside(i)
  PROVE  /\ Item(i) = "auto" /\ Only(i)
         /\ UNCHANGED <<script, files, run, raced, edits>>
         /\ calls' \in Nat /\ calls' >= calls /\ spent' \in Nat /\ uncounted' \in Nat
<1>1. /\ Worst \in Nat /\ calls \in Nat /\ spent \in Nat /\ uncounted \in Nat /\ auto[i].cost \in Nat
  BY CapAssumption DEF Typed, AutoRecord
<1>2. Item(i) = "auto" /\ UNCHANGED <<script, files, run, raced, edits>>
  BY DEF Inside, Running, shotVars, FirstCall, Apply, Seal, Send, Refused, Return, Again
<1>3. CASE FirstCall(i)
  BY <1>1, <1>2, <1>3, FirstCallDoes
<1>4. CASE Again(i)
  BY <1>1, <1>2, <1>4, AgainDoes
<1>5. CASE Apply(i) \/ Seal(i) \/ Send(i) \/ Refused(i) \/ Return(i)
  BY <1>1, <1>2, <1>5, ApplyDoes, SealDoes, SendDoes, RefusedDoes, ReturnDoes
<1> QED
  BY <1>3, <1>4, <1>5 DEF Inside

LEMMA InsideEvident ==
  ASSUME Evident, NEW i \in Invocation, Inside(i)
  PROVE  Evident'
<1>1. /\ Typed /\ Item(i) = "auto" /\ calls \in Nat
      /\ UNCHANGED <<script, files, run, raced, edits>>
      /\ auto' \in [Invocation -> AutoRecord]
      /\ calls' \in Nat /\ calls' >= calls /\ spent' \in Nat /\ uncounted' \in Nat
  BY InsideKeeps DEF Evident, Typed, Only
<1>2. script = "auto" /\ {"approval", "attempt"} \subseteq files
  BY <1>1, RunningAuto
<1>3. Typed'
  BY <1>1 DEF Typed
<1>4. \A j \in Invocation : Backed(j)'
  BY <1>1 DEF Evident, Backed, Past
<1>5. TraceBacked'
  BY <1>1, <1>2 DEF Evident, TraceBacked, Limit
<1> QED
  BY <1>3, <1>4, <1>5 DEF Evident

LEMMA PrecheckMoves ==
  ASSUME Typed, NEW i \in Invocation, Precheck(i)
  PROVE  /\ Moved(i, "precheck") /\ run[i] # Idle /\ Item(i) = "precheck"
         /\ UNCHANGED <<script, files, calls, raced, auto, spent, uncounted, edits>>
<1>1. Item(i) = "precheck" /\ run[i] # Idle
  BY IdleAt DEF Precheck
<1> QED
  BY <1>1, AdvanceMoves, EndMoves DEF Precheck, autoVars

LEMMA FinishMoves ==
  ASSUME Typed, NEW i \in Invocation, Finish(i)
  PROVE  /\ Moved(i, "result") /\ run'[i] = Idle /\ Item(i) = "auto"
         /\ files' = files \cup {"result"}
         /\ UNCHANGED <<script, calls, raced, spent, uncounted, edits>>
         /\ Only(i) /\ auto'[i] = Start
<1>1. Only(i) /\ auto'[i] = Start
  BY StartTyped, Became DEF Finish, Only
<1> QED
  BY <1>1, EndMoves DEF Finish, Running

\* Every piece of evidence on disk is backed by the steps that had to precede it.
THEOREM EvidentAlways == Spec => []Evident
<1>1. Init => Evident
  <2> SUFFICES ASSUME Init PROVE Evident
    OBVIOUS
  <2>1. Typed
    <3>1. 0 <= Len(Steps(script))
      <4> DEFINE n == Len(Steps(script))
      <4>1. n \in 1 .. 8
        BY ScriptsOrdered DEF Init, ShotInit, Ordered
      <4> HIDE DEF n
      <4>2. 0 <= n
        BY <4>1
      <4> QED
        BY <4>2 DEF n
    <3> QED
      BY <3>1, StartTyped DEF Init, ShotInit, Typed, Idle
  <2>2. \A i \in Invocation : Backed(i)
    BY <2>1, IdleAt DEF Init, ShotInit, Backed
  <2>3. TraceBacked
    BY DEF Init, ShotInit, TraceBacked, Limit
  <2> QED
    BY <2>1, <2>2, <2>3 DEF Evident
<1>2. Evident /\ [Next]_vars => Evident'
  <2> SUFFICES ASSUME Evident, [Next]_vars PROVE Evident'
    OBVIOUS
  <2>0. Typed /\ TraceBacked /\ calls \in Nat /\ spent \in Nat /\ uncounted \in Nat /\ edits \in Nat
        /\ auto \in [Invocation -> AutoRecord]
    BY DEF Evident, Typed
  <2>1. ASSUME NEW i \in Invocation, Shot(i) PROVE Evident'
    BY <2>1, ShotEvident
  <2>2. ASSUME NEW i \in Invocation, Inside(i) PROVE Evident'
    BY <2>2, InsideEvident
  <2>3. ASSUME NEW i \in Invocation, Precheck(i) PROVE Evident'
    <3>1. TraceBacked'
      BY <2>0, <2>3, PrecheckMoves DEF TraceBacked, Limit
    <3> QED
      BY <2>0, <2>3, <3>1, PrecheckMoves, MovesEvident
  <2>4. ASSUME NEW i \in Invocation, Finish(i) PROVE Evident'
    <3>1. script = "auto" /\ {"approval", "attempt"} \subseteq files
      BY <2>0, <2>4, FinishMoves, RunningAuto
    <3>2. TraceBacked'
      BY <2>0, <2>4, <3>1, FinishMoves DEF TraceBacked, Limit
    <3> QED
      BY <2>0, <2>4, <3>2, FinishMoves, MovesEvident DEF Only
  <2>5. CASE Edit \/ Intervene \/ UNCHANGED vars
    <3>1. /\ UNCHANGED <<script, files, calls, run, spent, uncounted, auto>>
          /\ edits' \in Nat
      BY <2>0, <2>5 DEF Edit, Intervene, vars, shotVars, autoVars
    <3> QED
      BY <2>0, <3>1 DEF Evident, Typed, Backed, Past, TraceBacked, Limit
  <2> QED
    BY <2>1, <2>2, <2>3, <2>4, <2>5 DEF Next, AutoStep, Inside
<1> QED
  BY <1>1, <1>2, PTL DEF Spec

\* The files tell the truth about the call at every moment a process can die.
THEOREM TracesAlwaysBacked == Spec => []TraceBacked
<1>1. Evident => TraceBacked
  BY DEF Evident
<1> QED
  BY <1>1, EvidentAlways, PTL

(***************************************************************************)
(* The money                                                               *)
(***************************************************************************)

\* What a record of the automatic runner says of n calls that cost m, of which u was
\* not counted: what it reports, or is about to, is all but that.
Funded(a, n, m, u) ==
  /\ a.step = "call" => n = 0 /\ a = Start
  /\ a.step = "apply" => n = 1 /\ m = a.cost + u /\ a.reported = 0 /\ a.cycles = 0
  /\ a.step \in {"seal", "send"} => (a.cycles = 0 /\ n = 1 /\ m = a.reported + u) \/ a.cycles = 1
  /\ a.step = "return" => n = 1 /\ m = a.reported + u /\ a.cycles = 1
  /\ a.step = "again" => n = 1 /\ m = a.reported + u /\ a.reported + a.cost <= Cap /\ a.cycles = 1

\* An invocation that has not called yet finds nothing paid.
Within(i) == IF Item(i) = "auto" THEN Funded(auto[i], calls, spent, uncounted) ELSE calls = 0

Alone == \A i, j \in Invocation : run[i] # Idle /\ run[j] # Idle => i = j

Resting == \A i \in Invocation : Item(i) # "auto" => auto[i] = Start

Unpaid ==
  /\ script \notin Reviewer \cup {"auto"} => calls = 0
  /\ script # "auto" => spent = 0
  /\ calls = 0 => spent = 0 /\ uncounted = 0

Single ==
  script \in Reviewer =>
    calls <= 1 /\ \A i \in Invocation : run[i] # Idle /\ ~Past(i, "call") => calls = 0

Capped ==
  script = "auto" =>
    calls <= 2 /\ spent <= Cap + uncounted /\ \A i \in Invocation : run[i] # Idle => Within(i)

Paid == Resting /\ Unpaid /\ (~raced => Alone /\ Single /\ Capped)

LEMMA SameItem ==
  ASSUME UNCHANGED script, NEW j \in Invocation, run'[j] = run[j]
  PROVE  Item(j)' = Item(j) /\ \A x : Past(j, x)' <=> Past(j, x)
BY DEF Item, Past

\* Wherever the runner is, its next step keeps the calls and their cost within
\* the limits: the second call's worst case was held against what the first reported.
LEMMA InsideFunded ==
  ASSUME Typed, NEW i \in Invocation, Inside(i), Funded(auto[i], calls, spent, uncounted),
         calls <= 2, spent <= Cap + uncounted, calls = 0 => spent = 0 /\ uncounted = 0
  PROVE  /\ calls' <= 2 /\ spent' <= Cap + uncounted' /\ (calls' = 0 => spent' = 0 /\ uncounted' = 0)
         /\ Funded(auto'[i], calls', spent', uncounted')
<1>1. /\ Worst \in Nat /\ Cap \in Nat /\ Worst <= Cap /\ calls \in Nat /\ spent \in Nat
      /\ uncounted \in Nat /\ auto[i].cost \in Nat /\ auto[i].reported \in Nat
      /\ Start.step = "call" /\ Start.cycles = 0 /\ Start.reported = 0
  BY CapAssumption DEF Typed, AutoRecord, Start
<1>2. CASE FirstCall(i)
  <2>1. auto[i].step = "call"
    BY <1>2 DEF FirstCall, Running
  <2>2. calls = 0 /\ spent = 0 /\ uncounted = 0 /\ auto[i].cycles = 0 /\ auto[i].reported = 0
    BY <1>1, <2>1 DEF Funded
  <2>3. PICK cost \in 0 .. Worst, estimate \in Nat :
          estimate <= cost /\ spent' = spent + cost /\ uncounted' = uncounted + cost - estimate /\ auto'[i].cost = estimate
    BY <1>2, FirstCallDoes
  <2> QED
    BY <1>1, <1>2, <2>2, <2>3, FirstCallDoes DEF Funded
<1>3. CASE Apply(i)
  <2>1. auto[i].step = "apply"
    BY <1>3 DEF Apply, Running
  <2> QED
    BY <1>1, <1>3, <2>1, ApplyDoes DEF Funded
<1>4. CASE Seal(i)
  <2>1. auto[i].step = "seal"
    BY <1>4 DEF Seal, Running
  <2> QED
    BY <1>1, <1>4, <2>1, SealDoes DEF Funded
<1>5. CASE Send(i)
  <2>1. auto[i].step = "send"
    BY <1>5 DEF Send, Running
  <2> QED
    BY <1>1, <1>5, <2>1, SendDoes DEF Funded
<1>6. CASE Refused(i)
  BY <1>1, <1>6, RefusedDoes DEF Funded
<1>7. CASE Return(i)
  <2>1. auto[i].step = "return"
    BY <1>7 DEF Return, Running
  <2> QED
    BY <1>1, <1>7, <2>1, ReturnDoes DEF Funded
<1>8. CASE Again(i)
  <2>1. auto[i].step = "again"
    BY <1>8 DEF Again, Running
  <2>2. calls = 1 /\ spent + auto[i].cost <= Cap + uncounted /\ auto[i].cycles = 1
    BY <1>1, <2>1 DEF Funded
  <2> QED
    BY <1>1, <1>8, <2>2, AgainDoes DEF Funded
<1> QED
  BY <1>2, <1>3, <1>4, <1>5, <1>6, <1>7, <1>8 DEF Inside

LEMMA InsidePaid ==
  ASSUME Evident, Paid, NEW i \in Invocation, Inside(i)
  PROVE  Paid'
<1>1. /\ Typed /\ Item(i) = "auto" /\ Only(i)
      /\ UNCHANGED <<script, files, run, raced, edits>>
      /\ calls \in Nat /\ spent \in Nat /\ calls' \in Nat /\ calls' >= calls
      /\ spent' \in Nat /\ uncounted \in Nat /\ uncounted' \in Nat
  BY InsideKeeps DEF Evident, Typed
<1>2. script = "auto" /\ run[i] # Idle
  BY <1>1, RunningAuto
<1>3. \A j \in Invocation : Item(j)' = Item(j)
  BY <1>1, SameItem
<1>4. Resting'
  BY <1>1, <1>3 DEF Paid, Resting, Only
<1>5. calls' = 0 => spent' = 0 /\ uncounted' = 0
  <2>1. CASE UNCHANGED <<calls, spent, uncounted>>
    BY <2>1 DEF Paid, Unpaid
  <2>2. CASE calls' = calls + 1
    BY <1>1, <2>2
  <2> QED
    BY <1>1, <2>1, <2>2, FirstCallDoes, ApplyDoes, SealDoes, SendDoes, RefusedDoes,
       ReturnDoes, AgainDoes DEF Inside
<1>6. Unpaid'
  BY <1>1, <1>2, <1>5 DEF Unpaid, Reviewer
<1>7. ASSUME ~raced' PROVE Alone' /\ Single' /\ Capped'
  <2>1. Alone /\ Single /\ Capped
    BY <1>1, <1>7 DEF Paid
  <2>2. Funded(auto[i], calls, spent, uncounted) /\ calls <= 2 /\ spent <= Cap + uncounted
    BY <1>1, <1>2, <2>1 DEF Capped, Within
  <2>3. calls' <= 2 /\ spent' <= Cap + uncounted' /\ Funded(auto'[i], calls', spent', uncounted')
    BY <1>1, <2>2, InsideFunded DEF Paid, Unpaid
  <2>4. \A j \in Invocation : run'[j] # Idle => j = i
    BY <1>1, <1>2, <2>1 DEF Alone
  <2>5. Within(i)'
    BY <1>1, <1>3, <2>3 DEF Within
  <2>6. Capped'
    BY <2>3, <2>4, <2>5 DEF Capped
  <2>7. Alone' /\ Single'
    BY <1>1, <1>2, <2>1 DEF Alone, Single, Reviewer
  <2> QED
    BY <2>6, <2>7
<1> QED
  BY <1>4, <1>6, <1>7 DEF Paid

LEMMA BeginPaid ==
  ASSUME Evident, Paid, NEW i \in Invocation, Shot(i), Begin(i)
  PROVE  Paid'
<1>1. /\ Typed /\ calls \in Nat /\ run[i] = Idle
      /\ run' = [run EXCEPT ![i] = [Idle EXCEPT !.at = 1]]
      /\ UNCHANGED <<script, files, calls>>
      /\ raced' = (raced \/ \E j \in Invocation : run[j] # Idle)
  BY DEF Evident, Typed, Begin
<1>2. /\ run'[i].at = 1 /\ run'[i] # Idle
      /\ \A j \in Invocation \ {i} : run'[j] = run[j]
      /\ \A x : ~Prior(script, run'[i].at, x)
  BY <1>1, BeginMoves
<1>3. /\ spent' = spent /\ uncounted' = uncounted
      /\ auto'[i] = auto[i] /\ \A j \in Invocation \ {i} : auto'[j] = auto[j]
  BY <1>1, <1>2, ShotKeepsAuto
<1>4. \A j \in Invocation \ {i} : Item(j)' = Item(j)
  BY <1>1, <1>2, SameItem
<1>5. auto[i] = Start
  BY <1>1, IdleAt DEF Paid, Resting
<1>6. Resting'
  BY <1>3, <1>4, <1>5 DEF Paid, Resting
<1>7. Unpaid'
  BY <1>1, <1>3 DEF Paid, Unpaid
<1>8. script \in Reviewer \cup {"auto"} => calls = 0
  <2>1. script \in Reviewer \cup {"auto"} => "attempt" \in Guard(script)
    BY <1>1, ScriptsOrdered DEF Typed, Ordered
  <2>2. Guard(script) \cap files = {}
    BY DEF Begin
  <2>3. calls > 0 => "attempt" \in files
    BY DEF Evident, TraceBacked
  <2> QED
    BY <1>1, <2>1, <2>2, <2>3
<1>9. ASSUME ~raced' PROVE Alone' /\ Single' /\ Capped'
  <2>1. ~raced /\ \A j \in Invocation : run[j] = Idle
    BY <1>1, <1>9
  <2>2. \A j \in Invocation : run'[j] # Idle => j = i
    BY <1>2, <2>1
  <2>3. Alone'
    BY <2>2 DEF Alone
  <2>4. Single'
    BY <1>1, <1>8 DEF Single
  <2>5. Item(i)' # "auto"
    <3>1. Item(i)' = Steps(script)[1]
      BY <1>1, <1>2 DEF Item
    <3>2. 1 \in 1 .. Len(Steps(script))
      <4> DEFINE n == Len(Steps(script))
      <4>1. n \in 1 .. 8
        BY <1>1, ScriptsOrdered DEF Typed, Ordered
      <4> HIDE DEF n
      <4>2. 1 \in 1 .. n
        BY <4>1
      <4> QED
        BY <4>2 DEF n
    <3>3. Steps(script)[1] = "auto" => Prior(script, 1, "attempt")
      BY <1>1, <3>2, ScriptsOrdered DEF Typed, Ordered
    <3> QED
      BY <3>1, <3>3, NothingBefore
  <2>6. Within(i)' <=> calls' = 0
    BY <2>5 DEF Within
  <2>7. Capped'
    <3>1. calls = 0 => spent = 0 /\ uncounted = 0
      BY DEF Paid, Unpaid
    <3> QED
      BY <1>1, <1>3, <1>8, <2>2, <2>6, <3>1, CapAssumption DEF Capped
  <2> QED
    BY <2>3, <2>4, <2>7
<1> QED
  BY <1>6, <1>7, <1>9 DEF Paid

LEMMA ShotPaid ==
  ASSUME Evident, Paid, NEW i \in Invocation, Shot(i), ~Begin(i)
  PROVE  Paid'
<1>1. /\ Typed /\ calls \in Nat /\ UNCHANGED <<script, raced, spent, uncounted>>
      /\ calls' = calls \/ Call(i)
  BY DEF Evident, Typed, Shot, ShotStep, Verify, Write, Call, Capture, Compare, Raise, Kill
<1>2. PICK x : Moved(i, x) /\ (run'[i] # Idle => x = Item(i) /\ x # "auto")
  BY <1>1, ShotMoves DEF Shot
<1>3. run[i] # Idle
  BY <1>1, ShotMoves DEF Shot
<1>4. /\ auto'[i] = IF run'[i] = Idle THEN Start ELSE auto[i]
      /\ \A j \in Invocation \ {i} : auto'[j] = auto[j]
  BY <1>1, ShotKeepsAuto
<1>5. \A j \in Invocation \ {i} : run'[j] = run[j] /\ Item(j)' = Item(j)
  BY <1>1, <1>2, SameItem DEF Moved
<1>6. ASSUME run'[i] # Idle
      PROVE  /\ Item(i) # "auto" /\ auto'[i] = Start
             /\ \A y : Past(i, y)' <=> Past(i, y) \/ y = Item(i)
  <2>1. Item(i) # "auto" /\ auto[i] = Start
    BY <1>2, <1>6 DEF Paid, Resting
  <2>2. \A y : Prior(script, run'[i].at, y) <=> Past(i, y) \/ y = Item(i)
    BY <1>2, <1>6 DEF Moved
  <2> QED
    BY <1>1, <1>4, <1>6, <2>1, <2>2 DEF Past
<1>7. Call(i) => Item(i) = "call" /\ script \in Reviewer /\ ~Past(i, "call") /\ calls' = calls + 1
  BY <1>1, <1>3, ItemOrdered DEF Call
<1>8. Resting'
  BY <1>4, <1>5, <1>6 DEF Paid, Resting
<1>9. Unpaid'
  BY <1>1, <1>7 DEF Paid, Unpaid, Reviewer
<1>10. ASSUME ~raced' PROVE Alone' /\ Single' /\ Capped'
  <2>1. Alone /\ Single /\ Capped
    BY <1>1, <1>10 DEF Paid
  <2>2. \A j \in Invocation : run'[j] # Idle => j = i
    BY <1>3, <1>5, <2>1 DEF Alone
  <2>3. Alone'
    BY <2>2 DEF Alone
  <2>4. Single'
    <3>1. SUFFICES ASSUME script \in Reviewer
                   PROVE  /\ calls' <= 1
                          /\ run'[i] # Idle /\ ~Past(i, "call")' => calls' = 0
      BY <1>1, <2>2 DEF Single
    <3>2. CASE Call(i)
      BY <1>1, <1>3, <1>6, <1>7, <2>1, <3>1, <3>2 DEF Single
    <3>3. CASE calls' = calls
      BY <1>1, <1>3, <1>6, <2>1, <3>1, <3>3 DEF Single
    <3> QED
      BY <1>1, <3>2, <3>3
  <2>5. Capped'
    <3>1. SUFFICES ASSUME script = "auto"
                   PROVE  calls' <= 2 /\ spent' <= Cap + uncounted' /\ (run'[i] # Idle => Within(i)')
      BY <1>1, <2>2 DEF Capped
    <3>2. calls' = calls
      BY <1>1, <1>7, <3>1 DEF Reviewer
    <3>3. calls <= 2 /\ spent <= Cap + uncounted /\ Within(i)
      BY <1>3, <2>1, <3>1 DEF Capped
    <3>4. ASSUME run'[i] # Idle PROVE Within(i)'
      <4>1. calls = 0 /\ spent = 0 /\ uncounted = 0 /\ auto'[i] = Start
        BY <1>6, <3>3, <3>4 DEF Within, Paid, Unpaid
      <4>2. Funded(Start, 0, 0, 0)
        BY DEF Funded, Start
      <4> QED
        BY <1>1, <3>2, <4>1, <4>2 DEF Within
    <3> QED
      BY <1>1, <3>2, <3>3, <3>4
  <2> QED
    BY <2>3, <2>4, <2>5
<1> QED
  BY <1>8, <1>9, <1>10 DEF Paid

\* An invocation that leaves the script, before the approval or after the
\* result, leaves the money as it is.
LEMMA PrecheckPaid ==
  ASSUME Evident, Paid, NEW i \in Invocation, Precheck(i)
  PROVE  Paid'
<1>1. /\ Typed /\ calls \in Nat /\ Moved(i, "precheck") /\ run[i] # Idle /\ Item(i) = "precheck"
      /\ UNCHANGED <<script, files, calls, raced, auto, spent, uncounted, edits>>
  BY PrecheckMoves DEF Evident, Typed
<1>2. \A j \in Invocation \ {i} : run'[j] = run[j] /\ Item(j)' = Item(j)
  BY <1>1, SameItem DEF Moved
<1>3. auto[i] = Start
  BY <1>1 DEF Paid, Resting
<1>4. Resting' /\ Unpaid'
  BY <1>1, <1>2, <1>3 DEF Paid, Resting, Unpaid
<1>5. ASSUME ~raced' PROVE Alone' /\ Single' /\ Capped'
  <2>1. Alone /\ Single /\ Capped
    BY <1>1, <1>5 DEF Paid
  <2>2. \A j \in Invocation : run'[j] # Idle => j = i
    BY <1>1, <1>2, <2>1 DEF Alone
  <2>3. Alone'
    BY <2>2 DEF Alone
  <2>4. Single'
    <3>1. run'[i] # Idle => (Past(i, "call")' <=> Past(i, "call"))
      BY <1>1 DEF Moved, Past
    <3> QED
      BY <1>1, <2>1, <2>2, <3>1 DEF Single
  <2>5. Capped'
    <3>1. script = "auto" => calls = 0 /\ spent = 0 /\ uncounted = 0
      BY <1>1, <2>1 DEF Capped, Within, Paid, Unpaid
    <3>2. Funded(Start, 0, 0, 0)
      BY DEF Funded, Start
    <3>3. script = "auto" => Within(i)'
      BY <1>1, <1>3, <3>1, <3>2 DEF Within
    <3> QED
      BY <1>1, <2>1, <2>2, <3>3 DEF Capped
  <2> QED
    BY <2>3, <2>4, <2>5
<1> QED
  BY <1>4, <1>5 DEF Paid

LEMMA FinishPaid ==
  ASSUME Evident, Paid, NEW i \in Invocation, Finish(i)
  PROVE  Paid'
<1>1. /\ Typed /\ Moved(i, "result") /\ run'[i] = Idle /\ Item(i) = "auto"
      /\ UNCHANGED <<script, calls, raced, spent, uncounted, edits>>
      /\ Only(i) /\ auto'[i] = Start
  BY FinishMoves DEF Evident
<1>2. script = "auto" /\ run[i] # Idle
  BY <1>1, RunningAuto
<1>3. \A j \in Invocation \ {i} : run'[j] = run[j] /\ Item(j)' = Item(j)
  BY <1>1, SameItem DEF Moved
<1>4. Resting' /\ Unpaid'
  BY <1>1, <1>3 DEF Paid, Resting, Unpaid, Only
<1>5. ASSUME ~raced' PROVE Alone' /\ Single' /\ Capped'
  <2>1. Alone /\ Capped
    BY <1>1, <1>5 DEF Paid
  <2>2. \A j \in Invocation : run'[j] = Idle
    BY <1>1, <1>2, <1>3, <2>1 DEF Alone
  <2> QED
    BY <1>1, <1>2, <2>1, <2>2 DEF Alone, Single, Capped, Reviewer
<1> QED
  BY <1>4, <1>5 DEF Paid

\* Who runs, who has paid and what it may still spend, where no two invocations race.
THEOREM PaidAlways == Spec => []Paid
<1>1. Init => Paid
  <2> SUFFICES ASSUME Init PROVE Paid
    OBVIOUS
  <2>1. /\ calls = 0 /\ spent = 0 /\ uncounted = 0 /\ \A i \in Invocation : run[i] = Idle /\ auto[i] = Start
    BY DEF Init, ShotInit
  <2> QED
    BY <2>1, CapAssumption DEF Paid, Resting, Unpaid, Alone, Single, Capped
<1>2. Evident /\ Paid /\ [Next]_vars => Paid'
  <2> SUFFICES ASSUME Evident, Paid, [Next]_vars PROVE Paid'
    OBVIOUS
  <2>1. ASSUME NEW i \in Invocation, Shot(i) PROVE Paid'
    BY <2>1, BeginPaid, ShotPaid
  <2>2. ASSUME NEW i \in Invocation, Inside(i) PROVE Paid'
    BY <2>2, InsidePaid
  <2>3. ASSUME NEW i \in Invocation, Precheck(i) PROVE Paid'
    BY <2>3, PrecheckPaid
  <2>4. ASSUME NEW i \in Invocation, Finish(i) PROVE Paid'
    BY <2>4, FinishPaid
  <2>5. CASE Edit \/ Intervene \/ UNCHANGED vars
    <3>1. UNCHANGED <<script, calls, run, raced, spent, uncounted, auto>>
      BY <2>5 DEF Edit, Intervene, vars, shotVars, autoVars
    <3> QED
      BY <3>1 DEF Paid, Resting, Unpaid, Alone, Single, Capped, Item, Past, Within
  <2> QED
    BY <2>1, <2>2, <2>3, <2>4, <2>5 DEF Next, AutoStep, Inside
<1> QED
  BY <1>1, <1>2, EvidentAlways, PTL DEF Spec

\* One approval is paid for once, and by the automatic runner twice, unless two
\* invocations passed the first check together.
THEOREM PaidAtMostOnce == Spec => []PaidOnce
<1>1. Evident /\ Paid => PaidOnce
  BY LimitIs DEF Evident, Typed, Paid, Unpaid, Single, Capped, PaidOnce, Limit
<1> QED
  BY <1>1, EvidentAlways, PaidAlways, PTL

\* What the calls of one approval cost passes its cap by no more than the usage of the
\* first answer left uncounted.
THEOREM CostAlwaysWithinCap == Spec => []CostWithinCap
<1>1. Evident /\ Paid => CostWithinCap
  BY CapAssumption DEF Evident, Typed, Paid, Unpaid, Capped, CostWithinCap
<1> QED
  BY <1>1, EvidentAlways, PaidAlways, PTL
=============================================================================
