-------------------------- MODULE CycleReview_proofs --------------------------
(***************************************************************************)
(* The two halves of a review by hand.  For every set of reviews and       *)
(* outputs, every inventory of requirements and every catalog: the two     *)
(* controllers route a review alike, and the policy follows the validation *)
(* that fed it.  The first follows from what a review that passed the      *)
(* pipeline has been accepted for, which is the pipeline's invariant.  And *)
(* for every set of messages, any number of decisions, captures, edits and *)
(* torn writes: a candidate shows its reviewer one whole cycle.  That      *)
(* follows from what a sealed packet holds, from the hash of a packet      *)
(* file, which no edit changes, and from the one thing assumed of the      *)
(* search for the manual review: a text without a line break is found.     *)
(***************************************************************************)
EXTENDS CycleReview, SequenceTheorems, WellFoundedInduction, TLAPS

(***************************************************************************)
(* The judgements, as facts about any review                               *)
(***************************************************************************)

\* The facts that validate_routing asks of a gate derive that gate again.
LEMMA RoutingIsDerived ==
  ASSUME NEW gate \in Gate, NEW facts, ValidRouting(gate, facts)
  PROVE DerivedGate(facts) = gate
<1>1. CASE gate = "STOP"
  BY <1>1 DEF ValidRouting, DerivedGate
<1>2. CASE gate = "USER_REQUIRED"
  BY <1>2 DEF ValidRouting, DerivedGate
<1>3. CASE gate = "SAFE_CONTINUE"
  BY <1>3 DEF ValidRouting, DerivedGate
<1>4. CASE gate = "BLOCKED"
  BY <1>4 DEF ValidRouting, DerivedGate
<1> QED
  BY <1>1, <1>2, <1>3, <1>4 DEF Gate

\* What each of gate.py's validators adds for a review that lets work go on.
LEMMA ContinuationBacked ==
  ASSUME NEW rev, NEW expected, NEW catalog,
         rev.version = "2.4", rev.gate = "SAFE_CONTINUE",
         Accepts(rev, expected, catalog)
  PROVE  \/ /\ Unresolved(rev) # {}
            /\ rev.transition = "CONTINUE_CURRENT_TASK"
            /\ rev.basis = "UNRESOLVED_REQUIREMENT"
            /\ rev.refs # {}
            /\ Addressed(rev) # {}
            /\ Addressed(rev) \subseteq Unresolved(rev)
         \/ /\ Unresolved(rev) = {}
            /\ rev.transition = "ADVANCE_AUTHORIZED_PLAN"
            /\ rev.basis \in {"FROZEN_NEXT_STEP", "APPROVED_PLAN_ITEM"}
            /\ rev.refs # {}
            /\ \A ref \in rev.refs : ref \in DOMAIN catalog /\ catalog[ref] = rev.basis
<1>1. rev.instruction
  BY DEF Accepts, PacketsFit
<1>2. TaskAligned(rev, expected) /\ AuthorityBacked(rev, catalog)
  BY DEF Accepts
<1>3. CASE Unresolved(rev) # {}
  <2>1. /\ rev.transition = "CONTINUE_CURRENT_TASK"
        /\ rev.basis = "UNRESOLVED_REQUIREMENT" /\ rev.refs # {}
    BY <1>2, <1>3 DEF AuthorityBacked
  <2>2. ~AuthorizedAdvance(rev)
    BY <1>3 DEF AuthorizedAdvance
  <2>3. rev.addresses # {} /\ rev.addresses \subseteq Unresolved(rev)
    BY <1>1, <1>2, <2>2 DEF TaskAligned
  <2> QED
    BY <1>1, <1>3, <2>1, <2>3 DEF Addressed
<1>4. CASE Unresolved(rev) = {}
  BY <1>2, <1>4 DEF AuthorityBacked
<1> QED
  BY <1>3, <1>4

\* An accepted handoff satisfies the contract of the advance policy.
LEMMA HandoffSatisfies ==
  ASSUME NEW output, NEW rev, NEW expected, NEW catalog,
         ValidContinuation(output, rev, expected, catalog),
         output.action = "HANDOFF_CODEX"
  PROVE  /\ EvidenceOf(output, rev).gate = "SAFE_CONTINUE"
         /\ EvidenceOf(output, rev).blocker = FALSE
         /\ ContractSatisfied(EvidenceOf(output, rev))
<1>1. output.gate = "SAFE_CONTINUE" /\ output.blocker = "none"
  BY DEF ValidContinuation, ValidOutput
<1>2. /\ rev.version = "2.4" /\ Accepts(rev, expected, catalog)
      /\ rev.gate = "SAFE_CONTINUE" /\ rev.facts.kind = "BOUNDED_TASK"
  BY <1>1 DEF ValidContinuation
<1> QED
  BY <1>1, <1>2, ContinuationBacked DEF EvidenceOf, ContractSatisfied

\* The policy, for an accepted handoff: only the cycle limit and the cap are
\* left to stop it, whatever the cycles, the costs and the cap are.
THEOREM OnlyLimitsStop ==
  ASSUME NEW output, NEW r, NEW expected, NEW catalog,
         NEW cycles \in Nat, NEW spent \in Nat, NEW next \in Nat, NEW cap \in Nat,
         ValidContinuation(output, r, expected, catalog), output.action = "HANDOFF_CODEX"
  PROVE  AdvanceDecision(EvidenceOf(output, r), cycles, spent, next, cap) =
           IF cycles >= MAX_AUTO_CYCLES THEN "AUTO_CYCLE_LIMIT_REACHED"
           ELSE IF spent + next > cap THEN "CUMULATIVE_COST_CAP_EXCEEDED" ELSE "ALLOW_AUTO_ADVANCE"
<1> DEFINE evidence == EvidenceOf(output, r)
           contract == ContractSatisfied(evidence)
<1>1. evidence.gate = "SAFE_CONTINUE" /\ evidence.blocker = FALSE /\ contract = TRUE
  BY HandoffSatisfies DEF ContractSatisfied
<1>2. AdvanceDecision(evidence, cycles, spent, next, cap) =
        IF cycles >= MAX_AUTO_CYCLES THEN "AUTO_CYCLE_LIMIT_REACHED"
        ELSE IF spent + next > cap THEN "CUMULATIVE_COST_CAP_EXCEEDED" ELSE "ALLOW_AUTO_ADVANCE"
  <2> HIDE DEF evidence, contract
  <2>1. CASE cycles >= MAX_AUTO_CYCLES
    BY <2>1 DEF AdvanceDecision, MAX_AUTO_CYCLES
  <2>2. CASE ~(cycles >= MAX_AUTO_CYCLES) /\ spent + next > cap
    BY <1>1, <2>2 DEF AdvanceDecision, MAX_AUTO_CYCLES, contract
  <2>3. CASE ~(cycles >= MAX_AUTO_CYCLES) /\ ~(spent + next > cap)
    BY <1>1, <2>3 DEF AdvanceDecision, MAX_AUTO_CYCLES, contract
  <2> QED
    BY <2>1, <2>2, <2>3
<1> QED
  BY <1>2

LEMMA Routes ==
  ASSUME NEW r, NEW expected, NEW catalog
  PROVE  RoutedAlike(r, expected, catalog)
BY RoutingIsDerived DEF RoutedAlike, Accepts

LEMMA Advances ==
  ASSUME NEW output, NEW r, NEW expected, NEW catalog
  PROVE  HandoffAdvances(output, r, expected, catalog)
<1> SUFFICES ASSUME ValidContinuation(output, r, expected, catalog), output.action = "HANDOFF_CODEX",
                    NEW cycles \in 0..1, NEW spent \in 0..2, NEW next \in 0..2, NEW cap \in 0..2
             PROVE  AdvanceDecision(EvidenceOf(output, r), cycles, spent, next, cap)
                      = IF spent + next > cap THEN "CUMULATIVE_COST_CAP_EXCEEDED" ELSE "ALLOW_AUTO_ADVANCE"
  BY DEF HandoffAdvances
<1>1. cycles \in Nat /\ spent \in Nat /\ next \in Nat /\ cap \in Nat
  OBVIOUS
<1>2. AdvanceDecision(EvidenceOf(output, r), cycles, spent, next, cap) =
        IF cycles >= MAX_AUTO_CYCLES THEN "AUTO_CYCLE_LIMIT_REACHED"
        ELSE IF spent + next > cap THEN "CUMULATIVE_COST_CAP_EXCEEDED" ELSE "ALLOW_AUTO_ADVANCE"
  BY <1>1, OnlyLimitsStop
<1>3. ~(cycles >= MAX_AUTO_CYCLES)
  BY DEF MAX_AUTO_CYCLES
<1> QED
  BY <1>2, <1>3

(***************************************************************************)
(* The pipeline                                                            *)
(***************************************************************************)

\* What has passed was accepted, and nothing that was judged is answered
\* again: the approval is consumed before an answer is there.
Judged ==
  /\ consumed \in BOOLEAN /\ captured \in BOOLEAN
  /\ ~consumed => answer = NoAnswer
  /\ answer = NoAnswer => outcome = "none"
  /\ outcome = "PASS" => Accepts(review, Expected, NoCatalog)

\* parse_response passes what the review contracts accept, and nothing else.
LEMMA PassIsAccepted ==
  ASSUME NEW a, NEW r, ParseOutcome(a, r) = "PASS"
  PROVE  Accepts(r, Expected, NoCatalog)
<1> DEFINE accepted == Accepts(r, Expected, NoCatalog)
<1> SUFFICES accepted
  OBVIOUS
<1> HIDE DEF accepted
<1> QED
  BY DEF ParseOutcome, accepted

LEMMA JudgedInit == Init => Judged
BY DEF Init, Judged

LEMMA JudgedStep == Judged /\ [Next]_vars => Judged'
<1> SUFFICES ASSUME Judged, [Next]_vars PROVE Judged'
  OBVIOUS
<1>1. CASE Call
  BY <1>1 DEF Call, Judged
<1>2. CASE Capture
  <2>1. Unreadable(answer) # "PASS"
    BY DEF Unreadable
  <2> QED
    BY <1>2, <2>1 DEF Capture, Judged
<1>3. CASE Parse
  BY <1>3, PassIsAccepted DEF Parse, Judged
<1>4. CASE UNCHANGED vars
  BY <1>4 DEF vars, Judged
<1> QED
  BY <1>1, <1>2, <1>3, <1>4 DEF Next

\* What has passed was accepted: the inductive invariant of the pipeline.
THEOREM JudgedOnce == Spec => []Judged
BY JudgedInit, JudgedStep, PTL DEF Spec

\* A review that passed is routed alike by both controllers: the gate it
\* carries is the one route_from_facts derives.
THEOREM RoutesAlwaysAgree == Spec => []RoutesAgree
<1>1. Judged => RoutesAgree
  BY Routes DEF RoutesAgree
<1> QED
  BY <1>1, JudgedOnce, PTL

\* The advance policy never contradicts the validation that fed it.
THEOREM HandoffsAlwaysAdvance == Spec => []HandoffsAdvance
<1>1. Judged => HandoffsAdvance
  BY Advances DEF HandoffsAdvance
<1> QED
  BY <1>1, JudgedOnce, PTL

(***************************************************************************)
(* Packets of a cycle                                                      *)
(***************************************************************************)

\* The messages a packet was made of.
MessagesOf(records) == [i \in DOMAIN records |-> records[i].message]

\* A sealed packet holds nothing but a cycle its capture could select.
Whole(s) ==
    LET selected == MessagesOf(s.body.records)
        n == Len(selected)
    IN /\ selected \in Seq(s.messages) /\ n >= 3
       /\ \A i \in 1 .. n : selected[i].seq \in Nat
       /\ s.body.records = Records(selected)
       /\ s.body.cycle = selected[1].cycle
       /\ s.body.revision \in Nat \ {0}
       /\ Selectable(s.messages, selected[1], SubSeq(selected, 2, n - 2), selected[n - 1], selected[n])

SealedOK == \A s \in sealed : Whole(s) /\ Lineage(s.body)

\* Whatever an edit did to a packet file, its hash is of a packet that was sealed.
FilesOK ==
    /\ file = [p \in Path |-> file[p]]
    /\ \A p \in Path : file[p].kind = "packet" =>
        /\ file[p] = [kind |-> "packet", body |-> file[p].body, hash |-> file[p].hash]
        /\ \E s \in sealed : s.body = file[p].hash

HandoffInv ==
    /\ export \subseteq Message /\ FilesOK /\ SealedOK
    /\ ReviewedIsWhole /\ EquivalentIsCapturable

LEMMA Layout ==
    ASSUME NEW S, NEW task \in S, NEW report \in S, NEW manual \in S, NEW d \in Seq(S)
    PROVE  LET s == <<task>> \o d \o <<report, manual>> IN
           /\ s \in Seq(S) /\ Len(s) = Len(d) + 3 /\ DOMAIN s = 1 .. Len(d) + 3
           /\ s[1] = task /\ s[Len(d) + 2] = report /\ s[Len(d) + 3] = manual
           /\ \A i \in 1 .. Len(d) : s[i + 1] = d[i]
<1> DEFINE a == <<task>>
           c == <<report, manual>>
           b == a \o d
           s == b \o c
<1>1. /\ a \in Seq(S) /\ Len(a) = 1 /\ a[1] = task
      /\ c \in Seq(S) /\ Len(c) = 2 /\ c[1] = report /\ c[2] = manual
    OBVIOUS
<1>2. Len(d) \in Nat
    BY LenProperties
<1> HIDE DEF a, c
<1>3. b \in Seq(S) /\ Len(b) = Len(d) + 1 /\ b[1] = task /\ \A i \in 1 .. Len(d) : b[i + 1] = d[i]
    <2>1. /\ b \in Seq(S) /\ Len(b) = 1 + Len(d)
          /\ \A i \in 1 .. 1 + Len(d) : b[i] = IF i <= 1 THEN a[i] ELSE d[i - 1]
        BY <1>1, ConcatProperties
    <2> HIDE DEF b
    <2> QED
        BY <1>1, <1>2, <2>1
<1> HIDE DEF b
<1>4. /\ s \in Seq(S) /\ Len(s) = Len(d) + 3
      /\ \A i \in 1 .. Len(d) + 1 : s[i] = b[i]
      /\ s[Len(d) + 2] = report /\ s[Len(d) + 3] = manual
    <2>1. /\ s \in Seq(S) /\ Len(s) = Len(b) + 2
          /\ \A i \in 1 .. Len(b) + 2 : s[i] = IF i <= Len(b) THEN b[i] ELSE c[i - Len(b)]
        <3>1. /\ s \in Seq(S) /\ Len(s) = Len(b) + Len(c)
              /\ \A i \in 1 .. Len(b) + Len(c) : s[i] = IF i <= Len(b) THEN b[i] ELSE c[i - Len(b)]
            BY <1>1, <1>3, ConcatProperties
        <3> HIDE DEF s
        <3> QED
            BY <1>1, <3>1
    <2> HIDE DEF s
    <2>2. Len(b) = Len(d) + 1
        BY <1>3
    <2>3. \A i \in 1 .. Len(d) + 3 : s[i] = IF i <= Len(d) + 1 THEN b[i] ELSE c[i - (Len(d) + 1)]
        BY <1>2, <2>1, <2>2
    <2>4. s[Len(d) + 2] = c[1] /\ s[Len(d) + 3] = c[2]
        <3>1. s[Len(d) + 2] = c[(Len(d) + 2) - (Len(d) + 1)] /\ s[Len(d) + 3] = c[(Len(d) + 3) - (Len(d) + 1)]
            BY <1>2, <2>3
        <3>2. (Len(d) + 2) - (Len(d) + 1) = 1 /\ (Len(d) + 3) - (Len(d) + 1) = 2
            BY <1>2
        <3> QED
            BY <3>1, <3>2
    <2> QED
        BY <1>1, <1>2, <2>1, <2>2, <2>3, <2>4
<1> HIDE DEF s
<1>5. DOMAIN s = 1 .. Len(d) + 3
    BY <1>4, LenProperties
<1>6. s[1] = task /\ \A i \in 1 .. Len(d) : s[i + 1] = d[i]
    BY <1>2, <1>3, <1>4
<1> QED
    BY <1>4, <1>5, <1>6 DEF s, b, a, c

Below == {ss \in Nat \X Nat : ss[1] < ss[2]}

LEMMA BelowIsWellFounded == IsWellFoundedOn(Below, Nat)
BY NatLessThanWellFounded, Zenon DEF OpToRel, Below

\* A message that is before the next is before all later ones.
LEMMA StrictIsOrdered ==
    ASSUME NEW s, NEW n \in Nat, \A i \in 1 .. n : s[i].seq \in Nat,
           \A i \in 1 .. n - 1 : Earlier(s[i], s[i + 1])
    PROVE  \A i, j \in 1 .. n : i < j => Earlier(s[i], s[j])
<1> SUFFICES ASSUME NEW i \in 1 .. n, NEW k \in 1 .. n, i < k, ~Earlier(s[i], s[k])
             PROVE  FALSE
    OBVIOUS
<1> DEFINE T == {j \in 1 .. n : i < j /\ ~Earlier(s[i], s[j])}
<1>1. T \subseteq Nat /\ k \in T
    OBVIOUS
<1>2. PICK m \in T : \A y \in T : <<y, m>> \notin Below
    BY <1>1, WFMin, BelowIsWellFounded, Zenon
<1>3. \A y \in T : ~(y < m)
    BY <1>1, <1>2 DEF Below
<1>4. m \in 1 .. n /\ i < m /\ ~Earlier(s[i], s[m]) /\ m - 1 \in 1 .. n - 1 /\ (m - 1) + 1 = m
    BY <1>2
<1>5. Earlier(s[m - 1], s[m])
    BY <1>4
<1>6. m - 1 # i
    BY <1>4, <1>5
<1>7. m - 1 \in T \/ Earlier(s[i], s[m - 1])
    BY <1>4, <1>6
<1>8. Earlier(s[i], s[m - 1])
    BY <1>3, <1>4, <1>7
<1> QED
    BY <1>4, <1>5, <1>8 DEF Earlier

\* A cycle is its task, what is between, and its last two messages.
LEMMA TakenApart ==
    ASSUME NEW S, NEW s \in Seq(S), Len(s) >= 3
    PROVE  LET d == SubSeq(s, 2, Len(s) - 2) IN
           /\ d \in Seq(S) /\ Len(d) = Len(s) - 3
           /\ \A i \in 1 .. Len(s) - 3 : d[i] = s[i + 1]
           /\ <<s[1]>> \o d \o <<s[Len(s) - 1], s[Len(s)]>> = s
<1> DEFINE n == Len(s)
           d == SubSeq(s, 2, n - 2)
           c == <<s[1]>> \o d \o <<s[n - 1], s[n]>>
<1>1. n \in Nat /\ n >= 3 /\ DOMAIN s = 1 .. n /\ \A i \in 1 .. n : s[i] \in S
    BY LenProperties, ElementOfSeq
<1>2. d \in Seq(S) /\ Len(d) = n - 3 /\ \A i \in 1 .. n - 3 : d[i] = s[i + 1]
    <2> HIDE DEF n
    <2>1. 2 \in Int /\ n - 2 \in Int /\ Len(s) = n
        BY <1>1 DEF n
    <2>2. d \in Seq(S) /\ Len(d) = IF 2 <= n - 2 THEN (n - 2) - 2 + 1 ELSE 0
        BY <1>1, <2>1, SubSeqProperties
    <2>3. \A i \in 1 .. (n - 2) - 2 + 1 : d[i] = s[2 + i - 1]
        BY <1>1, <2>1, SubSeqProperties
    <2> HIDE DEF d
    <2>4. Len(d) = n - 3
        BY <1>1, <2>2
    <2>5. ASSUME NEW i \in 1 .. n - 3 PROVE d[i] = s[i + 1]
        <3>1. i \in 1 .. (n - 2) - 2 + 1 /\ 2 + i - 1 = i + 1
            BY <1>1
        <3> QED
            BY <2>3, <3>1
    <2> QED
        BY <2>2, <2>4, <2>5
<1> HIDE DEF d, n
<1>3. /\ c \in Seq(S) /\ Len(c) = Len(d) + 3 /\ DOMAIN c = 1 .. Len(d) + 3
      /\ c[1] = s[1] /\ c[Len(d) + 2] = s[n - 1] /\ c[Len(d) + 3] = s[n]
      /\ \A i \in 1 .. Len(d) : c[i + 1] = d[i]
    <2>1. s[1] \in S /\ s[n - 1] \in S /\ s[n] \in S
        BY <1>1
    <2> QED
        BY <1>2, <2>1, Layout
<1> HIDE DEF c
<1>4. ASSUME NEW i \in 1 .. n PROVE c[i] = s[i]
    <2>1. CASE i = 1
        BY <1>3, <2>1
    <2>2. CASE i = n - 1
        <3>1. Len(d) + 2 = n - 1
            BY <1>1, <1>2
        <3> QED
            BY <1>3, <2>2, <3>1
    <2>3. CASE i = n
        <3>1. Len(d) + 3 = n
            BY <1>1, <1>2
        <3> QED
            BY <1>3, <2>3, <3>1
    <2>4. CASE i \in 2 .. n - 2
        <3>1. i - 1 \in 1 .. n - 3 /\ (i - 1) + 1 = i
            BY <1>1, <2>4
        <3>2. c[(i - 1) + 1] = d[i - 1] /\ d[i - 1] = s[(i - 1) + 1]
            BY <1>1, <1>2, <1>3, <3>1
        <3> QED
            BY <3>1, <3>2
    <2> QED
        BY <1>1, <2>1, <2>2, <2>3, <2>4
<1>5. c = s
    <2>1. Len(c) = n
        BY <1>1, <1>2, <1>3
    <2>2. c = [i \in 1 .. n |-> c[i]] /\ s = [i \in 1 .. n |-> s[i]]
        BY <1>1, <1>3, <2>1, LenProperties
    <2> QED
        BY <1>4, <2>2
<1> QED
    BY <1>2, <1>5 DEF c, d, n

\* Of a capture's messages the last is the manual review, and no other.
LEMMA LastIsManual ==
    ASSUME NEW n \in Nat, n >= 3, NEW i \in 1 .. n
    PROVE  KindAt(i, n) = "manual_review" <=> i = n
<1>1. CASE i = 1
    BY <1>1 DEF KindAt
<1>2. CASE i # 1 /\ i = n - 1
    BY <1>2 DEF KindAt
<1>3. CASE i # 1 /\ i # n - 1 /\ i = n
    BY <1>3 DEF KindAt
<1>4. CASE i # 1 /\ i # n - 1 /\ i # n
    BY <1>4 DEF KindAt
<1> QED
    BY <1>1, <1>2, <1>3, <1>4

\* What the reviewer is shown of a sealed packet.
LEMMA ShownIsWhole ==
    ASSUME NEW s, Whole(s)
    PROVE  LET records == s.body.records
               shown == Inputs(s.body)
               task == records[1].message
               report == records[Len(records) - 1].message
           IN /\ {records[i].message : i \in shown} = {task, report} \cup Between(s.messages, task, report)
              /\ \A i, j \in shown : i < j => Earlier(records[i].message, records[j].message)
<1> DEFINE records == s.body.records
           sel == MessagesOf(records)
           n == Len(sel)
           d == SubSeq(sel, 2, n - 2)
<1>1. /\ sel \in Seq(s.messages) /\ n >= 3 /\ records = Records(sel)
      /\ \A i \in 1 .. n : sel[i].seq \in Nat
      /\ Selectable(s.messages, sel[1], d, sel[n - 1], sel[n])
    BY DEF Whole
<1>2. n \in Nat /\ DOMAIN sel = 1 .. n
    BY <1>1, LenProperties
<1>3. /\ d \in Seq(s.messages) /\ Len(d) = n - 3
      /\ \A i \in 1 .. n - 3 : d[i] = sel[i + 1]
      /\ <<sel[1]>> \o d \o <<sel[n - 1], sel[n]>> = sel
    BY <1>1, TakenApart
<1>4. DOMAIN records = 1 .. n /\ \A i \in 1 .. n : records[i].message = sel[i]
    <2>1. DOMAIN records = DOMAIN sel
        BY DEF MessagesOf
    <2> QED
        BY <1>2, <2>1 DEF MessagesOf
<1>5. ASSUME NEW i \in 1 .. n PROVE records[i].input <=> i # n
    <2>1. records[i].input = (KindAt(i, n) # "manual_review")
        <3> HIDE DEF records, sel
        <3>1. Records(sel)[i].input = (KindAt(i, Len(sel)) # "manual_review")
            BY <1>2 DEF Records
        <3> QED
            BY <1>1, <3>1
    <2> QED
        BY <1>1, <1>2, <2>1, LastIsManual
<1> HIDE DEF sel, d, n, records
<1>6. Inputs(s.body) = 1 .. n - 1
    <2>1. Inputs(s.body) = {i \in 1 .. n : records[i].input}
        BY <1>4 DEF Inputs, records
    <2>2. Inputs(s.body) = {i \in 1 .. n : i # n}
        BY <1>5, <2>1
    <2> QED
        BY <1>1, <1>2, <2>2
<1>7. /\ \A x \in Range(d) : Decision(x)
      /\ \A m \in Range(sel) : m \in s.messages /\ m.cycle = sel[1].cycle
      /\ Between(s.messages, sel[1], sel[n - 1]) \subseteq Range(d)
      /\ Strict(sel)
    BY <1>1, <1>3 DEF Selectable
<1>8. \A i, j \in 1 .. n : i < j => Earlier(sel[i], sel[j])
    <2>1. \A i \in 1 .. n - 1 : Earlier(sel[i], sel[i + 1])
        BY <1>7 DEF Strict, n
    <2> QED
        BY <1>1, <1>2, <2>1, StrictIsOrdered
<1>9. DOMAIN d = 1 .. n - 3
    BY <1>3, LenProperties
<1>10. ASSUME NEW i \in 1 .. n - 1
       PROVE  sel[i] \in {sel[1], sel[n - 1]} \cup Between(s.messages, sel[1], sel[n - 1])
    <2> SUFFICES ASSUME i # 1, i # n - 1 PROVE sel[i] \in Between(s.messages, sel[1], sel[n - 1])
        OBVIOUS
    <2>1. i - 1 \in 1 .. n - 3 /\ (i - 1) + 1 = i /\ 1 \in 1 .. n /\ i \in 1 .. n /\ n - 1 \in 1 .. n /\ 1 < i /\ i < n - 1
        BY <1>1, <1>2
    <2>2. d[i - 1] = sel[i] /\ d[i - 1] \in Range(d)
        BY <1>3, <1>9, <2>1 DEF Range
    <2>3. Decision(sel[i])
        BY <1>7, <2>2
    <2>4. sel[i] \in Range(sel)
        BY <1>2, <2>1 DEF Range
    <2>5. Earlier(sel[1], sel[i]) /\ Earlier(sel[i], sel[n - 1])
        BY <1>8, <2>1
    <2> QED
        BY <1>7, <2>3, <2>4, <2>5 DEF Between
<1>11. ASSUME NEW m \in {sel[1], sel[n - 1]} \cup Between(s.messages, sel[1], sel[n - 1])
       PROVE  \E i \in 1 .. n - 1 : sel[i] = m
    <2>1. CASE m \in {sel[1], sel[n - 1]}
        BY <1>1, <1>2, <2>1
    <2>2. CASE m \in Between(s.messages, sel[1], sel[n - 1])
        <3>1. PICK j \in 1 .. n - 3 : d[j] = m
            BY <1>7, <1>9, <2>2 DEF Range
        <3>2. j + 1 \in 1 .. n - 1 /\ sel[j + 1] = m
            BY <1>2, <1>3, <3>1
        <3> QED
            BY <3>2
    <2> QED
        BY <2>1, <2>2
<1>12. \A i \in 1 .. n - 1 : records[i].message = sel[i]
    BY <1>2, <1>4
<1>13. {records[i].message : i \in Inputs(s.body)} = {sel[1], sel[n - 1]} \cup Between(s.messages, sel[1], sel[n - 1])
    <2>1. {records[i].message : i \in Inputs(s.body)} = {sel[i] : i \in 1 .. n - 1}
        BY <1>6, <1>12
    <2> QED
        BY <1>10, <1>11, <2>1
<1>14. records[1].message = sel[1] /\ records[Len(records) - 1].message = sel[n - 1]
    <2>1. Len(records) = n
        BY <1>2, <1>4
    <2> QED
        BY <1>1, <1>2, <1>4, <2>1
<1>15. \A i, j \in Inputs(s.body) : i < j => Earlier(records[i].message, records[j].message)
    BY <1>2, <1>6, <1>8, <1>12
<1> QED
    BY <1>13, <1>14, <1>15 DEF records

\* The messages of a packet just made, taken apart again.
LEMMA MessagesOfRecords ==
    ASSUME NEW S, NEW sel \in Seq(S)
    PROVE  MessagesOf(Records(sel)) = sel
<1>1. sel = [i \in DOMAIN sel |-> sel[i]]
    BY SeqDef
<1>2. DOMAIN Records(sel) = DOMAIN sel /\ \A i \in DOMAIN sel : Records(sel)[i].message = sel[i]
    BY DEF Records
<1> QED
    BY <1>1, <1>2 DEF MessagesOf

\* What a capture seals is whole.
LEMMA CaptureIsWhole ==
    ASSUME NEW known, NEW first \in known, NEW second \in known, NEW last \in known,
           NEW between \in Seq(known),
           \A m \in known : m.seq \in Nat,
           Selectable(known, first, between, second, last),
           NEW version, NEW revision \in Nat \ {0}, NEW supersedes,
           NEW packet, packet = Body(version, revision, Records(<<first>> \o between \o <<second, last>>), supersedes)
    PROVE  /\ Whole([body |-> packet, messages |-> known])
           /\ packet.cycle = first.cycle /\ packet.revision = revision /\ packet.supersedes = supersedes
           /\ packet.records = Records(<<first>> \o between \o <<second, last>>)
<1> DEFINE sel == <<first>> \o between \o <<second, last>>
           n == Len(sel)
           d == SubSeq(sel, 2, n - 2)
<1>1. /\ sel \in Seq(known) /\ n = Len(between) + 3 /\ DOMAIN sel = 1 .. n
      /\ sel[1] = first /\ sel[n - 1] = second /\ sel[n] = last
      /\ \A i \in 1 .. Len(between) : sel[i + 1] = between[i]
    <2> HIDE DEF n
    <2>1. /\ sel \in Seq(known) /\ Len(sel) = Len(between) + 3 /\ DOMAIN sel = 1 .. Len(between) + 3
          /\ sel[1] = first /\ sel[Len(between) + 2] = second /\ sel[Len(between) + 3] = last
          /\ \A i \in 1 .. Len(between) : sel[i + 1] = between[i]
        BY Layout
    <2>2. Len(between) \in Nat
        BY LenProperties
    <2> HIDE DEF sel
    <2>3. n = Len(between) + 3 /\ n - 1 = Len(between) + 2
        BY <2>1, <2>2 DEF n
    <2> QED
        BY <2>1, <2>3
<1>2. Len(between) \in Nat /\ DOMAIN between = 1 .. Len(between)
    BY LenProperties
<1>3. MessagesOf(Records(sel)) = sel
    BY <1>1, MessagesOfRecords
<1>4. /\ packet.records = Records(sel) /\ packet.revision = revision /\ packet.supersedes = supersedes
      /\ packet.cycle = first.cycle
    <2>1. Records(sel)[1].message = sel[1]
        <3>1. 1 \in DOMAIN sel
            BY <1>1, <1>2
        <3> QED
            BY <3>1 DEF Records
    <2> HIDE DEF sel
    <2> QED
        BY <1>1, <2>1 DEF Body, sel
<1> HIDE DEF sel, n
<1>5. d = between
    <2>1. n >= 3
        BY <1>1, <1>2
    <2>2. /\ d \in Seq(known) /\ Len(d) = n - 3
          /\ \A i \in 1 .. n - 3 : d[i] = sel[i + 1]
        BY <1>1, <2>1, TakenApart DEF n
    <2>3. DOMAIN d = 1 .. n - 3 /\ d = [i \in DOMAIN d |-> d[i]]
        BY <2>2, LenProperties, SeqDef
    <2>4. DOMAIN between = 1 .. n - 3 /\ between = [i \in DOMAIN between |-> between[i]]
        BY <1>1, <1>2, SeqDef
    <2>5. \A i \in 1 .. n - 3 : d[i] = between[i]
        BY <1>1, <1>2, <2>2
    <2> HIDE DEF d
    <2> QED
        BY <2>3, <2>4, <2>5
<1>6. Selectable(known, sel[1], d, sel[n - 1], sel[n])
    BY <1>1, <1>5
<1>7. \A i \in 1 .. n : sel[i].seq \in Nat
    BY <1>1, ElementOfSeq DEF n
<1>8. n >= 3
    BY <1>1, <1>2
<1>9. Whole([body |-> packet, messages |-> known])
    BY <1>1, <1>3, <1>4, <1>6, <1>7, <1>8 DEF Whole, n, d
<1> QED
    BY <1>4, <1>9 DEF sel

\* Adding a whole packet to those sealed.
LEMMA SealKeeps ==
    ASSUME HandoffInv, NEW p \in Path, NEW messages, NEW body, Seal(p, messages, body),
           Whole([body |-> body, messages |-> messages]), Lineage(body)
    PROVE  HandoffInv'
<1> DEFINE new == [body |-> body, messages |-> messages]
<1>1. /\ sealed' = sealed \cup {new} /\ UNCHANGED <<export, candidate, equivalent>>
      /\ file' = [file EXCEPT ![p] = Packet(body)] \/ file' = [file EXCEPT ![p] = Torn]
    BY DEF Seal
<1>2. \A b : Lineage(b) => Lineage(b)'
    BY <1>1 DEF Lineage
<1>3. SealedOK'
    <2>1. \A s : Whole(s)' = Whole(s)
        BY DEF Whole
    <2> SUFFICES ASSUME NEW s \in sealed' PROVE Whole(s) /\ Lineage(s.body)'
        BY <2>1 DEF SealedOK
    <2>2. CASE s \in sealed
        BY <1>2, <2>2 DEF HandoffInv, SealedOK
    <2>3. CASE s = new
        BY <1>2, <2>3
    <2> QED
        BY <1>1, <2>2, <2>3
<1>4. FilesOK'
    <2>1. FilesOK
        BY DEF HandoffInv
    <2>2. file' = [q \in Path |-> file'[q]] /\ \A q \in Path : q # p => file'[q] = file[q]
        BY <1>1, <2>1 DEF FilesOK
    <2>3. file'[p] = Packet(body) \/ file'[p] = Torn
        BY <1>1, <2>1 DEF FilesOK
    <2>4. ASSUME NEW q \in Path, file'[q].kind = "packet"
          PROVE  /\ file'[q] = [kind |-> "packet", body |-> file'[q].body, hash |-> file'[q].hash]
                 /\ \E s \in sealed' : s.body = file'[q].hash
        <3>1. CASE q # p
            BY <1>1, <2>1, <2>2, <2>4, <3>1 DEF FilesOK
        <3>2. CASE q = p
            <4>1. file'[p] = Packet(body)
                BY <2>3, <2>4, <3>2 DEF Torn
            <4>2. new \in sealed' /\ new.body = body
                BY <1>1
            <4> QED
                BY <3>2, <4>1, <4>2 DEF Packet
        <3> QED
            BY <3>1, <3>2
    <2> QED
        BY <2>2, <2>4 DEF FilesOK
<1>5. ReviewedIsWhole'
    <2>1. ReviewedIsWhole
        BY DEF HandoffInv
    <2> SUFFICES ASSUME NEW packet \in candidate
                 PROVE  \E s \in sealed' :
                    /\ s.body = packet.body
                    /\ LET records == s.body.records
                           shown == Inputs(s.body)
                           task == records[1].message
                           report == records[Len(records) - 1].message
                       IN /\ {records[i].message : i \in shown} = {task, report} \cup Between(s.messages, task, report)
                          /\ \A i, j \in shown : i < j => Earlier(records[i].message, records[j].message)
                          /\ Manual(s.body).content \in OneLine =>
                                 \A i \in shown : <<Manual(s.body).content, records[i].message.content>> \notin Quotes
                    /\ Lineage(s.body)'
        BY <1>1 DEF ReviewedIsWhole
    <2>2. PICK s \in sealed :
                    /\ s.body = packet.body
                    /\ LET records == s.body.records
                           shown == Inputs(s.body)
                           task == records[1].message
                           report == records[Len(records) - 1].message
                       IN /\ {records[i].message : i \in shown} = {task, report} \cup Between(s.messages, task, report)
                          /\ \A i, j \in shown : i < j => Earlier(records[i].message, records[j].message)
                          /\ Manual(s.body).content \in OneLine =>
                                 \A i \in shown : <<Manual(s.body).content, records[i].message.content>> \notin Quotes
                    /\ Lineage(s.body)
        BY <2>1 DEF ReviewedIsWhole
    <2>3. s \in sealed' /\ Lineage(s.body)'
        BY <1>1, <1>2, <2>2
    <2> QED
        BY <2>2, <2>3
<1>6. EquivalentIsCapturable'
    <2>1. EquivalentIsCapturable
        BY DEF HandoffInv
    <2> QED
        BY <1>1, <2>1 DEF EquivalentIsCapturable
<1>7. export' \subseteq Message
    BY <1>1 DEF HandoffInv
<1> QED
    BY <1>3, <1>4, <1>5, <1>6, <1>7 DEF HandoffInv

\* A packet file that verifies is a packet that was sealed.
LEMMA VerifiedIsSealed ==
    ASSUME HandoffInv, NEW p \in Path, Verifies(file[p])
    PROVE  /\ file[p].hash = file[p].body
           /\ \E s \in sealed : s.body = file[p].body /\ Whole(s) /\ Lineage(s.body)
<1>1. file[p].kind = "packet" /\ file[p].hash = file[p].body
    BY DEF Verifies
<1> QED
    BY <1>1 DEF HandoffInv, FilesOK, SealedOK

\* The decisions a capture names are messages.
LEMMA DecisionsAreMessages ==
    ASSUME NEW messages, NEW decisions \in Decisions(messages)
    PROVE  decisions \in Seq(messages)
<1>1. PICK m \in 0 .. MaxDecisions : decisions \in [1 .. m -> {x \in messages : x.role = "user"}]
    BY DEF Decisions, SeqOf
<1>2. m \in Nat /\ decisions \in [1 .. m -> messages]
    BY <1>1, FaultAssumption
<1> QED
    BY <1>2, SeqDef

LEMMA CycleKeeps == ASSUME HandoffInv, NEW p \in Path, CaptureCycle(p) PROVE HandoffInv'
<1>1. PICK task \in export, report \in export, manual \in export, decisions \in Decisions(export) :
        /\ Selectable(export, task, decisions, report, manual)
        /\ LET records == Records(<<task>> \o decisions \o <<report, manual>>) IN
            \/ Seal(p, export, Body("1", 1, records, None))
            \/ \E q \in Path :
                /\ Verifies(file[q]) /\ file[q].body.cycle = task.cycle
                /\ Fingerprint(file[q].body.records) # Fingerprint(records)
                /\ Seal(p, export, Body("1", file[q].body.revision + 1, records, file[q].hash))
    BY DEF CaptureCycle
<1> DEFINE records == Records(<<task>> \o decisions \o <<report, manual>>)
<1>2. decisions \in Seq(export) /\ \A m \in export : m.seq \in Nat
    BY DecisionsAreMessages, MessageAssumption DEF HandoffInv
<1>3. CASE Seal(p, export, Body("1", 1, records, None))
    <2> DEFINE body == Body("1", 1, records, None)
    <2>1. /\ Whole([body |-> body, messages |-> export])
          /\ body.revision = 1 /\ body.supersedes = None
        BY <1>1, <1>2, CaptureIsWhole
    <2>2. Lineage(body)
        BY <2>1 DEF Lineage
    <2> QED
        BY <1>3, <2>1, <2>2, SealKeeps
<1>4. ASSUME NEW q \in Path, Verifies(file[q]), file[q].body.cycle = task.cycle,
             Fingerprint(file[q].body.records) # Fingerprint(records),
             Seal(p, export, Body("1", file[q].body.revision + 1, records, file[q].hash))
      PROVE  HandoffInv'
    <2> DEFINE revision == file[q].body.revision + 1
               body == Body("1", revision, records, file[q].hash)
    <2>1. PICK s \in sealed : s.body = file[q].body /\ Whole(s) /\ file[q].hash = file[q].body
        BY <1>4, VerifiedIsSealed
    <2>2. file[q].body.revision \in Nat \ {0}
        BY <2>1 DEF Whole
    <2>3. revision \in Nat \ {0} /\ revision # 1
        BY <2>2
    <2>4. /\ Whole([body |-> body, messages |-> export])
          /\ body.cycle = task.cycle /\ body.revision = revision /\ body.supersedes = file[q].hash
          /\ body.records = records
        <3> HIDE DEF revision
        <3> QED
            BY <1>1, <1>2, <2>3, CaptureIsWhole
    <2>5. /\ s.body = body.supersedes /\ s.body.revision + 1 = body.revision
          /\ s.body.cycle = body.cycle
          /\ Fingerprint(s.body.records) # Fingerprint(body.records)
        BY <1>4, <2>1, <2>4
    <2>6. Lineage(body)
        BY <2>3, <2>4, <2>5 DEF Lineage
    <2> QED
        BY <1>4, <2>4, <2>6, SealKeeps
<1> QED
    BY <1>1, <1>3, <1>4

LEMMA AssistedKeeps == ASSUME HandoffInv, NEW p \in Path, CaptureAssisted(p) PROVE HandoffInv'
<1>1. PICK task \in export, report \in export, decisions \in Decisions(export), text \in Content, m \in Message :
        LET manual == Assisted(text, m.session, task.cycle, m.seq)
            messages == export \cup {manual} IN
        /\ Selectable(messages, task, decisions, report, manual)
        /\ Seal(p, messages, Body("2", 1, Records(<<task>> \o decisions \o <<report, manual>>), None))
    BY DEF CaptureAssisted
<1> DEFINE manual == Assisted(text, m.session, task.cycle, m.seq)
           messages == export \cup {manual}
           body == Body("2", 1, Records(<<task>> \o decisions \o <<report, manual>>), None)
<1>2. decisions \in Seq(export)
    BY DecisionsAreMessages
<1>3. decisions \in Seq(messages)
    BY <1>2, SeqDef
<1>4. manual.seq \in Nat
    BY MessageAssumption DEF Assisted
<1>5. \A x \in messages : x.seq \in Nat
    BY <1>4, MessageAssumption DEF HandoffInv
<1>6. task \in messages /\ report \in messages /\ manual \in messages
    OBVIOUS
<1>7. Selectable(messages, task, decisions, report, manual) /\ Seal(p, messages, body)
    BY <1>1
<1>8. /\ Whole([body |-> body, messages |-> messages])
      /\ body.revision = 1 /\ body.supersedes = None
    <2>1. body = Body("2", 1, Records(<<task>> \o decisions \o <<report, manual>>), None) /\ 1 \in Nat \ {0}
        OBVIOUS
    <2> HIDE DEF manual, messages, body
    <2> QED
        BY <1>3, <1>5, <1>6, <1>7, <2>1, CaptureIsWhole, SMTT(60)
<1> HIDE DEF body, messages
<1>9. Lineage(body)
    BY <1>8 DEF Lineage
<1> QED
    BY <1>7, <1>8, <1>9, SealKeeps

LEMMA LegacyKeeps == ASSUME HandoffInv, NEW p \in Path, CaptureLegacy(p) PROVE HandoffInv'
<1>1. PICK t \in Content \ Secret, r \in Content \ Secret, c \in Content \ Secret :
        LET task == Legacy("legacy-task", <<"mainline", t>>, "MAINLINE", 10, t)
            report == Legacy("legacy-report", <<"codex", r>>, "CODEX", 20, r)
            manual == Legacy("legacy-review", <<"mainline", t>>, "MAINLINE", 30, c) IN
        Seal(p, {task, report, manual}, Body("1", 1, Records(<<task, report, manual>>), None))
    BY DEF CaptureLegacy
<1> DEFINE task == Legacy("legacy-task", <<"mainline", t>>, "MAINLINE", 10, t)
           report == Legacy("legacy-report", <<"codex", r>>, "CODEX", 20, r)
           manual == Legacy("legacy-review", <<"mainline", t>>, "MAINLINE", 30, c)
           messages == {task, report, manual}
           body == Body("1", 1, Records(<<task, report, manual>>), None)
<1>2. /\ From(task, "assistant", "MAINLINE") /\ From(report, "assistant", "CODEX")
      /\ From(manual, "assistant", "MAINLINE") /\ task.session = manual.session
      /\ task.seq = 10 /\ report.seq = 20 /\ manual.seq = 30
      /\ task.cycle = "legacy" /\ report.cycle = "legacy" /\ manual.cycle = "legacy"
      /\ task.content \notin Secret /\ report.content \notin Secret /\ manual.content \notin Secret
    BY DEF Legacy, From
<1>3. Seal(p, messages, body)
    BY <1>1
<1> HIDE DEF task, report, manual
<1>4. <<>> \in Seq(messages) /\ <<task>> \o <<>> \o <<report, manual>> = <<task, report, manual>>
      /\ Range(<<>>) = {}
    <2>1. <<>> \in Seq(messages) /\ Len(<<>>) = 0
        BY EmptySeq
    <2> DEFINE s == <<task>> \o <<>> \o <<report, manual>>
    <2>2. s \in Seq(messages) /\ Len(s) = 0 + 3 /\ DOMAIN s = 1 .. 0 + 3
          /\ s[1] = task /\ s[0 + 2] = report /\ s[0 + 3] = manual
        BY <2>1, Layout
    <2> HIDE DEF s
    <2>3. s = <<task, report, manual>>
        BY <2>2, SeqDef
    <2> QED
        BY <2>1, <2>3 DEF s, Range
<1>5. Selectable(messages, task, <<>>, report, manual)
    <2> DEFINE s == <<task, report, manual>>
    <2>1. Len(s) = 3 /\ DOMAIN s = 1 .. 3 /\ s[1] = task /\ s[2] = report /\ s[3] = manual
        OBVIOUS
    <2> HIDE DEF s
    <2>2. Range(s) = messages
        BY <2>1 DEF Range
    <2>3. Strict(s)
        BY <1>2, <2>1 DEF Strict, Earlier
    <2>4. Between(messages, task, report) = {}
        <3>1. \A m \in messages : m.role # "user"
            BY <1>2 DEF From
        <3> QED
            BY <3>1 DEF Between, Decision
    <2>5. \A m \in messages : m.cycle = task.cycle /\ m.content \notin Secret
        BY <1>2
    <2>6. <<task>> \o <<>> \o <<report, manual>> = s
        BY <1>4 DEF s
    <2> HIDE DEF messages
    <2> QED
        BY <1>2, <1>4, <2>2, <2>3, <2>4, <2>5, <2>6 DEF Selectable
<1>6. \A x \in messages : x.seq \in Nat
    BY <1>2
<1>7. /\ Whole([body |-> body, messages |-> messages])
      /\ body.revision = 1 /\ body.supersedes = None
    <2>1. task \in messages /\ report \in messages /\ manual \in messages
        OBVIOUS
    <2> DEFINE none == <<>>
    <2>2. body = Body("1", 1, Records(<<task>> \o none \o <<report, manual>>), None)
        BY <1>4
    <2>3. 1 \in Nat \ {0} /\ none \in Seq(messages) /\ Selectable(messages, task, none, report, manual)
        BY <1>4, <1>5
    <2> HIDE DEF messages, body, none
    <2> QED
        BY <1>6, <2>1, <2>2, <2>3, CaptureIsWhole, SMTT(60)
<1> HIDE DEF body, messages
<1>8. Lineage(body)
    BY <1>7 DEF Lineage
<1> QED
    BY <1>3, <1>7, <1>8, SealKeeps

LEMMA CandidateKeeps == ASSUME HandoffInv, NEW p \in Path, BuildCandidate(p) PROVE HandoffInv'
<1>1. /\ candidate' = candidate \cup {file[p]} /\ UNCHANGED <<export, file, equivalent, sealed>>
      /\ Verifies(file[p])
      /\ \A i \in Inputs(file[p].body) :
            <<Manual(file[p].body).content, file[p].body.records[i].message.content>> \notin Found
    BY DEF BuildCandidate
<1>2. PICK s \in sealed : s.body = file[p].body /\ Whole(s) /\ Lineage(s.body)
    BY <1>1, VerifiedIsSealed
<1>3. \A b : Lineage(b)' = Lineage(b)
    BY <1>1 DEF Lineage
<1>4. SealedOK' /\ FilesOK' /\ EquivalentIsCapturable' /\ export' \subseteq Message
    <2>1. \A x : Whole(x)' = Whole(x)
        BY DEF Whole
    <2> QED
        BY <1>1, <1>3, <2>1 DEF HandoffInv, SealedOK, FilesOK, EquivalentIsCapturable
<1>5. ReviewedIsWhole'
    <2> SUFFICES ASSUME NEW packet \in candidate'
                 PROVE  \E x \in sealed :
                    /\ x.body = packet.body
                    /\ LET records == x.body.records
                           shown == Inputs(x.body)
                           task == records[1].message
                           report == records[Len(records) - 1].message
                       IN /\ {records[i].message : i \in shown} = {task, report} \cup Between(x.messages, task, report)
                          /\ \A i, j \in shown : i < j => Earlier(records[i].message, records[j].message)
                          /\ Manual(x.body).content \in OneLine =>
                                 \A i \in shown : <<Manual(x.body).content, records[i].message.content>> \notin Quotes
                    /\ Lineage(x.body)
        BY <1>1, <1>3 DEF ReviewedIsWhole
    <2>1. CASE packet \in candidate
        BY <2>1 DEF HandoffInv, ReviewedIsWhole
    <2>2. CASE packet = file[p]
        <3>1. Manual(s.body).content \in OneLine => \A i \in Inputs(s.body) :
                <<Manual(s.body).content, s.body.records[i].message.content>> \notin Quotes
            <4>1. \A a, b : a \in OneLine /\ <<a, b>> \in Quotes => <<a, b>> \in Found
                BY FoundAssumption
            <4> QED
                BY <1>1, <1>2, <4>1
        <3> QED
            BY <1>2, <2>2, <3>1, ShownIsWhole
    <2> QED
        BY <1>1, <2>1, <2>2
<1> QED
    BY <1>4, <1>5 DEF HandoffInv

\* With a review that says the same from the same session, at a later place, the
\* cycle could be selected too.
LEMMA SelectableWith ==
    ASSUME NEW s, Whole(s), NEW m \in Message,
           From(m, "assistant", "MAINLINE"), m.cycle = s.body.cycle,
           m.session = Head(s.body.records).message.session,
           Earlier(s.body.records[Len(s.body.records) - 1].message, m),
           m.content = Manual(s.body).content
    PROVE  LET selected == MessagesOf(s.body.records)
               n == Len(selected)
           IN Selectable(s.messages \cup {m}, selected[1], SubSeq(selected, 2, n - 2), selected[n - 1], m)
<1> DEFINE records == s.body.records
           sel == MessagesOf(records)
           n == Len(sel)
           d == SubSeq(sel, 2, n - 2)
           all == s.messages \cup {m}
           c == <<sel[1]>> \o d \o <<sel[n - 1], m>>
<1>1. /\ sel \in Seq(s.messages) /\ n >= 3 /\ records = Records(sel)
      /\ s.body.cycle = sel[1].cycle
      /\ Selectable(s.messages, sel[1], d, sel[n - 1], sel[n])
    BY DEF Whole
<1>2. n \in Nat /\ DOMAIN sel = 1 .. n /\ \A i \in 1 .. n : sel[i] \in s.messages
    BY <1>1, LenProperties, ElementOfSeq
<1>3. /\ d \in Seq(s.messages) /\ Len(d) = n - 3
      /\ \A i \in 1 .. n - 3 : d[i] = sel[i + 1]
      /\ <<sel[1]>> \o d \o <<sel[n - 1], sel[n]>> = sel
    BY <1>1, TakenApart
<1>4. DOMAIN records = 1 .. n /\ \A i \in 1 .. n : records[i].message = sel[i]
    <2>1. DOMAIN records = DOMAIN sel
        BY DEF MessagesOf
    <2> QED
        BY <1>2, <2>1 DEF MessagesOf
<1> HIDE DEF sel, d, n, records
<1>5. Len(records) = n
    BY <1>2, <1>4
<1>6. /\ m.session = sel[1].session /\ Earlier(sel[n - 1], m) /\ m.content = sel[n].content
      /\ m.cycle = sel[1].cycle
    <2>1. Head(records) = records[1] /\ Last(records) = records[n]
        BY <1>5 DEF Last
    <2>2. Head(records).message = sel[1] /\ Last(records).message = sel[n] /\ records[n - 1].message = sel[n - 1]
        BY <1>1, <1>2, <1>4, <2>1
    <2> QED
        BY <1>1, <1>5, <2>2 DEF Manual, records
<1>7. /\ From(sel[1], "assistant", "MAINLINE") /\ From(sel[n - 1], "assistant", "CODEX")
      /\ sel[1].session = sel[n].session
      /\ \A x \in Range(d) : Decision(x)
      /\ \A x \in Range(sel) : x \in s.messages /\ x.cycle = sel[1].cycle /\ x.content \notin Secret
      /\ Between(s.messages, sel[1], sel[n - 1]) \subseteq Range(d)
      /\ Strict(sel)
    BY <1>1, <1>3 DEF Selectable
<1>8. d \in Seq(all) /\ sel[1] \in all /\ sel[n - 1] \in all /\ m \in all
    BY <1>1, <1>2, <1>3, SeqDef
<1>9. /\ Len(c) = n /\ DOMAIN c = 1 .. n /\ c[1] = sel[1] /\ c[n - 1] = sel[n - 1] /\ c[n] = m
      /\ \A i \in 1 .. n - 3 : c[i + 1] = d[i]
    <2> HIDE DEF all
    <2>1. /\ Len(c) = Len(d) + 3 /\ DOMAIN c = 1 .. Len(d) + 3
          /\ c[1] = sel[1] /\ c[Len(d) + 2] = sel[n - 1] /\ c[Len(d) + 3] = m
          /\ \A i \in 1 .. Len(d) : c[i + 1] = d[i]
        BY <1>8, Layout
    <2> HIDE DEF c
    <2>2. Len(d) = n - 3 /\ Len(d) + 3 = n /\ Len(d) + 2 = n - 1
        BY <1>2, <1>3
    <2> QED
        BY <2>1, <2>2
<1> HIDE DEF c
<1>10. \A i \in 1 .. n - 1 : c[i] = sel[i]
    <2> SUFFICES ASSUME NEW i \in 1 .. n - 1, i # 1, i # n - 1 PROVE c[i] = sel[i]
        BY <1>9
    <2>1. i - 1 \in 1 .. n - 3 /\ (i - 1) + 1 = i
        BY <1>1, <1>2
    <2>2. c[(i - 1) + 1] = d[i - 1] /\ d[i - 1] = sel[(i - 1) + 1]
        BY <1>3, <1>9, <2>1
    <2> QED
        BY <2>1, <2>2
<1>11. \A x \in Range(c) : x \in all /\ x.cycle = sel[1].cycle /\ x.content \notin Secret
    <2> SUFFICES ASSUME NEW i \in 1 .. n
                 PROVE  c[i] \in all /\ c[i].cycle = sel[1].cycle /\ c[i].content \notin Secret
        BY <1>9 DEF Range
    <2>1. sel[i] \in Range(sel) /\ sel[n] \in Range(sel)
        BY <1>1, <1>2 DEF Range
    <2>2. CASE i = n
        BY <1>6, <1>7, <1>9, <2>1, <2>2
    <2>3. CASE i \in 1 .. n - 1
        BY <1>7, <1>10, <2>1, <2>3
    <2> QED
        BY <1>2, <2>2, <2>3
<1>12. Strict(c)
    <2> SUFFICES ASSUME NEW i \in 1 .. n - 1 PROVE Earlier(c[i], c[i + 1])
        BY <1>9 DEF Strict
    <2>1. CASE i = n - 1
        BY <1>2, <1>6, <1>9, <1>10, <2>1
    <2>2. CASE i \in 1 .. n - 2
        <3>1. i + 1 \in 1 .. n - 1 /\ i \in 1 .. n - 1
            BY <1>2, <2>2
        <3>2. Earlier(sel[i], sel[i + 1])
            BY <1>7, <3>1 DEF Strict, n
        <3> QED
            BY <1>10, <3>1, <3>2
    <2> QED
        BY <1>2, <2>1, <2>2
<1>13. Between(all, sel[1], sel[n - 1]) \subseteq Range(d)
    <2>1. m.role # "user"
        BY DEF From
    <2> QED
        BY <1>7, <2>1 DEF Between, Decision
<1>14. Selectable(all, sel[1], d, sel[n - 1], m)
    <2> HIDE DEF all
    <2> QED
        BY <1>6, <1>7, <1>11, <1>12, <1>13 DEF Selectable, c
<1> QED
    BY <1>14 DEF sel, d, n, records

LEMMA CompareKeeps == ASSUME HandoffInv, NEW p \in Path, NEW m \in Message, Compare(p, m) PROVE HandoffInv'
<1> DEFINE body == file[p].body
           new == [body |-> body, remote |-> m]
<1>1. /\ equivalent' = equivalent \cup {new} /\ UNCHANGED <<export, file, candidate, sealed>>
      /\ Verifies(file[p])
      /\ From(m, "assistant", "MAINLINE") /\ m.cycle = body.cycle
      /\ m.session = Head(body.records).message.session
      /\ Earlier(body.records[Len(body.records) - 1].message, m)
      /\ m.content = Manual(body).content
    BY DEF Compare
<1>2. PICK s \in sealed : s.body = body /\ Whole(s)
    BY <1>1, VerifiedIsSealed
<1>3. \A b : Lineage(b)' = Lineage(b)
    BY <1>1 DEF Lineage
<1>4. SealedOK' /\ FilesOK' /\ ReviewedIsWhole' /\ export' \subseteq Message
    <2>1. \A x : Whole(x)' = Whole(x)
        BY DEF Whole
    <2>2. ReviewedIsWhole'
        BY <1>1, <1>3 DEF HandoffInv, ReviewedIsWhole
    <2> QED
        BY <1>1, <1>3, <2>1, <2>2 DEF HandoffInv, SealedOK, FilesOK
<1>5. EquivalentIsCapturable'
    <2>1. LET selected == MessagesOf(s.body.records)
              n == Len(selected)
          IN Selectable(s.messages \cup {m}, selected[1], SubSeq(selected, 2, n - 2), selected[n - 1], m)
        BY <1>1, <1>2, SelectableWith
    <2>2. LET selected == [i \in DOMAIN new.body.records |-> new.body.records[i].message]
              n == Len(selected)
          IN Selectable(s.messages \cup {new.remote}, selected[1], SubSeq(selected, 2, n - 2),
                        selected[n - 1], new.remote)
        BY <1>2, <2>1 DEF MessagesOf
    <2>3. s.body = new.body
        BY <1>2
    <2> HIDE DEF new
    <2> QED
        BY <1>1, <1>2, <2>2, <2>3 DEF HandoffInv, EquivalentIsCapturable
<1> QED
    BY <1>4, <1>5 DEF HandoffInv

\* An edit leaves the hash as it was.
LEMMA EditKeeps == ASSUME HandoffInv, NEW p \in Path, Edit(p) PROVE HandoffInv'
<1>1. file[p].kind = "packet" /\ UNCHANGED <<export, candidate, equivalent, sealed>>
    BY DEF Edit
<1>2. PICK x : file' = [file EXCEPT ![p].body.records = x]
    BY DEF Edit
<1>3. FilesOK
    BY DEF HandoffInv
<1>4. file[p] = [kind |-> "packet", body |-> file[p].body, hash |-> file[p].hash]
    BY <1>1, <1>3 DEF FilesOK
<1>5. file'[p] = [kind |-> "packet", body |-> file'[p].body, hash |-> file[p].hash]
    <2> DEFINE b == [file[p].body EXCEPT !.records = x]
    <2>1. file'[p] = [file[p] EXCEPT !.body = b]
        BY <1>2, <1>3 DEF FilesOK
    <2> HIDE DEF b
    <2>2. file'[p] = [kind |-> "packet", body |-> b, hash |-> file[p].hash]
        BY <1>4, <2>1
    <2> QED
        BY <2>2
<1>6. file' = [q \in Path |-> file'[q]] /\ \A q \in Path : q # p => file'[q] = file[q]
    BY <1>2, <1>3 DEF FilesOK
<1>7. FilesOK'
    <2> SUFFICES ASSUME NEW q \in Path, file'[q].kind = "packet"
                 PROVE  /\ file'[q] = [kind |-> "packet", body |-> file'[q].body, hash |-> file'[q].hash]
                        /\ \E s \in sealed' : s.body = file'[q].hash
        BY <1>6 DEF FilesOK
    <2>1. CASE q # p
        BY <1>1, <1>3, <1>6, <2>1 DEF FilesOK
    <2>2. CASE q = p
        <3>1. file'[p].hash = file[p].hash
            BY <1>5
        <3>2. \E s \in sealed : s.body = file[p].hash
            BY <1>1, <1>3 DEF FilesOK
        <3> QED
            BY <1>1, <1>5, <2>2, <3>1, <3>2
    <2> QED
        BY <2>1, <2>2
<1>8. \A b : Lineage(b)' = Lineage(b)
    BY <1>1 DEF Lineage
<1>9. \A x1 : Whole(x1)' = Whole(x1)
    BY DEF Whole
<1>10. ReviewedIsWhole' /\ EquivalentIsCapturable'
    BY <1>1, <1>8 DEF HandoffInv, ReviewedIsWhole, EquivalentIsCapturable
<1> QED
    BY <1>1, <1>7, <1>8, <1>9, <1>10 DEF HandoffInv, SealedOK

LEMMA HandoffUnchanged ==
    ASSUME HandoffInv, UNCHANGED <<file, candidate, equivalent, sealed>>, export' \subseteq Message
    PROVE  HandoffInv'
<1>1. \A b : Lineage(b)' = Lineage(b)
    BY DEF Lineage
<1>2. \A x : Whole(x)' = Whole(x)
    BY DEF Whole
<1>3. ReviewedIsWhole' /\ EquivalentIsCapturable'
    BY <1>1 DEF HandoffInv, ReviewedIsWhole, EquivalentIsCapturable
<1> QED
    BY <1>1, <1>2, <1>3 DEF HandoffInv, SealedOK, FilesOK

LEMMA HandoffStep == HandoffInv /\ HandoffNext => HandoffInv'
<1> SUFFICES ASSUME HandoffInv, HandoffNext PROVE HandoffInv'
    OBVIOUS
<1>1. ASSUME NEW m \in Message, Retrieve(m) PROVE HandoffInv'
    <2>1. UNCHANGED <<file, candidate, equivalent, sealed>> /\ export' \subseteq Message
        BY <1>1 DEF Retrieve, HandoffInv
    <2> QED
        BY <2>1, HandoffUnchanged
<1>2. ASSUME NEW p \in Path, CaptureCycle(p) PROVE HandoffInv'
    BY <1>2, CycleKeeps
<1>3. ASSUME NEW p \in Path, CaptureAssisted(p) PROVE HandoffInv'
    BY <1>3, AssistedKeeps
<1>4. ASSUME NEW p \in Path, CaptureLegacy(p) PROVE HandoffInv'
    BY <1>4, LegacyKeeps
<1>5. ASSUME NEW p \in Path, BuildCandidate(p) PROVE HandoffInv'
    BY <1>5, CandidateKeeps
<1>6. ASSUME NEW p \in Path, Edit(p) PROVE HandoffInv'
    BY <1>6, EditKeeps
<1>7. ASSUME NEW p \in Path, NEW m \in Message, Compare(p, m) PROVE HandoffInv'
    BY <1>7, CompareKeeps
<1> QED
    BY <1>1, <1>2, <1>3, <1>4, <1>5, <1>6, <1>7 DEF HandoffNext

\* Every packet that was ever sealed holds a cycle its capture could select, with
\* its lineage; a packet file that still verifies is one of them, whatever edits
\* and torn writes did; and what was built from it is whole.  This is the
\* inductive invariant behind the next two theorems.
THEOREM SealedAlways == CycleSpec => []HandoffInv
<1>1. CycleInit => HandoffInv
    BY DEF CycleInit, HandoffInit, HandoffInv, FilesOK, SealedOK, ReviewedIsWhole, EquivalentIsCapturable,
           Nothing
<1>2. HandoffInv /\ [InCapture \/ InReview]_reviewVars => HandoffInv'
    <2> SUFFICES ASSUME HandoffInv, [InCapture \/ InReview]_reviewVars PROVE HandoffInv'
        OBVIOUS
    <2>1. CASE InCapture
        BY <2>1, HandoffStep DEF InCapture
    <2>2. CASE UNCHANGED handoffVars
        <3>1. UNCHANGED <<file, candidate, equivalent, sealed>> /\ export' \subseteq Message
            BY <2>2 DEF handoffVars, HandoffInv
        <3> QED
            BY <3>1, HandoffUnchanged
    <2> QED
        BY <2>1, <2>2 DEF InReview, reviewVars
<1> QED
    BY <1>1, <1>2, PTL DEF CycleSpec

\* For any messages, in whatever order they become known, any number of captures,
\* decisions, edits and torn writes: the reviewer of a candidate is shown one whole
\* cycle in order, its revisions were really made, and a manual review of one line
\* is nowhere in it.  A longer one that a report quotes is not noticed.
THEOREM ReviewedAlwaysWhole == CycleSpec => []ReviewedIsWhole
<1>1. HandoffInv => ReviewedIsWhole
    BY DEF HandoffInv
<1> QED
    BY <1>1, SealedAlways, PTL

\* A remote review found equal to a user-assisted packet could have been captured
\* directly in its place.
THEOREM EquivalentAlwaysCapturable == CycleSpec => []EquivalentIsCapturable
<1>1. HandoffInv => EquivalentIsCapturable
    BY DEF HandoffInv
<1> QED
    BY <1>1, SealedAlways, PTL

\* The half that judges and the half that captures leave each other alone, so the
\* judgements agree in every behaviour of the two together.
THEOREM JudgedBesideCaptures == CycleSpec => [](RoutesAgree /\ HandoffsAdvance)
<1>1. CycleInit => Judged
  BY JudgedInit DEF CycleInit
<1>2. Judged /\ [InCapture \/ InReview]_reviewVars => Judged'
  BY JudgedStep DEF InCapture, InReview, reviewVars
<1>3. Judged => RoutesAgree /\ HandoffsAdvance
  BY Routes, Advances DEF RoutesAgree, HandoffsAdvance
<1> QED
  BY <1>1, <1>2, <1>3, PTL DEF CycleSpec
=============================================================================
