---------------------- MODULE ApiMainlineReturn_proofs ----------------------
(***************************************************************************)
(* For any tools, threads, returns, faults and changes: the states in the  *)
(* delivery ledger are backed by record files and a delivery ends once; a  *)
(* return is continued by one approved, paid call, and what the ledger     *)
(* calls COMPLETED was applied.                                            *)
(***************************************************************************)
EXTENDS ApiMainlineReturn, TLAPS

(***************************************************************************)
(* What each actor carries through its steps                               *)
(***************************************************************************)

ThreadSteps == {"act", "record", "state"}
Holding == {"record", "state"}
Carrying == {"packet file", "packet ledger", "record", "state"}

\* A tool creates and a thread moves a delivery; a step works on the copy of the
\* ledger that belongs to it.
Sane(a, s) ==
  /\ s \in State
  /\ s.step # "idle" => s.ret \in Return
  /\ s.step \in ThreadSteps => a \in Thread /\ <<s.from, s.to>> \in Moves
  /\ s.step \notin ThreadSteps \cup {"idle"} => a \in Tool
  /\ s.step \in {"return file", "return ledger"} => s.view \in [Return -> Maker]
  /\ s.step \in Carrying => s.view \in [Return -> Delivery]

Kept ==
  /\ returnFile \in [Return -> Maker] /\ returnEntry \in [Return -> Maker]
  /\ packetFile \in [Return -> Maker]
  /\ delivery \in [Return -> Delivery]
  /\ records \in [Return -> SUBSET RecordKind]
  /\ deliveryLock \in Thread \cup {NoActor}
  /\ pc \in [Actor -> State]
  /\ cut \subseteq Return
Sanity == \A a \in Actor : Sane(a, pc[a])

Locked == \A t \in Thread : deliveryLock = t <=> pc[t].step \in Holding

\* Every copy of the ledger is backed by the records, which only grow.
CopiesBacked ==
  \A a \in Actor : pc[a].step \in Carrying =>
    \A r \in Return : Backing(pc[a].view[r].state) \subseteq records[r]
RecordWritten ==
  \A t \in Thread : At(t, "state") => KindOf(pc[t].to) \in records[Of(t)]

\* The thread that holds the lock works on the entry it compared.
Pending ==
  \A t \in Thread : pc[t].step \in Holding =>
    /\ pc[t].view[Of(t)].state = pc[t].from
    /\ Of(t) \notin cut => delivery[Of(t)].state = pc[t].from

\* A receipt or a cancellation is in the ledger, or the thread that wrote it is
\* about to put it there.
Ends(r, state) ==
  KindOf(state) \in records[r] =>
    \/ delivery[r].state = state
    \/ \E t \in Thread : At(t, "state") /\ Of(t) = r /\ pc[t].to = state
Ending == \A r \in Return \ cut : Ends(r, "DELIVERED") /\ Ends(r, "CANCELLED")

Delivered ==
  Kept /\ Sanity /\ Locked /\ DeliveryBacked /\ CopiesBacked /\ RecordWritten
  /\ Pending /\ Ending

(***************************************************************************)
(* The data                                                                *)
(***************************************************************************)

LEMMA Kinds ==
  /\ KindOf("COPIED") = "copy" /\ KindOf("DELIVERED") = "receipt"
  /\ KindOf("CANCELLED") = "cancellation"
BY DEF KindOf

LEMMA Backings ==
  /\ Backing("NONE") = {} /\ Backing("PREPARED") = {} /\ Backing("COPIED") = {"copy"}
  /\ Backing("DELIVERED") = {"copy", "receipt"} /\ Backing("CANCELLED") = {"cancellation"}
BY DEF Backing

\* A move adds the one record its new state asks for beyond its old one.
LEMMA MoveBacked ==
  ASSUME NEW from, NEW to, <<from, to>> \in Moves
  PROVE  /\ from \in {"PREPARED", "COPIED"} /\ to \in {"COPIED", "DELIVERED", "CANCELLED"}
         /\ KindOf(to) \in RecordKind
         /\ Backing(to) \subseteq Backing(from) \cup {KindOf(to)}
         /\ from \in DeliveryState /\ to \in DeliveryState
BY Kinds, Backings DEF Moves, RecordKind, DeliveryState

\* A step of one actor leaves the others where they are.
LEMMA Became ==
  ASSUME Kept, Sanity, NEW a \in Actor, NEW s, Sane(a, s), Becomes(a, s)
  PROVE  /\ pc' \in [Actor -> State] /\ pc'[a] = s
         /\ \A b \in Actor \ {a} : pc'[b] = pc[b]
         /\ Sanity'
BY DEF Kept, Sanity, Becomes, Sane

LEMMA IdleSane == ASSUME NEW a PROVE Sane(a, Idle) /\ Idle.step = "idle"
BY DEF Sane, Idle, State, Step, Maker, DeliveryState, View, ThreadSteps, Carrying

LEMMA Stepped ==
  ASSUME NEW s \in State, NEW step \in Step
  PROVE  LET n == [s EXCEPT !.step = step]
         IN  /\ n \in State /\ n.step = step /\ n.ret = s.ret /\ n.maker = s.maker
             /\ n.from = s.from /\ n.to = s.to /\ n.view = s.view
BY DEF State

LEMMA ReadDoes ==
  ASSUME NEW a, pc[a] \in State, NEW step \in Step, NEW view \in View, Read(a, step, view)
  PROVE  \E n \in State :
           /\ Becomes(a, n) /\ n.step = step /\ n.ret = pc[a].ret /\ n.maker = pc[a].maker
           /\ n.from = pc[a].from /\ n.to = pc[a].to /\ n.view = view
<1>1. PICK p \in State : p = pc[a]
  OBVIOUS
<1>2. PICK n : n = [p EXCEPT !.step = step, !.view = view]
  OBVIOUS
<1>3. Becomes(a, n)
  BY <1>1, <1>2, Zenon DEF Read
<1>4. /\ n \in State /\ n.step = step /\ n.ret = p.ret /\ n.maker = p.maker
      /\ n.from = p.from /\ n.to = p.to /\ n.view = view
  BY <1>1, <1>2 DEF State
<1> QED
  BY <1>1, <1>3, <1>4

(***************************************************************************)
(* Each step keeps the invariant                                           *)
(***************************************************************************)

\* A tool that neither reads nor writes the delivery ledger.
LEMMA ToolKeeps ==
  ASSUME Delivered, NEW a \in Tool, NEW s, Sane(a, s), Becomes(a, s),
         s.step \in Carrying => s.view = delivery \/ (s.view = pc[a].view /\ pc[a].step \in Carrying),
         returnFile' \in [Return -> Maker], returnEntry' \in [Return -> Maker],
         packetFile' \in [Return -> Maker],
         UNCHANGED <<delivery, records, deliveryLock, cut>>
  PROVE  Delivered'
<1>1. a \in Actor /\ a \notin Thread /\ Thread \subseteq Actor
  BY ActorAssumption DEF Actor
<1>2. /\ pc' \in [Actor -> State] /\ pc'[a] = s /\ Sanity'
      /\ \A b \in Actor \ {a} : pc'[b] = pc[b]
  BY <1>1, Became DEF Delivered
<1>3. \A t \in Thread : pc'[t] = pc[t]
  BY <1>1, <1>2
<1>4. Kept'
  BY <1>2 DEF Delivered, Kept
<1>5. Locked'
  BY <1>3 DEF Delivered, Locked
<1>6. DeliveryBacked'
  BY DEF Delivered, DeliveryBacked
<1>7. CopiesBacked'
  BY <1>1, <1>2 DEF Delivered, CopiesBacked, DeliveryBacked
<1>8. RecordWritten'
  BY <1>3 DEF Delivered, RecordWritten, At, Of
<1>9. Pending'
  BY <1>3 DEF Delivered, Pending, Of
<1>10. Ending'
  BY <1>3 DEF Delivered, Ending, Ends, At, Of
<1> QED
  BY <1>2, <1>4, <1>5, <1>6, <1>7, <1>8, <1>9, <1>10 DEF Delivered

LEMMA IdleStarts ==
  ASSUME NEW step \in Step, NEW r \in Return
  PROVE  LET s == [Idle EXCEPT !.step = step, !.ret = r]
         IN  s \in State /\ s.step = step /\ s.ret = r
BY DEF Idle, State, Step, Maker, DeliveryState, View

LEMMA ViewsAreViews ==
  [Return -> Maker] \subseteq View /\ [Return -> Delivery] \subseteq View
BY DEF View

LEMMA ToolStep ==
  ASSUME Delivered, NEW a \in Tool, CallTool(a) \/ EnterReturn(a) \/ WriteReturnFile(a)
         \/ WriteReturnLedger(a) \/ CheckReturn(a) \/ EnterPacket(a) \/ WritePacketFile(a)
  PROVE  Delivered'
<1>1. a \in Actor /\ a \in Maker /\ pc[a] \in State /\ Sane(a, pc[a])
  BY DEF Delivered, Kept, Sanity, Actor, Maker
<1>2. /\ returnFile \in [Return -> Maker] /\ returnEntry \in [Return -> Maker]
      /\ packetFile \in [Return -> Maker] /\ delivery \in [Return -> Delivery]
  BY DEF Delivered, Kept
<1>3. CASE Leave(a) /\ UNCHANGED <<returns, packets, deliveryLock, cut>>
  <2>1. Sane(a, Idle) /\ Idle.step \notin Carrying
    BY IdleSane DEF Carrying
  <2> QED
    BY <1>2, <1>3, <2>1, ToolKeeps DEF Leave, returns, packets
<1>4. ASSUME NEW r \in Return, CreateReturn(a, r) PROVE Delivered'
  <2> DEFINE s == [Idle EXCEPT !.step = "return", !.ret = r]
  <2>1. s \in State /\ s.step = "return" /\ s.ret = r
    BY IdleStarts DEF Step
  <2>2. Becomes(a, s)
    BY <1>4 DEF CreateReturn, Begin
  <2> HIDE DEF s
  <2>3. Sane(a, s) /\ s.step \notin Carrying
    BY <2>1 DEF Sane, Carrying, ThreadSteps
  <2> QED
    BY <1>2, <1>4, <2>2, <2>3, ToolKeeps DEF CreateReturn, returns, packets
<1>5. ASSUME NEW r \in Return, CreateDelivery(a, r) PROVE Delivered'
  <2> DEFINE s == [Idle EXCEPT !.step = "packet", !.ret = r, !.maker = returnFile[r]]
  <2>1. s \in State /\ s.step = "packet" /\ s.ret = r
    BY <1>2 DEF Idle, State, Step, Maker, DeliveryState, View
  <2>2. Becomes(a, s)
    BY <1>5 DEF CreateDelivery
  <2> HIDE DEF s
  <2>3. Sane(a, s) /\ s.step \notin Carrying
    BY <2>1 DEF Sane, Carrying, ThreadSteps
  <2> QED
    BY <1>2, <1>5, <2>2, <2>3, ToolKeeps DEF CreateDelivery, returns, packets
<1>6. CASE EnterReturn(a)
  <2>1. At(a, "return") /\ UNCHANGED <<returns, packets, deliveryLock, cut>>
    BY <1>6 DEF EnterReturn
  <2>2. "return file" \in Step /\ returnEntry \in View
    BY <1>2, ViewsAreViews DEF Step
  <2>4. CASE Leave(a)
    BY <1>3, <2>1, <2>4
  <2> SUFFICES ASSUME Read(a, "return file", returnEntry) PROVE Delivered'
    BY <1>6, <2>4 DEF EnterReturn
  <2>5. PICK s \in State : /\ Becomes(a, s) /\ s.step = "return file" /\ s.ret = pc[a].ret
                          /\ s.view = returnEntry
    BY <1>1, <2>2, ReadDoes
  <2>3. Sane(a, s) /\ s.step \notin Carrying
    BY <1>1, <1>2, <2>1, <2>5 DEF Sane, Carrying, ThreadSteps, At
  <2> QED
    BY <1>2, <2>1, <2>3, <2>5, ToolKeeps DEF returns, packets
<1>7. CASE WriteReturnFile(a)
  <2> DEFINE s == [pc[a] EXCEPT !.step = "return ledger"]
  <2>1. At(a, "return file") /\ Becomes(a, s)
        /\ UNCHANGED <<returnEntry, packets, deliveryLock, cut>>
        /\ returnFile' \in [Return -> Maker]
    BY <1>1, <1>2, <1>7 DEF WriteReturnFile, Goto
  <2>2. s \in State /\ s.step = "return ledger" /\ s.ret = pc[a].ret /\ s.view = pc[a].view
    BY <1>1, Stepped DEF Step
  <2> HIDE DEF s
  <2>3. Sane(a, s) /\ s.step \notin Carrying
    BY <1>1, <2>1, <2>2 DEF Sane, Carrying, ThreadSteps, At
  <2> QED
    BY <1>2, <2>1, <2>3, ToolKeeps DEF packets
<1>8. CASE WriteReturnLedger(a)
  <2>1. Sane(a, Idle) /\ Idle.step \notin Carrying
    BY IdleSane DEF Carrying
  <2>2. pc[a].view \in [Return -> Maker]
    BY <1>1, <1>8 DEF WriteReturnLedger, At, Sane
  <2>3. returnEntry' \in [Return -> Maker]
    BY <1>1, <1>8, <2>2 DEF WriteReturnLedger
  <2> QED
    BY <1>2, <1>8, <2>1, <2>3, ToolKeeps DEF WriteReturnLedger, Leave, packets
<1>9. CASE CheckReturn(a)
  <2> DEFINE s == [pc[a] EXCEPT !.step = "packet entry"]
  <2>1. At(a, "packet") /\ (Becomes(a, s) \/ Leave(a))
        /\ UNCHANGED <<returns, packets, deliveryLock, cut>>
    BY <1>9 DEF CheckReturn, Goto
  <2>2. s \in State /\ s.step = "packet entry" /\ s.ret = pc[a].ret
    BY <1>1, Stepped DEF Step
  <2> HIDE DEF s
  <2>3. Sane(a, s) /\ s.step \notin Carrying
    BY <1>1, <2>1, <2>2 DEF Sane, Carrying, ThreadSteps, At
  <2> QED
    BY <1>2, <1>3, <2>1, <2>3, ToolKeeps DEF returns, packets
<1>10. CASE EnterPacket(a)
  <2>1. At(a, "packet entry") /\ UNCHANGED <<returns, packets, deliveryLock, cut>>
    BY <1>10 DEF EnterPacket
  <2>2. "packet file" \in Step /\ delivery \in View
    BY <1>2, ViewsAreViews DEF Step
  <2>4. CASE Leave(a)
    BY <1>3, <2>1, <2>4
  <2> SUFFICES ASSUME Read(a, "packet file", delivery) PROVE Delivered'
    BY <1>10, <2>4 DEF EnterPacket
  <2>5. PICK s \in State : /\ Becomes(a, s) /\ s.step = "packet file" /\ s.ret = pc[a].ret
                          /\ s.view = delivery
    BY <1>1, <2>2, ReadDoes
  <2>3. Sane(a, s)
    BY <1>1, <1>2, <2>1, <2>5 DEF Sane, Carrying, ThreadSteps, At
  <2> QED
    BY <1>2, <2>1, <2>3, <2>5, ToolKeeps DEF returns, packets
<1>11. CASE WritePacketFile(a)
  <2> DEFINE s == [pc[a] EXCEPT !.step = "packet ledger"]
  <2>1. At(a, "packet file") /\ Becomes(a, s)
        /\ UNCHANGED <<returns, delivery, records, deliveryLock, cut>>
        /\ packetFile' \in [Return -> Maker]
    BY <1>1, <1>2, <1>11 DEF WritePacketFile, Goto
  <2>2. s \in State /\ s.step = "packet ledger" /\ s.ret = pc[a].ret /\ s.view = pc[a].view
    BY <1>1, Stepped DEF Step
  <2> HIDE DEF s
  <2>3. Sane(a, s) /\ pc[a].step \in Carrying
    BY <1>1, <2>1, <2>2 DEF Sane, Carrying, ThreadSteps, At
  <2> QED
    BY <1>2, <2>1, <2>2, <2>3, ToolKeeps DEF returns
<1> QED
  BY <1>4, <1>5, <1>6, <1>7, <1>8, <1>9, <1>10, <1>11 DEF CallTool

\* A tool overwrites the ledger with its copy: what that takes from an entry is cut.
LEMMA PacketLedgerStep ==
  ASSUME Delivered, NEW a \in Tool, WritePacketLedger(a)
  PROVE  Delivered'
<1> DEFINE r == Of(a)
           new == [state |-> "PREPARED", packet |-> a]
<1>1. a \in Actor /\ a \in Maker /\ pc[a] \in State /\ Sane(a, pc[a]) /\ a \notin Thread
      /\ Thread \subseteq Actor
  BY ActorAssumption DEF Delivered, Kept, Sanity, Actor, Maker
<1>2. /\ At(a, "packet ledger") /\ r \in Return /\ pc[a].view \in [Return -> Delivery]
      /\ delivery' = [pc[a].view EXCEPT ![r] = new] /\ Becomes(a, Idle)
      /\ cut' = cut \cup Overwritten(delivery, delivery', r)
                    \cup (IF delivery[r] = NoDelivery THEN {} ELSE {r})
      /\ UNCHANGED <<returnFile, returnEntry, packetFile, records, deliveryLock>>
  BY <1>1 DEF WritePacketLedger, Leave, Sane, Of, At, Carrying, returns
<1>3. new \in Delivery /\ new.state = "PREPARED"
  BY <1>1 DEF Delivery, DeliveryState
<1> HIDE DEF r, new
<1>4. /\ pc' \in [Actor -> State] /\ pc'[a] = Idle /\ Sanity'
      /\ \A b \in Actor \ {a} : pc'[b] = pc[b]
  BY <1>1, <1>2, IdleSane, Became DEF Delivered
<1>5. \A t \in Thread : pc'[t] = pc[t]
  BY <1>1, <1>4
<1>6. delivery' \in [Return -> Delivery] /\ delivery'[r] = new
      /\ \A q \in Return \ {r} : delivery'[q] = pc[a].view[q]
  BY <1>2, <1>3
<1>7. cut \subseteq cut' /\ cut' \subseteq Return
      /\ \A q \in Return \ cut' : /\ q # r => delivery'[q] = delivery[q]
                                  /\ q = r => delivery[q] = NoDelivery
  BY <1>2 DEF Overwritten, Delivered, Kept
<1>8. Kept'
  BY <1>2, <1>4, <1>6, <1>7 DEF Delivered, Kept
<1>9. Locked'
  BY <1>2, <1>5 DEF Delivered, Locked
<1>10. \A q \in Return : Backing(pc[a].view[q].state) \subseteq records[q]
  BY <1>1, <1>2 DEF Delivered, CopiesBacked, Carrying, At
<1>11. DeliveryBacked'
  <2> SUFFICES ASSUME NEW q \in Return PROVE Backing(delivery'[q].state) \subseteq records[q]
    BY <1>2 DEF DeliveryBacked
  <2> QED
    BY <1>3, <1>6, <1>10, Backings
<1>12. CopiesBacked'
  BY <1>1, <1>2, <1>4, IdleSane DEF Delivered, CopiesBacked, Carrying
<1>13. RecordWritten'
  BY <1>2, <1>5 DEF Delivered, RecordWritten, At, Of
<1>14. \A t \in Thread : pc[t].step \in Holding => pc[t].from \in {"PREPARED", "COPIED"} /\ Of(t) \in Return
  <2> SUFFICES ASSUME NEW t \in Thread, pc[t].step \in Holding
               PROVE  pc[t].from \in {"PREPARED", "COPIED"} /\ Of(t) \in Return
    OBVIOUS
  <2>1. Sane(t, pc[t])
    BY <1>1 DEF Delivered, Sanity
  <2> QED
    BY <2>1, MoveBacked DEF Sane, Holding, ThreadSteps, Of
<1>15. Pending'
  <2> SUFFICES ASSUME NEW t \in Thread, pc[t].step \in Holding
               PROVE  /\ pc[t].view[Of(t)].state = pc[t].from
                      /\ Of(t) \notin cut' => delivery'[Of(t)].state = pc[t].from
    BY <1>5 DEF Pending, Of
  <2>1. pc[t].view[Of(t)].state = pc[t].from
        /\ (Of(t) \notin cut => delivery[Of(t)].state = pc[t].from)
    BY DEF Delivered, Pending
  <2>2. NoDelivery.state = "NONE"
    BY DEF NoDelivery
  <2> QED
    <3>1. PICK q \in Return : q = Of(t)
      BY <1>14
    <3>2. q \notin cut' => q \notin cut
      BY <1>7
    <3>3. q \notin cut' => delivery[q].state = pc[t].from /\ delivery[q] # NoDelivery
      BY <1>14, <2>1, <2>2, <3>1, <3>2
    <3>4. q \notin cut' => delivery'[q].state = pc[t].from
      BY <1>7, <3>3
    <3> QED
      BY <2>1, <3>1, <3>4
<1>16. Ending'
  <2> SUFFICES ASSUME NEW q \in Return \ cut', NEW state \in {"DELIVERED", "CANCELLED"}
               PROVE  Ends(q, state)'
    BY DEF Ending
  <2> SUFFICES ASSUME KindOf(state) \in records[q]
               PROVE  \/ delivery'[q].state = state
                      \/ \E t \in Thread : At(t, "state") /\ Of(t) = q /\ pc[t].to = state
    BY <1>2, <1>5 DEF Ends, At, Of
  <2>1. \/ delivery[q].state = state
        \/ \E t \in Thread : At(t, "state") /\ Of(t) = q /\ pc[t].to = state
    <3>1. q \in Return \ cut
      BY <1>7
    <3>2. Ends(q, "DELIVERED") /\ Ends(q, "CANCELLED")
      BY <3>1 DEF Delivered, Ending
    <3>3. Ends(q, state)
      BY <3>2
    <3> QED
      BY <3>3 DEF Ends
  <2>2. CASE \E t \in Thread : At(t, "state") /\ Of(t) = q /\ pc[t].to = state
    BY <2>2
  <2>3. CASE delivery[q].state = state
    BY <1>7, <2>3 DEF NoDelivery
  <2> QED
    BY <2>1, <2>2, <2>3
<1> QED
  BY <1>4, <1>8, <1>9, <1>11, <1>12, <1>13, <1>15, <1>16 DEF Delivered

\* The calls and the comparison of a transition leave the stores alone.
LEMMA ThreadKeeps ==
  ASSUME Delivered, NEW t \in Thread, NEW s, Sane(t, s), Becomes(t, s),
         s.step = "idle" \/ s.step = "act", pc[t].step \notin Holding,
         UNCHANGED <<returns, packets, deliveryLock, cut>>
  PROVE  Delivered'
<1>1. t \in Actor /\ Thread \subseteq Actor
  BY DEF Actor
<1>2. /\ pc' \in [Actor -> State] /\ pc'[t] = s /\ Sanity'
      /\ \A b \in Actor \ {t} : pc'[b] = pc[b]
  BY <1>1, Became DEF Delivered
<1>3. UNCHANGED <<returnFile, returnEntry, packetFile, delivery, records, deliveryLock, cut>>
  BY DEF returns, packets
<1>4. s.step \notin Holding /\ s.step \notin Carrying /\ s.step # "state"
  BY DEF Holding, Carrying
<1>5. Kept' /\ DeliveryBacked'
  BY <1>2, <1>3 DEF Delivered, Kept, DeliveryBacked
<1>6. Locked'
  BY <1>1, <1>2, <1>3, <1>4 DEF Delivered, Locked
<1>7. CopiesBacked'
  BY <1>2, <1>3, <1>4 DEF Delivered, CopiesBacked
<1>8. RecordWritten'
  BY <1>1, <1>2, <1>3, <1>4 DEF Delivered, RecordWritten, At, Of
<1>9. Pending'
  BY <1>1, <1>2, <1>3, <1>4 DEF Delivered, Pending, Of
<1>10. Ending'
  <2>1. \A u \in Thread : At(u, "state") => u # t /\ pc'[u] = pc[u]
    BY <1>1, <1>2 DEF At, Holding
  <2> QED
    BY <1>3, <2>1 DEF Delivered, Ending, Ends, At, Of
<1> QED
  BY <1>2, <1>5, <1>6, <1>7, <1>8, <1>9, <1>10 DEF Delivered

LEMMA TransitionStep ==
  ASSUME Delivered, NEW t \in Thread, NEW r \in Return, NEW to \in DeliveryState,
         Transition(t, r, to)
  PROVE  Delivered'
<1> DEFINE s == [Idle EXCEPT !.step = "act", !.ret = r, !.maker = delivery[r].packet,
                             !.from = delivery[r].state, !.to = to]
<1>1. /\ pc[t].step = "idle" /\ Becomes(t, s) /\ <<delivery[r].state, to>> \in Moves
      /\ UNCHANGED <<returns, packets, deliveryLock, cut>>
  BY DEF Transition, At
<1>2. delivery[r].packet \in Maker /\ delivery[r].state \in DeliveryState
  BY DEF Delivered, Kept, Delivery
<1>3. s \in State /\ s.step = "act" /\ s.ret = r /\ s.from = delivery[r].state /\ s.to = to
  BY <1>2 DEF Idle, State, Step, Maker, DeliveryState, View
<1> HIDE DEF s
<1>4. Sane(t, s)
  BY <1>1, <1>3 DEF Sane, ThreadSteps, Carrying
<1> QED
  BY <1>1, <1>3, <1>4, ThreadKeeps DEF Holding

LEMMA EnterTransitionStep ==
  ASSUME Delivered, NEW t \in Thread, EnterTransition(t)
  PROVE  Delivered'
<1>1. t \in Actor /\ pc[t] \in State /\ Sane(t, pc[t]) /\ Thread \subseteq Actor
  BY DEF Delivered, Kept, Sanity, Actor
<1>2. /\ pc[t].step = "act" /\ deliveryLock = NoActor
      /\ UNCHANGED <<returnFile, returnEntry, packetFile, delivery, records, cut>>
  BY DEF EnterTransition, At, returns, packets
<1>3. CASE Leave(t) /\ UNCHANGED deliveryLock
  <2>1. Sane(t, Idle) /\ Idle.step = "idle"
    BY IdleSane
  <2> QED
    BY <1>2, <1>3, <2>1, ThreadKeeps DEF Leave, Holding, returns, packets
<1>4. CASE Current(t) /\ deliveryLock' = t /\ Read(t, "record", delivery)
  <2>1. "record" \in Step /\ delivery \in View
    BY ViewsAreViews DEF Step, Delivered, Kept
  <2>2. PICK s \in State :
          /\ Becomes(t, s) /\ s.step = "record" /\ s.ret = pc[t].ret /\ s.maker = pc[t].maker
          /\ s.from = pc[t].from /\ s.to = pc[t].to /\ s.view = delivery
    BY <1>1, <1>4, <2>1, ReadDoes
  <2>3. delivery \in [Return -> Delivery] /\ Of(t) = s.ret /\ s.ret \in Return
    BY <1>1, <1>2, <2>2 DEF Delivered, Kept, Sane, Of
  <2>4. Sane(t, s)
    BY <1>1, <1>2, <2>2, <2>3 DEF Sane, ThreadSteps, Carrying
  <2>5. /\ pc' \in [Actor -> State] /\ pc'[t] = s /\ Sanity'
        /\ \A b \in Actor \ {t} : pc'[b] = pc[b]
    BY <1>1, <2>2, <2>4, Became DEF Delivered
  <2>6. delivery[s.ret].state = s.from
    BY <1>4, <2>2, <2>3 DEF Current
  <2>7. \A u \in Thread : pc[u].step \notin Holding
    BY <1>2, ActorAssumption DEF Delivered, Locked
  <2>8. Kept' /\ DeliveryBacked'
    BY <1>2, <1>4, <2>5 DEF Delivered, Kept, DeliveryBacked
  <2>9. Locked'
    BY <1>1, <1>4, <2>2, <2>5, <2>7 DEF Locked, Holding
  <2>10. CopiesBacked'
    BY <1>1, <1>2, <2>2, <2>5 DEF Delivered, CopiesBacked, DeliveryBacked
  <2>11. \A u \in Thread : pc'[u].step = "state" => FALSE
    BY <1>1, <2>2, <2>5, <2>7 DEF Holding
  <2>12. RecordWritten'
    BY <2>11 DEF RecordWritten, At
  <2>13. Pending'
    BY <1>1, <1>2, <2>2, <2>3, <2>5, <2>6, <2>7 DEF Pending, Of
  <2>14. Ending'
    BY <1>2, <2>7 DEF Delivered, Ending, Ends, At, Holding
  <2> QED
    BY <2>5, <2>8, <2>9, <2>10, <2>12, <2>13, <2>14 DEF Delivered
<1> QED
  BY <1>3, <1>4 DEF EnterTransition

\* At most one thread is past the comparison.
LEMMA Alone ==
  ASSUME Delivered, NEW t \in Thread, pc[t].step \in Holding
  PROVE  /\ deliveryLock = t
         /\ \A u \in Thread \ {t} : pc[u].step \notin Holding
BY DEF Delivered, Locked

LEMMA WriteRecordStep ==
  ASSUME Delivered, NEW t \in Thread, WriteRecord(t)
  PROVE  Delivered'
<1> DEFINE r == Of(t)
           kind == KindOf(pc[t].to)
           s == [pc[t] EXCEPT !.step = "state"]
<1>1. /\ t \in Actor /\ Thread \subseteq Actor /\ pc[t] \in State /\ Sane(t, pc[t])
      /\ pc[t].step = "record" /\ Becomes(t, s)
      /\ records' = [records EXCEPT ![r] = records[r] \cup {kind}]
      /\ UNCHANGED <<returnFile, returnEntry, packetFile, delivery, deliveryLock, cut>>
  BY DEF WriteRecord, Goto, At, Delivered, Kept, Sanity, Actor, returns
<1>2. /\ s \in State /\ s.step = "state" /\ s.ret = pc[t].ret /\ s.from = pc[t].from
      /\ s.to = pc[t].to /\ s.view = pc[t].view
  BY <1>1, Stepped DEF Step
<1>3. r \in Return /\ <<pc[t].from, pc[t].to>> \in Moves /\ r = s.ret /\ kind = KindOf(s.to)
  BY <1>1, <1>2 DEF Sane, ThreadSteps, Of
<1>4. kind \in RecordKind /\ pc[t].from \in {"PREPARED", "COPIED"}
      /\ pc[t].to \in {"COPIED", "DELIVERED", "CANCELLED"}
  BY <1>3, MoveBacked
<1> HIDE DEF r, kind, s
<1>5. Sane(t, s)
  BY <1>1, <1>2 DEF Sane, ThreadSteps, Carrying
<1>6. /\ pc' \in [Actor -> State] /\ pc'[t] = s /\ Sanity'
      /\ \A b \in Actor \ {t} : pc'[b] = pc[b]
  BY <1>1, <1>5, Became DEF Delivered
<1>7. /\ records' \in [Return -> SUBSET RecordKind] /\ records'[r] = records[r] \cup {kind}
      /\ \A q \in Return \ {r} : records'[q] = records[q]
      /\ \A q \in Return : records[q] \subseteq records'[q]
  BY <1>1, <1>3, <1>4 DEF Delivered, Kept
<1>8. \A u \in Thread \ {t} : pc[u].step \notin Holding /\ pc'[u] = pc[u]
  BY <1>1, <1>6, Alone DEF Holding
<1>9. Kept'
  BY <1>1, <1>6, <1>7 DEF Delivered, Kept
<1>10. Locked'
  BY <1>1, <1>2, <1>6, <1>8 DEF Delivered, Locked, Holding
<1>11. DeliveryBacked'
  BY <1>1, <1>7 DEF Delivered, DeliveryBacked
<1>12. CopiesBacked'
  <2> SUFFICES ASSUME NEW a \in Actor, pc'[a].step \in Carrying, NEW q \in Return
               PROVE  Backing(pc'[a].view[q].state) \subseteq records'[q]
    BY DEF CopiesBacked
  <2>1. pc[a].step \in Carrying /\ pc'[a].view = pc[a].view
    BY <1>1, <1>2, <1>6 DEF Carrying
  <2>2. Backing(pc[a].view[q].state) \subseteq records[q]
    BY <2>1 DEF Delivered, CopiesBacked
  <2> QED
    BY <1>7, <2>1, <2>2
<1>13. RecordWritten'
  BY <1>1, <1>2, <1>3, <1>6, <1>7, <1>8 DEF RecordWritten, At, Of, Holding
<1>14. pc[t].view[r].state = pc[t].from /\ (r \notin cut => delivery[r].state = pc[t].from)
  BY <1>1 DEF Delivered, Pending, Holding, r
<1>15. Pending'
  BY <1>1, <1>2, <1>3, <1>6, <1>8, <1>14 DEF Pending, Of
<1>16. Ending'
  <2> SUFFICES ASSUME NEW q \in Return \ cut, NEW state \in {"DELIVERED", "CANCELLED"},
                      KindOf(state) \in records'[q]
               PROVE  \/ delivery[q].state = state
                      \/ q = r /\ pc[t].to = state
    <3>1. At(t, "state")' /\ Of(t)' = r /\ pc'[t].to = pc[t].to
      BY <1>2, <1>3, <1>6 DEF At, Of
    <3> QED
      BY <1>1, <3>1 DEF Ending, Ends
  <2>1. CASE KindOf(state) \in records[q]
    <3>1. Ends(q, "DELIVERED") /\ Ends(q, "CANCELLED")
      BY DEF Delivered, Ending
    <3>2. \A u \in Thread : ~At(u, "state")
      BY <1>1, <1>8 DEF At, Holding
    <3> QED
      BY <2>1, <3>1, <3>2 DEF Ends
  <2>2. CASE KindOf(state) \notin records[q]
    <3>1. q = r /\ kind = KindOf(state)
      BY <1>7, <2>2
    <3>2. pc[t].to = state
      BY <1>2, <1>3, <1>4, <3>1, Kinds
    <3> QED
      BY <3>1, <3>2
  <2> QED
    BY <2>1, <2>2
<1> QED
  BY <1>6, <1>9, <1>10, <1>11, <1>12, <1>13, <1>15, <1>16 DEF Delivered

\* The copy with the new state: backed by the record that was written first.
LEMMA WriteStateStep ==
  ASSUME Delivered, NEW t \in Thread, WriteState(t)
  PROVE  Delivered'
<1> DEFINE r == Of(t)
           to == pc[t].to
<1>1. /\ t \in Actor /\ Thread \subseteq Actor /\ pc[t] \in State /\ Sane(t, pc[t])
      /\ pc[t].step = "state" /\ Becomes(t, Idle) /\ deliveryLock' = NoActor
      /\ delivery' = [pc[t].view EXCEPT ![r].state = to]
      /\ cut' = cut \cup Overwritten(delivery, delivery', r)
      /\ UNCHANGED <<returnFile, returnEntry, packetFile, records>>
  BY DEF WriteState, Leave, At, Delivered, Kept, Sanity, Actor, returns
<1>2. r \in Return /\ <<pc[t].from, to>> \in Moves /\ pc[t].view \in [Return -> Delivery]
  BY <1>1 DEF Sane, ThreadSteps, Carrying, Of
<1>3. /\ pc[t].from \in {"PREPARED", "COPIED"} /\ to \in {"COPIED", "DELIVERED", "CANCELLED"}
      /\ Backing(to) \subseteq Backing(pc[t].from) \cup {KindOf(to)} /\ to \in DeliveryState
  BY <1>2, MoveBacked
<1>4. /\ pc[t].view[r].state = pc[t].from
      /\ r \notin cut => delivery[r].state = pc[t].from
  BY <1>1 DEF Delivered, Pending, Holding
<1>5. /\ KindOf(to) \in records[r]
      /\ \A q \in Return : Backing(pc[t].view[q].state) \subseteq records[q]
  BY <1>1 DEF Delivered, RecordWritten, CopiesBacked, Carrying, At
<1>6. \A u \in Thread \ {t} : pc[u].step \notin Holding
  BY <1>1, Alone DEF Holding
<1> HIDE DEF r, to
<1>7. /\ pc' \in [Actor -> State] /\ pc'[t] = Idle /\ Sanity'
      /\ \A b \in Actor \ {t} : pc'[b] = pc[b]
  BY <1>1, IdleSane, Became DEF Delivered
<1>8. /\ delivery' \in [Return -> Delivery] /\ delivery'[r].state = to
      /\ \A q \in Return \ {r} : delivery'[q] = pc[t].view[q]
  BY <1>1, <1>2, <1>3 DEF Delivery
<1>9. cut \subseteq cut' /\ cut' \subseteq Return
      /\ \A q \in Return \ cut' : q # r => delivery'[q] = delivery[q]
  BY <1>1 DEF Overwritten, Delivered, Kept
<1>10. \A u \in Thread : pc'[u].step \notin Holding
  BY <1>1, <1>6, <1>7, IdleSane DEF Holding
<1>11. Kept'
  BY <1>1, <1>7, <1>8, <1>9 DEF Delivered, Kept
<1>12. Locked'
  BY <1>1, <1>10, ActorAssumption DEF Locked
<1>13. DeliveryBacked'
  <2> SUFFICES ASSUME NEW q \in Return PROVE Backing(delivery'[q].state) \subseteq records[q]
    BY <1>1 DEF DeliveryBacked
  <2>1. CASE q = r
    BY <1>2, <1>3, <1>4, <1>5, <1>8, <2>1
  <2>2. CASE q # r
    BY <1>5, <1>8, <2>2
  <2> QED
    BY <2>1, <2>2
<1>14. CopiesBacked'
  BY <1>1, <1>7, IdleSane DEF Delivered, CopiesBacked, Carrying
<1>15. RecordWritten' /\ Pending'
  BY <1>10 DEF RecordWritten, Pending, At, Holding
<1>16. Ending'
  <2> SUFFICES ASSUME NEW q \in Return \ cut', NEW state \in {"DELIVERED", "CANCELLED"},
                      KindOf(state) \in records[q]
               PROVE  delivery'[q].state = state
    BY <1>1 DEF Ending, Ends
  <2>1. Ends(q, "DELIVERED") /\ Ends(q, "CANCELLED") /\ q \notin cut
    BY <1>9 DEF Delivered, Ending
  <2>2. delivery[q].state = state \/ (q = r /\ to = state)
    BY <1>6, <2>1 DEF Ends, At, Holding, r, to
  <2>3. CASE q = r
    BY <1>3, <1>4, <1>8, <2>1, <2>2, <2>3
  <2>4. CASE q # r
    BY <1>9, <2>2, <2>4
  <2> QED
    BY <2>3, <2>4
<1> QED
  BY <1>7, <1>11, <1>12, <1>13, <1>14, <1>15, <1>16 DEF Delivered

\* Actors stop anywhere: a record whose ledger entry is missing is cut.
LEMMA StopStep ==
  ASSUME Delivered, NEW actors \in SUBSET Actor, StopActors(actors)
  PROVE  Delivered'
<1>1. /\ cut' = cut \cup HalfWritten(actors)
      /\ pc' = [a \in Actor |-> IF a \in actors THEN Idle ELSE pc[a]]
      /\ deliveryLock' = (IF deliveryLock \in actors THEN NoActor ELSE deliveryLock)
      /\ UNCHANGED <<returnFile, returnEntry, packetFile, delivery, records>>
  BY DEF StopActors, returns, packets
<1>2. Thread \subseteq Actor /\ NoActor \notin Thread
  BY ActorAssumption DEF Actor
<1>3. \A a \in Actor : /\ a \in actors => pc'[a] = Idle
                      /\ a \notin actors => pc'[a] = pc[a]
  BY <1>1
<1>4. Sanity' /\ pc' \in [Actor -> State]
  BY <1>1, <1>3, IdleSane DEF Delivered, Kept, Sanity, Sane
<1>5. \A q \in HalfWritten(actors) : q \in Return
  BY DEF Delivered, Sanity, Sane, HalfWritten, At, Of
<1>6. Kept'
  BY <1>1, <1>4, <1>5 DEF Delivered, Kept
<1>7. Locked'
  BY <1>1, <1>2, <1>3, IdleSane DEF Delivered, Locked, Holding
<1>8. DeliveryBacked'
  BY <1>1 DEF Delivered, DeliveryBacked
<1>9. CopiesBacked'
  BY <1>1, <1>3, IdleSane DEF Delivered, CopiesBacked, Carrying
<1>10. \A t \in Thread : pc'[t].step \in Holding => pc'[t] = pc[t]
  <2> SUFFICES ASSUME NEW t \in Thread, pc'[t].step \in Holding PROVE pc'[t] = pc[t]
    OBVIOUS
  <2>1. t \in Actor /\ Idle.step \notin Holding
    BY <1>2, IdleSane DEF Holding
  <2>2. pc'[t] = IF t \in actors THEN Idle ELSE pc[t]
    BY <1>1, <2>1
  <2> QED
    BY <2>1, <2>2
<1>11. RecordWritten'
  BY <1>1, <1>10 DEF Delivered, RecordWritten, At, Of, Holding
<1>12. Pending'
  BY <1>1, <1>10 DEF Delivered, Pending, Of
<1>13. Ending'
  <2> SUFFICES ASSUME NEW q \in Return \ cut', NEW state \in {"DELIVERED", "CANCELLED"},
                      KindOf(state) \in records[q]
               PROVE  \/ delivery[q].state = state
                      \/ \E t \in Thread : pc'[t].step = "state" /\ pc'[t].ret = q /\ pc'[t].to = state
    BY <1>1 DEF Ending, Ends, At, Of
  <2>1. Ends(q, "DELIVERED") /\ Ends(q, "CANCELLED")
    BY <1>1 DEF Delivered, Ending
  <2>2. ASSUME NEW t \in Thread, At(t, "state"), Of(t) = q, pc[t].to = state
        PROVE  pc'[t] = pc[t]
    <3>1. t \notin actors
      BY <1>1, <2>2 DEF HalfWritten
    <3> QED
      BY <1>2, <1>3, <3>1
  <2> QED
    BY <2>1, <2>2 DEF Ends, At, Of
<1> QED
  BY <1>4, <1>6, <1>7, <1>8, <1>9, <1>11, <1>12, <1>13 DEF Delivered

(***************************************************************************)
(* The deliveries of the composed system                                   *)
(***************************************************************************)

LEMMA DeliveredAtStart == DeliveryInit => Delivered
<1> SUFFICES ASSUME DeliveryInit PROVE Delivered
  OBVIOUS
<1>1. Sanity /\ pc \in [Actor -> State] /\ \A a \in Actor : pc[a].step = "idle"
  BY IdleSane DEF DeliveryInit, Sanity, Sane
<1>2. NoDelivery \in Delivery /\ NoDelivery.state = "NONE"
  BY DEF NoDelivery, Delivery, DeliveryState, Maker
<1>3. Kept
  BY <1>1, <1>2 DEF DeliveryInit, Kept, Maker
<1>4. Locked
  BY <1>1, ActorAssumption DEF DeliveryInit, Locked, Actor, Holding
<1>5. DeliveryBacked
  BY <1>2, Backings DEF DeliveryInit, DeliveryBacked
<1>6. CopiesBacked /\ RecordWritten /\ Pending
  BY <1>1 DEF CopiesBacked, RecordWritten, Pending, At, Carrying, Holding, Actor
<1>7. Ending
  BY DEF DeliveryInit, Ending, Ends
<1> QED
  BY <1>1, <1>3, <1>4, <1>5, <1>6, <1>7 DEF Delivered

LEMMA DeliveredStep ==
  Delivered /\ [DeliveryNext]_deliveryVars => Delivered'
<1> SUFFICES ASSUME Delivered, [DeliveryNext]_deliveryVars PROVE Delivered'
  OBVIOUS
<1>1. ASSUME NEW a \in Tool, CallTool(a) \/ RunTool(a) PROVE Delivered'
  BY <1>1, ToolStep, PacketLedgerStep DEF RunTool
<1>2. ASSUME NEW t \in Thread, NEW r \in Return, NEW to \in DeliveryState, Transition(t, r, to)
      PROVE  Delivered'
  BY <1>2, TransitionStep
<1>3. ASSUME NEW t \in Thread, RunTransition(t) PROVE Delivered'
  BY <1>3, EnterTransitionStep, WriteRecordStep, WriteStateStep DEF RunTransition
<1>4. ASSUME NEW a \in Actor, DeliveryFails(a) PROVE Delivered'
  BY <1>4, StopStep DEF DeliveryFails
<1>5. CASE StopActors(Thread)
  BY <1>5, StopStep DEF Actor
<1>6. CASE UNCHANGED <<returnFile, returnEntry, packetFile, delivery, records, deliveryLock, pc, cut>>
  <2>1. Kept' /\ Sanity' /\ Locked' /\ DeliveryBacked' /\ CopiesBacked'
    BY <1>6 DEF Delivered, Kept, Sanity, Locked, DeliveryBacked, CopiesBacked
  <2>2. RecordWritten' /\ Pending'
    BY <1>6 DEF Delivered, RecordWritten, Pending, At, Of
  <2>3. Ending'
    BY <1>6 DEF Delivered, Ending, Ends, At, Of
  <2> QED
    BY <2>1, <2>2, <2>3 DEF Delivered
<1>7. Reroute \/ UNCHANGED deliveryVars =>
        UNCHANGED <<returnFile, returnEntry, packetFile, delivery, records, deliveryLock, pc, cut>>
  BY DEF Reroute, deliveryVars, returns, packets
<1> QED
  BY <1>1, <1>2, <1>3, <1>4, <1>5, <1>6, <1>7 DEF DeliveryNext

\* The API Mainline's steps leave the returns and deliveries alone, or are theirs.
LEMMA DeliveredInApi ==
  Delivered /\ [ApiNext]_allVars => Delivered'
<1> SUFFICES ASSUME Delivered, [ApiNext]_allVars PROVE Delivered'
  OBVIOUS
<1> DEFINE core == <<returnFile, returnEntry, packetFile, delivery, records, deliveryLock, pc, cut>>
<1>1. ASSUME UNCHANGED core PROVE Delivered'
  <2>1. Kept' /\ Sanity' /\ Locked' /\ DeliveryBacked' /\ CopiesBacked'
    BY <1>1 DEF Delivered, Kept, Sanity, Locked, DeliveryBacked, CopiesBacked
  <2>2. RecordWritten' /\ Pending'
    BY <1>1 DEF Delivered, RecordWritten, Pending, At, Of
  <2>3. Ending'
    BY <1>1 DEF Delivered, Ending, Ends, At, Of
  <2> QED
    BY <2>1, <2>2, <2>3 DEF Delivered
<1>2. CASE ReturnStep
  BY <1>2, DeliveredStep DEF ReturnStep, DeliveryNext, Actor
<1>3. ASSUME NEW t \in Thread, NEW r \in ApiReturn, Prepare(t, r) \/ Approve(t, r)
      PROVE  UNCHANGED core
  BY <1>3 DEF Prepare, Approve, deliveryVars
<1>4. ASSUME NEW t \in Thread, Run(t) PROVE UNCHANGED core
  BY <1>4 DEF Run, EnterPrepare, WriteCandidate, WritePrepared, Precheck, Claim, WriteApproval,
              WriteAttempt, WriteEvidence, WriteSent, Transport, Answer, Apply, WriteResult,
              RegisterRead, RegisterWrite, FinishCompleted, WriteFailure, FinishFailed, Finish,
              deliveryVars
<1>5. ASSUME NEW t \in Thread, StoreFails(t) PROVE UNCHANGED core
  BY <1>5 DEF StoreFails, returns, packets
<1>6. CASE Crash
  BY <1>6, DeliveredStep DEF Crash, DeliveryNext
<1>7. CASE Drift \/ Reroute \/ UNCHANGED allVars
  BY <1>1, <1>7 DEF Drift, Reroute, allVars, returns, packets
<1> HIDE DEF core
<1> QED
  BY <1>1, <1>2, <1>3, <1>4, <1>5, <1>6, <1>7 DEF ApiNext

\* The invariant of deliveries holds in every run: what a ledger entry says, the
\* record files of the user's actions, and the open section belong together.
THEOREM DeliveredAlways == ApiSpec => []Delivered
<1>1. ApiInit => Delivered
  BY DeliveredAtStart DEF ApiInit
<1> QED
  BY <1>1, DeliveredInApi, PTL DEF ApiSpec

\* Whatever processes overwrite each other's ledger and wherever one dies, a
\* state in the ledger has the records of the user's actions behind it.
THEOREM DeliveriesAlwaysBacked == ApiSpec => []DeliveryBacked
<1>1. Delivered => DeliveryBacked
  BY DEF Delivered
<1> QED
  BY <1>1, DeliveredAlways, PTL

\* Two ends of one delivery are never both recorded, unless its ledger entry
\* lost a step.
THEOREM DeliveryEndsOnce == ApiSpec => []EndedOnce
<1>1. ASSUME Delivered, NEW r \in Return, {"receipt", "cancellation"} \subseteq records[r], r \notin cut
      PROVE  FALSE
  <2>1. Ends(r, "DELIVERED") /\ Ends(r, "CANCELLED")
    BY <1>1 DEF Delivered, Ending
  <2>2. \/ delivery[r].state = "DELIVERED"
        \/ \E t \in Thread : At(t, "state") /\ Of(t) = r /\ pc[t].to = "DELIVERED"
    BY <1>1, <2>1, Kinds DEF Ends
  <2>3. \/ delivery[r].state = "CANCELLED"
        \/ \E t \in Thread : At(t, "state") /\ Of(t) = r /\ pc[t].to = "CANCELLED"
    BY <1>1, <2>1, Kinds DEF Ends
  <2>4. ASSUME NEW t \in Thread, At(t, "state"), Of(t) = r
        PROVE  delivery[r].state \in {"PREPARED", "COPIED"}
    <3>1. Sane(t, pc[t])
      BY <1>1 DEF Delivered, Sanity, Actor
    <3>2. pc[t].from \in {"PREPARED", "COPIED"}
      BY <2>4, <3>1, MoveBacked DEF Sane, At, ThreadSteps
    <3>3. delivery[r].state = pc[t].from
      BY <1>1, <2>4 DEF Delivered, Pending, At, Holding
    <3> QED
      BY <3>2, <3>3
  <2>5. \A t, u \in Thread : At(t, "state") /\ At(u, "state") => t = u
    BY <1>1 DEF Delivered, Locked, At, Holding
  <2> QED
    BY <2>2, <2>3, <2>4, <2>5
<1>2. Delivered => EndedOnce
  BY <1>1 DEF EndedOnce
<1> QED
  BY <1>2, DeliveredAlways, PTL

-----------------------------------------------------------------------------
(***************************************************************************)
(* The inductive invariant                                                 *)
(***************************************************************************)

\* In the store's section; after the claim; and either.
Locking == {"file", "ledger"} \cup Claiming
Busy == Executing \cup Handling
Owning == Locking \cup Busy

Stored ==
  /\ canonical \in Canon
  /\ candidateFile \in [ApiReturn -> Candidate]
  /\ entry \in [ApiReturn -> Entry]
  /\ evidence \in [ApiReturn -> SUBSET Evidence]
  /\ storeLock \in Thread \cup {NoActor}
  /\ reuse \subseteq Evaluation
  /\ job \in [Thread -> Job]
  /\ calls \in [ApiReturn -> Nat] /\ applied \subseteq ApiReturn
CandidatesSealed ==
  \A r \in ApiReturn : candidateFile[r] = NoCandidate \/ candidateFile[r].canon \in Canon

\* A request is about a return to the API Mainline and a candidate of it.
JobSane(j) == j.step # "none" => j.ret \in ApiReturn /\ j.candidate.canon \in Canon
JobsSane == \A t \in Thread : JobSane(job[t])

StoreHeld == \A t \in Thread : storeLock = t <=> job[t].step \in Locking

\* The record files and the calls behind each state of the ledger.
EntryOK(r) ==
  /\ entry[r].state = "NONE" => entry[r] = NoEntry /\ evidence[r] = {} /\ calls[r] = 0
  /\ entry[r].state = "PREPARED" =>
       /\ evidence[r] \subseteq {"approval", "attempt"} /\ calls[r] = 0
       /\ "attempt" \in evidence[r] => "approval" \in evidence[r]
  /\ entry[r].state \in {"SENT", "COMPLETED", "FAILED"} =>
       {"approval", "attempt"} \subseteq evidence[r] /\ calls[r] \in {0, 1}
  /\ entry[r].state = "COMPLETED" => "result" \in evidence[r] /\ calls[r] = 1 /\ r \in applied
EntriesOK == \A r \in ApiReturn : EntryOK(r)

\* How far the owner of a return has brought it.
OwnerOK(j) ==
  /\ j.step \in {"file", "ledger"} => entry[j.ret].state = "NONE"
  /\ j.step \in Claiming => entry[j.ret].state = "PREPARED"
  /\ j.step \in {"attempt", "sent"} => "approval" \in evidence[j.ret]
  /\ j.step = "sent" => "attempt" \in evidence[j.ret]
  /\ j.step \in Busy => entry[j.ret].state = "SENT"
  /\ j.step = "send" => evidence[j.ret] \subseteq {"approval", "attempt"} /\ calls[j.ret] = 0
  /\ j.step \in Busy \ {"send", "failure", "failed"} => calls[j.ret] = 1
  /\ j.step \in {"result", "lookup", "register", "finish"} => j.ret \in applied
  /\ j.step \in {"lookup", "register", "finish"} => "result" \in evidence[j.ret]
OwnersOK == \A t \in Thread : OwnerOK(job[t])

\* No two requests have claimed the same return.
Unique ==
  \A t, u \in Thread : t # u /\ job[t].step \in Busy /\ job[u].step \in Busy => Mine(t) # Mine(u)

Continued ==
  /\ Stored /\ CandidatesSealed /\ JobsSane /\ StoreHeld
  /\ EntriesOK /\ OwnersOK /\ Unique

(***************************************************************************)
(* The data                                                                *)
(***************************************************************************)

LEMMA StepsApart ==
  /\ Locking \cap Busy = {} /\ "none" \notin Owning /\ Owning \subseteq JobStep
  /\ "seal" \notin Owning /\ "check" \notin Owning /\ "claim" \notin Owning
BY DEF Locking, Busy, Owning, Claiming, Executing, Handling, JobStep, Preparing, Checking

LEMMA NoJobIs == NoJob \in Job /\ NoJob.step = "none"
BY DEF NoJob, Job, JobStep, NoCandidate, Candidate, Maker

\* What a step of one thread does to the record of its request.
LEMMA Moved ==
  ASSUME job \in [Thread -> Job], NEW t \in Thread, NEW step \in JobStep, Move(t, step)
  PROVE  /\ job' \in [Thread -> Job] /\ \A u \in Thread \ {t} : job'[u] = job[u]
         /\ job'[t].step = step /\ job'[t].ret = job[t].ret
         /\ job'[t].candidate = job[t].candidate
<1>1. PICK j \in Job : j = job[t]
  OBVIOUS
<1>2. PICK n : n = [j EXCEPT !.step = step]
  OBVIOUS
<1>3. n \in Job /\ n.step = step /\ n.ret = j.ret /\ n.candidate = j.candidate
  BY <1>2 DEF Job
<1>4. job' = [job EXCEPT ![t] = n]
  BY <1>1, <1>2, Zenon DEF Move
<1> QED
  BY <1>1, <1>3, <1>4

LEMMA Ended ==
  ASSUME job \in [Thread -> Job], NEW t \in Thread, End(t)
  PROVE  /\ job' \in [Thread -> Job] /\ \A u \in Thread \ {t} : job'[u] = job[u]
         /\ job'[t] = NoJob /\ job'[t].step = "none"
BY NoJobIs DEF End

\* Two owners of one return do not exist.
LEMMA OneOwner ==
  ASSUME Continued, NEW t \in Thread, NEW u \in Thread, t # u,
         job[t].step \in Owning, job[u].step \in Owning
  PROVE  Mine(t) # Mine(u)
<1>1. OwnerOK(job[t]) /\ OwnerOK(job[u])
  BY DEF Continued, OwnersOK
<1>2. ~(job[t].step \in Locking /\ job[u].step \in Locking)
  BY DEF Continued, StoreHeld
<1>3. CASE job[t].step \in Busy /\ job[u].step \in Busy
  BY <1>3 DEF Continued, Unique
<1>4. ASSUME NEW i \in Thread, NEW j \in Thread, job[i].step \in Locking, job[j].step \in Busy,
             OwnerOK(job[i]), OwnerOK(job[j])
      PROVE  job[i].ret # job[j].ret
  BY <1>4 DEF OwnerOK, Locking
<1> QED
  BY <1>1, <1>2, <1>3, <1>4 DEF Mine, Owning

(***************************************************************************)
(* Each step keeps the invariant                                           *)
(***************************************************************************)

\* What an owner's step must establish about its own return.
LEMMA OwnerKeeps ==
  ASSUME Continued, NEW t \in Thread, NEW r, r = job[t].ret, job[t].step \in Owning,
         Stored', CandidatesSealed', StoreHeld',
         \A u \in Thread \ {t} : job'[u] = job[u],
         JobSane(job'[t]), job'[t].step \in Owning => job'[t].ret = r,
         job'[t].step \in Busy => job[t].step \in Owning,
         \A q \in ApiReturn \ {r} :
           entry'[q] = entry[q] /\ evidence'[q] = evidence[q] /\ calls'[q] = calls[q],
         applied \subseteq applied', applied' \subseteq applied \cup {r},
         EntryOK(r)', OwnerOK(job[t])'
  PROVE  Continued'
<1>1. r \in ApiReturn
  BY StepsApart DEF Continued, JobsSane, JobSane, Mine
<1>2. JobsSane'
  BY DEF Continued, JobsSane, JobSane
<1>3. EntriesOK'
  <2> SUFFICES ASSUME NEW q \in ApiReturn, q # r PROVE EntryOK(q)'
    BY DEF EntriesOK
  <2>1. EntryOK(q)
    BY DEF Continued, EntriesOK
  <2> QED
    BY <2>1 DEF EntryOK
<1>4. OwnersOK'
  <2> SUFFICES ASSUME NEW u \in Thread, u # t PROVE OwnerOK(job[u])'
    BY DEF OwnersOK
  <2>1. job'[u] = job[u] /\ OwnerOK(job[u])
    BY DEF Continued, OwnersOK
  <2>2. CASE job[u].step \in Owning
    <3>1. job[u].ret # r /\ job[u].ret \in ApiReturn
      BY <2>2, OneOwner, StepsApart DEF Continued, JobsSane, JobSane, Mine
    <3> QED
      BY <2>1, <3>1 DEF OwnerOK
  <2>3. CASE job[u].step \notin Owning
    BY <2>1, <2>3 DEF OwnerOK, Owning, Locking, Busy, Claiming, Executing, Handling
  <2> QED
    BY <2>2, <2>3
<1>5. Unique'
  <2> SUFFICES ASSUME NEW u \in Thread, u # t, job'[t].step \in Busy, job'[u].step \in Busy
               PROVE  job'[t].ret # job'[u].ret
    <3>1. ASSUME NEW i \in Thread, NEW j \in Thread, i # j, i # t, j # t,
                 job'[i].step \in Busy, job'[j].step \in Busy
          PROVE  job'[i].ret # job'[j].ret
      BY <3>1 DEF Continued, Unique, Mine
    <3> QED
      BY <3>1 DEF Unique, Mine
  <2>1. job'[u] = job[u] /\ job'[t].ret = r
    BY DEF Owning
  <2> QED
    BY <2>1, OneOwner DEF Owning, Mine
<1> QED
  BY <1>2, <1>3, <1>4, <1>5 DEF Continued

\* A step that changes neither ledger nor files nor calls, of a request that is
\* not an owner afterwards.
LEMMA OthersKeep ==
  ASSUME Continued, NEW t \in Thread, Stored', CandidatesSealed', StoreHeld',
         UNCHANGED <<entry, evidence, calls, applied>>,
         \A u \in Thread \ {t} : job'[u] = job[u],
         JobSane(job'[t]), OwnerOK(job[t])', job'[t].step \notin Busy
  PROVE  Continued'
<1>1. JobsSane' /\ EntriesOK'
  BY DEF Continued, JobsSane, JobSane, EntriesOK, EntryOK
<1>2. OwnersOK'
  BY DEF Continued, OwnersOK, OwnerOK
<1>3. Unique'
  BY DEF Continued, Unique, Mine
<1> QED
  BY <1>1, <1>2, <1>3 DEF Continued

LEMMA PrepareStep ==
  ASSUME Continued, Kept, NEW t \in Thread, NEW r \in ApiReturn, Prepare(t, r)
  PROVE  Continued'
<1>1. PICK c : c = [maker |-> returnFile[r], canon |-> canonical]
  OBVIOUS
<1>2. PICK n : n = [NoJob EXCEPT !.step = "seal", !.ret = r, !.candidate = c]
  OBVIOUS
<1>3. c \in Candidate /\ c.canon \in Canon
  BY <1>1, ActorAssumption DEF Kept, Continued, Stored, Candidate
<1>4. n \in Job /\ n.step = "seal" /\ n.ret = r /\ n.candidate = c
  BY <1>2, <1>3, ActorAssumption DEF NoJob, Job, JobStep, Preparing
<1>5. job' = [job EXCEPT ![t] = n]
  BY <1>1, <1>2, Zenon DEF Prepare
<1>6. /\ job' \in [Thread -> Job] /\ job'[t] = n
      /\ \A u \in Thread \ {t} : job'[u] = job[u]
  BY <1>4, <1>5 DEF Continued, Stored
<1>7. job[t].step = "none" /\ UNCHANGED <<canonical, candidateFile, entry, evidence, storeLock, reuse, calls, applied>>
  BY DEF Prepare, store, In
<1>8. Stored' /\ CandidatesSealed' /\ StoreHeld'
  BY <1>4, <1>6, <1>7, StepsApart DEF Continued, Stored, CandidatesSealed, StoreHeld, Owning
<1>9. JobSane(job'[t]) /\ OwnerOK(job[t])' /\ job'[t].step \notin Busy
  BY <1>3, <1>4, <1>6, StepsApart DEF JobSane, OwnerOK, Owning, Claiming, Busy, Executing, Handling
<1> QED
  BY <1>6, <1>7, <1>8, <1>9, OthersKeep

LEMMA ApproveStep ==
  ASSUME Continued, Kept, NEW t \in Thread, NEW r \in ApiReturn, Approve(t, r)
  PROVE  Continued'
<1>1. PICK c : c = candidateFile[r]
  OBVIOUS
<1>2. PICK n : n = [NoJob EXCEPT !.step = "check", !.ret = r, !.candidate = c]
  OBVIOUS
<1>3. c \in Candidate /\ c.canon \in Canon
  <2>1. c.maker # NoActor
    BY <1>1 DEF Approve, Verified
  <2> QED
    BY <1>1, <2>1 DEF Continued, Stored, CandidatesSealed, NoCandidate
<1>4. n \in Job /\ n.step = "check" /\ n.ret = r /\ n.candidate = c
  BY <1>2, <1>3, ActorAssumption DEF NoJob, Job, JobStep, Checking
<1>5. job' = [job EXCEPT ![t] = n]
  BY <1>1, <1>2, Zenon DEF Approve
<1>6. /\ job' \in [Thread -> Job] /\ job'[t] = n
      /\ \A u \in Thread \ {t} : job'[u] = job[u]
  BY <1>4, <1>5 DEF Continued, Stored
<1>7. job[t].step = "none" /\ UNCHANGED <<canonical, candidateFile, entry, evidence, storeLock, reuse, calls, applied>>
  BY DEF Approve, store, In
<1>8. Stored' /\ CandidatesSealed' /\ StoreHeld'
  BY <1>4, <1>6, <1>7, StepsApart DEF Continued, Stored, CandidatesSealed, StoreHeld, Owning
<1>9. JobSane(job'[t]) /\ OwnerOK(job[t])' /\ job'[t].step \notin Busy
  BY <1>3, <1>4, <1>6, StepsApart DEF JobSane, OwnerOK, Owning, Claiming, Busy, Executing, Handling
<1> QED
  BY <1>6, <1>7, <1>8, <1>9, OthersKeep

\* Where a request stands afterwards: one step on, or at its end.
LEMMA Afterwards ==
  ASSUME Continued, NEW t \in Thread, job[t].step # "none",
         NEW step \in JobStep, Move(t, step) \/ (End(t) /\ step = "none")
  PROVE  /\ job' \in [Thread -> Job] /\ \A u \in Thread \ {t} : job'[u] = job[u]
         /\ job'[t].step = step /\ JobSane(job'[t])
         /\ step # "none" => job'[t].ret = job[t].ret /\ job'[t].candidate = job[t].candidate
<1>1. job \in [Thread -> Job] /\ JobSane(job[t])
  BY DEF Continued, Stored, JobsSane
<1>2. CASE Move(t, step)
  BY <1>1, <1>2, Moved DEF JobSane
<1>3. CASE End(t) /\ step = "none"
  BY <1>1, <1>3, Ended DEF JobSane
<1> QED
  BY <1>2, <1>3

LEMMA NoneOwned == ASSUME NEW j, j.step = "none" PROVE OwnerOK(j)
BY DEF OwnerOK, Claiming, Busy, Executing, Handling

LEMMA EnterPrepareStep ==
  ASSUME Continued, NEW t \in Thread, EnterPrepare(t)
  PROVE  Continued'
<1>1. PICK step : /\ step = IF entry[Mine(t)] = NoEntry /\ candidateFile[Mine(t)] = NoCandidate
                           THEN "file" ELSE "none"
                  /\ step \in JobStep
  BY DEF JobStep, Preparing
<1>2. /\ job[t].step = "seal" /\ storeLock = NoActor
      /\ storeLock' = IF step = "file" THEN t ELSE NoActor
      /\ Move(t, step) \/ (End(t) /\ step = "none")
      /\ UNCHANGED <<canonical, candidateFile, entry, evidence, reuse, calls, applied>>
  BY <1>1 DEF EnterPrepare, In, store
<1>3. /\ job' \in [Thread -> Job] /\ \A u \in Thread \ {t} : job'[u] = job[u]
      /\ job'[t].step = step /\ JobSane(job'[t])
      /\ step # "none" => job'[t].ret = job[t].ret
  BY <1>1, <1>2, Afterwards
<1>4. Stored' /\ CandidatesSealed'
  BY <1>2, <1>3 DEF Continued, Stored, CandidatesSealed
<1>5. StoreHeld'
  BY <1>1, <1>2, <1>3, StepsApart, ActorAssumption DEF Continued, StoreHeld, Locking, Owning
<1>6. OwnerOK(job[t])'
  <2>1. step = "file" => entry[job[t].ret].state = "NONE"
    BY <1>1 DEF Mine, NoEntry
  <2> QED
    BY <1>1, <1>2, <1>3, <2>1 DEF OwnerOK, Claiming, Busy, Executing, Handling
<1> QED
  BY <1>1, <1>2, <1>3, <1>4, <1>5, <1>6, OthersKeep DEF Busy, Executing, Handling

LEMMA WriteCandidateStep ==
  ASSUME Continued, NEW t \in Thread, WriteCandidate(t)
  PROVE  Continued'
<1>1. PICK r : r = job[t].ret
  OBVIOUS
<1>2. PICK c : c = job[t].candidate
  OBVIOUS
<1>3. /\ job[t].step = "file" /\ Move(t, "ledger")
      /\ candidateFile' = [candidateFile EXCEPT ![r] = c]
      /\ UNCHANGED <<canonical, entry, evidence, storeLock, reuse, calls, applied>>
  BY <1>1, <1>2 DEF WriteCandidate, In, Mine
<1>4. "ledger" \in JobStep
  BY DEF JobStep, Preparing
<1>5. /\ job' \in [Thread -> Job] /\ \A u \in Thread \ {t} : job'[u] = job[u]
      /\ job'[t].step = "ledger" /\ JobSane(job'[t]) /\ job'[t].ret = r
  BY <1>1, <1>3, <1>4, Afterwards
<1>6. c \in Candidate /\ c.canon \in Canon
  BY <1>2, <1>3 DEF Continued, Stored, JobsSane, JobSane, Job
<1>7. Stored' /\ CandidatesSealed'
  BY <1>3, <1>5, <1>6 DEF Continued, Stored, CandidatesSealed
<1>8. StoreHeld'
  BY <1>3, <1>5 DEF Continued, StoreHeld, Locking
<1>9. OwnerOK(job[t])'
  BY <1>1, <1>3, <1>5 DEF Continued, OwnersOK, OwnerOK, Claiming, Busy, Executing, Handling
<1> QED
  BY <1>3, <1>5, <1>7, <1>8, <1>9, OthersKeep DEF Busy, Executing, Handling

LEMMA WritePreparedStep ==
  ASSUME Continued, NEW t \in Thread, WritePrepared(t)
  PROVE  Continued'
<1>1. PICK r : r = job[t].ret
  OBVIOUS
<1>2. PICK c : c = job[t].candidate
  OBVIOUS
<1>3. /\ job[t].step = "ledger" /\ End(t) /\ storeLock' = NoActor
      /\ entry' = [entry EXCEPT ![r] = [state |-> "PREPARED", candidate |-> c]]
      /\ UNCHANGED <<canonical, candidateFile, evidence, reuse, calls, applied>>
  BY <1>1, <1>2 DEF WritePrepared, In, Mine
<1>4. /\ job' \in [Thread -> Job] /\ \A u \in Thread \ {t} : job'[u] = job[u]
      /\ job'[t].step = "none" /\ JobSane(job'[t])
  BY <1>3, Afterwards DEF JobStep
<1>5. c \in Candidate /\ r \in ApiReturn /\ entry[r].state = "NONE"
  BY <1>1, <1>2, <1>3 DEF Continued, Stored, JobsSane, JobSane, Job, OwnersOK, OwnerOK
<1>6. Stored' /\ CandidatesSealed'
  BY <1>3, <1>4, <1>5 DEF Continued, Stored, CandidatesSealed, Entry, CandidateState
<1>7. StoreHeld'
  BY <1>3, <1>4, StepsApart, ActorAssumption DEF Continued, StoreHeld, Locking, Owning
<1>8. EntryOK(r)'
  BY <1>3, <1>5 DEF Continued, EntriesOK, EntryOK, Stored
<1>9. OwnerOK(job[t])'
  BY <1>4, NoneOwned DEF OwnerOK, Claiming, Busy, Executing, Handling
<1> QED
  BY <1>1, <1>3, <1>4, <1>6, <1>7, <1>8, <1>9, StepsApart, OwnerKeeps
     DEF Continued, Stored, Owning, Locking

\* A request on its way to the claim that goes on or ends.
LEMMA CheckingStep ==
  ASSUME Continued, NEW t \in Thread, Precheck(t) \/ Claim(t)
  PROVE  Continued'
<1>1. PICK step \in JobStep :
        /\ Move(t, step) \/ (End(t) /\ step = "none")
        /\ step \in {"claim", "approval", "none"}
        /\ job[t].step \in {"check", "claim"}
        /\ \/ step # "approval" /\ UNCHANGED storeLock
           \/ step = "approval" /\ storeLock = NoActor /\ storeLock' = t
              /\ entry[job[t].ret].state = "PREPARED"
        /\ UNCHANGED <<canonical, candidateFile, entry, evidence, reuse, calls, applied>>
  BY DEF Precheck, Claim, Proceed, In, Mine, Claimable, store, JobStep, Checking, Claiming
<1>2. /\ job' \in [Thread -> Job] /\ \A u \in Thread \ {t} : job'[u] = job[u]
      /\ job'[t].step = step /\ JobSane(job'[t])
      /\ step # "none" => job'[t].ret = job[t].ret
  BY <1>1, Afterwards
<1>3. Stored' /\ CandidatesSealed'
  BY <1>1, <1>2 DEF Continued, Stored, CandidatesSealed
<1>4. StoreHeld'
  BY <1>1, <1>2, ActorAssumption DEF Continued, StoreHeld, Locking, Claiming
<1>5. OwnerOK(job[t])'
  BY <1>1, <1>2 DEF OwnerOK, Claiming, Busy, Executing, Handling
<1> QED
  BY <1>1, <1>2, <1>3, <1>4, <1>5, OthersKeep DEF Busy, Executing, Handling

\* The two evidence files before the call.
LEMMA WriteApprovalStep ==
  ASSUME Continued, NEW t \in Thread, WriteApproval(t) \/ WriteAttempt(t)
  PROVE  Continued'
<1>1. PICK r : r = job[t].ret
  OBVIOUS
<1>2. PICK kind \in {"approval", "attempt"} :
        /\ job[t].step = kind /\ Move(t, IF kind = "approval" THEN "attempt" ELSE "sent")
        /\ evidence' = [evidence EXCEPT ![r] = @ \cup {kind}]
        /\ UNCHANGED <<canonical, candidateFile, entry, storeLock, reuse, calls, applied>>
  BY <1>1 DEF WriteApproval, WriteAttempt, WriteEvidence, In, Mine
<1>3. PICK step \in JobStep : step = IF kind = "approval" THEN "attempt" ELSE "sent"
  BY DEF JobStep, Claiming
<1>4. /\ job' \in [Thread -> Job] /\ \A u \in Thread \ {t} : job'[u] = job[u]
      /\ job'[t].step = step /\ JobSane(job'[t]) /\ job'[t].ret = r
  BY <1>1, <1>2, <1>3, Afterwards
<1>5. r \in ApiReturn /\ entry[r].state = "PREPARED" /\ (kind = "attempt" => "approval" \in evidence[r])
  BY <1>1, <1>2 DEF Continued, JobsSane, JobSane, OwnersOK, OwnerOK, Claiming
<1>6. evidence'[r] = evidence[r] \cup {kind} /\ evidence' \in [ApiReturn -> SUBSET Evidence]
  BY <1>2, <1>5 DEF Continued, Stored, Evidence
<1>7. Stored' /\ CandidatesSealed'
  BY <1>2, <1>4, <1>6 DEF Continued, Stored, CandidatesSealed
<1>8. StoreHeld'
  BY <1>2, <1>3, <1>4 DEF Continued, StoreHeld, Locking, Claiming
<1>9. EntryOK(r)'
  BY <1>2, <1>5, <1>6 DEF Continued, EntriesOK, EntryOK
<1>10. OwnerOK(job[t])'
  BY <1>2, <1>3, <1>4, <1>5, <1>6 DEF OwnerOK, Claiming, Busy, Executing, Handling
<1> QED
  BY <1>1, <1>2, <1>3, <1>4, <1>7, <1>8, <1>9, <1>10, OwnerKeeps
     DEF Continued, Stored, Owning, Locking, Claiming

\* The ledger's entry gets another state.
LEMMA StateSet ==
  ASSUME Continued, NEW t \in Thread, NEW r \in ApiReturn, r = job[t].ret,
         NEW state \in CandidateState, SetState(t, state)
  PROVE  /\ entry' \in [ApiReturn -> Entry] /\ entry'[r].state = state
         /\ \A q \in ApiReturn \ {r} : entry'[q] = entry[q]
<1>1. PICK e \in Entry : e = entry[r]
  BY DEF Continued, Stored
<1>2. PICK n : n = [e EXCEPT !.state = state]
  OBVIOUS
<1>3. n \in Entry /\ n.state = state
  BY <1>2 DEF Entry
<1>4. entry' = [entry EXCEPT ![r] = n]
  BY <1>1, <1>2, Zenon DEF SetState, Mine
<1> QED
  BY <1>3, <1>4 DEF Continued, Stored

LEMMA WriteSentStep ==
  ASSUME Continued, NEW t \in Thread, WriteSent(t)
  PROVE  Continued'
<1>1. PICK r : r = job[t].ret
  OBVIOUS
<1>2. /\ job[t].step = "sent" /\ Move(t, "send") /\ storeLock' = NoActor /\ SetState(t, "SENT")
      /\ UNCHANGED <<canonical, candidateFile, evidence, reuse, calls, applied>>
  BY DEF WriteSent, In
<1>3. /\ job' \in [Thread -> Job] /\ \A u \in Thread \ {t} : job'[u] = job[u]
      /\ job'[t].step = "send" /\ JobSane(job'[t]) /\ job'[t].ret = r
  BY <1>1, <1>2, Afterwards DEF JobStep, Executing
<1>4. /\ r \in ApiReturn /\ entry[r].state = "PREPARED" /\ {"approval", "attempt"} \subseteq evidence[r]
      /\ evidence[r] \subseteq {"approval", "attempt"} /\ calls[r] = 0
  BY <1>1, <1>2 DEF Continued, JobsSane, JobSane, OwnersOK, OwnerOK, Claiming, EntriesOK, EntryOK
<1>5. /\ entry' \in [ApiReturn -> Entry] /\ entry'[r].state = "SENT"
      /\ \A q \in ApiReturn \ {r} : entry'[q] = entry[q]
  BY <1>1, <1>2, <1>4, StateSet DEF CandidateState
<1>6. Stored' /\ CandidatesSealed'
  BY <1>2, <1>3, <1>5 DEF Continued, Stored, CandidatesSealed
<1>7. StoreHeld'
  BY <1>2, <1>3, ActorAssumption DEF Continued, StoreHeld, Locking, Claiming
<1>8. EntryOK(r)'
  BY <1>2, <1>4, <1>5 DEF EntryOK
<1>9. OwnerOK(job[t])'
  BY <1>2, <1>3, <1>4, <1>5 DEF OwnerOK, Claiming, Busy, Executing, Handling
<1> QED
  BY <1>1, <1>2, <1>3, <1>5, <1>6, <1>7, <1>8, <1>9, OwnerKeeps
     DEF Continued, Stored, Owning, Locking, Claiming

LEMMA TransportStep ==
  ASSUME Continued, NEW t \in Thread, Transport(t)
  PROVE  Continued'
<1>1. PICK r : r = job[t].ret
  OBVIOUS
<1>2. /\ job[t].step = "send" /\ Move(t, "wait") /\ calls' = [calls EXCEPT ![r] = @ + 1]
      /\ UNCHANGED <<canonical, candidateFile, entry, evidence, storeLock, reuse, applied>>
  BY <1>1 DEF Transport, In, Mine, store
<1>3. /\ job' \in [Thread -> Job] /\ \A u \in Thread \ {t} : job'[u] = job[u]
      /\ job'[t].step = "wait" /\ JobSane(job'[t]) /\ job'[t].ret = r
  BY <1>1, <1>2, Afterwards DEF JobStep, Executing
<1>4. r \in ApiReturn /\ entry[r].state = "SENT" /\ calls[r] = 0
  BY <1>1, <1>2 DEF Continued, JobsSane, JobSane, OwnersOK, OwnerOK, Busy, Executing
<1>5. calls' \in [ApiReturn -> Nat] /\ calls'[r] = 1
  BY <1>2, <1>4 DEF Continued, Stored
<1>6. Stored' /\ CandidatesSealed'
  BY <1>2, <1>3, <1>5 DEF Continued, Stored, CandidatesSealed
<1>7. StoreHeld'
  BY <1>2, <1>3 DEF Continued, StoreHeld, Locking, Claiming
<1>8. EntryOK(r)'
  BY <1>2, <1>4, <1>5 DEF Continued, EntriesOK, EntryOK
<1>9. OwnerOK(job[t])'
  BY <1>2, <1>3, <1>4, <1>5 DEF OwnerOK, Claiming, Busy, Executing, Handling
<1> QED
  BY <1>1, <1>2, <1>3, <1>6, <1>7, <1>8, <1>9, OwnerKeeps
     DEF Continued, Stored, Owning, Busy, Executing

\* The steps after the call that write neither the ledger nor its lock.
LEMMA AnswerStep ==
  ASSUME Continued, NEW t \in Thread,
         Answer(t) \/ Apply(t) \/ WriteResult(t) \/ WriteFailure(t)
  PROVE  Continued'
<1>1. PICK r : r = job[t].ret
  OBVIOUS
<1>2. /\ job[t].step \in {"wait", "apply", "result", "failure"}
      /\ r \in ApiReturn /\ entry[r].state = "SENT"
      /\ job[t].step # "failure" => calls[r] = 1
      /\ job[t].step = "result" => r \in applied
  BY <1>1 DEF Continued, JobsSane, JobSane, OwnersOK, OwnerOK, Busy, Executing, Handling,
              Answer, Apply, WriteResult, WriteFailure, WriteEvidence, In
<1>3. PICK step \in Busy : /\ Move(t, step)
                           /\ job[t].step = "wait" => step \in {"apply", "failure"} /\ UNCHANGED applied
                           /\ job[t].step = "apply" =>
                                \/ step = "result" /\ applied' = applied \cup {r}
                                \/ step = "failure" /\ UNCHANGED applied
                           /\ job[t].step = "result" => step = "lookup" /\ UNCHANGED applied
                           /\ job[t].step = "failure" => step = "failed" /\ UNCHANGED applied
  BY <1>1 DEF Answer, Apply, WriteResult, WriteFailure, WriteEvidence, In, Mine, Busy, Executing, Handling
<1>4. PICK new \in SUBSET {"result", "failure"} :
        /\ evidence' \in [ApiReturn -> SUBSET Evidence] /\ evidence'[r] = evidence[r] \cup new
        /\ \A q \in ApiReturn \ {r} : evidence'[q] = evidence[q]
        /\ job[t].step = "result" => "result" \in new
  <2> DEFINE Added(new) ==
        /\ evidence' \in [ApiReturn -> SUBSET Evidence] /\ evidence'[r] = evidence[r] \cup new
        /\ \A q \in ApiReturn \ {r} : evidence'[q] = evidence[q]
        /\ job[t].step = "result" => "result" \in new
  <2>0. evidence \in [ApiReturn -> SUBSET Evidence]
    BY DEF Continued, Stored
  <2>1. ASSUME WriteResult(t) PROVE Added({"result"})
    BY <1>1, <1>2, <2>0, <2>1 DEF WriteResult, WriteEvidence, Mine, Evidence
  <2>2. ASSUME WriteFailure(t) PROVE Added({"failure"})
    BY <1>1, <1>2, <2>0, <2>2 DEF WriteFailure, WriteEvidence, Mine, In, Evidence
  <2>3. ASSUME Answer(t) \/ Apply(t) PROVE Added({})
    BY <2>0, <2>3 DEF Answer, Apply, In, store
  <2>4. {"result"} \in SUBSET {"result", "failure"} /\ {"failure"} \in SUBSET {"result", "failure"}
        /\ {} \in SUBSET {"result", "failure"}
    OBVIOUS
  <2> HIDE DEF Added
  <2>5. \E new \in SUBSET {"result", "failure"} : Added(new)
    BY <2>1, <2>2, <2>3, <2>4, Zenon
  <2> QED
    BY <2>5 DEF Added
<1>5. /\ canonical' \in Canon
      /\ UNCHANGED <<candidateFile, entry, storeLock, reuse, calls>>
  BY DEF Answer, Apply, WriteResult, WriteFailure, WriteEvidence, store, Continued, Stored
<1>6. /\ job' \in [Thread -> Job] /\ \A u \in Thread \ {t} : job'[u] = job[u]
      /\ job'[t].step = step /\ JobSane(job'[t]) /\ job'[t].ret = r
  BY <1>1, <1>2, <1>3, Afterwards, StepsApart DEF Owning
<1>7. evidence'[r] = evidence[r] \cup new /\ evidence' \in [ApiReturn -> SUBSET Evidence]
  BY <1>4
<1>8. applied \subseteq applied' /\ applied' \subseteq applied \cup {r}
  BY <1>2, <1>3
<1>9. Stored' /\ CandidatesSealed'
  BY <1>2, <1>5, <1>6, <1>7, <1>8 DEF Continued, Stored, CandidatesSealed
<1>10. StoreHeld'
  BY <1>2, <1>5, <1>6, StepsApart DEF Continued, StoreHeld, Locking, Claiming
<1>11. EntryOK(r)'
  BY <1>2, <1>5, <1>7, <1>8 DEF Continued, EntriesOK, EntryOK
<1>12. OwnerOK(job[t])'
  BY <1>2, <1>3, <1>4, <1>5, <1>6, <1>7 DEF OwnerOK, Claiming, Busy, Executing, Handling
<1> QED
  BY <1>1, <1>2, <1>4, <1>5, <1>6, <1>8, <1>9, <1>10, <1>11, <1>12, OwnerKeeps
     DEF Continued, Stored, Owning, Busy, Executing, Handling

LEMMA RegisterReadStep ==
  ASSUME Continued, NEW t \in Thread, RegisterRead(t)
  PROVE  Continued'
<1>1. PICK r : r = job[t].ret
  OBVIOUS
<1>2. /\ job[t].step = "lookup"
      /\ UNCHANGED <<canonical, candidateFile, entry, evidence, storeLock, reuse, calls, applied>>
  BY DEF RegisterRead, In, store
<1>3. PICK step \in {"register", "failure"} :
        /\ job' \in [Thread -> Job] /\ \A u \in Thread \ {t} : job'[u] = job[u]
        /\ job'[t].step = step /\ job'[t].ret = r /\ JobSane(job'[t])
  <2>1. CASE Move(t, "failure")
    BY <1>1, <1>2, <2>1, Afterwards DEF JobStep, Handling
  <2>2. CASE job' = [job EXCEPT ![t].step = "register", ![t].index = reuse]
    <3>1. PICK j \in Job : j = job[t]
      BY DEF Continued, Stored
    <3>2. PICK n : n = [j EXCEPT !.step = "register", !.index = reuse]
      OBVIOUS
    <3>3. n \in Job /\ n.step = "register" /\ n.ret = j.ret /\ n.candidate = j.candidate
      BY <3>1, <3>2 DEF Continued, Stored, Job, JobStep, Executing
    <3>4. PICK m : m = [j EXCEPT !.step = "register"]
      OBVIOUS
    <3>5. n = [m EXCEPT !.index = reuse]
      BY <3>1, <3>2, <3>4 DEF Job
    <3>6. job' = [job EXCEPT ![t] = n]
      BY <2>2, <3>1, <3>4, <3>5 DEF Continued, Stored
    <3> QED
      BY <1>1, <1>2, <3>1, <3>3, <3>6 DEF Continued, Stored, JobsSane, JobSane
  <2> QED
    BY <2>1, <2>2 DEF RegisterRead
<1>4. r \in ApiReturn
  BY <1>1, <1>2 DEF Continued, JobsSane, JobSane
<1>5. Stored' /\ CandidatesSealed'
  BY <1>2, <1>3 DEF Continued, Stored, CandidatesSealed
<1>6. StoreHeld'
  BY <1>2, <1>3 DEF Continued, StoreHeld, Locking, Claiming
<1>7. EntryOK(r)'
  BY <1>2, <1>4 DEF Continued, EntriesOK, EntryOK
<1>8. OwnerOK(job[t])'
  BY <1>1, <1>2, <1>3 DEF Continued, OwnersOK, OwnerOK, Claiming, Busy, Executing, Handling
<1> QED
  BY <1>1, <1>2, <1>3, <1>5, <1>6, <1>7, <1>8, OwnerKeeps
     DEF Owning, Busy, Executing

LEMMA RegisterWriteStep ==
  ASSUME Continued, NEW t \in Thread, RegisterWrite(t)
  PROVE  Continued'
<1>1. PICK r : r = job[t].ret
  OBVIOUS
<1>2. /\ job[t].step = "register" /\ Move(t, "finish")
      /\ reuse' = job[t].index \cup {<<job[t].candidate.canon, TextOf[r]>>}
      /\ UNCHANGED <<canonical, candidateFile, entry, evidence, storeLock, calls, applied>>
  BY <1>1 DEF RegisterWrite, In, store, EvaluationOf, Sealed, Mine
<1>3. /\ job' \in [Thread -> Job] /\ \A u \in Thread \ {t} : job'[u] = job[u]
      /\ job'[t].step = "finish" /\ JobSane(job'[t]) /\ job'[t].ret = r
  BY <1>1, <1>2, Afterwards DEF JobStep, Executing
<1>4. r \in ApiReturn /\ job[t].candidate.canon \in Canon /\ job[t].index \subseteq Evaluation
  BY <1>1, <1>2 DEF Continued, Stored, JobsSane, JobSane, Job
<1>5. reuse' \subseteq Evaluation
  BY <1>2, <1>4 DEF Evaluation, Text
<1>6. Stored' /\ CandidatesSealed'
  BY <1>2, <1>3, <1>5 DEF Continued, Stored, CandidatesSealed
<1>7. StoreHeld'
  BY <1>2, <1>3 DEF Continued, StoreHeld, Locking, Claiming
<1>8. EntryOK(r)'
  BY <1>2, <1>4 DEF Continued, EntriesOK, EntryOK
<1>9. OwnerOK(job[t])'
  BY <1>1, <1>2, <1>3 DEF Continued, OwnersOK, OwnerOK, Claiming, Busy, Executing, Handling
<1> QED
  BY <1>1, <1>2, <1>3, <1>6, <1>7, <1>8, <1>9, OwnerKeeps
     DEF Owning, Busy, Executing

LEMMA FinishStep ==
  ASSUME Continued, NEW t \in Thread, FinishCompleted(t) \/ FinishFailed(t)
  PROVE  Continued'
<1>1. PICK r : r = job[t].ret
  OBVIOUS
<1>2. PICK state \in {"COMPLETED", "FAILED"} :
        /\ job[t].step = IF state = "COMPLETED" THEN "finish" ELSE "failed"
        /\ SetState(t, state) /\ End(t)
        /\ UNCHANGED <<canonical, candidateFile, evidence, storeLock, reuse, calls, applied>>
  BY DEF FinishCompleted, FinishFailed, Finish, In
<1>3. /\ job' \in [Thread -> Job] /\ \A u \in Thread \ {t} : job'[u] = job[u]
      /\ job'[t].step = "none" /\ JobSane(job'[t])
  BY <1>2, Afterwards DEF JobStep
<1>4. /\ r \in ApiReturn /\ entry[r].state = "SENT"
      /\ state = "COMPLETED" => r \in applied /\ calls[r] = 1 /\ "result" \in evidence[r]
  BY <1>1, <1>2 DEF Continued, JobsSane, JobSane, OwnersOK, OwnerOK, Busy, Executing, Handling
<1>5. /\ entry' \in [ApiReturn -> Entry] /\ entry'[r].state = state
      /\ \A q \in ApiReturn \ {r} : entry'[q] = entry[q]
  BY <1>1, <1>2, <1>4, StateSet DEF CandidateState
<1>6. Stored' /\ CandidatesSealed'
  BY <1>2, <1>3, <1>5 DEF Continued, Stored, CandidatesSealed
<1>7. StoreHeld'
  BY <1>2, <1>3 DEF Continued, StoreHeld, Locking, Claiming
<1>8. EntryOK(r)'
  BY <1>2, <1>4, <1>5 DEF Continued, EntriesOK, EntryOK
<1>9. OwnerOK(job[t])'
  BY <1>3, NoneOwned DEF OwnerOK, Claiming, Busy, Executing, Handling
<1> QED
  BY <1>1, <1>2, <1>3, <1>5, <1>6, <1>7, <1>8, <1>9, OwnerKeeps, StepsApart
     DEF Owning, Busy, Executing, Handling

LEMMA StoreFailsStep ==
  ASSUME Continued, NEW t \in Thread, StoreFails(t)
  PROVE  Continued'
<1>1. PICK r : r = job[t].ret
  OBVIOUS
<1>2. PICK step \in JobStep :
        /\ step = IF job[t].step \in Executing THEN "failure" ELSE "none"
        /\ Move(t, step) \/ (End(t) /\ step = "none")
        /\ storeLock' = IF storeLock = t THEN NoActor ELSE storeLock
        /\ job[t].step \in Owning \ {"send"}
        /\ UNCHANGED <<canonical, candidateFile, entry, evidence, reuse, calls, applied>>
  BY DEF StoreFails, store, JobStep, Handling, Owning, Locking, Claiming, Busy, Executing
<1>3. /\ job' \in [Thread -> Job] /\ \A u \in Thread \ {t} : job'[u] = job[u]
      /\ job'[t].step = step /\ JobSane(job'[t])
      /\ step # "none" => job'[t].ret = r
  BY <1>1, <1>2, Afterwards, StepsApart
<1>4. r \in ApiReturn
  BY <1>1, <1>2, StepsApart DEF Continued, JobsSane, JobSane
<1>5. Stored' /\ CandidatesSealed'
  BY <1>2, <1>3 DEF Continued, Stored, CandidatesSealed
<1>6. StoreHeld'
  BY <1>2, <1>3, StepsApart, ActorAssumption
     DEF Continued, StoreHeld, Locking, Claiming
<1>7. EntryOK(r)'
  BY <1>2, <1>4 DEF Continued, EntriesOK, EntryOK
<1>8. OwnerOK(job[t])'
  BY <1>1, <1>2, <1>3 DEF Continued, OwnersOK, OwnerOK, Claiming, Busy, Executing, Handling
<1> QED
  BY <1>1, <1>2, <1>3, <1>5, <1>6, <1>7, <1>8, OwnerKeeps, StepsApart

LEMMA CrashStep == ASSUME Continued, Crash PROVE Continued'
<1>1. /\ job' = [t \in Thread |-> NoJob] /\ storeLock' = NoActor
      /\ UNCHANGED <<canonical, candidateFile, entry, evidence, reuse, calls, applied>>
  BY DEF Crash, store
<1>2. Stored' /\ CandidatesSealed'
  BY <1>1, NoJobIs DEF Continued, Stored, CandidatesSealed
<1>3. JobsSane' /\ StoreHeld' /\ OwnersOK' /\ Unique'
  <2>1. \A t \in Thread : job'[t].step = "none"
    BY <1>1, NoJobIs
  <2>2. JobsSane' /\ Unique'
    BY <2>1, StepsApart DEF JobsSane, JobSane, Unique, Owning
  <2>3. StoreHeld'
    BY <1>1, <2>1, StepsApart, ActorAssumption DEF StoreHeld, Owning
  <2>4. OwnersOK'
    BY <2>1 DEF OwnersOK, OwnerOK, Claiming, Busy, Executing, Handling
  <2> QED
    BY <2>2, <2>3, <2>4
<1>4. EntriesOK'
  BY <1>1 DEF Continued, EntriesOK, EntryOK
<1> QED
  BY <1>2, <1>3, <1>4 DEF Continued

\* Others change the canonical state or the index; deliveries and mode changes
\* change neither.
LEMMA OutsideStep ==
  ASSUME Continued, Drift \/ UNCHANGED apiVars
  PROVE  Continued'
<1>1. /\ UNCHANGED <<candidateFile, entry, evidence, storeLock, job, calls, applied>>
      /\ canonical' \in Canon /\ reuse' \subseteq Evaluation
  <2>1. CASE Drift
    BY <2>1 DEF Drift, store, Continued, Stored, Evaluation
  <2>2. CASE UNCHANGED apiVars
    BY <2>2 DEF apiVars, Continued, Stored
  <2> QED
    BY <2>1, <2>2
<1>2. Stored' /\ CandidatesSealed' /\ JobsSane' /\ StoreHeld'
  BY <1>1 DEF Continued, Stored, CandidatesSealed, JobsSane, JobSane, StoreHeld
<1>3. EntriesOK' /\ Unique'
  BY <1>1 DEF Continued, EntriesOK, EntryOK, Unique, Mine
<1>4. OwnersOK'
  BY <1>1 DEF Continued, OwnersOK, OwnerOK
<1> QED
  BY <1>2, <1>3, <1>4 DEF Continued

(***************************************************************************)
(* The theorems                                                            *)
(***************************************************************************)

LEMMA ContinuedAtStart == ApiInit => Continued
<1> SUFFICES ASSUME ApiInit PROVE Continued
  OBVIOUS
<1>1. canonical \in Canon
  BY CanonAssumption DEF ApiInit
<1>2. NoCandidate \in Candidate /\ NoEntry \in Entry /\ NoEntry.state = "NONE"
  BY DEF NoCandidate, Candidate, NoEntry, Entry, CandidateState, Maker
<1>3. Stored /\ CandidatesSealed
  BY <1>1, <1>2, NoJobIs DEF ApiInit, Stored, CandidatesSealed
<1>4. JobsSane /\ StoreHeld
  BY NoJobIs, StepsApart, ActorAssumption DEF ApiInit, JobsSane, JobSane, StoreHeld, Owning
<1>5. EntriesOK
  BY <1>2 DEF ApiInit, EntriesOK, EntryOK
<1>6. OwnersOK /\ Unique
  BY NoJobIs DEF ApiInit, OwnersOK, OwnerOK, Unique, Claiming, Busy, Executing, Handling
<1> QED
  BY <1>3, <1>4, <1>5, <1>6 DEF Continued

LEMMA RunStep ==
  ASSUME Continued, NEW t \in Thread, Run(t)
  PROVE  Continued'
BY EnterPrepareStep, WriteCandidateStep, WritePreparedStep, CheckingStep, WriteApprovalStep,
   WriteSentStep, TransportStep, AnswerStep, RegisterReadStep, RegisterWriteStep, FinishStep
   DEF Run

LEMMA ContinuedStep ==
  Kept /\ Continued /\ [ApiNext]_allVars => Continued'
<1> SUFFICES ASSUME Kept, Continued, [ApiNext]_allVars PROVE Continued'
  OBVIOUS
<1>1. ASSUME NEW t \in Thread, NEW r \in ApiReturn, Prepare(t, r) \/ Approve(t, r) PROVE Continued'
  BY <1>1, PrepareStep, ApproveStep
<1>2. ASSUME NEW t \in Thread, Run(t) \/ StoreFails(t) PROVE Continued'
  BY <1>2, RunStep, StoreFailsStep
<1>3. CASE Crash
  BY <1>3, CrashStep
<1>4. CASE Drift \/ ReturnStep \/ (Reroute /\ UNCHANGED apiVars)
  BY <1>4, OutsideStep DEF ReturnStep
<1>5. CASE UNCHANGED allVars
  BY <1>5, OutsideStep DEF allVars, apiVars
<1> QED
  BY <1>1, <1>2, <1>3, <1>4, <1>5 DEF ApiNext

\* What the ledger says of a return, its record files, the calls and the place of the
\* request that has claimed it belong together, whoever crashes and wherever.
THEOREM ContinuedAlways == ApiSpec => []Continued
<1>1. Delivered => Kept
  BY DEF Delivered
<1> QED
  BY <1>1, ContinuedAtStart, ContinuedStep, DeliveredAlways, PTL DEF ApiSpec

\* A return the ledger calls COMPLETED, whose next handoff may be dispatched, is
\* the answer of one approved call, and the canonical state has taken its turn.
THEOREM CompletedAlwaysApplied == ApiSpec => []CompletedIsApplied
<1>1. Continued => CompletedIsApplied
  BY DEF Continued, EntriesOK, EntryOK, CompletedIsApplied
<1> QED
  BY <1>1, ContinuedAlways, PTL

(***************************************************************************)
(* A return is continued exactly once                                      *)
(***************************************************************************)

\* A step that moves the phase of one return.
LEMMA PhaseMoves ==
  ASSUME NEW r \in ApiReturn, NEW from, NEW to, PhaseOf(r) = from, PhaseOf(r)' = to, calls' = calls,
         \A q \in ApiReturn \ {r} : PhaseOf(q)' = PhaseOf(q)
  PROVE  Once!Move(r, from, to)
<1>1. Phases' = [Phases EXCEPT ![r] = to]
  BY DEF Phases
<1>2. Phases[r] = from
  BY DEF Phases
<1> QED
  BY <1>1, <1>2 DEF Once!Move

\* The candidate is proposed.
LEMMA PreparedProposes ==
  ASSUME Continued, NEW t \in Thread, WritePrepared(t)
  PROVE  Once!Next
<1>1. PICK r : r = job[t].ret
  OBVIOUS
<1>2. PICK e : e = [state |-> "PREPARED", candidate |-> job[t].candidate]
  OBVIOUS
<1>3. job[t].step = "ledger" /\ entry' = [entry EXCEPT ![r] = e] /\ UNCHANGED <<evidence, calls>>
  BY <1>1, <1>2 DEF WritePrepared, In, Mine
<1>4. r \in ApiReturn /\ entry[r] = NoEntry /\ evidence[r] = {}
  BY <1>1, <1>3 DEF Continued, JobsSane, JobSane, OwnersOK, OwnerOK, EntriesOK, EntryOK
<1>5. entry'[r] # NoEntry /\ \A q \in ApiReturn \ {r} : entry'[q] = entry[q]
  BY <1>2, <1>3, <1>4 DEF Continued, Stored, NoEntry
<1>6. PhaseOf(r) = "none" /\ PhaseOf(r)' = "proposed"
  BY <1>3, <1>4, <1>5 DEF PhaseOf
<1>7. \A q \in ApiReturn \ {r} : PhaseOf(q)' = PhaseOf(q)
  BY <1>3, <1>5 DEF PhaseOf
<1>8. Once!Propose(r)
  BY <1>3, <1>4, <1>6, <1>7, PhaseMoves DEF Once!Propose
<1> QED
  BY <1>4, <1>8 DEF Once!Next

\* A record file is the next phase, or was written by an earlier request already.
LEMMA EvidenceMoves ==
  ASSUME Continued, NEW t \in Thread, NEW kind \in Evidence, NEW to,
         WriteEvidence(t, kind, kind, to)
  PROVE  [Once!Next]_<<Phases, calls>>
<1>1. PICK r : r = job[t].ret
  OBVIOUS
<1>2. /\ job[t].step = kind /\ evidence' = [evidence EXCEPT ![r] = @ \cup {kind}]
      /\ UNCHANGED <<entry, calls>>
  BY <1>1 DEF WriteEvidence, In, Mine
<1>3. /\ r \in ApiReturn /\ EntryOK(r)
      /\ kind \in {"approval", "attempt"} => entry[r].state = "PREPARED"
      /\ kind = "attempt" => "approval" \in evidence[r]
      /\ kind \in {"result", "failure"} => entry[r].state = "SENT"
  <2>1. r \in ApiReturn
    BY <1>1, <1>2 DEF Continued, JobsSane, JobSane, Evidence
  <2>2. EntryOK(r) /\ OwnerOK(job[t])
    BY <2>1 DEF Continued, EntriesOK, OwnersOK
  <2> QED
    BY <1>1, <1>2, <2>1, <2>2 DEF OwnerOK, Claiming, Busy, Executing, Handling
<1>4. /\ evidence'[r] = evidence[r] \cup {kind}
      /\ \A q \in ApiReturn \ {r} : evidence'[q] = evidence[q]
  BY <1>2, <1>3 DEF Continued, Stored
<1>5. \A q \in ApiReturn \ {r} : PhaseOf(q)' = PhaseOf(q)
  BY <1>2, <1>4 DEF PhaseOf
<1>6. CASE PhaseOf(r)' = PhaseOf(r)
  <2>1. Phases' = Phases
    BY <1>5, <1>6 DEF Phases
  <2> QED
    BY <1>2, <2>1
<1>7. CASE PhaseOf(r)' # PhaseOf(r)
  <2>1. CASE kind = "approval"
    <3>1. PhaseOf(r) = "proposed" /\ PhaseOf(r)' = "approved"
      BY <1>2, <1>3, <1>4, <1>7, <2>1 DEF PhaseOf, EntryOK, NoEntry
    <3> QED
      BY <1>2, <1>3, <1>5, <3>1, PhaseMoves DEF Once!Next, Once!Approve
  <2>2. CASE kind = "attempt"
    <3>1. PhaseOf(r) = "approved" /\ PhaseOf(r)' = "consumed"
      BY <1>2, <1>3, <1>4, <1>7, <2>2 DEF PhaseOf, EntryOK
    <3> QED
      BY <1>2, <1>3, <1>5, <3>1, PhaseMoves DEF Once!Next, Once!Consume
  <2>3. CASE kind \in {"result", "failure"}
    <3>1. PhaseOf(r) = "consumed" /\ PhaseOf(r)' = "settled"
      BY <1>2, <1>3, <1>4, <1>7, <2>3 DEF PhaseOf, EntryOK
    <3> QED
      BY <1>2, <1>3, <1>5, <3>1, PhaseMoves DEF Once!Next, Once!Settle
  <2> QED
    BY <2>1, <2>2, <2>3 DEF Evidence
<1> QED
  BY <1>6, <1>7

\* The paid call is the send, while the return is consumed and has no outcome.
LEMMA TransportSends ==
  ASSUME Continued, NEW t \in Thread, Transport(t)
  PROVE  Once!Next
<1>1. PICK r : r = job[t].ret
  OBVIOUS
<1>2. job[t].step = "send" /\ calls' = [calls EXCEPT ![r] = @ + 1] /\ UNCHANGED <<entry, evidence>>
  BY <1>1 DEF Transport, In, Mine, store
<1>3. /\ r \in ApiReturn /\ calls[r] = 0 /\ "attempt" \in evidence[r]
      /\ evidence[r] \subseteq {"approval", "attempt"}
  BY <1>1, <1>2 DEF Continued, JobsSane, JobSane, OwnersOK, OwnerOK, EntriesOK, EntryOK, Busy, Executing
<1>4. PhaseOf(r) = "consumed" /\ Phases' = Phases
  BY <1>2, <1>3 DEF PhaseOf, Phases
<1>5. calls' = [calls EXCEPT ![r] = 1]
  BY <1>2, <1>3
<1>6. Once!Send(r)
  BY <1>3, <1>4, <1>5 DEF Once!Send, Phases
<1> QED
  BY <1>3, <1>6 DEF Once!Next

\* A new state in the ledger is no new phase.
LEMMA StateStutters ==
  ASSUME Continued, NEW t \in Thread, WriteSent(t) \/ FinishCompleted(t) \/ FinishFailed(t)
  PROVE  UNCHANGED <<Phases, calls>>
<1>1. PICK r : r = job[t].ret
  OBVIOUS
<1>2. PICK state \in {"SENT", "COMPLETED", "FAILED"} :
        /\ job[t].step \in {"sent", "finish", "failed"} /\ SetState(t, state)
        /\ UNCHANGED <<evidence, calls>>
  BY DEF WriteSent, FinishCompleted, FinishFailed, Finish, In
<1>3. r \in ApiReturn /\ entry[r].state # "NONE"
  BY <1>1, <1>2 DEF Continued, JobsSane, JobSane, OwnersOK, OwnerOK, Claiming, Busy, Executing, Handling
<1>4. entry'[r].state = state /\ \A q \in ApiReturn \ {r} : entry'[q] = entry[q]
  BY <1>1, <1>2, <1>3, StateSet DEF CandidateState
<1>5. \A q \in ApiReturn : PhaseOf(q)' = PhaseOf(q)
  BY <1>2, <1>3, <1>4 DEF PhaseOf, NoEntry
<1> QED
  BY <1>2, <1>5 DEF Phases

LEMMA StepMoves ==
  Continued /\ [ApiNext]_allVars => [Once!Next]_<<Phases, calls>>
<1> SUFFICES ASSUME Continued, [ApiNext]_allVars PROVE [Once!Next]_<<Phases, calls>>
  OBVIOUS
<1>1. ASSUME UNCHANGED <<entry, evidence, calls>> PROVE UNCHANGED <<Phases, calls>>
  BY <1>1 DEF Phases, PhaseOf
<1>2. ASSUME NEW t \in Thread, Run(t) PROVE [Once!Next]_<<Phases, calls>>
  <2>1. CASE WriteApproval(t) \/ WriteAttempt(t) \/ WriteResult(t) \/ WriteFailure(t)
    BY <2>1, EvidenceMoves DEF WriteApproval, WriteAttempt, WriteResult, WriteFailure, Evidence
  <2>2. CASE \/ EnterPrepare(t) \/ WriteCandidate(t) \/ Precheck(t) \/ Claim(t)
             \/ Answer(t) \/ Apply(t) \/ RegisterRead(t) \/ RegisterWrite(t)
    BY <1>1, <2>2 DEF EnterPrepare, WriteCandidate, Precheck, Claim, Answer, Apply,
                      RegisterRead, RegisterWrite, store
  <2> QED
    BY <1>2, <2>1, <2>2, PreparedProposes, TransportSends, StateStutters DEF Run
<1>3. ASSUME NEW t \in Thread, NEW r \in ApiReturn, Prepare(t, r) \/ Approve(t, r)
      PROVE  UNCHANGED <<entry, evidence, calls>>
  BY <1>3 DEF Prepare, Approve, store
<1>4. ASSUME NEW t \in Thread, StoreFails(t) PROVE UNCHANGED <<entry, evidence, calls>>
  BY <1>4 DEF StoreFails, store
<1>5. Crash \/ Drift \/ ReturnStep \/ (Reroute /\ UNCHANGED apiVars) \/ UNCHANGED allVars
        => UNCHANGED <<entry, evidence, calls>>
  BY DEF Crash, Drift, ReturnStep, apiVars, allVars, store
<1> QED
  BY <1>1, <1>2, <1>3, <1>4, <1>5 DEF ApiNext

\* The run of a return implements the exactly-once promise: sealed, approved,
\* consumed by the attempt's record, paid for at most once, settled by its outcome.
THEOREM ContinuedOnce == ApiSpec => ExactlyOnce
<1>1. ApiInit => Once!Init
  BY DEF ApiInit, Once!Init, Phases, PhaseOf
<1> QED
  BY <1>1, StepMoves, ContinuedAlways, PTL DEF ApiSpec, ExactlyOnce, Once!Spec
=============================================================================
