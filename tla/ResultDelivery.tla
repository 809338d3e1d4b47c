--------------------------- MODULE ResultDelivery ---------------------------
(***************************************************************************)
(* ReturnHandoffStore and ExactDeliveryStore: the captured result of a     *)
(* completed dispatch is sealed into a return, the return into a delivery  *)
(* packet, and the user copies, delivers or cancels the packet by hand.    *)
(*                                                                         *)
(* Returns and packets are created by command-line tools, each a process   *)
(* with locks of its own; the transitions are requests of the console,     *)
(* whose threads share one lock.  A creation or a transition writes its    *)
(* own file and then the whole ledger from the copy it read.               *)
(*                                                                         *)
(* A return stands for a completed dispatch and a destination, which its   *)
(* identifier names.  An artifact carries the time it was made: two of the *)
(* same return differ, and are told apart by the actor that made them.     *)
(***************************************************************************)
EXTENDS Naturals

CONSTANTS
    Thread,     \* request threads of the console
    Tool,       \* runs of the command-line tools
    Return,     \* returns, by their identifier
    ApiReturn,  \* those whose destination is the API Mainline
    NoActor, NoReturn,
    Authority,  \* who may be the authority; "NONE" while orchestration is off
    MaxFault,   \* bound: crashes and failed writes
    MaxChange   \* bound: changes of the control plane by others

ASSUME ActorAssumption ==
    /\ NoActor \notin Thread \cup Tool
    /\ Thread \cap Tool = {}
    /\ NoReturn \notin Return
    /\ ApiReturn \subseteq Return
ASSUME AuthorityAssumption == Authority \subseteq {"NATIVE", "API", "NONE"}
ASSUME BoundAssumption == MaxFault \in Nat /\ MaxChange \in Nat

Actor == Thread \cup Tool
Maker == Tool \cup {NoActor}

DeliveryState == {"NONE", "PREPARED", "COPIED", "DELIVERED", "CANCELLED"}
RecordKind == {"copy", "receipt", "cancellation"}
Delivery == [state : DeliveryState, packet : Maker]
NoDelivery == [state |-> "NONE", packet |-> NoActor]

VARIABLES
    returnFile, returnEntry,    \* the maker of each return's file and of its ledger entry
    packetFile,                 \* the maker of each delivery packet's file
    delivery,                   \* the delivery ledger
    records,                    \* the record files of each delivery
    deliveryLock,               \* the console's lock of the delivery store
    pc,                         \* what each actor is doing in these stores
    authority,                  \* the Mainline the control plane routes to, if any
    cut,                        \* history: deliveries whose ledger entry lost a step
    faults, changes

returns == <<returnFile, returnEntry>>
packets == <<packetFile, delivery, records>>
deliveryVars == <<returnFile, returnEntry, packetFile, delivery, records,
                  deliveryLock, pc, authority, cut, faults, changes>>

Step == {"idle", "return", "return file", "return ledger",
         "packet", "packet entry", "packet file", "packet ledger",
         "act", "record", "state"}
View == [Return -> Maker] \cup [Return -> Delivery] \cup {<<>>}
State == [step : Step, ret : Return \cup {NoReturn}, maker : Maker,
          from : DeliveryState, to : DeliveryState, view : View]
Idle == [step |-> "idle", ret |-> NoReturn, maker |-> NoActor,
         from |-> "NONE", to |-> "NONE", view |-> <<>>]

DeliveryInit ==
    /\ returnFile = [r \in Return |-> NoActor]
    /\ returnEntry = [r \in Return |-> NoActor]
    /\ packetFile = [r \in Return |-> NoActor]
    /\ delivery = [r \in Return |-> NoDelivery]
    /\ records = [r \in Return |-> {}]
    /\ deliveryLock = NoActor
    /\ pc = [a \in Actor |-> Idle]
    /\ authority \in Authority
    /\ cut = {}
    /\ faults = 0 /\ changes = 0

-----------------------------------------------------------------------------
(* Helpers.                                                                *)

At(a, step) == pc[a].step = step
Of(a) == pc[a].ret
Becomes(a, state) == pc' = [pc EXCEPT ![a] = state]
Goto(a, step) == Becomes(a, [pc[a] EXCEPT !.step = step])
Read(a, step, ledger) == Becomes(a, [pc[a] EXCEPT !.step = step, !.view = ledger])
Begin(a, r, step) ==
    /\ At(a, "idle")
    /\ Becomes(a, [Idle EXCEPT !.step = step, !.ret = r])
Leave(a) == Becomes(a, Idle)

-----------------------------------------------------------------------------
(* ReturnHandoffStore.create, run by a tool.                               *)

\* The return route resolves only to the Mainline that is the authority.
Resolves(r) == authority = IF r \in ApiReturn THEN "API" ELSE "NATIVE"
CreateReturn(a, r) ==
    /\ Resolves(r) /\ Begin(a, r, "return")
    /\ UNCHANGED <<returns, packets, deliveryLock, authority, cut, faults, changes>>

\* A return in the ledger or on disk is a duplicate.
EnterReturn(a) ==
    /\ At(a, "return")
    /\ IF returnEntry[Of(a)] = NoActor /\ returnFile[Of(a)] = NoActor
       THEN Read(a, "return file", returnEntry)
       ELSE Leave(a)
    /\ UNCHANGED <<returns, packets, deliveryLock, authority, cut, faults, changes>>
WriteReturnFile(a) ==
    /\ At(a, "return file")
    /\ returnFile' = [returnFile EXCEPT ![Of(a)] = a]
    /\ Goto(a, "return ledger")
    /\ UNCHANGED <<returnEntry, packets, deliveryLock, authority, cut, faults, changes>>
WriteReturnLedger(a) ==
    /\ At(a, "return ledger")
    /\ returnEntry' = [pc[a].view EXCEPT ![Of(a)] = a]
    /\ Leave(a)
    /\ UNCHANGED <<returnFile, packets, deliveryLock, authority, cut, faults, changes>>

-----------------------------------------------------------------------------
(* ExactDeliveryStore.create, run by a tool.                               *)

CreateDelivery(a, r) ==
    /\ At(a, "idle") /\ returnFile[r] # NoActor
    /\ Becomes(a, [Idle EXCEPT !.step = "packet", !.ret = r, !.maker = returnFile[r]])
    /\ UNCHANGED <<returns, packets, deliveryLock, authority, cut, faults, changes>>

\* The ledger names the file that was read; any return to a Mainline may be
\* delivered, one to the API Mainline as well.
CheckReturn(a) ==
    /\ At(a, "packet")
    /\ IF returnEntry[Of(a)] = pc[a].maker THEN Goto(a, "packet entry") ELSE Leave(a)
    /\ UNCHANGED <<returns, packets, deliveryLock, authority, cut, faults, changes>>
EnterPacket(a) ==
    /\ At(a, "packet entry")
    /\ IF delivery[Of(a)] = NoDelivery /\ packetFile[Of(a)] = NoActor
       THEN Read(a, "packet file", delivery)
       ELSE Leave(a)
    /\ UNCHANGED <<returns, packets, deliveryLock, authority, cut, faults, changes>>
WritePacketFile(a) ==
    /\ At(a, "packet file")
    /\ packetFile' = [packetFile EXCEPT ![Of(a)] = a]
    /\ Goto(a, "packet ledger")
    /\ UNCHANGED <<returns, delivery, records, deliveryLock, authority, cut, faults, changes>>

\* The whole ledger is written from the copy that was read: what another process
\* wrote in between is lost.
Overwritten(old, new, r) == {q \in Return \ {r} : old[q] # new[q]}
WritePacketLedger(a) ==
    /\ At(a, "packet ledger")
    /\ delivery' = [pc[a].view EXCEPT ![Of(a)] = [state |-> "PREPARED", packet |-> a]]
    /\ cut' = cut \cup Overwritten(delivery, delivery', Of(a))
                  \cup (IF delivery[Of(a)] = NoDelivery THEN {} ELSE {Of(a)})
    /\ Leave(a)
    /\ UNCHANGED <<returns, packetFile, records, deliveryLock, authority, faults, changes>>

-----------------------------------------------------------------------------
(* ExactDeliveryStore.transition, a request of the console.                *)

\* Mutant: a packet may be called delivered without having been copied.
MovesUncopied == {<<"PREPARED", "COPIED">>, <<"COPIED", "DELIVERED">>, <<"PREPARED", "DELIVERED">>,
                  <<"PREPARED", "CANCELLED">>, <<"COPIED", "CANCELLED">>}
Moves == {<<"PREPARED", "COPIED">>, <<"COPIED", "DELIVERED">>,
          <<"PREPARED", "CANCELLED">>, <<"COPIED", "CANCELLED">>}
KindOf(state) ==
    [COPIED |-> "copy", DELIVERED |-> "receipt", CANCELLED |-> "cancellation"][state]

\* _verified: the ledger names the packet's file, and the move exists.
Transition(t, r, to) ==
    /\ At(t, "idle") /\ deliveryLock = NoActor
    /\ delivery[r] # NoDelivery /\ delivery[r].packet = packetFile[r]
    /\ <<delivery[r].state, to>> \in Moves
    /\ Becomes(t, [Idle EXCEPT !.step = "act", !.ret = r, !.maker = delivery[r].packet,
                               !.from = delivery[r].state, !.to = to])
    /\ UNCHANGED <<returns, packets, deliveryLock, authority, cut, faults, changes>>

\* Under the lock again: the entry is as it was and the record is not there.
\* Mutant: the state is not compared again.
CurrentUnread(t) ==
    /\ delivery[Of(t)].packet = pc[t].maker
    /\ KindOf(pc[t].to) \notin records[Of(t)]
Current(t) ==
    /\ delivery[Of(t)] = [state |-> pc[t].from, packet |-> pc[t].maker]
    /\ KindOf(pc[t].to) \notin records[Of(t)]
EnterTransition(t) ==
    /\ At(t, "act") /\ deliveryLock = NoActor
    /\ IF Current(t)
       THEN /\ deliveryLock' = t
            /\ Read(t, "record", delivery)
       ELSE UNCHANGED deliveryLock /\ Leave(t)
    /\ UNCHANGED <<returns, packets, authority, cut, faults, changes>>
WriteRecord(t) ==
    /\ At(t, "record")
    /\ records' = [records EXCEPT ![Of(t)] = @ \cup {KindOf(pc[t].to)}]
    /\ Goto(t, "state")
    /\ UNCHANGED <<returns, packetFile, delivery, deliveryLock, authority, cut, faults, changes>>
WriteState(t) ==
    /\ At(t, "state")
    /\ delivery' = [pc[t].view EXCEPT ![Of(t)].state = pc[t].to]
    /\ cut' = cut \cup Overwritten(delivery, delivery', Of(t))
    /\ deliveryLock' = NoActor /\ Leave(t)
    /\ UNCHANGED <<returns, packetFile, records, authority, faults, changes>>

-----------------------------------------------------------------------------
(* What goes wrong.                                                        *)

\* Deliveries whose record is on disk and whose ledger entry is still to come.
HalfWritten(actors) == {Of(a) : a \in {b \in actors : At(b, "state")}}
\* The actors stop where they are: a write failed, or their process died.
StopActors(actors) ==
    /\ faults < MaxFault /\ faults' = faults + 1
    /\ cut' = cut \cup HalfWritten(actors)
    /\ pc' = [a \in Actor |-> IF a \in actors THEN Idle ELSE pc[a]]
    /\ deliveryLock' = IF deliveryLock \in actors THEN NoActor ELSE deliveryLock
    /\ UNCHANGED <<returns, packets, authority, changes>>
Writing == {"return file", "return ledger", "packet file", "packet ledger",
            "record", "state"}
DeliveryFails(a) == pc[a].step \in Writing /\ StopActors({a})

\* A mode change of the user.
Changes == changes < MaxChange /\ changes' = changes + 1
Reroute ==
    /\ Changes /\ authority' \in Authority \ {authority}
    /\ UNCHANGED <<returns, packets, deliveryLock, pc, cut, faults>>

CallTool(a) == \E r \in Return : CreateReturn(a, r) \/ CreateDelivery(a, r)
RunTool(a) ==
    \/ EnterReturn(a) \/ WriteReturnFile(a) \/ WriteReturnLedger(a)
    \/ CheckReturn(a) \/ EnterPacket(a) \/ WritePacketFile(a) \/ WritePacketLedger(a)
RunTransition(t) == EnterTransition(t) \/ WriteRecord(t) \/ WriteState(t)

DeliveryNext ==
    \/ \E a \in Tool : CallTool(a) \/ RunTool(a)
    \/ \E t \in Thread :
        (\E r \in Return, to \in DeliveryState : Transition(t, r, to)) \/ RunTransition(t)
    \/ \E a \in Actor : DeliveryFails(a)
    \/ StopActors(Thread)
    \/ Reroute

DeliverySpec == DeliveryInit /\ [][DeliveryNext]_deliveryVars

-----------------------------------------------------------------------------
(* Properties.                                                             *)

DeliveryTypeOK ==
    /\ returnFile \in [Return -> Maker] /\ returnEntry \in [Return -> Maker]
    /\ packetFile \in [Return -> Maker]
    /\ delivery \in [Return -> Delivery]
    /\ records \in [Return -> SUBSET RecordKind]
    /\ deliveryLock \in Thread \cup {NoActor}
    /\ pc \in [Actor -> State]
    /\ authority \in Authority
    /\ cut \subseteq Return /\ faults \in 0..MaxFault
    /\ changes \in 0..MaxChange

\* Whatever processes overwrite each other's ledger and wherever one dies, a
\* state in the ledger is backed by the records of the user's actions on disk.
Backing(state) ==
    [NONE |-> {}, PREPARED |-> {}, COPIED |-> {"copy"},
     DELIVERED |-> {"copy", "receipt"}, CANCELLED |-> {"cancellation"}][state]
DeliveryBacked == \A r \in Return : Backing(delivery[r].state) \subseteq records[r]

\* A delivery has a receipt or a cancellation, never both, unless a step of its
\* ledger entry was lost.
EndedOnce ==
    \A r \in Return : {"receipt", "cancellation"} \subseteq records[r] => r \in cut
=============================================================================
