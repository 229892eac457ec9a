--------------------------- MODULE RecoveryProofs ---------------------------
(***************************************************************************)
(* The safety properties of DurableInspection, for any number of           *)
(* inspections, any capacities and any number of restarts, and those of    *)
(* PositionGuard, for any number of adapter processes and nodes, in both   *)
(* adapter styles, with any freshness limit and any bounds.                *)
(***************************************************************************)
EXTENDS DurableInspection, PositionGuard, WellFoundedInduction, TLAPS

Journals == [Events -> {"none", "pending", "received", "deleted"}]

(* The journal's head is 0 or the first inspection not yet received.       *)
LEMMA HeadIsOldest ==
    ASSUME NEW j \in Journals
    PROVE  \/ Head(j) = 0
           \/ /\ Head(j) \in Events /\ j[Head(j)] = "pending"
              /\ \A f \in Events : j[f] = "pending" => Head(j) <= f
<1> DEFINE P == {e \in Events : j[e] = "pending"}
           R == {ss \in Nat \X Nat : ss[1] < ss[2]}
<1>1. CASE P = {}
  BY <1>1 DEF Head
<1>2. CASE P # {}
  <2>1. P \subseteq Nat
    BY InspectionAssumption DEF Events
  <2>2. IsWellFoundedOn(R, Nat)
    BY NatLessThanWellFounded, Zenon DEF OpToRel
  <2> HIDE DEF R
  <2>3. PICK x \in P : \A y \in P : ~ (<<y, x>> \in R)
    BY <1>2, <2>1, <2>2, WFMin
  <2>4. ASSUME NEW y \in P PROVE x <= y
    <3>1. x \in Nat /\ y \in Nat
      BY <2>1
    <3>2. <<y, x>> \notin R
      BY <2>3
    <3>3. ~(y < x)
      BY <3>1, <3>2 DEF R
    <3> QED BY <3>1, <3>3
  <2>5. x \in Events /\ j[x] = "pending" /\ \A f \in Events : j[f] = "pending" => x <= f
    BY <2>4
  <2> QED BY <2>5 DEF Head
<1> QED BY <1>1, <1>2

(***************************************************************************)
(* The inductive invariant.                                                *)
(***************************************************************************)
(* What exists has been created.                                           *)
CreatedInv ==
    /\ \A e \in Events : journal[e] = "none" <=> e > created
    /\ wire \cup stored \subseteq 1 .. created
    /\ head <= created

(* Every receipt, wherever it is on its way, is about a stored inspection. *)
StoreInv ==
    /\ ReceivedIsStored
    /\ receipts \subseteq stored
    /\ receiptDue \in stored \cup {0}
    /\ forwarding \in stored \cup {0}
    /\ receiptReg \in stored \cup {0}
    /\ \A e \in Events : row[e] # "none" \/ commands[e] > 0 => e \in stored

(* What is shown or in transit comes right after what has been stored.     *)
OrderInv ==
    /\ StoredWithoutGaps
    /\ \A e \in wire \cup {head}, f \in Events : f < e => f \in stored

(* A command whose row is gone belongs to an inspection far too old for    *)
(* another one.                                                            *)
CommandInv ==
    \A e \in Events : /\ commands[e] <= 1
                      /\ commands[e] = 1 /\ row[e] \notin WithCommand => age[e] = "retired"

(* Identities grow with the stream.                                        *)
IdentityInv ==
    /\ IdentitiesDistinct
    /\ \A e \in 1 .. created :
          \/ identity[e][1] < stream.session
          \/ identity[e][1] = stream.session /\ identity[e][2] <= stream.sequence

IInv ==
    /\ TypeOK /\ CreatedInv /\ StoreInv /\ OrderInv /\ CommandInv /\ IdentityInv
    /\ NeverHalts

(* The initial state satisfies the inductive invariant.                    *)
LEMMA InitInv == Init => IInv
<1> SUFFICES ASSUME Init PROVE IInv
  OBVIOUS
<1> USE InspectionAssumption DEF Init
<1>1. TypeOK
  <2>1. 0 \in 0 .. MaxEvents /\ 0 \in 0 .. MaxSequence /\ 0 \in 0 .. MaxRestarts
    OBVIOUS
  <2>2. /\ stream \in [session : Nat, sequence : 0 .. MaxSequence]
        /\ identity \in [Events -> Nat \X (0 .. MaxSequence)]
    BY <2>1
  <2>3. halted \in BOOLEAN /\ baseline \in BOOLEAN
    OBVIOUS
  <2> QED BY <2>1, <2>2, <2>3, Zenon DEF TypeOK
<1>2. CreatedInv /\ StoreInv /\ OrderInv
  BY DEF CreatedInv, StoreInv, OrderInv, ReceivedIsStored, StoredWithoutGaps, Events
<1>3. CommandInv /\ IdentityInv /\ NeverHalts
  BY DEF CommandInv, IdentityInv, IdentitiesDistinct, NeverHalts
<1> QED BY <1>1, <1>2, <1>3 DEF IInv

(* The head of a journal of created inspections is created, and all before *)
(* it have been received.                                                  *)
LEMMA HeadOrder ==
    ASSUME NEW j \in Journals, NEW c \in 0 .. MaxEvents,
           \A e \in Events : j[e] = "none" <=> e > c,
           \A e \in Events : j[e] \in {"received", "deleted"} => e \in stored
    PROVE  /\ Head(j) \in 0 .. MaxEvents /\ Head(j) <= c
           /\ \A f \in Events : f < Head(j) => f \in stored
<1>1. CASE Head(j) = 0
  BY <1>1, InspectionAssumption DEF Events
<1>2. CASE Head(j) # 0
  <2>1. /\ Head(j) \in Events /\ j[Head(j)] = "pending"
        /\ \A f \in Events : j[f] = "pending" => Head(j) <= f
    BY <1>2, HeadIsOldest
  <2>2. Head(j) <= c
    BY <2>1, InspectionAssumption DEF Events
  <2>3. ASSUME NEW f \in Events, f < Head(j) PROVE f \in stored
    <3>1. j[f] # "pending" /\ j[f] # "none"
      BY <2>1, <2>2, <2>3, InspectionAssumption DEF Events
    <3> QED BY <3>1 DEF Journals
  <2> QED BY <2>1, <2>2, <2>3, InspectionAssumption DEF Events
<1> QED BY <1>1, <1>2

(* Acknowledging and deleting lets go of stored inspections only.          *)
LEMMA KeptJournal ==
    ASSUME IInv
    PROVE  /\ Kept(Acked) \in Journals
           /\ \A e \in Events : Kept(Acked)[e] = "none" <=> e > created
           /\ \A e \in Events : Kept(Acked)[e] \in {"received", "deleted"} => e \in stored
<1>1. /\ Acked \in Journals
      /\ \A e \in Events : Acked[e] = "none" <=> journal[e] = "none"
      /\ \A e \in Events : Acked[e] \in {"received", "deleted"} => e \in stored
  <2>1. /\ journal \in Journals /\ 0 \notin Events
        /\ receiptReg \in stored \cup {0}
        /\ \A e \in Events : journal[e] \in {"received", "deleted"} => e \in stored
    BY InspectionAssumption DEF Journals, IInv, TypeOK, StoreInv, ReceivedIsStored, Events
  <2> QED BY <2>1 DEF Acked, Journals
<1> QED BY <1>1 DEF Kept, Journals, IInv, CreatedInv

(* A tick without an inspection.                                           *)
LEMMA TickStep == IInv /\ Tick => IInv'
<1> SUFFICES ASSUME IInv, Tick PROVE IInv'
  OBVIOUS
<1> USE DEF Tick, adapterVars, agentVars
<1>1. /\ journal' \in Journals
      /\ \A e \in Events : journal'[e] = "none" <=> e > created
      /\ \A e \in Events : journal'[e] \in {"received", "deleted"} => e \in stored
  BY KeptJournal
<1>2. /\ head' \in 0 .. MaxEvents /\ head' <= created
      /\ \A f \in Events : f < head' => f \in stored
  BY <1>1, HeadOrder DEF IInv, TypeOK
<1>3. TypeOK'
  BY <1>1, <1>2 DEF IInv, TypeOK, Journals
<1>4. CreatedInv' /\ StoreInv' /\ OrderInv'
  BY <1>1, <1>2
  DEF IInv, CreatedInv, StoreInv, OrderInv, ReceivedIsStored, StoredWithoutGaps
<1>5. CommandInv' /\ IdentityInv' /\ NeverHalts'
  BY DEF IInv, CommandInv, IdentityInv, IdentitiesDistinct, NeverHalts
<1> QED BY <1>3, <1>4, <1>5 DEF IInv

(* The next identity is of its type and after all earlier ones.            *)
LEMMA ObservedGrows ==
    ASSUME IInv
    PROVE  /\ Observed \in [session : Nat, sequence : 0 .. MaxSequence]
           /\ \/ stream.session < Observed.session
              \/ stream.session = Observed.session /\ stream.sequence < Observed.sequence
<1>1. /\ stream \in [session : Nat, sequence : 0 .. MaxSequence]
      /\ MaxSequence \in Nat \ {0}
  BY InspectionAssumption DEF IInv, TypeOK
<1>2. CASE stream.sequence + 1 > MaxSequence
  BY <1>1, <1>2 DEF Observed
<1>3. CASE ~(stream.sequence + 1 > MaxSequence)
  BY <1>1, <1>3 DEF Observed
<1> QED BY <1>2, <1>3

(* A tick that inspects a bottle.                                          *)
LEMMA TickInspectingStep == IInv /\ TickInspecting => IInv'
<1> SUFFICES ASSUME IInv, TickInspecting PROVE IInv'
  OBVIOUS
<1> DEFINE e == created + 1
<1>1. /\ created' = e /\ e \in Events /\ created \in Nat
      /\ stream' = Observed
      /\ identity' = [identity EXCEPT ![e] = <<Observed.session, Observed.sequence>>]
      /\ journal' = [Kept(Acked) EXCEPT ![e] = "pending"]
      /\ head' = Head(journal')
      /\ \E a \in {"future", "fresh"} : age' = [age EXCEPT ![e] = a]
      /\ halted' = halted
      /\ UNCHANGED <<receiptReg, restarts, adapterVars, agentVars>>
  <2>1. ~(Count(Acked) >= Capacity)
    BY DEF TickInspecting, Full
  <2>2. created \in 0 .. MaxEvents /\ created < MaxEvents
    BY DEF TickInspecting, IInv, TypeOK
  <2>3. e \in Events /\ created \in Nat
    BY <2>2, InspectionAssumption DEF Events
  <2> QED BY <2>1, <2>3 DEF TickInspecting
<1>2. e \notin stored /\ e \notin wire
  BY <1>1 DEF IInv, CreatedInv
<1>3. /\ journal' \in Journals
      /\ \A f \in Events : journal'[f] = "none" <=> f > created'
      /\ \A f \in Events : journal'[f] \in {"received", "deleted"} => f \in stored
  <2>1. /\ Kept(Acked) \in Journals
        /\ \A f \in Events : Kept(Acked)[f] = "none" <=> f > created
        /\ \A f \in Events : Kept(Acked)[f] \in {"received", "deleted"} => f \in stored
    BY KeptJournal
  <2>2. \A f \in Events : f > created' <=> f > created /\ f # e
    BY <1>1, InspectionAssumption DEF Events
  <2> QED BY <1>1, <2>1, <2>2 DEF Journals
<1>4. created' \in 0 .. MaxEvents
  BY <1>1 DEF Events
<1>5. /\ head' \in 0 .. MaxEvents /\ head' <= created'
      /\ \A f \in Events : f < head' => f \in stored
  BY <1>1, <1>3, <1>4, HeadOrder
<1> USE DEF adapterVars, agentVars
<1>6. TypeOK'
  <2>1. /\ stream' \in [session : Nat, sequence : 0 .. MaxSequence]
        /\ identity' \in [Events -> Nat \X (0 .. MaxSequence)]
    BY <1>1, ObservedGrows DEF IInv, TypeOK
  <2>2. age' \in [Events -> {"none", "future", "fresh", "old", "retired"}]
    BY <1>1 DEF IInv, TypeOK
  <2> QED BY <1>1, <1>3, <1>4, <1>5, <2>1, <2>2 DEF IInv, TypeOK, Journals
<1>7. CreatedInv'
  <2>1. 1 .. created \subseteq 1 .. created'
    BY <1>1
  <2> QED BY <1>1, <1>3, <1>5, <2>1 DEF IInv, CreatedInv
<1>8. StoreInv' /\ OrderInv'
  BY <1>1, <1>3, <1>5
  DEF IInv, StoreInv, OrderInv, ReceivedIsStored, StoredWithoutGaps
<1>9. CommandInv'
  <2>1. commands[e] = 0
    BY <1>1, <1>2 DEF IInv, TypeOK, StoreInv
  <2>2. \A f \in Events : f # e => age'[f] = age[f]
    BY <1>1 DEF IInv, TypeOK
  <2> QED BY <1>1, <2>1, <2>2 DEF IInv, CommandInv
<1>10. IdentityInv'
  <2>1. \A f \in 1 .. created : f \in Events /\ f # e /\ identity'[f] = identity[f]
    BY <1>1, InspectionAssumption DEF IInv, TypeOK, Events
  <2>2. identity'[e] = <<stream'.session, stream'.sequence>>
    BY <1>1 DEF IInv, TypeOK
  <2>3. stream' \in [session : Nat, sequence : 0 .. MaxSequence] /\ MaxSequence \in Nat
    BY <1>1, ObservedGrows, InspectionAssumption
  <2>4. stream \in [session : Nat, sequence : 0 .. MaxSequence]
    BY DEF IInv, TypeOK
  <2>5. \A f \in 1 .. created : identity[f][1] \in Nat /\ identity[f][2] \in Nat
    BY <2>1, <2>3 DEF IInv, TypeOK
  <2>6. ASSUME NEW f \in 1 .. created
        PROVE  \/ identity[f][1] < stream'.session
               \/ identity[f][1] = stream'.session /\ identity[f][2] < stream'.sequence
    BY <1>1, <2>3, <2>4, <2>5, ObservedGrows DEF IInv, IdentityInv
  <2>7. 1 .. created' = (1 .. created) \cup {e}
    BY <1>1
  <2>8. \A f \in 1 .. created : identity'[f] # identity'[e]
    BY <2>1, <2>2, <2>3, <2>5, <2>6
  <2>9. IdentitiesDistinct'
    BY <2>1, <2>7, <2>8 DEF IInv, IdentityInv, IdentitiesDistinct
  <2>10. \A f \in 1 .. created' :
            \/ identity'[f][1] < stream'.session
            \/ identity'[f][1] = stream'.session /\ identity'[f][2] <= stream'.sequence
    BY <2>1, <2>2, <2>3, <2>5, <2>6, <2>7
  <2> QED BY <2>9, <2>10 DEF IdentityInv
<1>11. NeverHalts'
  BY <1>1 DEF IInv, NeverHalts
<1> QED BY <1>6, <1>7, <1>8, <1>9, <1>10, <1>11 DEF IInv

(* The device restarts.                                                    *)
LEMMA RestartDeviceStep == IInv /\ RestartDevice => IInv'
<1> SUFFICES ASSUME IInv, RestartDevice PROVE IInv'
  OBVIOUS
<1> USE DEF RestartDevice, Restarting, adapterVars, agentVars
<1>1. /\ stream \in [session : Nat, sequence : 0 .. MaxSequence]
      /\ 0 \in 0 .. MaxSequence /\ 0 \in 0 .. MaxEvents
      /\ restarts' \in 0 .. MaxRestarts /\ created \in Nat
  BY InspectionAssumption DEF IInv, TypeOK
<1>2. TypeOK'
  <2>1. stream' \in [session : Nat, sequence : 0 .. MaxSequence]
    BY <1>1
  <2> QED BY <1>1, <2>1 DEF IInv, TypeOK
<1>3. CreatedInv' /\ StoreInv' /\ OrderInv'
  <2>1. CreatedInv'
    BY <1>1, InspectionAssumption DEF IInv, TypeOK, CreatedInv, Events
  <2>2. StoreInv'
    BY <1>1, InspectionAssumption DEF IInv, TypeOK, StoreInv, ReceivedIsStored, Events
  <2>3. OrderInv'
    <3>1. head' = 0 /\ UNCHANGED <<wire, stored>> OBVIOUS
    <3>2. \A f \in Events : ~(f < 0) BY DEF Events
    <3> QED BY <3>1, <3>2 DEF IInv, OrderInv, StoredWithoutGaps
  <2> QED BY <2>1, <2>2, <2>3
<1>4. CommandInv' /\ NeverHalts'
  BY DEF IInv, CommandInv, NeverHalts
<1>5. IdentityInv'
  <2>1. \A f \in 1 .. created : identity[f][1] \in Nat
    BY InspectionAssumption DEF IInv, TypeOK, Events
  <2> QED BY <1>1, <2>1 DEF IInv, IdentityInv, IdentitiesDistinct
<1> QED BY <1>2, <1>3, <1>4, <1>5 DEF IInv

(* Adapter and transport.                                                  *)
LEMMA AdapterStep ==
    ASSUME IInv,
           \/ Poll \/ WriteReceipt \/ DropReceipt
           \/ \E e \in Events : VerifyReceipt(e) \/ LoseObservation(e) \/ LoseReceipt(e)
    PROVE  IInv'
<1> USE DEF deviceVars, adapterVars, agentVars, Restarting
<1>1. CASE Poll
  <2>1. head \in Events /\ head \in 1 .. created
    BY <1>1, InspectionAssumption DEF Poll, IInv, TypeOK, CreatedInv, Events
  <2>2. TypeOK'
    BY <1>1, <2>1 DEF Poll, IInv, TypeOK
  <2>3. CreatedInv' /\ StoreInv' /\ OrderInv'
    BY <1>1, <2>1
    DEF Poll, IInv, CreatedInv, StoreInv, OrderInv, ReceivedIsStored, StoredWithoutGaps
  <2> QED BY <1>1, <2>2, <2>3
          DEF Poll, IInv, CommandInv, IdentityInv, IdentitiesDistinct, NeverHalts
<1>2. CASE WriteReceipt \/ DropReceipt \/ \E e \in Events : VerifyReceipt(e)
  <2>1. /\ receiptReg' \in {receiptReg, forwarding}
        /\ forwarding' \in {0} \cup receipts
        /\ restarts' \in 0 .. MaxRestarts
        /\ UNCHANGED <<created, stream, identity, journal, head, halted, wire, agentVars, age>>
    BY <1>2, InspectionAssumption
    DEF WriteReceipt, DropReceipt, VerifyReceipt, IInv, TypeOK
  <2>2. TypeOK'
    <3>1. receipts \subseteq 0 .. MaxEvents
      BY InspectionAssumption DEF IInv, TypeOK, Events
    <3>2. receiptReg' \in 0 .. MaxEvents /\ forwarding' \in 0 .. MaxEvents
      BY <2>1, <3>1, InspectionAssumption DEF IInv, TypeOK
    <3> QED BY <2>1, <3>2 DEF IInv, TypeOK
  <2>3. CreatedInv' /\ StoreInv' /\ OrderInv'
    BY <2>1
    DEF IInv, CreatedInv, StoreInv, OrderInv, ReceivedIsStored, StoredWithoutGaps
  <2> QED BY <2>1, <2>2, <2>3
          DEF IInv, CommandInv, IdentityInv, IdentitiesDistinct, NeverHalts
<1>3. CASE \E e \in Events : LoseObservation(e) \/ LoseReceipt(e)
  <2>1. /\ wire' \subseteq wire /\ receipts' \subseteq receipts
        /\ UNCHANGED <<deviceVars, forwarding, row, baseline, receiptDue, sent, commands,
                       stored, age, restarts>>
    BY <1>3 DEF LoseObservation, LoseReceipt
  <2>2. TypeOK'
    BY <2>1 DEF IInv, TypeOK
  <2>3. CreatedInv' /\ StoreInv' /\ OrderInv'
    BY <2>1
    DEF IInv, CreatedInv, StoreInv, OrderInv, ReceivedIsStored, StoredWithoutGaps
  <2> QED BY <2>1, <2>2, <2>3
          DEF IInv, CommandInv, IdentityInv, IdentitiesDistinct, NeverHalts
<1> QED BY <1>1, <1>2, <1>3

(* What storing an inspection does to the rows and commands.               *)
LEMMA ReceiveFacts ==
    ASSUME NEW e \in Events, IInv, Receive(e)
    PROVE  \E d \in DispositionsFor(e), purge \in SUBSET Purgeable :
              /\ d \in Dispositions
              /\ row' = [f \in Events |-> IF f = e THEN d
                                          ELSE IF f \in purge THEN "none" ELSE row[f]]
              /\ commands' = [commands EXCEPT ![e] = @ + (IF d = "pending" THEN 1 ELSE 0)]
              /\ d = "pending" => IsFresh(e) /\ commands[e] = 0
<1>1. PICK d \in DispositionsFor(e), purge \in SUBSET Purgeable :
         /\ row' = [f \in Events |-> IF f = e THEN d
                                     ELSE IF f \in purge THEN "none" ELSE row[f]]
         /\ commands' = [commands EXCEPT ![e] = @ + (IF d = "pending" THEN 1 ELSE 0)]
  BY DEF Receive
<1>2. d \in Dispositions
  BY DEF DispositionsFor, Dispositions, WithCommand
<1>3. ASSUME d = "pending" PROVE IsFresh(e) /\ commands[e] = 0
  <2>1. age[e] = "fresh"
    BY <1>3 DEF DispositionsFor
  <2>2. row[e] \notin WithCommand
    BY DEF Receive, WithCommand
  <2>3. commands[e] \in Nat /\ commands[e] <= 1 /\ commands[e] # 1
    BY <2>1, <2>2 DEF IInv, TypeOK, CommandInv
  <2> QED BY <2>1, <2>3 DEF IsFresh
<1> QED BY <1>1, <1>2, <1>3

(* The agent stores an inspection.                                         *)
LEMMA ReceiveStep ==
    ASSUME NEW e \in Events, IInv, Receive(e)
    PROVE  IInv'
<1>1. PICK d \in DispositionsFor(e), purge \in SUBSET Purgeable :
         /\ d \in Dispositions
         /\ row' = [f \in Events |-> IF f = e THEN d
                                     ELSE IF f \in purge THEN "none" ELSE row[f]]
         /\ commands' = [commands EXCEPT ![e] = @ + (IF d = "pending" THEN 1 ELSE 0)]
         /\ d = "pending" => IsFresh(e) /\ commands[e] = 0
  BY ReceiveFacts
<1>2. /\ e \in wire /\ row[e] = "none"
      /\ stored' = stored \cup {e} /\ receiptDue' = e
      /\ UNCHANGED <<deviceVars, adapterVars, baseline, receipts, sent, age, restarts>>
  BY DEF Receive
<1> USE DEF deviceVars, adapterVars
<1>3. TypeOK'
  <2>1. row' \in [Events -> Dispositions \cup {"none"}]
    BY <1>1 DEF IInv, TypeOK
  <2>2. commands' \in [Events -> Nat]
    BY <1>1 DEF IInv, TypeOK
  <2>3. e \in 0 .. MaxEvents
    BY InspectionAssumption DEF Events
  <2> QED BY <1>2, <2>1, <2>2, <2>3 DEF IInv, TypeOK
<1>4. CreatedInv'
  BY <1>2 DEF IInv, CreatedInv
<1>5. StoreInv'
  <2>1. \A f \in Events : row'[f] # "none" \/ commands'[f] > 0 => f \in stored'
    BY <1>1, <1>2 DEF IInv, TypeOK, StoreInv
  <2> QED BY <1>2, <2>1 DEF IInv, StoreInv, ReceivedIsStored
<1>6. OrderInv'
  BY <1>2 DEF IInv, OrderInv, StoredWithoutGaps
<1>7. CommandInv'
  <2>1. SUFFICES ASSUME NEW f \in Events
                 PROVE  /\ commands'[f] <= 1
                        /\ commands'[f] = 1 /\ row'[f] \notin WithCommand
                              => age'[f] = "retired"
    BY DEF CommandInv
  <2>2. commands \in [Events -> Nat] /\ commands[f] <= 1
    BY DEF IInv, TypeOK, CommandInv
  <2>3. CASE f = e
    <3>1. commands'[e] = commands[e] + (IF d = "pending" THEN 1 ELSE 0) /\ row'[e] = d
      BY <1>1, <2>2
    <3>2. CASE d = "pending"
      BY <1>1, <2>3, <3>1, <3>2 DEF WithCommand
    <3>3. CASE d # "pending"
      BY <1>2, <2>2, <2>3, <3>1, <3>3 DEF IInv, CommandInv, WithCommand
    <3> QED BY <3>2, <3>3
  <2>4. CASE f # e
    <3>1. commands'[f] = commands[f]
      BY <1>1, <2>2, <2>4
    <3>2. CASE f \in purge
      BY <1>2, <2>2, <3>1, <3>2 DEF Purgeable
    <3>3. CASE f \notin purge
      BY <1>1, <1>2, <2>2, <2>4, <3>1, <3>3 DEF IInv, CommandInv
    <3> QED BY <3>2, <3>3
  <2> QED BY <2>3, <2>4
<1>8. IdentityInv' /\ NeverHalts'
  BY <1>2 DEF IInv, IdentityInv, IdentitiesDistinct, NeverHalts
<1> QED BY <1>3, <1>4, <1>5, <1>6, <1>7, <1>8 DEF IInv

(* The rest of the agent: receipts, baselines, sending, restarts.          *)
LEMMA AgentStep ==
    ASSUME IInv,
           \/ PublishReceipt \/ BaselineChanges \/ RestartAgent
           \/ \E e \in Events : ReceiveAgain(e) \/ Send(e)
    PROVE  IInv'
<1> USE DEF deviceVars, adapterVars, Restarting
<1>1. /\ receiptDue' \in stored \cup {0}
      /\ receipts' \subseteq stored
      /\ baseline' \in BOOLEAN
      /\ sent' \subseteq Events
      /\ restarts' \in 0 .. MaxRestarts
      /\ UNCHANGED <<deviceVars, adapterVars, row, commands, stored, age>>
  <2>1. CASE PublishReceipt
    BY <2>1 DEF PublishReceipt, IInv, TypeOK, StoreInv
  <2>2. CASE BaselineChanges
    <3>1. baseline' \in BOOLEAN
      BY <2>2, Zenon DEF BaselineChanges
    <3>2. UNCHANGED <<deviceVars, adapterVars, row, receiptDue, receipts, sent, commands,
                      stored, age, restarts>>
      BY <2>2 DEF BaselineChanges
    <3> QED BY <3>1, <3>2 DEF IInv, TypeOK, StoreInv
  <2>3. CASE RestartAgent
    <3>1. baseline' \in BOOLEAN
      BY <2>3, Zenon DEF RestartAgent
    <3>2. /\ restarts' \in 0 .. MaxRestarts /\ receiptDue' = 0
          /\ UNCHANGED <<deviceVars, adapterVars, row, receipts, sent, commands, stored, age>>
      BY <2>3, InspectionAssumption DEF RestartAgent, IInv, TypeOK
    <3> QED BY <3>1, <3>2 DEF IInv, TypeOK, StoreInv
  <2>4. CASE \E e \in Events : ReceiveAgain(e) \/ Send(e)
    <3>1. CASE \E e \in Events : ReceiveAgain(e)
      BY <3>1 DEF ReceiveAgain, IInv, TypeOK, StoreInv
    <3>2. CASE \E e \in Events : Send(e)
      BY <3>2 DEF Send, IInv, TypeOK, StoreInv
    <3> QED BY <2>4, <3>1, <3>2
  <2> QED BY <2>1, <2>2, <2>3, <2>4
<1>2. TypeOK'
  <2>1. receiptDue' \in 0 .. MaxEvents /\ receipts' \subseteq Events
    BY <1>1, InspectionAssumption DEF IInv, TypeOK, Events
  <2> QED BY <1>1, <2>1, SMTT(30) DEF IInv, TypeOK
<1>3. CreatedInv' /\ StoreInv' /\ OrderInv'
  BY <1>1
  DEF IInv, CreatedInv, StoreInv, OrderInv, ReceivedIsStored, StoredWithoutGaps
<1> QED BY <1>1, <1>2, <1>3
        DEF IInv, CommandInv, IdentityInv, IdentitiesDistinct, NeverHalts

(* Results, giving up, and the passing of time.                            *)
LEMMA OutcomeStep ==
    ASSUME NEW e \in Events, IInv,
           \/ GiveUp(e) \/ Age(e)
           \/ \E outcome \in WithCommand \ {"pending"} : Settle(e, outcome)
    PROVE  IInv'
<1> USE DEF deviceVars, adapterVars, agentVars
<1>1. CASE Age(e)
  <2>1. /\ age' \in [Events -> {"none", "future", "fresh", "old", "retired"}]
        /\ \A f \in Events : age[f] = "retired" => age'[f] = "retired"
        /\ UNCHANGED <<deviceVars, adapterVars, agentVars, restarts>>
    BY <1>1 DEF Age, Ages, IInv, TypeOK
  <2>2. TypeOK' /\ CommandInv'
    BY <2>1 DEF IInv, TypeOK, CommandInv
  <2> QED BY <2>1, <2>2
          DEF IInv, CreatedInv, StoreInv, OrderInv, ReceivedIsStored, StoredWithoutGaps,
              IdentityInv, IdentitiesDistinct, NeverHalts
<1>2. CASE GiveUp(e) \/ \E outcome \in WithCommand \ {"pending"} : Settle(e, outcome)
  <2>1. PICK o \in WithCommand : row' = [row EXCEPT ![e] = o]
    BY <1>2 DEF GiveUp, Settle, WithCommand
  <2>2. /\ row[e] \in WithCommand
        /\ UNCHANGED <<deviceVars, adapterVars, baseline, receiptDue, receipts, sent,
                       commands, stored, age, restarts>>
    BY <1>2 DEF GiveUp, Settle, WithCommand
  <2>3. /\ row' \in [Events -> Dispositions \cup {"none"}]
        /\ \A f \in Events : row'[f] = row[f] \/ (f = e /\ row'[f] \in WithCommand)
    BY <2>1 DEF IInv, TypeOK, Dispositions
  <2>4. TypeOK'
    BY <2>2, <2>3 DEF IInv, TypeOK
  <2>5. StoreInv'
    <3>1. e \in stored
      BY <2>2 DEF IInv, StoreInv, WithCommand
    <3> QED BY <2>2, <2>3, <3>1 DEF IInv, StoreInv, ReceivedIsStored
  <2>6. CommandInv'
    BY <2>2, <2>3 DEF IInv, CommandInv
  <2> QED BY <2>2, <2>4, <2>5, <2>6
          DEF IInv, CreatedInv, OrderInv, StoredWithoutGaps, IdentityInv,
              IdentitiesDistinct, NeverHalts
<1> QED BY <1>1, <1>2

(* Every step preserves the inductive invariant.                           *)
LEMMA NextInv == IInv /\ [Next]_vars => IInv'
<1> SUFFICES ASSUME IInv, [Next]_vars PROVE IInv'
  OBVIOUS
<1>1. CASE Tick
  BY <1>1, TickStep
<1>2. CASE TickInspecting
  BY <1>2, TickInspectingStep
<1>3. CASE RestartDevice
  BY <1>3, RestartDeviceStep
<1>4. CASE \/ Poll \/ WriteReceipt \/ DropReceipt
           \/ \E e \in Events : VerifyReceipt(e) \/ LoseObservation(e) \/ LoseReceipt(e)
  BY <1>4, AdapterStep
<1>5. CASE \/ PublishReceipt \/ BaselineChanges \/ RestartAgent
           \/ \E e \in Events : ReceiveAgain(e) \/ Send(e)
  BY <1>5, AgentStep
<1>6. CASE \E e \in Events : Receive(e)
  BY <1>6, ReceiveStep
<1>7. CASE \E e \in Events :
              \/ GiveUp(e) \/ Age(e)
              \/ \E outcome \in WithCommand \ {"pending"} : Settle(e, outcome)
  BY <1>7, OutcomeStep
<1>8. CASE UNCHANGED vars
  BY <1>8
  DEF vars, deviceVars, adapterVars, agentVars, IInv, TypeOK, CreatedInv, StoreInv, OrderInv,
      ReceivedIsStored, StoredWithoutGaps, CommandInv, IdentityInv, IdentitiesDistinct,
      NeverHalts
<1> QED BY <1>1, <1>2, <1>3, <1>4, <1>5, <1>6, <1>7, <1>8 DEF Next

(* The inductive invariant holds in every reachable state.                 *)
THEOREM Inductive == Spec => []IInv
  BY InitInv, NextInv, PTL DEF Spec

(* Journal, store, messages and registers always have their types.         *)
THEOREM TypeCorrect == Spec => []TypeOK
<1>1. IInv => TypeOK
  BY DEF IInv
<1> QED BY <1>1, Inductive, PTL

(* The device never lets go of an inspection the agent has not stored.     *)
THEOREM NothingIsLost == Spec => []ReceivedIsStored
<1>1. IInv => ReceivedIsStored
  BY DEF IInv, StoreInv
<1> QED BY <1>1, Inductive, PTL

(* The agent stores inspections in the order of creation, without gaps.    *)
THEOREM NothingIsSkipped == Spec => []StoredWithoutGaps
<1>1. IInv => StoredWithoutGaps
  BY DEF IInv, OrderInv
<1> QED BY <1>1, Inductive, PTL

(* No inspection ever leads to two commands, however late it comes again.  *)
THEOREM NoSecondCommand == Spec => []OneCommandPerInspection
<1>1. IInv => OneCommandPerInspection
  BY DEF IInv, CommandInv, OneCommandPerInspection
<1> QED BY <1>1, Inductive, PTL

(* No two inspections share an identity.                                   *)
THEOREM IdentitiesAreUnique == Spec => []IdentitiesDistinct
<1>1. IInv => IdentitiesDistinct
  BY DEF IInv, IdentityInv
<1> QED BY <1>1, Inductive, PTL

(* The tick loop never dies of a full outbox.                              *)
THEOREM DeviceKeepsTicking == Spec => []NeverHalts
<1>1. IInv => NeverHalts
  BY DEF IInv
<1> QED BY <1>1, Inductive, PTL

(* A step creates commands only for a fresh inspection that it stores, and *)
(* changes a disposition only in the ways of the code.                     *)
LEMMA CommandOrigin ==
    ASSUME IInv, [Next]_vars, NEW e \in Events, commands'[e] # commands[e]
    PROVE  Receive(e) /\ row'[e] = "pending" /\ "pending" \in DispositionsFor(e)
<1> USE DEF vars, deviceVars, adapterVars, agentVars
<1>1. PICK g \in Events : Receive(g)
  BY DEF Next, Tick, TickInspecting, RestartDevice, Poll, WriteReceipt, DropReceipt,
         PublishReceipt, BaselineChanges, RestartAgent, VerifyReceipt, ReceiveAgain, Send,
         GiveUp, Age, LoseObservation, LoseReceipt, Settle
<1>2. PICK d \in DispositionsFor(g), purge \in SUBSET Purgeable :
         /\ d \in Dispositions
         /\ row' = [f \in Events |-> IF f = g THEN d
                                     ELSE IF f \in purge THEN "none" ELSE row[f]]
         /\ commands' = [commands EXCEPT ![g] = @ + (IF d = "pending" THEN 1 ELSE 0)]
  BY <1>1, ReceiveFacts
<1>3. commands \in [Events -> Nat]
  BY DEF IInv, TypeOK
<1>4. g = e
  BY <1>2, <1>3
<1>5. d = "pending"
  BY <1>2, <1>3, <1>4
<1> QED BY <1>1, <1>2, <1>4, <1>5

(* While an inspection with a command is fresh, no second command about    *)
(* its bottle is created.                                                  *)
THEOREM OneCommandPerBottle == Spec => BottleRejectedOnce
<1> DEFINE Step == \A e, f \in Events :
              /\ commands'[e] # commands[e]
              /\ e # f /\ commands[f] > 0 /\ row[f] # "none" /\ age[f] = "fresh"
              /\ identity[e][1] = identity[f][1]
              => Bottle[e] # Bottle[f]
<1>1. IInv /\ [Next]_vars => Step
  <2> SUFFICES ASSUME IInv, [Next]_vars, NEW e \in Events, NEW f \in Events,
                      commands'[e] # commands[e], e # f, commands[f] > 0,
                      row[f] # "none", age[f] = "fresh",
                      identity[e][1] = identity[f][1], Bottle[e] = Bottle[f]
               PROVE  FALSE
    OBVIOUS
  <2>1. "pending" \in DispositionsFor(e)
    BY CommandOrigin
  <2>2. f \in Twins(e) /\ IsFresh(f)
    BY DEF Twins, IsFresh
  <2>3. commands[f] = 1
    BY DEF IInv, TypeOK, CommandInv
  <2>4. row[f] \in WithCommand
    BY <2>3 DEF IInv, CommandInv
  <2>5. row[f] # "future"
    BY <2>4 DEF WithCommand
  <2> QED BY <2>1, <2>2, <2>5 DEF DispositionsFor
<1> HIDE DEF Step
<1>2. Spec => [][Step]_vars
  BY <1>1, Inductive, PTL DEF Spec
<1> QED BY <1>2 DEF BottleRejectedOnce, Step

(* A completed rejection is never turned into another outcome.             *)
THEOREM CompletionIsFinal == Spec => CompletedStays
<1> DEFINE Step == \A e \in Events : row[e] = "completed" => row'[e] \in {"completed", "none"}
<1>1. IInv /\ [Next]_vars => Step
  <2> SUFFICES ASSUME IInv, [Next]_vars, NEW e \in Events, row[e] = "completed",
                      row'[e] # "completed"
               PROVE  row'[e] = "none"
    OBVIOUS
  <2> USE DEF vars, deviceVars, adapterVars, agentVars
  <2>1. PICK g \in Events : \/ Receive(g) \/ GiveUp(g)
                            \/ \E outcome \in WithCommand \ {"pending"} : Settle(g, outcome)
    BY DEF Next, Tick, TickInspecting, RestartDevice, Poll, WriteReceipt, DropReceipt,
           PublishReceipt, BaselineChanges, RestartAgent, VerifyReceipt, ReceiveAgain, Send,
           Age, LoseObservation, LoseReceipt
  <2>2. row \in [Events -> Dispositions \cup {"none"}]
    BY DEF IInv, TypeOK
  <2>3. CASE Receive(g)
    <3>1. g # e
      BY <2>3 DEF Receive
    <3>2. PICK d \in DispositionsFor(g), purge \in SUBSET Purgeable :
             row' = [f \in Events |-> IF f = g THEN d
                                      ELSE IF f \in purge THEN "none" ELSE row[f]]
      BY <2>3, ReceiveFacts
    <3> QED BY <3>1, <3>2
  <2>4. CASE GiveUp(g)
    BY <2>2, <2>4 DEF GiveUp
  <2>5. CASE \E outcome \in WithCommand \ {"pending"} : Settle(g, outcome)
    BY <2>2, <2>5 DEF Settle
  <2> QED BY <2>1, <2>3, <2>4, <2>5
<1> HIDE DEF Step
<1>2. Spec => [][Step]_vars
  BY <1>1, Inductive, PTL DEF Spec
<1> QED BY <1>2 DEF CompletedStays, Step

(***************************************************************************)
(* Source positions (PositionGuard).                                       *)
(***************************************************************************)

(* What a source timestamp taken now would be.                             *)
Source == IF Polled THEN now ELSE changed

ClockInv == changed <= now

(* A generation belongs to one process, and is at most the stored one.     *)
OwnInv ==
    /\ \A p \in Processes : own[p] <= epoch
    /\ \A p, q \in Processes : own[p] = own[q] /\ own[p] # 0 => p = q

(* An observation in hand belongs to the process whose generation it       *)
(* carries; there is one per node and generation.                          *)
HeldInv ==
    /\ \A h \in held : h.conn <= epoch /\ h.at <= Source
    /\ \A h \in held, p \in Processes : own[p] = h.conn => p = h.proc
    /\ \A g, h \in held : g.conn = h.conn => g.proc = h.proc
    /\ \A g, h \in held : g.conn = h.conn /\ g.node = h.node => g = h

(* A stamped observation is within the stored generation and sequence.     *)
PublishedInv ==
    \A m \in published :
        /\ m.epoch <= epoch
        /\ m.epoch = epoch => m.sequence <= sequence[m.node]
        /\ m.at <= Source

(* What a generation still holds is no older than what it, or an earlier   *)
(* one, has published: the reason why fencing keeps source order.          *)
HeldIsLater ==
    \A m \in published, h \in held :
        m.node = h.node /\ m.epoch <= h.conn => m.at <= h.at

(* A high-water mark is the position of a published observation.           *)
PositionInv ==
    \A n \in Nodes :
        \/ position[n] = NoPosition
        \/ \E m \in published :
              /\ m.node = n /\ m.epoch = position[n].epoch
              /\ m.sequence = position[n].sequence /\ m.at = position[n].at

GuardInv ==
    /\ PositionTypeOK /\ ClockInv /\ OwnInv /\ HeldInv /\ PublishedInv /\ HeldIsLater
    /\ PositionsFollowSource /\ PositionInv /\ LatestIsHighWater

(* The initial state satisfies the inductive invariant.                    *)
LEMMA GuardInitInv == PositionInit => GuardInv
  BY PositionAssumption
  DEF PositionInit, GuardInv, PositionTypeOK, ClockInv, OwnInv, HeldInv, PublishedInv, HeldIsLater,
      PositionsFollowSource, PositionInv, LatestIsHighWater, NoPosition, Unknown

(* Time passes, or the device changes: only Source grows.                  *)
LEMMA ClockStep == GuardInv /\ (TimePasses \/ Change) => GuardInv'
<1> SUFFICES ASSUME GuardInv, TimePasses \/ Change PROVE GuardInv'
  OBVIOUS
<1> USE PositionAssumption DEF TimePasses, Change, producerVars, consumerVars
<1>1. now' \in Nat /\ changed' \in Nat /\ now <= now' /\ changed <= changed' /\ changed' <= now'
  BY DEF GuardInv, PositionTypeOK, ClockInv
<1>2. Source \in Nat /\ Source' \in Nat /\ Source <= Source'
  BY <1>1 DEF GuardInv, PositionTypeOK, Source
<1>3. PositionTypeOK' /\ ClockInv'
  BY <1>1 DEF GuardInv, PositionTypeOK, ClockInv
<1>4. OwnInv' /\ HeldIsLater' /\ PositionsFollowSource' /\ PositionInv' /\ LatestIsHighWater'
  BY DEF GuardInv, OwnInv, HeldIsLater, PositionsFollowSource, PositionInv,
         LatestIsHighWater
<1>5. \A x \in Nat : x <= Source => x <= Source'
  BY <1>2
<1>6. HeldInv'
  <2>1. \A h \in held : h.at \in Nat
    BY DEF GuardInv, PositionTypeOK, Held
  <2> QED BY <2>1, <1>5 DEF GuardInv, HeldInv
<1>7. PublishedInv'
  <2>1. \A m \in published : m.at \in Nat
    BY DEF GuardInv, PositionTypeOK, Message
  <2> QED BY <2>1, <1>5 DEF GuardInv, PublishedInv
<1> QED BY <1>3, <1>4, <1>6, <1>7 DEF GuardInv

(* A new generation starts.                                                *)
LEMMA BeginEpochStep ==
  ASSUME GuardInv, NEW p \in Processes, BeginEpoch(p) PROVE GuardInv'
<1> USE PositionAssumption DEF BeginEpoch, consumerVars
<1>1. held' \subseteq held
  OBVIOUS
<1>2. epoch \in Nat /\ epoch' = epoch + 1 /\ own' = [own EXCEPT ![p] = epoch + 1]
  BY DEF GuardInv, PositionTypeOK
<1>3. PositionTypeOK'
  BY <1>1, <1>2 DEF GuardInv, PositionTypeOK
<1>4. Source' = Source /\ ClockInv'
  BY DEF GuardInv, ClockInv, Source
<1>5. OwnInv'
  <2>1. \A q \in Processes : own[q] \in Nat /\ own[q] <= epoch
    BY DEF GuardInv, PositionTypeOK, OwnInv
  <2>2. \A q \in Processes : own'[q] = IF q = p THEN epoch + 1 ELSE own[q]
    BY <1>2 DEF GuardInv, PositionTypeOK
  <2> QED BY <2>1, <2>2, <1>2 DEF GuardInv, OwnInv
<1>6. HeldInv'
  <2>1. \A h \in held : h.conn \in Nat /\ h.conn <= epoch
    BY DEF GuardInv, PositionTypeOK, HeldInv, Held, NonZero
  <2>2. \A q \in Processes : own'[q] = IF q = p THEN epoch + 1 ELSE own[q]
    BY <1>2 DEF GuardInv, PositionTypeOK
  <2>3. \A h \in held : h.conn <= epoch' /\ h.at <= Source'
    BY <2>1, <1>2, <1>4 DEF GuardInv, HeldInv
  <2>4. \A h \in held, q \in Processes : own'[q] = h.conn => q = h.proc
    BY <2>1, <2>2, <1>2 DEF GuardInv, HeldInv
  <2> QED BY <1>1, <2>3, <2>4 DEF GuardInv, HeldInv
<1>7. PublishedInv'
  <2>1. \A m \in published : m.epoch \in Nat /\ m.epoch <= epoch
    BY DEF GuardInv, PositionTypeOK, PublishedInv, Message, NonZero
  <2> QED BY <2>1, <1>2, <1>4 DEF GuardInv, PublishedInv
<1>8. HeldIsLater' /\ PositionsFollowSource' /\ PositionInv' /\ LatestIsHighWater'
  BY <1>1 DEF GuardInv, HeldIsLater, PositionsFollowSource, PositionInv, LatestIsHighWater
<1> QED BY <1>3, <1>4, <1>5, <1>6, <1>7, <1>8 DEF GuardInv

(* An adapter restarts, or an observation is fenced: observations in hand  *)
(* are dropped.                                                            *)
LEMMA DropStep ==
  ASSUME GuardInv,
         \/ \E p \in Processes : RestartAdapter(p)
         \/ \E h \in held : Fenced(h)
  PROVE  GuardInv'
<1> USE PositionAssumption DEF RestartAdapter, Fenced, consumerVars
<1>1. held' \subseteq held
  OBVIOUS
<1>2. /\ own' \in [Processes -> Nat]
      /\ \A q \in Processes : own'[q] = own[q] \/ own'[q] = 0
  BY DEF GuardInv, PositionTypeOK
<1>3. UNCHANGED <<now, changed, epoch, sequence, published, position, latest>>
  OBVIOUS
<1>4. PositionTypeOK' /\ ClockInv' /\ Source' = Source
  BY <1>1, <1>2, <1>3 DEF GuardInv, PositionTypeOK, ClockInv, Source
<1>5. OwnInv'
  BY <1>2, <1>3 DEF GuardInv, PositionTypeOK, OwnInv
<1>6. HeldInv'
  <2>1. \A h \in held : h.conn # 0
    BY DEF GuardInv, PositionTypeOK, Held, NonZero
  <2>2. \A h \in held', q \in Processes : own'[q] = h.conn => q = h.proc
    BY <1>1, <1>2, <2>1 DEF GuardInv, HeldInv
  <2> QED BY <1>1, <1>3, <1>4, <2>2 DEF GuardInv, HeldInv
<1>7. PublishedInv' /\ HeldIsLater' /\ PositionsFollowSource' /\ PositionInv' /\ LatestIsHighWater'
  BY <1>1, <1>3, <1>4 DEF GuardInv, PublishedInv, HeldIsLater, PositionsFollowSource,
                          PositionInv, LatestIsHighWater
<1> QED BY <1>4, <1>5, <1>6, <1>7 DEF GuardInv

(* An observation is read.                                                 *)
LEMMA SampleStep ==
  ASSUME GuardInv, NEW p \in Processes, NEW n \in Nodes, NEW good \in BOOLEAN,
         Sample(p, n, good)
  PROVE  GuardInv'
<1> DEFINE s == [proc |-> p, node |-> n, conn |-> own[p], good |-> good, at |-> Source]
<1> USE PositionAssumption
<1>1. /\ held' = held \cup {s} /\ own[p] # 0
      /\ \A h \in held : ~(h.proc = p /\ h.node = n /\ h.conn = own[p])
      /\ UNCHANGED <<now, changed, epoch, sequence, own, published, position, latest>>
  BY DEF Sample, Source, consumerVars
<1>2. Source' = Source /\ Source \in Nat /\ own[p] \in NonZero
  BY <1>1 DEF GuardInv, PositionTypeOK, Source, NonZero
<1>3. s \in Held
  BY <1>2 DEF Held
<1>4. PositionTypeOK' /\ ClockInv' /\ OwnInv'
  BY <1>1, <1>3 DEF GuardInv, PositionTypeOK, ClockInv, OwnInv
<1>5. /\ s.proc = p /\ s.node = n /\ s.conn = own[p] /\ s.at = Source
  OBVIOUS
<1> HIDE DEF s
<1>6. HeldInv'
  <2>1. \A h \in held' : h.conn <= epoch' /\ h.at <= Source'
    BY <1>1, <1>2, <1>5 DEF GuardInv, HeldInv, OwnInv
  <2>2. \A h \in held', q \in Processes : own'[q] = h.conn => q = h.proc
    BY <1>1, <1>5 DEF GuardInv, HeldInv, OwnInv
  <2>3. \A h \in held : h.conn = s.conn => h.proc = s.proc
    BY <1>5 DEF GuardInv, HeldInv
  <2>4. \A g, h \in held' : g.conn = h.conn => g.proc = h.proc
    BY <1>1, <2>3 DEF GuardInv, HeldInv
  <2>5. \A h \in held : ~(h.conn = s.conn /\ h.node = s.node)
    BY <1>1, <1>5, <2>3
  <2>6. \A g, h \in held' : g.conn = h.conn /\ g.node = h.node => g = h
    BY <1>1, <2>5 DEF GuardInv, HeldInv
  <2> QED BY <2>1, <2>2, <2>4, <2>6 DEF HeldInv
<1>7. PublishedInv' /\ PositionsFollowSource' /\ PositionInv' /\ LatestIsHighWater'
  BY <1>1, <1>2 DEF GuardInv, PublishedInv, PositionsFollowSource, PositionInv, LatestIsHighWater
<1>8. HeldIsLater'
  <2>1. \A m \in published : m.at <= s.at
    BY <1>5 DEF GuardInv, PublishedInv
  <2> QED BY <1>1, <2>1 DEF GuardInv, HeldIsLater
<1> QED BY <1>4, <1>6, <1>7, <1>8 DEF GuardInv

(* An observation is stamped and published.                                *)
LEMMA PublishStep ==
  ASSUME GuardInv, NEW h \in held, Publish(h) PROVE GuardInv'
<1> DEFINE s == [node |-> h.node, epoch |-> own[h.proc],
                 sequence |-> sequence[h.node] + 1, at |-> h.at, good |-> h.good]
<1> USE PositionAssumption
<1>1. /\ own[h.proc] = h.conn /\ epoch = h.conn
      /\ sequence' = [sequence EXCEPT ![h.node] = @ + 1]
      /\ published' = published \cup {s}
      /\ held' = held \ {h}
      /\ UNCHANGED <<now, changed, epoch, own, position, latest>>
  BY DEF Publish, Current, consumerVars
<1>2. h \in Held /\ h.node \in Nodes /\ h.conn \in NonZero /\ h.at \in Nat /\ h.proc \in Processes
  BY DEF GuardInv, PositionTypeOK, Held
<1>3. sequence[h.node] \in Nat
  BY <1>2 DEF GuardInv, PositionTypeOK
<1>4. s \in Message
  BY <1>1, <1>2, <1>3 DEF Message, NonZero, Held
<1>5. /\ s.node = h.node /\ s.epoch = epoch /\ s.sequence = sequence[h.node] + 1
      /\ s.at = h.at
  BY <1>1
<1> HIDE DEF s
<1>6. PositionTypeOK' /\ ClockInv' /\ OwnInv' /\ Source' = Source
  BY <1>1, <1>2, <1>3, <1>4 DEF GuardInv, PositionTypeOK, ClockInv, OwnInv, Source
<1>7. HeldInv'
  BY <1>1, <1>6 DEF GuardInv, HeldInv
<1>8. \A l \in published : /\ l.node \in Nodes /\ l.epoch \in Nat /\ l.sequence \in Nat
                           /\ l.at \in Nat /\ l.epoch <= epoch
  BY DEF GuardInv, PositionTypeOK, PublishedInv, Message, NonZero
<1>9. epoch \in Nat
  BY DEF GuardInv, PositionTypeOK
<1>10. \A n \in Nodes : /\ sequence[n] \in Nat
                        /\ sequence'[n] = IF n = h.node THEN sequence[n] + 1 ELSE sequence[n]
  BY <1>1, <1>2 DEF GuardInv, PositionTypeOK
<1>11. PublishedInv'
  <2>1. s.epoch <= epoch /\ s.sequence <= sequence'[s.node] /\ s.at <= Source
    BY <1>2, <1>5, <1>9, <1>10 DEF GuardInv, HeldInv
  <2>2. \A l \in published : /\ l.epoch <= epoch /\ l.at <= Source
                             /\ l.epoch = epoch => l.sequence <= sequence'[l.node]
    BY <1>8, <1>10 DEF GuardInv, PublishedInv
  <2> QED BY <1>1, <1>6, <2>1, <2>2 DEF PublishedInv
<1>12. HeldIsLater'
  <2>1. \A g \in held' : ~(s.node = g.node /\ s.epoch <= g.conn)
    <3> SUFFICES ASSUME NEW g \in held', s.node = g.node, s.epoch <= g.conn PROVE FALSE
      OBVIOUS
    <3>1. g \in held /\ g # h /\ g.conn \in Nat /\ g.conn <= epoch
      BY <1>1 DEF GuardInv, PositionTypeOK, HeldInv, Held, NonZero
    <3>2. g.conn = h.conn
      BY <1>1, <1>5, <1>9, <3>1
    <3> QED BY <1>5, <3>1, <3>2 DEF GuardInv, HeldInv
  <2> QED BY <1>1, <2>1 DEF GuardInv, HeldIsLater
<1>13. \A l \in published : l.node = s.node => Before(l, s) /\ ~Before(s, l) /\ l.at <= s.at
  <2> SUFFICES ASSUME NEW l \in published, l.node = s.node
               PROVE Before(l, s) /\ ~Before(s, l) /\ l.at <= s.at
    OBVIOUS
  <2>1. l.epoch = epoch => l.sequence <= sequence[h.node]
    BY <1>5 DEF GuardInv, PublishedInv
  <2>2. Before(l, s) /\ ~Before(s, l)
    BY <2>1, <1>3, <1>5, <1>8, <1>9 DEF Before
  <2>3. l.at <= s.at
    BY <1>1, <1>5, <1>8 DEF GuardInv, HeldIsLater
  <2> QED BY <2>2, <2>3
<1>14. PositionsFollowSource'
  <2> SUFFICES ASSUME NEW l \in published', NEW m \in published', l.node = m.node
               PROVE  /\ (l.epoch = m.epoch /\ l.sequence = m.sequence) => l = m
                      /\ Before(l, m) => l.at <= m.at
    BY DEF PositionsFollowSource
  <2>1. CASE l \in published /\ m \in published
    BY <2>1 DEF GuardInv, PositionsFollowSource
  <2>2. CASE l = s /\ m = s
    BY <2>2, <1>5, <1>2
  <2>3. CASE l \in published /\ m = s
    <3>1. Before(l, s) /\ l.at <= s.at
      BY <1>13, <2>3
    <3>2. ~(l.epoch = s.epoch /\ l.sequence = s.sequence)
      BY <3>1, <1>8, <2>3 DEF Before
    <3> QED BY <3>1, <3>2, <2>3
  <2>4. CASE l = s /\ m \in published
    <3>1. Before(m, s) /\ ~Before(s, m)
      BY <1>13, <2>4
    <3>2. ~(m.epoch = s.epoch /\ m.sequence = s.sequence)
      BY <3>1, <1>8, <2>4 DEF Before
    <3> QED BY <3>1, <3>2, <2>4
  <2> QED BY <1>1, <2>1, <2>2, <2>3, <2>4
<1>15. PositionInv' /\ LatestIsHighWater'
  BY <1>1 DEF GuardInv, PositionInv, LatestIsHighWater
<1> QED BY <1>6, <1>7, <1>11, <1>12, <1>14, <1>15 DEF GuardInv

(* What acceptance means: the mark moves to a later position and the same  *)
(* or a later source time.                                                 *)
LEMMA AcceptAdvances ==
  ASSUME GuardInv, Positioned, NEW m \in published, Advance(m) = "accepted"
  PROVE  /\ Before(position[m.node], m)
         /\ position[m.node].at <= m.at
<1>1. m \in Message /\ m.node \in Nodes /\ m.at \in Nat /\ m.epoch \in Nat /\ m.sequence \in Nat
  BY DEF GuardInv, PositionTypeOK, Message, NonZero
<1>2. Before(position[m.node], m)
  BY DEF Advance
<1>3. CASE position[m.node] = NoPosition
  BY <1>1, <1>2, <1>3 DEF NoPosition
<1>4. CASE position[m.node] # NoPosition
  <2>1. PICK l \in published :
           /\ l.node = m.node /\ l.epoch = position[m.node].epoch
           /\ l.sequence = position[m.node].sequence /\ l.at = position[m.node].at
    BY <1>1, <1>4 DEF GuardInv, PositionInv
  <2>2. Before(l, m)
    BY <1>2, <2>1 DEF Before
  <2> QED BY <1>2, <2>1, <2>2 DEF GuardInv, PositionsFollowSource
<1> QED BY <1>3, <1>4

(* The agent accepts an observation, or restarts.                          *)
LEMMA ConsumerStep ==
  ASSUME GuardInv, RestartConsumer \/ \E m \in published : Accept(m)
  PROVE  GuardInv'
<1> USE PositionAssumption
<1>1. UNCHANGED <<now, changed, epoch, sequence, own, held, published>>
  BY DEF RestartConsumer, Accept, producerVars
<1>2. /\ ClockInv' /\ OwnInv' /\ HeldInv' /\ PublishedInv' /\ HeldIsLater'
      /\ PositionsFollowSource'
  BY <1>1 DEF GuardInv, ClockInv, OwnInv, HeldInv, PublishedInv, HeldIsLater,
              PositionsFollowSource, Source
<1>3. PositionTypeOK' /\ PositionInv' /\ LatestIsHighWater'
  <2>1. CASE RestartConsumer
    BY <1>1, <2>1 DEF GuardInv, PositionTypeOK, PositionInv, LatestIsHighWater, RestartConsumer, Unknown
  <2>2. ASSUME NEW m \in published, Accept(m)
        PROVE  PositionTypeOK' /\ PositionInv' /\ LatestIsHighWater'
    <3>1. m.node \in Nodes /\ m.at \in Nat /\ m.epoch \in Nat /\ m.sequence \in Nat
      BY DEF GuardInv, PositionTypeOK, Message, NonZero
    <3>2. latest' = [latest EXCEPT ![m.node] = m.at]
      BY <2>2 DEF Accept
    <3>3. CASE Positioned
      <4>1. position' = [position EXCEPT ![m.node] =
                [epoch |-> m.epoch, sequence |-> m.sequence, at |-> m.at]]
        BY <2>2, <3>3 DEF Accept
      <4>2. PositionTypeOK'
        BY <1>1, <3>1, <3>2, <4>1 DEF GuardInv, PositionTypeOK
      <4>3. PositionInv'
        BY <1>1, <3>1, <4>1 DEF GuardInv, PositionTypeOK, PositionInv
      <4>4. LatestIsHighWater'
        BY <3>1, <3>2, <4>1 DEF GuardInv, PositionTypeOK, LatestIsHighWater
      <4> QED BY <4>2, <4>3, <4>4
    <3>4. CASE ~Positioned
      <4>1. UNCHANGED position
        BY <2>2, <3>4 DEF Accept
      <4> QED BY <1>1, <3>1, <3>2, <3>4, <4>1 DEF GuardInv, PositionTypeOK, PositionInv, LatestIsHighWater
    <3> QED BY <3>3, <3>4
  <2> QED BY <2>1, <2>2
<1> QED BY <1>2, <1>3 DEF GuardInv

(* Every step preserves the inductive invariant.                           *)
LEMMA GuardNextInv == GuardInv /\ [PositionNext]_positionVars => GuardInv'
<1> SUFFICES ASSUME GuardInv, [PositionNext]_positionVars PROVE GuardInv'
  OBVIOUS
<1>1. CASE TimePasses \/ Change
  BY <1>1, ClockStep
<1>2. ASSUME NEW p \in Processes, BeginEpoch(p) PROVE GuardInv'
  BY <1>2, BeginEpochStep
<1>3. CASE (\E p \in Processes : RestartAdapter(p)) \/ (\E h \in held : Fenced(h))
  BY <1>3, DropStep
<1>4. ASSUME NEW p \in Processes, NEW n \in Nodes, NEW good \in BOOLEAN, Sample(p, n, good)
      PROVE GuardInv'
  BY <1>4, SampleStep
<1>5. ASSUME NEW h \in held, Publish(h) PROVE GuardInv'
  BY <1>5, PublishStep
<1>6. CASE RestartConsumer \/ \E m \in published : Accept(m)
  BY <1>6, ConsumerStep
<1>7. CASE UNCHANGED positionVars
  BY <1>7 DEF positionVars, GuardInv, PositionTypeOK, ClockInv, OwnInv, HeldInv, PublishedInv, HeldIsLater,
      PositionsFollowSource, PositionInv, LatestIsHighWater, Source
<1> QED BY <1>1, <1>2, <1>3, <1>4, <1>5, <1>6, <1>7 DEF PositionNext

(* The inductive invariant holds in every reachable state.                 *)
THEOREM GuardInductive == PositionSpec => []GuardInv
  BY GuardInitInv, GuardNextInv, PTL DEF PositionSpec

(* Databases, memories and messages always have their types.               *)
THEOREM PositionTypeCorrect == PositionSpec => []PositionTypeOK
<1>1. GuardInv => PositionTypeOK
  BY DEF GuardInv
<1> QED BY <1>1, GuardInductive, PTL

(* A position stands for one observation and positions follow source time, *)
(* whichever adapter processes stamped them.                               *)
THEOREM PositionsAreSound == PositionSpec => []PositionsFollowSource
<1>1. GuardInv => PositionsFollowSource
  BY DEF GuardInv
<1> QED BY <1>1, GuardInductive, PTL

(* The agent's memory agrees with its durable high-water mark.             *)
THEOREM MemoryAgreesWithStore == PositionSpec => []LatestIsHighWater
<1>1. GuardInv => LatestIsHighWater
  BY DEF GuardInv
<1> QED BY <1>1, GuardInductive, PTL

(* The newest observation is never refused for its position.               *)
THEOREM NobodyLockedOut == PositionSpec => []NewestNotRefused
<1>1. GuardInv => NewestNotRefused
  <2> SUFFICES ASSUME GuardInv, NEW m \in published, m.epoch = epoch,
                      m.sequence = sequence[m.node]
               PROVE  Advance(m) \in {"accepted", "duplicate"}
    BY DEF NewestNotRefused
  <2>1. m.node \in Nodes /\ m.at \in Nat /\ m.epoch \in NonZero /\ m.sequence \in NonZero
    BY DEF GuardInv, PositionTypeOK, Message
  <2>2. CASE position[m.node] = NoPosition
    BY <2>1, <2>2 DEF Advance, Before, NoPosition, NonZero
  <2>3. CASE position[m.node] # NoPosition
    <3>1. PICK l \in published :
             /\ l.node = m.node /\ l.epoch = position[m.node].epoch
             /\ l.sequence = position[m.node].sequence /\ l.at = position[m.node].at
      BY <2>1, <2>3 DEF GuardInv, PositionInv
    <3>2. /\ l.epoch \in Nat /\ l.sequence \in Nat /\ l.epoch <= m.epoch
          /\ l.epoch = m.epoch => l.sequence <= m.sequence
      BY <3>1 DEF GuardInv, PositionTypeOK, PublishedInv, Message, NonZero
    <3>3. Before(l, m) \/ (l.epoch = m.epoch /\ l.sequence = m.sequence)
      BY <2>1, <3>2 DEF Before, NonZero
    <3>4. CASE Before(l, m)
      BY <3>1, <3>4 DEF Advance, Before
    <3>5. CASE l.epoch = m.epoch /\ l.sequence = m.sequence
      <4>1. l = m
        BY <3>1, <3>5 DEF GuardInv, PositionsFollowSource
      <4> QED BY <2>1, <3>1, <3>2, <4>1 DEF Advance, Before, NonZero
    <3> QED BY <3>3, <3>4, <3>5
  <2> QED BY <2>2, <2>3
<1> QED BY <1>1, GuardInductive, PTL

(* What the agent accepts moves forward in position, never back in time.   *)
THEOREM AcceptanceMovesForward == PositionSpec => AcceptedInOrder
<1> DEFINE A == \A n \in Nodes : position'[n] # position[n] =>
                   /\ Before(position[n], position'[n])
                   /\ position[n].at <= position'[n].at
<1>1. GuardInv /\ [PositionNext]_positionVars => [A]_positionVars
  <2> SUFFICES ASSUME GuardInv, [PositionNext]_positionVars, NEW n \in Nodes, position'[n] # position[n]
               PROVE  /\ Before(position[n], position'[n])
                      /\ position[n].at <= position'[n].at
    OBVIOUS
  <2>1. PICK m \in published : Accept(m)
    BY DEF PositionNext, positionVars, TimePasses, Change, RestartConsumer, BeginEpoch, RestartAdapter,
           Sample, Publish, Fenced, consumerVars
  <2>2. /\ Positioned /\ Advance(m) = "accepted"
        /\ position' = [position EXCEPT ![m.node] =
                [epoch |-> m.epoch, sequence |-> m.sequence, at |-> m.at]]
    BY <2>1 DEF Accept
  <2>3. n = m.node /\ position'[n] = [epoch |-> m.epoch, sequence |-> m.sequence, at |-> m.at]
    BY <2>2 DEF GuardInv, PositionTypeOK
  <2>4. Before(position[n], m) /\ position[n].at <= m.at
    BY <2>2, <2>3, AcceptAdvances
  <2> QED BY <2>3, <2>4 DEF Before
<1>2. PositionSpec => [][A]_positionVars
  BY <1>1, GuardInductive, PTL DEF PositionSpec
<1> QED BY <1>2 DEF AcceptedInOrder
=============================================================================
