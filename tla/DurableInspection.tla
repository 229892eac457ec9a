------------------------- MODULE DurableInspection -------------------------
(***************************************************************************)
(* The durable inspection flow: a Modbus device journals each inspection   *)
(* (SourceJournal) and shows the oldest one not yet received; the adapter  *)
(* polls and publishes it; the decision agent stores it (ConsumerStore),   *)
(* possibly with a rejection command, and publishes a signed receipt; the  *)
(* adapter checks the receipt against the device's head and writes its     *)
(* identity to the receipt registers, which the device's next tick         *)
(* acknowledges in the journal.                                            *)
(*                                                                         *)
(* Inspections are numbered in creation order.  Their identity (session    *)
(* and sequence) is kept beside them and checked to be unique, so that the *)
(* number stands for the identity everywhere else.  Wall-clock time enters *)
(* through the age of an inspection only.                                  *)
(***************************************************************************)
EXTENDS Integers, FiniteSets

CONSTANTS
    MaxEvents,       \* bound on the inspections
    Failed,          \* those whose bottle failed
    Bottle,          \* the bottle each one is about
    Capacity,        \* outbox_capacity of the device's journal
    CommandCapacity, \* pending commands the consumer store still admits (of 128)
    MaxSequence,     \* inspections per session (65535)
    MaxRestarts      \* bound on restarts and failed writes, all together

Events == 1 .. MaxEvents

ASSUME InspectionAssumption ==
    /\ MaxEvents \in Nat \ {0}
    /\ Failed \subseteq Events
    /\ DOMAIN Bottle = Events
    /\ Capacity \in Nat \ {0}
    /\ CommandCapacity \in Nat
    /\ MaxSequence \in Nat \ {0}
    /\ MaxRestarts \in Nat

VARIABLES
    created,      \* device: number of inspections created
    stream,       \* device: InspectionStream.session and ._sequence
    identity,     \* device: the identity of each inspection
    journal,      \* device, durable: state of each inspection
    head,         \* device registers 60-69: the inspection shown, 0 if none
    receiptReg,   \* device registers 70-74: the inspection receipted, 0 if none
    halted,       \* device: the tick loop died of an exception
    age,          \* of each inspection, by the agent's clock
    wire,         \* observations published towards the agent
    receipts,     \* receipts published towards the adapter
    forwarding,   \* adapter: receipt verified and about to be written
    row,          \* agent, durable: disposition of each stored inspection
    baseline,     \* agent: a fresh, unsaturated reject count is known
    receiptDue,   \* agent: stored, receipt not published yet
    sent,         \* commands published
    commands,     \* history: commands created for each inspection
    stored,       \* history: inspections the agent has ever stored
    restarts

deviceVars  == <<created, stream, identity, journal, head, receiptReg, halted>>
adapterVars == <<wire, forwarding>>
agentVars   == <<row, baseline, receiptDue, receipts, sent, commands, stored>>
vars == <<deviceVars, adapterVars, agentVars, age, restarts>>

Ages == <<"future", "fresh", "old", "retired">>

(* Dispositions with a command, and those without.                         *)
WithCommand == {"pending", "completed", "refused", "unknown"}
Dispositions == WithCommand \cup {"future", "expired", "passed", "bottle_duplicate"}

(* Fault injection: the newest inspection is shown.                        *)
HeadNewest(j) ==
    IF \E e \in Events : j[e] = "pending"
      THEN CHOOSE e \in Events : /\ j[e] = "pending"
                                 /\ \A f \in Events : j[f] = "pending" => e >= f
      ELSE 0

(* journal.head: the oldest inspection not received.                       *)
Head(j) ==
    IF \E e \in Events : j[e] = "pending"
      THEN CHOOSE e \in Events : /\ j[e] = "pending"
                                 /\ \A f \in Events : j[f] = "pending" => e <= f
      ELSE 0

Init ==
    /\ created = 0
    /\ stream = [session |-> 1, sequence |-> 0]
    /\ identity = [e \in Events |-> <<0, 0>>]
    /\ journal = [e \in Events |-> "none"]
    /\ head = 0 /\ receiptReg = 0 /\ halted = FALSE
    /\ age = [e \in Events |-> "none"]
    /\ wire = {} /\ forwarding = 0 /\ receipts = {}
    /\ row = [e \in Events |-> "none"]
    /\ baseline = FALSE /\ receiptDue = 0 /\ sent = {}
    /\ commands = [e \in Events |-> 0]
    /\ stored = {}
    /\ restarts = 0

(***************************************************************************)
(* Device.                                                                 *)
(***************************************************************************)
(* journal.ack of the receipted identity, if it is still in the journal.   *)
Acked ==
    [e \in Events |-> IF e = receiptReg /\ journal[e] = "pending"
                        THEN "received" ELSE journal[e]]

(* commit deletes what was received more than a day ago.                   *)
Kept(j) ==
    [e \in Events |-> IF j[e] = "received" /\ age[e] = "retired"
                        THEN "deleted" ELSE j[e]]

Count(j) == Cardinality({e \in Events : j[e] = "pending"})

(* The tick loop stops producing when the outbox is full.                  *)
Full(j) == Count(j) >= Capacity

(* InspectionStream.observe: the next identity.                            *)
Observed ==
    IF stream.sequence + 1 > MaxSequence
      THEN [session |-> stream.session + 1, sequence |-> 1]
      ELSE [stream EXCEPT !.sequence = @ + 1]

(* A tick in which no bottle is inspected.                                 *)
Tick ==
    /\ ~halted
    /\ journal' = Kept(Acked)
    /\ head' = Head(journal')
    /\ UNCHANGED <<created, stream, identity, receiptReg, halted, age, restarts,
                   adapterVars, agentVars>>

(* A tick that inspects a bottle and commits it with the device's state.   *)
(* commit raises if the outbox is at capacity: the loop is dead.  The      *)
(* agent's clock may be behind the device's.                               *)
TickInspecting ==
    /\ ~halted /\ ~Full(Acked) /\ created < MaxEvents
    /\ IF Count(Acked) >= Capacity
         THEN /\ halted' = TRUE
              /\ journal' = Acked
              /\ UNCHANGED <<created, stream, identity, head, age>>
         ELSE LET e == created + 1
              IN /\ created' = e
                 /\ stream' = Observed
                 /\ identity' = [identity EXCEPT ![e] =
                                    <<Observed.session, Observed.sequence>>]
                 /\ journal' = [Kept(Acked) EXCEPT ![e] = "pending"]
                 /\ head' = Head(journal')
                 /\ \E a \in {"future", "fresh"} : age' = [age EXCEPT ![e] = a]
                 /\ UNCHANGED halted
    /\ UNCHANGED <<receiptReg, restarts, adapterVars, agentVars>>

Restarting == restarts < MaxRestarts /\ restarts' = restarts + 1

(* The device restarts from its journal: registers are empty, the session  *)
(* is a new one.                                                           *)
RestartDevice ==
    /\ Restarting
    /\ head' = 0 /\ receiptReg' = 0
    /\ stream' = [session |-> stream.session + 1, sequence |-> 0]
    /\ halted' = FALSE
    /\ UNCHANGED <<created, identity, journal, age, adapterVars, agentVars>>

(***************************************************************************)
(* Adapter.                                                                *)
(***************************************************************************)
(* The poll loop publishes the head.  What is in wire or receipts may be   *)
(* delivered late and repeatedly, until it is lost.                        *)
Poll ==
    /\ head # 0
    /\ wire' = wire \cup {head}
    /\ UNCHANGED <<deviceVars, forwarding, agentVars, age, restarts>>

(* The brokers and the telemetry pipeline lose a message.                  *)
LoseObservation(e) ==
    /\ e \in wire
    /\ wire' = wire \ {e}
    /\ UNCHANGED <<deviceVars, forwarding, agentVars, age, restarts>>

LoseReceipt(e) ==
    /\ e \in receipts
    /\ receipts' = receipts \ {e}
    /\ UNCHANGED <<deviceVars, adapterVars, row, baseline, receiptDue, sent, commands,
                   stored, age, restarts>>

(* Fault injection: the receipt is believed without a look at the head.    *)
VerifyReceiptUnchecked(e) ==
    /\ e \in receipts /\ forwarding = 0 /\ head # 0
    /\ forwarding' = head
    /\ UNCHANGED <<deviceVars, wire, agentVars, age, restarts>>

(* _receipts: a receipt that matches the head read from the device.        *)
VerifyReceipt(e) ==
    /\ e \in receipts /\ forwarding = 0 /\ head = e
    /\ forwarding' = e
    /\ UNCHANGED <<deviceVars, wire, agentVars, age, restarts>>

(* ... whose identity is then written to the receipt registers,            *)
WriteReceipt ==
    /\ forwarding # 0
    /\ receiptReg' = forwarding
    /\ forwarding' = 0
    /\ UNCHANGED <<created, stream, identity, journal, head, halted, wire,
                   agentVars, age, restarts>>

(* ... or not, when the write fails or the adapter restarts.               *)
DropReceipt ==
    /\ Restarting /\ forwarding # 0
    /\ forwarding' = 0
    /\ UNCHANGED <<deviceVars, wire, agentVars, age>>

(***************************************************************************)
(* Agent.                                                                  *)
(***************************************************************************)
IsFresh(e) == age[e] = "fresh"

(* _receive_durable: a fresh failure waits until the reject count is known *)
(* that its confirmation will be measured against.                         *)
MustWait(e) == IsFresh(e) /\ e \in Failed /\ row[e] = "none" /\ ~baseline

(* Stored inspections of the same bottle in the same session.              *)
Twins(e) == {f \in Events \ {e} : /\ row[f] # "none"
                                  /\ Bottle[f] = Bottle[e]
                                  /\ identity[f][1] = identity[e][1]}

(* Fault injection: a row that is no longer pending does not count.        *)
DispositionsForPendingTwin(e) ==
    IF age[e] = "future" THEN {"future"}
    ELSE IF age[e] # "fresh" THEN {"expired"}
    ELSE IF e \notin Failed THEN {"passed"}
    ELSE IF \E f \in Twins(e) : row[f] = "pending" THEN {"bottle_duplicate"}
    ELSE {"pending"}

(* Fault injection: an expired inspection still gets its command.          *)
DispositionsUnexpired(e) ==
    IF age[e] = "future" THEN {"future"}
    ELSE IF e \notin Failed THEN {"passed"}
    ELSE {"pending"}

(* receive: the disposition of an inspection stored for the first time.    *)
(* Its query looks at the rows received in the last max_age + 10 seconds:  *)
(* surely those received while fresh that still are, and possibly others.  *)
DispositionsFor(e) ==
    IF age[e] = "future" THEN {"future"}
    ELSE IF age[e] # "fresh" THEN {"expired"}
    ELSE IF e \notin Failed THEN {"passed"}
    ELSE IF \E f \in Twins(e) : IsFresh(f) /\ row[f] # "future" THEN {"bottle_duplicate"}
    ELSE IF Twins(e) # {} THEN {"bottle_duplicate", "pending"}
    ELSE {"pending"}

OutboxFull == Cardinality({e \in Events : row[e] = "pending"}) >= CommandCapacity

(* Rows that the purge at the end of receive may find a day old.           *)
Purgeable == {e \in Events : row[e] \notin {"none", "pending"} /\ age[e] = "retired"}

(* The first arrival: stored, with its command if it is to be rejected.    *)
(* A full command outbox raises instead and nothing is stored.             *)
Receive(e) ==
    /\ e \in wire /\ receiptDue = 0 /\ row[e] = "none" /\ ~MustWait(e)
    /\ \E d \in DispositionsFor(e), purge \in SUBSET Purgeable :
          /\ d = "pending" => ~OutboxFull
          /\ row' = [f \in Events |-> IF f = e THEN d
                                      ELSE IF f \in purge THEN "none" ELSE row[f]]
          /\ commands' = [commands EXCEPT ![e] = @ + (IF d = "pending" THEN 1 ELSE 0)]
    /\ stored' = stored \cup {e}
    /\ receiptDue' = e
    /\ UNCHANGED <<deviceVars, adapterVars, baseline, receipts, sent, age, restarts>>

(* A later arrival of a stored inspection is receipted again.              *)
ReceiveAgain(e) ==
    /\ e \in wire /\ receiptDue = 0 /\ row[e] # "none"
    /\ receiptDue' = e
    /\ UNCHANGED <<deviceVars, adapterVars, row, baseline, receipts, sent, commands,
                   stored, age, restarts>>

(* The receipt of what has just been received is signed and published.     *)
PublishReceipt ==
    /\ receiptDue # 0
    /\ receipts' = receipts \cup {receiptDue}
    /\ receiptDue' = 0
    /\ UNCHANGED <<deviceVars, adapterVars, row, baseline, sent, commands, stored,
                   age, restarts>>

(* The reject count arrives, saturates or goes stale.                      *)
BaselineChanges ==
    /\ baseline' = ~baseline
    /\ UNCHANGED <<deviceVars, adapterVars, row, receiptDue, receipts, sent, commands,
                   stored, age, restarts>>

(* _send_pending: ready commands are marked sent and published, and again  *)
(* every second until their result is known.                               *)
Send(e) ==
    /\ row[e] = "pending"
    /\ sent' = sent \cup {e}
    /\ UNCHANGED <<deviceVars, adapterVars, row, baseline, receiptDue, receipts,
                   commands, stored, age, restarts>>

(* ready: a command without a result for a day is of unknown outcome.      *)
GiveUp(e) ==
    /\ row[e] = "pending" /\ age[e] = "retired"
    /\ row' = [row EXCEPT ![e] = "unknown"]
    /\ UNCHANGED <<deviceVars, adapterVars, baseline, receiptDue, receipts, sent,
                   commands, stored, age, restarts>>

(* Fault injection: the last result wins.                                  *)
SettleLast(e, outcome) ==
    /\ e \in sent /\ row[e] \in WithCommand
    /\ row' = [row EXCEPT ![e] = outcome]
    /\ UNCHANGED <<deviceVars, adapterVars, baseline, receiptDue, receipts, sent,
                   commands, stored, age, restarts>>

(* settle: a final result, of any of the command's publications.           *)
Settle(e, outcome) ==
    /\ e \in sent /\ row[e] \in WithCommand
    /\ row[e] = "completed" => outcome = "completed"
    /\ row' = [row EXCEPT ![e] = outcome]
    /\ UNCHANGED <<deviceVars, adapterVars, baseline, receiptDue, receipts, sent,
                   commands, stored, age, restarts>>

(* The agent restarts with its store.                                      *)
RestartAgent ==
    /\ Restarting
    /\ baseline' = FALSE
    /\ receiptDue' = 0
    /\ UNCHANGED <<deviceVars, adapterVars, row, receipts, sent, commands, stored, age>>

(* Time passes: max_age (at most 5 s) is far less than the day that rows   *)
(* and journal entries are kept.                                           *)
Age(e) ==
    \E i \in 1 .. 3 :
        /\ age[e] = Ages[i]
        /\ age' = [age EXCEPT ![e] = Ages[i + 1]]
        /\ UNCHANGED <<deviceVars, adapterVars, agentVars, restarts>>

Next ==
    \/ Tick \/ TickInspecting \/ RestartDevice
    \/ Poll \/ WriteReceipt \/ DropReceipt
    \/ PublishReceipt \/ BaselineChanges \/ RestartAgent
    \/ \E e \in Events :
          \/ VerifyReceipt(e) \/ Receive(e) \/ ReceiveAgain(e) \/ Send(e)
          \/ GiveUp(e) \/ Age(e)
          \/ LoseObservation(e) \/ LoseReceipt(e)
          \/ \E outcome \in WithCommand \ {"pending"} : Settle(e, outcome)

Spec == Init /\ [][Next]_vars

(***************************************************************************)
(* Properties.                                                             *)
(***************************************************************************)
(* Every variable has its type.                                            *)
TypeOK ==
    /\ created \in 0 .. MaxEvents
    /\ stream \in [session : Nat, sequence : 0 .. MaxSequence]
    /\ identity \in [Events -> Nat \X (0 .. MaxSequence)]
    /\ journal \in [Events -> {"none", "pending", "received", "deleted"}]
    /\ head \in 0 .. MaxEvents /\ receiptReg \in 0 .. MaxEvents
    /\ halted \in BOOLEAN /\ baseline \in BOOLEAN
    /\ age \in [Events -> {"none", "future", "fresh", "old", "retired"}]
    /\ wire \subseteq Events /\ receipts \subseteq Events
    /\ sent \subseteq Events /\ stored \subseteq Events
    /\ forwarding \in 0 .. MaxEvents /\ receiptDue \in 0 .. MaxEvents
    /\ row \in [Events -> Dispositions \cup {"none"}]
    /\ commands \in [Events -> Nat]
    /\ restarts \in 0 .. MaxRestarts

(* No inspection is lost: the device lets go of one only when the agent    *)
(* has stored it, whatever is lost, repeated or restarted in between.      *)
ReceivedIsStored ==
    \A e \in Events : journal[e] \in {"received", "deleted"} => e \in stored

(* The agent learns of the inspections in order and without gaps, though   *)
(* observations, receipts and acknowledgements are lost and overtaken.     *)
StoredWithoutGaps == \A e, f \in Events : e < f /\ f \in stored => e \in stored

(* An inspection leads to at most one command, also when its row has been  *)
(* purged and the observation arrives again.                               *)
OneCommandPerInspection == \A e \in Events : commands[e] <= 1

(* Inspections never share an identity, over restarts and wrap-around: the *)
(* journal's and the store's conflict errors cannot arise.                 *)
IdentitiesDistinct ==
    \A e, f \in 1 .. created : identity[e] = identity[f] => e = f

(* The tick loop never dies of its own outbox: it stops producing in time. *)
NeverHalts == ~halted

(* Two commands about one bottle in one session are never created while    *)
(* the first inspection is still fresh.                                    *)
BottleRejectedOnce ==
    [][\A e, f \in Events :
          /\ commands'[e] # commands[e]
          /\ e # f /\ commands[f] > 0 /\ row[f] # "none" /\ age[f] = "fresh"
          /\ identity[e][1] = identity[f][1]
          => Bottle[e] # Bottle[f]]_vars

(* A completed rejection stays completed: late or repeated results do not  *)
(* turn it into a refusal.  Only the purge ends it.                        *)
CompletedStays ==
    [][\A e \in Events : row[e] = "completed" => row'[e] \in {"completed", "none"}]_vars

=============================================================================
