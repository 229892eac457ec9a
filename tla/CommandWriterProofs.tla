------------------------ MODULE CommandWriterProofs ------------------------
(***************************************************************************)
(* Proofs about CommandWriter, for every set of commands and deliveries,   *)
(* every retention and every bound, and about NativeMailbox, for any number*)
(* of native writes, any sequence space and any number of device restarts. *)
(***************************************************************************)
EXTENDS CommandWriter, NativeMailbox, TLAPS

(***************************************************************************)
(* The inductive invariant.                                                *)
(***************************************************************************)
(* The event loop has one owner, the handler that is between two awaits.   *)
LoopInv ==
    /\ \A d \in Deliveries : pc[d] \in LoopPcs <=> loop = d
    /\ ~up => /\ loop = NoDelivery
              /\ \A d \in Deliveries : pc[d] \in {"new", "done"}

(* A delivery that has not arrived has no command and no native write; a   *)
(* native write belongs to a handler that has claimed its command.         *)
DeliveryInv ==
    \A d \in Deliveries :
        /\ pc[d] = "new" => cmd[d] = NoCommand /\ ~authentic[d]
        /\ pc[d] # "new" => cmd[d] \in Commands
        /\ native[d] # "none" =>
             pc[d] \in {"await", "settle", "complete", "cancel", "salvage",
                       "reply", "done"}
        /\ native[d] = "none" => frames[d] = 0 /\ ~marked[d]
        /\ pc[d] = "complete" => native[d] = "returned"

(* A row is the row of its command's id, is kept until Retention after the *)
(* command's deadline, and names its owner exactly while it is active.     *)
RowInv ==
    \A i \in Ids :
        /\ ledger[i].state # "absent" =>
             /\ ledger[i].cmd \in Commands
             /\ IdOf[ledger[i].cmd] = i
             /\ ledger[i].keep >= Deadline[ledger[i].cmd] + Retention
        /\ ledger[i].state \in ActiveStates =>
             /\ ledger[i].token \in Deliveries
             /\ cmd[ledger[i].token] = ledger[i].cmd
        /\ ledger[i].state \notin ActiveStates => ledger[i].token = NoDelivery
        /\ ledger[i].state = "started" => marked[ledger[i].token]

(* An initiation marker is on record until the command is beyond retention.*)
OnRecord(d) ==
    /\ RowOf(d).cmd = cmd[d]
    /\ \/ RowOf(d).state = "started" /\ RowOf(d).token = d
       \/ RowOf(d).state \in {"completed", "unknown"}

MarkInv ==
    \A d \in Deliveries : marked[d] => OnRecord(d) \/ BeyondRetention(cmd[d])

(* Frames are issued only behind a marker, and counted.                    *)
FrameInv ==
    \A d \in Deliveries :
        /\ frames[d] > 0 => marked[d]
        /\ native[d] \in {"reverify", "frame", "ack"} => marked[d]
        /\ native[d] \in {"connect", "verify", "mark", "reverify", "frame"} =>
             frames[d] < Frames[cmd[d]]
        /\ native[d] \in {"ack", "returned"} => frames[d] = Frames[cmd[d]]

(* A claim that has passed before_write's expiry check and still owns a    *)
(* row without a marker is the command's first: nobody marked before it.   *)
FenceInv ==
    \A d, e \in Deliveries :
        /\ native[d] = "mark"
        /\ RowOf(d).token = d /\ RowOf(d).state = "preparing"
        /\ cmd[e] = cmd[d]
        => ~marked[e]

OneMarkInv ==
    \A d, e \in Deliveries : marked[d] /\ marked[e] /\ cmd[d] = cmd[e] => d = e

(* A handler on its way to a fresh claim, or to a reply that says the      *)
(* command was not executed, knows that no attempt is under way and that   *)
(* no retained one ever marked the command.                                *)
DeniesExecution(d) ==
    /\ authentic[d]
    /\ \/ pc[d] \in {"verify", "claim"}
       \/ pc[d] = "reply" /\ result[d] \in {"not_executed", "retryable"}

DenialInv ==
    \A d \in Deliveries : DeniesExecution(d) =>
        /\ ~(RowOf(d).cmd = cmd[d] /\ RowOf(d).state \in ActiveStates)
        /\ \A e \in Deliveries :
              cmd[e] = cmd[d] /\ marked[e] => BeyondRetention(cmd[d])

(* A completed row and a completion reply rest on an acknowledged attempt. *)
Backed(c) ==
    \E e \in Deliveries : /\ cmd[e] = c /\ frames[e] = Frames[c]
                          /\ native[e] = "returned" /\ pc[e] \in {"reply", "done"}

CompletionInv ==
    /\ \A i \in Ids : ledger[i].state = "completed" => Backed(ledger[i].cmd)
    /\ \A d \in Deliveries :
         pc[d] = "reply" /\ result[d] = "completed" => Backed(cmd[d])

IInv == TypeOK /\ LoopInv /\ DeliveryInv /\ RowInv /\ MarkInv /\ FrameInv
        /\ FenceInv /\ OneMarkInv /\ DenialInv /\ CompletionInv

(***************************************************************************)
(* Rows.                                                                   *)
(***************************************************************************)
(* What one transaction, other than claim and mark_started, may do to a    *)
(* row: nothing, prune it, or settle an active one.                        *)
PrunesRow(old, new) ==
    old.state \in TerminalStates /\ old.keep < now /\ new = NoRow

SettlesRow(old, new) ==
    /\ old.state \in ActiveStates
    /\ new.cmd = old.cmd /\ new.token = NoDelivery /\ new.keep >= old.keep
    /\ old.state = "preparing" => new.state = "retryable"
    /\ old.state = "started" => new.state \in {"completed", "unknown"}

RowStep(old, new) == new = old \/ PrunesRow(old, new) \/ SettlesRow(old, new)

LedgerStep ==
    /\ ledger' \in [Ids -> Row]
    /\ \A i \in Ids : RowStep(ledger[i], ledger'[i])

(* A delivery that has arrived has a row to look at: its id is an id.      *)
LEMMA RowExists ==
    ASSUME TypeOK, NEW d \in Deliveries, cmd[d] \in Commands
    PROVE  IdOf[cmd[d]] \in Ids /\ RowOf(d) \in Row
  BY WriterAssumption DEF TypeOK, RowOf

(* _prune deletes settled rows past their keep_until and nothing else.     *)
LEMMA PruneStep ==
    ASSUME NEW rows \in [Ids -> Row]
    PROVE  /\ Pruned(rows) \in [Ids -> Row]
           /\ \A i \in Ids : \/ Pruned(rows)[i] = rows[i]
                             \/ PrunesRow(rows[i], Pruned(rows)[i])
<1>1. NoRow \in Row
  BY DEF NoRow, Row
<1> QED
  BY <1>1 DEF Pruned, PrunesRow

(* complete and fail settle an active row.                                 *)
LEMMA SettledRow ==
    ASSUME TypeOK, NEW row \in Row, row.state \in ActiveStates,
           NEW s \in TerminalStates
    PROVE  LET new == Settled(row, s)
           IN  /\ new \in Row
               /\ new.state = s /\ new.cmd = row.cmd
               /\ new.token = NoDelivery /\ new.keep >= row.keep
  BY WriterAssumption
  DEF TypeOK, Row, Settled, Later, ActiveStates, TerminalStates

(* fail and recover settle an active row, and keep it from now on. *)
LEMMA FailedRowSettles ==
    ASSUME TypeOK, NEW row \in Row, row.state \in ActiveStates
    PROVE  /\ FailedRow(row) \in Row
           /\ SettlesRow(row, FailedRow(row))
           /\ FailedRow(row).state \in {"retryable", "unknown"}
           /\ FailedRow(row).keep >= now + Retention
<1>1. FailedRow(row) = Settled(row, IF row.state = "started" THEN "unknown"
                                                              ELSE "retryable")
  BY DEF FailedRow
<1>2. FailedRow(row).keep >= now + Retention
  BY <1>1, WriterAssumption DEF TypeOK, Row, Settled, Later
<1> QED
  BY <1>1, <1>2, SettledRow DEF SettlesRow, ActiveStates, TerminalStates

(* A transaction that writes one row, of its own command.                  *)
LEMMA WriteRow ==
    ASSUME TypeOK, NEW d \in Deliveries, cmd[d] \in Commands, NEW row \in Row,
           SetRow(d, row)
    PROVE  /\ ledger' \in [Ids -> Row]
           /\ ledger'[IdOf[cmd[d]]] = row
           /\ \A i \in Ids : i # IdOf[cmd[d]] => ledger'[i] = ledger[i]
  BY RowExists DEF TypeOK, SetRow

(* Writing a row that way is such a transaction. *)
LEMMA WriteRowStep ==
    ASSUME TypeOK, NEW d \in Deliveries, cmd[d] \in Commands, NEW row \in Row,
           SetRow(d, row), RowStep(RowOf(d), row)
    PROVE  LedgerStep
<1>1. \A i \in Ids : RowStep(ledger[i], ledger'[i])
  <2> TAKE i \in Ids
  <2>1. CASE i = IdOf[cmd[d]]
    BY <2>1, WriteRow DEF RowOf
  <2>2. CASE i # IdOf[cmd[d]]
    BY <2>2, WriteRow DEF RowStep
  <2> QED BY <2>1, <2>2
<1> QED BY <1>1, WriteRow DEF LedgerStep

(* The invariants about rows and markers survive every such transaction.   *)
LEMMA LedgerStepInv ==
    ASSUME IInv, LedgerStep, UNCHANGED <<now, cmd, marked, native>>
    PROVE  RowInv' /\ MarkInv' /\ FenceInv' /\ OneMarkInv'
<1>1. RowInv'
  BY WriterAssumption DEF IInv, TypeOK, RowInv, LedgerStep, RowStep, PrunesRow,
     SettlesRow, NoRow, Row, ActiveStates, TerminalStates
<1>2. MarkInv'
  <2> SUFFICES ASSUME NEW d \in Deliveries, marked[d]
               PROVE  OnRecord(d)' \/ BeyondRetention(cmd[d])
    BY DEF MarkInv, BeyondRetention
  <2>1. cmd[d] \in Commands
    BY DEF IInv, DeliveryInv
  <2>2. IdOf[cmd[d]] \in Ids
    BY <2>1, RowExists DEF IInv
  <2>3. CASE BeyondRetention(cmd[d])
    BY <2>3
  <2>4. CASE OnRecord(d)
    <3>1. RowStep(RowOf(d), RowOf(d)')
      BY <2>2 DEF LedgerStep, RowOf
    <3>2. CASE RowOf(d)' = RowOf(d)
      BY <2>4, <3>2 DEF OnRecord
    <3>3. CASE PrunesRow(RowOf(d), RowOf(d)')
      BY <2>1, <2>2, <2>4, <3>3, WriterAssumption
      DEF PrunesRow, IInv, RowInv, RowOf, OnRecord, TerminalStates, TypeOK, Row,
          BeyondRetention
    <3>4. CASE SettlesRow(RowOf(d), RowOf(d)')
      BY <2>4, <3>4 DEF SettlesRow, OnRecord, ActiveStates
    <3> QED BY <3>1, <3>2, <3>3, <3>4 DEF RowStep
  <2> QED BY <2>3, <2>4 DEF IInv, MarkInv
<1>3. FenceInv'
  <2> SUFFICES ASSUME NEW d \in Deliveries, NEW e \in Deliveries,
                      native[d] = "mark", RowOf(d)'.token = d,
                      RowOf(d)'.state = "preparing", cmd[e] = cmd[d]
               PROVE  ~marked[e]
    BY DEF FenceInv
  <2>1. IdOf[cmd[d]] \in Ids
    BY RowExists DEF IInv, DeliveryInv
  <2>2. RowOf(d)' = RowOf(d)
    BY <2>1 DEF LedgerStep, RowOf, RowStep, PrunesRow, SettlesRow, NoRow,
       ActiveStates
  <2> QED BY <2>2 DEF IInv, FenceInv
<1>4. OneMarkInv'
  BY DEF IInv, OneMarkInv
<1> QED BY <1>1, <1>2, <1>3, <1>4

(* They also survive a step that leaves the ledger and the markers alone,  *)
(* as long as no claim passes before_write's expiry check in it.           *)
LEMMA QuietStepInv ==
    ASSUME IInv, UNCHANGED <<ledger, cmd, marked>>,
           now' \in Nat, now' >= now,
           \A d \in Deliveries : native'[d] = "mark" => native[d] = "mark"
    PROVE  RowInv' /\ MarkInv' /\ FenceInv' /\ OneMarkInv'
<1>1. RowInv'
  BY DEF IInv, RowInv
<1>2. MarkInv'
  <2> SUFFICES ASSUME NEW d \in Deliveries, marked[d]
               PROVE  OnRecord(d) \/ BeyondRetention(cmd[d])'
    BY DEF MarkInv, OnRecord, RowOf
  <2>1. cmd[d] \in Commands
    BY DEF IInv, DeliveryInv
  <2> QED BY <2>1, WriterAssumption DEF IInv, TypeOK, MarkInv, BeyondRetention
<1>3. FenceInv'
  BY DEF IInv, FenceInv, RowOf
<1>4. OneMarkInv'
  BY DEF IInv, OneMarkInv
<1> QED BY <1>1, <1>2, <1>3, <1>4

(* A handler that denies execution keeps being right about it.             *)
LEMMA DenialKept ==
    ASSUME IInv, NEW d \in Deliveries, DeniesExecution(d),
           \/ LedgerStep
           \/ UNCHANGED ledger,
           UNCHANGED <<cmd, marked>>, now' \in Nat, now' >= now
    PROVE  /\ ~(RowOf(d)'.cmd = cmd[d] /\ RowOf(d)'.state \in ActiveStates)
           /\ \A e \in Deliveries :
                cmd[e] = cmd[d] /\ marked[e] => BeyondRetention(cmd[d])'
<1>1. cmd[d] \in Commands /\ IdOf[cmd[d]] \in Ids
  BY RowExists DEF IInv, DeliveryInv, DeniesExecution
<1>2. ~(RowOf(d)'.cmd = cmd[d] /\ RowOf(d)'.state \in ActiveStates)
  BY <1>1
  DEF IInv, DenialInv, LedgerStep, RowStep, PrunesRow, SettlesRow, NoRow,
     RowOf, ActiveStates
<1>3. \A e \in Deliveries :
        cmd[e] = cmd[d] /\ marked[e] => BeyondRetention(cmd[d])'
  BY <1>1, WriterAssumption DEF IInv, TypeOK, DenialInv, BeyondRetention
<1> QED BY <1>2, <1>3

(***************************************************************************)
(* Init and every action preserve the invariant.                           *)
(***************************************************************************)
(* The initial state satisfies the invariant. *)
LEMMA InitInv == Init => IInv
<1> SUFFICES ASSUME Init PROVE IInv
  OBVIOUS
<1>1. TypeOK
  BY WriterAssumption DEF Init, TypeOK, Row, NoRow, Pcs, NativePcs, Outcomes
<1>2. LoopInv /\ DeliveryInv /\ RowInv
  BY WriterAssumption
  DEF Init, LoopInv, DeliveryInv, RowInv, NoRow, LoopPcs, ActiveStates
<1>3. MarkInv /\ FrameInv /\ FenceInv /\ OneMarkInv
  BY DEF Init, MarkInv, FrameInv, FenceInv, OneMarkInv
<1>4. DenialInv /\ CompletionInv
  BY DEF Init, DenialInv, DeniesExecution, CompletionInv, NoRow
<1> QED BY <1>1, <1>2, <1>3, <1>4 DEF IInv

(* Time only ages the commands. *)
LEMMA TickInv == ASSUME IInv, Tick PROVE IInv'
<1>1. TypeOK'
  BY WriterAssumption
  DEF IInv, TypeOK, Tick, handlerVars, nativeVars, Pcs, LoopPcs, NativePcs,
      Outcomes
<1>2. LoopInv' /\ DeliveryInv'
  BY WriterAssumption
  DEF IInv, TypeOK, LoopInv, DeliveryInv, Tick, handlerVars, nativeVars,
      LoopPcs, Pcs
<1>3. RowInv' /\ MarkInv' /\ FenceInv' /\ OneMarkInv'
  BY QuietStepInv, WriterAssumption
  DEF IInv, TypeOK, Tick, handlerVars, nativeVars
<1>4. FrameInv'
  BY WriterAssumption
  DEF IInv, TypeOK, FrameInv, DeliveryInv, Tick, handlerVars, nativeVars
<1>5. DenialInv'
  BY DenialKept, WriterAssumption
  DEF IInv, TypeOK, DenialInv, LoopInv, LoopPcs, DeniesExecution, RowOf, Tick,
      handlerVars, nativeVars
<1>6. CompletionInv'
  BY WriterAssumption
  DEF IInv, TypeOK, CompletionInv, Backed, DeliveryInv, Tick, handlerVars,
      nativeVars
<1> QED BY <1>1, <1>2, <1>3, <1>4, <1>5, <1>6 DEF IInv

(* A crash loses handlers and native writes, never a row. *)
LEMMA CrashInv == ASSUME IInv, Crash PROVE IInv'
<1>1. TypeOK'
  BY WriterAssumption DEF IInv, TypeOK, Crash, Pcs, LoopPcs, NativePcs, Outcomes
<1>2. LoopInv' /\ DeliveryInv'
  BY WriterAssumption
  DEF IInv, TypeOK, LoopInv, DeliveryInv, Crash, LoopPcs, Pcs
<1>3. RowInv' /\ MarkInv' /\ FenceInv' /\ OneMarkInv'
  BY QuietStepInv, WriterAssumption DEF IInv, TypeOK, Crash
<1>4. FrameInv'
  BY WriterAssumption DEF IInv, TypeOK, FrameInv, DeliveryInv, Crash
<1>5. DenialInv'
  BY DenialKept, WriterAssumption
  DEF IInv, TypeOK, DenialInv, LoopInv, LoopPcs, DeniesExecution, RowOf, Crash
<1>6. CompletionInv'
  BY WriterAssumption
  DEF IInv, TypeOK, CompletionInv, Backed, DeliveryInv, Crash
<1> QED BY <1>1, <1>2, <1>3, <1>4, <1>5, <1>6 DEF IInv

(* The newcomer had no command, no marker and no row. *)
LEMMA DeliverInv ==
    ASSUME IInv, NEW d \in Deliveries, NEW c \in Commands, Deliver(d, c)
    PROVE  IInv'
<1>1. TypeOK'
  BY WriterAssumption
  DEF IInv, TypeOK, Deliver, Goto, nativeVars, Pcs, LoopPcs, NativePcs,
      Outcomes
<1>2. LoopInv' /\ DeliveryInv'
  BY WriterAssumption
  DEF IInv, TypeOK, LoopInv, DeliveryInv, Deliver, Goto, nativeVars, LoopPcs,
      Pcs
<1>3. RowInv' /\ MarkInv' /\ FenceInv' /\ OneMarkInv'
  BY WriterAssumption
  DEF IInv, TypeOK, RowInv, MarkInv, OnRecord, FenceInv, OneMarkInv,
     DeliveryInv, BeyondRetention, RowOf, ActiveStates, Deliver, Goto, ReplyWith, nativeVars
<1>4. FrameInv'
  BY WriterAssumption
  DEF IInv, TypeOK, FrameInv, DeliveryInv, Deliver, Goto, nativeVars
<1>5. DenialInv'
  BY DenialKept, WriterAssumption
  DEF IInv, TypeOK, DenialInv, LoopInv, LoopPcs, DeniesExecution, RowOf,
      Deliver, Goto, nativeVars
<1>6. CompletionInv'
  BY WriterAssumption
  DEF IInv, TypeOK, CompletionInv, Backed, DeliveryInv, Deliver, Goto,
      nativeVars
<1> QED BY <1>1, <1>2, <1>3, <1>4, <1>5, <1>6 DEF IInv

(* A refused message is not authentic: its denial claims nothing. *)
LEMMA DeliverInvalidInv ==
    ASSUME IInv, NEW d \in Deliveries, NEW c \in Commands, DeliverInvalid(d, c)
    PROVE  IInv'
<1>1. TypeOK'
  BY WriterAssumption
  DEF IInv, TypeOK, DeliverInvalid, Goto, ReplyWith, nativeVars, Pcs, LoopPcs,
      NativePcs, Outcomes
<1>2. LoopInv' /\ DeliveryInv'
  BY WriterAssumption
  DEF IInv, TypeOK, LoopInv, DeliveryInv, DeliverInvalid, Goto, ReplyWith,
      nativeVars, LoopPcs, Pcs
<1>3. RowInv' /\ MarkInv' /\ FenceInv' /\ OneMarkInv'
  BY WriterAssumption
  DEF IInv, TypeOK, RowInv, MarkInv, OnRecord, FenceInv, OneMarkInv,
     DeliveryInv, BeyondRetention, RowOf, ActiveStates, DeliverInvalid, Goto, ReplyWith, nativeVars
<1>4. FrameInv'
  BY WriterAssumption
  DEF IInv, TypeOK, FrameInv, DeliveryInv, DeliverInvalid, Goto, ReplyWith,
      nativeVars
<1>5. DenialInv'
  BY WriterAssumption
  DEF IInv, TypeOK, DenialInv, DeliveryInv, LoopInv, LoopPcs, DeniesExecution,
      RowOf, DeliverInvalid, Goto, ReplyWith, nativeVars
<1>6. CompletionInv'
  BY WriterAssumption
  DEF IInv, TypeOK, CompletionInv, Backed, DeliveryInv, DeliverInvalid, Goto,
      ReplyWith, nativeVars
<1> QED BY <1>1, <1>2, <1>3, <1>4, <1>5, <1>6 DEF IInv

(* An unreadable ledger is answered "unknown". *)
LEMMA LedgerUnavailableInv ==
    ASSUME IInv, NEW d \in Deliveries, LedgerUnavailable(d)
    PROVE  IInv'
<1>1. TypeOK'
  BY WriterAssumption
  DEF IInv, TypeOK, LedgerUnavailable, Goto, ReplyWith, Running, StorageFault,
      nativeVars, Pcs, LoopPcs, NativePcs, Outcomes
<1>2. LoopInv' /\ DeliveryInv'
  BY WriterAssumption
  DEF IInv, TypeOK, LoopInv, DeliveryInv, LedgerUnavailable, Goto, ReplyWith,
      Running, StorageFault, nativeVars, LoopPcs, Pcs
<1>3. RowInv' /\ MarkInv' /\ FenceInv' /\ OneMarkInv'
  BY QuietStepInv, WriterAssumption
  DEF IInv, TypeOK, LedgerUnavailable, Goto, ReplyWith, Running, StorageFault,
      nativeVars
<1>4. FrameInv'
  BY WriterAssumption
  DEF IInv, TypeOK, FrameInv, DeliveryInv, LedgerUnavailable, Goto, ReplyWith,
      Running, StorageFault, nativeVars
<1>5. DenialInv'
  BY DenialKept, WriterAssumption
  DEF IInv, TypeOK, DenialInv, LoopInv, LoopPcs, DeniesExecution, RowOf,
      LedgerUnavailable, Goto, ReplyWith, Running, StorageFault, nativeVars
<1>6. CompletionInv'
  BY WriterAssumption
  DEF IInv, TypeOK, CompletionInv, Backed, DeliveryInv, LedgerUnavailable,
      Goto, ReplyWith, Running, StorageFault, nativeVars
<1> QED BY <1>1, <1>2, <1>3, <1>4, <1>5, <1>6 DEF IInv

(* The expiry check keeps what lookup established. *)
LEMMA VerifyUnexpiredInv ==
    ASSUME IInv, NEW d \in Deliveries, VerifyUnexpired(d)
    PROVE  IInv'
<1>1. TypeOK'
  BY WriterAssumption
  DEF IInv, TypeOK, VerifyUnexpired, Goto, ReplyWith, Running, Expired,
      nativeVars, Pcs, LoopPcs, NativePcs, Outcomes
<1>2. LoopInv' /\ DeliveryInv'
  BY WriterAssumption
  DEF IInv, TypeOK, LoopInv, DeliveryInv, VerifyUnexpired, Goto, ReplyWith,
      Running, Expired, nativeVars, LoopPcs, Pcs
<1>3. RowInv' /\ MarkInv' /\ FenceInv' /\ OneMarkInv'
  BY QuietStepInv, WriterAssumption
  DEF IInv, TypeOK, VerifyUnexpired, Goto, ReplyWith, Running, Expired,
      nativeVars
<1>4. FrameInv'
  BY WriterAssumption
  DEF IInv, TypeOK, FrameInv, DeliveryInv, VerifyUnexpired, Goto, ReplyWith,
      Running, Expired, nativeVars
<1>5. DenialInv'
  BY DenialKept, WriterAssumption
  DEF IInv, TypeOK, DenialInv, LoopInv, LoopPcs, DeniesExecution, RowOf,
      VerifyUnexpired, Goto, ReplyWith, Running, Expired, nativeVars
<1>6. CompletionInv'
  BY WriterAssumption
  DEF IInv, TypeOK, CompletionInv, Backed, DeliveryInv, VerifyUnexpired, Goto,
      ReplyWith, Running, Expired, nativeVars
<1> QED BY <1>1, <1>2, <1>3, <1>4, <1>5, <1>6 DEF IInv

(* The native write starts unmarked. *)
LEMMA AdmitInv == ASSUME IInv, NEW d \in Deliveries, Admit(d) PROVE IInv'
<1>1. TypeOK'
  BY WriterAssumption
  DEF IInv, TypeOK, Admit, Goto, Running, Pcs, LoopPcs, NativePcs, Outcomes
<1>2. LoopInv' /\ DeliveryInv'
  BY WriterAssumption
  DEF IInv, TypeOK, LoopInv, DeliveryInv, Admit, Goto, Running, LoopPcs, Pcs
<1>3. RowInv' /\ MarkInv' /\ FenceInv' /\ OneMarkInv'
  BY QuietStepInv, WriterAssumption DEF IInv, TypeOK, Admit, Goto, Running
<1>4. FrameInv'
  BY WriterAssumption
  DEF IInv, TypeOK, FrameInv, DeliveryInv, Admit, Goto, Running
<1>5. DenialInv'
  BY DenialKept, WriterAssumption
  DEF IInv, TypeOK, DenialInv, LoopInv, LoopPcs, DeniesExecution, RowOf,
      Admit, Goto, Running
<1>6. CompletionInv'
  BY WriterAssumption
  DEF IInv, TypeOK, CompletionInv, Backed, DeliveryInv, Admit, Goto, Running
<1> QED BY <1>1, <1>2, <1>3, <1>4, <1>5, <1>6 DEF IInv

(* A failing record only moves the handler. *)
LEMMA RecordFailsInv ==
    ASSUME IInv, NEW d \in Deliveries, RecordFails(d)
    PROVE  IInv'
<1>1. TypeOK'
  BY WriterAssumption
  DEF IInv, TypeOK, RecordFails, Goto, Running, StorageFault, nativeVars, Pcs,
      LoopPcs, NativePcs, Outcomes
<1>2. LoopInv' /\ DeliveryInv'
  BY WriterAssumption
  DEF IInv, TypeOK, LoopInv, DeliveryInv, RecordFails, Goto, Running,
      StorageFault, nativeVars, LoopPcs, Pcs
<1>3. RowInv' /\ MarkInv' /\ FenceInv' /\ OneMarkInv'
  BY QuietStepInv, WriterAssumption
  DEF IInv, TypeOK, RecordFails, Goto, Running, StorageFault, nativeVars
<1>4. FrameInv'
  BY WriterAssumption
  DEF IInv, TypeOK, FrameInv, DeliveryInv, RecordFails, Goto, Running,
      StorageFault, nativeVars
<1>5. DenialInv'
  BY DenialKept, WriterAssumption
  DEF IInv, TypeOK, DenialInv, LoopInv, LoopPcs, DeniesExecution, RowOf,
      RecordFails, Goto, Running, StorageFault, nativeVars
<1>6. CompletionInv'
  BY WriterAssumption
  DEF IInv, TypeOK, CompletionInv, Backed, DeliveryInv, RecordFails, Goto,
      Running, StorageFault, nativeVars
<1> QED BY <1>1, <1>2, <1>3, <1>4, <1>5, <1>6 DEF IInv

(* The handler takes the free event loop again. *)
LEMMA ResumeInv == ASSUME IInv, NEW d \in Deliveries, Resume(d) PROVE IInv'
<1>1. TypeOK'
  BY WriterAssumption
  DEF IInv, TypeOK, Resume, Goto, nativeVars, Pcs, LoopPcs, NativePcs,
      Outcomes
<1>2. LoopInv' /\ DeliveryInv'
  BY WriterAssumption
  DEF IInv, TypeOK, LoopInv, DeliveryInv, Resume, Goto, nativeVars, LoopPcs,
      Pcs
<1>3. RowInv' /\ MarkInv' /\ FenceInv' /\ OneMarkInv'
  BY QuietStepInv, WriterAssumption DEF IInv, TypeOK, Resume, Goto, nativeVars
<1>4. FrameInv'
  BY WriterAssumption
  DEF IInv, TypeOK, FrameInv, DeliveryInv, Resume, Goto, nativeVars
<1>5. DenialInv'
  BY DEF IInv, TypeOK, DenialInv, DeniesExecution, RowOf, BeyondRetention,
      Resume, Goto, nativeVars
<1>6. CompletionInv'
  BY WriterAssumption
  DEF IInv, TypeOK, CompletionInv, Backed, DeliveryInv, Resume, Goto,
      nativeVars
<1> QED BY <1>1, <1>2, <1>3, <1>4, <1>5, <1>6 DEF IInv

(* A rolled back transaction changes no row. *)
LEMMA SettleFailsInv ==
    ASSUME IInv, NEW d \in Deliveries, SettleFails(d)
    PROVE  IInv'
<1>1. TypeOK'
  BY WriterAssumption
  DEF IInv, TypeOK, SettleFails, Goto, Running, StorageFault, nativeVars, Pcs,
      LoopPcs, NativePcs, Outcomes
<1>2. LoopInv' /\ DeliveryInv'
  BY WriterAssumption
  DEF IInv, TypeOK, LoopInv, DeliveryInv, SettleFails, Goto, Running,
      StorageFault, nativeVars, LoopPcs, Pcs
<1>3. RowInv' /\ MarkInv' /\ FenceInv' /\ OneMarkInv'
  BY QuietStepInv, WriterAssumption
  DEF IInv, TypeOK, SettleFails, Goto, Running, StorageFault, nativeVars
<1>4. FrameInv'
  BY WriterAssumption
  DEF IInv, TypeOK, FrameInv, DeliveryInv, SettleFails, Goto, Running,
      StorageFault, nativeVars
<1>5. DenialInv'
  BY DenialKept, WriterAssumption
  DEF IInv, TypeOK, DenialInv, LoopInv, LoopPcs, DeniesExecution, RowOf,
      SettleFails, Goto, Running, StorageFault, nativeVars
<1>6. CompletionInv'
  BY WriterAssumption
  DEF IInv, TypeOK, CompletionInv, Backed, DeliveryInv, SettleFails, Goto,
      Running, StorageFault, nativeVars
<1> QED BY <1>1, <1>2, <1>3, <1>4, <1>5, <1>6 DEF IInv

(* A reply gives the event loop back. *)
LEMMA ReplyInv == ASSUME IInv, NEW d \in Deliveries, Reply(d) PROVE IInv'
<1>1. TypeOK'
  BY WriterAssumption
  DEF IInv, TypeOK, Reply, Goto, Running, nativeVars, Pcs, LoopPcs, NativePcs,
      Outcomes
<1>2. LoopInv' /\ DeliveryInv'
  BY WriterAssumption
  DEF IInv, TypeOK, LoopInv, DeliveryInv, Reply, Goto, Running, nativeVars,
      LoopPcs, Pcs
<1>3. RowInv' /\ MarkInv' /\ FenceInv' /\ OneMarkInv'
  BY QuietStepInv, WriterAssumption
  DEF IInv, TypeOK, Reply, Goto, Running, nativeVars
<1>4. FrameInv'
  BY WriterAssumption
  DEF IInv, TypeOK, FrameInv, DeliveryInv, Reply, Goto, Running, nativeVars
<1>5. DenialInv'
  BY DenialKept, WriterAssumption
  DEF IInv, TypeOK, DenialInv, LoopInv, LoopPcs, DeniesExecution, RowOf,
      Reply, Goto, Running, nativeVars
<1>6. CompletionInv'
  BY WriterAssumption
  DEF IInv, TypeOK, CompletionInv, Backed, DeliveryInv, Reply, Goto, Running,
      nativeVars
<1> QED BY <1>1, <1>2, <1>3, <1>4, <1>5, <1>6 DEF IInv

(* A cancelled handler leaves its row for fail. *)
LEMMA CancelInv == ASSUME IInv, NEW d \in Deliveries, Cancel(d) PROVE IInv'
<1>1. TypeOK'
  BY WriterAssumption
  DEF IInv, TypeOK, Cancel, Goto, Pcs, LoopPcs, NativePcs, Outcomes
<1>2. LoopInv' /\ DeliveryInv'
  BY WriterAssumption
  DEF IInv, TypeOK, LoopInv, DeliveryInv, Cancel, Goto, LoopPcs, Pcs
<1>3. RowInv' /\ MarkInv' /\ FenceInv' /\ OneMarkInv'
  BY QuietStepInv, WriterAssumption DEF IInv, TypeOK, Cancel, Goto
<1>4. FrameInv'
  BY WriterAssumption DEF IInv, TypeOK, FrameInv, DeliveryInv, Cancel, Goto
<1>5. DenialInv'
  BY DenialKept, WriterAssumption
  DEF IInv, TypeOK, DenialInv, LoopInv, LoopPcs, DeniesExecution, RowOf,
      Cancel, Goto
<1>6. CompletionInv'
  BY WriterAssumption
  DEF IInv, TypeOK, CompletionInv, Backed, DeliveryInv, Cancel, Goto
<1> QED BY <1>1, <1>2, <1>3, <1>4, <1>5, <1>6 DEF IInv

(* Connecting precedes any marker. *)
LEMMA ConnectInv == ASSUME IInv, NEW d \in Deliveries, Connect(d) PROVE IInv'
<1>1. TypeOK'
  BY WriterAssumption
  DEF IInv, TypeOK, Connect, NativeGoto, NativeUnchanged, handlerVars, Pcs,
      LoopPcs, NativePcs, Outcomes
<1>2. LoopInv' /\ DeliveryInv'
  BY WriterAssumption
  DEF IInv, TypeOK, LoopInv, DeliveryInv, Connect, NativeGoto,
      NativeUnchanged, handlerVars, LoopPcs, Pcs
<1>3. RowInv' /\ MarkInv' /\ FenceInv' /\ OneMarkInv'
  BY QuietStepInv, WriterAssumption
  DEF IInv, TypeOK, Connect, NativeGoto, NativeUnchanged, handlerVars
<1>4. FrameInv'
  BY WriterAssumption
  DEF IInv, TypeOK, FrameInv, DeliveryInv, Connect, NativeGoto,
      NativeUnchanged, handlerVars
<1>5. DenialInv'
  BY DenialKept, WriterAssumption
  DEF IInv, TypeOK, DenialInv, LoopInv, LoopPcs, DeniesExecution, RowOf,
      Connect, NativeGoto, NativeUnchanged, handlerVars
<1>6. CompletionInv'
  BY WriterAssumption
  DEF IInv, TypeOK, CompletionInv, Backed, DeliveryInv, Connect, NativeGoto,
      NativeUnchanged, handlerVars
<1> QED BY <1>1, <1>2, <1>3, <1>4, <1>5, <1>6 DEF IInv

(* A rolled back mark_started marks nothing. *)
LEMMA MarkStartedFailsInv ==
    ASSUME IInv, NEW d \in Deliveries, MarkStartedFails(d)
    PROVE  IInv'
<1>1. TypeOK'
  BY WriterAssumption
  DEF IInv, TypeOK, MarkStartedFails, StorageFault, NativeGoto,
      NativeUnchanged, handlerVars, Pcs, LoopPcs, NativePcs, Outcomes
<1>2. LoopInv' /\ DeliveryInv'
  BY WriterAssumption
  DEF IInv, TypeOK, LoopInv, DeliveryInv, MarkStartedFails, StorageFault,
      NativeGoto, NativeUnchanged, handlerVars, LoopPcs, Pcs
<1>3. RowInv' /\ MarkInv' /\ FenceInv' /\ OneMarkInv'
  BY QuietStepInv, WriterAssumption
  DEF IInv, TypeOK, MarkStartedFails, StorageFault, NativeGoto,
      NativeUnchanged, handlerVars
<1>4. FrameInv'
  BY WriterAssumption
  DEF IInv, TypeOK, FrameInv, DeliveryInv, MarkStartedFails, StorageFault,
      NativeGoto, NativeUnchanged, handlerVars
<1>5. DenialInv'
  BY DenialKept, WriterAssumption
  DEF IInv, TypeOK, DenialInv, LoopInv, LoopPcs, DeniesExecution, RowOf,
      MarkStartedFails, StorageFault, NativeGoto, NativeUnchanged, handlerVars
<1>6. CompletionInv'
  BY WriterAssumption
  DEF IInv, TypeOK, CompletionInv, Backed, DeliveryInv, MarkStartedFails,
      StorageFault, NativeGoto, NativeUnchanged, handlerVars
<1> QED BY <1>1, <1>2, <1>3, <1>4, <1>5, <1>6 DEF IInv

(* The second check follows the marker. *)
LEMMA BeforeWriteReverifyInv ==
    ASSUME IInv, NEW d \in Deliveries, BeforeWriteReverify(d)
    PROVE  IInv'
<1>1. TypeOK'
  BY WriterAssumption
  DEF IInv, TypeOK, BeforeWriteReverify, NativeGoto, NativeUnchanged, Expired,
      handlerVars, Pcs, LoopPcs, NativePcs, Outcomes
<1>2. LoopInv' /\ DeliveryInv'
  BY WriterAssumption
  DEF IInv, TypeOK, LoopInv, DeliveryInv, BeforeWriteReverify, NativeGoto,
      NativeUnchanged, Expired, handlerVars, LoopPcs, Pcs
<1>3. RowInv' /\ MarkInv' /\ FenceInv' /\ OneMarkInv'
  BY QuietStepInv, WriterAssumption
  DEF IInv, TypeOK, BeforeWriteReverify, NativeGoto, NativeUnchanged, Expired,
      handlerVars
<1>4. FrameInv'
  BY WriterAssumption
  DEF IInv, TypeOK, FrameInv, DeliveryInv, BeforeWriteReverify, NativeGoto,
      NativeUnchanged, Expired, handlerVars
<1>5. DenialInv'
  BY DenialKept, WriterAssumption
  DEF IInv, TypeOK, DenialInv, LoopInv, LoopPcs, DeniesExecution, RowOf,
      BeforeWriteReverify, NativeGoto, NativeUnchanged, Expired, handlerVars
<1>6. CompletionInv'
  BY WriterAssumption
  DEF IInv, TypeOK, CompletionInv, Backed, DeliveryInv, BeforeWriteReverify,
      NativeGoto, NativeUnchanged, Expired, handlerVars
<1> QED BY <1>1, <1>2, <1>3, <1>4, <1>5, <1>6 DEF IInv

(* A frame is counted, behind its marker. *)
LEMMA IssueFrameInv ==
    ASSUME IInv, NEW d \in Deliveries, IssueFrame(d)
    PROVE  IInv'
<1>1. TypeOK'
  BY WriterAssumption
  DEF IInv, TypeOK, IssueFrame, NativeGoto, NativeUnchanged, handlerVars, Pcs,
      LoopPcs, NativePcs, Outcomes
<1>2. LoopInv' /\ DeliveryInv'
  BY WriterAssumption
  DEF IInv, TypeOK, LoopInv, DeliveryInv, IssueFrame, NativeGoto,
      NativeUnchanged, handlerVars, LoopPcs, Pcs
<1>3. RowInv' /\ MarkInv' /\ FenceInv' /\ OneMarkInv'
  BY QuietStepInv, WriterAssumption
  DEF IInv, TypeOK, IssueFrame, NativeGoto, NativeUnchanged, handlerVars
<1>4. FrameInv'
  BY WriterAssumption
  DEF IInv, TypeOK, FrameInv, DeliveryInv, IssueFrame, NativeGoto,
      NativeUnchanged, handlerVars
<1>5. DenialInv'
  BY DenialKept, WriterAssumption
  DEF IInv, TypeOK, DenialInv, LoopInv, LoopPcs, DeniesExecution, RowOf,
      IssueFrame, NativeGoto, NativeUnchanged, handlerVars
<1>6. CompletionInv'
  BY WriterAssumption
  DEF IInv, TypeOK, CompletionInv, Backed, DeliveryInv, IssueFrame,
      NativeGoto, NativeUnchanged, handlerVars
<1> QED BY <1>1, <1>2, <1>3, <1>4, <1>5, <1>6 DEF IInv

(* Only the last frame is acknowledged. *)
LEMMA AcknowledgeInv ==
    ASSUME IInv, NEW d \in Deliveries, Acknowledge(d)
    PROVE  IInv'
<1>1. TypeOK'
  BY WriterAssumption
  DEF IInv, TypeOK, Acknowledge, NativeGoto, NativeUnchanged, handlerVars,
      Pcs, LoopPcs, NativePcs, Outcomes
<1>2. LoopInv' /\ DeliveryInv'
  BY WriterAssumption
  DEF IInv, TypeOK, LoopInv, DeliveryInv, Acknowledge, NativeGoto,
      NativeUnchanged, handlerVars, LoopPcs, Pcs
<1>3. RowInv' /\ MarkInv' /\ FenceInv' /\ OneMarkInv'
  BY QuietStepInv, WriterAssumption
  DEF IInv, TypeOK, Acknowledge, NativeGoto, NativeUnchanged, handlerVars
<1>4. FrameInv'
  BY WriterAssumption
  DEF IInv, TypeOK, FrameInv, DeliveryInv, Acknowledge, NativeGoto,
      NativeUnchanged, handlerVars
<1>5. DenialInv'
  BY DenialKept, WriterAssumption
  DEF IInv, TypeOK, DenialInv, LoopInv, LoopPcs, DeniesExecution, RowOf,
      Acknowledge, NativeGoto, NativeUnchanged, handlerVars
<1>6. CompletionInv'
  BY WriterAssumption
  DEF IInv, TypeOK, CompletionInv, Backed, DeliveryInv, Acknowledge,
      NativeGoto, NativeUnchanged, handlerVars
<1> QED BY <1>1, <1>2, <1>3, <1>4, <1>5, <1>6 DEF IInv

(* A failing native write changes no row. *)
LEMMA NativeErrorInv ==
    ASSUME IInv, NEW d \in Deliveries, NativeError(d)
    PROVE  IInv'
<1>1. TypeOK'
  BY WriterAssumption
  DEF IInv, TypeOK, NativeError, NativeGoto, NativeUnchanged, handlerVars,
      Pcs, LoopPcs, NativePcs, Outcomes
<1>2. LoopInv' /\ DeliveryInv'
  BY WriterAssumption
  DEF IInv, TypeOK, LoopInv, DeliveryInv, NativeError, NativeGoto,
      NativeUnchanged, handlerVars, LoopPcs, Pcs
<1>3. RowInv' /\ MarkInv' /\ FenceInv' /\ OneMarkInv'
  BY QuietStepInv, WriterAssumption
  DEF IInv, TypeOK, NativeError, NativeGoto, NativeUnchanged, handlerVars
<1>4. FrameInv'
  BY WriterAssumption
  DEF IInv, TypeOK, FrameInv, DeliveryInv, NativeError, NativeGoto,
      NativeUnchanged, handlerVars
<1>5. DenialInv'
  BY DenialKept, WriterAssumption
  DEF IInv, TypeOK, DenialInv, LoopInv, LoopPcs, DeniesExecution, RowOf,
      NativeError, NativeGoto, NativeUnchanged, handlerVars
<1>6. CompletionInv'
  BY WriterAssumption
  DEF IInv, TypeOK, CompletionInv, Backed, DeliveryInv, NativeError,
      NativeGoto, NativeUnchanged, handlerVars
<1> QED BY <1>1, <1>2, <1>3, <1>4, <1>5, <1>6 DEF IInv

(* The other transactions: the invariant holds after one that only prunes  *)
(* or settles rows, if the handlers that newly deny execution see a row    *)
(* that is absent or retryable.                                            *)
LEMMA TransactionInv ==
    ASSUME IInv, LedgerStep, UNCHANGED <<now, cmd, native, frames, marked>>,
           TypeOK', LoopInv', DeliveryInv', CompletionInv',
           \A d \in Deliveries : DeniesExecution(d)' =>
               DeniesExecution(d) \/ Claimable(RowOf(d)', cmd[d])
    PROVE  IInv'
<1>1. RowInv' /\ MarkInv' /\ FenceInv' /\ OneMarkInv'
  BY LedgerStepInv
<1>2. FrameInv'
  BY DEF IInv, FrameInv
<1>3. DenialInv'
  <2> SUFFICES ASSUME NEW d \in Deliveries, DeniesExecution(d)'
               PROVE  /\ ~(RowOf(d)'.cmd = cmd[d] /\ RowOf(d)'.state \in ActiveStates)
                      /\ \A e \in Deliveries :
                           cmd[e] = cmd[d] /\ marked[e] => BeyondRetention(cmd[d])'
    BY DEF DenialInv
  <2>1. CASE DeniesExecution(d)
    BY <2>1, DenialKept DEF IInv, TypeOK
  <2>2. CASE Claimable(RowOf(d)', cmd[d])
    BY <2>2, <1>1
    DEF Claimable, ActiveStates, MarkInv, OnRecord, RowOf, BeyondRetention
  <2> QED BY <2>1, <2>2
<1> QED BY <1>1, <1>2, <1>3 DEF IInv

(* Completions stay backed when no row becomes completed.                  *)
LEMMA CompletionKept ==
    ASSUME IInv, UNCHANGED <<cmd, native, frames>>,
           \A e \in Deliveries : pc[e] \in {"reply", "done"} => pc'[e] \in {"reply", "done"},
           \A i \in Ids : ledger'[i].state = "completed" => ledger'[i] = ledger[i],
           \A d \in Deliveries : pc'[d] = "reply" /\ result'[d] = "completed" =>
               \/ pc[d] = "reply" /\ result[d] = "completed"
               \/ \E i \in Ids : ledger[i].cmd = cmd[d] /\ ledger[i].state = "completed"
    PROVE  CompletionInv'
<1>1. \A c : Backed(c) => Backed(c)'
  BY DEF Backed
<1> QED BY <1>1 DEF IInv, CompletionInv

(* What a retained row says to a handler that may not claim it.            *)
LEMMA RowResultFacts ==
    ASSUME NEW row \in Row, NEW c \in Commands
    PROVE  /\ RowResult(row, c) \in Outcomes \cup {"absent", "preparing", "started"}
           /\ ~Claimable(row, c) =>
                /\ RowResult(row, c) \in Outcomes \ {"not_executed", "retryable"}
                /\ RowResult(row, c) = "completed" =>
                     row.cmd = c /\ row.state = "completed"
  BY WriterAssumption
  DEF RowResult, Claimable, Row, Outcomes, ActiveStates, TerminalStates

(* lookup prunes, and only an unclaimed or retryable row lets the handler go on. *)
LEMMA LookupInv == ASSUME IInv, NEW d \in Deliveries, Lookup(d) PROVE IInv'
<1>0. cmd[d] \in Commands /\ IdOf[cmd[d]] \in Ids
  BY RowExists DEF IInv, DeliveryInv, Lookup, Running
<1>1. LedgerStep
  BY PruneStep DEF Lookup, LedgerStep, RowStep, IInv, TypeOK
<1>2. /\ UNCHANGED <<now, up, loop, cmd, authentic, native, frames, marked, faults>>
      /\ loop = d /\ pc[d] = "lookup"
  BY DEF Lookup, Running, nativeVars
<1>3. RowOf(d)' \in Row
  BY <1>0, <1>1, <1>2 DEF LedgerStep, RowOf
<1>4. \/ /\ Claimable(RowOf(d)', cmd[d])
         /\ pc' = [pc EXCEPT ![d] = "verify"] /\ result' = result
      \/ /\ ~Claimable(RowOf(d)', cmd[d])
         /\ pc' = [pc EXCEPT ![d] = "reply"]
         /\ result' = [result EXCEPT ![d] = RowResult(RowOf(d)', cmd[d])]
  BY <1>2 DEF Lookup, Goto, ReplyWith, RowOf
<1>5. TypeOK'
  BY <1>0, <1>1, <1>2, <1>3, <1>4, RowResultFacts
  DEF IInv, TypeOK, LedgerStep, Pcs, LoopPcs
<1>6. LoopInv' /\ DeliveryInv'
  BY <1>2, <1>4 DEF IInv, TypeOK, LoopInv, DeliveryInv, LoopPcs, Pcs
<1>7. CompletionInv'
  <2>1. \A i \in Ids : ledger'[i].state = "completed" => ledger'[i] = ledger[i]
    BY PruneStep DEF Lookup, IInv, TypeOK, PrunesRow, NoRow
  <2>2. \A e \in Deliveries : pc'[e] = "reply" /\ result'[e] = "completed" =>
           \/ pc[e] = "reply" /\ result[e] = "completed"
           \/ \E i \in Ids : ledger[i].cmd = cmd[e] /\ ledger[i].state = "completed"
    BY <1>0, <1>2, <1>3, <1>4, <2>1, RowResultFacts DEF IInv, TypeOK, RowOf
  <2> QED BY <1>2, <1>4, <2>1, <2>2, CompletionKept DEF IInv, TypeOK
<1>8. \A e \in Deliveries : DeniesExecution(e)' =>
         DeniesExecution(e) \/ Claimable(RowOf(e)', cmd[e])
  BY <1>0, <1>2, <1>3, <1>4, RowResultFacts DEF DeniesExecution, IInv, TypeOK
<1> QED BY <1>1, <1>2, <1>5, <1>6, <1>7, <1>8, TransactionInv

(* recover settles every active row and prunes none of those. *)
LEMMA RecoverInv == ASSUME IInv, Recover PROVE IInv'
<1>1. Recovered(ledger) \in [Ids -> Row]
  BY FailedRowSettles DEF Recovered, IInv, TypeOK
<1>2. ledger' \in [Ids -> Row]
  BY <1>1, PruneStep DEF Recover
<1>3. ASSUME NEW i \in Ids
      PROVE  /\ RowStep(ledger[i], ledger'[i])
             /\ ledger'[i].state = "completed" => ledger'[i] = ledger[i]
  <2>1. CASE ledger[i].state \in ActiveStates
    <3>1. Recovered(ledger)[i] = FailedRow(ledger[i])
      BY <2>1 DEF Recovered
    <3>2. ~(Recovered(ledger)[i].keep < now)
      BY <2>1, <3>1, FailedRowSettles, WriterAssumption DEF IInv, TypeOK, Row
    <3>3. ledger'[i] = FailedRow(ledger[i])
      BY <3>1, <3>2 DEF Recover, Pruned
    <3> QED BY <2>1, <3>3, FailedRowSettles DEF IInv, TypeOK, RowStep
  <2>2. CASE ledger[i].state \notin ActiveStates
    BY <2>2, <1>1, PruneStep DEF Recover, Recovered, RowStep, PrunesRow, NoRow
  <2> QED BY <2>1, <2>2
<1>4. LedgerStep
  BY <1>2, <1>3 DEF LedgerStep
<1>5. TypeOK' /\ LoopInv' /\ DeliveryInv'
  BY <1>2
  DEF IInv, TypeOK, LoopInv, DeliveryInv, Recover, handlerVars, nativeVars
<1>6. CompletionInv'
  BY <1>3, CompletionKept DEF Recover, handlerVars, nativeVars
<1>7. \A e \in Deliveries : DeniesExecution(e)' => DeniesExecution(e)
  BY DEF DeniesExecution, Recover, handlerVars
<1> QED BY <1>4, <1>5, <1>6, <1>7, TransactionInv DEF Recover, handlerVars, nativeVars

(* claim may insert or reuse the row of an id only if no retained marker   *)
(* refers to it.                                                           *)
LEMMA ClaimCommandInv ==
    ASSUME IInv, NEW d \in Deliveries, ClaimCommand(d)
    PROVE  IInv'
<1> DEFINE i    == IdOf[cmd[d]]
           rows == Pruned(ledger)
           row  == rows[i]
<1>0. cmd[d] \in Commands /\ i \in Ids
  BY RowExists DEF IInv, DeliveryInv, ClaimCommand, Running
<1>1. /\ UNCHANGED <<now, up, loop, cmd, authentic, native, frames, marked, faults>>
      /\ loop = d /\ pc[d] = "claim"
  BY DEF ClaimCommand, Running, nativeVars
<1>2. /\ rows \in [Ids -> Row] /\ row \in Row
      /\ \A j \in Ids : rows[j] = ledger[j] \/ PrunesRow(ledger[j], rows[j])
  BY <1>0, PruneStep DEF IInv, TypeOK
<1>3. CASE ~Claimable(row, cmd[d])
  <2>1. /\ ledger' = rows
        /\ pc' = [pc EXCEPT ![d] = "reply"]
        /\ result' = [result EXCEPT ![d] = RowResult(row, cmd[d])]
    BY <1>3 DEF ClaimCommand, Goto, ReplyWith
  <2>2. LedgerStep
    BY <1>2, <2>1 DEF LedgerStep, RowStep
  <2>3. TypeOK' /\ LoopInv' /\ DeliveryInv'
    BY <1>0, <1>1, <1>2, <1>3, <2>1, RowResultFacts
    DEF IInv, TypeOK, LoopInv, DeliveryInv, Pcs, LoopPcs
  <2>4. CompletionInv'
    <3>1. \A j \in Ids : ledger'[j].state = "completed" => ledger'[j] = ledger[j]
      BY <1>2, <2>1 DEF PrunesRow, NoRow
    <3>2. \A e \in Deliveries : pc'[e] = "reply" /\ result'[e] = "completed" =>
             \/ pc[e] = "reply" /\ result[e] = "completed"
             \/ \E j \in Ids : ledger[j].cmd = cmd[e] /\ ledger[j].state = "completed"
      BY <1>0, <1>1, <1>2, <1>3, <2>1, <3>1, RowResultFacts DEF IInv, TypeOK
    <3> QED BY <1>1, <2>1, <3>1, <3>2, CompletionKept DEF IInv, TypeOK
  <2>5. \A e \in Deliveries : DeniesExecution(e)' => DeniesExecution(e)
    BY <1>0, <1>1, <1>2, <1>3, <2>1, RowResultFacts
    DEF DeniesExecution, IInv, TypeOK
  <2> QED BY <1>1, <2>2, <2>3, <2>4, <2>5, TransactionInv
<1>4. CASE Claimable(row, cmd[d])
  <2> DEFINE new == ClaimedRow(row, cmd[d], d)
  <2>1. /\ ledger' = [rows EXCEPT ![i] = new]
        /\ pc' = [pc EXCEPT ![d] = "admit"]
        /\ result' = result
    BY <1>4 DEF ClaimCommand, Goto
  <2>2. /\ new \in Row /\ new.state = "preparing" /\ new.cmd = cmd[d] /\ new.token = d
        /\ new.keep >= Deadline[cmd[d]] + Retention
    BY <1>0, <1>2, WriterAssumption
    DEF ClaimedRow, Row, Later, IInv, TypeOK, ActiveStates, TerminalStates
  <2>3. /\ ledger' \in [Ids -> Row] /\ ledger'[i] = new
        /\ \A j \in Ids \ {i} : ledger'[j] = ledger[j] \/ PrunesRow(ledger[j], ledger'[j])
    BY <1>0, <1>2, <2>1, <2>2
  <2>4. TypeOK' /\ LoopInv' /\ DeliveryInv'
    BY <1>1, <2>1, <2>3 DEF IInv, TypeOK, LoopInv, DeliveryInv, Pcs, LoopPcs
  <2>5. RowInv'
    BY <1>0, <1>1, <2>2, <2>3
    DEF IInv, TypeOK, RowInv, PrunesRow, NoRow, ActiveStates, TerminalStates
  <2>6. MarkInv'
    <3> SUFFICES ASSUME NEW x \in Deliveries, marked[x], OnRecord(x)
                 PROVE  OnRecord(x)' \/ BeyondRetention(cmd[x])
      BY <1>1 DEF MarkInv, IInv, BeyondRetention
    <3>1. cmd[x] \in Commands /\ IdOf[cmd[x]] \in Ids
      BY RowExists DEF IInv, DeliveryInv
    <3>2. CASE PrunesRow(RowOf(x), rows[IdOf[cmd[x]]])
      BY <3>1, <3>2, WriterAssumption
      DEF PrunesRow, OnRecord, IInv, RowInv, RowOf, TypeOK, Row, TerminalStates,
          BeyondRetention
    <3>3. CASE rows[IdOf[cmd[x]]] = RowOf(x)
      <4>1. IdOf[cmd[x]] # i
        BY <1>4, <3>3 DEF Claimable, OnRecord
      <4>2. RowOf(x)' = RowOf(x)
        BY <1>1, <2>1, <3>1, <3>3, <4>1, <1>2 DEF RowOf
      <4> QED BY <1>1, <4>2 DEF OnRecord
    <3> QED BY <1>2, <3>1, <3>2, <3>3 DEF RowOf
  <2>7. FenceInv'
    <3> SUFFICES ASSUME NEW x \in Deliveries, NEW e \in Deliveries,
                        native[x] = "mark", RowOf(x)'.token = x,
                        RowOf(x)'.state = "preparing", cmd[e] = cmd[x]
                 PROVE  ~marked[e]
      BY <1>1 DEF FenceInv
    <3>1. x # d /\ IdOf[cmd[x]] \in Ids
      BY <1>1, RowExists DEF IInv, DeliveryInv
    <3>2. IdOf[cmd[x]] # i
      BY <1>1, <2>2, <2>3, <3>1 DEF RowOf
    <3>3. RowOf(x)' = RowOf(x)
      BY <1>1, <2>3, <3>1, <3>2 DEF RowOf, PrunesRow, NoRow
    <3> QED BY <3>3 DEF IInv, FenceInv
  <2>8. FrameInv' /\ OneMarkInv'
    BY <1>1 DEF IInv, FrameInv, OneMarkInv
  <2>9. DenialInv'
    BY <1>1, <2>1 DEF IInv, TypeOK, DenialInv, DeniesExecution, LoopInv, LoopPcs
  <2>10. CompletionInv'
    <3>1. \A j \in Ids : ledger'[j].state = "completed" => ledger'[j] = ledger[j]
      BY <2>2, <2>3 DEF PrunesRow, NoRow
    <3> QED BY <1>1, <2>1, <3>1, CompletionKept DEF IInv, TypeOK
  <2> QED BY <2>4, <2>5, <2>6, <2>7, <2>8, <2>9, <2>10 DEF IInv
<1> QED BY <1>3, <1>4

(* before_write's expiry check: at that moment a marker of the command     *)
(* cannot be beyond retention, so it would be on record.                   *)
LEMMA BeforeWriteVerifyInv ==
    ASSUME IInv, NEW d \in Deliveries, BeforeWriteVerify(d) PROVE IInv'
<1>0. cmd[d] \in Commands /\ IdOf[cmd[d]] \in Ids
  BY RowExists DEF IInv, DeliveryInv, BeforeWriteVerify
<1>1. /\ UNCHANGED <<now, up, loop, ledger, pc, cmd, authentic, result, frames, marked, faults>>
      /\ native[d] = "verify"
      /\ native' = [native EXCEPT ![d] = IF Expired(cmd[d]) THEN "raised" ELSE "mark"]
  BY DEF BeforeWriteVerify, NativeGoto, NativeUnchanged, handlerVars
<1>2. TypeOK' /\ LoopInv' /\ DeliveryInv'
  BY <1>1 DEF IInv, TypeOK, LoopInv, DeliveryInv, NativePcs
<1>3. RowInv' /\ MarkInv' /\ FrameInv' /\ OneMarkInv' /\ DenialInv'
  BY <1>1
  DEF IInv, TypeOK, RowInv, MarkInv, OnRecord, RowOf, BeyondRetention,
      FrameInv,
     OneMarkInv, DenialInv, DeniesExecution
<1>4. FenceInv'
  <2> SUFFICES ASSUME NEW x \in Deliveries, NEW e \in Deliveries,
                      native'[x] = "mark", RowOf(x).token = x,
                      RowOf(x).state = "preparing", cmd[e] = cmd[x], marked[e]
               PROVE  FALSE
    BY <1>1 DEF FenceInv, RowOf
  <2>1. CASE x # d
    BY <1>1, <2>1 DEF IInv, TypeOK, FenceInv
  <2>2. CASE x = d
    <3>1. ~Expired(cmd[d])
      BY <1>1, <2>2 DEF IInv, TypeOK
    <3>2. ~BeyondRetention(cmd[e])
      BY <1>0, <2>2, <3>1, WriterAssumption
      DEF Expired, BeyondRetention, IInv, TypeOK
    <3>3. OnRecord(e)
      BY <3>2 DEF IInv, MarkInv
    <3> QED BY <2>2, <3>3 DEF OnRecord, RowOf
  <2> QED BY <2>1, <2>2
<1>5. CompletionInv'
  BY <1>1 DEF IInv, TypeOK, CompletionInv, Backed
<1> QED BY <1>2, <1>3, <1>4, <1>5 DEF IInv

(* mark_started: the marker of a fenced claim is the only one.             *)
LEMMA MarkStartedInv ==
    ASSUME IInv, NEW d \in Deliveries, MarkStarted(d) PROVE IInv'
<1> DEFINE i == IdOf[cmd[d]]
<1>0. cmd[d] \in Commands /\ i \in Ids /\ RowOf(d) \in Row
  BY RowExists DEF IInv, DeliveryInv, MarkStarted
<1>1. /\ UNCHANGED <<now, up, loop, pc, cmd, authentic, result, frames, faults>>
      /\ native[d] = "mark"
  BY DEF MarkStarted, NativeUnchanged, handlerVars
<1>2. CASE ~HoldsClaim(d)
  <2>1. /\ native' = [native EXCEPT ![d] = "raised"] /\ UNCHANGED <<ledger, marked>>
    BY <1>2 DEF MarkStarted, NativeGoto
  <2>2. TypeOK' /\ LoopInv' /\ DeliveryInv' /\ FrameInv'
    BY <1>1, <2>1 DEF IInv, TypeOK, LoopInv, DeliveryInv, FrameInv, NativePcs
  <2>3. RowInv' /\ MarkInv' /\ FenceInv' /\ OneMarkInv'
    BY <1>1, <2>1, QuietStepInv DEF IInv, TypeOK
  <2>4. DenialInv' /\ CompletionInv'
    BY <1>1, <2>1
    DEF IInv, TypeOK, DenialInv, DeniesExecution, RowOf, BeyondRetention,
       CompletionInv, Backed
  <2> QED BY <2>2, <2>3, <2>4 DEF IInv
<1>3. CASE HoldsClaim(d)
  <2> DEFINE new == [RowOf(d) EXCEPT !.state = "started"]
  <2>1. /\ native' = [native EXCEPT ![d] = "reverify"]
        /\ marked' = [marked EXCEPT ![d] = TRUE]
        /\ SetRow(d, new)
    BY <1>3 DEF MarkStarted, NativeGoto
  <2>2. /\ new \in Row /\ new.state = "started" /\ new.token = d
        /\ new.cmd = RowOf(d).cmd /\ new.keep = RowOf(d).keep
    BY <1>0, <1>3 DEF Row, HoldsClaim, ActiveStates, TerminalStates
  <2>3. RowOf(d).token = d /\ RowOf(d).state \in ActiveStates /\ RowOf(d).cmd = cmd[d]
    BY <1>0, <1>3 DEF HoldsClaim, RowOf, IInv, RowInv
  <2>4. /\ ledger' \in [Ids -> Row] /\ ledger'[i] = new
        /\ \A j \in Ids : j # i => ledger'[j] = ledger[j]
    BY <1>0, <2>1, <2>2, WriteRow DEF IInv
  <2>5. \A e \in Deliveries : marked[e] /\ cmd[e] = cmd[d] => e = d
    <3>1. CASE RowOf(d).state = "preparing"
      BY <1>1, <2>3, <3>1 DEF IInv, FenceInv
    <3>2. CASE RowOf(d).state = "started"
      BY <1>0, <2>3, <3>2 DEF IInv, RowInv, OneMarkInv, RowOf
    <3> QED BY <2>3, <3>1, <3>2 DEF ActiveStates
  <2>6. TypeOK' /\ LoopInv' /\ DeliveryInv' /\ FrameInv'
    BY <1>1, <2>1, <2>4
    DEF IInv, TypeOK, LoopInv, DeliveryInv, FrameInv, NativePcs
  <2>7. RowInv'
    <3>1. \A x \in Deliveries : marked[x] => marked'[x]
      BY <2>1 DEF IInv, TypeOK
    <3>2. marked'[d]
      BY <2>1 DEF IInv, TypeOK
    <3> SUFFICES ASSUME NEW j \in Ids
                 PROVE  RowInv!(j)'
      BY DEF RowInv
    <3>3. CASE j = i
      <4>1. RowOf(d).keep >= Deadline[cmd[d]] + Retention
        BY <1>0, <2>3 DEF IInv, RowInv, RowOf, ActiveStates
      <4>2. /\ ledger'[j].state = "started" /\ ledger'[j].token = d
            /\ ledger'[j].cmd = cmd[d]
            /\ ledger'[j].keep >= Deadline[cmd[d]] + Retention
        BY <2>2, <2>3, <2>4, <3>3, <4>1
      <4> QED BY <1>0, <1>1, <3>2, <3>3, <4>2 DEF ActiveStates
    <3>4. CASE j # i
      BY <1>1, <2>4, <3>1, <3>4 DEF IInv, RowInv, ActiveStates
    <3> QED BY <3>3, <3>4
  <2>8. MarkInv'
    <3> SUFFICES ASSUME NEW x \in Deliveries, marked'[x]
                 PROVE  OnRecord(x)' \/ BeyondRetention(cmd[x])
      BY <1>1 DEF MarkInv, BeyondRetention
    <3>1. CASE x = d
      BY <1>1, <2>2, <2>3, <2>4, <3>1 DEF OnRecord, RowOf
    <3>2. CASE x # d
      <4>1. marked[x] /\ cmd[x] \in Commands /\ IdOf[cmd[x]] \in Ids
        BY <2>1, <3>2, RowExists DEF IInv, TypeOK, DeliveryInv
      <4>2. CASE BeyondRetention(cmd[x])
        BY <4>2
      <4>3. CASE OnRecord(x)
        <5>1. IdOf[cmd[x]] # i
          BY <2>3, <3>2, <4>3 DEF OnRecord, RowOf, ActiveStates
        <5> QED BY <1>1, <2>4, <4>1, <4>3, <5>1 DEF OnRecord, RowOf
      <4> QED BY <4>1, <4>2, <4>3 DEF IInv, MarkInv
    <3> QED BY <3>1, <3>2
  <2>9. FenceInv'
    <3> SUFFICES ASSUME NEW x \in Deliveries, NEW e \in Deliveries,
                        native'[x] = "mark", RowOf(x)'.token = x,
                        RowOf(x)'.state = "preparing", cmd[e] = cmd[x], marked'[e]
                 PROVE  FALSE
      BY <1>1 DEF FenceInv
    <3>1. x # d /\ native[x] = "mark" /\ cmd[x] \in Commands /\ IdOf[cmd[x]] \in Ids
      BY <2>1, RowExists DEF IInv, TypeOK, DeliveryInv
    <3>2. IdOf[cmd[x]] # i
      BY <1>1, <2>2, <2>4, <3>1 DEF RowOf
    <3>3. RowOf(x)' = RowOf(x) /\ e # d
      BY <1>1, <2>4, <3>1, <3>2 DEF RowOf
    <3> QED BY <2>1, <3>1, <3>3 DEF IInv, TypeOK, FenceInv
  <2>10. OneMarkInv'
    BY <1>1, <2>1, <2>5 DEF IInv, TypeOK, OneMarkInv
  <2>11. DenialInv'
    <3> SUFFICES ASSUME NEW x \in Deliveries, DeniesExecution(x)
                 PROVE  /\ ~(RowOf(x)'.cmd = cmd[x] /\ RowOf(x)'.state \in ActiveStates)
                        /\ \A e \in Deliveries : cmd[e] = cmd[x] /\ marked'[e] =>
                             BeyondRetention(cmd[x])
      BY <1>1 DEF DenialInv, DeniesExecution, BeyondRetention
    <3>1. cmd[x] \in Commands /\ IdOf[cmd[x]] \in Ids
      BY RowExists DEF IInv, DeliveryInv, DeniesExecution
    <3>2. cmd[x] # cmd[d]
      BY <2>3 DEF IInv, DenialInv, RowOf
    <3>3. ~(RowOf(x)'.cmd = cmd[x] /\ RowOf(x)'.state \in ActiveStates)
      <4>1. RowOf(x)' = ledger'[IdOf[cmd[x]]]
        BY <1>1 DEF RowOf
      <4>2. CASE IdOf[cmd[x]] = i
        <5>1. RowOf(x)' = new BY <2>4, <4>1, <4>2
        <5> HIDE DEF new
        <5>2. RowOf(x)'.cmd = cmd[d] BY <2>2, <2>3, <5>1
        <5> QED BY <3>2, <5>2
      <4>3. CASE IdOf[cmd[x]] # i
        <5>1. RowOf(x)' = RowOf(x) BY <2>4, <3>1, <4>1, <4>3 DEF RowOf
        <5>2. ~(RowOf(x).cmd = cmd[x] /\ RowOf(x).state \in ActiveStates)
          BY DEF IInv, DenialInv
        <5> QED BY <5>1, <5>2
      <4> QED BY <4>2, <4>3
    <3>4. \A e \in Deliveries : cmd[e] = cmd[x] /\ marked'[e] => BeyondRetention(cmd[x])
      BY <2>1, <3>2 DEF IInv, TypeOK, DenialInv
    <3> QED BY <3>3, <3>4
  <2>12. CompletionInv'
    <3>1. \A c : Backed(c) => Backed(c)'
      BY <1>1, <2>1 DEF Backed, IInv, TypeOK
    <3> QED BY <1>1, <2>2, <2>4, <3>1 DEF IInv, CompletionInv
  <2> QED BY <2>6, <2>7, <2>8, <2>9, <2>10, <2>11, <2>12 DEF IInv
<1> QED BY <1>2, <1>3

(* complete: the acknowledged attempt backs the completed row.             *)
LEMMA CompleteInv == ASSUME IInv, NEW d \in Deliveries, Complete(d) PROVE IInv'
<1>0. cmd[d] \in Commands /\ IdOf[cmd[d]] \in Ids /\ RowOf(d) \in Row
  BY RowExists DEF IInv, DeliveryInv, Complete, Running
<1>1. /\ UNCHANGED <<now, up, loop, cmd, authentic, native, frames, marked, faults>>
      /\ loop = d /\ pc[d] = "complete"
  BY DEF Complete, Running, nativeVars
<1>2. CASE ~(RowOf(d).token = d /\ RowOf(d).state = "started")
  <2>1. pc' = [pc EXCEPT ![d] = "salvage"] /\ UNCHANGED <<ledger, result>>
    BY <1>2 DEF Complete, Goto
  <2>2. LedgerStep
    BY <2>1 DEF LedgerStep, RowStep, IInv, TypeOK
  <2>3. TypeOK' /\ LoopInv' /\ DeliveryInv'
    BY <1>1, <2>1 DEF IInv, TypeOK, LoopInv, DeliveryInv, Pcs, LoopPcs
  <2>4. CompletionInv'
    BY <1>1, <2>1, CompletionKept DEF IInv, TypeOK
  <2>5. \A e \in Deliveries : DeniesExecution(e)' => DeniesExecution(e)
    BY <1>1, <2>1 DEF DeniesExecution, IInv, TypeOK
  <2> QED BY <1>1, <2>2, <2>3, <2>4, <2>5, TransactionInv
<1>3. CASE RowOf(d).token = d /\ RowOf(d).state = "started"
  <2> DEFINE new == Settled(RowOf(d), "completed")
  <2>1. /\ SetRow(d, new)
        /\ pc' = [pc EXCEPT ![d] = "reply"]
        /\ result' = [result EXCEPT ![d] = "completed"]
    BY <1>3 DEF Complete, ReplyWith, Goto
  <2>2. new \in Row /\ SettlesRow(RowOf(d), new) /\ new.state = "completed"
    BY <1>0, <1>3, SettledRow DEF IInv, SettlesRow, ActiveStates, TerminalStates
  <2>3. LedgerStep
    BY <1>0, <2>1, <2>2, WriteRowStep DEF IInv, RowStep
  <2>4. TypeOK' /\ LoopInv' /\ DeliveryInv'
    BY <1>1, <2>1, <2>3
    DEF LedgerStep, IInv, TypeOK, LoopInv, DeliveryInv, Pcs, LoopPcs, Outcomes
  <2>5. CompletionInv'
    <3>1. Backed(cmd[d])'
      BY <1>1, <2>1 DEF Backed, IInv, TypeOK, DeliveryInv, FrameInv
    <3>2. \A c : Backed(c) => Backed(c)'
      BY <1>1, <2>1 DEF Backed, IInv, TypeOK
    <3>3. RowOf(d).cmd = cmd[d]
      BY <1>0, <1>3 DEF IInv, RowInv, RowOf, ActiveStates
    <3>4. /\ ledger'[IdOf[cmd[d]]].cmd = cmd[d]
          /\ \A i \in Ids : i # IdOf[cmd[d]] => ledger'[i] = ledger[i]
      BY <1>0, <2>1, <2>2, <3>3, WriteRow DEF IInv, SettlesRow
    <3> QED BY <1>0, <1>1, <2>1, <3>1, <3>2, <3>4 DEF IInv, TypeOK, CompletionInv
  <2>6. \A e \in Deliveries : DeniesExecution(e)' => DeniesExecution(e)
    BY <1>1, <2>1 DEF DeniesExecution, IInv, TypeOK
  <2> QED BY <1>1, <2>3, <2>4, <2>5, <2>6, TransactionInv
<1> QED BY <1>2, <1>3

(* fail on behalf of a handler, whatever the handler does next.            *)
LEMMA FailStep ==
    ASSUME IInv, NEW d \in Deliveries, cmd[d] \in Commands, HoldsClaim(d),
           SetRow(d, FailedRow(RowOf(d))), UNCHANGED cmd
    PROVE  /\ LedgerStep
           /\ RowOf(d)' = FailedRow(RowOf(d))
           /\ \A i \in Ids : ledger'[i].state = "completed" => ledger'[i] = ledger[i]
           /\ FailedRow(RowOf(d)).state \in {"retryable", "unknown"}
           /\ FailedRow(RowOf(d)).cmd = cmd[d]
<1>1. IdOf[cmd[d]] \in Ids /\ RowOf(d) \in Row /\ RowOf(d).cmd = cmd[d]
  BY RowExists DEF IInv, RowInv, HoldsClaim, RowOf
<1>2. /\ FailedRow(RowOf(d)) \in Row
      /\ SettlesRow(RowOf(d), FailedRow(RowOf(d)))
      /\ FailedRow(RowOf(d)).state \in {"retryable", "unknown"}
  BY <1>1, FailedRowSettles DEF IInv, HoldsClaim
<1>3. LedgerStep
  BY <1>2, WriteRowStep DEF IInv, RowStep
<1>4. /\ RowOf(d)' = FailedRow(RowOf(d))
      /\ \A i \in Ids : i # IdOf[cmd[d]] => ledger'[i] = ledger[i]
  BY <1>2, WriteRow DEF IInv, RowOf
<1> QED BY <1>1, <1>2, <1>3, <1>4 DEF SettlesRow, RowOf

(* fail after a native error: a retryable answer means no marker. *)
LEMMA SettleInv == ASSUME IInv, NEW d \in Deliveries, Settle(d) PROVE IInv'
<1>0. cmd[d] \in Commands
  BY DEF IInv, DeliveryInv, Settle, Running
<1>1. /\ UNCHANGED <<now, up, loop, cmd, authentic, native, frames, marked, faults>>
      /\ loop = d /\ pc[d] = "settle"
  BY DEF Settle, Running, nativeVars
<1>2. CASE ~HoldsClaim(d)
  <2>1. pc' = [pc EXCEPT ![d] = "salvage"] /\ UNCHANGED <<ledger, result>>
    BY <1>2 DEF Settle, Goto
  <2>2. LedgerStep
    BY <2>1 DEF LedgerStep, RowStep, IInv, TypeOK
  <2>3. TypeOK' /\ LoopInv' /\ DeliveryInv'
    BY <1>1, <2>1 DEF IInv, TypeOK, LoopInv, DeliveryInv, Pcs, LoopPcs
  <2>4. CompletionInv'
    BY <1>1, <2>1, CompletionKept DEF IInv, TypeOK
  <2>5. \A e \in Deliveries : DeniesExecution(e)' => DeniesExecution(e)
    BY <1>1, <2>1 DEF DeniesExecution, IInv, TypeOK
  <2> QED BY <1>1, <2>2, <2>3, <2>4, <2>5, TransactionInv
<1>3. CASE HoldsClaim(d)
  <2>1. /\ SetRow(d, FailedRow(RowOf(d)))
        /\ pc' = [pc EXCEPT ![d] = "reply"]
        /\ result' = [result EXCEPT ![d] = FailedRow(RowOf(d)).state]
    BY <1>3 DEF Settle, ReplyWith, Goto
  <2>2. /\ LedgerStep
        /\ RowOf(d)' = FailedRow(RowOf(d))
        /\ \A i \in Ids : ledger'[i].state = "completed" => ledger'[i] = ledger[i]
        /\ FailedRow(RowOf(d)).state \in {"retryable", "unknown"}
        /\ FailedRow(RowOf(d)).cmd = cmd[d]
    BY <1>0, <1>1, <1>3, <2>1, FailStep
  <2>3. TypeOK' /\ LoopInv' /\ DeliveryInv'
    BY <1>1, <2>1, <2>2
    DEF LedgerStep, IInv, TypeOK, LoopInv, DeliveryInv, Pcs, LoopPcs, Outcomes
  <2>4. CompletionInv'
    BY <1>1, <2>1, <2>2, CompletionKept DEF IInv, TypeOK
  <2>5. \A e \in Deliveries : DeniesExecution(e)' =>
           DeniesExecution(e) \/ Claimable(RowOf(e)', cmd[e])
    BY <1>1, <2>1, <2>2 DEF DeniesExecution, Claimable, IInv, TypeOK
  <2> QED BY <1>1, <2>2, <2>3, <2>4, <2>5, TransactionInv
<1> QED BY <1>2, <1>3

(* CancelSettle and Salvage: fail, or no change of the ledger.             *)
LEMMA CancelSettleInv ==
    ASSUME IInv, NEW d \in Deliveries, CancelSettle(d)
    PROVE  IInv'
<1>0. cmd[d] \in Commands
  BY DEF IInv, DeliveryInv, CancelSettle, Running
<1>1. /\ UNCHANGED <<now, up, cmd, authentic, result, native, frames, marked>>
      /\ loop = d /\ pc[d] = "cancel" /\ faults' \in Nat
      /\ \/ pc' = [pc EXCEPT ![d] = "done"] /\ loop' = NoDelivery
         \/ pc' = [pc EXCEPT ![d] = "salvage"] /\ loop' = loop
  BY WriterAssumption
  DEF CancelSettle, Running, nativeVars, Goto, StorageFault, IInv, TypeOK
<1>2. /\ LedgerStep
      /\ \A i \in Ids : ledger'[i].state = "completed" => ledger'[i] = ledger[i]
  <2>1. CASE HoldsClaim(d)
    BY <1>0, <1>1, <2>1, FailStep DEF CancelSettle
  <2>2. CASE ~HoldsClaim(d)
    BY <2>2 DEF CancelSettle, LedgerStep, RowStep, IInv, TypeOK
  <2> QED BY <2>1, <2>2
<1>3. TypeOK'
  BY <1>1, <1>2 DEF LedgerStep, IInv, TypeOK, Pcs, LoopPcs
<1>4. LoopInv' /\ DeliveryInv'
  BY <1>1, WriterAssumption DEF IInv, TypeOK, LoopInv, DeliveryInv, LoopPcs
<1>5. CompletionInv'
  BY <1>1, <1>2, CompletionKept DEF IInv, TypeOK
<1>6. \A e \in Deliveries : DeniesExecution(e)' => DeniesExecution(e)
  BY <1>1 DEF DeniesExecution, IInv, TypeOK
<1> QED BY <1>1, <1>2, <1>3, <1>4, <1>5, <1>6, TransactionInv

(* The outer except fails the claim if it still can. *)
LEMMA SalvageInv == ASSUME IInv, NEW d \in Deliveries, Salvage(d) PROVE IInv'
<1>0. cmd[d] \in Commands
  BY DEF IInv, DeliveryInv, Salvage, Running
<1>1. /\ UNCHANGED <<now, up, loop, cmd, authentic, native, frames, marked>>
      /\ loop = d /\ pc[d] = "salvage" /\ faults' \in Nat
      /\ pc' = [pc EXCEPT ![d] = "reply"]
      /\ result' = [result EXCEPT ![d] = "unknown"]
  BY WriterAssumption
  DEF Salvage, Running, nativeVars, Goto, ReplyWith, StorageFault, IInv,
      TypeOK
<1>2. /\ LedgerStep
      /\ \A i \in Ids : ledger'[i].state = "completed" => ledger'[i] = ledger[i]
  <2>1. CASE HoldsClaim(d) /\ SetRow(d, FailedRow(RowOf(d)))
    BY <1>0, <1>1, <2>1, FailStep
  <2>2. CASE UNCHANGED ledger
    BY <2>2 DEF LedgerStep, RowStep, IInv, TypeOK
  <2> QED BY <2>1, <2>2 DEF Salvage
<1>3. TypeOK' /\ LoopInv' /\ DeliveryInv'
  BY <1>1, <1>2
  DEF LedgerStep, IInv, TypeOK, LoopInv, DeliveryInv, Pcs, LoopPcs, Outcomes
<1>4. CompletionInv'
  BY <1>1, <1>2, CompletionKept DEF IInv, TypeOK
<1>5. \A e \in Deliveries : DeniesExecution(e)' => DeniesExecution(e)
  BY <1>1 DEF DeniesExecution, IInv, TypeOK
<1> QED BY <1>1, <1>2, <1>3, <1>4, <1>5, TransactionInv

(* Every step preserves the invariant. *)
LEMMA StepInv == IInv /\ [Next]_vars => IInv'
<1> SUFFICES ASSUME IInv, [Next]_vars PROVE IInv'
  OBVIOUS
<1>1. CASE UNCHANGED vars
  BY <1>1
  DEF vars, IInv, TypeOK, LoopInv, DeliveryInv, RowInv, MarkInv, OnRecord,
      RowOf,
     BeyondRetention, FrameInv, FenceInv, OneMarkInv, DenialInv, DeniesExecution,
     CompletionInv, Backed
<1>2. CASE Tick \/ Crash \/ Recover
  BY <1>2, TickInv, CrashInv, RecoverInv
<1>3. ASSUME NEW d \in Deliveries, NEW c \in Commands, Deliver(d, c) \/ DeliverInvalid(d, c)
      PROVE  IInv'
  BY <1>3, DeliverInv, DeliverInvalidInv
<1>4. ASSUME NEW d \in Deliveries, HandlerStep(d) \/ Cancel(d)
      PROVE  IInv'
  BY <1>4, LookupInv, LedgerUnavailableInv, VerifyUnexpiredInv, ClaimCommandInv, AdmitInv,
     RecordFailsInv, ResumeInv, CompleteInv, SettleInv, CancelSettleInv, SettleFailsInv,
     SalvageInv, ReplyInv, CancelInv DEF HandlerStep
<1>5. ASSUME NEW d \in Deliveries, NativeStep(d)
      PROVE  IInv'
  BY <1>5, ConnectInv, BeforeWriteVerifyInv, MarkStartedInv, MarkStartedFailsInv,
     BeforeWriteReverifyInv, IssueFrameInv, AcknowledgeInv, NativeErrorInv DEF NativeStep
<1> QED BY <1>1, <1>2, <1>3, <1>4, <1>5 DEF Next

(***************************************************************************)
(* Theorems.                                                               *)
(***************************************************************************)
(* The strengthened invariant holds in every reachable state.              *)
THEOREM Inductive == Spec => []IInv
<1> QED BY InitInv, StepInv, PTL DEF Spec

(* Type correctness of the writer: every row, handler and native write     *)
(* stays in the states the code distinguishes.                             *)
THEOREM TypeCorrect == Spec => []TypeOK
<1>1. IInv => TypeOK
  BY DEF IInv
<1> QED BY <1>1, Inductive, PTL

(* At-most-once execution: mark_started's token fence, the expiry check    *)
(* before every frame and the retention of rows beyond the deadline        *)
(* together never let a second claim of a command write to the device.     *)
THEOREM WritesAtMostOnce == Spec => []AtMostOneInitiation
<1>1. IInv => AtMostOneInitiation
  BY DEF IInv, FrameInv, OneMarkInv, AtMostOneInitiation, Wrote
<1> QED BY <1>1, Inductive, PTL

(* A retained id is bound to one content: claim refuses a second content   *)
(* ("command_id_reused") until the first one's row is past its retention.  *)
THEOREM IdsBindContent == Spec => []OneContentPerRetainedId
<1>1. IInv => OneContentPerRetainedId
  BY
  DEF IInv, FrameInv, MarkInv, OnRecord, RowOf, OneContentPerRetainedId, Wrote
<1> QED BY <1>1, Inductive, PTL

(* No native frame without a durable trace that recover() understands.     *)
THEOREM FramesOnRecord == Spec => []InitiationOnRecord
<1>1. IInv => InitiationOnRecord
  BY DEF IInv, FrameInv, MarkInv, OnRecord, InitiationOnRecord, Wrote
<1> QED BY <1>1, Inductive, PTL

(* The not_executed replies of the handler are true of every attempt.      *)
THEOREM DenialsAreTrue == Spec => []NotExecutedIsTrue
<1>1. IInv => NotExecutedIsTrue
  BY DEF IInv, FrameInv, DenialInv, DeniesExecution, NotExecutedIsTrue, Wrote
<1> QED BY <1>1, Inductive, PTL

(* The completed replies of the handler, replays included, rest on an      *)
(* attempt that issued all frames and was acknowledged by the device.      *)
THEOREM CompletionsAreTrue == Spec => []CompletedIsTrue
<1>1. IInv => CompletedIsTrue
  BY DEF IInv, CompletionInv, Backed, CompletedIsTrue
<1> QED BY <1>1, Inductive, PTL

(* A settled outcome is final: claim and lookup may only prune it, and no  *)
(* token is left that complete, fail or mark_started would accept.         *)
THEOREM OutcomesAreFinal == Spec => OutcomeIsFinal
<1> DEFINE Final(i) == ledger[i].state \in {"completed", "unknown"} =>
                          ledger'[i] = ledger[i] \/ now > ledger[i].keep
<1>1. ASSUME IInv, [Next]_vars, NEW i \in Ids
      PROVE  Final(i)
  <2>1. CASE UNCHANGED ledger
    BY <2>1
  <2>2. CASE Recover
    <3>1. ledger[i].state \in {"completed", "unknown"} =>
            Recovered(ledger)[i] = ledger[i]
      BY DEF Recovered, ActiveStates
    <3> QED BY <1>1, <2>2, <3>1 DEF Recover, Pruned, IInv, TypeOK, Row
  <2>3. ASSUME NEW d \in Deliveries, Lookup(d)
        PROVE  Final(i)
    BY <1>1, <2>3 DEF Lookup, Pruned, IInv, TypeOK, Row
  <2>4. ASSUME NEW d \in Deliveries, ClaimCommand(d)
        PROVE  Final(i)
    <3>1. CASE ledger[i].keep < now
      BY <1>1, <3>1 DEF IInv, TypeOK, Row
    <3>2. CASE ~(ledger[i].keep < now)
      <4>1. Pruned(ledger)[i] = ledger[i]
        BY <3>2 DEF Pruned
      <4>2. Pruned(ledger) \in [Ids -> Row]
        BY <1>1, PruneStep DEF IInv, TypeOK
      <4> QED BY <2>4, <4>1, <4>2 DEF ClaimCommand, Claimable
    <3> QED BY <3>1, <3>2
  <2>5. ASSUME NEW d \in Deliveries, HoldsClaim(d), NEW row, SetRow(d, row)
        PROVE  Final(i)
    BY <1>1, <2>5 DEF HoldsClaim, SetRow, RowOf, IInv, TypeOK, ActiveStates
  <2>6. ASSUME NEW d \in Deliveries, HandlerStep(d) \/ NativeStep(d) \/ Cancel(d)
        PROVE  Final(i)
    <3>1. \/ UNCHANGED ledger
          \/ Lookup(d) \/ ClaimCommand(d)
          \/ HoldsClaim(d) /\ \E row : SetRow(d, row)
      BY <2>6
      DEF HandlerStep, NativeStep, Cancel, LedgerUnavailable, VerifyUnexpired,
         Admit, RecordFails, Resume, Complete, Settle, CancelSettle, SettleFails,
         Salvage, Reply, Connect, BeforeWriteVerify, MarkStarted, MarkStartedFails,
         BeforeWriteReverify, IssueFrame, Acknowledge, NativeError, HoldsClaim,
         ActiveStates
    <3> QED BY <2>1, <2>3, <2>4, <2>5, <3>1
  <2> QED
    BY <1>1, <2>1, <2>2, <2>6
    DEF Next, vars, Tick, Crash, Deliver, DeliverInvalid
<1>2. IInv /\ [Next]_vars =>
        [\A i \in Ids : ledger[i].state \in {"completed", "unknown"} =>
            ledger'[i] = ledger[i] \/ now > ledger[i].keep]_vars
  BY <1>1
<1> QED BY <1>2, Inductive, PTL DEF Spec, OutcomeIsFinal

(***************************************************************************)
(* Refinement of AtMostOnce.                                               *)
(***************************************************************************)
(* A step that neither moves the clock nor issues a frame.                 *)
NoEffect ==
    /\ now' = now /\ frames' = frames
    /\ \A d \in Deliveries : cmd'[d] = cmd[d] \/ frames[d] = 0

(* Only the clock and IssueFrame are seen by the promise otherwise than as *)
(* answers.                                                                *)
LEMMA OtherStepsHaveNoEffect ==
    ASSUME IInv, Next
    PROVE  Tick \/ (\E d \in Deliveries : IssueFrame(d)) \/ NoEffect
<1>1. CASE Tick \/ Crash \/ Recover
  BY <1>1 DEF Crash, Recover, NoEffect, handlerVars, nativeVars
<1>2. ASSUME NEW d \in Deliveries, NEW c \in Commands, Deliver(d, c) \/ DeliverInvalid(d, c)
      PROVE  NoEffect
  <2>1. frames[d] = 0
    BY <1>2 DEF IInv, DeliveryInv, Deliver, DeliverInvalid
  <2> QED BY <1>2, <2>1 DEF IInv, TypeOK, Deliver, DeliverInvalid, NoEffect, nativeVars
<1>3. ASSUME NEW d \in Deliveries, HandlerStep(d)
      PROVE  NoEffect
  BY <1>3 DEF HandlerStep, Lookup, LedgerUnavailable, VerifyUnexpired, ClaimCommand, Admit,
     RecordFails, Resume, Complete, Settle, CancelSettle, SettleFails, Salvage, Reply,
     NoEffect, nativeVars
<1>4. ASSUME NEW d \in Deliveries, Cancel(d)
      PROVE  NoEffect
  BY <1>4 DEF Cancel, NoEffect
<1>5. ASSUME NEW d \in Deliveries, NativeStep(d)
      PROVE  IssueFrame(d) \/ NoEffect
  BY <1>5 DEF NativeStep, Connect, BeforeWriteVerify, MarkStarted, MarkStartedFails,
     BeforeWriteReverify, Acknowledge, NativeError, NoEffect, NativeUnchanged, handlerVars
<1> QED BY <1>1, <1>2, <1>3, <1>4, <1>5 DEF Next

(* What the promise sees of one native frame: the first one initiates the  *)
(* command, which nobody had initiated; a further one changes nothing.     *)
LEMMA FrameInitiates ==
    ASSUME IInv, IInv', NEW d \in Deliveries, IssueFrame(d)
    PROVE  \/ UNCHANGED <<InitiatedBy, OnOffer, Forgotten>>
           \/ Promise!Initiate(cmd[d], d)
<1>1. UNCHANGED <<OnOffer, Forgotten>>
  BY DEF IssueFrame, NativeUnchanged, handlerVars, OnOffer, Forgotten, BeyondRetention
<1>2. cmd[d] \in Commands
  BY DEF IInv, DeliveryInv, IssueFrame, TypeOK
<1>3. \A e \in Deliveries : Wrote(e)' <=> Wrote(e) \/ e = d
  BY DEF IInv, TypeOK, IssueFrame, Wrote
<1>4. cmd' = cmd
  BY DEF IssueFrame, NativeUnchanged, handlerVars
<1>5. CASE Wrote(d)
  <2>1. \A c \in Commands : InitiatedBy'[c] = InitiatedBy[c]
    BY <1>3, <1>4, <1>5 DEF InitiatedBy
  <2> QED BY <1>1, <2>1 DEF InitiatedBy
<1>6. CASE ~Wrote(d)
  <2>1. \A e \in Deliveries : cmd[e] = cmd[d] => ~Wrote(e)
    BY <1>3, <1>4, <1>6 DEF IInv, FrameInv, OneMarkInv, Wrote
  <2>2. InitiatedBy[cmd[d]] = {}
    BY <1>2, <2>1 DEF InitiatedBy
  <2>3. InitiatedBy' = [InitiatedBy EXCEPT ![cmd[d]] = {d}]
    BY <1>2, <1>3, <1>4, <2>1 DEF InitiatedBy
  <2> QED BY <1>1, <2>2, <2>3 DEF Promise!Initiate
<1> QED BY <1>5, <1>6

(* Every answer on offer is true, by the invariant of the state it is in.  *)
OffersTrue == \A d \in Deliveries : OnOffer[d] = NoDelivery \/ Promise!Truthful(OnOffer[d])

LEMMA AnswersAreTrue == IInv => OffersTrue
<1> SUFFICES ASSUME IInv, NEW d \in Deliveries, pc[d] = "reply", authentic[d]
             PROVE  Promise!Truthful(OnOffer[d])
  BY DEF OnOffer, OffersTrue
<1>1. cmd[d] \in Commands
  BY DEF IInv, DeliveryInv
<1>2. OnOffer[d].command = cmd[d] /\ OnOffer[d].outcome = result[d]
  BY DEF OnOffer
<1>3. ASSUME result[d] = "completed" PROVE InitiatedBy[cmd[d]] # {}
  <2>1. PICK e \in Deliveries : cmd[e] = cmd[d] /\ frames[e] = Frames[cmd[d]]
    BY <1>3 DEF IInv, CompletionInv, Backed
  <2>2. Wrote(e)
    BY <1>1, <2>1, WriterAssumption DEF Wrote
  <2> QED BY <1>1, <2>1, <2>2 DEF InitiatedBy
<1>4. ASSUME result[d] \in {"not_executed", "retryable"}
      PROVE  InitiatedBy[cmd[d]] = {} \/ cmd[d] \in Forgotten
  <2>1. \A e \in Deliveries : cmd[e] = cmd[d] /\ Wrote(e) => BeyondRetention(cmd[d])
    BY <1>4 DEF IInv, DenialInv, DeniesExecution, FrameInv, Wrote
  <2> QED BY <1>1, <2>1 DEF InitiatedBy, Forgotten
<1> QED BY <1>2, <1>3, <1>4 DEF Promise!Truthful

(* The writer implements at-most-once execution with true answers: its     *)
(* initial state maps to the promise's, the clock forgets, the first frame *)
(* of a command initiates it, and every other step answers or stutters.    *)
THEOREM ImplementsPromise == Spec => ExecutesAtMostOnce
<1>1. Init => Promise!Init
  <2> SUFFICES ASSUME Init PROVE Promise!Init
    OBVIOUS
  <2>1. InitiatedBy = [c \in Commands |-> {}]
    BY DEF Init, InitiatedBy, Wrote
  <2>2. OnOffer = [d \in Deliveries |-> NoDelivery]
    BY DEF Init, OnOffer
  <2>3. Forgotten = {}
    BY WriterAssumption DEF Init, Forgotten, BeyondRetention
  <2> QED BY <2>1, <2>2, <2>3 DEF Promise!Init
<1>2. IInv /\ IInv' /\ [Next]_vars => [Promise!Next]_(Promise!vars)
  <2> SUFFICES ASSUME IInv, IInv', [Next]_vars
               PROVE  Promise!Next \/ UNCHANGED <<InitiatedBy, OnOffer, Forgotten>>
    BY DEF Promise!vars
  <2>1. CASE UNCHANGED vars
    BY <2>1 DEF vars, InitiatedBy, OnOffer, Forgotten, Wrote, BeyondRetention
  <2>2. CASE Tick
    <3>1. UNCHANGED <<InitiatedBy, OnOffer>>
      BY <2>2 DEF Tick, InitiatedBy, OnOffer, Wrote, handlerVars, nativeVars
    <3>2. Forgotten \subseteq Forgotten'
      BY <2>2, WriterAssumption DEF Tick, Forgotten, BeyondRetention, IInv, TypeOK
    <3> QED BY <3>1, <3>2 DEF Promise!Next, Promise!Forget
  <2>3. ASSUME NEW d \in Deliveries, IssueFrame(d)
        PROVE  Promise!Next \/ UNCHANGED <<InitiatedBy, OnOffer, Forgotten>>
    <3>1. cmd[d] \in Commands
      BY <2>3 DEF IInv, DeliveryInv, IssueFrame, TypeOK
    <3> QED BY <2>3, <3>1, FrameInitiates DEF Promise!Next
  <2>4. CASE NoEffect
    <3>1. \A d \in Deliveries, c \in Commands :
             Wrote(d)' /\ cmd'[d] = c <=> Wrote(d) /\ cmd[d] = c
      BY <2>4 DEF NoEffect, Wrote, IInv, TypeOK
    <3>2. InitiatedBy' = InitiatedBy
      BY <3>1 DEF InitiatedBy
    <3>3. Forgotten' = Forgotten
      BY <2>4 DEF NoEffect, Forgotten, BeyondRetention
    <3>4. OffersTrue'
      BY AnswersAreTrue, PTL
    <3> QED BY <3>2, <3>3, <3>4 DEF OffersTrue, Promise!Next, Promise!Answer, Promise!Truthful
  <2> QED BY <2>1, <2>2, <2>3, <2>4, OtherStepsHaveNoEffect
<1> QED BY <1>1, <1>2, Inductive, PTL DEF Spec, ExecutesAtMostOnce, Promise!Spec

(***************************************************************************)
(* The register protocol of a native write (NativeMailbox).                *)
(***************************************************************************)

(* A sequence is consumed only after it was committed, and then no longer  *)
(* outstanding.                                                            *)
CommitInv == uses + (IF Outstanding THEN 1 ELSE 0) <= commits

(* An uncontended writer is alone, its sequence is not the acknowledged    *)
(* one until the device has consumed its own payload (or none).            *)
AloneInv ==
    \A w \in Writers : ~contended[w] /\ Busy(w) =>
        /\ \A v \in Writers \ {w} : ~Busy(v)
        /\ chosen[w] # 0
        /\ stage[w] \in {"payload", "sequence"} =>
              consumed[w] = 0 /\ ~Outstanding /\ ack.sequence # chosen[w]
        /\ stage[w] \in {"sequence", "poll"} => payload \in {w, NoPayload}
        /\ stage[w] = "poll" => sequence \in {0, chosen[w]}
        /\ stage[w] = "poll" /\ sequence = chosen[w] /\ ack.sequence # chosen[w] =>
              consumed[w] = 0
        /\ stage[w] = "poll" /\ ack.sequence = chosen[w] =>
              \/ ack.status = 1 /\ consumed[w] = 1 /\ w \notin Refused
              \/ ack.status = 2 /\ (w \in Refused \/ consumed[w] = 0)

(* The payload an answered writer leaves behind is not consumed again:     *)
(* whoever commits a sequence after it has replaced the payload.           *)
LeftInv ==
    \A w \in Writers : ~contended[w] /\ stage[w] \in {"acked", "rejected"} /\ payload = w =>
        ~Outstanding /\ \A v \in Writers : stage[v] # "sequence"

IdleInv == \A w \in Writers : stage[w] \in {"idle", "payload"} => consumed[w] = 0 /\ payload # w

MailboxInv ==
    /\ MailboxTypeOK /\ CommitInv /\ AloneInv /\ LeftInv /\ IdleInv
    /\ UncontendedAckIsOwn /\ UncontendedRejectionIsOwn

(* _sequence stays in the sequence space and never returns the previous    *)
(* number.                                                                 *)
LEMMA SequenceIsFresh ==
    ASSUME NEW r \in Sequences, NEW previous \in 0 .. MaxSeq
    PROVE  Sequence(r, previous) \in Sequences /\ Sequence(r, previous) # previous
<1>1. CASE r # previous
  BY <1>1 DEF Sequence
<1>2. CASE r = previous /\ r = MaxSeq
  <2>1. r % MaxSeq = 0
    BY <1>2, MailboxAssumption
  <2> QED BY <1>2, <2>1, MailboxAssumption DEF Sequence, Sequences
<1>3. CASE r = previous /\ r # MaxSeq
  <2>1. r % MaxSeq = r
    BY <1>3, MailboxAssumption DEF Sequences
  <2> QED BY <1>3, <2>1, MailboxAssumption DEF Sequence, Sequences
<1> QED BY <1>1, <1>2, <1>3

(* The initial state satisfies the inductive invariant.                    *)
LEMMA MailboxInitInv == MailboxInit => MailboxInv
  BY MailboxAssumption
  DEF MailboxInit, MailboxInv, MailboxTypeOK, Stages, CommitInv, Outstanding, AloneInv, Busy, LeftInv, IdleInv,
      UncontendedAckIsOwn, UncontendedRejectionIsOwn

(* A writer reads the acknowledgement and chooses its sequence.            *)
LEMMA ReadAckStep ==
    ASSUME NEW w \in Writers, MailboxInv, ReadAck(w)
    PROVE  MailboxInv'
<1> USE MailboxAssumption DEF MailboxInv, ReadAck, Busy, Outstanding
<1>0. PICK r \in Sequences : chosen' = [chosen EXCEPT ![w] = Sequence(r, ack.sequence)]
  OBVIOUS
<1>00. Sequence(r, ack.sequence) \in Sequences /\ Sequence(r, ack.sequence) # ack.sequence
  BY SequenceIsFresh DEF MailboxTypeOK
<1>1. MailboxTypeOK'
  BY <1>0, <1>00 DEF MailboxTypeOK, Stages, Sequences
<1>2. CommitInv'
  BY DEF CommitInv, MailboxTypeOK
<1>3. AloneInv'
  BY <1>0, <1>00 DEF AloneInv, IdleInv, MailboxTypeOK, Stages, Sequences
<1>4. LeftInv' /\ IdleInv'
  BY DEF LeftInv, IdleInv, AloneInv, MailboxTypeOK, Stages
<1>5. UncontendedAckIsOwn' /\ UncontendedRejectionIsOwn'
  BY DEF UncontendedAckIsOwn, UncontendedRejectionIsOwn, AloneInv, LeftInv, MailboxTypeOK, Stages
<1> QED BY <1>1, <1>2, <1>3, <1>4, <1>5

(* A writer writes its payload.                                            *)
LEMMA WritePayloadStep ==
    ASSUME NEW w \in Writers, MailboxInv, WritePayload(w)
    PROVE  MailboxInv'
<1> USE MailboxAssumption DEF MailboxInv, WritePayload, Busy, Outstanding
<1>1. MailboxTypeOK'
  BY DEF MailboxTypeOK, Stages, Sequences
<1>2. CommitInv'
  BY DEF CommitInv, MailboxTypeOK
<1>3. AloneInv'
  BY DEF AloneInv, IdleInv, MailboxTypeOK, Stages, Sequences
<1>4. LeftInv' /\ IdleInv'
  BY DEF LeftInv, IdleInv, AloneInv, MailboxTypeOK, Stages
<1>5. UncontendedAckIsOwn' /\ UncontendedRejectionIsOwn'
  BY DEF UncontendedAckIsOwn, UncontendedRejectionIsOwn, AloneInv, LeftInv, MailboxTypeOK, Stages
<1> QED BY <1>1, <1>2, <1>3, <1>4, <1>5

(* A writer commits its sequence.                                          *)
LEMMA WriteSequenceStep ==
    ASSUME NEW w \in Writers, MailboxInv, WriteSequence(w)
    PROVE  MailboxInv'
<1> USE MailboxAssumption DEF MailboxInv, WriteSequence, Busy, Outstanding
<1>1. MailboxTypeOK'
  BY DEF MailboxTypeOK, Stages, Sequences
<1>2. CommitInv'
  BY DEF CommitInv, MailboxTypeOK
<1>3. AloneInv'
  BY DEF AloneInv, IdleInv, MailboxTypeOK, Stages, Sequences
<1>4. LeftInv' /\ IdleInv'
  BY DEF LeftInv, IdleInv, AloneInv, MailboxTypeOK, Stages
<1>5. UncontendedAckIsOwn' /\ UncontendedRejectionIsOwn'
  BY DEF UncontendedAckIsOwn, UncontendedRejectionIsOwn, AloneInv, LeftInv, MailboxTypeOK, Stages
<1> QED BY <1>1, <1>2, <1>3, <1>4, <1>5

(* A writer reads its acknowledgement.                                     *)
LEMMA PollAckStep ==
    ASSUME NEW w \in Writers, MailboxInv, PollAck(w)
    PROVE  MailboxInv'
<1> USE MailboxAssumption DEF MailboxInv, PollAck, Busy, Outstanding
<1>1. MailboxTypeOK'
  BY DEF MailboxTypeOK, Stages, Sequences
<1>2. CommitInv'
  BY DEF CommitInv, MailboxTypeOK
<1>3. AloneInv'
  BY DEF AloneInv, IdleInv, MailboxTypeOK, Stages, Sequences
<1>4. LeftInv' /\ IdleInv'
  BY DEF LeftInv, IdleInv, AloneInv, MailboxTypeOK, Stages
<1>5. UncontendedAckIsOwn' /\ UncontendedRejectionIsOwn'
  BY DEF UncontendedAckIsOwn, UncontendedRejectionIsOwn, AloneInv, LeftInv, MailboxTypeOK, Stages
<1> QED BY <1>1, <1>2, <1>3, <1>4, <1>5

(* A writer gives up and leaves its frames behind.                         *)
LEMMA GiveUpStep ==
    ASSUME NEW w \in Writers, MailboxInv, Fail(w)
    PROVE  MailboxInv'
<1> USE MailboxAssumption DEF MailboxInv, Fail, Busy, Outstanding
<1>1. MailboxTypeOK'
  BY DEF MailboxTypeOK, Stages, Sequences
<1>2. CommitInv'
  BY DEF CommitInv, MailboxTypeOK
<1>3. AloneInv'
  BY DEF AloneInv, IdleInv, MailboxTypeOK, Stages, Sequences
<1>4. LeftInv' /\ IdleInv'
  BY DEF LeftInv, IdleInv, AloneInv, MailboxTypeOK, Stages
<1>5. UncontendedAckIsOwn' /\ UncontendedRejectionIsOwn'
  BY DEF UncontendedAckIsOwn, UncontendedRejectionIsOwn, AloneInv, LeftInv, MailboxTypeOK, Stages
<1> QED BY <1>1, <1>2, <1>3, <1>4, <1>5

(* The device consumes the mailbox.                                        *)
LEMMA ConsumeStep ==
    ASSUME MailboxInv, Consume
    PROVE  MailboxInv'
<1> USE MailboxAssumption DEF MailboxInv, Consume, Busy, Outstanding, Status
<1>1. MailboxTypeOK'
  BY DEF MailboxTypeOK, Stages, Sequences
<1>2. CommitInv'
  BY DEF CommitInv, MailboxTypeOK
<1>3. AloneInv'
  BY DEF AloneInv, IdleInv, MailboxTypeOK, Stages, Sequences
<1>4. LeftInv' /\ IdleInv'
  BY DEF LeftInv, IdleInv, AloneInv, MailboxTypeOK, Stages
<1>5. UncontendedAckIsOwn' /\ UncontendedRejectionIsOwn'
  BY DEF UncontendedAckIsOwn, UncontendedRejectionIsOwn, AloneInv, LeftInv, MailboxTypeOK, Stages
<1> QED BY <1>1, <1>2, <1>3, <1>4, <1>5

(* The device restarts.                                                    *)
LEMMA RestartStep ==
    ASSUME MailboxInv, Restart
    PROVE  MailboxInv'
<1> USE MailboxAssumption DEF MailboxInv, Restart, Busy, Outstanding
<1>1. MailboxTypeOK'
  BY DEF MailboxTypeOK, Stages, Sequences
<1>2. CommitInv'
  BY DEF CommitInv, MailboxTypeOK
<1>3. AloneInv'
  BY DEF AloneInv, IdleInv, MailboxTypeOK, Stages, Sequences
<1>4. LeftInv' /\ IdleInv'
  BY DEF LeftInv, IdleInv, AloneInv, MailboxTypeOK, Stages
<1>5. UncontendedAckIsOwn' /\ UncontendedRejectionIsOwn'
  BY DEF UncontendedAckIsOwn, UncontendedRejectionIsOwn, AloneInv, LeftInv, MailboxTypeOK, Stages
<1> QED BY <1>1, <1>2, <1>3, <1>4, <1>5

(* The strengthening of the properties below is an invariant.              *)
LEMMA MailboxInductive == MailboxSpec => []MailboxInv
<1>1. MailboxInv /\ [MailboxNext]_mailboxVars => MailboxInv'
  <2> SUFFICES ASSUME MailboxInv, [MailboxNext]_mailboxVars PROVE MailboxInv'
    OBVIOUS
  <2>1. CASE UNCHANGED mailboxVars
    BY <2>1
    DEF mailboxVars, MailboxInv, MailboxTypeOK, CommitInv, Outstanding, AloneInv, Busy, LeftInv, IdleInv,
        UncontendedAckIsOwn, UncontendedRejectionIsOwn
  <2>2. CASE Consume \/ Restart
    BY <2>2, ConsumeStep, RestartStep
  <2>3. ASSUME NEW w \in Writers,
               ReadAck(w) \/ WritePayload(w) \/ WriteSequence(w) \/ PollAck(w) \/ Fail(w)
        PROVE  MailboxInv'
    BY <2>3, ReadAckStep, WritePayloadStep, WriteSequenceStep, PollAckStep, GiveUpStep
  <2> QED BY <2>1, <2>2, <2>3 DEF MailboxNext
<1> QED BY <1>1, MailboxInitInv, PTL DEF MailboxSpec

(* Registers, sequences and writers have their types in every state: in    *)
(* particular no sequence leaves 1 .. MaxSeq.                              *)
THEOREM MailboxTypeCorrect == MailboxSpec => []MailboxTypeOK
<1>1. MailboxInv => MailboxTypeOK
  BY DEF MailboxInv
<1> QED BY <1>1, MailboxInductive, PTL

(* A sequence left in the register is not applied twice by the device,     *)
(* whatever writers abandon and however often the device restarts.         *)
THEOREM AppliedOncePerCommit == MailboxSpec => []ConsumedOncePerCommit
<1>1. MailboxInv => ConsumedOncePerCommit
  BY DEF MailboxInv, MailboxTypeOK, CommitInv, ConsumedOncePerCommit
<1> QED BY <1>1, MailboxInductive, PTL

(* A success read without competition means that one's own payload was     *)
(* applied, exactly once.                                                  *)
THEOREM SuccessIsOwn == MailboxSpec => []UncontendedAckIsOwn
<1>1. MailboxInv => UncontendedAckIsOwn
  BY DEF MailboxInv
<1> QED BY <1>1, MailboxInductive, PTL

(* A rejection read without competition never hides an applied payload.    *)
THEOREM RejectionIsOwn == MailboxSpec => []UncontendedRejectionIsOwn
<1>1. MailboxInv => UncontendedRejectionIsOwn
  BY DEF MailboxInv
<1> QED BY <1>1, MailboxInductive, PTL
=============================================================================
