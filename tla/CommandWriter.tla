--------------------------- MODULE CommandWriter ---------------------------
(***************************************************************************)
(* The writer of the actuation pipeline (actuation-signal-publisher): the  *)
(* message handler SignalPublisherWorker._handle, the durable CommandLedger *)
(* it consults, and the native write it performs on behalf of one claim.   *)
(*                                                                         *)
(* A delivery is one arrival of a command at the writer; a duplicate or a  *)
(* retry is another delivery of the same command.  A delivery makes at     *)
(* most one claim, so the claim token (secrets.token_hex, fresh by         *)
(* construction) is identified with the delivery that obtained it.         *)
(* command_digest binds the whole command, so the digest stored in a row   *)
(* is represented by the command itself.                                   *)
(*                                                                         *)
(* The writer is one asyncio process.  A handler keeps the event loop      *)
(* from one await to the next: `loop' is its owner.  The native write runs *)
(* concurrently with other handlers; an S7 write runs in a thread          *)
(* (asyncio.to_thread) that a cancellation does not stop.                  *)
(***************************************************************************)
EXTENDS Integers, FiniteSets

CONSTANTS
    Ids,          \* command ids (correlation_id)
    Commands,     \* command contents; two contents may share an id
    IdOf,         \* the id each content carries
    Deadline,     \* the deadline each content carries
    Frames,       \* native frames of its target: 1 for OPC UA, 2 for a mailbox
    Threaded,     \* commands whose target is written from a thread (S7)
    Deliveries,   \* arrivals of a command at the writer
    Retention,    \* CommandLedger.retention_s
    MaxTime,      \* bound on the wall clock
    MaxFaults,    \* bound on failing ledger transactions and journal records
    NoCommand, NoDelivery

ASSUME WriterAssumption ==
    /\ IdOf \in [Commands -> Ids]
    /\ Deadline \in [Commands -> Nat]
    /\ Frames \in [Commands -> {1, 2}]
    /\ Threaded \subseteq Commands
    /\ Retention \in Nat \ {0}
    /\ MaxTime \in Nat
    /\ MaxFaults \in Nat
    /\ NoCommand \notin Commands
    /\ NoDelivery \notin Deliveries

VARIABLES
    now,          \* the wall clock, seconds
    up,           \* the writer process is running and subscribed
    loop,         \* the delivery whose handler holds the event loop
    ledger,       \* the commands table: a row per id
    pc,           \* where the handler of each delivery is
    cmd,          \* the command the delivery carries
    authentic,    \* its envelope parsed and its approval verified
    result,       \* the WriteResult the handler is about to reply
    native,       \* where the native write of each claim is
    frames,       \* history: native frames issued under each claim
    marked,       \* history: mark_started has succeeded for the claim
    faults        \* transactions and records that have failed so far

vars == <<now, up, loop, ledger, pc, cmd, authentic, result, native, frames,
          marked, faults>>

handlerVars == <<pc, cmd, authentic, result>>
nativeVars  == <<native, frames, marked>>

(***************************************************************************)
(* The ledger.                                                             *)
(***************************************************************************)
ActiveStates   == {"preparing", "started"}
TerminalStates == {"completed", "retryable", "unknown"}
Outcomes       == {"completed", "retryable", "not_executed", "unknown",
                   "pending", "conflict"}

Row == [state : {"absent"} \cup ActiveStates \cup TerminalStates,
        cmd   : Commands \cup {NoCommand},
        token : Deliveries \cup {NoDelivery},
        keep  : Nat]

NoRow == [state |-> "absent", cmd |-> NoCommand, token |-> NoDelivery,
          keep |-> 0]

Later(a, b) == IF a >= b THEN a ELSE b

(* _prune: every transaction that reads a row first deletes the settled    *)
(* rows whose keep_until lies in the past.                                 *)
Pruned(rows) ==
    [i \in Ids |-> IF rows[i].state \in TerminalStates /\ rows[i].keep < now
                     THEN NoRow
                     ELSE rows[i]]

(* _result: what a retained row tells a delivery of command c.  A row in   *)
(* state "retryable" stores a not_executed result with retryable=True.     *)
RowResult(row, c) ==
    IF row.cmd # c THEN "conflict"
    ELSE IF row.state \in ActiveStates THEN "pending" ELSE row.state

(* Fault injection: the digest comparison is the wrong way round.          *)
ClaimableOtherContent(row, c) ==
    row.state = "absent" \/ row.cmd # c \/ row.state = "retryable"

(* claim: a row blocks a new claim unless it is this command's own         *)
(* retryable row.                                                          *)
Claimable(row, c) ==
    \/ row.state = "absent"
    \/ row.cmd = c /\ row.state = "retryable"

(* Fault injection: the row is kept from now on, not from the deadline on. *)
ClaimedRowFromNow(row, c, d) ==
    [state |-> "preparing", cmd |-> c, token |-> d,
     keep  |-> Later(row.keep, now + Retention)]

ClaimedRow(row, c, d) ==
    [state |-> "preparing", cmd |-> c, token |-> d,
     keep  |-> Later(row.keep, Later(now, Deadline[c]) + Retention)]

Settled(row, s) ==
    [state |-> s, cmd |-> row.cmd, token |-> NoDelivery,
     keep  |-> Later(row.keep, now + Retention)]

(* fail and recover decide alike: a started command is of unknown outcome, *)
(* one that was only claimed is known not to have been written.            *)
FailedRow(row) ==
    Settled(row, IF row.state = "started" THEN "unknown" ELSE "retryable")

(* The row of delivery d's command, and whether d's token still owns it.   *)
RowOf(d) == ledger[IdOf[cmd[d]]]
HoldsClaim(d) == RowOf(d).token = d /\ RowOf(d).state \in ActiveStates

Expired(c) == now > Deadline[c]

(***************************************************************************)
(* Initial state: an empty ledger, the process started, nothing delivered. *)
(***************************************************************************)
Init ==
    /\ now = 0
    /\ up = TRUE
    /\ loop = NoDelivery
    /\ ledger = [i \in Ids |-> NoRow]
    /\ pc = [d \in Deliveries |-> "new"]
    /\ cmd = [d \in Deliveries |-> NoCommand]
    /\ authentic = [d \in Deliveries |-> FALSE]
    /\ result = [d \in Deliveries |-> "pending"]
    /\ native = [d \in Deliveries |-> "none"]
    /\ frames = [d \in Deliveries |-> 0]
    /\ marked = [d \in Deliveries |-> FALSE]
    /\ faults = 0

Tick ==
    /\ now < MaxTime
    /\ now' = now + 1
    /\ UNCHANGED <<up, loop, ledger, handlerVars, nativeVars, faults>>

(* Steps of a handler between two awaits.                                  *)
Goto(d, p) == pc' = [pc EXCEPT ![d] = p]

ReplyWith(d, r) ==
    /\ Goto(d, "reply")
    /\ result' = [result EXCEPT ![d] = r]

Running(d, p) == loop = d /\ pc[d] = p

SetRow(d, row) == ledger' = [ledger EXCEPT ![IdOf[cmd[d]]] = row]

StorageFault == faults < MaxFaults /\ faults' = faults + 1

(* A message arrives and its handler gets the event loop.  The envelope    *)
(* parses and the approval authenticates; expiry is not checked yet.       *)
Deliver(d, c) ==
    /\ up /\ loop = NoDelivery /\ pc[d] = "new"
    /\ loop' = d
    /\ cmd' = [cmd EXCEPT ![d] = c]
    /\ authentic' = [authentic EXCEPT ![d] = TRUE]
    /\ Goto(d, "lookup")
    /\ UNCHANGED <<now, up, ledger, result, nativeVars, faults>>

(* A message whose envelope, identity or approval does not verify is       *)
(* refused before the ledger is read.                                      *)
DeliverInvalid(d, c) ==
    /\ up /\ loop = NoDelivery /\ pc[d] = "new"
    /\ loop' = d
    /\ cmd' = [cmd EXCEPT ![d] = c]
    /\ ReplyWith(d, "not_executed")
    /\ UNCHANGED <<now, up, ledger, authentic, nativeVars, faults>>

(* ledger.lookup: a retained result answers the duplicate; no row, or a    *)
(* retryable one, lets the handler go on to a fresh attempt.               *)
Lookup(d) ==
    /\ Running(d, "lookup")
    /\ ledger' = Pruned(ledger)
    /\ LET row == Pruned(ledger)[IdOf[cmd[d]]]
       IN IF Claimable(row, cmd[d])
            THEN Goto(d, "verify") /\ UNCHANGED result
            ELSE ReplyWith(d, RowResult(row, cmd[d]))
    /\ UNCHANGED <<now, up, loop, cmd, authentic, nativeVars, faults>>

(* History that cannot be read, or a claim that cannot be stored, is       *)
(* answered "unknown" (RuntimeError).                                      *)
LedgerUnavailable(d) ==
    /\ Running(d, "lookup") \/ Running(d, "claim")
    /\ StorageFault
    /\ ReplyWith(d, "unknown")
    /\ UNCHANGED <<now, up, loop, ledger, cmd, authentic, nativeVars>>

(* Only unexpired approval may start a new attempt.                        *)
VerifyUnexpired(d) ==
    /\ Running(d, "verify")
    /\ IF Expired(cmd[d])
         THEN ReplyWith(d, "not_executed")
         ELSE Goto(d, "claim") /\ UNCHANGED result
    /\ UNCHANGED <<now, up, loop, ledger, cmd, authentic, nativeVars, faults>>

(* ledger.claim: prune, then own the row or be told what it holds.         *)
ClaimCommand(d) ==
    /\ Running(d, "claim")
    /\ LET i    == IdOf[cmd[d]]
           rows == Pruned(ledger)
       IN IF Claimable(rows[i], cmd[d])
            THEN /\ ledger' = [rows EXCEPT ![i] = ClaimedRow(rows[i], cmd[d], d)]
                 /\ Goto(d, "admit")
                 /\ UNCHANGED result
            ELSE /\ ledger' = rows
                 /\ ReplyWith(d, RowResult(rows[i], cmd[d]))
    /\ UNCHANGED <<now, up, loop, cmd, authentic, nativeVars, faults>>

(* The executor_admitted record is written and the handler awaits the      *)
(* native write, which gives the event loop back.                          *)
Admit(d) ==
    /\ Running(d, "admit")
    /\ Goto(d, "await")
    /\ loop' = NoDelivery
    /\ native' = [native EXCEPT ![d] = "connect"]
    /\ UNCHANGED <<now, up, ledger, cmd, authentic, result, frames, marked, faults>>

(* Writing the executor_admitted or device_acknowledged record fails.      *)
RecordFails(d) ==
    /\ Running(d, "admit") \/ Running(d, "complete")
    /\ StorageFault
    /\ Goto(d, "salvage")
    /\ UNCHANGED <<now, up, loop, ledger, cmd, authentic, result, nativeVars>>
(***************************************************************************)
(* The native write of a claim.  before_write (verify, mark_started,       *)
(* record, verify) precedes every frame.  These steps need not hold the    *)
(* event loop: exact for the S7 thread, and for the coroutines of the other *)
(* two protocols more interleavings than asyncio allows.                   *)
(***************************************************************************)
NativeGoto(d, p) == native' = [native EXCEPT ![d] = p]
NativeUnchanged  == UNCHANGED <<now, up, loop, handlerVars>>

(* The connection is made and, for a mailbox, the previous ack is read.    *)
Connect(d) ==
    /\ native[d] = "connect"
    /\ NativeGoto(d, "verify")
    /\ NativeUnchanged /\ UNCHANGED <<ledger, frames, marked, faults>>

(* before_write: the approval must not have expired.                       *)
BeforeWriteVerify(d) ==
    /\ native[d] = "verify"
    /\ NativeGoto(d, IF Expired(cmd[d]) THEN "raised" ELSE "mark")
    /\ NativeUnchanged /\ UNCHANGED <<ledger, frames, marked, faults>>

(* Fault injection: mark_started does not look at the updated row count.   *)
MarkStartedUnfenced(d) ==
    /\ native[d] = "mark"
    /\ IF HoldsClaim(d) THEN SetRow(d, [RowOf(d) EXCEPT !.state = "started"])
                        ELSE UNCHANGED ledger
    /\ marked' = [marked EXCEPT ![d] = TRUE]
    /\ NativeGoto(d, "reverify")
    /\ NativeUnchanged /\ UNCHANGED <<frames, faults>>

(* ledger.mark_started: commits initiation, and fences a claim that is no  *)
(* longer the row's.                                                       *)
MarkStarted(d) ==
    /\ native[d] = "mark"
    /\ IF HoldsClaim(d)
         THEN /\ SetRow(d, [RowOf(d) EXCEPT !.state = "started"])
              /\ marked' = [marked EXCEPT ![d] = TRUE]
              /\ NativeGoto(d, "reverify")
         ELSE /\ NativeGoto(d, "raised")
              /\ UNCHANGED <<ledger, marked>>
    /\ NativeUnchanged /\ UNCHANGED <<frames, faults>>

MarkStartedFails(d) ==
    /\ native[d] = "mark"
    /\ StorageFault
    /\ NativeGoto(d, "raised")
    /\ NativeUnchanged /\ UNCHANGED <<ledger, frames, marked>>

(* The second verification, after the journal record.                      *)
BeforeWriteReverify(d) ==
    /\ native[d] = "reverify"
    /\ NativeGoto(d, IF Expired(cmd[d]) THEN "raised" ELSE "frame")
    /\ NativeUnchanged /\ UNCHANGED <<ledger, frames, marked, faults>>

IssueFrame(d) ==
    /\ native[d] = "frame"
    /\ frames' = [frames EXCEPT ![d] = @ + 1]
    /\ NativeGoto(d, IF frames[d] + 1 = Frames[cmd[d]] THEN "ack" ELSE "verify")
    /\ NativeUnchanged /\ UNCHANGED <<ledger, marked, faults>>

(* The device acknowledges and the write returns.                          *)
Acknowledge(d) ==
    /\ native[d] = "ack"
    /\ NativeGoto(d, "returned")
    /\ NativeUnchanged /\ UNCHANGED <<ledger, frames, marked, faults>>

(* A value that cannot be encoded, no target, a refused connection, a      *)
(* failing write_initiated record, an error reply to a frame, a rejecting  *)
(* device or an acknowledgement timeout.                                   *)
NativeError(d) ==
    /\ native[d] \in {"connect", "verify", "reverify", "frame", "ack"}
    /\ NativeGoto(d, "raised")
    /\ NativeUnchanged /\ UNCHANGED <<ledger, frames, marked, faults>>

(***************************************************************************)
(* The handler goes on when the native write is over.                      *)
(***************************************************************************)
(* Fault injection: an exception of the native write is swallowed.         *)
ResumeSwallowing(d) ==
    /\ loop = NoDelivery /\ pc[d] = "await"
    /\ native[d] \in {"returned", "raised"}
    /\ loop' = d
    /\ Goto(d, "complete")
    /\ UNCHANGED <<now, up, ledger, cmd, authentic, result, nativeVars, faults>>

Resume(d) ==
    /\ loop = NoDelivery /\ pc[d] = "await"
    /\ native[d] \in {"returned", "raised"}
    /\ loop' = d
    /\ Goto(d, IF native[d] = "returned" THEN "complete" ELSE "settle")
    /\ UNCHANGED <<now, up, ledger, cmd, authentic, result, nativeVars, faults>>

(* ledger.complete, guarded by the token and the initiation marker.        *)
Complete(d) ==
    /\ Running(d, "complete")
    /\ IF RowOf(d).token = d /\ RowOf(d).state = "started"
         THEN SetRow(d, Settled(RowOf(d), "completed")) /\ ReplyWith(d, "completed")
         ELSE Goto(d, "salvage") /\ UNCHANGED <<ledger, result>>
    /\ UNCHANGED <<now, up, loop, cmd, authentic, nativeVars, faults>>

(* ledger.fail after the native write raised.                              *)
Settle(d) ==
    /\ Running(d, "settle")
    /\ IF HoldsClaim(d)
         THEN /\ SetRow(d, FailedRow(RowOf(d)))
              /\ ReplyWith(d, FailedRow(RowOf(d)).state)
         ELSE Goto(d, "salvage") /\ UNCHANGED <<ledger, result>>
    /\ UNCHANGED <<now, up, loop, cmd, authentic, nativeVars, faults>>

(* The handler's task is cancelled at its await.  A coroutine write stops  *)
(* there; the S7 thread does not.                                          *)
Cancel(d) ==
    /\ loop = NoDelivery /\ pc[d] = "await"
    /\ loop' = d
    /\ Goto(d, "cancel")
    /\ native' = [native EXCEPT ![d] = IF cmd[d] \in Threaded THEN @ ELSE "stopped"]
    /\ UNCHANGED <<now, up, ledger, cmd, authentic, result, frames, marked, faults>>

(* ledger.fail of a cancelled handler, which then ends without a reply.    *)
(* If the transaction or the record after it raises, the outer handler     *)
(* takes over instead.                                                     *)
CancelSettle(d) ==
    /\ Running(d, "cancel")
    /\ IF HoldsClaim(d)
         THEN /\ SetRow(d, FailedRow(RowOf(d)))
              /\ \/ Goto(d, "done") /\ loop' = NoDelivery /\ UNCHANGED faults
                 \/ Goto(d, "salvage") /\ UNCHANGED loop /\ StorageFault
         ELSE Goto(d, "salvage") /\ UNCHANGED <<ledger, loop, faults>>
    /\ UNCHANGED <<now, up, cmd, authentic, result, nativeVars>>

(* Fault injection: the outer except answers without a second fail().      *)
SettleFailsUnsalvaged(d) ==
    /\ \E p \in {"complete", "settle", "cancel"} : Running(d, p)
    /\ StorageFault
    /\ ReplyWith(d, "unknown")
    /\ UNCHANGED <<now, up, loop, ledger, cmd, authentic, nativeVars>>

(* complete or fail raises a storage error: rolled back, outer handler.    *)
SettleFails(d) ==
    /\ \E p \in {"complete", "settle", "cancel"} : Running(d, p)
    /\ StorageFault
    /\ Goto(d, "salvage")
    /\ UNCHANGED <<now, up, loop, ledger, cmd, authentic, result, nativeVars>>

(* The outer except of a handler that holds a token: try once more to      *)
(* settle the row, then answer "unknown" whatever the ledger did.          *)
Salvage(d) ==
    /\ Running(d, "salvage")
    /\ ReplyWith(d, "unknown")
    /\ \/ /\ IF HoldsClaim(d) THEN SetRow(d, FailedRow(RowOf(d)))
                              ELSE UNCHANGED ledger
          /\ UNCHANGED faults
       \/ StorageFault /\ UNCHANGED ledger
    /\ UNCHANGED <<now, up, loop, cmd, authentic, nativeVars>>

(* writer_result is recorded and the reply sent (or lost), the loop freed. *)
Reply(d) ==
    /\ Running(d, "reply")
    /\ Goto(d, "done")
    /\ loop' = NoDelivery
    /\ UNCHANGED <<now, up, ledger, cmd, authentic, result, nativeVars, faults>>

(***************************************************************************)
(* The process dies: handlers and threads are gone, the ledger stays.      *)
(* A replacement runs ledger.recover before it subscribes.                 *)
(***************************************************************************)
Crash ==
    /\ up
    /\ up' = FALSE
    /\ loop' = NoDelivery
    /\ pc' = [d \in Deliveries |-> IF pc[d] = "new" THEN "new" ELSE "done"]
    /\ native' = [d \in Deliveries |->
                     IF native[d] \in {"none", "returned", "raised"}
                       THEN native[d] ELSE "stopped"]
    /\ UNCHANGED <<now, ledger, cmd, authentic, result, frames, marked, faults>>

Recovered(rows) ==
    [i \in Ids |-> IF rows[i].state \in ActiveStates THEN FailedRow(rows[i])
                                                   ELSE rows[i]]

Recover ==
    /\ ~up
    /\ up' = TRUE
    /\ ledger' = Pruned(Recovered(ledger))
    /\ UNCHANGED <<now, loop, handlerVars, nativeVars, faults>>

(***************************************************************************)
(* The specification.                                                      *)
(***************************************************************************)
HandlerStep(d) ==
    \/ Lookup(d) \/ LedgerUnavailable(d) \/ VerifyUnexpired(d) \/ ClaimCommand(d)
    \/ Admit(d) \/ RecordFails(d) \/ Resume(d) \/ Complete(d) \/ Settle(d)
    \/ CancelSettle(d) \/ SettleFails(d) \/ Salvage(d) \/ Reply(d)

NativeStep(d) ==
    \/ Connect(d) \/ BeforeWriteVerify(d) \/ MarkStarted(d) \/ MarkStartedFails(d)
    \/ BeforeWriteReverify(d) \/ IssueFrame(d) \/ Acknowledge(d) \/ NativeError(d)

Next ==
    \/ Tick \/ Crash \/ Recover
    \/ \E d \in Deliveries :
          \/ \E c \in Commands : Deliver(d, c) \/ DeliverInvalid(d, c)
          \/ HandlerStep(d) \/ NativeStep(d) \/ Cancel(d)

Spec == Init /\ [][Next]_vars

(* The event loop runs a ready handler, every native call has a timeout,   *)
(* and the deployment restarts a dead writer.  Nothing forces a message to *)
(* arrive, a fault, a cancellation, a crash or the clock.                  *)
Fairness ==
    /\ WF_vars(Recover)
    /\ \A d \in Deliveries : WF_vars(HandlerStep(d)) /\ WF_vars(NativeStep(d))

FairSpec == Spec /\ Fairness
(***************************************************************************)
(* Properties.                                                             *)
(***************************************************************************)
LoopPcs   == {"lookup", "verify", "claim", "admit", "settle", "complete",
              "cancel", "salvage", "reply"}
Pcs       == {"new", "await", "done"} \cup LoopPcs
NativePcs == {"none", "connect", "verify", "mark", "reverify", "frame", "ack",
              "returned", "raised", "stopped"}

(* Every variable has its type: rows, handlers and native writes are only  *)
(* ever in the states that the code distinguishes.                         *)
TypeOK ==
    /\ now \in Nat
    /\ up \in BOOLEAN
    /\ loop \in Deliveries \cup {NoDelivery}
    /\ ledger \in [Ids -> Row]
    /\ pc \in [Deliveries -> Pcs]
    /\ cmd \in [Deliveries -> Commands \cup {NoCommand}]
    /\ authentic \in [Deliveries -> BOOLEAN]
    /\ result \in [Deliveries -> Outcomes]
    /\ native \in [Deliveries -> NativePcs]
    /\ frames \in [Deliveries -> Nat]
    /\ marked \in [Deliveries -> BOOLEAN]
    /\ faults \in Nat

(* The command's ledger row may legitimately have been pruned.             *)
BeyondRetention(c) == now > Deadline[c] + Retention

Wrote(d) == frames[d] > 0

(* A command is written to the device by at most one claim, ever: not by a *)
(* duplicate, not by a retry of a failed attempt, not after a crash and    *)
(* recover, not by an S7 thread that outlived its cancelled handler, and   *)
(* not even after the row has been pruned.                                 *)
AtMostOneInitiation ==
    \A d, e \in Deliveries : Wrote(d) /\ Wrote(e) /\ cmd[d] = cmd[e] => d = e

(* A retained id executes one content only: if two commands that share an  *)
(* id were both written, the row of one of them was past its retention.    *)
OneContentPerRetainedId ==
    \A d, e \in Deliveries :
        /\ Wrote(d) /\ Wrote(e)
        /\ cmd[d] # cmd[e] /\ IdOf[cmd[d]] = IdOf[cmd[e]]
        => BeyondRetention(cmd[d]) \/ BeyondRetention(cmd[e])

(* No native frame without a durable trace: while the command is retained, *)
(* its row says started under that very claim, completed or unknown, so a  *)
(* crash at any point cannot make recover() call the command retryable.    *)
InitiationOnRecord ==
    \A d \in Deliveries : Wrote(d) =>
        \/ /\ RowOf(d).cmd = cmd[d]
           /\ \/ RowOf(d).state = "started" /\ RowOf(d).token = d
              \/ RowOf(d).state \in {"completed", "unknown"}
        \/ BeyondRetention(cmd[d])

(* A reply that says the command was not executed is true of every attempt *)
(* made so far, not only of the replying one, unless the command is so old *)
(* that its row may have been pruned.                                      *)
NotExecutedIsTrue ==
    \A d, e \in Deliveries :
        /\ pc[d] = "reply" /\ authentic[d]
        /\ result[d] \in {"not_executed", "retryable"}
        /\ cmd[e] = cmd[d] /\ Wrote(e)
        => BeyondRetention(cmd[d])

(* A completion, reported first-hand or replayed from the ledger, is       *)
(* backed by an attempt that issued all its frames and was acknowledged.   *)
CompletedIsTrue ==
    \A d \in Deliveries :
        pc[d] = "reply" /\ result[d] = "completed" =>
            \E e \in Deliveries : /\ cmd[e] = cmd[d]
                                  /\ frames[e] = Frames[cmd[d]]
                                  /\ native[e] = "returned"

(* A row that says completed or unknown never changes again: the only way  *)
(* out is being pruned, after its keep_until has passed.                   *)
OutcomeIsFinal ==
    [][\A i \in Ids : ledger[i].state \in {"completed", "unknown"} =>
           ledger'[i] = ledger[i] \/ now > ledger[i].keep]_vars

(* The writer as its callers see it: who initiated a command, the answers  *)
(* of authenticated deliveries, and the commands past their retention.     *)
InitiatedBy == [c \in Commands |-> {d \in Deliveries : Wrote(d) /\ cmd[d] = c}]
OnOffer ==
    [d \in Deliveries |->
        IF pc[d] = "reply" /\ authentic[d]
          THEN [command |-> cmd[d], outcome |-> result[d]] ELSE NoDelivery]
Forgotten == {c \in Commands : BeyondRetention(c)}

Promise == INSTANCE AtMostOnce WITH
    by <- InitiatedBy, offered <- OnOffer, forgotten <- Forgotten,
    NoAnswer <- NoDelivery

(* _handle, the ledger and the native write together implement the         *)
(* promise: at most one initiation of a command, and only true answers,    *)
(* through duplicates, retries, cancellations, crashes and lost storage.   *)
ExecutesAtMostOnce == Promise!Spec

Active(i) == ledger[i].state \in ActiveStates

(* With at most one failing transaction or record, a row never stays       *)
(* preparing or started for ever: the handler, its outer except or the     *)
(* recovery of a restarted writer settles it.                              *)
ClaimsAreSettled == \A i \in Ids : Active(i) ~> ~Active(i)

=============================================================================
