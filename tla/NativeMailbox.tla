--------------------------- MODULE NativeMailbox ---------------------------
(***************************************************************************)
(* The command mailbox of a Modbus or S7 device and the writer's protocol  *)
(* on it (native.py): read the acknowledged sequence, write the payload    *)
(* [operation, value], write a fresh sequence, poll the acknowledgement.   *)
(* The device (_process_controls of the two simulators) looks at the       *)
(* mailbox once per tick and consumes it when the sequence differs from    *)
(* the acknowledged one.                                                   *)
(*                                                                         *)
(* A writer is one native write; its payload is represented by itself.     *)
(* Writers of different commands may target one mailbox.  They overlap     *)
(* where handlers do (or where an S7 thread outlives its handler); with    *)
(* Serialised one starts only when the one before it has ended.  A writer  *)
(* that gave up leaves its frames behind: what was sent stays sent.        *)
(***************************************************************************)
EXTENDS Integers, FiniteSets

CONSTANTS
    Writers,      \* native writes on this mailbox
    Refused,      \* those whose payload the control refuses (status 2, 3, 4)
    MaxSeq,       \* the sequence space is 1..MaxSeq (65535 in the code)
    Serialised,   \* one handler at a time, as the NATS client delivers
    MaxRestarts,  \* bound on device restarts
    NoPayload

ASSUME MailboxAssumption ==
    /\ Refused \subseteq Writers
    /\ MaxSeq \in Nat /\ MaxSeq > 1
    /\ Serialised \in BOOLEAN
    /\ MaxRestarts \in Nat
    /\ NoPayload \notin Writers

VARIABLES
    sequence,     \* mailbox: the sequence register
    payload,      \* mailbox: the operation and value registers
    ack,          \* device: the acknowledged sequence and its status
    stage,           \* where each writer is
    chosen,       \* the sequence each writer has chosen
    committed,    \* history: the writer has issued its sequence frame
    consumed,     \* history: how often the device consumed its payload
    contended,    \* history: another writer had unfinished business meanwhile
    commits,      \* history: sequence frames issued
    uses,         \* history: mailbox contents consumed
    restarts

mailboxVars == <<sequence, payload, ack, stage, chosen, committed, consumed, contended,
          commits, uses, restarts>>

Sequences == 1 .. MaxSeq
Stages == {"idle", "payload", "sequence", "poll", "acked", "rejected", "failed"}

MailboxInit ==
    /\ sequence = 0
    /\ payload = NoPayload
    /\ ack = [sequence |-> 0, status |-> 0]
    /\ stage = [w \in Writers |-> "idle"]
    /\ chosen = [w \in Writers |-> 0]
    /\ committed = [w \in Writers |-> FALSE]
    /\ consumed = [w \in Writers |-> 0]
    /\ contended = [w \in Writers |-> FALSE]
    /\ commits = 0
    /\ uses = 0
    /\ restarts = 0

(* The device has something to consume at its next tick.                   *)
Outstanding == sequence # 0 /\ sequence # ack.sequence

Busy(w) == stage[w] \in {"payload", "sequence", "poll"}

(* Fault injection: a sequence may repeat the acknowledged one.            *)
SequenceRepeating(r, previous) == r

(* _sequence: a random number, moved on if it is the acknowledged one.     *)
Sequence(r, previous) == IF r # previous THEN r ELSE (r % MaxSeq) + 1

(* Connect, read the acknowledgement, choose the sequence.                 *)
ReadAck(w) ==
    /\ stage[w] = "idle"
    /\ Serialised => \A v \in Writers : ~Busy(v)
    /\ \E r \in Sequences : chosen' = [chosen EXCEPT ![w] = Sequence(r, ack.sequence)]
    /\ stage' = [stage EXCEPT ![w] = "payload"]
    /\ contended' = [v \in Writers |->
           \/ contended[v]
           \/ v = w /\ (Outstanding \/ \E u \in Writers \ {w} : Busy(u))
           \/ v # w /\ Busy(v)]
    /\ UNCHANGED <<sequence, payload, ack, committed, consumed, commits, uses,
                   restarts>>

WritePayload(w) ==
    /\ stage[w] = "payload"
    /\ payload' = w
    /\ stage' = [stage EXCEPT ![w] = "sequence"]
    /\ UNCHANGED <<sequence, ack, chosen, committed, consumed, contended,
                   commits, uses, restarts>>

WriteSequence(w) ==
    /\ stage[w] = "sequence"
    /\ sequence' = chosen[w]
    /\ commits' = commits + 1
    /\ committed' = [committed EXCEPT ![w] = TRUE]
    /\ stage' = [stage EXCEPT ![w] = "poll"]
    /\ UNCHANGED <<payload, ack, chosen, consumed, contended, uses, restarts>>

(* _check_ack: the own sequence is acknowledged, status 1 is success and   *)
(* any other status raises.                                                *)
PollAck(w) ==
    /\ stage[w] = "poll" /\ ack.sequence = chosen[w]
    /\ stage' = [stage EXCEPT ![w] = IF ack.status = 1 THEN "acked" ELSE "rejected"]
    /\ UNCHANGED <<sequence, payload, ack, chosen, committed, consumed,
                   contended, commits, uses, restarts>>

(* A lost connection, an error reply, a refusal of before_write, a         *)
(* cancellation or the acknowledgement timeout.                            *)
Fail(w) ==
    /\ Busy(w)
    /\ stage' = [stage EXCEPT ![w] = "failed"]
    /\ UNCHANGED <<sequence, payload, ack, chosen, committed, consumed,
                   contended, commits, uses, restarts>>

(* What control.apply answers: 1 applied; the empty mailbox (operation 0)  *)
(* and the refused payloads get another status.                            *)
Status(p) == IF p \in Writers \ Refused THEN 1 ELSE 2

(* Fault injection: the device applies but forgets to acknowledge refusals. *)
ConsumeAckOnSuccess ==
    /\ Outstanding
    /\ ack' = IF Status(payload) = 1
                THEN [sequence |-> sequence, status |-> 1] ELSE ack
    /\ uses' = uses + 1
    /\ consumed' = [w \in Writers |->
                      IF w = payload THEN consumed[w] + 1 ELSE consumed[w]]
    /\ UNCHANGED <<sequence, payload, stage, chosen, committed, contended,
                   commits, restarts>>

(* _process_controls: consume, apply, journal, acknowledge.                *)
Consume ==
    /\ Outstanding
    /\ ack' = [sequence |-> sequence, status |-> Status(payload)]
    /\ uses' = uses + 1
    /\ consumed' = [w \in Writers |->
                      IF w = payload THEN consumed[w] + 1 ELSE consumed[w]]
    /\ UNCHANGED <<sequence, payload, stage, chosen, committed, contended,
                   commits, restarts>>

(* The device restarts: its registers are zero again; the acknowledgement  *)
(* is restored from the journal, or zero where there is none (an S7        *)
(* device, or Modbus without journal_path).                                *)
Restart ==
    /\ restarts < MaxRestarts
    /\ restarts' = restarts + 1
    /\ sequence' = 0
    /\ payload' = NoPayload
    /\ ack' \in {ack, [sequence |-> 0, status |-> 0]}
    /\ UNCHANGED <<stage, chosen, committed, consumed, contended, commits, uses>>

MailboxNext ==
    \/ Consume \/ Restart
    \/ \E w \in Writers :
         ReadAck(w) \/ WritePayload(w) \/ WriteSequence(w) \/ PollAck(w) \/ Fail(w)

MailboxSpec == MailboxInit /\ [][MailboxNext]_mailboxVars

(***************************************************************************)
(* Properties.                                                             *)
(***************************************************************************)
(* Registers hold sequences and payloads, writers are in the states of     *)
(* native.py.                                                              *)
MailboxTypeOK ==
    /\ sequence \in 0 .. MaxSeq
    /\ payload \in Writers \cup {NoPayload}
    /\ ack \in [sequence : 0 .. MaxSeq, status : 0 .. 2]
    /\ stage \in [Writers -> Stages]
    /\ chosen \in [Writers -> 0 .. MaxSeq]
    /\ committed \in [Writers -> BOOLEAN]
    /\ consumed \in [Writers -> Nat]
    /\ contended \in [Writers -> BOOLEAN]
    /\ commits \in Nat
    /\ uses \in Nat
    /\ restarts \in 0 .. MaxRestarts

(* A writer that had the mailbox to itself reads its own acknowledgement:  *)
(* success means that the device applied exactly its payload, once.        *)
UncontendedAckIsOwn ==
    \A w \in Writers : stage[w] = "acked" /\ ~contended[w] =>
        consumed[w] = 1 /\ w \notin Refused

(* ... and a rejection is never about a payload that was applied.          *)
UncontendedRejectionIsOwn ==
    \A w \in Writers : stage[w] = "rejected" /\ ~contended[w] =>
        w \in Refused \/ consumed[w] = 0

(* The device never consumes more often than sequences were committed: a   *)
(* sequence left in the register is not applied again, not even after a    *)
(* restart of the device.                                                  *)
ConsumedOncePerCommit == uses <= commits

=============================================================================
