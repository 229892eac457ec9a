# Verification of the EIRVAH edge gateway

TLA+ modules that model the command, recovery and telemetry logic of this
repository and the scripts that experiment on it and judge it, TLC
configurations that check them on small instances, and TLAPS proofs of their
safety properties for every value of the constants. Paths below are relative to
the repository (`src/` in `PROJECT.json`); `PROJECT.json` maps every definition
to the lines it models.

## 1. Inventory

### The flow

```
device (OPC UA | Modbus | S7) --poll/subscribe--> data subscriber --NATS-->
  uns-contextualizer-orchestrator (convert, contextualize, publish) --MQTT--> decision agent
decision agent --AMQP--> amqp-actuation-event-subscriber --NATS-->
  actuation-control-orchestrator --request/reply--> actuation-event-validator
                                 --request/reply--> actuation-signal-publisher --> device
  result --AMQP--> decision agent
decision agent --MQTT receipt--> modbus-data-subscriber --registers--> device journal
```

Every service is one asyncio process. Between an `await` and the next a handler
runs alone; S7 calls run in threads (`asyncio.to_thread`) that a cancellation
does not stop. Durable state is in SQLite databases, each used by one service.

### Components

| Component | State | Operations | What is hard | What makes it correct |
| --- | --- | --- | --- | --- |
| **Writer** (`actuation-signal-publisher/service.py`, `ledger.py`) | durable row per command id: digest, state, token, result, keep_until | verify, lookup, claim, mark_started, write, complete, fail, recover, reply | duplicates, cancellation during a native write, storage errors after the write, crash anywhere, expiry between check and frame, retention | a command is written under one claim at most; a reply tells the truth; a row is settled |
| **Native write and mailbox** (`native.py`; `_process_controls` of the Modbus and S7 simulators) | sequence, payload and acknowledgement registers; the device's journal | read ack, write payload, write sequence, poll; consume, restart | the device ticks between two frames; an abandoned write leaves its frames; sequence wrap; a restart forgets registers | an acknowledgement is one's own; a sequence is applied once |
| **Pipeline** (`amqp-actuation-event-subscriber`, `actuation-control-orchestrator`, `actuation-event-validator`; the agent's outbox) | AMQP queue, one run per copy, the agent's row | send, forward, validate, gate, write, publish result, settle | resend each second, redelivery, both timeouts, late answers, lost results | one effect; completed means executed; reject means not written; each run ends |
| **Producer positions and state guard** (`eirvah_controls/recovery.py`, subscribers, `decision_agent_stub/state.py`) | epoch and sequences; high-water marks; latest values in memory | begin_epoch, next, advance, update, restart | two processes on one database, late callbacks, retained and reordered messages, restart of the agent | positions follow source time; acceptance never goes back; nobody is locked out |
| **Durable inspections** (`SourceJournal`, `ConsumerStore`, `InspectionStream`, receipts) | the device's journal and outbox head; rows with commands; receipt registers | observe, commit, head, ack; receive, ready, sent, settle; verify and write a receipt | loss and repetition in both directions, crash between store and receipt, capacity, wrap-around, purge of old rows | nothing let go unstored, no gaps, one command per inspection and per bottle, the tick loop lives, the head moves on |
| **Agent rules and rejection tracking** (`decision_agent_stub/inspection.py`, `service.py`) | pending rejections, counters, remembered ids | update, feedback, result, expire | feedback before the result, late results, counter saturation, capacity | confirmed means executed; one command per inspection; one outcome, in the end |
| **Production mode** (`ProductionModeRule`; `MotorControl`, `RegisterBlock`; the warmer of the OPC UA simulator) | motor control and registers, mode and latest observation, node and value of the setpoint | apply, tick, update, reconcile | late and repeated samples, a device that writes its node back on each tick, requests that are not repeated | the mode is that of the newest speed; the recipe follows |
| **Telemetry pipeline** (subscribers, `uns-contextualizer-orchestrator`, `data-converter`, `uns-auto-contextualizer`, `mqtt-uns-publisher`, `eirvah_bus/request_reply.py`) | positions of the adapters, one run at a time, one MQTT connection and its task | sample, convert, contextualize, publish, dead-letter, reconnect | stage failures and timeouts, late replies, crash of the orchestrator, connections that die unnoticed | a success was published; the namespace is in order; each reading settles; a dead connection is replaced |
| **Execution journal and capture** (`eirvah_observability/execution.py`, probes of `e0_capture.py`) | bounded journal, checkpoint, two probes | append, checkpoint, restart, probe, check | records under way at either fence, overflow, restart, drifting clocks | valid fences enclose every record; a calibrated time is within its bound |
| **Conformance verdicts** (`conformance.py`) | the records of a command | decide, admit, initiate, settle; judge | missing records, times known within bounds | pass and fail are both true |
| **Experiment harness** (`harness.py`, `load_inject.py`, `disturbance.py`) | forwards, scraper, child process, deleted pods, result files | open, scrape, disturb, delete, inject, unwind, report | failure or interruption at any await, unwinding in reverse order | ok is earned; nothing keeps running; the run ends unless a kubectl call does not |
| **Live campaigns** (`fault_case.py`, `native_fault_proxy.py`, `fault_checks.py`, `recovery_case.py`, `e0_capture.py`) | parts of the deployment changed, originals saved, evidence, verdict | change, undo, case, restore, report | a call that fails after it took effect, interrupts in the finally block, late results | restored means restored; a pass is earned; decisions stay paused |
| **Device controls, process values** (`eirvah_controls/__init__.py`, simulators) | motor, valve, reject counters | apply, tick | counter saturation | motor in `ProductionLine`, reject counter in `RejectionTracking`; valve and random walks not modelled |
| **Contracts** | – | schema and binding checks | – | accept/refuse outcomes are guards of the modules that use them |
| **Other scripts, deploy, configs** | – | offline checks and statistics | – | not modelled |

`PROJECT.json` lists the hazards of this code, each at its line, with the
properties that cover it.

## 2. Modules

| Module | Extends | Role |
| --- | --- | --- |
| `CommandWriter` | – | the writer: handler, ledger, native write of a claim |
| `NativeMailbox` | – | the register protocol below a native write |
| `PositionGuard` | – | positions from adapter to agent |
| `DurableInspection` | – | inspections from the device's journal to settled commands and receipts (device, adapter and agent composed) |
| `ActuationPipeline` | – | agent outbox, bridge, orchestrator and writer ledger composed, for one command |
| `RejectionTracking` | – | the agent's in-memory rule and tracker, with the device's reject counter |
| `ProductionLine` | – | conveyor, production-mode rule and warmer composed in a loop |
| `TelemetryPipeline` | – | adapters, orchestrator, stage workers and MQTT publisher composed |
| `AtMostOnce` | – | abstract: what the writer promises its callers; implemented by `CommandWriter` (`Promise` in that module is the refinement mapping) |
| `EvidenceCapture` | – | a process's journal and the fenced, calibrated capture of it |
| `ConformanceVerdicts` | – | the judge of a command's records, against components that may do anything |
| `ExperimentHarness` | – | a run of experiment a, b or c |
| `CommandFaults` | – | one case of the command-fault campaign: script, proxy, writer, ingress and device |
| `LiveCampaign` | `CommandFaults` | the four live scripts: changes, cases, restoration, verdict |
| `CommandWriterProofs` | `CommandWriter`, `NativeMailbox`, `TLAPS` | inductive invariants and theorems of the writer and of the mailbox below it |
| `RecoveryProofs` | `DurableInspection`, `PositionGuard`, `TLAPS` | the same for what `eirvah_controls/recovery.py` keeps: inspections and positions |
| `DecisionAgentProofs` | `RejectionTracking`, `ProductionLine`, `TLAPS` | for the agent's two rules |
| `EvidenceProofs` | `EvidenceCapture`, `ConformanceVerdicts`, `TLAPS` | for captures and for the judge |
| `ActuationPipelineProofs`, `TelemetryPipelineProofs` | their component, `TLAPS` | for the two pipelines |
| `HarnessProofs`, `CampaignProofs` | `ExperimentHarness`, `LiveCampaign`; `TLAPS` | for the scripts that run experiments |
| `MC*` | its component | model values and instance definitions for the runs |

`ActuationPipeline` is the composition: its writer is what `CommandWriter`
establishes (one row decides whether a request claims or is answered; a started
claim ends completed or unknown), its agent is the outbox of
`DurableInspection`.

Operators commented "Fault injection" belong to no specification: each is a
plausible mistake in the code which, put in place of the definition it varies,
makes TLC report the property it is listed with (`mutants` in `PROJECT.json`).

### State and actions against the code

**CommandWriter.** `ledger` is the `commands` table; `pc`, `result` and `native`
are the handler's program counter, its `WriteResult` and its native write; `loop`
is the delivery that holds the event loop. One action per piece of `_handle`
between two points where something else can happen: `Lookup`,
`VerifyUnexpired`, `ClaimCommand`, `Admit`, `Connect`, `BeforeWriteVerify`,
`MarkStarted`, `BeforeWriteReverify`, `IssueFrame`, `Acknowledge`, `Complete`,
`Settle`, `Cancel`, `Salvage`, `Reply`. Every transaction can fail
(`LedgerUnavailable`, `MarkStartedFails`, `SettleFails`, `RecordFails`). The
digest binds the whole command, so a digest is represented by the command; a
fresh token by the delivery that obtained it.
*Over-approximation:* nats-py runs the callbacks of one subscription one after
the other, so that handlers overlap less than in the model (they do overlap
with S7 threads that survive their handler); native steps do not wait for the
event loop. *Assumption:* the wall clock does not go back.
After retention a duplicate of an executed command is answered `not_executed`
(it is expired by then); in `AtMostOnce` the command is forgotten by then.

**NativeMailbox.** A writer is one native write; its payload is represented by
itself. `chosen` is the random sequence after `_sequence` has avoided the
acknowledged one. `Restart` keeps the acknowledgement (journal) or forgets it
(S7, Modbus without a journal). `contended` marks writers that overlapped with
another's unfinished business: only the others can rely on what they read. Its
specification is `MailboxSpec`, as `CommandWriterProofs` extends it together
with `CommandWriter`.

**PositionGuard.** `held` are values read from the device and not yet stamped,
`published` everything that may still arrive, in any order, any number of
times. `Polled` selects poll loops or subscription callbacks, `Positioned`
durable positions or the timestamp-only mode. Poll loops stamp with the time of
the poll, callbacks with the source time of the value. Its specification is
`PositionSpec`; `RecoveryProofs` extends it with `DurableInspection`.

**DurableInspection.** Inspections are numbered; their identity (session,
sequence) is kept beside the number and proved to be unique. Ages stand for
wall-clock time: future, fresh, old (past the freshness limit), retired (past a
day). `wire` and `receipts` are sets of messages that may be delivered again
until they are lost. The session is unbounded (2^64 in the code). The agent's
in-memory `RejectionTracker`, fed by the same handler, is in `RejectionTracking`.

**ActuationPipeline.** A run is one execution of `run_actuation_pipeline`;
`config` is the validator's verdict on the command and ALLOW_WRITES, both fixed
while the services run. `Forward` leaves the copy in the queue when the
acknowledgement is lost; `Emit` may lose the result. Every wait can end in
`ValidateFails` or `WriteFails`, whatever the validator and writer are doing.
`initiated` are runs whose request was marked as started, `effects` those the
device has executed, perhaps long after everybody gave up. The command's
content does not vary, so the writer's `conflict` outcome does not occur; it is
in `CommandWriter`. A row purged by the agent a day later is not removed: settle
ignores results without a row.

**RejectionTracking.** One life of the agent without the durable store:
`InspectionRule` (`seen`, `heads`), `RejectionTracker` (`pending`,
`acknowledged`, `feedback`) and the conditions `observation` puts before them
(`Submittable`). Every observation first expires overdue commands, so each
action reports them. `_bottles` is written and purged together with `_seen` and
is read off it; `_count` equals the tracker's count feedback. `Sample` is the
adapter's reading of the device, `Feedback` its arrival, one topic at a time,
if at all; `RejectManually` is any other user of the device. An approval is
delivered only for an executed command, which is `CompletedMeansExecuted` of
the pipeline; any other result may come at any time, also twice.
A passed inspection is remembered like a failed one and suppresses a later
failed one of its bottle, as in the code.

**ProductionLine.** `Command` and `TickConveyor` are the conveyor's two sources
of change (`MotorControl.apply`, `RegisterBlock.tick` with a possible jam, the
hold when the inspection outbox is full). A sample's index stands for its source
time; `Observe(i)` delivers any sample at any time, as often as it likes.
`Submit` may fail, and `Refuse` stands for a validator or writer that turns the
request down; `lost` remembers either, because the agent does not ask again.
`TickOpcua` is `_reconcile_setpoint` followed by the write of the node. The
device's tick is one step: a client's write between the read and the write of
the node inside one tick is not modelled. Its specification is `LineSpec`
(`LineInit`, `LineNext`): the names differ from `RejectionTracking`'s because
one proof module extends both.

**TelemetryPipeline.** `run` is the orchestrator's single `run_pipeline` call;
`work` and `inbox` are NATS requests and replies, at most one reply being
expected at a time; a reply to a request that has timed out is lost with its
inbox. After a failed publication on a live connection no late acceptance by the
broker is modelled; a reading is well formed, so that payloads the orchestrator
cannot parse do not occur. `handling` is the publication the worker awaits and `mqtt` its
connection task. A reading stands for its payload: conversion and
contextualization are modelled by their outcome (converted, dropped, failed)
for the node and quality of the reading.

**EvidenceCapture.** `now` is the host's monotonic clock; the remote clock and
the host's wall clock drift against it in the directions `Rates` names. A
probe's four clock readings and its read of `current.json` are separate steps;
`log` is the history of all records with the state of the capture around them.

**ConformanceVerdicts.** The components are unconstrained on purpose: the
properties are about the judge, which sees any subset of the records. `clock`
is whether validator and writer share a clock domain and whether their records
are calibrated; `Write` gives each calibrated record an error of its own within
`Bound` (`calibrate_record` works record by record). Its specification is
`RecordSpec`, since `EvidenceProofs` extends it together with `EvidenceCapture`.

**ExperimentHarness.** `pc` is the `await` the run stands at, `raised` the
exception on its way out; unwinding closes the scraper, the child and the
forwards in reverse order. One interruption per run. A `kubectl delete` or
`kubectl get` is a process of its own that the harness awaits without a limit
(`delete`, `query`): it may never answer, and the deadline of the recovery
(`overdue`) is looked at between two queries only. An interruption leaves such
a process to itself. A dry run starts nothing and is left out.

**CommandFaults, LiveCampaign.** A campaign is a sequence of operations (save an
original, change or undo a part, run a case, end a stage) read off the script;
`Fail` is an exception or interrupt before or after the call under way took
effect, and the finally block follows in the script's order (`RestoreOrder`).
Inside a case the script, ingress, writer, proxy and device interleave;
`effects` and `inits` are what really happened, `entry` what the script
captured. The proxy may fail to reach the mailbox and its connection may fail
or time out at any stage (`NativeFailure`); `slow` remembers that, like every
timeout that runs out beside the planned fault. The evidence of
`recovery_case.py` and `e0_capture.py` is opaque: it agrees with the expectation
or not. An interrupted cluster call has landed or
has been given up before the restoring call on the same part. The parts are
those the scripts note an original of (`Parts`); what a local case sends to the
device it observes, a setpoint, is not among them and is not set back.

## 3. Runs

| Run | Instance | What it shows |
| --- | --- | --- |
| `writer` | 2 deliveries, 2 contents of one id (one threaded), retention 1, time 0–4, 1 fault | one claim initiates at most, a retained id has one content, completions are true, the writer implements `AtMostOnce`, every claim is settled |
| `mailbox` | 3 writers (one refused), 3 sequence numbers, 1 restart | an uncontended answer is one's own; a sequence is consumed once |
| `positions` | 2 processes with callbacks, 1 node, time 0–2, 2 epochs | positions identify observations in source order; the newest is not refused; acceptance only moves forward |
| `inspection` | 2 failed inspections of one bottle, 1 restart or failed write | nothing lost or skipped, one command per inspection and bottle, completed stays |
| `pipeline` | 2 runs, 2 publications, 1 restart of any service | one effect, no false completion or rejection, each run ends |
| `rejections` | 3 failed and 1 passed inspection of 2 bottles with conflicting sequences, room for 1 pending command, 2 commands, the count saturates at 2, time 0–5 | no false confirmation, one command per inspection, nothing suppressed without a command, everything settled |
| `telemetry` | 1 OPC UA node that drops bad quality, 2 S7 signals of which one has no context, 2 readings, 3 faults | successes are published, in position order; every reading settles; a lost connection is replaced |
| `production` | speeds in, between and above the bands, 3 samples, 1 fault | the mode follows the newest speed, the recipe follows the mode |
| `harness` | experiments a, b and c; 2 requests, 1 pending; 2 series; 2 polls | ok is earned, nothing left running, the run ends unless it stays with a kubectl call |
| `campaign` | all four scripts, all six fault cases in the profile's order | restored is true, a pass is earned, decisions paused, faults end as the checks expect |
| `capture` | journal of 1 line, 2 records, 2 instances, two ticks, clocks drifting apart either way | valid fences miss nothing; calibrated times are sound |
| `verdicts` | 2 contents (1 permitted), 4 records at 3 times, deadline and retention between the second and the third; one node, or two with every calibrated time off by the bound either way | pass and fail are true |

*Bounds.* They are the smallest at which each hazard occurs: a duplicate and a
conflicting command for the writer; retention that ends within the run;
sequences that wrap; two generations and two processes; a second inspection of
a bottle while, and after, the first has a command; a redelivered copy that
meets the claim of the first; a request that times out while its worker still
works, a connection lost before and after the broker accepted; a sample that
arrives after a newer one; a journal that overflows and a process that restarts
inside a capture; an approval, an admission and two initiations, or a write and
its repetition past retention. The campaign's programs and cases are the
scripts' own, not reduced. Safety beyond the bounds is the theorems' part where
there are theorems. `CHECK_DEADLOCK FALSE` where a service that receives nothing
more, or a run at its bounds, may stop; `harness`, `campaign` and `capture`
check for deadlock.

*Fairness.* `CommandWriter`: the event loop runs ready handlers, each native
call has a timeout, Kubernetes restarts a dead writer (WF on `HandlerStep`,
`NativeStep`, `Recover`); messages, faults, cancellations and crashes are never
forced. `ActuationPipeline`: the two `timeout_s` end every wait of a run (WF on
`RunStep`), results published are consumed. That a pending command is ever
delivered is not assumed: NATS may lose every copy. `RejectionTracking`: time
passes and some polled topic keeps sending (each message calls `expire`);
inspections, results, feedback and execution are not forced.
`TelemetryPipeline`: the orchestrator and the workers run, a request nobody
answers times out, the connection task retries, the MQTT client notices a dead
connection; readings, losses and crashes are not forced. `ProductionLine`: both
devices tick, the newest sample arrives, requests on their way are carried out
(a refusal is a fault and sets `lost`). `ExperimentHarness`: the awaits of the
harness other than those of `kubectl delete` and `kubectl get` have a timeout or
a process that ends, the scraper's task runs and time passes. Those two calls
are awaited without a limit (`harness.py:425`, `harness.py:444`); their answers
(`Kubectl`) are not forced, and `RunEnds` says that a run ends or stays with
one of them.

## 4. Proofs

All constants are arbitrary (any commands, deliveries, processes, inspections,
runs, speeds, bounds) under the `ASSUME`s of the component modules, which give
constants their types, say that capacities are positive and that the two speed
bands do not overlap, and, in `RejectionTracking`, that two messages of one
inspection identity are not stamped further apart than the grace period (the
device stamps an inspection once), in `TelemetryPipeline`, that the OPC UA node
list and the S7 unit map name different signals, in `EvidenceCapture`, that a
clock drifts in one direction and slower than it runs, and in
`ConformanceVerdicts`, that a record's calibrated time errs by at most `Bound`, which is what
`CalibrationIsSound` establishes of a capture.

| Module | Theorems | Inductive invariant |
| --- | --- | --- |
| `CommandWriterProofs` | `TypeCorrect`, `WritesAtMostOnce`, `IdsBindContent`, `FramesOnRecord`, `DenialsAreTrue`, `CompletionsAreTrue`, `OutcomesAreFinal`, `ImplementsPromise` | who holds the loop (`LoopInv`), what a delivery has (`DeliveryInv`), what a row says of its token (`RowInv`), marks before frames (`MarkInv`, `FrameInv`), no mark without an unexpired deadline and a row kept beyond it (`FenceInv`), one mark per command (`OneMarkInv`), replies (`DenialInv`, `CompletionInv`) |
| `CommandWriterProofs` (mailbox) | `MailboxTypeCorrect`, `AppliedOncePerCommit`, `SuccessIsOwn`, `RejectionIsOwn` | what is outstanding was committed and not used (`CommitInv`); an uncontended writer is alone and its sequence is unacknowledged until its own payload is consumed (`AloneInv`); whoever commits after it has replaced its payload (`LeftInv`) |
| `RecoveryProofs` (positions) | `PositionTypeCorrect`, `PositionsAreSound`, `MemoryAgreesWithStore`, `NobodyLockedOut`, `AcceptanceMovesForward` | generations belong to one process (`OwnInv`, `HeldInv`), what a generation still holds is no older than what it or an earlier one published (`HeldIsLater`), marks are positions of published observations (`PositionInv`) |
| `RecoveryProofs` (inspections) | `NothingIsLost`, `NothingIsSkipped`, `NoSecondCommand`, `IdentitiesAreUnique`, `DeviceKeepsTicking`, `OneCommandPerBottle`, `CompletionIsFinal` | whatever is on its way, shown or receipted was created, and stored where it has to be (`CreatedInv`, `StoreInv`); everything before the head is stored (`OrderInv`, from `HeadIsOldest`); a command is only made for what was never stored (`CommandInv`); sessions only grow (`IdentityInv`) |
| `ActuationPipelineProofs` | `TypeCorrect`, `CompletionsAreExecuted`, `AtMostOneEffect`, `RejectionsAreTrue`, `NothingPassesTheGate` | a run asks once and decides once (`RunInv`), the claim is the request being worked on (`ClaimInv`), from the first native write on the row blocks a second until the deadline is long past (`LedgerInv`), an answer is true and final (`ReplyInv`) |
| `DecisionAgentProofs` | `ConfirmationsAreTrue`, `OneRequest`, `NothingSuppressed`, `ModeIsNewest` | a command was made for a fresh inspection (`FreshInv`), its inspection is remembered or the command is older than `MaxAge + Grace` (`MemoryInv`), approvals are held for executed commands (`ApprovalInv`); the mode rule's latest observation is the newest sample shown and its mode that sample's band (`ModeInv`) |
| `TelemetryPipelineProofs` | `TypeCorrect`, `SuccessesArePublished`, `PublicationsInOrder`, `PublishedOnce` | a confirmation of the publish worker is for what the broker has (`ConfirmInv`); every reading that may still be published stands in one line - published, in the worker's hand, queued at it, running, not yet taken - in which positions ascend (`LineInv`, `QueueInv`) and are behind what the adapter has issued (`IssuedInv`) |
| `EvidenceProofs` | `TypeCorrect`, `CapturesAreClosed`, `CalibrationsAreSound`, `JudgedRecords`, `FailedIsTrue`, `PassedIsTrue` | the journal holds the running instance's lines, `current.json` counts finished ones (`JournalInv`, `LogInv`); what the capture began and checkpointed lies between the fences' sequence numbers and is among the end probe's rows (`FenceInv`, `CapturedInv`); every record since the start probe has an offset and a slew between what the start probe saw and what the clocks show now (`ReadingInv`, `AnchorInv`), or what the end probe saw (`RowInv`). Of the judge's records: they follow each other in time and their calibrated times are within `Bound` (`TimesInv`); an approval issues its own ticket and the writer's tickets were issued earlier (`TicketInv`) |
| `HarnessProofs` | `TypeCorrect`, `OksAreEarned`, `NothingKeepsRunning` | no exception is on its way inside the body (`RaisedInv`); forwards are opened one at a time and only the experiment's own (`OpeningInv`, `ForwardInv`); the child lives between its start and its reaping (`ChildInv`); the summary is written when nothing is pending (`GeneratorInv`); without an issue the last poll has every series, and the scraper has ended when the forwards close (`ScraperInv`); an undisturbed run of b has deleted a pod of every label (`PodInv`) |
| `CampaignProofs` | `TypeCorrect`, `RecordsOfRestorationAreTrue`, `PassesAreEarned`, `DecisionsStayPaused`, `FaultsAreContained` | what is changed has its original noted (`NotedInv`) and is still ahead of the finally block unless a restoration failed (`AheadInv`); decisions are paused first (`PausedInv`); a wrong case is contradicted (`WrongInv`). Of a case: row, connection, mailbox and effects move together (`StageInv`); a connection has the case's mode, which is lifted only when the row of a lossy case is settled (`ModeInv`, `LossyInv`, `HeldInv`, `UnknownInv`); a caller that waits is owed exactly one result (`OwedInv`); the captured journals hold every initiation once (`JournalInv`) |

The properties are not inductive by themselves. `AtMostOneInitiation`, for
instance, fails from a state in which a command is marked but its row has been
pruned before the deadline; `FenceInv` excludes it because `claim` keeps the row
until `max(now, deadline) + retention` and nothing is marked after the deadline.
`RejectIsTrue` needs that the writer's request of a rejected run is either
never sent or already answered, which is why a write timeout has to be
`unknown` and a validation timeout may be a rejection.
`OneRequestPerInspection` needs that what the rule forgets is too old to be
admitted again: `MemoryInv` bounds the age of a forgotten command, and
`IdentityAssumption` carries that over to other messages of its identity.
`PublishedInOrder` holds although a timed-out publication may still happen,
because the publish worker serves its queue in order: `LineInv` keeps the
abandoned request ahead of everything the orchestrator sends later.
`CalibrationIsSound` compares a computed time with a wall clock the record could
not see; the invariant carries the unknown offset and slew of the record's
moment (an existential in `Dated` and `RowDated`), bounded on one side by the
start probe and on the other by the end probe, the sides depending on the
directions of drift. The bound on `recorded_at` is then arithmetic (`Middle`):
truncating to microseconds costs less than the granule the uncertainty adds.
`PassIsTrue` and `FailIsTrue` follow, for any subset of any number of records,
from one lemma for each decision of the judge (`BeforeIsTrue`, `WindowIsTrue`,
`OnTimeIsTrue`, `AdmissionIsTrue`, ...). `TimesInv` is what makes an order the
judge derives a true one; `TicketInv` makes the approval it finds for a ticket
the only one and earlier than the ticket's use.
`OkIsEarned` is read from evidence that is complete at different times: the
summary of the load process before the child ends, the pods before the run
cools down, the last poll after that. The invariant says of each from which
step on it no longer changes.
`RestoredIsTrue` and `PassIsEarned` rest on the order of the scripts, which
`Scripts` establishes operation by operation (for a command-fault campaign of
any length, `FaultOps`): every `change` has its original noted before it and
its part in the finally block. Without `NotedInv` a restoration that is skipped
because the original was never read would leave a part changed and the record
clean. `DecisionsPaused` follows because the agent is changed first and
restored last, when by `AheadInv` nothing else is left.
`FaultsEndAsExpected` is hardest for `before_write_disconnect`: only when a
replay has been answered can the row no longer be `retryable`, and an answer to
the replay must not be the late one to the first delivery. `OwedInv` counts
deliveries, awaited writers and results under way: they are one while the
caller waits and none otherwise, as long as no timeout runs out and no
connection fails. For the three
cases that end `unknown` the argument is that the fault is lifted by a script
which has seen the row settle, so that a settled row is never claimed again.

*Refinement.* `ImplementsPromise` proves that every step of `CommandWriter` is a
step of `AtMostOnce` or a stutter: the first frame of a delivery is `Initiate`
(no other delivery of the command has issued one, by `OneMarkInv`), entering or
leaving the reply is `Answer` (true by `DenialInv` and `CompletionInv`), and the
clock passing a retention is `Forget`.

*Only model-checked:* liveness (`ClaimsAreSettled`, `RunsEnd`,
`EveryRejectionSettles`, `EveryReadingSettles`, `LostConnectionReplaced`,
`RecipeFollowsSpeed`, `RunEnds`), which TLAPS does not handle with fairness.
Every invariant and every other action property of the runs is a theorem, and
the refinement of `AtMostOnce` is proved as well as checked.

## 5. Remarks

What modelling brought up and a maintainer may want to know. None of it is a
claim of a run.

*Writer and devices.*
- When completing and the `fail()` after it both raise, the row stays `started`;
  duplicates are told `pending` although no handler runs, until the writer
  restarts (`docs/experiments/command-recovery.md:12`).
- After an abandoned write that had issued its sequence, the next write's payload
  can be consumed under the old sequence, before its own (comment at
  `native.py:99`). This is the contention `UncontendedAckIsOwn` excludes.
- `settle` protects `completed` only: the rejection of another copy of a command
  (a validation timeout) turns a recorded `unknown` into `refused` although a
  native write may be under way (`recovery.py:369`,
  `docs/experiments/conformance.md:52`).

*Telemetry.* A publication that times out at the orchestrator may still reach
the broker: the reading is then both dead-lettered and published.
`PublishedInOrder` holds all the same, as does `SuccessIsPublished`.

*Scripts.*
- A port forward interrupted in its first half second is left behind by the
  harness; SIGTERM also cancels the scraper's task. `NothingLeftRunning` speaks
  of the forwards and of the disturbance or load process: a `kubectl get` or
  `kubectl delete` under way is left to itself, and a child whose `_stop_process`
  is interrupted has had its SIGTERM and nothing more.
- `kubectl delete pod` waits until the pod is gone and is awaited without a limit
  (`harness.py:441-444`), as is each `kubectl get pod` (`harness.py:425`; the
  deadline is tested between queries): a pod that cannot be removed, or an API
  server that does not answer, holds experiment b for as long as it lasts.
- C07 admission can pass with an ambiguous order of its records although the
  reason says the order is unknown (`conformance.py:580-597`).
- Both deliveries of a fault case carry one correlation id, so a late first result
  can be taken for the replay's; `FaultsEndAsExpected` is therefore about cases
  in which no timeout ran out and no connection failed beside the planned fault.
- `fault_case.py:562` keeps decisions paused until writer and controls return; the
  agent is resumed also when their restoration failed, which is then on record.
- If `delayed_expired_command` fails while the ingress is scaled to zero, the
  controls, which travel through it, cannot be restored before it; the
  campaign reports `restored: false`.
- An interrupt in the replica loop of `recovery_case.py`, or in a restore of
  `e0_capture.py`, leaves the finally block; later parts are not restored and
  nothing is recorded as restored.

## 6. Not modelled

- *Liveness of durable inspections*: `DurableInspection` states no fairness, so that
  the head is eventually received is not checked; safety is proved. The
  only other hazard without a property is a command copy lost between the
  bridge and the orchestrator, which nothing but resending repairs.
- *Timestamp-only mode* of the agent's guard: an action of `PositionGuard`
  (`Positioned = FALSE`), without a run of its own.
- `ValveControl` and the process values of the simulators: sequential, without a
  protocol.
- Contracts and bindings: pure checks of message data; their outcomes are guards.
- Scenario, interoperability, assurance, data-conformance, state-event,
  recovery-check and statistics scripts: offline and sequential, their results
  depend on the contents of captured files.
- Bus client, metrics, health and logging wrappers, deployment and configuration.

Worth doing next: fairness and a liveness run for `DurableInspection`, and
`CommandFaults`' writer derived from `AtMostOnce`.
