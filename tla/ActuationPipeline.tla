------------------------- MODULE ActuationPipeline -------------------------
(***************************************************************************)
(* One command from the decision agent's outbox to the device and back.    *)
(* The agent publishes it over AMQP, again every second until a result     *)
(* settles it; amqp-actuation-event-subscriber forwards each copy to NATS; *)
(* actuation-control-orchestrator runs its pipeline for every copy that    *)
(* arrives: validate (actuation-event-validator), the write gate, write    *)
(* (actuation-signal-publisher), publish a result.  Both stages are NATS   *)
(* request/reply with a timeout; the writer may be at work when the        *)
(* pipeline has long given up.                                             *)
(*                                                                         *)
(* A run is one execution of run_actuation_pipeline.  The writer is        *)
(* reduced to what CommandWriter establishes of it: its ledger row decides *)
(* whether a write request starts an attempt or is answered from the row.  *)
(* The dead-letter copy of a rejection has no reader and is left out.      *)
(***************************************************************************)
EXTENDS Integers, FiniteSets

CONSTANTS
    Runs,         \* executions of the pipeline
    MaxSends,     \* bound on the agent's publications
    MaxRestarts,  \* bound on restarts of agent, orchestrator and writer
    NoRun

ASSUME PipelineAssumption ==
    /\ MaxSends \in Nat /\ MaxRestarts \in Nat
    /\ NoRun \notin Runs

VARIABLES
    config,       \* the policy admits the command; ALLOW_WRITES is set
    time,         \* valid, expired (deadline passed), retired (a day later)
    row,          \* agent, durable: disposition of the command
    sends,        \* agent: publications so far
    queue,        \* copies in the AMQP command queue
    pc,           \* where each run is
    decision,     \* the result it publishes
    request,      \* its write request
    reply,        \* the writer's answer to it
    ledger,       \* writer, durable: state of the command's row
    owner,        \* the run whose request holds the claim
    initiated,    \* history: runs whose request began a native write
    effects,      \* history: those whose write the device has executed
    restarts

agentVars  == <<row, sends>>
runVars    == <<pc, decision>>
writerVars == <<request, reply, ledger, owner, initiated, effects>>
vars == <<config, time, agentVars, queue, runVars, writerVars, restarts>>

Decisions == {"approve", "reject", "pending", "unknown"}

Init ==
    /\ config \in [permitted : BOOLEAN, allowWrites : BOOLEAN]
    /\ time = "valid"
    /\ row = "pending" /\ sends = 0 /\ queue = 0
    /\ pc = [r \in Runs |-> "idle"] /\ decision = [r \in Runs |-> "none"]
    /\ request = [r \in Runs |-> "none"] /\ reply = [r \in Runs |-> "none"]
    /\ ledger = "absent" /\ owner = NoRun
    /\ initiated = {} /\ effects = {}
    /\ restarts = 0

(* The deadline passes, then the retention of ledger and store.            *)
Tick ==
    /\ \/ time = "valid" /\ time' = "expired"
       \/ time = "expired" /\ time' = "retired"
    /\ UNCHANGED <<config, agentVars, queue, runVars, writerVars, restarts>>

Restarting == restarts < MaxRestarts /\ restarts' = restarts + 1

(***************************************************************************)
(* Agent and bridge.                                                       *)
(***************************************************************************)
(* _send_pending publishes a pending command, whatever its deadline.       *)
Send ==
    /\ row = "pending" /\ sends < MaxSends
    /\ sends' = sends + 1 /\ queue' = queue + 1
    /\ UNCHANGED <<config, time, row, runVars, writerVars, restarts>>

(* ready gives up on a command that has been pending for a day.            *)
GiveUp ==
    /\ row = "pending" /\ time = "retired"
    /\ row' = "unknown"
    /\ UNCHANGED <<config, time, sends, queue, runVars, writerVars, restarts>>

(* settle: what a result makes of the row.                                 *)
Settled(d) ==
    IF row = "completed" THEN row
    ELSE CASE d = "approve" -> "completed" [] d = "reject" -> "refused"
           [] d = "unknown" -> "unknown"   [] OTHER -> row

Result(r) ==
    /\ pc[r] = "published"
    /\ row' = Settled(decision[r])
    /\ pc' = [pc EXCEPT ![r] = "done"]
    /\ UNCHANGED <<config, time, sends, queue, decision, writerVars, restarts>>

(* A restart of the agent deletes its exclusive result queue.              *)
RestartAgent ==
    /\ Restarting
    /\ pc' = [r \in Runs |-> IF pc[r] = "published" THEN "done" ELSE pc[r]]
    /\ UNCHANGED <<config, time, agentVars, queue, decision, writerVars>>

(* The bridge publishes on NATS, then acknowledges; without the            *)
(* acknowledgement the queue delivers the copy again.                      *)
Forward(r) ==
    /\ queue > 0 /\ pc[r] = "idle"
    /\ pc' = [pc EXCEPT ![r] = "validate"]
    /\ queue' \in {queue, queue - 1}
    /\ UNCHANGED <<config, time, agentVars, decision, writerVars, restarts>>

(* NATS delivers at most once: nobody is subscribed, or the run is lost.   *)
LoseIngress ==
    /\ queue > 0
    /\ queue' = queue - 1
    /\ UNCHANGED <<config, time, agentVars, runVars, writerVars, restarts>>

(***************************************************************************)
(* Orchestrator: run_actuation_pipeline.                                   *)
(***************************************************************************)
Decide(r, d) ==
    /\ decision' = [decision EXCEPT ![r] = d]
    /\ pc' = [pc EXCEPT ![r] = "emit"]
    /\ UNCHANGED <<config, time, agentVars, queue, ledger, owner, initiated, effects,
                   restarts>>

(* The validator refuses, or approves while writes are disabled.           *)
Refuse(r) ==
    /\ pc[r] = "validate" /\ ~(config.permitted /\ config.allowWrites)
    /\ Decide(r, "reject") /\ UNCHANGED <<request, reply>>

(* No valid validation reply: timeout, transport error, malformed reply or *)
(* missing approval.                                                       *)
ValidateFails(r) ==
    /\ pc[r] = "validate"
    /\ Decide(r, "reject") /\ UNCHANGED <<request, reply>>

(* Approved, and writes are enabled: the write request is sent.            *)
Approve(r) ==
    /\ pc[r] = "validate" /\ config.permitted /\ config.allowWrites
    /\ pc' = [pc EXCEPT ![r] = "write"]
    /\ request' = [request EXCEPT ![r] = "sent"]
    /\ UNCHANGED <<config, time, agentVars, queue, decision, reply, ledger, owner,
                   initiated, effects, restarts>>

(* Fault injection: a write timeout is taken for a refusal.                *)
WriteFailsRejected(r) ==
    /\ pc[r] = "write"
    /\ Decide(r, "reject") /\ UNCHANGED <<request, reply>>

(* Fault injection: without a reply the run waits.                         *)
WriteFailsNever(r) ==
    /\ pc[r] = "write" /\ request[r] = "replied"
    /\ Decide(r, "unknown") /\ UNCHANGED <<request, reply>>

(* No valid writer reply: timeout, transport error or malformed reply.     *)
WriteFails(r) ==
    /\ pc[r] = "write"
    /\ Decide(r, "unknown") /\ UNCHANGED <<request, reply>>

(* Fault injection: an unsettled outcome is taken for an approval.         *)
DecisionOfOptimistic(outcome) ==
    IF outcome = "not_executed" THEN "reject" ELSE "approve"

DecisionOf(outcome) ==
    CASE outcome = "completed"    -> "approve"
      [] outcome = "not_executed" -> "reject"
      [] OTHER                    -> outcome

WriteReplies(r) ==
    /\ pc[r] = "write" /\ request[r] = "replied"
    /\ Decide(r, DecisionOf(reply[r]))
    /\ request' = [request EXCEPT ![r] = "gone"] /\ UNCHANGED reply

(* The result is published, or lost with an exception of the exchange.     *)
Emit(r) ==
    /\ pc[r] = "emit"
    /\ \E p \in {"published", "done"} : pc' = [pc EXCEPT ![r] = p]
    /\ UNCHANGED <<config, time, agentVars, queue, decision, writerVars, restarts>>

RestartOrchestrator ==
    /\ Restarting
    /\ pc' = [r \in Runs |-> IF pc[r] \in {"validate", "write", "emit"}
                               THEN "done" ELSE pc[r]]
    /\ UNCHANGED <<config, time, agentVars, queue, decision, writerVars>>

(***************************************************************************)
(* Writer, as far as CommandWriter establishes it.                         *)
(***************************************************************************)
Reply(r, outcome) ==
    /\ request' = [request EXCEPT ![r] = "replied"]
    /\ reply' = [reply EXCEPT ![r] = outcome]

WriterOnly == UNCHANGED <<config, time, agentVars, queue, runVars>>

Claimable == ledger \in {"absent", "retryable"} /\ time = "valid"

(* The row, or an expired command without one, answers the request.        *)
AnswerFromLedger(r) ==
    /\ request[r] = "sent" /\ ~Claimable
    /\ Reply(r, CASE ledger \in {"preparing", "started"} -> "pending"
                  [] ledger \in {"completed", "unknown"} -> ledger
                  [] OTHER                               -> "not_executed")
    /\ UNCHANGED <<ledger, owner, initiated, effects, restarts>> /\ WriterOnly

Claim(r) ==
    /\ request[r] = "sent" /\ Claimable
    /\ request' = [request EXCEPT ![r] = "working"]
    /\ ledger' = "preparing" /\ owner' = r
    /\ UNCHANGED <<reply, initiated, effects, restarts>> /\ WriterOnly

(* mark_started, directly before the first native frame.                   *)
Start(r) ==
    /\ owner = r /\ ledger = "preparing" /\ time = "valid"
    /\ ledger' = "started"
    /\ initiated' = initiated \cup {r}
    /\ UNCHANGED <<request, reply, owner, effects, restarts>> /\ WriterOnly

(* The device executes what was written, perhaps long after the writer has *)
(* given up waiting.                                                       *)
Execute(r) ==
    /\ r \in initiated \ effects
    /\ effects' = effects \cup {r}
    /\ UNCHANGED <<request, reply, ledger, owner, initiated, restarts>> /\ WriterOnly

Conclude(r, state, outcome) ==
    /\ ledger' = state /\ owner' = NoRun
    /\ Reply(r, outcome)
    /\ UNCHANGED <<initiated, effects, restarts>> /\ WriterOnly

Complete(r) == owner = r /\ r \in effects /\ Conclude(r, "completed", "completed")

(* fail: before mark_started the command may be tried again, after it the  *)
(* outcome is unknown.                                                     *)
Fail(r) ==
    /\ owner = r
    /\ IF ledger = "started" THEN Conclude(r, "unknown", "unknown")
                             ELSE Conclude(r, "retryable", "not_executed")

(* Fault injection: recovery takes a started command for one not started.  *)
RestartWriterForgetful ==
    /\ Restarting
    /\ ledger' = IF owner = NoRun THEN ledger ELSE "retryable"
    /\ owner' = NoRun
    /\ request' = [r \in Runs |-> IF request[r] \in {"sent", "working"}
                                    THEN "gone" ELSE request[r]]
    /\ UNCHANGED <<reply, initiated, effects>> /\ WriterOnly

(* The writer restarts: recover settles the claim, requests are lost.      *)
RestartWriter ==
    /\ Restarting
    /\ ledger' = CASE ledger = "started"   -> "unknown"
                   [] ledger = "preparing" -> "retryable"
                   [] OTHER                -> ledger
    /\ owner' = NoRun
    /\ request' = [r \in Runs |-> IF request[r] \in {"sent", "working"}
                                    THEN "gone" ELSE request[r]]
    /\ UNCHANGED <<reply, initiated, effects>> /\ WriterOnly

(* NATS loses a request or a reply.                                        *)
LoseWrite(r) ==
    /\ request[r] \in {"sent", "replied"}
    /\ request' = [request EXCEPT ![r] = "gone"]
    /\ UNCHANGED <<reply, ledger, owner, initiated, effects, restarts>> /\ WriterOnly

(* keep_until passes (every settling moves it on, so not at one time for   *)
(* all): the next transaction no longer finds the row.                     *)
Prune ==
    /\ time = "retired" /\ ledger \in {"completed", "unknown", "retryable"}
    /\ ledger' = "absent"
    /\ UNCHANGED <<request, reply, owner, initiated, effects, restarts>> /\ WriterOnly

RunStep(r) ==
    \/ Refuse(r) \/ ValidateFails(r) \/ Approve(r)
    \/ WriteFails(r) \/ WriteReplies(r) \/ Emit(r)

WriterStep(r) ==
    \/ AnswerFromLedger(r) \/ Claim(r) \/ Start(r) \/ Execute(r)
    \/ Complete(r) \/ Fail(r) \/ LoseWrite(r)

Next ==
    \/ Tick \/ Send \/ GiveUp \/ LoseIngress \/ Prune
    \/ RestartAgent \/ RestartOrchestrator \/ RestartWriter
    \/ \E r \in Runs : Forward(r) \/ Result(r) \/ RunStep(r) \/ WriterStep(r)

Spec == Init /\ [][Next]_vars

(* Timeouts bound every wait of a run, and a published result is consumed. *)
FairSpec == Spec /\ \A r \in Runs : WF_vars(RunStep(r)) /\ WF_vars(Result(r))

(***************************************************************************)
(* Properties.                                                             *)
(***************************************************************************)
(* Every variable has its type.                                            *)
TypeOK ==
    /\ config \in [permitted : BOOLEAN, allowWrites : BOOLEAN]
    /\ time \in {"valid", "expired", "retired"}
    /\ row \in {"pending", "completed", "refused", "unknown"}
    /\ sends \in 0 .. MaxSends /\ queue \in 0 .. MaxSends
    /\ pc \in [Runs -> {"idle", "validate", "write", "emit", "published", "done"}]
    /\ decision \in [Runs -> Decisions \cup {"none"}]
    /\ request \in [Runs -> {"none", "sent", "working", "replied", "gone"}]
    /\ reply \in [Runs -> {"none", "completed", "not_executed", "pending", "unknown"}]
    /\ ledger \in {"absent", "preparing", "started", "completed", "unknown", "retryable"}
    /\ owner \in Runs \cup {NoRun}
    /\ initiated \subseteq Runs /\ effects \subseteq initiated
    /\ restarts \in 0 .. MaxRestarts

(* The store calls a command completed only if the device executed it,     *)
(* whichever of its copies the result came from.                           *)
CompletedMeansExecuted == row = "completed" => effects # {}

(* However often the command is published, forwarded and retried, one copy *)
(* at most has an effect.                                                  *)
OneEffect == Cardinality(initiated) <= 1

(* A rejection is the truth about its own run: its write request did not   *)
(* begin a native write and never will.                                    *)
RejectIsTrue == \A r \in Runs : decision[r] = "reject" => r \notin initiated

(* Nothing reaches the device against policy or with writes disabled.      *)
GateHolds == initiated # {} => config.permitted /\ config.allowWrites

(* Every run ends, whatever the validator, the writer and NATS do.         *)
RunsEnd == \A r \in Runs : pc[r] = "validate" ~> pc[r] = "done"

=============================================================================
