---------------------- MODULE ActuationPipelineProofs ----------------------
(***************************************************************************)
(* The safety properties of ActuationPipeline for any number of pipeline   *)
(* runs, publications and restarts.                                        *)
(***************************************************************************)
EXTENDS ActuationPipeline, FiniteSetTheorems, TLAPS

Deciding == {"emit", "published", "done"}

(* The queue holds no more copies than were published.                     *)
QueueInv == queue <= sends

(* A run asks the writer only after the gate, and at most once; it decides *)
(* once, and what it decides about a write is what the writer said.        *)
RunInv ==
    \A r \in Runs :
        /\ pc[r] \in {"idle", "validate"} => request[r] = "none"
        /\ request[r] # "none" => config.permitted /\ config.allowWrites
        /\ decision[r] # "none" => pc[r] \in Deciding
        /\ decision[r] = "reject" => request[r] \in {"none", "gone"}
        /\ decision[r] = "approve" => effects # {}

(* The claim is held by the run whose request is being worked on.          *)
ClaimInv ==
    /\ owner = NoRun <=> ledger \notin {"preparing", "started"}
    /\ \A r \in Runs : owner = r <=> request[r] = "working"

(* Once a native write has begun the row stands between it and a second    *)
(* one, until the deadline is long past.                                   *)
LedgerInv ==
    /\ initiated # {} => \/ ledger \in {"started", "completed", "unknown"}
                         \/ ledger = "absent" /\ time = "retired"
    /\ ledger = "completed" => effects # {}
    /\ \A r \in initiated : request[r] \notin {"none", "sent"}
    /\ \A r \in initiated : config.permitted /\ config.allowWrites
    /\ \A q, r \in initiated : q = r

(* An answer of the writer is true and final.                              *)
ReplyInv ==
    \A r \in Runs :
        /\ reply[r] # "none" => request[r] \in {"replied", "gone"}
        /\ request[r] = "replied" => reply[r] # "none"
        /\ reply[r] = "completed" => effects # {}
        /\ reply[r] = "not_executed" => r \notin initiated

IInv ==
    /\ TypeOK /\ QueueInv /\ RunInv /\ ClaimInv /\ LedgerInv /\ ReplyInv
    /\ CompletedMeansExecuted /\ RejectIsTrue

(* The initial states satisfy the inductive invariant.                     *)
LEMMA InitInv == Init => IInv
  BY PipelineAssumption
  DEF Init, IInv, TypeOK, QueueInv, RunInv, ClaimInv, LedgerInv, ReplyInv,
      CompletedMeansExecuted, RejectIsTrue, Decisions

(* Time passes: it only closes the window for claims.                      *)
LEMMA TickStep ==
    ASSUME IInv, Tick
    PROVE  IInv'
<1> USE PipelineAssumption DEF IInv, agentVars, runVars, writerVars,
          Tick
<1>1. TypeOK'
  BY DEF TypeOK, Decisions, QueueInv, ClaimInv
<1>2. QueueInv'
  BY DEF QueueInv, TypeOK
<1>3. RunInv'
  BY DEF RunInv, TypeOK, ClaimInv, ReplyInv, LedgerInv
<1>4. ClaimInv'
  BY DEF ClaimInv, TypeOK, RunInv, ReplyInv
<1>5. LedgerInv'
  BY DEF LedgerInv, TypeOK, ClaimInv, RunInv
<1>6. ReplyInv'
  BY DEF ReplyInv, TypeOK, ClaimInv, RunInv, LedgerInv
<1>7. CompletedMeansExecuted' /\ RejectIsTrue'
  BY DEF CompletedMeansExecuted, RejectIsTrue, TypeOK, RunInv, ClaimInv, LedgerInv, ReplyInv
<1> QED BY <1>1, <1>2, <1>3, <1>4, <1>5, <1>6, <1>7

(* The agent publishes, or gives up on its command.                        *)
LEMMA AgentStep ==
    ASSUME IInv, Send \/ GiveUp
    PROVE  IInv'
<1> USE PipelineAssumption DEF IInv, agentVars, runVars, writerVars,
          Send, GiveUp
<1>1. TypeOK'
  BY DEF TypeOK, Decisions, QueueInv, ClaimInv
<1>2. QueueInv'
  BY DEF QueueInv, TypeOK
<1>3. RunInv'
  BY DEF RunInv, TypeOK, ClaimInv, ReplyInv, LedgerInv
<1>4. ClaimInv'
  BY DEF ClaimInv, TypeOK, RunInv, ReplyInv
<1>5. LedgerInv'
  BY DEF LedgerInv, TypeOK, ClaimInv, RunInv
<1>6. ReplyInv'
  BY DEF ReplyInv, TypeOK, ClaimInv, RunInv, LedgerInv
<1>7. CompletedMeansExecuted' /\ RejectIsTrue'
  BY DEF CompletedMeansExecuted, RejectIsTrue, TypeOK, RunInv, ClaimInv, LedgerInv, ReplyInv
<1> QED BY <1>1, <1>2, <1>3, <1>4, <1>5, <1>6, <1>7

(* A copy is lost on its way to the orchestrator.                          *)
LEMMA LoseStep ==
    ASSUME IInv, LoseIngress
    PROVE  IInv'
<1> USE PipelineAssumption DEF IInv, agentVars, runVars, writerVars,
          LoseIngress
<1>1. TypeOK'
  BY DEF TypeOK, Decisions, QueueInv, ClaimInv
<1>2. QueueInv'
  BY DEF QueueInv, TypeOK
<1>3. RunInv'
  BY DEF RunInv, TypeOK, ClaimInv, ReplyInv, LedgerInv
<1>4. ClaimInv'
  BY DEF ClaimInv, TypeOK, RunInv, ReplyInv
<1>5. LedgerInv'
  BY DEF LedgerInv, TypeOK, ClaimInv, RunInv
<1>6. ReplyInv'
  BY DEF ReplyInv, TypeOK, ClaimInv, RunInv, LedgerInv
<1>7. CompletedMeansExecuted' /\ RejectIsTrue'
  BY DEF CompletedMeansExecuted, RejectIsTrue, TypeOK, RunInv, ClaimInv, LedgerInv, ReplyInv
<1> QED BY <1>1, <1>2, <1>3, <1>4, <1>5, <1>6, <1>7

(* A row is pruned, when nothing can be claimed any more.                  *)
LEMMA PruneStep ==
    ASSUME IInv, Prune
    PROVE  IInv'
<1> USE PipelineAssumption DEF IInv, agentVars, runVars, writerVars,
          Prune, WriterOnly
<1>1. TypeOK'
  BY DEF TypeOK, Decisions, QueueInv, ClaimInv
<1>2. QueueInv'
  BY DEF QueueInv, TypeOK
<1>3. RunInv'
  BY DEF RunInv, TypeOK, ClaimInv, ReplyInv, LedgerInv
<1>4. ClaimInv'
  BY DEF ClaimInv, TypeOK, RunInv, ReplyInv
<1>5. LedgerInv'
  BY DEF LedgerInv, TypeOK, ClaimInv, RunInv
<1>6. ReplyInv'
  BY DEF ReplyInv, TypeOK, ClaimInv, RunInv, LedgerInv
<1>7. CompletedMeansExecuted' /\ RejectIsTrue'
  BY DEF CompletedMeansExecuted, RejectIsTrue, TypeOK, RunInv, ClaimInv, LedgerInv, ReplyInv
<1> QED BY <1>1, <1>2, <1>3, <1>4, <1>5, <1>6, <1>7

(* The agent restarts.                                                     *)
LEMMA AgentRestartStep ==
    ASSUME IInv, RestartAgent
    PROVE  IInv'
<1> USE PipelineAssumption DEF IInv, agentVars, runVars, writerVars,
          RestartAgent, Restarting, Deciding
<1>1. TypeOK'
  BY DEF TypeOK, Decisions, QueueInv, ClaimInv
<1>2. QueueInv'
  BY DEF QueueInv, TypeOK
<1>3. RunInv'
  BY DEF RunInv, TypeOK, ClaimInv, ReplyInv, LedgerInv
<1>4. ClaimInv'
  BY DEF ClaimInv, TypeOK, RunInv, ReplyInv
<1>5. LedgerInv'
  BY DEF LedgerInv, TypeOK, ClaimInv, RunInv
<1>6. ReplyInv'
  BY DEF ReplyInv, TypeOK, ClaimInv, RunInv, LedgerInv
<1>7. CompletedMeansExecuted' /\ RejectIsTrue'
  BY DEF CompletedMeansExecuted, RejectIsTrue, TypeOK, RunInv, ClaimInv, LedgerInv, ReplyInv
<1> QED BY <1>1, <1>2, <1>3, <1>4, <1>5, <1>6, <1>7

(* The orchestrator restarts.                                              *)
LEMMA OrchestratorRestartStep ==
    ASSUME IInv, RestartOrchestrator
    PROVE  IInv'
<1> USE PipelineAssumption DEF IInv, agentVars, runVars, writerVars,
          RestartOrchestrator, Restarting, Deciding
<1>1. TypeOK'
  BY DEF TypeOK, Decisions, QueueInv, ClaimInv
<1>2. QueueInv'
  BY DEF QueueInv, TypeOK
<1>3. RunInv'
  BY DEF RunInv, TypeOK, ClaimInv, ReplyInv, LedgerInv
<1>4. ClaimInv'
  BY DEF ClaimInv, TypeOK, RunInv, ReplyInv
<1>5. LedgerInv'
  BY DEF LedgerInv, TypeOK, ClaimInv, RunInv
<1>6. ReplyInv'
  BY DEF ReplyInv, TypeOK, ClaimInv, RunInv, LedgerInv
<1>7. CompletedMeansExecuted' /\ RejectIsTrue'
  BY DEF CompletedMeansExecuted, RejectIsTrue, TypeOK, RunInv, ClaimInv, LedgerInv, ReplyInv
<1> QED BY <1>1, <1>2, <1>3, <1>4, <1>5, <1>6, <1>7

(* The writer restarts and recovers its ledger.                            *)
LEMMA WriterRestartStep ==
    ASSUME IInv, RestartWriter
    PROVE  IInv'
<1> USE PipelineAssumption DEF IInv, agentVars, runVars, writerVars,
          RestartWriter, Restarting, WriterOnly
<1>1. TypeOK'
  BY DEF TypeOK, Decisions, QueueInv, ClaimInv
<1>2. QueueInv'
  BY DEF QueueInv, TypeOK
<1>3. RunInv'
  BY DEF RunInv, TypeOK, ClaimInv, ReplyInv, LedgerInv
<1>4. ClaimInv'
  BY DEF ClaimInv, TypeOK, RunInv, ReplyInv
<1>5. LedgerInv'
  BY DEF LedgerInv, TypeOK, ClaimInv, RunInv
<1>6. ReplyInv'
  BY DEF ReplyInv, TypeOK, ClaimInv, RunInv, LedgerInv
<1>7. CompletedMeansExecuted' /\ RejectIsTrue'
  BY DEF CompletedMeansExecuted, RejectIsTrue, TypeOK, RunInv, ClaimInv, LedgerInv, ReplyInv
<1> QED BY <1>1, <1>2, <1>3, <1>4, <1>5, <1>6, <1>7

(* A copy is forwarded and starts a run.                                   *)
LEMMA ForwardStep ==
    ASSUME NEW r \in Runs, IInv, Forward(r)
    PROVE  IInv'
<1> USE PipelineAssumption DEF IInv, agentVars, runVars, writerVars,
          Forward, Deciding
<1>1. TypeOK'
  BY DEF TypeOK, Decisions, QueueInv, ClaimInv
<1>2. QueueInv'
  BY DEF QueueInv, TypeOK
<1>3. RunInv'
  BY DEF RunInv, TypeOK, ClaimInv, ReplyInv, LedgerInv
<1>4. ClaimInv'
  BY DEF ClaimInv, TypeOK, RunInv, ReplyInv
<1>5. LedgerInv'
  BY DEF LedgerInv, TypeOK, ClaimInv, RunInv
<1>6. ReplyInv'
  BY DEF ReplyInv, TypeOK, ClaimInv, RunInv, LedgerInv
<1>7. CompletedMeansExecuted' /\ RejectIsTrue'
  BY DEF CompletedMeansExecuted, RejectIsTrue, TypeOK, RunInv, ClaimInv, LedgerInv, ReplyInv
<1> QED BY <1>1, <1>2, <1>3, <1>4, <1>5, <1>6, <1>7

(* A result reaches the agent.                                             *)
LEMMA ResultStep ==
    ASSUME NEW r \in Runs, IInv, Result(r)
    PROVE  IInv'
<1> USE PipelineAssumption DEF IInv, agentVars, runVars, writerVars,
          Result, Settled, Deciding
<1>1. TypeOK'
  BY DEF TypeOK, Decisions, QueueInv, ClaimInv
<1>2. QueueInv'
  BY DEF QueueInv, TypeOK
<1>3. RunInv'
  BY DEF RunInv, TypeOK, ClaimInv, ReplyInv, LedgerInv
<1>4. ClaimInv'
  BY DEF ClaimInv, TypeOK, RunInv, ReplyInv
<1>5. LedgerInv'
  BY DEF LedgerInv, TypeOK, ClaimInv, RunInv
<1>6. ReplyInv'
  BY DEF ReplyInv, TypeOK, ClaimInv, RunInv, LedgerInv
<1>7. CompletedMeansExecuted' /\ RejectIsTrue'
  BY DEF CompletedMeansExecuted, RejectIsTrue, TypeOK, RunInv, ClaimInv, LedgerInv, ReplyInv
<1> QED BY <1>1, <1>2, <1>3, <1>4, <1>5, <1>6, <1>7

(* A run is refused, or fails to be validated.                             *)
LEMMA RefuseStep ==
    ASSUME NEW r \in Runs, IInv, Refuse(r) \/ ValidateFails(r)
    PROVE  IInv'
<1> USE PipelineAssumption DEF IInv, agentVars, runVars, writerVars,
          Refuse, ValidateFails, Decide, Deciding
<1>1. TypeOK'
  BY DEF TypeOK, Decisions, QueueInv, ClaimInv
<1>2. QueueInv'
  BY DEF QueueInv, TypeOK
<1>3. RunInv'
  BY DEF RunInv, TypeOK, ClaimInv, ReplyInv, LedgerInv
<1>4. ClaimInv'
  BY DEF ClaimInv, TypeOK, RunInv, ReplyInv
<1>5. LedgerInv'
  BY DEF LedgerInv, TypeOK, ClaimInv, RunInv
<1>6. ReplyInv'
  BY DEF ReplyInv, TypeOK, ClaimInv, RunInv, LedgerInv
<1>7. CompletedMeansExecuted' /\ RejectIsTrue'
  BY DEF CompletedMeansExecuted, RejectIsTrue, TypeOK, RunInv, ClaimInv, LedgerInv, ReplyInv
<1> QED BY <1>1, <1>2, <1>3, <1>4, <1>5, <1>6, <1>7

(* A run passes the gate.                                                  *)
LEMMA ApproveStep ==
    ASSUME NEW r \in Runs, IInv, Approve(r)
    PROVE  IInv'
<1> USE PipelineAssumption DEF IInv, agentVars, runVars, writerVars,
          Approve, Deciding
<1>1. TypeOK'
  BY DEF TypeOK, Decisions, QueueInv, ClaimInv
<1>2. QueueInv'
  BY DEF QueueInv, TypeOK
<1>3. RunInv'
  BY DEF RunInv, TypeOK, ClaimInv, ReplyInv, LedgerInv
<1>4. ClaimInv'
  BY DEF ClaimInv, TypeOK, RunInv, ReplyInv
<1>5. LedgerInv'
  BY DEF LedgerInv, TypeOK, ClaimInv, RunInv
<1>6. ReplyInv'
  BY DEF ReplyInv, TypeOK, ClaimInv, RunInv, LedgerInv
<1>7. CompletedMeansExecuted' /\ RejectIsTrue'
  BY DEF CompletedMeansExecuted, RejectIsTrue, TypeOK, RunInv, ClaimInv, LedgerInv, ReplyInv
<1> QED BY <1>1, <1>2, <1>3, <1>4, <1>5, <1>6, <1>7

(* A run gets no answer from the writer.                                   *)
LEMMA WriteFailsStep ==
    ASSUME NEW r \in Runs, IInv, WriteFails(r)
    PROVE  IInv'
<1> USE PipelineAssumption DEF IInv, agentVars, runVars, writerVars,
          WriteFails, Decide, Deciding
<1>1. TypeOK'
  BY DEF TypeOK, Decisions, QueueInv, ClaimInv
<1>2. QueueInv'
  BY DEF QueueInv, TypeOK
<1>3. RunInv'
  BY DEF RunInv, TypeOK, ClaimInv, ReplyInv, LedgerInv
<1>4. ClaimInv'
  BY DEF ClaimInv, TypeOK, RunInv, ReplyInv
<1>5. LedgerInv'
  BY DEF LedgerInv, TypeOK, ClaimInv, RunInv
<1>6. ReplyInv'
  BY DEF ReplyInv, TypeOK, ClaimInv, RunInv, LedgerInv
<1>7. CompletedMeansExecuted' /\ RejectIsTrue'
  BY DEF CompletedMeansExecuted, RejectIsTrue, TypeOK, RunInv, ClaimInv, LedgerInv, ReplyInv
<1> QED BY <1>1, <1>2, <1>3, <1>4, <1>5, <1>6, <1>7

(* A run gets the writer's answer.                                         *)
LEMMA WriteRepliesStep ==
    ASSUME NEW r \in Runs, IInv, WriteReplies(r)
    PROVE  IInv'
<1> USE PipelineAssumption DEF IInv, agentVars, runVars, writerVars,
          WriteReplies, Decide, DecisionOf, Deciding
<1>1. TypeOK'
  BY DEF TypeOK, Decisions, QueueInv, ClaimInv
<1>2. QueueInv'
  BY DEF QueueInv, TypeOK
<1>3. RunInv'
  BY DEF RunInv, TypeOK, ClaimInv, ReplyInv, LedgerInv
<1>4. ClaimInv'
  BY DEF ClaimInv, TypeOK, RunInv, ReplyInv
<1>5. LedgerInv'
  BY DEF LedgerInv, TypeOK, ClaimInv, RunInv
<1>6. ReplyInv'
  BY DEF ReplyInv, TypeOK, ClaimInv, RunInv, LedgerInv
<1>7. CompletedMeansExecuted' /\ RejectIsTrue'
  BY DEF CompletedMeansExecuted, RejectIsTrue, TypeOK, RunInv, ClaimInv, LedgerInv, ReplyInv
<1> QED BY <1>1, <1>2, <1>3, <1>4, <1>5, <1>6, <1>7

(* A run publishes its result.                                             *)
LEMMA EmitStep ==
    ASSUME NEW r \in Runs, IInv, Emit(r)
    PROVE  IInv'
<1> USE PipelineAssumption DEF IInv, agentVars, runVars, writerVars,
          Emit, Deciding
<1>1. TypeOK'
  BY DEF TypeOK, Decisions, QueueInv, ClaimInv
<1>2. QueueInv'
  BY DEF QueueInv, TypeOK
<1>3. RunInv'
  BY DEF RunInv, TypeOK, ClaimInv, ReplyInv, LedgerInv
<1>4. ClaimInv'
  BY DEF ClaimInv, TypeOK, RunInv, ReplyInv
<1>5. LedgerInv'
  BY DEF LedgerInv, TypeOK, ClaimInv, RunInv
<1>6. ReplyInv'
  BY DEF ReplyInv, TypeOK, ClaimInv, RunInv, LedgerInv
<1>7. CompletedMeansExecuted' /\ RejectIsTrue'
  BY DEF CompletedMeansExecuted, RejectIsTrue, TypeOK, RunInv, ClaimInv, LedgerInv, ReplyInv
<1> QED BY <1>1, <1>2, <1>3, <1>4, <1>5, <1>6, <1>7

(* The ledger answers a request.                                           *)
LEMMA AnswerStep ==
    ASSUME NEW r \in Runs, IInv, AnswerFromLedger(r)
    PROVE  IInv'
<1> USE PipelineAssumption DEF IInv, agentVars, runVars, writerVars,
          AnswerFromLedger, Reply, Claimable, WriterOnly
<1>1. TypeOK'
  BY DEF TypeOK, Decisions, QueueInv, ClaimInv
<1>2. QueueInv'
  BY DEF QueueInv, TypeOK
<1>3. RunInv'
  BY DEF RunInv, TypeOK, ClaimInv, ReplyInv, LedgerInv
<1>4. ClaimInv'
  BY DEF ClaimInv, TypeOK, RunInv, ReplyInv
<1>5. LedgerInv'
  BY DEF LedgerInv, TypeOK, ClaimInv, RunInv
<1>6. ReplyInv'
  BY DEF ReplyInv, TypeOK, ClaimInv, RunInv, LedgerInv
<1>7. CompletedMeansExecuted' /\ RejectIsTrue'
  BY DEF CompletedMeansExecuted, RejectIsTrue, TypeOK, RunInv, ClaimInv, LedgerInv, ReplyInv
<1> QED BY <1>1, <1>2, <1>3, <1>4, <1>5, <1>6, <1>7

(* A request claims the command: nothing has been written yet.             *)
LEMMA ClaimStep ==
    ASSUME NEW r \in Runs, IInv, Claim(r)
    PROVE  IInv'
<1> USE PipelineAssumption DEF IInv, agentVars, runVars, writerVars,
          Claim, Claimable, WriterOnly
<1>1. TypeOK'
  BY DEF TypeOK, Decisions, QueueInv, ClaimInv
<1>2. QueueInv'
  BY DEF QueueInv, TypeOK
<1>3. RunInv'
  BY DEF RunInv, TypeOK, ClaimInv, ReplyInv, LedgerInv
<1>4. ClaimInv'
  BY DEF ClaimInv, TypeOK, RunInv, ReplyInv
<1>5. LedgerInv'
  BY DEF LedgerInv, TypeOK, ClaimInv, RunInv
<1>6. ReplyInv'
  BY DEF ReplyInv, TypeOK, ClaimInv, RunInv, LedgerInv
<1>7. CompletedMeansExecuted' /\ RejectIsTrue'
  BY DEF CompletedMeansExecuted, RejectIsTrue, TypeOK, RunInv, ClaimInv, LedgerInv, ReplyInv
<1> QED BY <1>1, <1>2, <1>3, <1>4, <1>5, <1>6, <1>7

(* A claim is marked as started.                                           *)
LEMMA StartStep ==
    ASSUME NEW r \in Runs, IInv, Start(r)
    PROVE  IInv'
<1> USE PipelineAssumption DEF IInv, agentVars, runVars, writerVars,
          Start, WriterOnly
<1>1. TypeOK'
  BY DEF TypeOK, Decisions, QueueInv, ClaimInv
<1>2. QueueInv'
  BY DEF QueueInv, TypeOK
<1>3. RunInv'
  BY DEF RunInv, TypeOK, ClaimInv, ReplyInv, LedgerInv
<1>4. ClaimInv'
  BY DEF ClaimInv, TypeOK, RunInv, ReplyInv
<1>5. LedgerInv'
  BY DEF LedgerInv, TypeOK, ClaimInv, RunInv
<1>6. ReplyInv'
  BY DEF ReplyInv, TypeOK, ClaimInv, RunInv, LedgerInv
<1>7. CompletedMeansExecuted' /\ RejectIsTrue'
  BY DEF CompletedMeansExecuted, RejectIsTrue, TypeOK, RunInv, ClaimInv, LedgerInv, ReplyInv
<1> QED BY <1>1, <1>2, <1>3, <1>4, <1>5, <1>6, <1>7

(* The device executes a write.                                            *)
LEMMA ExecuteStep ==
    ASSUME NEW r \in Runs, IInv, Execute(r)
    PROVE  IInv'
<1> USE PipelineAssumption DEF IInv, agentVars, runVars, writerVars,
          Execute, WriterOnly
<1>1. TypeOK'
  BY DEF TypeOK, Decisions, QueueInv, ClaimInv
<1>2. QueueInv'
  BY DEF QueueInv, TypeOK
<1>3. RunInv'
  BY DEF RunInv, TypeOK, ClaimInv, ReplyInv, LedgerInv
<1>4. ClaimInv'
  BY DEF ClaimInv, TypeOK, RunInv, ReplyInv
<1>5. LedgerInv'
  BY DEF LedgerInv, TypeOK, ClaimInv, RunInv
<1>6. ReplyInv'
  BY DEF ReplyInv, TypeOK, ClaimInv, RunInv, LedgerInv
<1>7. CompletedMeansExecuted' /\ RejectIsTrue'
  BY DEF CompletedMeansExecuted, RejectIsTrue, TypeOK, RunInv, ClaimInv, LedgerInv, ReplyInv
<1> QED BY <1>1, <1>2, <1>3, <1>4, <1>5, <1>6, <1>7

(* An acknowledged write is recorded.                                      *)
LEMMA CompleteStep ==
    ASSUME NEW r \in Runs, IInv, Complete(r)
    PROVE  IInv'
<1> USE PipelineAssumption DEF IInv, agentVars, runVars, writerVars,
          Complete, Conclude, Reply, WriterOnly
<1>1. TypeOK'
  BY DEF TypeOK, Decisions, QueueInv, ClaimInv
<1>2. QueueInv'
  BY DEF QueueInv, TypeOK
<1>3. RunInv'
  BY DEF RunInv, TypeOK, ClaimInv, ReplyInv, LedgerInv
<1>4. ClaimInv'
  BY DEF ClaimInv, TypeOK, RunInv, ReplyInv
<1>5. LedgerInv'
  BY DEF LedgerInv, TypeOK, ClaimInv, RunInv
<1>6. ReplyInv'
  BY DEF ReplyInv, TypeOK, ClaimInv, RunInv, LedgerInv
<1>7. CompletedMeansExecuted' /\ RejectIsTrue'
  BY DEF CompletedMeansExecuted, RejectIsTrue, TypeOK, RunInv, ClaimInv, LedgerInv, ReplyInv
<1> QED BY <1>1, <1>2, <1>3, <1>4, <1>5, <1>6, <1>7

(* A claim fails before or after its write has begun.                      *)
LEMMA FailStep ==
    ASSUME NEW r \in Runs, IInv, Fail(r)
    PROVE  IInv'
<1> USE PipelineAssumption DEF IInv, agentVars, runVars, writerVars,
          Fail, Conclude, Reply, WriterOnly
<1>1. TypeOK'
  BY DEF TypeOK, Decisions, QueueInv, ClaimInv
<1>2. QueueInv'
  BY DEF QueueInv, TypeOK
<1>3. RunInv'
  BY DEF RunInv, TypeOK, ClaimInv, ReplyInv, LedgerInv
<1>4. ClaimInv'
  BY DEF ClaimInv, TypeOK, RunInv, ReplyInv
<1>5. LedgerInv'
  BY DEF LedgerInv, TypeOK, ClaimInv, RunInv
<1>6. ReplyInv'
  BY DEF ReplyInv, TypeOK, ClaimInv, RunInv, LedgerInv
<1>7. CompletedMeansExecuted' /\ RejectIsTrue'
  BY DEF CompletedMeansExecuted, RejectIsTrue, TypeOK, RunInv, ClaimInv, LedgerInv, ReplyInv
<1> QED BY <1>1, <1>2, <1>3, <1>4, <1>5, <1>6, <1>7

(* A write request or its answer is lost.                                  *)
LEMMA LoseWriteStep ==
    ASSUME NEW r \in Runs, IInv, LoseWrite(r)
    PROVE  IInv'
<1> USE PipelineAssumption DEF IInv, agentVars, runVars, writerVars,
          LoseWrite, WriterOnly
<1>1. TypeOK'
  BY DEF TypeOK, Decisions, QueueInv, ClaimInv
<1>2. QueueInv'
  BY DEF QueueInv, TypeOK
<1>3. RunInv'
  BY DEF RunInv, TypeOK, ClaimInv, ReplyInv, LedgerInv
<1>4. ClaimInv'
  BY DEF ClaimInv, TypeOK, RunInv, ReplyInv
<1>5. LedgerInv'
  BY DEF LedgerInv, TypeOK, ClaimInv, RunInv
<1>6. ReplyInv'
  BY DEF ReplyInv, TypeOK, ClaimInv, RunInv, LedgerInv
<1>7. CompletedMeansExecuted' /\ RejectIsTrue'
  BY DEF CompletedMeansExecuted, RejectIsTrue, TypeOK, RunInv, ClaimInv, LedgerInv, ReplyInv
<1> QED BY <1>1, <1>2, <1>3, <1>4, <1>5, <1>6, <1>7

(* Every step keeps the inductive invariant.                               *)
LEMMA NextInv == IInv /\ [Next]_vars => IInv'
<1> SUFFICES ASSUME IInv, [Next]_vars PROVE IInv'
  OBVIOUS
<1>1. CASE UNCHANGED vars
  BY <1>1
  DEF vars, agentVars, runVars, writerVars, IInv, TypeOK, QueueInv, RunInv, ClaimInv,
      LedgerInv, ReplyInv, CompletedMeansExecuted, RejectIsTrue
<1>2. CASE Tick \/ Send \/ GiveUp \/ LoseIngress \/ Prune
  BY <1>2, TickStep, AgentStep, LoseStep, PruneStep
<1>3. CASE RestartAgent \/ RestartOrchestrator \/ RestartWriter
  BY <1>3, AgentRestartStep, OrchestratorRestartStep, WriterRestartStep
<1>4. ASSUME NEW r \in Runs, Forward(r) \/ Result(r) PROVE IInv'
  BY <1>4, ForwardStep, ResultStep
<1>5. ASSUME NEW r \in Runs, RunStep(r) PROVE IInv'
  BY <1>5, RefuseStep, ApproveStep, WriteFailsStep, WriteRepliesStep, EmitStep
  DEF RunStep
<1>6. ASSUME NEW r \in Runs, WriterStep(r) PROVE IInv'
  BY <1>6, AnswerStep, ClaimStep, StartStep, ExecuteStep, CompleteStep, FailStep,
     LoseWriteStep
  DEF WriterStep
<1> QED BY <1>1, <1>2, <1>3, <1>4, <1>5, <1>6 DEF Next

(* The strengthening of the properties below is an invariant of the path.  *)
LEMMA Inductive == Spec => []IInv
  BY InitInv, NextInv, PTL DEF Spec

(* Rows, runs, requests and replies have their types in every state.       *)
THEOREM TypeCorrect == Spec => []TypeOK
<1>1. IInv => TypeOK
  BY DEF IInv
<1> QED BY <1>1, Inductive, PTL

(* The store never calls a command completed that the device has not       *)
(* executed, whichever of its copies the result came from.                 *)
THEOREM CompletionsAreExecuted == Spec => []CompletedMeansExecuted
<1>1. IInv => CompletedMeansExecuted
  BY DEF IInv
<1> QED BY <1>1, Inductive, PTL

(* Resending, redelivery, timeouts and restarts together never make two    *)
(* copies of a command write to the device.                                *)
THEOREM AtMostOneEffect == Spec => []OneEffect
<1>1. IInv => OneEffect
  <2> SUFFICES ASSUME IInv PROVE Cardinality(initiated) <= 1
    BY DEF OneEffect
  <2>1. CASE initiated = {}
    BY <2>1, FS_EmptySet
  <2>2. CASE initiated # {}
    <3>1. PICK r \in initiated : TRUE
      BY <2>2
    <3>2. initiated = {r}
      BY <3>1 DEF IInv, LedgerInv
    <3> QED BY <3>2, FS_Singleton
  <2> QED BY <2>1, <2>2
<1> QED BY <1>1, Inductive, PTL

(* A run that publishes a rejection has not written and never will, even   *)
(* when the writer answers after the pipeline has stopped waiting.         *)
THEOREM RejectionsAreTrue == Spec => []RejectIsTrue
<1>1. IInv => RejectIsTrue
  BY DEF IInv
<1> QED BY <1>1, Inductive, PTL

(* No path around the policy or the write gate leads to the device.        *)
THEOREM NothingPassesTheGate == Spec => []GateHolds
<1>1. IInv => GateHolds
  BY DEF IInv, LedgerInv, GateHolds
<1> QED BY <1>1, Inductive, PTL
=============================================================================
