------------------------- MODULE TelemetryPipeline -------------------------
(***************************************************************************)
(* Telemetry from the device adapters to the unified namespace.            *)
(*                                                                         *)
(* The OPC UA and S7 subscribers stamp every reading with a producer       *)
(* position and put it on uns.ingress.raw.  One orchestrator takes them    *)
(* one at a time (a NATS subscription awaits its callback) and drives each *)
(* through convert, contextualize and publish as request-reply calls with  *)
(* a timeout, dead-lettering it at the first stage that fails.  The        *)
(* publish worker keeps an MQTT connection that a task of its own renews   *)
(* when a publication has failed.                                          *)
(*                                                                         *)
(* A reading stands for its payload: node, position and quality are all    *)
(* the stages look at.  NATS delivers a request at most once; a reply goes *)
(* to the inbox of its own request and is lost when nobody waits there.    *)
(***************************************************************************)
EXTENDS Integers, Sequences, FiniteSets, SequencesExt

CONSTANTS
  OpcuaNodes,   \* aliases of opcua-node-list.yaml
  PollList,     \* the S7 signals in the order the unit map lists them
  DropBad,      \* nodes whose conversion rule drops bad quality
  NoRule,       \* nodes without a conversion rule
  NoContext,    \* nodes whose ontology entry is missing or does not match
  MaxReadings,  \* bound: readings put on uns.ingress.raw
  MaxFaults     \* bound: lost connections, lost requests, timeouts, crashes

ASSUME BoundsAssumption == MaxReadings \in Nat /\ MaxFaults \in Nat

VARIABLES
  link,       \* per adapter: connected, epoch of its positions, poll index
  sequence,   \* last sequence number of each node in the current epoch
  readings,   \* every reading put on the bus so far, in that order
  ingress,    \* the ones the orchestrator has not taken yet
  run,        \* the orchestrator's run_pipeline call
  work,       \* requests waiting at each stage's worker
  inbox,      \* replies on their way to the orchestrator
  handling,   \* the MQTT publication the publish worker awaits, or NoJob
  mqtt,       \* the publish worker's connection task
  alive,      \* MQTT connections the broker still has
  published,  \* observations the broker accepted, in order
  dlq,        \* dead letters: <<reading, failing stage>>
  succeeded,  \* readings counted as pipeline_success
  abandoned,  \* readings whose orchestrator process died
  faults

adapterVars == <<link, sequence, readings>>
workVars == <<work, inbox, handling>>
mqttVars == <<mqtt, alive, published>>
outcomeVars == <<dlq, succeeded, abandoned>>
vars == <<adapterVars, ingress, run, workVars, mqttVars, outcomeVars, faults>>

Adapters == {"opcua", "s7"}
Stages == <<"convert", "contextualize", "publish">>
StageNames == ToSet(Stages)
S7Nodes == ToSet(PollList)
Nodes == OpcuaNodes \cup S7Nodes
NodesOf(a) == IF a = "opcua" THEN OpcuaNodes ELSE S7Nodes

\* The two configurations name different signals: each adapter numbers its own.
ASSUME NodesAssumption == PollList \in Seq(S7Nodes) /\ OpcuaNodes \cap S7Nodes = {}

NoJob == [on |-> 0]
Idle == [pc |-> "idle"]

Init ==
  /\ link = [a \in Adapters |-> [up |-> FALSE, epoch |-> 0, next |-> 1]]
  /\ sequence = [n \in Nodes |-> 0]
  /\ readings = << >> /\ ingress = << >>
  /\ run = Idle
  /\ work = [s \in StageNames |-> << >>]
  /\ inbox = {} /\ handling = NoJob
  /\ mqtt = [loop |-> "connecting", client |-> 0, last |-> 0, event |-> FALSE]
  /\ alive = {} /\ published = << >>
  /\ dlq = {} /\ succeeded = {} /\ abandoned = {}
  /\ faults = 0

Fault == faults < MaxFaults /\ faults' = faults + 1

(***************************************************************************)
(* The adapters.                                                           *)
(***************************************************************************)

\* Fault injection: restart the sequences without a new epoch.
ConnectInOldEpoch(a) ==
  /\ ~link[a].up
  /\ link' = [link EXCEPT ![a] = [up |-> TRUE, epoch |-> 1, next |-> 1]]
  /\ sequence' = [n \in Nodes |-> IF n \in NodesOf(a) THEN 0 ELSE sequence[n]]
  /\ UNCHANGED <<readings, ingress, run, workVars, mqttVars, outcomeVars, faults>>

\* A connection begins a producer epoch: the sequence of every node restarts.
Connect(a) ==
  /\ ~link[a].up
  /\ link' = [link EXCEPT ![a] = [up |-> TRUE, epoch |-> @.epoch + 1, next |-> 1]]
  /\ sequence' = [n \in Nodes |-> IF n \in NodesOf(a) THEN 0 ELSE sequence[n]]
  /\ UNCHANGED <<readings, ingress, run, workVars, mqttVars, outcomeVars, faults>>

Disconnect(a) ==
  /\ link[a].up /\ Fault
  /\ link' = [link EXCEPT ![a].up = FALSE]
  /\ UNCHANGED <<sequence, readings, ingress, run, workVars, mqttVars, outcomeVars>>

\* _publish of both adapters: take the node's next position, then publish.
Emit(a, n, quality) ==
  LET reading == [node |-> n, quality |-> quality,
                  position |-> <<link[a].epoch, sequence[n] + 1>>]
  IN /\ Len(readings) < MaxReadings
     /\ sequence' = [sequence EXCEPT ![n] = @ + 1]
     /\ readings' = Append(readings, reading)
     /\ ingress' = Append(ingress, reading)

\* An OPC UA data change; its status code decides the quality.  Callbacks of an
\* earlier connection are fenced off (module PositionGuard).
DataChange ==
  /\ link["opcua"].up
  /\ \E n \in OpcuaNodes, q \in {"good", "uncertain", "bad"} : Emit("opcua", n, q)
  /\ UNCHANGED <<link, run, workVars, mqttVars, outcomeVars, faults>>

\* The next signal of the S7 poll; what is read from a block is always good.
Poll ==
  /\ link["s7"].up /\ PollList # << >>
  /\ Emit("s7", PollList[link["s7"].next], "good")
  /\ link' = [link EXCEPT !["s7"].next = IF @ = Len(PollList) THEN 1 ELSE @ + 1]
  /\ UNCHANGED <<run, workVars, mqttVars, outcomeVars, faults>>

(***************************************************************************)
(* The orchestrator: run_pipeline.                                         *)
(***************************************************************************)

Take ==
  /\ run = Idle /\ ingress # << >>
  /\ run' = [pc |-> "send", reading |-> Head(ingress), stage |-> 1]
  /\ ingress' = Tail(ingress)
  /\ UNCHANGED <<adapterVars, workVars, mqttVars, outcomeVars, faults>>

\* A request and its inbox are identified by the reading and the stage: a run
\* calls each stage once.
Request == [reading |-> run.reading, stage |-> Stages[run.stage]]

Send ==
  /\ run.pc = "send"
  /\ work' = [work EXCEPT ![Stages[run.stage]] = Append(@, Request)]
  /\ run' = [run EXCEPT !.pc = "wait"]
  /\ UNCHANGED <<adapterVars, ingress, inbox, handling, mqttVars, outcomeVars, faults>>

\* Fault injection: give the reading up without a dead letter.
DeadLetterSilently ==
  /\ run' = Idle
  /\ UNCHANGED <<adapterVars, ingress, handling, mqttVars, dlq, succeeded, abandoned>>

DeadLetter ==
  /\ dlq' = dlq \cup {<<run.reading, Stages[run.stage]>>}
  /\ run' = Idle
  /\ UNCHANGED <<adapterVars, ingress, handling, mqttVars, succeeded, abandoned>>

\* nc.request raises at once when no worker subscribes to the stage.
NoResponders ==
  /\ run.pc = "send" /\ Fault
  /\ DeadLetter
  /\ UNCHANGED <<work, inbox>>

\* Fault injection: any reply answers the current request.
RepliesToAnyone == {m \in inbox : run.pc = "wait"}

\* The replies the orchestrator waits for; a late one finds no inbox.
Replies == {m \in inbox : run.pc = "wait" /\ m.to = Request}

AnswerPending ==
  /\ run.pc = "wait"
  /\ \/ Replies # {} \/ Request \in ToSet(work[Stages[run.stage]])
     \/ handling # NoJob /\ handling.request = Request

\* request_reply turns the bus timeout into RequestTimeout; the request stays
\* where it is and the worker may still handle it.  A timeout that an answer
\* would have prevented is a fault.
Timeout ==
  /\ run.pc = "wait"
  /\ IF AnswerPending THEN Fault ELSE UNCHANGED faults
  /\ DeadLetter
  /\ UNCHANGED <<work, inbox>>

ReplyError ==
  \E m \in Replies :
    /\ m.status = "error"
    /\ DeadLetter
    /\ inbox' = inbox \ {m}
    /\ UNCHANGED <<work, faults>>

ReplyOk ==
  \E m \in Replies :
    /\ m.status = "ok"
    /\ inbox' = inbox \ {m}
    /\ IF run.stage < Len(Stages)
       THEN run' = [run EXCEPT !.pc = "send", !.stage = @ + 1] /\ UNCHANGED succeeded
       ELSE run' = Idle /\ succeeded' = succeeded \cup {run.reading}
    /\ UNCHANGED <<adapterVars, ingress, work, handling, mqttVars, dlq, abandoned, faults>>

Crash ==
  /\ run # Idle /\ Fault
  /\ abandoned' = abandoned \cup {run.reading}
  /\ run' = Idle
  /\ UNCHANGED <<adapterVars, ingress, workVars, mqttVars, dlq, succeeded>>

(***************************************************************************)
(* The workers.  Each awaits one request at a time.                        *)
(***************************************************************************)

Respond(request, status) == inbox' = inbox \cup {[to |-> request, status |-> status]}

\* A worker restarts with a request in hand, or the bus drops the request.
LoseRequest(stage) ==
  /\ work[stage] # << >> /\ Fault
  /\ work' = [work EXCEPT ![stage] = Tail(@)]
  /\ UNCHANGED <<adapterVars, ingress, run, inbox, handling, mqttVars, outcomeVars>>

Serve(stage, accepted) ==
  /\ work[stage] # << >>
  /\ Respond(Head(work[stage]), IF Head(work[stage]).reading \in accepted THEN "ok" ELSE "error")
  /\ work' = [work EXCEPT ![stage] = Tail(@)]
  /\ UNCHANGED <<adapterVars, ingress, run, handling, mqttVars, outcomeVars, faults>>

\* apply_conversion: no rule is an error, and so is a bad reading of a node
\* whose rule drops them.
Convertible(r) == r.node \notin NoRule /\ ~(r.node \in DropBad /\ r.quality = "bad")
Convert == Serve("convert", {r \in ToSet(readings) : Convertible(r)})

\* contextualize: the ontology must know the node with the same unit and type.
InOntology(r) == r.node \notin NoContext
Contextualize == Serve("contextualize", {r \in ToSet(readings) : InOntology(r)})

\* The publish worker's handler up to its await of the MQTT publication.
BeginPublish ==
  /\ work["publish"] # << >> /\ handling = NoJob
  /\ work' = [work EXCEPT !["publish"] = Tail(@)]
  /\ IF mqtt.client = 0
     THEN Respond(Head(work["publish"]), "error") /\ UNCHANGED handling
     ELSE /\ handling' = [on |-> mqtt.client, request |-> Head(work["publish"]), sent |-> FALSE]
          /\ UNCHANGED inbox
  /\ UNCHANGED <<adapterVars, ingress, run, mqttVars, outcomeVars, faults>>

\* The broker accepts the observation ...
Accept ==
  /\ handling # NoJob /\ ~handling.sent /\ handling.on \in alive
  /\ published' = Append(published, handling.request.reading)
  /\ handling' = [handling EXCEPT !.sent = TRUE]
  /\ UNCHANGED <<adapterVars, ingress, run, work, inbox, mqtt, alive, outcomeVars, faults>>

\* ... and its acknowledgement ends the await.
EndPublish ==
  /\ handling # NoJob /\ handling.sent /\ handling.on \in alive
  /\ Respond(handling.request, "ok")
  /\ handling' = NoJob
  /\ UNCHANGED <<adapterVars, ingress, run, work, mqttVars, outcomeVars, faults>>

\* Fault injection: a failed publication does not wake the connection task.
FailPublishQuietly ==
  /\ handling # NoJob
  /\ IF handling.on \in alive THEN Fault ELSE UNCHANGED faults
  /\ Respond(handling.request, "error")
  /\ handling' = NoJob
  /\ UNCHANGED <<adapterVars, ingress, run, work, mqttVars, outcomeVars>>

\* MqttError: the connection is gone, or the client gave up waiting.
FailPublish ==
  /\ handling # NoJob
  /\ IF handling.on \in alive THEN Fault ELSE UNCHANGED faults
  /\ mqtt' = [mqtt EXCEPT !.event = TRUE]
  /\ Respond(handling.request, "error")
  /\ handling' = NoJob
  /\ UNCHANGED <<adapterVars, ingress, run, work, alive, published, outcomeVars>>

(***************************************************************************)
(* The connection task of the publish worker: MqttPublisherWorker.run.     *)
(***************************************************************************)

MqttUnchanged == UNCHANGED <<adapterVars, ingress, run, workVars, published, outcomeVars>>

\* The client is installed and the event cleared without an await between.
MqttConnect ==
  /\ mqtt.loop = "connecting"
  /\ mqtt' = [loop |-> "waiting", client |-> mqtt.last + 1, last |-> mqtt.last + 1, event |-> FALSE]
  /\ alive' = alive \cup {mqtt.last + 1}
  /\ MqttUnchanged /\ UNCHANGED faults

MqttDrop ==
  /\ mqtt.client \in alive /\ Fault
  /\ alive' = alive \ {mqtt.client}
  /\ MqttUnchanged /\ UNCHANGED mqtt

\* The except branch forgets the client and sleeps.
Disconnected == [mqtt EXCEPT !.loop = "sleeping", !.client = 0]

MqttRefused ==
  /\ mqtt.loop = "connecting" /\ Fault
  /\ mqtt' = Disconnected
  /\ MqttUnchanged /\ UNCHANGED alive

\* A failed publication wakes the task.  Leaving the context manager raises when
\* the connection was lost; otherwise it disconnects and the closed client stays
\* in place until the next one is connected.
MqttWake ==
  /\ mqtt.loop = "waiting" /\ mqtt.event
  /\ IF mqtt.client \in alive
     THEN mqtt' = [mqtt EXCEPT !.loop = "connecting"]
     ELSE mqtt' = Disconnected
  /\ alive' = alive \ {mqtt.client}
  /\ MqttUnchanged /\ UNCHANGED faults

MqttSleep ==
  /\ mqtt.loop = "sleeping"
  /\ mqtt' = [mqtt EXCEPT !.loop = "connecting"]
  /\ MqttUnchanged /\ UNCHANGED <<alive, faults>>

(***************************************************************************)
(* The specification.                                                      *)
(***************************************************************************)

Orchestrate == Take \/ Send \/ ReplyError \/ ReplyOk

Work == Convert \/ Contextualize \/ BeginPublish \/ Accept \/ EndPublish \/ FailPublish

Reconnect == MqttConnect \/ MqttWake \/ MqttSleep

Next ==
  \/ \E a \in Adapters : Connect(a) \/ Disconnect(a)
  \/ DataChange \/ Poll
  \/ Orchestrate \/ NoResponders \/ Timeout \/ Crash
  \/ Work \/ \E s \in StageNames : LoseRequest(s)
  \/ Reconnect \/ MqttDrop \/ MqttRefused

\* Callbacks and tasks of an event loop are run, a client notices that its
\* connection is gone, and a request that nobody will answer times out.
Spec ==
  /\ Init /\ [][Next]_vars
  /\ WF_vars(Orchestrate) /\ WF_vars(~AnswerPending /\ Timeout) /\ WF_vars(Reconnect)
  /\ WF_vars(Convert) /\ WF_vars(Contextualize)
  /\ WF_vars(BeginPublish \/ Accept \/ EndPublish \/ (handling.on \notin alive /\ FailPublish))

(***************************************************************************)
(* Properties.                                                             *)
(***************************************************************************)

\* What run_pipeline counts as a success was accepted by the broker: no late
\* reply to another request is taken for the publish worker's.
SuccessIsPublished == succeeded \subseteq ToSet(published)

Precedes(p, q) == p[1] < q[1] \/ (p[1] = q[1] /\ p[2] < q[2])

\* The namespace shows every node's readings in the order of their positions,
\* each once, whatever times out, reconnects or restarts on the way: a worker
\* still busy with a request the orchestrator gave up does not let a later
\* reading overtake it.
PublishedInOrder ==
  \A i, j \in DOMAIN published :
    i < j /\ published[i].node = published[j].node
      => Precedes(published[i].position, published[j].position)

\* Every reading on the bus is counted as a success, dead-lettered, or was in the
\* hands of an orchestrator process that died.
EveryReadingSettles ==
  \A i \in 1..MaxReadings :
    Len(readings) >= i ~>
      /\ Len(readings) >= i
      /\ readings[i] \in succeeded \cup {d[1] : d \in dlq} \cup abandoned

\* A lost MQTT connection is noticed by the next publication and replaced.
LostConnectionReplaced ==
  (handling # NoJob /\ handling.on \notin alive) ~> mqtt.client \in alive
=============================================================================
