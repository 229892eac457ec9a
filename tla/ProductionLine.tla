--------------------------- MODULE ProductionLine ---------------------------
(***************************************************************************)
(* The production-mode loop: the conveyor of the Modbus device, the        *)
(* decision agent's ProductionModeRule, and the warmer of the OPC UA       *)
(* device.                                                                 *)
(*                                                                         *)
(* The conveyor's speed setpoint is sampled and reaches the agent through  *)
(* the telemetry path; a change between the normal and the high band makes *)
(* the agent request another warmer recipe, which the actuation path       *)
(* carries out in order (module ActuationPipeline) or refuses.  A write    *)
(* reaches the warmer's OPC UA node; the device's tick takes it over.      *)
(*                                                                         *)
(* A sample's index is its source timestamp.  The tick of either device    *)
(* has no suspension point between reading its inputs and writing its      *)
(* outputs, so it is one step.                                             *)
(***************************************************************************)
EXTENDS Integers, Sequences, FiniteSets

CONSTANTS
  Speeds,         \* values of the conveyor's setpoint register
  InitialSpeed,   \* belt_speed_raw of a new RegisterBlock
  MaxSpeed,       \* MotorControl.max_speed
  NormalMax,      \* normal_speed_max
  HighMin,        \* high_speed_min
  BottleCycle,    \* bottle numbers cycle through 1..BottleCycle
  MaxSamples,     \* bound: samples of the setpoint
  MaxFaults       \* bound: jams, lost or refused requests, agent restarts

ASSUME BandsAssumption ==
  /\ Speeds \subseteq Int /\ InitialSpeed \in Speeds /\ NormalMax \in Int /\ HighMin \in Int /\ MaxSpeed \in Int
  /\ NormalMax < HighMin
ASSUME BoundsAssumption == BottleCycle \in Nat \ {0} /\ MaxSamples \in Nat /\ MaxFaults \in Nat

VARIABLES
  conveyor,   \* MotorControl: setpoint, running, faulted
  registers,  \* what the Modbus device shows: speed, jam, active, bottle
  samples,    \* observations of the setpoint, oldest first
  rule,       \* ProductionModeRule: mode and index of the latest observation
  requests,   \* recipe requests on their way, oldest first
  warmer,     \* OPC UA setpoint: node value and value in use
  newest,     \* newest sample delivered to the current agent process
  lost,       \* a request was lost or refused since the agent started
  faults

conveyorVars == <<conveyor, registers, samples>>
agentVars == <<rule, requests, newest, lost>>
lineVars == <<conveyorVars, agentVars, warmer, faults>>

Modes == {"normal", "high"}
NoMode == "none"

LineInit ==
  /\ conveyor = [setpoint |-> InitialSpeed, running |-> TRUE, faulted |-> FALSE]
  /\ registers = [speed |-> conveyor.setpoint, jam |-> FALSE, active |-> TRUE, bottle |-> 0]
  /\ samples = << >>
  /\ rule = [mode |-> NoMode, latest |-> 0]
  /\ requests = << >> /\ newest = 0 /\ lost = FALSE
  /\ warmer = [node |-> "normal", value |-> "normal"]
  /\ faults = 0

Fault == faults < MaxFaults /\ faults' = faults + 1

(***************************************************************************)
(* The conveyor.                                                           *)
(***************************************************************************)

Speed(m) == IF m.running /\ ~m.faulted THEN m.setpoint ELSE 0

\* MotorControl.apply: the control after a command.  A refused command leaves
\* it alone; operation 4 injects a fault.
ApplyCommand(m, operation, value) ==
  LET starts == operation = 1 /\ value = 1 /\ ~m.faulted
      stops  == operation = 1 /\ value = 0
      resets == operation = 3 /\ value = 1 /\ m.faulted
      jams   == operation = 4 /\ value = 1
  IN  [setpoint |-> IF operation = 2 /\ value \in 0..MaxSpeed THEN value ELSE m.setpoint,
       running  |-> starts \/ (m.running /\ ~stops /\ ~resets /\ ~jams),
       faulted  |-> jams \/ (m.faulted /\ ~resets)]

\* A command consumed from the conveyor's mailbox: operations 1 to 3 come from
\* the actuation path.
Command ==
  /\ \/ \E speed \in Speeds : conveyor' = ApplyCommand(conveyor, 2, speed)
     \/ \E operation \in {1, 3}, value \in {0, 1} : conveyor' = ApplyCommand(conveyor, operation, value)
  /\ UNCHANGED <<registers, samples, agentVars, warmer, faults>>

Jam == Fault /\ conveyor' = ApplyCommand(conveyor, 4, 1)

\* RegisterBlock.tick after a jam may have struck: the registers follow the
\* control and a moving belt brings the next bottle.
Move ==
  registers' = [speed  |-> Speed(conveyor'), jam |-> conveyor'.faulted,
                active |-> Speed(conveyor') > 0,
                bottle |-> IF Speed(conveyor') > 0 THEN (registers.bottle % BottleCycle) + 1
                                                   ELSE registers.bottle]

\* With the inspection outbox full the line stands still instead.
Hold ==
  /\ registers' = [registers EXCEPT !.speed = 0, !.active = FALSE]
  /\ UNCHANGED <<conveyor, faults>>

TickConveyor ==
  /\ \/ Jam /\ Move
     \/ UNCHANGED <<conveyor, faults>> /\ Move
     \/ Hold
  /\ UNCHANGED <<samples, agentVars, warmer>>

SampleSpeed ==
  /\ Len(samples) < MaxSamples
  /\ samples' = Append(samples, conveyor.setpoint)
  /\ UNCHANGED <<conveyor, registers, agentVars, warmer, faults>>

(***************************************************************************)
(* The decision agent.                                                     *)
(***************************************************************************)

\* The band a speed lies in; between the bands the mode is kept.
Band(speed) ==
  IF speed >= HighMin THEN "high" ELSE IF speed <= NormalMax THEN "normal" ELSE NoMode

\* Fault injection: take every sample for the latest.
AnyAge(i) == TRUE

NotOlder(i) == i >= rule.latest

\* One request per change of mode; the mode is remembered before the request is
\* submitted, and a submission that fails is not repeated.
Changes(mode) == mode \notin {NoMode, rule.mode}

Submit(mode) ==
  IF Changes(mode)
  THEN \/ requests' = Append(requests, mode) /\ UNCHANGED <<lost, faults>>
       \/ Fault /\ lost' = TRUE /\ UNCHANGED requests
  ELSE UNCHANGED <<requests, lost, faults>>

\* ProductionModeRule.update on sample i, which may arrive late or again.
Update(i) ==
  LET mode == Band(samples[i]) IN
  IF NotOlder(i)
  THEN /\ rule' = [latest |-> i, mode |-> IF mode = NoMode THEN rule.mode ELSE mode]
       /\ Submit(mode)
  ELSE UNCHANGED <<rule, requests, lost, faults>>

Observe(i) ==
  /\ Update(i)
  /\ newest' = IF i > newest THEN i ELSE newest
  /\ UNCHANGED <<conveyorVars, warmer>>

RestartAgent ==
  /\ Fault
  /\ rule' = [mode |-> NoMode, latest |-> 0]
  /\ newest' = 0 /\ lost' = FALSE
  /\ UNCHANGED <<conveyorVars, requests, warmer>>

(***************************************************************************)
(* The actuation path and the OPC UA device.                               *)
(***************************************************************************)

Write ==
  /\ requests # << >>
  /\ warmer' = [warmer EXCEPT !.node = Head(requests)]
  /\ requests' = Tail(requests)
  /\ UNCHANGED <<conveyorVars, rule, newest, lost, faults>>

Refuse ==
  /\ requests # << >> /\ Fault
  /\ requests' = Tail(requests)
  /\ lost' = TRUE
  /\ UNCHANGED <<conveyorVars, rule, newest, warmer>>

\* Fault injection: restore the node from the value in use.
OwnValueKept == [warmer EXCEPT !.node = warmer.value]

\* _reconcile_setpoint: a node value that differs is a client's write and is
\* taken over before the tick writes the node again.
Reconciled == [warmer EXCEPT !.value = warmer.node]

TickOpcua ==
  /\ warmer' = Reconciled
  /\ UNCHANGED <<conveyorVars, agentVars, faults>>

(***************************************************************************)
(* The specification.                                                      *)
(***************************************************************************)

LineNext ==
  \/ Command \/ TickConveyor \/ SampleSpeed
  \/ \E i \in DOMAIN samples : Observe(i)
  \/ RestartAgent
  \/ Write \/ Refuse \/ TickOpcua

\* Both devices tick, what was requested is carried out, and the newest sample
\* reaches the agent.
LineSpec ==
  /\ LineInit /\ [][LineNext]_lineVars
  /\ WF_lineVars(SampleSpeed) /\ WF_lineVars(samples # << >> /\ Observe(Len(samples)))
  /\ WF_lineVars(Write) /\ WF_lineVars(TickOpcua)

(***************************************************************************)
(* Properties.                                                             *)
(***************************************************************************)

\* The mode the agent believes in is the band of the newest speed it was ever
\* shown, in whatever order and however often samples arrive; inside the
\* hysteresis it is the mode of an earlier one.
ModeFollowsNewest ==
  newest > 0 /\ Band(samples[newest]) # NoMode => rule.mode = Band(samples[newest])

\* When the speed comes to rest in a band the warmer comes to use that band's
\* recipe, unless a request was lost or refused: the agent does not repeat it.
RecipeFollowsSpeed ==
  \A m \in Modes :
    (Len(samples) = MaxSamples /\ Band(samples[MaxSamples]) = m) ~> (warmer.value = m \/ lost)
=============================================================================
