------------------------ MODULE DecisionAgentProofs ------------------------
(***************************************************************************)
(* Proofs about the decision agent's two loops, for any values of the      *)
(* constants: rejection tracking (module RejectionTracking, Spec) and the  *)
(* production mode (module ProductionLine, LineSpec).  Their variables are *)
(* disjoint; no theorem relates the two.                                   *)
(***************************************************************************)
EXTENDS RejectionTracking, ProductionLine, TLAPS

(***************************************************************************)
(* Rejection tracking, for any inspections, capacities, ages and bounds.   *)
(*                                                                         *)
(* What makes one request per inspection hard is that the rule forgets: an *)
(* identity leaves `seen' MaxAge + Grace after it was admitted.  The       *)
(* invariant says that a command is either still remembered or older than  *)
(* that (MemoryInv); an inspection of its identity is no longer fresh by   *)
(* then (FreshInv, IdentityAssumption).                                    *)
(***************************************************************************)


TypeInv ==
    /\ now \in Nat
    /\ made \in 0 .. MaxCommands
    /\ command = [k \in Commands |-> command[k]]
    /\ seen \in [Inspections -> Int]
    /\ \A i \in Inspections : seen[i] \in -1 .. now

(* A command was made for a fresh inspection, not before it was inspected. *)
FreshInv ==
    \A k \in 1 .. made :
        /\ command[k].inspection \in Inspections
        /\ command[k].at \in 0 .. now
        /\ About[command[k].inspection].at <= command[k].at

(* The rule remembers the inspection of a command, or has purged it.       *)
MemoryInv ==
    \A k \in 1 .. made :
        seen[command[k].inspection] = command[k].at \/ command[k].at < Cutoff

(* An approval is only held for an executed command.                       *)
ApprovalInv == acknowledged \subseteq executed

RuleInv == TypeInv /\ FreshInv /\ MemoryInv /\ OneRequestPerInspection /\ AdmittedIsCommanded

TrackerInv == ApprovalInv /\ \A k : <<k, "confirmed">> \in reports => k \in executed

IInv == RuleInv /\ TrackerInv

LEMMA InitHolds == Init => IInv
<1> SUFFICES ASSUME Init PROVE IInv OBVIOUS
<1>1. RuleInv
  BY TrackingAssumption DEF Init, RuleInv, TypeInv, FreshInv, MemoryInv,
     OneRequestPerInspection, AdmittedIsCommanded, Never
<1>2. TrackerInv BY DEF Init, TrackerInv, ApprovalInv
<1> QED BY <1>1, <1>2 DEF IInv

(***************************************************************************)
(* The tracker.                                                            *)
(***************************************************************************)

(* Report with approvals of executed commands confirms only such commands. *)
LEMMA ReportKeeps ==
    ASSUME TrackerInv, executed \subseteq executed', NEW U, NEW R, NEW C, NEW A,
           A \subseteq executed, C \subseteq A, Report(U, R, C, A)
    PROVE  TrackerInv'
<1>1. acknowledged' \subseteq A BY DEF Report
<1>2. ASSUME NEW k, <<k, "confirmed">> \in reports' PROVE k \in executed'
  <2>1. <<k, "confirmed">> \in reports \/ k \in C BY <1>2 DEF Report
  <2> QED BY <2>1 DEF TrackerInv
<1> QED BY <1>1, <1>2 DEF TrackerInv, ApprovalInv

LEMMA TrackerUntouched ==
    ASSUME TrackerInv, executed \subseteq executed', UNCHANGED <<acknowledged, reports>>
    PROVE  TrackerInv'
BY DEF TrackerInv, ApprovalInv

LEMMA ConfirmableIsApproved ==
    ASSUME NEW P, NEW A, NEW F
    PROVE  Confirmable(P, A, F) \subseteq A
BY DEF Confirmable

(***************************************************************************)
(* The rule.                                                               *)
(***************************************************************************)

LEMMA RuleUntouched ==
    ASSUME RuleInv, UNCHANGED <<now, seen, made, command>>
    PROVE  RuleInv'
BY DEF RuleInv, TypeInv, FreshInv, MemoryInv, OneRequestPerInspection, AdmittedIsCommanded, Cutoff

(* What the purge leaves: an entry that is as it was, or one too old.      *)
LEMMA KeptIs ==
    ASSUME TypeInv
    PROVE  /\ Kept \in [Inspections -> Int]
           /\ \A i \in Inspections : Kept[i] = seen[i] \/ (Kept[i] = Never /\ seen[i] < Cutoff)
BY TrackingAssumption DEF Kept, TypeInv, Never, Cutoff

(* A command whose inspection the purged memory does not hold is too old.  *)
LEMMA ForgottenIsOld ==
    ASSUME RuleInv, NEW k \in 1 .. made, Kept[command[k].inspection] = Never
    PROVE  command[k].at < Cutoff
<1>1. command[k].inspection \in Inspections /\ command[k].at \in 0 .. now
  BY DEF RuleInv, FreshInv
<1> QED BY <1>1, KeptIs DEF RuleInv, MemoryInv, Never

(* Time that passes makes commands older and nothing else.                 *)
LEMMA TickKeepsRule == RuleInv /\ Tick => RuleInv'
<1> SUFFICES ASSUME RuleInv, Tick PROVE RuleInv' OBVIOUS
<1>1. now' = now + 1 /\ UNCHANGED <<seen, made, command>> BY DEF Tick, ruleVars
<1>2. TypeInv' /\ FreshInv' BY <1>1 DEF RuleInv, TypeInv, FreshInv
<1>3. MemoryInv'
  BY <1>1, TrackingAssumption DEF RuleInv, TypeInv, FreshInv, MemoryInv, Cutoff
<1> QED BY <1>1, <1>2, <1>3 DEF RuleInv, OneRequestPerInspection, AdmittedIsCommanded

(* A purge forgets only what is too old.                                   *)
LEMMA PurgeKeeps ==
    ASSUME RuleInv, UNCHANGED <<now, made, command>>, seen' = Kept
    PROVE  RuleInv'
<1>1. TypeInv'
  BY KeptIs DEF RuleInv, TypeInv, Never
<1>2. FreshInv' BY DEF RuleInv, FreshInv
<1>3. MemoryInv'
  <2> SUFFICES ASSUME NEW k \in 1 .. made
               PROVE  Kept[command[k].inspection] = command[k].at \/ command[k].at < Cutoff
    BY DEF MemoryInv, Cutoff
  <2>1. command[k].inspection \in Inspections BY DEF RuleInv, FreshInv
  <2> QED BY <2>1, KeptIs, ForgottenIsOld DEF RuleInv, MemoryInv
<1>4. AdmittedIsCommanded'
  BY KeptIs DEF RuleInv, AdmittedIsCommanded
<1> QED BY <1>1, <1>2, <1>3, <1>4 DEF RuleInv, OneRequestPerInspection

(* An admitted inspection that passed is remembered and needs no command.  *)
LEMMA InspectOnlyKeepsRule ==
    ASSUME RuleInv, NEW i \in Inspections, InspectOnly(i)
    PROVE  RuleInv'
<1>1. UNCHANGED <<now, made, command>> BY DEF InspectOnly
<1>2. CASE ~Admitted(i)
  <2>1. seen' = Kept BY <1>2 DEF InspectOnly, Remember
  <2> QED BY <1>1, <2>1, PurgeKeeps
<1>3. CASE Admitted(i)
  <2>1. seen' = [Kept EXCEPT ![i] = now] /\ About[i].passed
    BY <1>3 DEF InspectOnly, Remember
  <2>2. ASSUME NEW k \in 1 .. made, command[k].inspection = i PROVE command[k].at < Cutoff
    <3>1. Kept[i] = Never
      BY <1>3 DEF Admitted, Ignored, Remembered, SameIdentity
    <3> QED BY <2>2, <3>1, ForgottenIsOld
  <2>3. TypeInv' BY <1>1, <2>1, KeptIs DEF RuleInv, TypeInv, Never
  <2>4. FreshInv' BY <1>1 DEF RuleInv, FreshInv
  <2>5. MemoryInv'
    <3> SUFFICES ASSUME NEW k \in 1 .. made
                 PROVE  seen'[command[k].inspection] = command[k].at \/ command[k].at < Cutoff
      BY <1>1 DEF MemoryInv, Cutoff
    <3>1. command[k].inspection \in Inspections BY DEF RuleInv, FreshInv
    <3>2. CASE command[k].inspection = i BY <2>2, <3>2
    <3>3. CASE command[k].inspection # i
      <4>1. seen'[command[k].inspection] = Kept[command[k].inspection]
        BY <2>1, <3>1, <3>3, KeptIs DEF RuleInv
      <4> QED BY <3>1, <4>1, KeptIs, ForgottenIsOld DEF RuleInv, MemoryInv
    <3> QED BY <3>2, <3>3
  <2>6. AdmittedIsCommanded'
    BY <1>1, <2>1, KeptIs DEF RuleInv, AdmittedIsCommanded
  <2> QED BY <1>1, <2>3, <2>4, <2>5, <2>6 DEF RuleInv, OneRequestPerInspection
<1> QED BY <1>2, <1>3

(* No earlier command has the identity of an admitted, fresh inspection.   *)
LEMMA AdmittedIsNew ==
    ASSUME RuleInv, NEW i \in Inspections, Fresh(i), Admitted(i), NEW k \in 1 .. made
    PROVE  ~SameIdentity(About[i], About[command[k].inspection])
<1> SUFFICES ASSUME SameIdentity(About[i], About[command[k].inspection]) PROVE FALSE OBVIOUS
<1> DEFINE j == command[k].inspection
<1>1. j \in Inspections /\ About[j].at <= command[k].at /\ command[k].at \in 0 .. now
  BY DEF RuleInv, FreshInv
<1>2. Kept[j] = Never BY <1>1 DEF Admitted, Ignored, Remembered
<1>3. command[k].at < Cutoff BY <1>2, ForgottenIsOld
<1>4. About[i].at \in Nat /\ About[j].at \in Nat
  BY <1>1, TrackingAssumption DEF Inspection
<1>5. About[i].at <= About[j].at + Grace BY <1>1, IdentityAssumption
<1> HIDE DEF j
<1> QED BY <1>1, <1>3, <1>4, <1>5, TrackingAssumption DEF Fresh, Cutoff, RuleInv, TypeInv

LEMMA InspectFailedKeepsRule ==
    ASSUME RuleInv, NEW i \in Inspections, InspectFailed(i)
    PROVE  RuleInv'
<1> DEFINE new == [inspection |-> i, at |-> now, baseline |-> feedback.count.value]
<1>1. /\ now' = now /\ made < MaxCommands /\ made' = made + 1
      /\ command' = [command EXCEPT ![made + 1] = new]
      /\ seen' = [Kept EXCEPT ![i] = now] /\ Fresh(i) /\ Admitted(i)
  BY DEF InspectFailed, Submittable, Remember
<1>2. /\ made \in Nat /\ now \in Nat /\ made + 1 \in Commands
      /\ \A k \in 1 .. made : k \in Commands /\ k # made + 1
  BY <1>1, TrackingAssumption DEF RuleInv, TypeInv, Commands
<1>3. /\ command'[made + 1] = new
      /\ \A k \in 1 .. made : command'[k] = command[k]
  BY <1>1, <1>2 DEF RuleInv, TypeInv
<1>4. ASSUME NEW k \in 1 .. made' PROVE k \in 1 .. made \/ k = made + 1
  BY <1>1, <1>2
<1>5. seen'[i] = now /\ \A j \in Inspections : j # i => seen'[j] = Kept[j]
  BY <1>1, KeptIs DEF RuleInv
<1>6. TypeInv'
  <2>1. seen' \in [Inspections -> Int] /\ \A j \in Inspections : seen'[j] \in -1 .. now
    BY <1>1, <1>2, <1>5, KeptIs DEF RuleInv, TypeInv, Never
  <2>2. command' = [k \in Commands |-> command'[k]]
    BY <1>1 DEF RuleInv, TypeInv
  <2>3. made' \in 0 .. MaxCommands BY <1>1, <1>2, TrackingAssumption
  <2> QED BY <1>1, <1>2, <2>1, <2>2, <2>3 DEF TypeInv
<1>7. FreshInv'
  <2> SUFFICES ASSUME NEW k \in 1 .. made'
               PROVE  /\ command'[k].inspection \in Inspections
                      /\ command'[k].at \in 0 .. now
                      /\ About[command'[k].inspection].at <= command'[k].at
    BY <1>1 DEF FreshInv
  <2>1. CASE k \in 1 .. made BY <1>3, <2>1 DEF RuleInv, FreshInv
  <2>2. CASE k = made + 1 BY <1>1, <1>2, <1>3, <2>2 DEF Fresh
  <2> QED BY <1>4, <2>1, <2>2
<1>8. MemoryInv'
  <2> SUFFICES ASSUME NEW k \in 1 .. made'
               PROVE  \/ seen'[command'[k].inspection] = command'[k].at
                      \/ command'[k].at < Cutoff
    BY <1>1 DEF MemoryInv, Cutoff
  <2>1. CASE k = made + 1 BY <1>3, <1>5, <2>1
  <2>2. CASE k \in 1 .. made
    <3>1. command'[k] = command[k] /\ command[k].inspection \in Inspections
      BY <1>3, <2>2 DEF RuleInv, FreshInv
    <3>2. command[k].inspection # i
      BY <1>1, <2>2, AdmittedIsNew DEF SameIdentity
    <3>3. seen'[command[k].inspection] = Kept[command[k].inspection]
      BY <1>5, <3>1, <3>2
    <3> QED BY <2>2, <3>1, <3>3, KeptIs, ForgottenIsOld DEF RuleInv, MemoryInv
  <2> QED BY <1>4, <2>1, <2>2
<1>9. OneRequestPerInspection'
  <2> SUFFICES ASSUME NEW j \in 1 .. made', NEW k \in 1 .. made',
                      SameIdentity(About[command'[j].inspection], About[command'[k].inspection])
               PROVE  j = k
    BY DEF OneRequestPerInspection
  <2>1. CASE j \in 1 .. made /\ k \in 1 .. made
    BY <1>3, <2>1 DEF RuleInv, OneRequestPerInspection
  <2>2. CASE j = made + 1 /\ k \in 1 .. made
    BY <1>1, <1>3, <2>2, AdmittedIsNew
  <2>3. CASE j \in 1 .. made /\ k = made + 1
    BY <1>1, <1>3, <2>3, AdmittedIsNew DEF SameIdentity
  <2> QED BY <1>4, <2>1, <2>2, <2>3
<1>10. AdmittedIsCommanded'
  <2> SUFFICES ASSUME NEW j \in Inspections, seen'[j] # Never, ~About[j].passed
               PROVE  \E k \in 1 .. made' : command'[k].inspection = j
    BY DEF AdmittedIsCommanded
  <2>1. CASE j = i BY <1>1, <1>2, <1>3, <2>1
  <2>2. CASE j # i
    <3>1. PICK k \in 1 .. made : command[k].inspection = j
      BY <1>5, <2>2, KeptIs DEF RuleInv, AdmittedIsCommanded
    <3> QED BY <1>1, <1>2, <1>3, <3>1
  <2> QED BY <2>1, <2>2
<1> QED BY <1>6, <1>7, <1>8, <1>9, <1>10 DEF RuleInv

(***************************************************************************)
(* Every action.                                                           *)
(***************************************************************************)

(* Actions that only tell the tracker something.                           *)
LEMMA MessagesKeep ==
    ASSUME IInv,
           \/ OtherMessage
           \/ \E kind \in {"count", "bottle"} : Feedback(kind)
           \/ \E k \in Commands, d \in {"approve", "reject", "pending", "unknown"} : Result(k, d)
           \/ \E i \in Inspections : InspectInVain(i)
    PROVE  IInv'
<1>1. UNCHANGED <<now, seen, made, command, executed>>
  BY DEF OtherMessage, Feedback, Result, InspectInVain, ruleVars, deviceVars
<1>2. acknowledged \subseteq executed BY DEF IInv, TrackerInv, ApprovalInv
<1>3. CASE OtherMessage \/ \E i \in Inspections : InspectInVain(i)
  <2>1. Report(Overdue, {}, {}, acknowledged) BY <1>3 DEF OtherMessage, InspectInVain
  <2>2. TrackerInv' BY <1>1, <1>2, <2>1, ReportKeeps DEF IInv
  <2> QED BY <1>1, <2>2, RuleUntouched DEF IInv
<1>4. ASSUME NEW kind \in {"count", "bottle"}, Feedback(kind) PROVE IInv'
  <2> DEFINE C == Confirmable(pending \ Overdue, acknowledged, feedback')
  <2>1. Report(Overdue, {}, C, acknowledged) BY <1>4 DEF Feedback
  <2>2. C \subseteq acknowledged BY ConfirmableIsApproved
  <2> HIDE DEF C
  <2>3. TrackerInv' BY <1>1, <1>2, <2>1, <2>2, ReportKeeps DEF IInv
  <2> QED BY <1>1, <2>3, RuleUntouched DEF IInv
<1>5. ASSUME NEW k \in Commands, NEW d \in {"approve", "reject", "pending", "unknown"},
             Result(k, d)
      PROVE  IInv'
  <2> DEFINE known   == k \in pending \ Overdue
             A       == IF known /\ d = "approve" THEN acknowledged \cup {k} ELSE acknowledged
             unknown == IF known /\ d = "unknown" THEN {k} ELSE {}
             refused == IF known /\ d = "reject" THEN {k} ELSE {}
             others  == (pending \ Overdue) \ (unknown \cup refused)
             C       == IF known /\ d # "pending" THEN Confirmable(others, A, feedback) ELSE {}
  <2>1. Report(Overdue \cup unknown, refused, C, A) /\ (d = "approve" => k \in executed)
    BY <1>5 DEF Result
  <2>2. A \subseteq executed BY <1>2, <2>1
  <2>3. C \subseteq A BY ConfirmableIsApproved
  <2> HIDE DEF C, A, unknown, refused
  <2>4. TrackerInv' BY <1>1, <2>1, <2>2, <2>3, ReportKeeps DEF IInv
  <2> QED BY <1>1, <2>4, RuleUntouched DEF IInv
<1> QED BY <1>3, <1>4, <1>5

LEMMA InspectKeeps ==
    ASSUME IInv, NEW i \in Inspections, InspectOnly(i) \/ InspectFailed(i)
    PROVE  IInv'
<1>1. RuleInv' BY InspectOnlyKeepsRule, InspectFailedKeepsRule DEF IInv
<1>2. executed' = executed BY DEF InspectOnly, InspectFailed, deviceVars
<1>3. CASE InspectOnly(i)
  <2>1. Report(Overdue, {}, {}, acknowledged) BY <1>3 DEF InspectOnly
  <2>2. acknowledged \subseteq executed BY DEF IInv, TrackerInv, ApprovalInv
  <2> QED BY <1>1, <1>2, <2>1, <2>2, ReportKeeps DEF IInv
<1>4. CASE InspectFailed(i)
  <2>1. /\ acknowledged' = acknowledged \ Overdue
        /\ reports' = reports \cup (Overdue \X {"unknown"})
    BY <1>4 DEF InspectFailed
  <2>2. ASSUME NEW k, <<k, "confirmed">> \in reports' PROVE <<k, "confirmed">> \in reports
    BY <2>1, <2>2
  <2> QED BY <1>1, <1>2, <2>1, <2>2 DEF IInv, TrackerInv, ApprovalInv
<1> QED BY <1>3, <1>4

(* Actions of the clock and the device.                                    *)
LEMMA WorldKeeps ==
    ASSUME IInv,
           \/ Tick \/ Sample \/ UNCHANGED vars
           \/ \E b \in Bottles : RejectManually(b)
           \/ \E k \in Commands : Execute(k)
    PROVE  IInv'
<1>1. executed \subseteq executed' /\ UNCHANGED <<acknowledged, reports>>
  BY DEF Tick, Sample, RejectManually, Execute, vars, deviceVars, trackerVars
<1>2. TrackerInv' BY <1>1, TrackerUntouched DEF IInv
<1>3. CASE Tick BY <1>2, <1>3, TickKeepsRule DEF IInv
<1>4. CASE ~Tick
  <2>1. UNCHANGED <<now, seen, made, command>>
    BY <1>4 DEF Sample, RejectManually, Execute, vars, ruleVars
  <2> QED BY <1>2, <2>1, RuleUntouched DEF IInv
<1> QED BY <1>3, <1>4

LEMMA NextKeeps == IInv /\ [Next]_vars => IInv'
<1> SUFFICES ASSUME IInv, [Next]_vars PROVE IInv' OBVIOUS
<1> QED BY MessagesKeep, InspectKeeps, WorldKeeps DEF Next

LEMMA Inductive == Spec => []IInv
BY InitHolds, NextKeeps, PTL DEF Spec

(* A rejection the tracker reports as confirmed was executed: an approval  *)
(* is required beside the feedback (RejectionTracker._confirm).            *)
THEOREM ConfirmationsAreTrue == Spec => []ConfirmedIsExecuted
<1>1. IInv => ConfirmedIsExecuted BY DEF IInv, TrackerInv, ConfirmedIsExecuted
<1> QED BY <1>1, Inductive, PTL

(* A running agent makes one request for an inspection, however often it   *)
(* is delivered and although the rule forgets it (InspectionRule.update).  *)
THEOREM OneRequest == Spec => []OneRequestPerInspection
<1>1. IInv => OneRequestPerInspection BY DEF IInv, RuleInv
<1> QED BY <1>1, Inductive, PTL

(* The rule never remembers a failed inspection for which the agent made   *)
(* no command: the room in the tracker is asked for before the rule.       *)
THEOREM NothingSuppressed == Spec => []AdmittedIsCommanded
<1>1. IInv => AdmittedIsCommanded BY DEF IInv, RuleInv
<1> QED BY <1>1, Inductive, PTL

(***************************************************************************)
(* The production mode, for any speeds, bands, samples and faults.         *)
(*                                                                         *)
(* The order in which samples arrive is arbitrary, so the theorem rests on *)
(* what ProductionModeRule.update keeps: the time of its latest            *)
(* observation is that of the newest sample it was shown, and its mode is  *)
(* the band of that sample whenever the sample lies in one.                *)
(***************************************************************************)


ModeTypes ==
  /\ conveyor.setpoint \in Int
  /\ samples \in Seq(Int)
  /\ newest \in 0 .. Len(samples)
  /\ rule.latest = newest

ModeInv == ModeTypes /\ ModeFollowsNewest

(* A command leaves the setpoint a number (MotorControl.apply).            *)
LEMMA ApplyKeepsNumber ==
  ASSUME NEW m, m.setpoint \in Int, NEW op, NEW value \in Int
  PROVE  ApplyCommand(m, op, value).setpoint \in Int
BY DEF ApplyCommand

(* A step that changes neither samples nor what the agent knows of them.   *)
LEMMA AgentUntouched ==
  ASSUME ModeInv, conveyor'.setpoint \in Int, UNCHANGED <<samples, newest, rule>>
  PROVE  ModeInv'
BY DEF ModeInv, ModeTypes, ModeFollowsNewest, Band

LEMMA ModeInit == LineInit => ModeInv
BY BandsAssumption DEF LineInit, ModeInv, ModeTypes, ModeFollowsNewest

LEMMA CommandKeeps == ModeInv /\ Command => ModeInv'
<1> SUFFICES ASSUME ModeInv, Command PROVE ModeInv' OBVIOUS
<1>1. conveyor'.setpoint \in Int
  <2>1. CASE \E speed \in Speeds : conveyor' = ApplyCommand(conveyor, 2, speed)
    BY <2>1, ApplyKeepsNumber, BandsAssumption DEF ModeInv, ModeTypes
  <2>2. CASE \E operation \in {1, 3}, value \in {0, 1} :
               conveyor' = ApplyCommand(conveyor, operation, value)
    BY <2>2, ApplyKeepsNumber DEF ModeInv, ModeTypes
  <2> QED BY <2>1, <2>2 DEF Command
<1>2. UNCHANGED <<samples, newest, rule>> BY DEF Command, agentVars
<1> QED BY <1>1, <1>2, AgentUntouched

LEMMA TickConveyorKeeps == ModeInv /\ TickConveyor => ModeInv'
<1> SUFFICES ASSUME ModeInv, TickConveyor PROVE ModeInv' OBVIOUS
<1>1. conveyor' = ApplyCommand(conveyor, 4, 1) \/ conveyor' = conveyor
  BY DEF TickConveyor, Jam, Hold
<1>2. conveyor'.setpoint \in Int BY <1>1, ApplyKeepsNumber DEF ModeInv, ModeTypes
<1>3. UNCHANGED <<samples, newest, rule>> BY DEF TickConveyor, agentVars
<1> QED BY <1>2, <1>3, AgentUntouched

(* A new sample changes nothing about the older ones.                      *)
LEMMA SampleKeeps == ModeInv /\ SampleSpeed => ModeInv'
<1> SUFFICES ASSUME ModeInv, SampleSpeed PROVE ModeInv' OBVIOUS
<1>1. /\ samples' = Append(samples, conveyor.setpoint)
      /\ UNCHANGED <<conveyor, newest, rule>>
  BY DEF SampleSpeed, agentVars
<1>2. /\ samples' \in Seq(Int) /\ Len(samples') = Len(samples) + 1
      /\ \A n \in 1 .. Len(samples) : samples'[n] = samples[n]
  BY <1>1 DEF ModeInv, ModeTypes
<1>3. newest > 0 => newest \in 1 .. Len(samples) /\ samples'[newest] = samples[newest]
  BY <1>2 DEF ModeInv, ModeTypes
<1> QED BY <1>1, <1>2, <1>3 DEF ModeInv, ModeTypes, ModeFollowsNewest, Band

(* A late sample is left aside, the newest one decides the mode.           *)
LEMMA ObserveKeeps ==
  ASSUME ModeInv, NEW i \in DOMAIN samples, Observe(i)
  PROVE  ModeInv'
<1>1. UNCHANGED <<conveyor, samples>> BY DEF Observe, conveyorVars
<1>2. i \in 1 .. Len(samples) BY DEF ModeInv, ModeTypes
<1>3. CASE i < newest
  <2>1. UNCHANGED <<newest, rule>>
    BY <1>2, <1>3 DEF Observe, Update, NotOlder, ModeInv, ModeTypes
  <2> QED BY <1>1, <2>1, AgentUntouched DEF ModeInv, ModeTypes
<1>4. CASE ~(i < newest)
  <2>1. newest' = i BY <1>2, <1>4 DEF Observe, ModeInv, ModeTypes
  <2>2. rule' = [latest |-> i, mode |-> IF Band(samples[i]) = NoMode THEN rule.mode
                                                                  ELSE Band(samples[i])]
    BY <1>2, <1>4 DEF Observe, Update, NotOlder, ModeInv, ModeTypes
  <2>3. ModeTypes' BY <1>1, <1>2, <2>1, <2>2 DEF ModeInv, ModeTypes
  <2>4. ModeFollowsNewest' BY <1>1, <2>1, <2>2 DEF ModeFollowsNewest, Band
  <2> QED BY <2>3, <2>4 DEF ModeInv
<1> QED BY <1>3, <1>4

LEMMA RestartAgentKeeps == ModeInv /\ RestartAgent => ModeInv'
BY DEF ModeInv, ModeTypes, ModeFollowsNewest, RestartAgent, conveyorVars

LEMMA OthersKeep == ModeInv /\ (Write \/ Refuse \/ TickOpcua \/ UNCHANGED lineVars) => ModeInv'
<1> SUFFICES ASSUME ModeInv, Write \/ Refuse \/ TickOpcua \/ UNCHANGED lineVars PROVE ModeInv' OBVIOUS
<1>1. UNCHANGED <<conveyor, samples, newest, rule>>
  BY DEF Write, Refuse, TickOpcua, lineVars, conveyorVars, agentVars
<1> QED BY <1>1, AgentUntouched DEF ModeInv, ModeTypes

(* The mode of ProductionModeRule is the band of the newest speed it was   *)
(* ever shown, however late, often or out of order samples arrive.         *)
THEOREM ModeIsNewest == LineSpec => []ModeFollowsNewest
<1>1. ModeInv /\ [LineNext]_lineVars => ModeInv'
  BY CommandKeeps, TickConveyorKeeps, SampleKeeps, ObserveKeeps, RestartAgentKeeps, OthersKeep
     DEF LineNext
<1>2. ModeInv => ModeFollowsNewest BY DEF ModeInv
<1> QED BY ModeInit, <1>1, <1>2, PTL DEF LineSpec
=============================================================================
