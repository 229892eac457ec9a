--------------------------- MODULE CampaignProofs ---------------------------
(***************************************************************************)
(* The safety properties of LiveCampaign, for any of the four scripts and  *)
(* any sequence of fault cases.                                            *)
(*                                                                         *)
(* Two arguments meet in the verdict.  What is restored rests on the order *)
(* of each script: whatever it has changed, it has noted first and its     *)
(* finally block still has ahead of it.  What a fault case yields rests on *)
(* the mode the proxy had when the writer connected, which the script      *)
(* lifts only when the row has settled.                                    *)
(***************************************************************************)
EXTENDS LiveCampaign, SequenceTheorems, FiniteSetTheorems, TLAPS

Rows == {"none", "preparing", "started", "retryable", "unknown", "completed"}
Modes == {"normal", "disconnect_before_write", "drop_commit", "drop_ack", "hold_ack"}
Stages == {"idle", "dialed", "open", "begun", "committed", "held"}
Results == {"approve", "replayed", "unknown", "reject", "retry", "pending"}

Events == {"disconnected_before_write", "commit_dropped", "commit_forwarded", "ack_dropped",
           "ack_held", "ack_forwarded"}
Evidence ==
  [first : Results \cup {"none"}, firstRow : Rows \cup {"unread"}, firstEffects : Nat,
   held : BOOLEAN, replay : Results \cup {"none"}, effects : Nat, row : Rows,
   journals : SUBSET Nat, proxy : SUBSET Events]

\* The steps of a case whose command exists.
Active == (CaseSteps \ {"case"}) \cup {"judge"}

ScriptType ==
  /\ pc \in CaseSteps \cup {"judge", "run", "restore", "done"}
  /\ name \in Names \cup {"none"}
  /\ changed \subseteq Parts
  /\ plan \in Modes /\ expired \in BOOLEAN /\ slow \in BOOLEAN

WriterType ==
  /\ row \in Rows /\ conn \in [stage : Stages, mode : Modes]
  /\ mail \in BOOLEAN /\ events \subseteq Events /\ journal \subseteq Nat
  /\ effects \in Nat /\ inits \in Nat

BusType ==
  /\ inbox \in Nat /\ outbox \in Seq(Results) /\ asked \in BOOLEAN
  /\ reply \in Results \cup {"none", "waiting"}

CaseType == ScriptType /\ WriterType /\ BusType /\ entry \in Evidence

ControlType ==
  /\ campaign \in {"fault", "recovery", "capture", "assurance"}
  /\ step \in Nat \ {0}
  /\ saved \subseteq Parts
  /\ errors \in BOOLEAN /\ contradicted \in BOOLEAN /\ wrong \in BOOLEAN
  /\ restoring \in Nat \ {0}
  /\ cleanup \subseteq Parts /\ disk \subseteq Parts
  /\ verdict \in {"none", "pass", "fail", "unknown"}

TypeOK == CaseType /\ ControlType

-----------------------------------------------------------------------------
(* What is restored.                                                       *)

\* The original without which a part is not restored.
Original(c, p) == IF c = "recovery" THEN "jam" ELSE p
Conditional(c, p) == CASE c = "fault" -> p \in {"template", "controls"}
                       [] c = "recovery" -> p \in {"jam", "controls"}
                       [] OTHER -> TRUE

\* The originals the script has passed are held, among them those of the parts it changed.
NotedInv ==
  /\ \A i \in 1..(step - 1) :
       i <= Len(Program[campaign]) /\ Program[campaign][i][1] = "save" =>
         Program[campaign][i][2] \in saved
  /\ \A p \in changed : Conditional(campaign, p) => Original(campaign, p) \in saved

\* Nothing is restored, recorded or judged before the finally block; unless the run
\* failed, the program is over by then.
OrderInv ==
  /\ pc \notin {"restore", "done"} => restoring = 1 /\ cleanup = {} /\ disk = {}
  /\ pc # "done" => verdict = "none"
  /\ pc \in {"restore", "done"} /\ ~errors => step > Len(Program[campaign])
  /\ pc \in CaseSteps \cup {"judge"} =>
       /\ campaign = "fault" /\ step > 2 /\ name \in Names
       /\ step <= Len(Program[campaign]) /\ Program[campaign][step][1] = "case"

\* Unless a restoration failed, every part that is changed is still to be restored.
AheadInv ==
  cleanup = {} /\ pc # "done" =>
    \A p \in changed :
      \E i \in 1..Len(RestoreOrder[campaign]) : i >= restoring /\ RestoreOrder[campaign][i] = p

\* The command-fault script pauses decisions before it changes anything else.
PausedInv ==
  campaign = "fault" /\ pc \notin {"restore", "done"} =>
    /\ step <= 2 => changed = {}
    /\ step > 2 => "agent" \in changed

WrongInv == wrong => contradicted

-----------------------------------------------------------------------------
(* What a fault case yields.                                               *)

\* How the script's steps depend on the case.
FlowInv ==
  /\ pc \in {"hold", "restart"} => name = "writer_restart_after_effect"
  /\ pc = "expire" => name = "delayed_expired_command"
  /\ pc = "reply" => name \notin {"caller_reply_lost", "delayed_expired_command"}
  /\ pc = "settle" => name \notin {"writer_restart_after_effect", "delayed_expired_command"}
  /\ pc \in {"plan", "submit"} => row = "none" /\ inbox = 0 /\ ~asked /\ outbox = <<>>

\* Ledger row, connection, mailbox and what really happened move together.
StageInv ==
  /\ conn.stage = "idle" => row \notin {"preparing", "started"}
  /\ conn.stage \in {"dialed", "open"} => row = "preparing"
  /\ conn.stage \in {"begun", "committed", "held"} => row = "started"
  /\ row \in {"none", "retryable", "preparing"} => inits = 0 /\ effects = 0 /\ ~mail
  /\ row \in {"started", "unknown", "completed"} => inits = 1
  /\ conn.stage = "begun" => effects = 0 /\ ~mail
  /\ conn.stage \in {"committed", "held"} => effects = IF mail THEN 0 ELSE 1
  /\ conn.stage = "held" => ~mail
  /\ row = "completed" => effects = 1 /\ ~mail
  /\ effects \in {0, 1} /\ (mail => effects = 0)

\* A held acknowledgement: the effect has happened and the writer still waits or gave up.
HeldInv ==
  /\ "ack_held" \in events =>
       conn.stage \in {"idle", "held"} /\ row \in {"started", "unknown"} /\ effects = 1 /\ ~mail
  /\ pc = "restart" => "ack_held" \in events

\* The cases whose first delivery ends unknown.
Lossy == {"commit_dropped", "native_ack_lost", "writer_restart_after_effect"}

\* A connection has the case's mode, or the normal one once the fault is lifted.
ModeInv ==
  /\ plan \in {"normal", Mode(name)} /\ conn.mode \in {"normal", Mode(name)}
  /\ pc \in {"replay", "resettle"} => plan = "normal"
  /\ name \in Lossy /\ ~slow /\ conn.stage \in {"open", "begun", "committed", "held"} =>
       conn.mode = Mode(name)
  /\ conn.stage \in {"open", "begun", "committed", "held"} => conn.mode # "disconnect_before_write"
  /\ name \in Lossy /\ pc \in {"submit", "hold", "restart", "settle", "reply"} =>
       plan = Mode(name) \/ row = "unknown"

\* The fault is lifted when the row of an undisturbed lossy case is settled for good.
LossyInv ==
  name \in Lossy /\ ~slow =>
    /\ row \in {"none", "preparing", "started", "unknown"}
    /\ pc \in {"first", "replay", "resettle", "judge"} => row = "unknown"
    /\ name = "writer_restart_after_effect" /\ pc = "reply" => row = "unknown"

\* Without a timeout an unknown row means what the case says.
UnknownInv ==
  row = "unknown" /\ ~slow /\ name # "caller_reply_lost" =>
    name \in Lossy /\ effects = EXPECTED[name][1] /\ ~mail

\* The caller that waits without a timeout is owed exactly one result.
Owed == inbox + (IF asked THEN 1 ELSE 0) + Len(outbox)
OwedInv ==
  name = "before_write_disconnect" =>
    /\ pc \in {"reply", "settle", "first", "replay", "resettle"} /\ ~slow =>
         Owed = IF reply = "waiting" THEN 1 ELSE 0
    /\ pc \in {"settle", "first", "resettle"} => reply # "waiting"
    /\ pc \in {"replay", "resettle", "judge"} /\ ~slow /\ inbox = 0 => row # "retryable"
    /\ pc = "judge" /\ ~slow => inbox = 0

\* The cases that end without the fault: a completed command, and an expired one.
SettledInv ==
  /\ name = "caller_reply_lost" /\ pc \in {"first", "replay", "resettle", "judge"} =>
       row = "completed"
  /\ name # "delayed_expired_command" => ~expired
  /\ pc = "judge" => Settled \/ name = "delayed_expired_command"
  /\ name = "delayed_expired_command" =>
       /\ row = "none"
       /\ pc \in {"plan", "submit", "expire"} => "ingress" \in changed
       /\ pc \in {"first", "replay", "resettle", "judge"} => expired

\* The journals captured hold every initiation once.
JournalInv ==
  /\ journal \cup entry.journals = 1..inits
  /\ pc \in {"plan", "submit", "hold"} => entry.journals = {}
  /\ pc = "restart" => entry.journals = {1}
  /\ pc = "judge" => /\ entry.journals = 1..inits
                     /\ entry.effects = effects /\ entry.row = row

CaseFacts ==
  /\ FlowInv /\ StageInv /\ HeldInv /\ ModeInv /\ LossyInv /\ UnknownInv /\ OwedInv
  /\ SettledInv /\ JournalInv
CaseInv == pc \in Active => CaseFacts

IInv ==
  /\ TypeOK /\ NotedInv /\ OrderInv /\ AheadInv /\ PausedInv /\ WrongInv
  /\ RestoredIsTrue /\ PassIsEarned /\ DecisionsPaused /\ CaseInv

-----------------------------------------------------------------------------
(* The scripts and their finally blocks.                                   *)

\* What the proofs use of the i-th operation of script c: a part is changed only when
\* the finally block restores it and the original it needs has been noted.
Sound(c, i) ==
  LET op == Program[c][i]
  IN /\ op[1] \in {"save", "change", "undo", "end", "case"}
     /\ op[1] \in {"save", "change", "undo"} => op[2] \in Parts
     /\ op[1] = "case" => c = "fault" /\ i > 2 /\ op[2] \in Names
     /\ op[1] = "change" =>
          /\ \E k \in 1..Len(RestoreOrder[c]) : RestoreOrder[c][k] = op[2]
          /\ Conditional(c, op[2]) =>
               \E j \in 1..(i - 1) : Program[c][j] = <<"save", Original(c, op[2])>>
     /\ c = "fault" => /\ op[1] # "undo"
                       /\ i = 1 => op[1] = "save"
                       /\ i = 2 => op[1] = "change" /\ op[2] = "agent"

LEMMA FaultOps ==
  /\ Len(Program["fault"]) = 5 + Len(Cases) /\ Len(Cases) \in Nat
  /\ Program["fault"][1] = <<"save", "controls">>
  /\ Program["fault"][2] = <<"change", "agent">>
  /\ Program["fault"][3] = <<"change", "controls">>
  /\ Program["fault"][4] = <<"save", "template">>
  /\ Program["fault"][5] = <<"change", "template">>
  /\ \A i \in 1..Len(Cases) :
       Program["fault"][5 + i] = <<"case", Cases[i]>> /\ Cases[i] \in Names
<1>1. Program["fault"] = FaultProgram  BY DEF Program
<1> QED  BY <1>1, CampaignAssumption DEF FaultProgram, FaultSetup, Install

LEMMA RecoveryOps ==
  /\ Len(Program["recovery"]) = 14
  /\ Program["recovery"][1] = <<"save", "controls">>
  /\ Program["recovery"][2] = <<"save", "jam">>
  /\ Program["recovery"][3] = <<"change", "jam">>
  /\ Program["recovery"][4] = <<"change", "controls">>
  /\ Program["recovery"][5] = <<"end", "producer_restart">>
  /\ Program["recovery"][6] = <<"end", "publisher_restart">>
  /\ Program["recovery"][7] = <<"change", "ingress">>
  /\ Program["recovery"][8] = <<"change", "agent">>
  /\ Program["recovery"][9] = <<"undo", "agent">>
  /\ Program["recovery"][10] = <<"undo", "ingress">>
  /\ Program["recovery"][11] = <<"change", "broker">>
  /\ Program["recovery"][12] = <<"undo", "broker">>
  /\ Program["recovery"][13] = <<"end", "run">>
  /\ Program["recovery"][14] = <<"end", "finish">>
<1>1. Program["recovery"] = RecoveryProgram  BY DEF Program
<1> QED  BY <1>1 DEF RecoveryProgram, RecoverySetup, ProducerRestarts, ConsumerRestart, Outage

LEMMA CaptureOps ==
  /\ Len(Program["capture"]) = 3
  /\ Program["capture"][1] = <<"save", "agent">>
  /\ Program["capture"][2] = <<"change", "agent">>
  /\ Program["capture"][3] = <<"end", "execute">>
  /\ Len(Program["assurance"]) = 5
  /\ Program["assurance"][1] = <<"save", "agent">>
  /\ Program["assurance"][2] = <<"change", "agent">>
  /\ Program["assurance"][3] = <<"save", "jam">>
  /\ Program["assurance"][4] = <<"change", "jam">>
  /\ Program["assurance"][5] = <<"end", "execute">>
<1>1. Program["capture"] = CaptureProgram /\ Program["assurance"] = AssuranceProgram
  BY DEF Program
<1> QED  BY <1>1 DEF CaptureProgram, AssuranceProgram

LEMMA Orders ==
  /\ Len(RestoreOrder["fault"]) = 4
  /\ RestoreOrder["fault"][1] = "template" /\ RestoreOrder["fault"][2] = "controls"
  /\ RestoreOrder["fault"][3] = "ingress" /\ RestoreOrder["fault"][4] = "agent"
  /\ Len(RestoreOrder["recovery"]) = 5
  /\ RestoreOrder["recovery"][1] = "agent" /\ RestoreOrder["recovery"][2] = "broker"
  /\ RestoreOrder["recovery"][3] = "ingress" /\ RestoreOrder["recovery"][4] = "jam"
  /\ RestoreOrder["recovery"][5] = "controls"
  /\ Len(RestoreOrder["capture"]) = 1 /\ RestoreOrder["capture"][1] = "agent"
  /\ Len(RestoreOrder["assurance"]) = 2
  /\ RestoreOrder["assurance"][1] = "jam" /\ RestoreOrder["assurance"][2] = "agent"
BY DEF RestoreOrder

\* Every operation of every script is sound.
LEMMA Scripts ==
  ASSUME NEW c \in {"fault", "recovery", "capture", "assurance"}
  PROVE  /\ Len(Program[c]) \in Nat /\ Len(RestoreOrder[c]) \in Nat
         /\ \A i \in 1..Len(Program[c]) : Sound(c, i)
         /\ \A i \in 1..Len(RestoreOrder[c]) : RestoreOrder[c][i] \in Parts
<1>1. CASE c = "fault"
  <2>1. ASSUME NEW i \in 1..Len(Program[c])  PROVE Sound(c, i)
    <3>1. CASE i = 1  BY <1>1, <3>1, FaultOps DEF Sound, Parts
    <3>2. CASE i = 2
      BY <1>1, <3>2, FaultOps, Orders DEF Sound, Parts, Conditional
    <3>3. CASE i = 3
      BY <1>1, <3>3, FaultOps, Orders DEF Sound, Parts, Conditional, Original
    <3>4. CASE i = 4  BY <1>1, <3>4, FaultOps DEF Sound, Parts
    <3>5. CASE i = 5
      BY <1>1, <3>5, FaultOps, Orders DEF Sound, Parts, Conditional, Original
    <3>6. CASE i > 5
      <4>1. PICK j \in 1..Len(Cases) : i = 5 + j
        <5>1. i - 5 \in 1..Len(Cases) /\ i = 5 + (i - 5)  BY <1>1, <3>6, FaultOps
        <5> QED  BY <5>1
      <4>2. Program[c][i] = <<"case", Cases[j]>> /\ Cases[j] \in Names  BY <1>1, <4>1, FaultOps
      <4> QED  BY <1>1, <3>6, <4>2 DEF Sound
    <3> QED  BY <1>1, <3>1, <3>2, <3>3, <3>4, <3>5, <3>6, FaultOps
  <2> QED  BY <1>1, <2>1, FaultOps, Orders DEF Parts
<1>2. CASE c = "recovery"
  <2>1. ASSUME NEW i \in 1..14  PROVE Sound(c, i)
    <3>1. CASE i \in {1, 2}  BY <1>2, <3>1, RecoveryOps DEF Sound, Parts
    <3>2. CASE i = 3
      BY <1>2, <3>2, RecoveryOps, Orders DEF Sound, Parts, Conditional, Original
    <3>3. CASE i = 4
      BY <1>2, <3>3, RecoveryOps, Orders DEF Sound, Parts, Conditional, Original
    <3>4. CASE i \in {5, 6, 13, 14}  BY <1>2, <3>4, RecoveryOps DEF Sound, Parts
    <3>5. CASE i \in {9, 10, 12}  BY <1>2, <3>5, RecoveryOps DEF Sound, Parts
    <3>6. CASE i \in {7, 8, 11}
      BY <1>2, <3>6, RecoveryOps, Orders DEF Sound, Parts, Conditional
    <3> QED  BY <3>1, <3>2, <3>3, <3>4, <3>5, <3>6
  <2> QED  BY <1>2, <2>1, RecoveryOps, Orders DEF Parts
<1>3. CASE c = "capture"
  <2>1. ASSUME NEW i \in 1..3  PROVE Sound(c, i)
    <3>1. CASE i \in {1, 3}  BY <1>3, <3>1, CaptureOps DEF Sound, Parts
    <3>2. CASE i = 2  BY <1>3, <3>2, CaptureOps, Orders DEF Sound, Parts, Conditional, Original
    <3> QED  BY <3>1, <3>2
  <2> QED  BY <1>3, <2>1, CaptureOps, Orders DEF Parts
<1>4. CASE c = "assurance"
  <2>1. ASSUME NEW i \in 1..5  PROVE Sound(c, i)
    <3>1. CASE i \in {1, 3, 5}  BY <1>4, <3>1, CaptureOps DEF Sound, Parts
    <3>2. CASE i = 2  BY <1>4, <3>2, CaptureOps, Orders DEF Sound, Parts, Conditional, Original
    <3>3. CASE i = 4  BY <1>4, <3>3, CaptureOps, Orders DEF Sound, Parts, Conditional, Original
    <3> QED  BY <3>1, <3>2, <3>3
  <2> QED  BY <1>4, <2>1, CaptureOps, Orders DEF Parts
<1> QED  BY <1>1, <1>2, <1>3, <1>4

-----------------------------------------------------------------------------
(* The steps of a case after its start.                                    *)

CaseMove ==
  \/ Deliver \/ Connect \/ Begin \/ Commit \/ Consume \/ Acknowledge
  \/ NativeFailure \/ GiveUp \/ Publish \/ CallerTimeout
  \/ SetPlan \/ Submit \/ CaptureHeld \/ RestartHeld \/ FirstReply
  \/ Expire \/ Settle \/ Replay \/ SecondReply \/ CaptureAfter

\* What each case expects, and the mode its proxy is given.
LEMMA CaseTable ==
  /\ Names = {"caller_reply_lost", "before_write_disconnect", "commit_dropped",
              "native_ack_lost", "writer_restart_after_effect", "delayed_expired_command"}
  /\ EXPECTED["caller_reply_lost"][1] = 1 /\ EXPECTED["caller_reply_lost"][2] = "completed"
  /\ EXPECTED["before_write_disconnect"][1] = 1
  /\ EXPECTED["before_write_disconnect"][2] = "completed"
  /\ EXPECTED["commit_dropped"][1] = 0 /\ EXPECTED["commit_dropped"][2] = "unknown"
  /\ EXPECTED["native_ack_lost"][1] = 1 /\ EXPECTED["native_ack_lost"][2] = "unknown"
  /\ EXPECTED["writer_restart_after_effect"][1] = 1
  /\ EXPECTED["writer_restart_after_effect"][2] = "unknown"
  /\ EXPECTED["delayed_expired_command"][1] = 0
  /\ EXPECTED["delayed_expired_command"][2] = "none"
BY DEF EXPECTED, Names

LEMMA ModeTable ==
  /\ Mode("before_write_disconnect") = "disconnect_before_write"
  /\ Mode("commit_dropped") = "drop_commit"
  /\ Mode("native_ack_lost") = "drop_ack"
  /\ Mode("writer_restart_after_effect") = "hold_ack"
  /\ Mode("caller_reply_lost") = "normal"
  /\ Mode("delayed_expired_command") = "normal"
  /\ \A c : Mode(c) \in Modes
BY DEF Mode, EXPECTED, Names, Modes

LEMMA EvidenceUpdate ==
  ASSUME NEW e \in Evidence
  PROVE  /\ \A v \in SUBSET Events, u \in Rows \cup {"unread"}, j \in SUBSET Nat :
              [e EXCEPT !.proxy = v, !.firstRow = u, !.journals = j] \in Evidence
         /\ \A r \in Results \cup {"none"} :
              [e EXCEPT !.first = r] \in Evidence /\ [e EXCEPT !.replay = r] \in Evidence
         /\ \A b \in BOOLEAN : [e EXCEPT !.held = b] \in Evidence
         /\ \A u \in Rows \cup {"unread"}, n \in Nat :
              [e EXCEPT !.firstRow = u, !.firstEffects = n] \in Evidence
         /\ \A n \in Nat, w \in Rows, j \in SUBSET Nat, v \in SUBSET Events :
              [e EXCEPT !.effects = n, !.row = w, !.journals = j, !.proxy = v] \in Evidence
<1>1. ASSUME NEW v \in SUBSET Events, NEW u \in Rows \cup {"unread"}, NEW j \in SUBSET Nat
      PROVE  [e EXCEPT !.proxy = v, !.firstRow = u, !.journals = j] \in Evidence
  BY DEF Evidence
<1>2. ASSUME NEW r \in Results \cup {"none"}
      PROVE  [e EXCEPT !.first = r] \in Evidence /\ [e EXCEPT !.replay = r] \in Evidence
  BY DEF Evidence
<1>3. ASSUME NEW b \in BOOLEAN  PROVE [e EXCEPT !.held = b] \in Evidence  BY DEF Evidence
<1>4. ASSUME NEW u \in Rows \cup {"unread"}, NEW n \in Nat
      PROVE  [e EXCEPT !.firstRow = u, !.firstEffects = n] \in Evidence
  BY DEF Evidence
<1>5. ASSUME NEW n \in Nat, NEW w \in Rows, NEW j \in SUBSET Nat, NEW v \in SUBSET Events
      PROVE  [e EXCEPT !.effects = n, !.row = w, !.journals = j, !.proxy = v] \in Evidence
  BY DEF Evidence
<1> QED  BY <1>1, <1>2, <1>3, <1>4, <1>5

\* The script's variables keep their types,
LEMMA ScriptTypeStep ==
  ASSUME CaseType, CaseMove
  PROVE  ScriptType'
<1>1. \/ NativeFailure \/ CallerTimeout \/ SetPlan \/ Submit \/ CaptureHeld \/ RestartHeld
      \/ FirstReply \/ Expire \/ Settle \/ Replay \/ SecondReply \/ CaptureAfter
      \/ UNCHANGED <<pc, name, changed, plan, expired, slow>>
  BY DEF CaseMove, script, proxy, writer, bus, truth, Deliver, Connect, Begin, Commit,
         Consume, Acknowledge, GiveUp, Publish
<1>2. CASE NativeFailure
  BY <1>2 DEF NativeFailure, script, proxy, CaseType, ScriptType
<1>3. CASE CallerTimeout
  BY <1>3 DEF CallerTimeout, script, proxy, CaseType, ScriptType
<1>4. CASE SetPlan
  BY <1>4, ModeTable DEF SetPlan, truth, CaseType, ScriptType, CaseSteps
<1>5. CASE Submit
  BY <1>5 DEF Submit, proxy, truth, CaseType, ScriptType, CaseSteps
<1>6. CASE CaptureHeld
  BY <1>6 DEF CaptureHeld, proxy, truth, CaseType, ScriptType, CaseSteps
<1>7. CASE RestartHeld
  BY <1>7 DEF RestartHeld, RestartWriter, truth, CaseType, ScriptType, CaseSteps, Modes
<1>8. CASE FirstReply
  BY <1>8 DEF FirstReply, proxy, truth, CaseType, ScriptType, CaseSteps
<1>9. CASE Expire
  BY <1>9 DEF Expire, proxy, truth, CaseType, ScriptType, CaseSteps
<1>10. CASE Settle
  BY <1>10 DEF Settle, proxy, truth, CaseType, ScriptType, CaseSteps
<1>11. CASE Replay
  BY <1>11, ModeTable DEF Replay, truth, CaseType, ScriptType, CaseSteps
<1>12. CASE SecondReply
  BY <1>12 DEF SecondReply, proxy, truth, CaseType, ScriptType, CaseSteps
<1>13. CASE CaptureAfter
  BY <1>13 DEF CaptureAfter, proxy, truth, CaseType, ScriptType
<1>14. CASE UNCHANGED <<pc, name, changed, plan, expired, slow>>
  BY <1>14 DEF CaseType, ScriptType
<1> QED  BY <1>1, <1>2, <1>3, <1>4, <1>5, <1>6, <1>7, <1>8, <1>9, <1>10, <1>11, <1>12,
      <1>13, <1>14

\* so do the writer's and the device's,
LEMMA WriterTypeStep ==
  ASSUME CaseType, CaseMove
  PROVE  WriterType'
<1>1. \/ Deliver \/ Connect \/ Begin \/ Commit \/ Consume \/ Acknowledge \/ NativeFailure
      \/ RestartHeld \/ UNCHANGED <<row, conn, mail, events, journal, effects, inits>>
  BY DEF CaseMove, script, proxy, writer, bus, truth, GiveUp, Publish, CallerTimeout,
         SetPlan, Submit, CaptureHeld, FirstReply, Expire, Settle, Replay, SecondReply,
         CaptureAfter
<1>2. CASE Deliver
  BY <1>2 DEF Deliver, proxy, truth, CaseType, WriterType, Rows, Modes, Stages
<1>3. CASE Connect
  <2>1. conn' \in [stage : Stages, mode : Modes]
    BY <1>3 DEF Connect, Finish, Idle, CaseType, ScriptType, WriterType, Stages, Modes
  <2>2. row' \in Rows /\ events' \subseteq Events
    BY <1>3 DEF Connect, Finish, CaseType, WriterType, Rows, Events
  <2> QED  BY <1>3, <2>1, <2>2 DEF Connect, CaseType, WriterType, truth
<1>4. CASE Begin
  BY <1>4 DEF Begin, proxy, CaseType, WriterType, Rows, Stages
<1>5. CASE Commit
  <2>1. conn' \in [stage : Stages, mode : Modes]
    BY <1>5 DEF Commit, Finish, Idle, CaseType, ScriptType, WriterType, Stages, Modes
  <2>2. row' \in Rows /\ events' \subseteq Events
    BY <1>5 DEF Commit, Finish, CaseType, WriterType, Rows, Events
  <2> QED  BY <1>5, <2>1, <2>2 DEF Commit, CaseType, WriterType, truth
<1>6. CASE Consume
  <2>1. effects' \in Nat  BY <1>6 DEF Consume, CaseType, WriterType
  <2>2. mail' \in BOOLEAN  BY <1>6, Zenon DEF Consume
  <2> QED  BY <1>6, <2>1, <2>2 DEF Consume, CaseType, WriterType, writer, proxy
<1>7. CASE Acknowledge
  BY <1>7 DEF Acknowledge, Finish, Idle, truth, CaseType, WriterType, Rows, Modes, Stages,
         Events
<1>8. CASE NativeFailure
  BY <1>8 DEF NativeFailure, Finish, Idle, proxy, CaseType, WriterType, Rows, Modes, Stages
<1>9. CASE RestartHeld
  BY <1>9 DEF RestartHeld, RestartWriter, Recover, Idle, truth, CaseType, WriterType, Rows,
         Modes, Stages
<1>10. CASE UNCHANGED <<row, conn, mail, events, journal, effects, inits>>
  BY <1>10 DEF CaseType, WriterType
<1> QED  BY <1>1, <1>2, <1>3, <1>4, <1>5, <1>6, <1>7, <1>8, <1>9, <1>10

\* those of the messages under way,
LEMMA BusTypeStep ==
  ASSUME CaseType, CaseMove
  PROVE  BusType'
<1>1. \/ Deliver \/ Connect \/ Commit \/ Acknowledge \/ NativeFailure \/ GiveUp \/ Publish
      \/ CallerTimeout \/ Submit \/ Replay \/ UNCHANGED <<inbox, outbox, asked, reply>>
  BY DEF CaseMove, script, proxy, writer, bus, truth, Begin, Consume, SetPlan, CaptureHeld,
         RestartHeld, FirstReply, Expire, Settle, SecondReply, CaptureAfter
<1>2. CASE Deliver
  <2>1. outbox' = outbox \/ \E r \in Results : outbox' = Append(outbox, r)
    BY <1>2 DEF Deliver, Results
  <2>2. outbox' \in Seq(Results)  BY <2>1, AppendProperties DEF CaseType, BusType
  <2>3. inbox' \in Nat  BY <1>2 DEF Deliver, CaseType, BusType
  <2>4. asked' \in BOOLEAN  BY <1>2, Zenon DEF Deliver, CaseType, BusType
  <2> QED  BY <1>2, <2>2, <2>3, <2>4, Zenon DEF Deliver, CaseType, BusType
<1>3. CASE Connect
  <2>1. outbox' = outbox \/ \E r \in Results : outbox' = Append(outbox, r)
    BY <1>3 DEF Connect, Finish, Results
  <2>2. outbox' \in Seq(Results)  BY <2>1, AppendProperties DEF CaseType, BusType
  <2> QED  BY <1>3, <2>2 DEF Connect, Finish, CaseType, BusType
<1>4. CASE Commit
  <2>1. outbox' = outbox \/ \E r \in Results : outbox' = Append(outbox, r)
    BY <1>4 DEF Commit, Finish, Results
  <2>2. outbox' \in Seq(Results)  BY <2>1, AppendProperties DEF CaseType, BusType
  <2> QED  BY <1>4, <2>2 DEF Commit, Finish, CaseType, BusType
<1>5. CASE Acknowledge
  <2>1. outbox' = outbox \/ \E r \in Results : outbox' = Append(outbox, r)
    BY <1>5 DEF Acknowledge, Finish, Results
  <2>2. outbox' \in Seq(Results)  BY <2>1, AppendProperties DEF CaseType, BusType
  <2> QED  BY <1>5, <2>2 DEF Acknowledge, Finish, CaseType, BusType
<1>6. CASE NativeFailure
  <2>1. outbox' = outbox \/ \E r \in Results : outbox' = Append(outbox, r)
    BY <1>6 DEF NativeFailure, Finish, Results
  <2>2. outbox' \in Seq(Results)  BY <2>1, AppendProperties DEF CaseType, BusType
  <2> QED  BY <1>6, <2>2 DEF NativeFailure, Finish, CaseType, BusType
<1>7. CASE GiveUp
  <2>1. outbox' = outbox \/ \E r \in Results : outbox' = Append(outbox, r)
    BY <1>7 DEF GiveUp, Results
  <2>2. outbox' \in Seq(Results)  BY <2>1, AppendProperties DEF CaseType, BusType
  <2> QED  BY <1>7, <2>2 DEF GiveUp, CaseType, BusType
<1>8. CASE Publish
  BY <1>8 DEF Publish, CaseType, BusType
<1>9. CASE CallerTimeout
  BY <1>9 DEF CallerTimeout, bus, CaseType, BusType, Results
<1>10. CASE Submit
  BY <1>10 DEF Submit, CaseType, BusType
<1>11. CASE Replay
  BY <1>11 DEF Replay, CaseType, BusType
<1>12. CASE UNCHANGED <<inbox, outbox, asked, reply>>
  BY <1>12 DEF CaseType, BusType
<1> QED  BY <1>1, <1>2, <1>3, <1>4, <1>5, <1>6, <1>7, <1>8, <1>9, <1>10, <1>11, <1>12

\* and the evidence.
LEMMA EntryTypeStep ==
  ASSUME CaseType, CaseMove
  PROVE  (entry \in Evidence)'
<1>1. \/ CaptureHeld \/ FirstReply \/ Expire \/ Replay \/ SecondReply \/ CaptureAfter
      \/ UNCHANGED <<entry>>
  BY DEF CaseMove, script, proxy, writer, bus, truth, Deliver, Connect, Begin, Commit,
         Consume, Acknowledge, NativeFailure, GiveUp, Publish, CallerTimeout, SetPlan,
         Submit, RestartHeld, Settle
<1>2. CASE CaptureHeld
  <2>1. events \in SUBSET Events /\ journal \in SUBSET Nat /\ row \in Rows \cup {"unread"}
    BY DEF CaseType, WriterType
  <2>2. [entry EXCEPT !.proxy = events, !.firstRow = row, !.journals = journal] \in Evidence
    BY <2>1, EvidenceUpdate, Zenon DEF CaseType
  <2> QED  BY <1>2, <2>2 DEF CaptureHeld
<1>3. CASE FirstReply
  <2>1. reply \in Results \cup {"none"}  BY <1>3 DEF FirstReply, CaseType, BusType
  <2>2. [entry EXCEPT !.first = reply] \in Evidence  BY <2>1, EvidenceUpdate, Zenon DEF CaseType
  <2> QED  BY <1>3, <2>2 DEF FirstReply
<1>4. CASE Expire
  <2>1. ("ingress" \in changed) \in BOOLEAN  OBVIOUS
  <2>2. [entry EXCEPT !.held = "ingress" \in changed] \in Evidence
    BY <2>1, EvidenceUpdate, Zenon DEF CaseType
  <2> QED  BY <1>4, <2>2 DEF Expire
<1>5. CASE Replay
  <2> DEFINE read == IF entry.firstRow = "unread" THEN row ELSE entry.firstRow
  <2>1. read \in Rows \cup {"unread"} /\ effects \in Nat  BY DEF CaseType, WriterType, Evidence
  <2>2. entry' = [entry EXCEPT !.firstRow = read, !.firstEffects = effects]  BY <1>5 DEF Replay
  <2> HIDE DEF read
  <2>3. [entry EXCEPT !.firstRow = read, !.firstEffects = effects] \in Evidence
    BY <2>1, EvidenceUpdate, Zenon DEF CaseType
  <2> QED  BY <2>2, <2>3
<1>6. CASE SecondReply
  <2>1. reply \in Results \cup {"none"}  BY <1>6 DEF SecondReply, CaseType, BusType
  <2>2. [entry EXCEPT !.replay = reply] \in Evidence  BY <2>1, EvidenceUpdate, Zenon DEF CaseType
  <2> QED  BY <1>6, <2>2 DEF SecondReply
<1>7. CASE CaptureAfter
  <2> DEFINE journals == entry.journals \cup journal
             seen == IF name = "writer_restart_after_effect" THEN entry.proxy ELSE events
  <2>1. /\ journals \in SUBSET Nat /\ seen \in SUBSET Events /\ row \in Rows /\ effects \in Nat
    BY DEF CaseType, WriterType, Evidence
  <2>2. entry' = [entry EXCEPT !.effects = effects, !.row = row, !.journals = journals, !.proxy = seen]
    BY <1>7 DEF CaptureAfter
  <2> HIDE DEF journals, seen
  <2>3. [entry EXCEPT !.effects = effects, !.row = row, !.journals = journals, !.proxy = seen]
          \in Evidence
    BY <2>1, EvidenceUpdate, Zenon DEF CaseType
  <2> QED  BY <2>2, <2>3
<1>8. CASE UNCHANGED <<entry>>
  BY <1>8 DEF CaseType
<1> QED  BY <1>1, <1>2, <1>3, <1>4, <1>5, <1>6, <1>7, <1>8

\* The script's steps follow its case.
LEMMA FlowStep ==
  ASSUME CaseType, name \in Names, pc \in Active, CaseFacts, CaseMove
  PROVE  FlowInv'
<1>1. \/ Deliver \/ Connect \/ Begin \/ Commit \/ Acknowledge \/ NativeFailure \/ GiveUp
      \/ Publish \/ SetPlan \/ Submit \/ CaptureHeld \/ RestartHeld \/ FirstReply \/ Expire
      \/ Settle \/ Replay \/ SecondReply \/ CaptureAfter
      \/ UNCHANGED <<pc, name, row, inbox, asked, outbox>>
  BY DEF CaseMove, script, proxy, writer, bus, truth, Consume, CallerTimeout
<1>2. CASE Deliver
  BY <1>2 DEF Deliver, script, CaseFacts, FlowInv
<1>3. CASE Connect
  BY <1>3 DEF Connect, script, CaseFacts, FlowInv, StageInv
<1>4. CASE Begin
  BY <1>4 DEF Begin, script, CaseFacts, FlowInv, StageInv
<1>5. CASE Commit
  BY <1>5 DEF Commit, script, CaseFacts, FlowInv, StageInv
<1>6. CASE Acknowledge
  BY <1>6 DEF Acknowledge, script, CaseFacts, FlowInv, StageInv
<1>7. CASE NativeFailure
  <2>0. row \in {"preparing", "started"}
    BY <1>7 DEF NativeFailure, CaseFacts, StageInv, CaseType, WriterType, Stages
  <2>1. pc \notin {"plan", "submit"} /\ UNCHANGED <<pc, name>>
    BY <1>7, <2>0 DEF NativeFailure, script, CaseFacts, FlowInv
  <2> QED  BY <2>1 DEF CaseFacts, FlowInv
<1>8. CASE GiveUp
  BY <1>8 DEF GiveUp, script, CaseFacts, FlowInv
<1>9. CASE Publish
  BY <1>9 DEF Publish, script, CaseFacts, FlowInv
<1>10. CASE SetPlan
  BY <1>10 DEF SetPlan, writer, bus, CaseFacts, FlowInv
<1>11. CASE Submit
  BY <1>11 DEF Submit, FlowInv
<1>12. CASE CaptureHeld
  BY <1>12 DEF CaptureHeld, CaseFacts, FlowInv
<1>13. CASE RestartHeld
  BY <1>13 DEF RestartHeld, CaseFacts, FlowInv
<1>14. CASE FirstReply
  BY <1>14 DEF FirstReply, CaseFacts, FlowInv
<1>15. CASE Expire
  BY <1>15 DEF Expire, FlowInv
<1>16. CASE Settle
  BY <1>16 DEF Settle, FlowInv
<1>17. CASE Replay
  BY <1>17 DEF Replay, FlowInv
<1>18. CASE SecondReply
  BY <1>18 DEF SecondReply, FlowInv
<1>19. CASE CaptureAfter
  BY <1>19 DEF CaptureAfter, FlowInv
<1>20. CASE UNCHANGED <<pc, name, row, inbox, asked, outbox>>
  BY <1>20 DEF CaseFacts, FlowInv
<1> QED  BY <1>1, <1>2, <1>3, <1>4, <1>5, <1>6, <1>7, <1>8, <1>9, <1>10, <1>11, <1>12,
      <1>13, <1>14, <1>15, <1>16, <1>17, <1>18, <1>19, <1>20

\* Row, connection, mailbox and effects keep in step.
LEMMA StageStep ==
  ASSUME CaseType, name \in Names, pc \in Active, CaseFacts, CaseMove
  PROVE  StageInv'
<1>1. \/ Deliver \/ Connect \/ Begin \/ Commit \/ Consume \/ Acknowledge \/ NativeFailure
      \/ RestartHeld \/ UNCHANGED <<conn, row, inits, effects, mail>>
  BY DEF CaseMove, script, proxy, writer, bus, truth, GiveUp, Publish, CallerTimeout,
         SetPlan, Submit, CaptureHeld, FirstReply, Expire, Settle, Replay, SecondReply,
         CaptureAfter
<1>2. CASE Deliver
  BY <1>2 DEF Deliver, truth, CaseFacts, StageInv
<1>3. CASE Connect
  BY <1>3 DEF Connect, Finish, Idle, truth, CaseFacts, StageInv
<1>4. CASE Begin
  BY <1>4 DEF Begin, CaseFacts, StageInv
<1>5. CASE Commit
  BY <1>5 DEF Commit, Finish, Idle, truth, CaseFacts, StageInv, CaseType, WriterType
<1>6. CASE Consume
  BY <1>6 DEF Consume, writer, CaseFacts, StageInv
<1>7. CASE Acknowledge
  BY <1>7 DEF Acknowledge, Finish, Idle, truth, CaseFacts, StageInv, CaseType, WriterType
<1>8. CASE NativeFailure
  <2>1. CASE conn.stage \in {"dialed", "open"}
    BY <1>8, <2>1 DEF NativeFailure, Finish, Idle, CaseFacts, StageInv
  <2>2. CASE conn.stage \notin {"dialed", "open"}
    BY <1>8, <2>2 DEF NativeFailure, Finish, Idle, CaseFacts, StageInv, CaseType, WriterType, Stages
  <2> QED  BY <2>1, <2>2
<1>9. CASE RestartHeld
  BY <1>9 DEF RestartHeld, RestartWriter, Recover, Idle, truth, CaseFacts, StageInv
<1>10. CASE UNCHANGED <<conn, row, inits, effects, mail>>
  BY <1>10 DEF CaseFacts, StageInv
<1> QED  BY <1>1, <1>2, <1>3, <1>4, <1>5, <1>6, <1>7, <1>8, <1>9, <1>10

\* A held acknowledgement stays what it is until the pod is replaced.
LEMMA HeldStep ==
  ASSUME CaseType, name \in Names, pc \in Active, CaseFacts, CaseMove
  PROVE  HeldInv'
<1>1. \/ Deliver \/ Connect \/ Begin \/ Commit \/ Consume \/ Acknowledge \/ NativeFailure
      \/ SetPlan \/ Submit \/ CaptureHeld \/ RestartHeld \/ FirstReply \/ Expire \/ Settle
      \/ Replay \/ SecondReply \/ CaptureAfter
      \/ UNCHANGED <<events, conn, row, effects, mail, pc>>
  BY DEF CaseMove, script, proxy, writer, bus, truth, GiveUp, Publish, CallerTimeout
<1>2. CASE Deliver
  BY <1>2 DEF Deliver, script, proxy, truth, CaseFacts, HeldInv
<1>3. CASE Connect
  BY <1>3 DEF Connect, script, CaseFacts, HeldInv
<1>4. CASE Begin
  BY <1>4 DEF Begin, script, proxy, CaseFacts, HeldInv
<1>5. CASE Commit
  BY <1>5 DEF Commit, script, CaseFacts, HeldInv
<1>6. CASE Consume
  BY <1>6 DEF Consume, script, proxy, CaseFacts, HeldInv
<1>7. CASE Acknowledge
  BY <1>7 DEF Acknowledge, script, truth, CaseFacts, StageInv, HeldInv, CaseType, WriterType
<1>8. CASE NativeFailure
  BY <1>8 DEF NativeFailure, Finish, Idle, script, proxy, CaseFacts, HeldInv
<1>9. CASE SetPlan
  BY <1>9 DEF SetPlan, writer, truth, CaseFacts, HeldInv
<1>10. CASE Submit
  BY <1>10 DEF Submit, proxy, writer, truth, CaseFacts, HeldInv
<1>11. CASE CaptureHeld
  BY <1>11 DEF CaptureHeld, proxy, writer, truth, CaseFacts, HeldInv
<1>12. CASE RestartHeld
  BY <1>12 DEF RestartHeld, RestartWriter, HeldInv
<1>13. CASE FirstReply
  BY <1>13 DEF FirstReply, proxy, writer, truth, CaseFacts, HeldInv
<1>14. CASE Expire
  BY <1>14 DEF Expire, proxy, writer, truth, CaseFacts, HeldInv
<1>15. CASE Settle
  BY <1>15 DEF Settle, proxy, writer, truth, CaseFacts, HeldInv
<1>16. CASE Replay
  BY <1>16 DEF Replay, writer, truth, CaseFacts, HeldInv
<1>17. CASE SecondReply
  BY <1>17 DEF SecondReply, proxy, writer, truth, CaseFacts, HeldInv
<1>18. CASE CaptureAfter
  BY <1>18 DEF CaptureAfter, proxy, writer, truth, CaseFacts, HeldInv
<1>19. CASE UNCHANGED <<events, conn, row, effects, mail, pc>>
  BY <1>19 DEF CaseFacts, HeldInv
<1> QED  BY <1>1, <1>2, <1>3, <1>4, <1>5, <1>6, <1>7, <1>8, <1>9, <1>10, <1>11, <1>12,
      <1>13, <1>14, <1>15, <1>16, <1>17, <1>18, <1>19

\* A connection of a lossy case has the case's mode: the plan is lifted too late for it.
LEMMA ModeStep ==
  ASSUME CaseType, name \in Names, pc \in Active, CaseFacts, CaseMove
  PROVE  ModeInv'
<1>0. ~slow' => ~slow
  BY DEF CaseMove, script, proxy, writer, bus, truth, Deliver, Connect, Begin, Commit, Consume,
         Acknowledge, NativeFailure, GiveUp, Publish, CallerTimeout, SetPlan, Submit, CaptureHeld,
         RestartHeld, FirstReply, Expire, Settle, Replay, SecondReply, CaptureAfter
<1>1. \/ Deliver \/ Connect \/ Begin \/ Commit \/ Acknowledge \/ NativeFailure \/ SetPlan
      \/ Submit \/ CaptureHeld \/ RestartHeld \/ FirstReply \/ Expire \/ Settle \/ Replay
      \/ SecondReply \/ CaptureAfter \/ UNCHANGED <<plan, conn, name, pc, row>>
  BY DEF CaseMove, script, proxy, writer, bus, truth, Consume, GiveUp, Publish,
         CallerTimeout
<1>2. CASE Deliver
  BY <1>0, <1>2 DEF Deliver, script, proxy, CaseFacts, ModeInv
<1>3. CASE Connect
  BY <1>0, <1>3 DEF Connect, Finish, Idle, script, CaseFacts, FlowInv, StageInv, ModeInv,
         LossyInv, Lossy, Active, CaseSteps
<1>4. CASE Begin
  BY <1>0, <1>4 DEF Begin, script, proxy, CaseFacts, StageInv, ModeInv
<1>5. CASE Commit
  BY <1>0, <1>5 DEF Commit, Finish, Idle, script, CaseFacts, ModeInv, CaseType, WriterType
<1>6. CASE Acknowledge
  <2>1. UNCHANGED <<pc, name, plan>> /\ conn.stage = "committed" /\ row = "started" /\ conn'.mode \in {conn.mode, "normal"}
    BY <1>6 DEF Acknowledge, Finish, Idle, script, CaseFacts, StageInv, CaseType, WriterType
  <2>2. conn'.stage = "idle" \/ conn'.mode = conn.mode
    BY <1>6 DEF Acknowledge, Finish, Idle, CaseType, WriterType
  <2> QED  BY <1>0, <2>1, <2>2 DEF CaseFacts, ModeInv
<1>7. CASE NativeFailure
  <2>0. row \in {"preparing", "started"}
    BY <1>7 DEF NativeFailure, CaseFacts, StageInv, CaseType, WriterType, Stages
  <2>1. UNCHANGED <<pc, name, plan>> /\ conn' = Idle
    BY <1>7 DEF NativeFailure, Finish, script, proxy
  <2> QED  BY <2>0, <2>1 DEF Idle, CaseFacts, ModeInv
<1>8. CASE SetPlan
  BY <1>0, <1>8 DEF SetPlan, writer, CaseFacts, ModeInv
<1>9. CASE Submit
  BY <1>0, <1>9 DEF Submit, proxy, writer, CaseFacts, ModeInv
<1>10. CASE CaptureHeld
  BY <1>0, <1>10 DEF CaptureHeld, proxy, writer, CaseFacts, ModeInv
<1>11. CASE RestartHeld
  BY <1>0, <1>11 DEF RestartHeld, RestartWriter, Recover, Idle, CaseFacts, ModeInv, HeldInv
<1>12. CASE FirstReply
  BY <1>0, <1>12 DEF FirstReply, proxy, writer, CaseFacts, ModeInv
<1>13. CASE Expire
  BY <1>0, <1>13 DEF Expire, proxy, writer, CaseFacts, ModeInv
<1>14. CASE Settle
  BY <1>0, <1>14 DEF Settle, proxy, writer, CaseFacts, ModeInv
<1>15. CASE Replay
  BY <1>0, <1>15 DEF Replay, writer, CaseFacts, ModeInv
<1>16. CASE SecondReply
  BY <1>0, <1>16 DEF SecondReply, proxy, writer, CaseFacts, ModeInv
<1>17. CASE CaptureAfter
  BY <1>0, <1>17 DEF CaptureAfter, proxy, writer, CaseFacts, ModeInv
<1>18. CASE UNCHANGED <<plan, conn, name, pc, row>>
  BY <1>0, <1>18 DEF CaseFacts, ModeInv
<1> QED  BY <1>1, <1>2, <1>3, <1>4, <1>5, <1>6, <1>7, <1>8, <1>9, <1>10, <1>11, <1>12,
      <1>13, <1>14, <1>15, <1>16, <1>17, <1>18

\* A lossy case never completes, and has settled when its fault is lifted.
LEMMA LossyStep ==
  ASSUME CaseType, name \in Names, pc \in Active, CaseFacts, CaseMove
  PROVE  LossyInv'
<1>0. ~slow' => ~slow
  BY DEF CaseMove, script, proxy, writer, bus, truth, Deliver, Connect, Begin, Commit, Consume,
         Acknowledge, NativeFailure, GiveUp, Publish, CallerTimeout, SetPlan, Submit, CaptureHeld,
         RestartHeld, FirstReply, Expire, Settle, Replay, SecondReply, CaptureAfter
<1>1. \/ Deliver \/ Connect \/ Begin \/ Commit \/ Acknowledge \/ NativeFailure \/ SetPlan
      \/ Submit \/ CaptureHeld \/ RestartHeld \/ FirstReply \/ Expire \/ Settle \/ Replay
      \/ SecondReply \/ CaptureAfter \/ UNCHANGED <<row, pc, name>>
  BY DEF CaseMove, script, proxy, writer, bus, truth, Consume, GiveUp, Publish,
         CallerTimeout
<1>2. CASE Deliver
  BY <1>0, <1>2 DEF Deliver, script, CaseFacts, LossyInv
<1>3. CASE Connect
  BY <1>0, <1>3, ModeTable DEF Connect, script, CaseFacts, ModeInv, LossyInv, Lossy
<1>4. CASE Begin
  BY <1>0, <1>4 DEF Begin, script, CaseFacts, StageInv, LossyInv
<1>5. CASE Commit
  BY <1>0, <1>5 DEF Commit, Finish, script, CaseFacts, LossyInv
<1>6. CASE Acknowledge
  BY <1>0, <1>6, ModeTable DEF Acknowledge, Finish, script, CaseFacts, ModeInv, LossyInv, Lossy
<1>7. CASE NativeFailure
  BY <1>0, <1>7 DEF NativeFailure, Finish, LossyInv
<1>8. CASE SetPlan
  BY <1>0, <1>8 DEF SetPlan, writer, CaseFacts, LossyInv
<1>9. CASE Submit
  BY <1>0, <1>9 DEF Submit, writer, CaseFacts, LossyInv
<1>10. CASE CaptureHeld
  BY <1>0, <1>10 DEF CaptureHeld, writer, CaseFacts, LossyInv
<1>11. CASE RestartHeld
  BY <1>0, <1>11 DEF RestartHeld, RestartWriter, Recover, CaseFacts, HeldInv, LossyInv
<1>12. CASE FirstReply
  BY <1>0, <1>12 DEF FirstReply, writer, CaseFacts, LossyInv
<1>13. CASE Expire
  BY <1>0, <1>13 DEF Expire, CaseFacts, FlowInv, LossyInv, Lossy
<1>14. CASE Settle
  BY <1>0, <1>14 DEF Settle, writer, CaseFacts, LossyInv, Settled
<1>15. CASE Replay
  BY <1>0, <1>15 DEF Replay, writer, CaseFacts, LossyInv
<1>16. CASE SecondReply
  BY <1>0, <1>16 DEF SecondReply, writer, CaseFacts, LossyInv
<1>17. CASE CaptureAfter
  BY <1>0, <1>17 DEF CaptureAfter, writer, CaseFacts, LossyInv
<1>18. CASE UNCHANGED <<row, pc, name>>
  BY <1>0, <1>18 DEF CaseFacts, LossyInv
<1> QED  BY <1>1, <1>2, <1>3, <1>4, <1>5, <1>6, <1>7, <1>8, <1>9, <1>10, <1>11, <1>12,
      <1>13, <1>14, <1>15, <1>16, <1>17, <1>18

\* Only the fault of the case, or a timeout, makes its row unknown.
LEMMA UnknownStep ==
  ASSUME CaseType, name \in Names, pc \in Active, CaseFacts, CaseMove
  PROVE  UnknownInv'
<1>1. \/ Deliver \/ Connect \/ Begin \/ Commit \/ Consume \/ Acknowledge \/ NativeFailure
      \/ CallerTimeout \/ RestartHeld \/ UNCHANGED <<row, slow, name, effects, mail>>
  BY DEF CaseMove, script, proxy, writer, bus, truth, GiveUp, Publish, SetPlan, Submit,
         CaptureHeld, FirstReply, Expire, Settle, Replay, SecondReply, CaptureAfter
<1>2. CASE Deliver
  BY <1>2 DEF Deliver, script, truth, CaseFacts, UnknownInv
<1>3. CASE Connect
  BY <1>3 DEF Connect, Finish, CaseFacts, StageInv, UnknownInv
<1>4. CASE Begin
  BY <1>4 DEF Begin, UnknownInv
<1>5. CASE Commit
  BY <1>5, ModeTable, CaseTable DEF Commit, script, truth, CaseFacts, StageInv, ModeInv,
         UnknownInv, Lossy
<1>6. CASE Consume
  BY <1>6 DEF Consume, script, writer, CaseFacts, UnknownInv
<1>7. CASE Acknowledge
  BY <1>7, ModeTable, CaseTable DEF Acknowledge, Finish, script, truth, CaseFacts, StageInv,
         ModeInv, UnknownInv, Lossy
<1>8. CASE NativeFailure
  BY <1>8 DEF NativeFailure, UnknownInv
<1>9. CASE CallerTimeout
  BY <1>9 DEF CallerTimeout, UnknownInv
<1>10. CASE RestartHeld
  BY <1>10, CaseTable DEF RestartHeld, truth, CaseFacts, FlowInv, HeldInv, UnknownInv, Lossy
<1>11. CASE UNCHANGED <<row, slow, name, effects, mail>>
  BY <1>11 DEF CaseFacts, UnknownInv
<1> QED  BY <1>1, <1>2, <1>3, <1>4, <1>5, <1>6, <1>7, <1>8, <1>9, <1>10, <1>11

\* No delivery yields a second result, so the replay is answered by its own.
LEMMA OwedStep ==
  ASSUME CaseType, name \in Names, pc \in Active, CaseFacts, CaseMove
  PROVE  OwedInv'
<1>1. \/ Deliver \/ Connect \/ Begin \/ Commit \/ Acknowledge \/ NativeFailure \/ GiveUp
      \/ Publish \/ CallerTimeout \/ SetPlan \/ Submit \/ CaptureHeld \/ RestartHeld
      \/ FirstReply \/ Expire \/ Settle \/ Replay \/ SecondReply \/ CaptureAfter
      \/ UNCHANGED <<name, pc, slow, inbox, asked, outbox, reply, row>>
  BY DEF CaseMove, script, proxy, writer, bus, truth, Consume
<1>2. CASE Deliver
  BY <1>2 DEF Deliver, script, truth, CaseFacts, SettledInv, OwedInv, Owed, CaseType,
         BusType
<1>3. CASE Connect
  <2> SUFFICES ASSUME name = "before_write_disconnect"  PROVE OwedInv'
    BY <1>3 DEF OwedInv, Connect, script
  <2>1. Len(outbox) \in Nat /\ inbox \in Nat /\ asked \in BOOLEAN  BY DEF CaseType, BusType
  <2>2. Len(Append(outbox, "retry")) = Len(outbox) + 1  BY DEF CaseType, BusType
  <2>3. pc # "judge" /\ UNCHANGED <<pc, name, inbox, reply, slow>>
    BY <1>3 DEF Connect, InCase, CaseSteps, script, truth
  <2>4. Owed' = Owed
    <3>1. CASE plan = "disconnect_before_write"
      BY <1>3, <2>1, <2>2, <3>1 DEF Connect, Finish, Owed
    <3>2. CASE plan # "disconnect_before_write"  BY <1>3, <3>2 DEF Connect, Owed
    <3> QED  BY <3>1, <3>2
  <2>5. pc \in {"replay", "resettle"} => row' = row
    BY <1>3 DEF Connect, CaseFacts, ModeInv
  <2> QED  BY <2>3, <2>4, <2>5 DEF CaseFacts, OwedInv
<1>4. CASE Begin
  BY <1>4 DEF Begin, script, bus, CaseFacts, OwedInv, Owed
<1>5. CASE Commit
  BY <1>5, ModeTable DEF Commit, script, truth, CaseFacts, ModeInv, OwedInv, Owed
<1>6. CASE Acknowledge
  BY <1>6 DEF Acknowledge, Finish, script, truth, CaseFacts, OwedInv, Owed, CaseType,
         BusType
<1>7. CASE NativeFailure
  BY <1>7 DEF NativeFailure, script, CaseFacts, OwedInv
<1>8. CASE GiveUp
  BY <1>8 DEF GiveUp, script, writer, truth, CaseFacts, OwedInv, Owed, CaseType, BusType
<1>9. CASE Publish
  <2>1. Len(outbox) \in Nat /\ inbox \in Nat /\ asked \in BOOLEAN  BY DEF CaseType, BusType
  <2>2. Len(Tail(outbox)) = Len(outbox) - 1 /\ Len(outbox) > 0 /\ Head(outbox) # "waiting"
    <3>1. outbox \in Seq(Results) /\ outbox # <<>>  BY <1>9 DEF Publish, CaseType, BusType
    <3>2. Len(outbox) > 0 /\ Len(Tail(outbox)) = Len(outbox) - 1 /\ Head(outbox) \in Results
      BY <3>1, HeadTailProperties, EmptySeq
    <3> QED  BY <3>2 DEF Results
  <2>3. /\ UNCHANGED <<pc, name, inbox, asked, slow, row>> /\ outbox' = Tail(outbox)
        /\ reply' = IF reply = "waiting" THEN Head(outbox) ELSE reply
    BY <1>9 DEF Publish, script, truth, writer
  <2>4. Owed' = Owed - 1 /\ Owed \in Nat /\ Owed > 0
    <3> DEFINE old == Len(outbox)
               new == Len(Tail(outbox))
               one == IF asked THEN 1 ELSE 0
    <3>1. Owed = inbox + one + old /\ Owed' = inbox + one + new  BY <2>3 DEF Owed
    <3>2. one \in Nat  OBVIOUS
    <3>3. old \in Nat /\ old > 0 /\ new = old - 1 /\ inbox \in Nat  BY <2>1, <2>2
    <3> HIDE DEF old, new, one
    <3> QED  BY <3>1, <3>2, <3>3
  <2> QED  BY <2>2, <2>3, <2>4 DEF CaseFacts, OwedInv
<1>10. CASE CallerTimeout
  BY <1>10 DEF CallerTimeout, OwedInv
<1>11. CASE SetPlan
  BY <1>11 DEF SetPlan, OwedInv
<1>12. CASE Submit
  BY <1>12 DEF Submit, CaseFacts, FlowInv, OwedInv, Owed
<1>13. CASE CaptureHeld
  BY <1>13 DEF CaptureHeld, OwedInv
<1>14. CASE RestartHeld
  BY <1>14 DEF RestartHeld, CaseFacts, FlowInv, OwedInv
<1>15. CASE FirstReply
  BY <1>15 DEF FirstReply, bus, truth, CaseFacts, OwedInv, Owed
<1>16. CASE Expire
  BY <1>16 DEF Expire, CaseFacts, FlowInv, OwedInv
<1>17. CASE Settle
  BY <1>17 DEF Settle, bus, truth, CaseFacts, OwedInv, Owed
<1>18. CASE Replay
  BY <1>18, ModeTable DEF Replay, truth, CaseFacts, OwedInv, Owed, CaseType, BusType
<1>19. CASE SecondReply
  BY <1>19 DEF SecondReply, writer, bus, truth, CaseFacts, OwedInv, Owed
<1>20. CASE CaptureAfter
  BY <1>20 DEF CaptureAfter, writer, bus, truth, CaseFacts, OwedInv, Owed, CaseType, BusType
<1>21. CASE UNCHANGED <<name, pc, slow, inbox, asked, outbox, reply, row>>
  BY <1>21 DEF CaseFacts, OwedInv, Owed
<1> QED  BY <1>1, <1>2, <1>3, <1>4, <1>5, <1>6, <1>7, <1>8, <1>9, <1>10, <1>11, <1>12,
      <1>13, <1>14, <1>15, <1>16, <1>17, <1>18, <1>19, <1>20, <1>21

\* A completed row stays; an expired command is never claimed.
LEMMA SettledStep ==
  ASSUME CaseType, name \in Names, pc \in Active, CaseFacts, CaseMove
  PROVE  SettledInv'
<1>1. \/ Deliver \/ Connect \/ Begin \/ Commit \/ Acknowledge \/ NativeFailure \/ SetPlan
      \/ Submit \/ CaptureHeld \/ RestartHeld \/ FirstReply \/ Expire \/ Settle \/ Replay
      \/ SecondReply \/ CaptureAfter \/ UNCHANGED <<name, pc, row, expired, changed>>
  BY DEF CaseMove, script, proxy, writer, bus, truth, Consume, GiveUp, Publish,
         CallerTimeout
<1>2. CASE Deliver
  BY <1>2 DEF Deliver, script, CaseFacts, FlowInv, SettledInv, InCase, Active, CaseSteps
<1>3. CASE Connect
  BY <1>3 DEF Connect, script, CaseFacts, StageInv, SettledInv, Settled
<1>4. CASE Begin
  BY <1>4 DEF Begin, script, CaseFacts, StageInv, SettledInv, Settled
<1>5. CASE Commit
  BY <1>5 DEF Commit, script, CaseFacts, StageInv, SettledInv, Settled
<1>6. CASE Acknowledge
  BY <1>6 DEF Acknowledge, script, CaseFacts, StageInv, SettledInv, Settled
<1>7. CASE NativeFailure
  <2>0. row \in {"preparing", "started"}
    BY <1>7 DEF NativeFailure, CaseFacts, StageInv, CaseType, WriterType, Stages
  <2>1. /\ name # "delayed_expired_command"
        /\ name = "caller_reply_lost" => pc \notin {"first", "replay", "resettle", "judge"}
    BY <2>0 DEF CaseFacts, SettledInv
  <2>2. pc # "judge" /\ UNCHANGED <<pc, name, expired>>
    BY <1>7 DEF NativeFailure, script, InCase, CaseSteps
  <2> QED  BY <2>1, <2>2 DEF CaseFacts, SettledInv
<1>8. CASE SetPlan
  BY <1>8 DEF SetPlan, writer, CaseFacts, SettledInv
<1>9. CASE Submit
  BY <1>9 DEF Submit, writer, CaseFacts, SettledInv
<1>10. CASE CaptureHeld
  BY <1>10 DEF CaptureHeld, CaseFacts, FlowInv, SettledInv
<1>11. CASE RestartHeld
  BY <1>11 DEF RestartHeld, CaseFacts, FlowInv, SettledInv
<1>12. CASE FirstReply
  BY <1>12 DEF FirstReply, CaseFacts, FlowInv, SettledInv
<1>13. CASE Expire
  BY <1>13 DEF Expire, writer, CaseFacts, FlowInv, SettledInv
<1>14. CASE Settle
  BY <1>14 DEF Settle, writer, CaseFacts, FlowInv, SettledInv
<1>15. CASE Replay
  BY <1>15 DEF Replay, writer, CaseFacts, SettledInv
<1>16. CASE SecondReply
  BY <1>16 DEF SecondReply, writer, CaseFacts, SettledInv
<1>17. CASE CaptureAfter
  BY <1>17 DEF CaptureAfter, writer, CaseFacts, SettledInv, Settled
<1>18. CASE UNCHANGED <<name, pc, row, expired, changed>>
  BY <1>18 DEF CaseFacts, SettledInv, Settled
<1> QED  BY <1>1, <1>2, <1>3, <1>4, <1>5, <1>6, <1>7, <1>8, <1>9, <1>10, <1>11, <1>12,
      <1>13, <1>14, <1>15, <1>16, <1>17, <1>18

\* No initiation is missing from the journals, whichever pod wrote them.
LEMMA JournalStep ==
  ASSUME CaseType, name \in Names, pc \in Active, CaseFacts, CaseMove
  PROVE  JournalInv'
<1>1. \/ Deliver \/ Connect \/ Begin \/ Commit \/ Consume \/ Acknowledge \/ NativeFailure
      \/ SetPlan \/ Submit \/ CaptureHeld \/ RestartHeld \/ FirstReply \/ Expire \/ Settle
      \/ Replay \/ SecondReply \/ CaptureAfter
      \/ UNCHANGED <<journal, entry, inits, pc, effects, row>>
  BY DEF CaseMove, script, proxy, writer, bus, truth, GiveUp, Publish, CallerTimeout
<1>2. CASE Deliver
  BY <1>2 DEF Deliver, script, truth, CaseFacts, JournalInv, InCase, CaseSteps
<1>3. CASE Connect
  BY <1>3 DEF Connect, script, truth, CaseFacts, JournalInv, InCase, CaseSteps
<1>4. CASE Begin
  BY <1>4 DEF Begin, script, CaseFacts, StageInv, JournalInv, InCase, CaseSteps
<1>5. CASE Commit
  BY <1>5 DEF Commit, script, truth, CaseFacts, JournalInv, InCase, CaseSteps
<1>6. CASE Consume
  BY <1>6 DEF Consume, script, writer, CaseFacts, JournalInv, InCase, CaseSteps
<1>7. CASE Acknowledge
  BY <1>7 DEF Acknowledge, script, truth, CaseFacts, JournalInv, InCase, CaseSteps
<1>8. CASE NativeFailure
  BY <1>8 DEF NativeFailure, script, CaseFacts, JournalInv, InCase, CaseSteps
<1>9. CASE SetPlan
  BY <1>9 DEF SetPlan, writer, truth, CaseFacts, JournalInv
<1>10. CASE Submit
  BY <1>10 DEF Submit, writer, truth, CaseFacts, JournalInv
<1>11. CASE CaptureHeld
  BY <1>11 DEF CaptureHeld, writer, truth, CaseFacts, StageInv, HeldInv, JournalInv
<1>12. CASE RestartHeld
  <2>1. row \in {"started", "unknown"} /\ entry.journals = {1}
    BY <1>12 DEF RestartHeld, CaseFacts, HeldInv, JournalInv
  <2>2. inits = 1  BY <2>1 DEF CaseFacts, StageInv
  <2>3. journal' = {} /\ pc' = "reply" /\ UNCHANGED <<entry, inits>>
    BY <1>12 DEF RestartHeld, RestartWriter, truth
  <2>4. 1..1 = {1}  OBVIOUS
  <2> QED  BY <2>1, <2>2, <2>3, <2>4 DEF JournalInv
<1>13. CASE FirstReply
  BY <1>13 DEF FirstReply, writer, truth, CaseFacts, JournalInv
<1>14. CASE Expire
  BY <1>14 DEF Expire, writer, truth, CaseFacts, JournalInv
<1>15. CASE Settle
  BY <1>15 DEF Settle, writer, truth, CaseFacts, JournalInv
<1>16. CASE Replay
  BY <1>16 DEF Replay, writer, truth, CaseFacts, JournalInv
<1>17. CASE SecondReply
  BY <1>17 DEF SecondReply, writer, truth, CaseFacts, JournalInv
<1>18. CASE CaptureAfter
  BY <1>18 DEF CaptureAfter, writer, truth, CaseFacts, JournalInv
<1>19. CASE UNCHANGED <<journal, entry, inits, pc, effects, row>>
  BY <1>19 DEF CaseFacts, JournalInv
<1> QED  BY <1>1, <1>2, <1>3, <1>4, <1>5, <1>6, <1>7, <1>8, <1>9, <1>10, <1>11, <1>12,
      <1>13, <1>14, <1>15, <1>16, <1>17, <1>18, <1>19

\* The start of a case makes everything about its command anew.
LEMMA StartStep ==
  ASSUME CaseType, name \in Names, StartCase
  PROVE  CaseFacts' /\ CaseType'
<1>1. ScriptType' /\ WriterType' /\ BusType'
  <2>1. ScriptType'  BY DEF StartCase, CaseType, ScriptType, CaseSteps, Modes, Parts
  <2>2. WriterType'  BY DEF StartCase, Idle, WriterType, Rows, Stages, Modes
  <2>3. BusType'
    <3>1. outbox' \in Seq(Results) /\ inbox' \in Nat  BY DEF StartCase
    <3> QED  BY <3>1, Zenon DEF StartCase, BusType
  <2> QED  BY <2>1, <2>2, <2>3
<1>2. (entry \in Evidence)'  BY DEF StartCase, NoEvidence, Evidence, Rows
<1>3. FlowInv' /\ HeldInv' /\ SettledInv'
  BY CaseTable DEF StartCase, FlowInv, HeldInv, SettledInv
<1>4. StageInv'  BY DEF StartCase, Idle, StageInv
<1>5. ModeInv' /\ LossyInv' /\ UnknownInv' /\ OwedInv'
  BY DEF StartCase, Idle, ModeInv, LossyInv, UnknownInv, OwedInv
<1>6. JournalInv'  BY DEF StartCase, NoEvidence, JournalInv
<1> QED  BY <1>1, <1>2, <1>3, <1>4, <1>5, <1>6 DEF CaseType, CaseFacts

-----------------------------------------------------------------------------
(* The steps of the campaign.                                              *)

LEMMA NextCases ==
  ASSUME [Next]_vars
  PROVE  \/ StartCase /\ UNCHANGED <<control, final>>
         \/ CaseMove /\ UNCHANGED <<control, final>>
         \/ Perform \/ EnterCase \/ Judge \/ Fail \/ Finished \/ Skip \/ Confirmed
         \/ RestoreFails \/ RestoreInterrupted \/ Report
         \/ UNCHANGED vars
BY DEF Next, CaseNext, CaseMove, RestoreWriter, RestoreJam, RestoreControls, RestoreReplicas, Done

\* What a step of a case leaves alone.
LEMMA CaseFrame ==
  ASSUME StartCase \/ CaseMove
  PROVE  /\ pc \in CaseSteps /\ pc' \in CaseSteps \cup {"judge"} /\ name' = name
         /\ \/ changed' = changed
            \/ changed' = changed \cup {"ingress"}
            \/ changed' = changed \ {"ingress"}
<1>1. CASE StartCase  BY <1>1 DEF StartCase, CaseSteps
<1>2. CASE Deliver \/ Connect \/ Begin \/ Commit \/ Consume
  BY <1>2 DEF Deliver, Connect, Begin, Commit, Consume, InCase, script
<1>3. CASE Acknowledge \/ NativeFailure \/ GiveUp \/ Publish \/ CallerTimeout
  BY <1>3 DEF Acknowledge, NativeFailure, GiveUp, Publish, CallerTimeout, InCase, script
<1>4. CASE SetPlan \/ Submit \/ CaptureHeld \/ RestartHeld \/ FirstReply
  BY <1>4 DEF SetPlan, Submit, CaptureHeld, RestartHeld, FirstReply, CaseSteps
<1>5. CASE Expire \/ Settle \/ Replay \/ SecondReply \/ CaptureAfter
  BY <1>5 DEF Expire, Settle, Replay, SecondReply, CaptureAfter, CaseSteps
<1> QED  BY <1>1, <1>2, <1>3, <1>4, <1>5 DEF CaseMove

\* The operation a running script is at is sound.
LEMMA OpSound ==
  ASSUME ControlType, Running
  PROVE  step \in 1..Len(Program[campaign]) /\ Sound(campaign, step)
<1>1. step \in 1..Len(Program[campaign])  BY Scripts DEF ControlType, Running
<1> QED  BY <1>1, Scripts DEF ControlType

\* Applying an operation adds or removes its part.
LEMMA AppliedParts ==
  ASSUME ControlType, Running
  PROVE  /\ \A p \in Applied(Op) : p \in changed \/ (Op[1] = "change" /\ p = Op[2])
         /\ \A p \in changed : p \in Applied(Op) \/ (Op[1] = "undo" /\ p = Op[2])
         /\ Op[1] = "change" => Op[2] \in Applied(Op)
BY DEF Applied

\* Every variable keeps its type: the script's,
LEMMA CaseTypeStep ==
  ASSUME IInv, [Next]_vars
  PROVE  CaseType'
<1> CaseType /\ ControlType  BY DEF IInv, TypeOK
<1>1. CASE StartCase  BY <1>1, StartStep DEF IInv, OrderInv, StartCase, CaseSteps
<1>2. CASE CaseMove
  BY <1>2, ScriptTypeStep, WriterTypeStep, BusTypeStep, EntryTypeStep DEF CaseType
<1>3. CASE Perform \/ Fail
  <2>1. changed' \subseteq Parts
    <3>1. CASE Running
      <4>1. Op[1] = "change" => Op[2] \in Parts  BY <3>1, OpSound DEF Sound, Op
      <4>2. Applied(Op) \subseteq Parts
        BY <3>1, <4>1, AppliedParts DEF CaseType, ScriptType
      <4> QED  BY <1>3, <3>1, <4>2 DEF Perform, Fail, CaseType, ScriptType
    <3>2. CASE ~Running
      BY <1>3, <3>2 DEF Perform, Fail, CaseType, ScriptType, Parts
    <3> QED  BY <3>1, <3>2
  <2>2. /\ pc' \in {pc, "restore"} /\ UNCHANGED <<name, entry, plan, expired, slow>>
        /\ UNCHANGED <<writer, mail, events, effects, inits, bus, reply>>
    BY <1>3 DEF Perform, Fail, script, proxy, truth
  <2>3. ScriptType'  BY <2>1, <2>2 DEF CaseType, ScriptType
  <2> QED  BY <2>2, <2>3 DEF CaseType, WriterType, BusType, writer, bus
<1>4. CASE EnterCase
  <2>1. Op[2] \in Names  BY <1>4, OpSound DEF EnterCase, Sound, Op
  <2>2. /\ pc' = "case" /\ name' = Op[2] /\ UNCHANGED <<entry, changed>>
        /\ UNCHANGED <<plan, expired, slow, writer, mail, events, effects, inits, bus, reply>>
    BY <1>4 DEF EnterCase, proxy, truth
  <2>3. ScriptType'  BY <2>1, <2>2 DEF CaseType, ScriptType, CaseSteps
  <2> QED  BY <2>2, <2>3 DEF CaseType, WriterType, BusType, writer, bus
<1>5. CASE Judge \/ Finished \/ Skip \/ Confirmed \/ RestoreFails \/ RestoreInterrupted \/ Report
           \/ UNCHANGED vars
  <2>1. /\ pc' \in {pc, "run", "restore", "done"} /\ changed' \subseteq changed
        /\ UNCHANGED <<name, entry, plan, expired, slow>>
        /\ UNCHANGED <<writer, mail, events, effects, inits, bus, reply>>
    BY <1>5 DEF Judge, Finished, Skip, Confirmed, RestoreFails, RestoreInterrupted, Report, vars,
                caseVars, script, proxy, truth
  <2>2. ScriptType'  BY <2>1 DEF CaseType, ScriptType
  <2> QED  BY <2>1, <2>2 DEF CaseType, WriterType, BusType, writer, bus
<1> QED  BY <1>1, <1>2, <1>3, <1>4, <1>5, NextCases

\* and the campaign's.
LEMMA ControlTypeStep ==
  ASSUME IInv, [Next]_vars
  PROVE  ControlType'
<1> ControlType  BY DEF IInv, TypeOK
<1>1. CASE UNCHANGED <<control, final>>  BY <1>1 DEF ControlType, control, final
<1>2. CASE Perform
  <2>1. Op[1] = "save" => Op[2] \in Parts  BY <1>2, OpSound DEF Perform, Sound, Op
  <2>2. saved' \subseteq Parts  BY <1>2, <2>1 DEF Perform, ControlType
  <2>3. contradicted' \in BOOLEAN /\ wrong' \in BOOLEAN  BY <1>2 DEF Perform, ControlType
  <2>4. step' \in Nat \ {0}  BY <1>2 DEF Perform, ControlType
  <2> QED  BY <1>2, <2>2, <2>3, <2>4 DEF Perform, ControlType, final
<1>3. CASE Judge
  <2>1. contradicted' \in BOOLEAN /\ wrong' \in BOOLEAN  BY <1>3, Zenon DEF Judge
  <2>2. step' \in Nat \ {0}  BY <1>3 DEF Judge, ControlType
  <2> QED  BY <1>3, <2>1, <2>2 DEF Judge, ControlType, final
<1>4. CASE Fail  BY <1>4 DEF Fail, ControlType, final
<1>5. CASE Skip \/ Confirmed \/ RestoreFails
  <2>1. restoring' \in Nat \ {0}  BY <1>5 DEF Skip, Confirmed, RestoreFails, ControlType
  <2>2. Restoring => Part \in Parts  BY Scripts DEF Restoring, Part, ControlType
  <2>3. cleanup' \subseteq Parts /\ disk' \subseteq Parts
    BY <1>5, <2>2 DEF Skip, Confirmed, RestoreFails, ControlType
  <2> QED  BY <1>5, <2>1, <2>3 DEF Skip, Confirmed, RestoreFails, ControlType, control
<1>6. CASE Report
  <2>1. Verdict \in {"pass", "fail", "unknown"}  BY DEF Verdict
  <2> QED  BY <1>6, <2>1 DEF Report, ControlType, control
<1> QED
  BY <1>1, <1>2, <1>3, <1>4, <1>5, <1>6, NextCases DEF EnterCase, Finished, RestoreInterrupted, vars

\* What a script has changed it has noted first.
LEMMA NotedStep ==
  ASSUME IInv, [Next]_vars
  PROVE  NotedInv'
<1> ControlType /\ NotedInv  BY DEF IInv, TypeOK
<1>1. CASE Perform
  <2>1. step \in 1..Len(Program[campaign]) /\ Sound(campaign, step)  BY <1>1, OpSound DEF Perform
  <2>2. /\ campaign' = campaign /\ step' = step + 1 /\ changed' = Applied(Op)
        /\ saved \subseteq saved' /\ (Op[1] = "save" => Op[2] \in saved')
    BY <1>1 DEF Perform
  <2>3. ASSUME NEW i \in 1..(step' - 1), i <= Len(Program[campaign]),
               Program[campaign][i][1] = "save"
        PROVE  Program[campaign][i][2] \in saved'
    <3>1. CASE i = step  BY <2>2, <2>3, <3>1 DEF Op
    <3>2. CASE i # step
      <4>1. i \in 1..(step - 1)  BY <2>1, <2>2, <3>2 DEF ControlType
      <4> QED  BY <2>2, <2>3, <4>1 DEF NotedInv
    <3> QED  BY <3>1, <3>2
  <2>4. ASSUME NEW p \in changed', Conditional(campaign, p)
        PROVE  Original(campaign, p) \in saved'
    <3>1. CASE p \in changed  BY <2>2, <2>4, <3>1 DEF NotedInv
    <3>2. CASE p \notin changed
      <4>1. Op[1] = "change" /\ p = Op[2]  BY <1>1, <2>2, <2>4, <3>2, AppliedParts DEF Perform
      <4>2. PICK j \in 1..(step - 1) : Program[campaign][j] = <<"save", Original(campaign, p)>>
        BY <2>1, <2>4, <4>1 DEF Sound, Op
      <4>3. j <= Len(Program[campaign])  BY <2>1, Scripts DEF ControlType
      <4> QED  BY <2>2, <4>2, <4>3 DEF NotedInv
    <3> QED  BY <3>1, <3>2
  <2> QED  BY <2>2, <2>3, <2>4 DEF NotedInv
<1>2. CASE Fail
  <2>1. UNCHANGED <<campaign, step, saved>>  BY <1>2 DEF Fail
  <2>2. ASSUME NEW p \in changed', Conditional(campaign, p)
        PROVE  Original(campaign, p) \in saved
    <3>1. CASE p \in changed  BY <2>2, <3>1 DEF NotedInv
    <3>2. CASE p \notin changed /\ Running
      <4>1. step \in 1..Len(Program[campaign]) /\ Sound(campaign, step)  BY <3>2, OpSound
      <4>2. Op[1] = "change" /\ p = Op[2]  BY <1>2, <2>2, <3>2, AppliedParts DEF Fail
      <4>3. PICK j \in 1..(step - 1) : Program[campaign][j] = <<"save", Original(campaign, p)>>
        BY <2>2, <4>1, <4>2 DEF Sound, Op
      <4>4. j <= Len(Program[campaign])  BY <4>1, Scripts DEF ControlType
      <4> QED  BY <4>3, <4>4 DEF NotedInv
    <3>3. CASE p \notin changed /\ ~Running
      <4>1. p = "ingress" /\ InCase  BY <1>2, <2>2, <3>3 DEF Fail
      <4> QED  BY <2>2, <4>1 DEF IInv, OrderInv, InCase, Conditional
    <3> QED  BY <3>1, <3>2, <3>3
  <2> QED  BY <2>1, <2>2 DEF NotedInv
<1>3. CASE (StartCase \/ CaseMove) /\ UNCHANGED <<control, final>>
  <2>1. campaign = "fault"  BY <1>3, CaseFrame DEF IInv, OrderInv
  <2>2. UNCHANGED <<campaign, step, saved>>  BY <1>3 DEF control
  <2>3. \A p \in changed' : p \in changed \/ p = "ingress"  BY <1>3, CaseFrame
  <2> QED  BY <2>1, <2>2, <2>3 DEF NotedInv, Conditional
<1>4. CASE Judge
  <2>1. pc = "judge" /\ step' = step + 1 /\ UNCHANGED <<campaign, saved, changed>>  BY <1>4 DEF Judge
  <2>2. ASSUME step <= Len(Program[campaign])  PROVE Program[campaign][step][1] # "save"
    BY <2>1, <2>2 DEF IInv, OrderInv
  <2>3. ASSUME NEW i \in 1..(step' - 1), i <= Len(Program[campaign]),
               Program[campaign][i][1] = "save"
        PROVE  Program[campaign][i][2] \in saved
    <3>1. CASE i = step  BY <2>2, <2>3, <3>1
    <3>2. CASE i # step
      <4>1. i \in 1..(step - 1)  BY <2>1, <3>2 DEF ControlType
      <4> QED  BY <2>3, <4>1 DEF NotedInv
    <3> QED  BY <3>1, <3>2
  <2> QED  BY <2>1, <2>3 DEF NotedInv
<1>5. CASE EnterCase \/ Finished \/ Skip \/ Confirmed \/ RestoreFails \/ RestoreInterrupted
           \/ Report \/ UNCHANGED vars
  <2>1. UNCHANGED <<campaign, step, saved>> /\ changed' \subseteq changed
    BY <1>5 DEF EnterCase, Finished, Skip, Confirmed, RestoreFails, RestoreInterrupted, Report,
                vars, caseVars, control
  <2> QED  BY <2>1 DEF NotedInv
<1> QED  BY <1>1, <1>2, <1>3, <1>4, <1>5, NextCases

\* The parts of a campaign follow each other.
LEMMA OrderStep ==
  ASSUME IInv, [Next]_vars
  PROVE  OrderInv'
<1> ControlType /\ OrderInv  BY DEF IInv, TypeOK
<1>1. CASE (StartCase \/ CaseMove) /\ UNCHANGED <<control, final>>
  <2>1. pc \in CaseSteps /\ pc' \in CaseSteps \cup {"judge"} /\ name' = name  BY <1>1, CaseFrame
  <2>2. UNCHANGED <<campaign, step, errors, restoring, cleanup, disk, verdict>>
    BY <1>1 DEF control, final
  <2> QED  BY <2>1, <2>2 DEF OrderInv, CaseSteps
<1>2. CASE Perform
  BY <1>2 DEF Perform, Running, OrderInv, CaseSteps, script, final
<1>3. CASE EnterCase
  <2>1. campaign = "fault" /\ step > 2 /\ Op[2] \in Names /\ Op[1] = "case"
    BY <1>3, OpSound DEF EnterCase, Sound, Op
  <2> QED  BY <1>3, <2>1 DEF EnterCase, Running, OrderInv, control, final, Op
<1>4. CASE Judge
  BY <1>4 DEF Judge, OrderInv, CaseSteps, final
<1>5. CASE Fail
  BY <1>5 DEF Fail, Running, InCase, OrderInv, CaseSteps, final
<1>6. CASE Finished
  BY <1>6 DEF Finished, OrderInv, CaseSteps, control, final
<1>7. CASE Skip \/ Confirmed \/ RestoreFails
  BY <1>7 DEF Skip, Confirmed, RestoreFails, Restoring, OrderInv, CaseSteps, control, caseVars, script
<1>8. CASE RestoreInterrupted \/ Report
  BY <1>8 DEF RestoreInterrupted, Report, Restoring, OrderInv, CaseSteps, control, final
<1>9. CASE UNCHANGED vars
  BY <1>9 DEF vars, caseVars, script, control, final, OrderInv
<1> QED  BY <1>1, <1>2, <1>3, <1>4, <1>5, <1>6, <1>7, <1>8, <1>9, NextCases

\* What is changed is still ahead of the finally block.
LEMMA AheadStep ==
  ASSUME IInv, [Next]_vars
  PROVE  AheadInv'
<1> ControlType /\ OrderInv /\ AheadInv  BY DEF IInv, TypeOK
<1> DEFINE Ahead(p) == \E i \in 1..Len(RestoreOrder[campaign]) :
                         i >= restoring /\ RestoreOrder[campaign][i] = p
<1>1. ASSUME Running, Op[1] = "change"  PROVE Ahead(Op[2])
  <2>1. restoring = 1  BY <1>1 DEF Running, OrderInv
  <2>2. PICK k \in 1..Len(RestoreOrder[campaign]) : RestoreOrder[campaign][k] = Op[2]
    BY <1>1, OpSound DEF Sound, Op
  <2>3. k >= restoring  BY <2>1, <2>2, Scripts DEF ControlType
  <2> QED  BY <2>2, <2>3
<1>2. ASSUME InCase  PROVE Ahead("ingress")
  <2>1. restoring = 1 /\ campaign = "fault"  BY <1>2 DEF InCase, OrderInv, CaseSteps
  <2>2. 3 \in 1..Len(RestoreOrder[campaign]) /\ RestoreOrder[campaign][3] = "ingress"
    BY <2>1, Orders
  <2> QED  BY <2>1, <2>2
<1>3. CASE Perform
  <2>1. changed' = Applied(Op) /\ UNCHANGED <<pc, campaign, restoring, cleanup>>
    BY <1>3 DEF Perform, script, final
  <2> QED  BY <1>1, <1>3, <2>1, AppliedParts DEF Perform, AheadInv
<1>4. CASE Fail
  <2>1. UNCHANGED <<campaign, restoring, cleanup>> /\ cleanup = {} /\ pc # "done"
    BY <1>4 DEF Fail, final, Running, InCase, OrderInv, CaseSteps
  <2>2. CASE Running
    BY <1>1, <1>4, <2>1, <2>2, AppliedParts DEF Fail, AheadInv
  <2>3. CASE ~Running
    BY <1>2, <1>4, <2>1, <2>3 DEF Fail, AheadInv
  <2> QED  BY <2>2, <2>3
<1>5. CASE (StartCase \/ CaseMove) /\ UNCHANGED <<control, final>>
  <2>1. InCase /\ pc # "done"  BY <1>5, CaseFrame DEF InCase, CaseSteps
  <2>2. UNCHANGED <<campaign, restoring, cleanup>>  BY <1>5 DEF control, final
  <2>3. \A p \in changed' : p \in changed \/ p = "ingress"  BY <1>5, CaseFrame
  <2> QED  BY <1>2, <2>1, <2>2, <2>3 DEF AheadInv
<1>6. CASE Skip
  <2>1. /\ Restoring /\ ~Attempted /\ restoring' = restoring + 1
        /\ UNCHANGED <<pc, changed, cleanup, campaign>>
    BY <1>6 DEF Skip, caseVars, script, control
  <2>2. SUFFICES ASSUME cleanup = {}, NEW p \in changed
                 PROVE  \E i \in 1..Len(RestoreOrder[campaign]) :
                          i >= restoring + 1 /\ RestoreOrder[campaign][i] = p
    BY <2>1 DEF AheadInv
  <2>3. PICK i \in 1..Len(RestoreOrder[campaign]) : i >= restoring /\ RestoreOrder[campaign][i] = p
    BY <2>1, <2>2 DEF AheadInv, Restoring
  <2>4. ASSUME i = restoring  PROVE FALSE
    <3>1. Part = p /\ (Conditional(campaign, p) => Original(campaign, p) \in saved)
      BY <2>2, <2>3, <2>4 DEF Part, IInv, NotedInv
    <3> QED  BY <2>1, <2>2, <3>1 DEF Attempted, PerPart, Conditional, Original, ControlType
  <2>5. i >= restoring + 1  BY <2>3, <2>4, Scripts DEF ControlType
  <2> QED  BY <2>3, <2>5
<1>7. CASE Confirmed
  <2>1. /\ restoring' = restoring + 1 /\ changed' = changed \ {Part} /\ Restoring
        /\ UNCHANGED <<pc, cleanup, campaign>>
    BY <1>7 DEF Confirmed, script, control
  <2>2. SUFFICES ASSUME cleanup = {}, NEW p \in changed, p # Part
                 PROVE  \E i \in 1..Len(RestoreOrder[campaign]) :
                          i >= restoring + 1 /\ RestoreOrder[campaign][i] = p
    BY <2>1 DEF AheadInv
  <2>3. PICK i \in 1..Len(RestoreOrder[campaign]) : i >= restoring /\ RestoreOrder[campaign][i] = p
    BY <2>1, <2>2 DEF AheadInv, Restoring
  <2>4. i # restoring  BY <2>2, <2>3 DEF Part
  <2>5. i >= restoring + 1  BY <2>3, <2>4, Scripts DEF ControlType
  <2> QED  BY <2>3, <2>5
<1>8. CASE RestoreFails
  BY <1>8 DEF RestoreFails, AheadInv
<1>9. CASE RestoreInterrupted \/ Report
  BY <1>9 DEF RestoreInterrupted, Report, AheadInv
<1>10. CASE EnterCase \/ Judge \/ Finished \/ UNCHANGED vars
  <2>1. UNCHANGED <<changed, campaign, restoring, cleanup>> /\ (pc' # "done" => pc # "done")
    BY <1>10 DEF EnterCase, Running, Judge, Finished, vars, caseVars, script, control, final
  <2> QED  BY <2>1 DEF AheadInv
<1> QED  BY <1>3, <1>4, <1>5, <1>6, <1>7, <1>8, <1>9, <1>10, NextCases

\* Decisions stay paused while anything else is changed.
LEMMA PausedStep ==
  ASSUME IInv, [Next]_vars
  PROVE  PausedInv'
<1> ControlType /\ OrderInv /\ PausedInv  BY DEF IInv, TypeOK
<1>1. CASE Perform
  <2> SUFFICES ASSUME campaign = "fault"  PROVE PausedInv'  BY <1>1 DEF Perform, PausedInv
  <2>1. /\ pc = "run" /\ pc' = "run" /\ campaign' = campaign /\ step' = step + 1
        /\ changed' = Applied(Op)
    BY <1>1 DEF Perform, Running, script
  <2>2. /\ Op[1] # "undo" /\ (step = 1 => Op[1] = "save")
        /\ (step = 2 => Op[1] = "change" /\ Op[2] = "agent")
    BY <1>1, OpSound DEF Perform, Sound, Op
  <2>3. CASE step = 1
    BY <2>1, <2>2, <2>3 DEF PausedInv, Applied
  <2>4. CASE step = 2
    BY <2>1, <2>2, <2>4 DEF PausedInv, Applied
  <2>5. CASE step > 2
    <3>1. "agent" \in changed  BY <2>1, <2>5 DEF PausedInv
    <3>2. "agent" \in changed'  BY <2>1, <2>2, <3>1 DEF Applied
    <3> QED  BY <2>1, <2>5, <3>2 DEF PausedInv, ControlType
  <2> QED  BY <2>3, <2>4, <2>5 DEF ControlType
<1>2. CASE (StartCase \/ CaseMove) /\ UNCHANGED <<control, final>>
  <2>1. /\ pc \notin {"restore", "done"} /\ step > 2 /\ campaign = "fault"
        /\ UNCHANGED <<campaign, step>> /\ ("agent" \in changed => "agent" \in changed')
    BY <1>2, CaseFrame DEF OrderInv, CaseSteps, control
  <2> QED  BY <2>1 DEF PausedInv, ControlType
<1>3. CASE Judge
  BY <1>3 DEF Judge, OrderInv, PausedInv, ControlType
<1>4. CASE EnterCase
  BY <1>4 DEF EnterCase, Running, PausedInv, control
<1>5. CASE Fail \/ Finished \/ RestoreInterrupted \/ Report
  BY <1>5 DEF Fail, Finished, RestoreInterrupted, Report, PausedInv
<1>6. CASE Skip \/ Confirmed \/ RestoreFails
  BY <1>6 DEF Skip, Confirmed, RestoreFails, Restoring, PausedInv, caseVars, script
<1>7. CASE UNCHANGED vars
  BY <1>7 DEF vars, caseVars, script, control, PausedInv
<1> QED  BY <1>1, <1>2, <1>3, <1>4, <1>5, <1>6, <1>7, NextCases

LEMMA DecisionsStep ==
  ASSUME IInv, [Next]_vars
  PROVE  DecisionsPaused'
<1> SUFFICES ASSUME campaign = "fault", campaign' = campaign, "agent" \notin changed'
             PROVE  changed' = {} \/ cleanup' # {}
  <2>1. campaign' = campaign
    BY NextCases DEF Perform, EnterCase, Judge, Fail, Finished, Skip, Confirmed, RestoreFails,
                     RestoreInterrupted, Report, vars, control
  <2> QED  BY <2>1 DEF DecisionsPaused
<1> ControlType /\ OrderInv /\ PausedInv /\ AheadInv /\ DecisionsPaused  BY DEF IInv, TypeOK
<1>1. CASE pc' \notin {"restore", "done"}
  BY <1>1, PausedStep, ControlTypeStep DEF PausedInv, ControlType
<1>2. CASE Fail
  <2>1. CASE Running
    <3>1. /\ Op[1] # "undo" /\ (step = 1 => Op[1] = "save")
          /\ (step = 2 => Op[1] = "change" /\ Op[2] = "agent")
      BY <2>1, OpSound DEF Sound, Op
    <3>2. pc = "run" /\ changed' \in {changed, Applied(Op)}  BY <1>2, <2>1 DEF Fail, Running
    <3>3. CASE step = 1  BY <3>1, <3>2, <3>3 DEF PausedInv, Applied
    <3>4. CASE step = 2  BY <3>1, <3>2, <3>4 DEF PausedInv, Applied
    <3>5. CASE step > 2  BY <3>1, <3>2, <3>5 DEF PausedInv, Applied
    <3> QED  BY <3>3, <3>4, <3>5 DEF ControlType
  <2>2. CASE ~Running
    BY <1>2, <2>2 DEF Fail, InCase, CaseSteps, PausedInv, OrderInv
  <2> QED  BY <2>1, <2>2
<1>3. CASE Finished \/ Skip \/ Report \/ UNCHANGED vars
  BY <1>3 DEF Finished, Skip, Report, vars, caseVars, final, DecisionsPaused
<1>4. CASE Confirmed
  <2>1. /\ pc = "restore" /\ restoring \in 1..4 /\ changed' = changed \ {Part}
        /\ Part = RestoreOrder["fault"][restoring] /\ cleanup' = cleanup
    BY <1>4, Orders DEF Confirmed, Restoring, Part, ControlType
  <2>2. CASE restoring = 4
    <3>1. cleanup = {} => \A p \in changed : p = "agent"
      BY <2>1, <2>2, Orders DEF AheadInv
    <3> QED  BY <2>1, <2>2, <3>1, Orders
  <2>3. CASE restoring \in 1..3
    <3>1. "agent" \notin changed  BY <2>1, <2>3, Orders
    <3> QED  BY <2>1, <3>1 DEF DecisionsPaused
  <2> QED  BY <2>1, <2>2, <2>3
<1>5. CASE RestoreFails  BY <1>5 DEF RestoreFails
<1>6. CASE RestoreInterrupted  BY <1>6 DEF RestoreInterrupted, PerPart
<1>7. CASE Perform \/ EnterCase \/ Judge
  BY <1>1, <1>7 DEF Perform, EnterCase, Judge, Running, script
<1>8. CASE (StartCase \/ CaseMove) /\ UNCHANGED <<control, final>>
  BY <1>1, <1>8, CaseFrame DEF CaseSteps
<1> QED  BY <1>2, <1>3, <1>4, <1>5, <1>6, <1>7, <1>8, NextCases

\* What is on record as restored is restored.
LEMMA RestoredStep ==
  ASSUME IInv, [Next]_vars
  PROVE  RestoredIsTrue'
<1> ControlType /\ OrderInv /\ AheadInv /\ RestoredIsTrue  BY DEF IInv, TypeOK
<1>1. CASE pc \notin {"restore", "done"} /\ disk' = disk
  BY <1>1 DEF OrderInv, RestoredIsTrue
<1>2. CASE (StartCase \/ CaseMove) /\ UNCHANGED <<control, final>>
  BY <1>1, <1>2, CaseFrame DEF CaseSteps, final
<1>3. CASE Perform \/ EnterCase \/ Judge \/ Fail \/ Finished
  BY <1>1, <1>3 DEF Perform, EnterCase, Judge, Fail, Finished, Running, InCase, CaseSteps, final
<1>4. CASE Skip \/ RestoreFails \/ RestoreInterrupted \/ UNCHANGED vars
  BY <1>4 DEF Skip, RestoreFails, RestoreInterrupted, vars, caseVars, final, RestoredIsTrue
<1>5. CASE Confirmed
  BY <1>5 DEF Confirmed, RestoredIsTrue
<1>6. CASE Report
  <2>1. CASE disk' = disk  BY <1>6, <2>1 DEF Report, RestoredIsTrue
  <2>2. CASE cleanup = {}
    <3>1. changed = {}  BY <1>6, <2>2, Scripts DEF Report, AheadInv, ControlType
    <3> QED  BY <1>6, <3>1 DEF Report, RestoredIsTrue
  <2> QED  BY <1>6, <2>1, <2>2 DEF Report
<1> QED  BY <1>2, <1>3, <1>4, <1>5, <1>6, NextCases

\* A case that reconciles went as expected, so a wrong one is contradicted.
LEMMA WrongStep ==
  ASSUME IInv, [Next]_vars
  PROVE  WrongInv'
<1> WrongInv  BY DEF IInv
<1>1. CASE Judge
  <2>1. /\ entry.journals = 1..inits /\ entry.effects = effects /\ entry.row = row
        /\ inits \in Nat
    BY <1>1 DEF Judge, IInv, CaseInv, CaseFacts, JournalInv, Active, TypeOK, CaseType, WriterType
  <2>2. Cardinality(entry.journals) = inits  BY <2>1, FS_Interval
  <2>3. Reconciles(name, entry) => AsExpected(name)
    BY <2>1, <2>2 DEF Reconciles, AsExpected, writer_initiations
  <2> QED  BY <1>1, <2>3 DEF Judge, WrongInv
<1>2. CASE Perform  BY <1>2 DEF Perform, WrongInv
<1>3. CASE UNCHANGED <<contradicted, wrong>>  BY <1>3 DEF WrongInv
<1> QED
  BY <1>1, <1>2, <1>3, NextCases DEF EnterCase, Fail, Finished, Skip, Confirmed, RestoreFails,
                                     RestoreInterrupted, Report, vars, control

\* The verdict is given once, when everything it states is settled.
LEMMA PassStep ==
  ASSUME IInv, [Next]_vars
  PROVE  PassIsEarned'
<1> ControlType /\ OrderInv /\ AheadInv /\ WrongInv /\ PassIsEarned  BY DEF IInv, TypeOK
<1>1. CASE verdict' = "none"  BY <1>1 DEF PassIsEarned
<1>2. CASE Report
  <2> SUFFICES ASSUME verdict' = "pass"  PROVE PassIsEarned'  BY DEF PassIsEarned
  <2>1. ~errors /\ cleanup = {} /\ ~contradicted  BY <1>2 DEF Report, Verdict
  <2>2. changed = {}  BY <1>2, <2>1, Scripts DEF Report, AheadInv, ControlType
  <2>3. step > Len(Program[campaign])  BY <1>2, <2>1 DEF Report, OrderInv
  <2>4. ~wrong  BY <2>1 DEF WrongInv
  <2> QED  BY <1>2, <2>2, <2>3, <2>4 DEF Report, control, PassIsEarned
<1>3. CASE UNCHANGED vars  BY <1>3 DEF vars, caseVars, control, final, PassIsEarned
<1>4. CASE pc # "done" /\ verdict' = verdict  BY <1>1, <1>4 DEF OrderInv
<1>5. CASE (StartCase \/ CaseMove) /\ UNCHANGED <<control, final>>
  BY <1>4, <1>5, CaseFrame DEF CaseSteps, final
<1>6. CASE Perform \/ EnterCase \/ Judge \/ Fail \/ Finished
  BY <1>4, <1>6 DEF Perform, EnterCase, Judge, Fail, Finished, Running, InCase, CaseSteps, final
<1>7. CASE Skip \/ Confirmed \/ RestoreFails \/ RestoreInterrupted
  BY <1>4, <1>7 DEF Skip, Confirmed, RestoreFails, RestoreInterrupted, Restoring, final
<1> QED  BY <1>2, <1>3, <1>5, <1>6, <1>7, NextCases

\* The facts about a case last as long as the case does.
LEMMA CaseStep ==
  ASSUME IInv, [Next]_vars
  PROVE  CaseInv'
<1> SUFFICES ASSUME pc' \in Active  PROVE CaseFacts'  BY DEF CaseInv
<1> CaseType /\ OrderInv /\ CaseInv  BY DEF IInv, TypeOK
<1>1. CASE StartCase  BY <1>1, StartStep DEF OrderInv, StartCase, CaseSteps
<1>2. CASE CaseMove
  <2>1. pc \in CaseSteps /\ name \in Names  BY <1>2, CaseFrame DEF OrderInv
  <2>2. pc # "case"
    BY <1>2 DEF CaseMove, Active, Deliver, Connect, Begin, Commit, Consume, Acknowledge,
                NativeFailure, GiveUp, Publish, CallerTimeout, script, SetPlan, Submit,
                CaptureHeld, RestartHeld, FirstReply, Expire, Settle, Replay, SecondReply,
                CaptureAfter
  <2>3. pc \in Active /\ CaseFacts  BY <2>1, <2>2 DEF Active, CaseInv
  <2> QED
    BY <1>2, <2>1, <2>3, FlowStep, StageStep, HeldStep, ModeStep, LossyStep, UnknownStep, OwedStep,
       SettledStep, JournalStep
    DEF CaseFacts
<1>3. CASE Perform \/ EnterCase \/ Judge \/ Fail \/ Finished \/ Skip \/ Confirmed \/ RestoreFails
           \/ RestoreInterrupted \/ Report
  BY <1>3 DEF Perform, EnterCase, Judge, Fail, Finished, Skip, Confirmed, RestoreFails, Restoring,
              RestoreInterrupted, Report, Running, caseVars, script, Active, CaseSteps
<1>4. CASE UNCHANGED vars
  <2>1. pc \in Active /\ CaseFacts  BY <1>4 DEF vars, caseVars, script, CaseInv
  <2> QED
    BY <1>4, <2>1 DEF vars, caseVars, script, proxy, writer, bus, truth, CaseFacts, FlowInv, StageInv,
       HeldInv, ModeInv, LossyInv, UnknownInv, OwedInv, Owed, SettledInv, Settled, JournalInv
<1> QED  BY <1>1, <1>2, <1>3, <1>4, NextCases

-----------------------------------------------------------------------------
\* The invariant of a campaign.
THEOREM Inductive == Spec => []IInv
<1>1. Init => IInv
  <2> SUFFICES ASSUME Init  PROVE IInv  OBVIOUS
  <2>1. ScriptType /\ WriterType
    BY DEF Init, Idle, ScriptType, WriterType, Modes, Rows, Stages, CaseSteps
  <2>2. BusType
    <3>1. outbox \in Seq(Results) /\ inbox \in Nat  BY DEF Init
    <3> QED  BY <3>1, Zenon DEF Init, BusType
  <2>3. entry \in Evidence  BY DEF Init, NoEvidence, Evidence, Rows
  <2>4. ControlType
    <3>1. campaign \in {"fault", "recovery", "capture", "assurance"}
      BY CampaignAssumption DEF Init
    <3>2. errors \in BOOLEAN /\ contradicted \in BOOLEAN /\ wrong \in BOOLEAN
      BY Zenon DEF Init
    <3>3. step \in Nat \ {0} /\ restoring \in Nat \ {0}  BY DEF Init
    <3> QED  BY <3>1, <3>2, <3>3, Zenon DEF Init, ControlType
  <2>5. NotedInv /\ AheadInv /\ PausedInv /\ WrongInv
    BY DEF Init, NotedInv, AheadInv, PausedInv, WrongInv
  <2>6. OrderInv /\ RestoredIsTrue /\ PassIsEarned /\ DecisionsPaused /\ CaseInv
    BY DEF Init, OrderInv, CaseSteps, RestoredIsTrue, PassIsEarned, DecisionsPaused, CaseInv, Active
  <2> QED  BY <2>1, <2>2, <2>3, <2>4, <2>5, <2>6 DEF IInv, TypeOK, CaseType
<1>2. IInv /\ [Next]_vars => IInv'
  BY CaseTypeStep, ControlTypeStep, NotedStep, OrderStep, AheadStep, PausedStep, WrongStep,
     RestoredStep, PassStep, DecisionsStep, CaseStep
  DEF IInv, TypeOK
<1> QED  BY <1>1, <1>2, PTL DEF Spec

\* Every variable keeps its type (FaultRun, RecoveryRun, e0_capture.main).
THEOREM TypeCorrect == Spec => []TypeOK
<1>1. IInv => TypeOK  BY DEF IInv
<1> QED  BY <1>1, Inductive, PTL

\* A part on record as restored is as the campaign found it, for any script and any
\* sequence of fault cases (the finally blocks of the three main functions).
THEOREM RecordsOfRestorationAreTrue == Spec => []RestoredIsTrue
<1>1. IInv => RestoredIsTrue  BY DEF IInv
<1> QED  BY <1>1, Inductive, PTL

\* A campaign that passes ran its whole program, every case as expected, and left the
\* deployment as it was (fault_checks.report, the exit status of the scripts).
THEOREM PassesAreEarned == Spec => []PassIsEarned
<1>1. IInv => PassIsEarned  BY DEF IInv
<1> QED  BY <1>1, Inductive, PTL

\* The decision agent never runs against a part the command-fault campaign still has
\* changed, unless its restoration is on record as failed (fault_case.main).
THEOREM DecisionsStayPaused == Spec => []DecisionsPaused
<1>1. IInv => DecisionsPaused  BY DEF IInv
<1> QED  BY <1>1, Inductive, PTL

\* However deliveries, results and messages interleave, a case without a timeout ends
\* as fault_checks.EXPECTED states (FaultRun.case, FaultProxy.handle).
THEOREM FaultsAreContained == Spec => []FaultsEndAsExpected
<1>1. IInv => FaultsEndAsExpected
  <2> SUFFICES ASSUME IInv, pc = "judge", ~slow  PROVE AsExpected(name)  BY DEF FaultsEndAsExpected
  <2>1. CaseFacts /\ name \in Names /\ row \in Rows
    BY DEF IInv, CaseInv, Active, OrderInv, TypeOK, CaseType, WriterType
  <2>2. CASE name \in Lossy
    BY <2>1, <2>2, CaseTable
    DEF Lossy, CaseFacts, LossyInv, UnknownInv, StageInv, AsExpected, Initiations
  <2>3. CASE name = "caller_reply_lost"
    BY <2>1, <2>3, CaseTable DEF CaseFacts, SettledInv, StageInv, AsExpected, Initiations
  <2>4. CASE name = "delayed_expired_command"
    BY <2>1, <2>4, CaseTable DEF CaseFacts, SettledInv, StageInv, AsExpected, Initiations
  <2>5. CASE name = "before_write_disconnect"
    <3>1. row \in {"retryable", "unknown", "completed"}
      BY <2>1, <2>5 DEF CaseFacts, SettledInv, Settled, Rows
    <3>2. row = "completed"
      BY <2>1, <2>5, <3>1 DEF CaseFacts, OwedInv, UnknownInv, Lossy
    <3> QED  BY <2>1, <2>5, <3>2, CaseTable DEF CaseFacts, StageInv, AsExpected, Initiations
  <2> QED  BY <2>1, <2>2, <2>3, <2>4, <2>5, CaseTable DEF Lossy
<1> QED  BY <1>1, Inductive, PTL
=============================================================================
