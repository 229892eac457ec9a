--------------------------- MODULE LiveCampaign ---------------------------
(***************************************************************************)
(* The scripts that experiment on a running deployment: fault_case.py,     *)
(* recovery_case.py and e0_capture.py (with and without --assurance).      *)
(* Each notes what it is about to change, pauses or replaces parts of the  *)
(* deployment, runs its cases, restores every part in a finally block      *)
(* whatever happened, writes whether restoration was confirmed, and only   *)
(* then turns its evidence into a verdict.                                 *)
(*                                                                         *)
(* A step that calls the cluster can fail or be interrupted before or      *)
(* after it took effect.  An interrupted call has landed or been given up  *)
(* before the restoring call on the same part runs.                        *)
(***************************************************************************)
EXTENDS CommandFaults

CONSTANT Campaigns, \* the scripts to run
         Cases      \* the fault cases in the profile's order

ASSUME CampaignAssumption ==
  /\ Campaigns \subseteq {"fault", "recovery", "capture", "assurance"}
  /\ Cases \in Seq(Names)

VARIABLES
  campaign, step,   \* the script and the operation it is at
  saved,            \* the originals it holds in memory
  errors,           \* capture_errors is not empty, or the run raised
  contradicted,     \* some captured section contradicts what the script expects
  wrong,            \* some case really went otherwise than the script expects
  restoring,        \* position in the finally block
  cleanup,          \* the parts whose restoration was not confirmed
  disk,             \* the parts recorded on disk as restored
  verdict

control == <<campaign, step, saved, errors, contradicted, wrong>>
final == <<restoring, cleanup, disk, verdict>>
vars == <<caseVars, control, final>>

Parts == {"agent", "ingress", "broker", "template", "jam", "controls"}

\* A script is the sequence of its operations that note an original, change a part,
\* undo the change, run a fault case, or end a stage that yields evidence.
\* FaultRun.run: decisions paused, conveyor stopped, six distinct bottles found.
FaultSetup == <<<<"save", "controls">>, <<"change", "agent">>, <<"change", "controls">>>>

\* FaultRun.install: the writer's template as found, then with the proxy beside it.
Install == <<<<"save", "template">>, <<"change", "template">>>>

FaultProgram == FaultSetup \o Install \o [i \in 1..Len(Cases) |-> <<"case", Cases[i]>>]

\* Fault injection: the jam setting is read only after it was overwritten.
RecoverySavesLate ==
  <<<<"save", "controls">>, <<"change", "jam">>, <<"save", "jam">>, <<"change", "controls">>>>

\* RecoveryRun.run up to the first packet: quiet conveyor, no random jams.
RecoverySetup ==
  <<<<"save", "controls">>, <<"save", "jam">>, <<"change", "jam">>, <<"change", "controls">>>>

\* RecoveryRun.run: the producer and publisher restarts leave every part as it is.
ProducerRestarts == <<<<"end", "producer_restart">>, <<"end", "publisher_restart">>>>

\* The consumer restarts while the ingress holds one pending inspection's command back.
ConsumerRestart == <<<<"change", "ingress">>, <<"change", "agent">>,
                     <<"undo", "agent">>, <<"undo", "ingress">>>>

Outage == <<<<"change", "broker">>, <<"undo", "broker">>, <<"end", "run">>>>

RecoveryProgram == RecoverySetup \o ProducerRestarts \o ConsumerRestart \o Outage
                     \o <<<<"end", "finish">>>>

\* e0_capture.main: decisions are paused; with --assurance random jams are off as well.
CaptureProgram == <<<<"save", "agent">>, <<"change", "agent">>, <<"end", "execute">>>>
AssuranceProgram == <<<<"save", "agent">>, <<"change", "agent">>, <<"save", "jam">>,
                      <<"change", "jam">>, <<"end", "execute">>>>

Program == [fault |-> FaultProgram, recovery |-> RecoveryProgram,
            capture |-> CaptureProgram, assurance |-> AssuranceProgram]

\* Fault injection: the decision agent is resumed before the writer is.
RestoreAgentFirst ==
  [fault     |-> <<"agent", "ingress", "template", "controls">>,
   recovery  |-> <<"agent", "broker", "ingress", "jam", "controls">>,
   capture   |-> <<"agent">>,
   assurance |-> <<"jam", "agent">>]

\* The order of the finally blocks.
RestoreOrder ==
  [fault     |-> <<"template", "controls", "ingress", "agent">>,
   recovery  |-> <<"agent", "broker", "ingress", "jam", "controls">>,
   capture   |-> <<"agent">>,
   assurance |-> <<"jam", "agent">>]

Op == Program[campaign][step]
Running == pc = "run" /\ step <= Len(Program[campaign])

\* The parts with op applied.
Applied(op) == CASE op[1] = "change" -> changed \cup {op[2]}
                 [] op[1] = "undo" -> changed \ {op[2]}
                 [] OTHER -> changed

Init ==
  /\ campaign \in Campaigns
  /\ step = 1 /\ pc = "run" /\ name = "none" /\ entry = NoEvidence
  /\ saved = {} /\ changed = {}
  /\ errors = FALSE /\ contradicted = FALSE /\ wrong = FALSE
  /\ restoring = 1 /\ cleanup = {} /\ disk = {} /\ verdict = "none"
  /\ plan = "normal" /\ events = {} /\ row = "none" /\ journal = {} /\ conn = Idle
  /\ mail = FALSE /\ inbox = 0 /\ outbox = <<>> /\ asked = FALSE
  /\ reply = "none" /\ expired = FALSE
  /\ effects = 0 /\ inits = 0 /\ slow = FALSE

\* One operation of the script's run: of FaultRun.run, RecoveryRun.run and
\* e0_capture.main as listed above, program by program.  Evidence of the live
\* recovery and of the local command case is opaque here: it agrees with the
\* expectation or not.
Perform ==
  /\ Running /\ Op[1] # "case"
  /\ changed' = Applied(Op)
  /\ saved' = IF Op[1] = "save" THEN saved \cup {Op[2]} ELSE saved
  /\ contradicted' \in IF Op[1] = "end" THEN {contradicted, TRUE} ELSE {contradicted}
  /\ wrong' = contradicted'
  /\ step' = step + 1
  /\ UNCHANGED <<script, proxy, writer, mail, bus, reply, expired, truth, campaign, errors, final>>

EnterCase ==
  /\ Running /\ Op[1] = "case"
  /\ pc' = "case"
  /\ name' = Op[2]
  /\ UNCHANGED <<entry, changed, proxy, writer, mail, bus, reply, expired, truth, control, final>>

\* The check is a function of the entry, which later cases leave alone.  The next
\* case starts seconds after the last capture, when the device has caught up.
Judge ==
  /\ pc = "judge"
  /\ contradicted' = (contradicted \/ ~Reconciles(name, entry))
  /\ wrong' = (wrong \/ ~AsExpected(name))
  /\ step' = step + 1
  /\ pc' = "run"
  /\ UNCHANGED <<name, entry, changed, proxy, writer, mail, bus, reply, expired, truth,
                 campaign, saved, errors, final>>

\* An exception or an interrupt: the call under way took effect or not.  All
\* three scripts catch it in main and go on to their finally block
\* (fault_case.py:534, recovery_case.py:646, e0_capture.py:1098).
Fail ==
  /\ Running \/ InCase
  /\ changed' \in IF Running THEN {changed, Applied(Op)}
                  ELSE IF pc = "case" /\ name = "delayed_expired_command"
                       THEN {changed, changed \cup {"ingress"}} ELSE {changed}
  /\ errors' = TRUE
  /\ pc' = "restore"
  /\ UNCHANGED <<name, entry, proxy, writer, mail, bus, reply, expired, truth,
                 campaign, step, saved, contradicted, wrong, final>>

Finished ==
  /\ pc = "run" /\ step > Len(Program[campaign])
  /\ pc' = "restore"
  /\ UNCHANGED <<name, entry, changed, proxy, writer, mail, bus, reply, expired, truth,
                 control, final>>

-----------------------------------------------------------------------------
(* The finally block.                                                      *)

Restoring == pc = "restore" /\ restoring <= Len(RestoreOrder[campaign])
Part == RestoreOrder[campaign][restoring]
PerPart == campaign \in {"capture", "assurance"} \* one state file for each part

\* Restoration of a part is skipped when its original was never read;
\* recovery_case restores the conveyor only after the jam setting, in one block.
Attempted ==
  CASE campaign = "fault" /\ Part \in {"template", "controls"} -> Part \in saved
    [] campaign = "recovery" /\ Part \in {"jam", "controls"} ->
         "jam" \in saved /\ "jam" \notin cleanup
    [] PerPart -> Part \in saved
    [] OTHER -> TRUE

Skip ==
  /\ Restoring /\ ~Attempted
  /\ restoring' = restoring + 1
  /\ UNCHANGED <<caseVars, control, cleanup, disk, verdict>>

Confirmed ==
  /\ Restoring /\ Attempted
  /\ changed' = changed \ {Part}
  /\ disk' = IF PerPart THEN disk \cup {Part} ELSE disk
  /\ restoring' = restoring + 1
  /\ UNCHANGED <<script, proxy, writer, mail, bus, reply, expired, truth, control,
                 cleanup, verdict>>

\* The original template is patched back, rolled out and compared.
RestoreWriter == Part = "template" /\ Confirmed

\* The jam setting of the simulator: removed, or bound as it was.
RestoreJam == Part = "jam" /\ Confirmed

\* restore_controls sends conveyor commands, which travel through the ingress, and
\* compares the resulting state with the original.
RestoreControls == Part = "controls" /\ "ingress" \notin changed /\ Confirmed

RestoreReplicas == Part \in {"agent", "broker", "ingress"} /\ Confirmed

\* Fault injection: a failed restoration is not remembered.
RestoreFailsQuietly ==
  /\ Restoring /\ Attempted
  /\ changed' \in {changed, changed \ {Part}}
  /\ restoring' = restoring + 1
  /\ UNCHANGED <<script, proxy, writer, mail, bus, reply, expired, truth, control,
                 cleanup, disk, verdict>>

\* The restoring call fails or its confirmation does; the other parts still follow.
RestoreFails ==
  /\ Restoring /\ Attempted
  /\ changed' \in {changed, changed \ {Part}}
  /\ cleanup' = cleanup \cup {Part}
  /\ restoring' = restoring + 1
  /\ UNCHANGED <<script, proxy, writer, mail, bus, reply, expired, truth, control,
                 disk, verdict>>

\* An interrupt of a restoring call that only expects subprocess and OS errors
\* leaves the finally block at once: no state is recorded and no verdict given.
RestoreInterrupted ==
  /\ Restoring /\ Attempted
  /\ PerPart \/ (campaign = "recovery" /\ Part \in {"agent", "broker", "ingress"})
  /\ changed' \in {changed, changed \ {Part}}
  /\ pc' = "done"
  /\ UNCHANGED <<name, entry, proxy, writer, mail, bus, reply, expired, truth, control, final>>

RunReturned == \E i \in 1..(step - 1) : Program[campaign][i] = <<"end", "run">>

\* fault_checks.report, recovery_case.main and e0_capture.main.
Verdict ==
  LET clean == ~errors /\ cleanup = {}
  IN IF (campaign = "recovery" /\ ~RunReturned) \/ (PerPart /\ ~clean) THEN "unknown"
     ELSE IF contradicted THEN "fail"
     ELSE IF clean THEN "pass" ELSE "unknown"

Report ==
  /\ pc = "restore" /\ restoring > Len(RestoreOrder[campaign])
  /\ disk' = IF ~PerPart /\ cleanup = {} THEN Parts ELSE disk
  /\ verdict' = Verdict
  /\ pc' = "done"
  /\ UNCHANGED <<name, entry, changed, proxy, writer, mail, bus, reply, expired, truth,
                 control, restoring, cleanup>>

Done == pc = "done" /\ UNCHANGED vars

Next ==
  \/ CaseNext /\ UNCHANGED <<control, final>>
  \/ Perform \/ EnterCase \/ Judge \/ Fail \/ Finished
  \/ Skip \/ (Restoring /\ (RestoreWriter \/ RestoreJam \/ RestoreControls \/ RestoreReplicas))
  \/ RestoreFails \/ RestoreInterrupted \/ Report
  \/ Done

Spec == Init /\ [][Next]_vars

-----------------------------------------------------------------------------
\* What restoration.json, controller-state.json and source-case-state.json record as
\* restored is really as the campaign found it, whichever step failed or was interrupted
\* and whatever had been noted by then (fault_case.main, recovery_case.main,
\* e0_capture.main: the finally blocks).
RestoredIsTrue == disk \cap changed = {}

\* A campaign passes only when its whole program ran, every case really ended in the
\* expected effect, initiation and ledger state, and each part it changes (Parts) is
\* again as it was found (fault_checks.report, recovery_checks.check_recovery, the exit status of e0_capture).
PassIsEarned ==
  verdict = "pass" =>
    /\ step > Len(Program[campaign])
    /\ ~wrong
    /\ changed = {}

\* While the command-fault campaign lasts, the decision agent runs only against a
\* deployment that is as it was found, or one whose restoration is on record as
\* not confirmed (fault_case.main: "Keep automatic decisions paused until the normal
\* writer and desired controls return").
DecisionsPaused ==
  campaign = "fault" /\ "agent" \notin changed => changed = {} \/ cleanup # {}

\* Whatever the deliveries, results and messages interleave to, a case in which no
\* timeout runs out and no connection fails beside the planned fault ends with the
\* native effects, the single initiation and the ledger state that
\* fault_checks.EXPECTED states (FaultRun.case, FaultProxy.handle and the writer's
\* ledger).
FaultsEndAsExpected == pc = "judge" /\ ~slow => AsExpected(name)
=============================================================================
