--------------------------- MODULE CommandFaults ---------------------------
(***************************************************************************)
(* One case of the command-fault campaign (scripts/fault_case.py): the     *)
(* script submits one rejection command while a proxy between the writer   *)
(* and the Modbus mailbox (scripts/native_fault_proxy.py) loses a chosen   *)
(* message, then replays the unchanged command and captures the evidence   *)
(* scripts/fault_checks.py judges.                                         *)
(*                                                                         *)
(* The script, the ingress and orchestrator, the writer with its proxied   *)
(* connection, and the device take their steps concurrently; results of    *)
(* both deliveries carry the same correlation id, so a late first result   *)
(* can be taken for the answer to the replay.  LiveCampaign runs the cases *)
(* and decides what a failed step does.                                    *)
(***************************************************************************)
EXTENDS Naturals, Sequences, FiniteSets

VARIABLES
  pc, name, entry,      \* the script: its step, the case and the evidence so far
  changed,              \* the parts of the deployment not as the campaign found them
  plan, events,         \* the proxy: mode in plan.json, events in events.jsonl
  row, journal, conn,   \* the writer: ledger row, initiations in its journal, connection
  mail,                 \* the device: a committed command waits in the mailbox
  inbox, outbox, asked, \* deliveries at the ingress, results to publish, a writer awaited
  reply, expired,       \* the caller's result queue; the command's deadline has passed
  effects, inits,       \* what really happened: native effects and initiations
  slow                  \* a timeout ran out or a connection failed beside the plan

script == <<pc, name, entry>>
proxy  == <<plan, events>>
writer == <<row, journal, conn>>
bus    == <<inbox, outbox, asked>>
truth  == <<effects, inits, slow>>
caseVars == <<script, changed, proxy, writer, mail, bus, reply, expired, truth>>

\* config/architecture/command-fault-case.json and fault_checks.EXPECTED: native
\* effects, ledger state and decision on replay of each case.
EXPECTED ==
  [caller_reply_lost           |-> <<1, "completed", {"approve", "replayed"}>>,
   before_write_disconnect     |-> <<1, "completed", {"approve", "replayed"}>>,
   commit_dropped              |-> <<0, "unknown", {"unknown"}>>,
   native_ack_lost             |-> <<1, "unknown", {"unknown"}>>,
   writer_restart_after_effect |-> <<1, "unknown", {"unknown"}>>,
   delayed_expired_command     |-> <<0, "none", {"reject"}>>]

Names == DOMAIN EXPECTED

Mode(c) == CASE c = "before_write_disconnect" -> "disconnect_before_write"
             [] c = "commit_dropped" -> "drop_commit"
             [] c = "native_ack_lost" -> "drop_ack"
             [] c = "writer_restart_after_effect" -> "hold_ack"
             [] OTHER -> "normal"

Initiations(c) == IF c = "delayed_expired_command" THEN 0 ELSE 1

Idle == [stage |-> "idle", mode |-> "normal"]
NoEvidence ==
  [first |-> "none", firstRow |-> "unread", firstEffects |-> 0, held |-> FALSE,
   replay |-> "none", effects |-> 0, row |-> "none", journals |-> {}, proxy |-> {}]

CaseSteps == {"case", "plan", "submit", "hold", "restart", "reply", "settle",
              "expire", "first", "replay", "resettle"}
InCase == pc \in CaseSteps

-----------------------------------------------------------------------------
(* The path of a delivery: ingress, orchestrator, writer, proxy, device.   *)

Finish(state, result) ==
  /\ row' = state
  /\ conn' = Idle
  /\ outbox' = IF asked THEN Append(outbox, result) ELSE outbox
  /\ asked' = FALSE

\* The ingress hands a delivery on; an expired command is refused before the
\* writer, a settled one is answered from the ledger, a fresh or retryable one is claimed.
Deliver ==
  /\ InCase /\ inbox > 0 /\ "ingress" \notin changed
  /\ inbox' = inbox - 1
  /\ IF ~expired /\ row \in {"none", "retryable"}
     THEN /\ row' = "preparing"
          /\ conn' = [stage |-> "dialed", mode |-> "normal"]
          /\ asked' = TRUE
          /\ UNCHANGED outbox
     ELSE /\ outbox' = Append(outbox,
                         IF expired THEN "reject"
                         ELSE CASE row = "completed" -> "replayed"
                                [] row = "unknown" -> "unknown"
                                [] OTHER -> "pending")
          /\ UNCHANGED <<row, conn, asked>>
  /\ UNCHANGED <<script, changed, proxy, journal, mail, reply, expired, truth>>

\* FaultProxy.handle reads the plan when the writer connects.
Connect ==
  /\ InCase /\ conn.stage = "dialed"
  /\ IF plan = "disconnect_before_write"
     THEN /\ events' = events \cup {"disconnected_before_write"}
          /\ Finish("retryable", "retry")
     ELSE /\ conn' = [stage |-> "open", mode |-> plan]
          /\ UNCHANGED <<events, row, outbox, asked>>
  /\ UNCHANGED <<script, changed, plan, journal, mail, inbox, reply, expired, truth>>

\* before_write: the ledger row is started and the initiation journalled before
\* the first frame (operation and value) leaves.
Begin ==
  /\ InCase /\ conn.stage = "open"
  /\ conn' = [conn EXCEPT !.stage = "begun"]
  /\ row' = "started"
  /\ inits' = inits + 1
  /\ journal' = journal \cup {inits + 1}
  /\ UNCHANGED <<script, changed, proxy, mail, bus, reply, expired, effects, slow>>

\* The sequence frame commits the command, unless the proxy drops it.
Commit ==
  /\ InCase /\ conn.stage = "begun"
  /\ IF conn.mode = "drop_commit"
     THEN /\ events' = events \cup {"commit_dropped"}
          /\ Finish("unknown", "unknown")
          /\ UNCHANGED mail
     ELSE /\ events' = events \cup {"commit_forwarded"}
          /\ conn' = [conn EXCEPT !.stage = "committed"]
          /\ mail' = TRUE
          /\ UNCHANGED <<row, outbox, asked>>
  /\ UNCHANGED <<script, changed, plan, journal, inbox, reply, expired, truth>>

\* The simulator consumes its mailbox and commits one native effect.
Consume ==
  /\ InCase /\ mail
  /\ mail' = FALSE
  /\ effects' = effects + 1
  /\ UNCHANGED <<script, changed, proxy, writer, bus, reply, expired, inits, slow>>

\* The acknowledgement passes the proxy: dropped, held or forwarded.  A held one
\* is never forwarded here: the script replaces the pod before it changes the plan.
Acknowledge ==
  /\ InCase /\ conn.stage = "committed" /\ ~mail
  /\ \/ /\ conn.mode = "drop_ack"
        /\ events' = events \cup {"ack_dropped"}
        /\ Finish("unknown", "unknown")
     \/ /\ conn.mode = "hold_ack"
        /\ events' = events \cup {"ack_held"}
        /\ conn' = [conn EXCEPT !.stage = "held"]
        /\ UNCHANGED <<row, outbox, asked>>
     \/ /\ conn.mode = "normal"
        /\ events' = events \cup {"ack_forwarded"}
        /\ Finish("completed", "approve")
  /\ UNCHANGED <<script, changed, plan, journal, mail, inbox, reply, expired, truth>>

\* The writer's attempt fails although the plan withholds nothing, or not yet: the
\* proxy cannot reach the mailbox, the connection is lost or the native timeout runs
\* out, before the first frame, between two of them or after the commit.
NativeFailure ==
  /\ InCase /\ conn.stage # "idle"
  /\ IF conn.stage \in {"dialed", "open"} THEN Finish("retryable", "retry") ELSE Finish("unknown", "unknown")
  /\ slow' = TRUE
  /\ UNCHANGED <<script, changed, proxy, journal, mail, inbox, reply, expired, effects, inits>>

\* The orchestrator stops waiting for the writer and publishes an unknown outcome.
GiveUp ==
  /\ InCase /\ asked
  /\ asked' = FALSE
  /\ outbox' = Append(outbox, "unknown")
  /\ UNCHANGED <<script, changed, proxy, writer, mail, inbox, reply, expired, truth>>

\* A result reaches the caller's queue if one is bound; send() keeps the first
\* result that carries the command's correlation id.
Publish ==
  /\ InCase /\ outbox # <<>>
  /\ outbox' = Tail(outbox)
  /\ reply' = IF reply = "waiting" THEN Head(outbox) ELSE reply
  /\ UNCHANGED <<script, changed, proxy, writer, mail, inbox, asked, expired, truth>>

\* send() waits 12 s, six times as long as the orchestrator waits for its writer, so a
\* result is late here; submit() turns the TimeoutError into an unknown result.
CallerTimeout ==
  /\ InCase /\ reply = "waiting"
  /\ reply' = "unknown"
  /\ slow' = TRUE
  /\ UNCHANGED <<script, changed, proxy, writer, mail, bus, expired, effects, inits>>

-----------------------------------------------------------------------------
(* The script.                                                             *)

\* Fault injection: recovery lets a started command run again.
RecoverRetryable(r) == IF r \in {"preparing", "started"} THEN "retryable" ELSE r

\* CommandLedger.recover at the start of the replacement pod.
Recover(r) == CASE r = "preparing" -> "retryable"
                [] r = "started" -> "unknown"
                [] OTHER -> r

\* RecoveryRun.restart of the writer: a new pod with the retained ledger, an empty
\* journal, and a sidecar without plan or events.
RestartWriter ==
  /\ row' = Recover(row)
  /\ conn' = Idle
  /\ journal' = {}
  /\ plan' = "normal"
  /\ events' = {}

\* A fresh command.  The restart case first lengthens the native timeout
\* (extend_restart_barrier), the delayed case takes the ingress away.
StartCase ==
  /\ pc = "case"
  /\ pc' = "plan"
  /\ entry' = NoEvidence
  /\ changed' = IF name = "delayed_expired_command" THEN changed \cup {"ingress"} ELSE changed
  /\ row' = "none" /\ conn' = Idle /\ journal' = {}
  /\ plan' = "normal" /\ events' = {}
  /\ mail' = FALSE /\ inbox' = 0 /\ outbox' = <<>> /\ asked' = FALSE
  /\ reply' = "none" /\ expired' = FALSE
  /\ effects' = 0 /\ inits' = 0 /\ slow' = FALSE
  /\ UNCHANGED name

SetPlan ==
  /\ pc = "plan"
  /\ plan' = Mode(name)
  /\ pc' = "submit"
  /\ UNCHANGED <<name, entry, changed, events, writer, mail, bus, reply, expired, truth>>

Submit ==
  /\ pc = "submit"
  /\ inbox' = inbox + 1
  /\ IF name \in {"caller_reply_lost", "delayed_expired_command"}
     THEN reply' = "none"
     ELSE reply' = "waiting"
  /\ pc' = CASE name = "caller_reply_lost" -> "settle"
             [] name = "writer_restart_after_effect" -> "hold"
             [] name = "delayed_expired_command" -> "expire"
             [] OTHER -> "reply"
  /\ UNCHANGED <<name, entry, changed, proxy, writer, mail, outbox, asked, expired, truth>>

\* The restart case: wait for the held acknowledgement, read ledger and journal, ...
CaptureHeld ==
  /\ pc = "hold" /\ "ack_held" \in events
  /\ entry' = [entry EXCEPT !.proxy = events, !.firstRow = row, !.journals = journal]
  /\ pc' = "restart"
  /\ UNCHANGED <<name, changed, proxy, writer, mail, bus, reply, expired, truth>>

\* ... then replace the writer's pod.
RestartHeld ==
  /\ pc = "restart"
  /\ RestartWriter
  /\ pc' = "reply"
  /\ UNCHANGED <<name, entry, changed, mail, bus, reply, expired, truth>>

\* The first result; caller_reply_lost and the delayed case have none.
FirstReply ==
  /\ pc = "reply" /\ reply # "waiting"
  /\ entry' = [entry EXCEPT !.first = reply]
  /\ pc' = IF name = "writer_restart_after_effect" THEN "first" ELSE "settle"
  /\ UNCHANGED <<name, changed, proxy, writer, mail, bus, reply, expired, truth>>

\* The delayed case: the command expires while no ingress runs, then it is scaled up.
Expire ==
  /\ pc = "expire"
  /\ expired' = TRUE
  /\ entry' = [entry EXCEPT !.held = "ingress" \in changed]
  /\ changed' = changed \ {"ingress"}
  /\ pc' = "first"
  /\ UNCHANGED <<name, proxy, writer, mail, bus, reply, truth>>

\* The ledger is polled until the row leaves preparing and started.
Settled == row \notin {"none", "preparing", "started"}

Settle ==
  /\ pc = "settle" /\ Settled
  /\ name = "caller_reply_lost" => row = "completed"
  /\ pc' = "first"
  /\ UNCHANGED <<name, entry, changed, proxy, writer, mail, bus, reply, expired, truth>>

\* Ledger and source are read, the fault is lifted and the same command replayed.
Replay ==
  /\ pc = "first"
  /\ entry' = [entry EXCEPT !.firstRow = IF @ = "unread" THEN row ELSE @,
                            !.firstEffects = effects]
  /\ plan' = "normal"
  /\ inbox' = inbox + 1
  /\ reply' = "waiting"
  /\ pc' = "replay"
  /\ UNCHANGED <<name, changed, events, writer, mail, outbox, asked, expired, truth>>

SecondReply ==
  /\ pc = "replay" /\ reply # "waiting"
  /\ entry' = [entry EXCEPT !.replay = reply]
  /\ pc' = "resettle"
  /\ UNCHANGED <<name, changed, proxy, writer, mail, bus, reply, expired, truth>>

\* The last capture: source, ledger, journal and (except after a restart) proxy events.
CaptureAfter ==
  /\ pc = "resettle"
  /\ Settled \/ name = "delayed_expired_command"
  /\ entry' = [entry EXCEPT !.effects = effects, !.row = row,
                            !.journals = @ \cup journal,
                            !.proxy = IF name = "writer_restart_after_effect"
                                      THEN @ ELSE events]
  /\ pc' = "judge"
  /\ UNCHANGED <<name, changed, proxy, writer, mail, bus, reply, expired, truth>>

CaseNext ==
  \/ Deliver \/ Connect \/ Begin \/ Commit \/ Consume \/ Acknowledge
  \/ NativeFailure \/ GiveUp \/ Publish \/ CallerTimeout
  \/ StartCase \/ SetPlan \/ Submit \/ CaptureHeld \/ RestartHeld \/ FirstReply
  \/ Expire \/ Settle \/ Replay \/ SecondReply \/ CaptureAfter

-----------------------------------------------------------------------------
(* The verdict on a case (fault_checks.check_fault_evidence).              *)

\* writer_initiations: the retained records of all captured journals, once each.
writer_initiations(e) == Cardinality(e.journals)

Reconciles(c, e) ==
  /\ e.effects = EXPECTED[c][1]
  /\ e.row = EXPECTED[c][2]
  /\ e.replay \in EXPECTED[c][3]
  /\ writer_initiations(e) = Initiations(c)
  /\ CASE c = "caller_reply_lost" ->
            e.first = "none" /\ e.firstRow = "completed" /\ e.replay = "replayed"
       [] c = "before_write_disconnect" ->
            /\ "disconnected_before_write" \in e.proxy
            /\ e.firstRow = "retryable" /\ e.firstEffects = 0
            /\ e.first \in {"unknown", "retry"}
       [] c = "commit_dropped" ->
            /\ "commit_dropped" \in e.proxy /\ "commit_forwarded" \notin e.proxy
            /\ e.first = "unknown"
       [] c = "native_ack_lost" ->
            "ack_dropped" \in e.proxy /\ e.first = "unknown"
       [] c = "writer_restart_after_effect" ->
            "ack_held" \in e.proxy /\ e.firstRow = "started"
       [] c = "delayed_expired_command" ->
            e.held /\ e.proxy = {}

\* What really happened to the case's command.
AsExpected(c) ==
  /\ effects = EXPECTED[c][1]
  /\ row = EXPECTED[c][2]
  /\ inits = Initiations(c)
=============================================================================
