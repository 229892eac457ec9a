------------------------ MODULE ConformanceVerdicts ------------------------
(***************************************************************************)
(* The offline judgement of one command's execution records                *)
(* (scripts/conformance.py check_execution, and the local report of        *)
(* scripts/e0_capture.py).                                                 *)
(*                                                                         *)
(* The records come from a validator and a writer that may do anything:    *)
(* decide twice, write without admission, write again, write late, restart.*)
(* The judge sees some of the records, with times it knows only within     *)
(* the bounds of module EvidenceCapture, and must not claim more than is   *)
(* true.  A record's true time is its monotonic time on either node.       *)
(***************************************************************************)
EXTENDS Integers, Sequences, FiniteSets

CONSTANTS
  Values,       \* contents of a command: target, value, type, requester, times
  Allowed,      \* contents the pinned policy permits
  Deadline,     \* deadline of the command
  Retention,    \* retention_seconds
  Bound,        \* the uncertainty a calibrated time comes with
  Errors,       \* bound: the errors of a calibrated time that are considered
  Clocks,       \* bound: the clocks of validator and writer that are considered
  Interval,     \* bound: time that passes at once
  LastTime,     \* bound: true time
  RecordLimit   \* bound: records

ASSUME VerdictAssumption ==
  /\ Allowed \subseteq Values
  /\ Bound \in Nat /\ Errors \subseteq -Bound..Bound
  /\ Clocks \subseteq [shared : BOOLEAN, bounded : BOOLEAN]
  /\ Deadline \in Nat /\ Retention \in Nat /\ Interval \in Nat /\ LastTime \in Nat /\ RecordLimit \in Nat

VARIABLES
  time,      \* true time
  records,   \* the records written, oldest first
  instance,  \* current instance of the writer
  clock      \* whether validator and writer share a clock domain, and whether
             \* their records are calibrated

recordVars == <<time, records, instance, clock>>

RecordInit ==
  /\ time = 0 /\ records = << >> /\ instance = 1
  /\ clock \in Clocks

(***************************************************************************)
(* The records.                                                            *)
(***************************************************************************)

\* record_command: what every record carries.  A ticket is the position of the
\* approval it was issued by, 0 without one.
Blank(component, action, value) ==
  [id |-> Len(records) + 1, component |-> component, action |-> action, value |-> value, decision |-> "none",
   ticket |-> 0, verified |-> FALSE, attempt |-> 0, outcome |-> "none", mono |-> time,
   instance |-> IF component = "writer" THEN instance ELSE 1,
   domain |-> IF component = "writer" /\ ~clock.shared THEN 2 ELSE 1,
   at |-> time, bounded |-> clock.bounded]

\* A calibrated time is off by an error of its own record (calibrate_record).
Write(record) ==
  /\ Len(records) < RecordLimit
  /\ \E error \in IF clock.bounded THEN Errors ELSE {0} :
       records' = Append(records, [record EXCEPT !.at = time + error])

\* Time counts from the first record.
TimePasses ==
  /\ time < LastTime /\ Len(records) \in 1..(RecordLimit - 1)
  /\ time' = time + Interval
  /\ UNCHANGED <<records, instance, clock>>

Decide ==
  /\ \E value \in Values, decision \in {"approve", "reject"} :
       Write([Blank("validator", "validation_decided", value) EXCEPT
                !.decision = decision, !.ticket = IF decision = "approve" THEN Len(records) + 1 ELSE 0])
  /\ UNCHANGED <<time, instance, clock>>

Tickets == {i \in DOMAIN records : records[i].decision = "approve"}

\* The writer admits with a ticket it verified, which then was issued for this
\* content, or it records an admission without one.
Admit ==
  /\ \E value \in Values, ticket \in Tickets \cup {0}, verified \in BOOLEAN :
       /\ verified => ticket # 0 /\ records[ticket].value = value
       /\ Write([Blank("writer", "executor_admitted", value) EXCEPT
                   !.ticket = ticket, !.verified = verified, !.attempt = Len(records) + 1])
  /\ UNCHANGED <<time, instance, clock>>

Admissions == {i \in DOMAIN records : records[i].action = "executor_admitted" /\ records[i].instance = instance}

\* A native write begins, for an admission of this instance or without one.
Initiate ==
  /\ \/ \E i \in Admissions, value \in Values :
          Write([Blank("writer", "write_initiated", value) EXCEPT
                   !.ticket = records[i].ticket, !.attempt = i,
                   !.verified = records[i].verified /\ value = records[i].value])
     \/ \E value \in Values : Write(Blank("writer", "write_initiated", value))
  /\ UNCHANGED <<time, instance, clock>>

\* The writer's result: completed with or without its time, refused for a known
\* or for an uncertain reason, or unknown.
Settle ==
  /\ records # << >> /\ records[Len(records)].action = "write_initiated"
  /\ \E outcome \in {"completed", "unstamped", "refused", "blamed", "unknown"} :
       Write([Blank("writer", "writer_result", records[Len(records)].value) EXCEPT !.outcome = outcome])
  /\ UNCHANGED <<time, instance, clock>>

\* The writer restarts on its node, after a write at the earliest.
RestartWriter ==
  /\ instance = 1 /\ Len(records) \in 1..(RecordLimit - 1) /\ records[Len(records)].action = "write_initiated" /\ instance' = 2
  /\ UNCHANGED <<time, records, clock>>

RecordNext == TimePasses \/ Decide \/ Admit \/ Initiate \/ Settle \/ RestartWriter

RecordSpec == RecordInit /\ [][RecordNext]_recordVars

(***************************************************************************)
(* The judgement over the supplied records S.                              *)
(***************************************************************************)

\* verdict: fail before unknown before pass, and nothing is unknown.
Verdict(statuses) ==
  IF "fail" \in statuses THEN "fail"
  ELSE IF statuses = {} \/ "unknown" \in statuses THEN "unknown" ELSE "pass"

\* Fault injection: calibrated times are compared as if they were exact.
BeforeAsRecorded(a, b) ==
  IF a.domain = b.domain
  THEN IF a.mono < b.mono THEN "yes" ELSE IF a.mono > b.mono THEN "no" ELSE "unclear"
  ELSE IF a.component = b.component /\ a.instance = b.instance THEN IF a.mono < b.mono THEN "yes" ELSE "no"
  ELSE IF ~a.bounded \/ ~b.bounded THEN "unclear"
  ELSE IF b.at > a.at THEN "yes" ELSE "no"

\* before: whether a certainly happened before b.
Before(a, b) ==
  IF a.domain = b.domain
  THEN IF a.mono < b.mono THEN "yes" ELSE IF a.mono > b.mono THEN "no" ELSE "unclear"
  ELSE IF a.component = b.component /\ a.instance = b.instance THEN IF a.mono < b.mono THEN "yes" ELSE "no"
  ELSE IF ~a.bounded \/ ~b.bounded THEN "unclear"
  ELSE IF b.at - a.at > 2 * Bound THEN "yes"
  ELSE IF b.at - a.at < -2 * Bound THEN "no" ELSE "unclear"

Gap(x, y) == IF x < y THEN y - x ELSE x - y

\* within_window: whether a and b certainly lie within the retention time.
WithinWindow(a, b) ==
  IF a.component = b.component /\ a.instance = b.instance
  THEN IF Gap(a.mono, b.mono) <= Retention THEN "yes" ELSE "no"
  ELSE IF ~a.bounded \/ ~b.bounded THEN "unclear"
  ELSE IF Gap(a.at, b.at) + 2 * Bound <= Retention THEN "yes"
  ELSE IF Gap(a.at, b.at) - 2 * Bound > Retention THEN "no" ELSE "unclear"

With(S, action) == {r \in S : r.action = action}
Writes(S) == With(S, "write_initiated")
Decisions(S) == With(S, "validation_decided")

\* The writer's admissions that fit the write w.
Matches(S, w) ==
  {r \in With(S, "executor_admitted") :
     r.instance = w.instance /\ r.attempt = w.attempt /\ r.value = w.value /\ Before(r, w) = "yes"}

\* The single fitting admission; one without its approval's time does not count.
Admitted(S, w) ==
  LET matches == Matches(S, w) IN IF Cardinality(matches) = 1 THEN {r \in matches : r.ticket # 0} ELSE {}

\* Approvals of the written content that the admission refers to.
Approvals(S, w) ==
  {r \in Decisions(S) : r.decision = "approve" /\ r.value = w.value /\ \E a \in Admitted(S, w) : a.ticket = r.ticket}

Ordered(S, w) == {r \in Approvals(S, w) : Before(r, w) = "yes"}

\* A verified ticket is evidence of its own: it was issued before it was used.
Causal(S, w) == {r \in Approvals(S, w) : w.verified /\ w.ticket = r.ticket /\ \E a \in Admitted(S, w) : a.verified}

Superseded(S, w) ==
  \E r \in Decisions(S) :
    /\ r.decision = "reject" /\ r.value = w.value /\ Before(r, w) = "yes"
    /\ \E a \in Ordered(S, w) : Before(a, r) = "yes"

\* A decision that cannot be placed before or after the write.
Unplaced(S, w) ==
  \E r \in Decisions(S) :
    /\ Before(r, w) = "unclear"
    /\ ~(r.decision = "approve" /\ r.value = w.value /\ Causal(S, w) # {})

\* C07.admission of the write w.
Admission(S, w) ==
  IF Superseded(S, w) THEN "fail"
  ELSE IF Admitted(S, w) # {} /\ (Ordered(S, w) # {} \/ Causal(S, w) # {}) /\ ~Unplaced(S, w) THEN "pass"
  ELSE "unknown"

\* C07.write_policy.
WritePolicy(w) == IF w.value \in Allowed THEN "pass" ELSE "fail"

\* Fault injection: the clock's uncertainty is not taken off the time left.
OnTimeAsRecorded(w) ==
  IF w.bounded /\ Deadline - w.at >= 0 THEN "pass"
  ELSE IF w.bounded /\ Deadline - w.at < -Bound THEN "fail" ELSE "unknown"

\* C08.deadline of the write w.
OnTime(w) ==
  IF w.bounded /\ Deadline - w.at >= Bound THEN "pass"
  ELSE IF w.bounded /\ Deadline - w.at < -Bound THEN "fail" ELSE "unknown"

Pairs(S) == {pair \in S \X S : pair[1].id < pair[2].id}
Inside(pair) == IF WithinWindow(pair[1], pair[2]) = "yes" THEN "fail" ELSE "unknown"

\* C09.initiations: two initiations are a failure only within the retention.
Initiations(S) ==
  IF Writes(S) = {} THEN "unknown"
  ELSE IF Pairs(Writes(S)) = {} THEN "pass"
  ELSE Verdict({Inside(pair) : pair \in Pairs(Writes(S))})

\* C09.binding: what is admitted, written or completed does not change.
BoundRecords(S) == With(S, "executor_admitted") \cup Writes(S) \cup {r \in S : r.outcome \in {"completed", "unstamped"}}
Binding(S) ==
  LET changed == {pair \in Pairs(BoundRecords(S)) : pair[1].value # pair[2].value} IN
  IF BoundRecords(S) = {} THEN "unknown"
  ELSE IF changed = {} THEN "pass"
  ELSE Verdict({Inside(pair) : pair \in changed})

\* C10.outcome_meaning: an uncertain outcome is not a refusal, and completion
\* has its time.
OutcomeMeaning(S) ==
  LET outcomes == With(S, "writer_result") IN
  IF \E r \in outcomes : r.outcome \in {"unstamped", "blamed"} THEN "fail"
  ELSE IF outcomes = {} THEN "unknown" ELSE "pass"

\* C12.stage_coverage, for the stages of the model.
StageCoverage(S) ==
  LET required == {"validation_decided"} \cup
        (IF \E r \in S : r.outcome \in {"completed", "unstamped"} THEN {"executor_admitted", "write_initiated"} ELSE {})
  IN IF required \subseteq {r.action : r \in S} THEN "pass" ELSE "unknown"

\* local_report: the verdict over the records of a capture and its fences, for a
\* command with a write.
LocalReport(S, fenced) ==
  Verdict({IF fenced THEN "pass" ELSE "unknown", Initiations(S), Binding(S), OutcomeMeaning(S), StageCoverage(S)}
          \cup {Admission(S, w) : w \in Writes(S)} \cup {OnTime(w) : w \in Writes(S)} \cup {WritePolicy(w) : w \in Writes(S)})

(***************************************************************************)
(* Properties.                                                             *)
(***************************************************************************)

All == {records[i] : i \in DOMAIN records}
Approved(w) == \E i \in 1..(w.id - 1) : records[i].decision = "approve" /\ records[i].value = w.value
Refused(w) ==
  \E i, j \in 1..(w.id - 1) :
    /\ i < j /\ records[i].decision = "approve" /\ records[j].decision = "reject"
    /\ records[i].value = w.value /\ records[j].value = w.value

\* A pass is true, whatever records are missing: a write no approval of its
\* content preceded is never judged admitted, and one that began after the
\* deadline never on time; and when the local report over a fenced capture
\* passes, there was exactly one write, permitted and unchanged since its
\* admission (check_execution, local_report).
PassIsTrue ==
  /\ \A w \in Writes(All) :
       /\ ~Approved(w) => \A S \in SUBSET All : w \in S => Admission(S, w) # "pass"
       /\ w.mono > Deadline => OnTime(w) # "pass"
  /\ LocalReport(All, TRUE) = "pass" =>
       /\ Cardinality(Writes(All)) = 1
       /\ \A w \in Writes(All) : w.value \in Allowed /\ Approved(w) /\ w.mono <= Deadline
       /\ \A r \in With(All, "executor_admitted") : \A w \in Writes(All) : r.value = w.value

\* A failure is true, whatever records are missing: without a refusal between
\* approval and write no admission is failed, no write in time is failed as late,
\* and content that was not written twice, or not changed, within the retention
\* time is not failed for it (check_execution).
FailIsTrue ==
  /\ \A w \in Writes(All) :
       /\ ~Refused(w) => \A S \in SUBSET All : w \in S => Admission(S, w) # "fail"
       /\ w.mono <= Deadline => OnTime(w) # "fail"
  /\ (\A a, b \in Writes(All) : a # b => Gap(a.mono, b.mono) > Retention)
       => \A S \in SUBSET Writes(All) : Initiations(S) # "fail"
  /\ (\A a, b \in All : a.value # b.value => Gap(a.mono, b.mono) > Retention)
       => \A S \in SUBSET All : Binding(S) # "fail"
=============================================================================
