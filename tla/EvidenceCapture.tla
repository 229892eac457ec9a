-------------------------- MODULE EvidenceCapture --------------------------
(***************************************************************************)
(* Command evidence of one component process and its capture: the journal  *)
(* of eirvah_observability.execution, the two probes that fence a capture  *)
(* (scripts/e0_capture.py), the check of the fences, and the calibration   *)
(* of a record's time against the clock of the capture host.               *)
(*                                                                         *)
(* The clocks follow the clock model of the case profile: the host's wall  *)
(* clock is the reference, and neither it nor the remote monotonic clock   *)
(* leaves the envelope the probes observe - here, each drifts against the  *)
(* host's monotonic clock (now) in one direction.  Reading a clock takes   *)
(* no time, the probe's four readings are separate steps.                  *)
(***************************************************************************)
EXTENDS Integers, Sequences, FiniteSets, Functions

CONSTANTS
  Capacity,     \* records a journal file holds
  Resolution,   \* timestamp_resolution_ns of the host clock
  Micro,        \* nanoseconds in a microsecond, the granule of recorded_at
  Offsets,      \* initial offsets of the remote monotonic clock
  Rates,        \* pairs of directions the two clocks may drift in
  MaxTime,      \* bound: value of the host's monotonic clock
  MaxRecords,   \* bound: records of a process
  MaxInstances  \* bound: instances of the process

ASSUME ClockAssumption ==
  /\ Capacity \in Nat \ {0} /\ Resolution \in Nat /\ Micro \in Nat \ {0}
  /\ Offsets \subseteq Int /\ Rates \subseteq ({-1, 0, 1} \X {-1, 0, 1})
  /\ MaxTime \in Nat /\ MaxRecords \in Nat /\ MaxInstances \in Nat \ {0}

VARIABLES
  now,        \* monotonic clock of the capture host
  offset,     \* remote monotonic clock minus now
  slew,       \* host wall clock minus now
  rate,       \* directions of drift of offset and slew
  process,    \* instance, clock domain and records appended so far
  journal,    \* lines of the current instance's journal file
  current,    \* current.json: instance and record_seq
  log,        \* every record of the process, and whether the capture was open
              \* when it began and when it was checkpointed
  pc,         \* capture: "start", "open", "end", "closed"
  probe,      \* the probe under way
  start, end  \* the completed probes

processVars == <<process, journal, current, log>>
clockVars == <<now, offset, slew, rate>>
vars == <<clockVars, processVars, pc, probe, start, end>>

Mono == now + offset
Wall == now + slew

NoProbe == [step |-> "idle"]

Init ==
  /\ now = 0 /\ offset \in Offsets /\ slew = 0 /\ rate \in Rates
  /\ process = [instance |-> 1, domain |-> 1, seq |-> 0, appending |-> FALSE]
  /\ journal = << >> /\ log = << >>
  /\ current = [instance |-> 1, seq |-> 0]
  /\ pc = "start" /\ probe = NoProbe /\ start = NoProbe /\ end = NoProbe

\* Time passes; the clocks keep pace or drift their way, slower than they run.
Tick ==
  /\ now < MaxTime /\ now' = now + 2
  /\ \/ UNCHANGED <<offset, slew>>
     \/ offset' = offset + rate[1] /\ slew' = slew + rate[2]
  /\ UNCHANGED <<rate, processVars, pc, probe, start, end>>

(***************************************************************************)
(* The process: EvidenceBuffer and record_command.                         *)
(***************************************************************************)

Record == [instance |-> process.instance, seq |-> process.seq + 1, domain |-> process.domain,
           mono |-> Mono, wall |-> Wall]

\* record_command up to the journal line.  A full journal file gets no line.
Append_ ==
  /\ ~process.appending /\ process.seq < MaxRecords
  /\ process' = [process EXCEPT !.seq = @ + 1, !.appending = TRUE]
  /\ journal' = IF process.seq < Capacity THEN Append(journal, Record) ELSE journal
  /\ log' = Append(log, [record |-> Record, began |-> pc = "open", ended |-> FALSE])
  /\ UNCHANGED <<clockVars, current, pc, probe, start, end>>

\* EvidenceBuffer._checkpoint, after the line is on disk.
Checkpoint ==
  /\ process.appending
  /\ process' = [process EXCEPT !.appending = FALSE]
  /\ current' = [instance |-> process.instance, seq |-> process.seq]
  /\ log' = [log EXCEPT ![Len(log)].ended = (pc = "open")]
  /\ UNCHANGED <<clockVars, journal, pc, probe, start, end>>

\* The process ends, in the middle of an append too, and a new instance starts
\* its own journal; on another node it has another monotonic clock.  A probe
\* under way would fail with it and the capture be given up.
Restart ==
  /\ process.instance < MaxInstances /\ probe = NoProbe
  /\ \E domain \in {process.domain, process.domain + 1} :
       /\ process' = [instance |-> process.instance + 1, domain |-> domain, seq |-> 0, appending |-> FALSE]
       /\ IF domain = process.domain THEN UNCHANGED offset ELSE offset' \in Offsets
  /\ journal' = << >> /\ current' = [instance |-> process.instance + 1, seq |-> 0]
  /\ UNCHANGED <<now, slew, rate, log, pc, probe, start, end>>

(***************************************************************************)
(* The capture host.                                                       *)
(***************************************************************************)

Probing == pc \in {"start", "end"}
After == IF pc = "start" THEN 0 ELSE start.seq

HostClock == [wall |-> Wall, mono |-> now]

\* Cluster.probe: the clock before the call.
Call ==
  /\ Probing /\ probe = NoProbe
  /\ probe' = [step |-> "called", before |-> HostClock]
  /\ UNCHANGED <<clockVars, processVars, pc, start, end>>

\* JOURNAL_PROBE in the container: its clock, then current.json, ...
ReadCurrent ==
  /\ probe.step = "called"
  /\ probe' = [step |-> "met", before |-> probe.before, begin |-> Mono,
               instance |-> current.instance, seq |-> current.seq, overflow |-> current.seq > Capacity]
  /\ UNCHANGED <<clockVars, processVars, pc, start, end>>

\* The lines the probe takes: those after the last fence that current.json,
\* read before them, had counted.
Taken(r) == After < r.seq /\ r.seq <= probe.seq

\* ... kept with their line numbers, which order them.
Rows == Restrict(journal, {i \in DOMAIN journal : Taken(journal[i])})

\* ... then the journal file and the clock again.
ReadJournal ==
  /\ probe.step = "met"
  /\ probe' = [step |-> "read", before |-> probe.before, begin |-> probe.begin, instance |-> probe.instance,
               seq |-> probe.seq, overflow |-> probe.overflow, rows |-> Rows,
               finish |-> Mono, domain |-> process.domain]
  /\ UNCHANGED <<clockVars, processVars, pc, start, end>>

Returned == [before |-> probe.before, begin |-> probe.begin, instance |-> probe.instance, seq |-> probe.seq,
             overflow |-> probe.overflow, rows |-> probe.rows, finish |-> probe.finish, domain |-> probe.domain,
             after |-> HostClock, step |-> "returned"]

\* The clock after the call.  The capture is open from the end of the first
\* probe to the beginning of the second.
Return ==
  /\ probe.step = "read" /\ probe' = NoProbe
  /\ IF pc = "start" THEN start' = Returned /\ pc' = "open" /\ UNCHANGED end
                     ELSE end' = Returned /\ pc' = "closed" /\ UNCHANGED start
  /\ UNCHANGED <<clockVars, processVars>>

\* The case has settled: the end fence is probed.
Close ==
  /\ pc = "open" /\ pc' = "end"
  /\ UNCHANGED <<clockVars, processVars, probe, start, end>>

Done == pc = "closed" /\ UNCHANGED vars

\* What happens after the capture is closed does not matter to it.
Next ==
  \/ pc # "closed" /\ (Tick \/ Append_ \/ Checkpoint \/ Restart)
  \/ Call \/ ReadCurrent \/ ReadJournal \/ Return \/ Close \/ Done

Spec == Init /\ [][Next]_vars

(***************************************************************************)
(* What the capture host concludes.                                        *)
(***************************************************************************)

\* The rows' sequence numbers are the range after the start fence, in order.
SequenceComplete ==
  /\ {end.rows[i].seq : i \in DOMAIN end.rows} = (start.seq + 1)..end.seq
  /\ \A i, j \in DOMAIN end.rows : i < j => end.rows[i].seq < end.rows[j].seq

\* Fault injection: the process identity is not compared.
FenceBySequence ==
  /\ ~start.overflow /\ ~end.overflow /\ start.seq <= end.seq
  /\ SequenceComplete

\* validate_fence reports no error.
FenceValid ==
  /\ start.instance = end.instance
  /\ ~start.overflow /\ ~end.overflow /\ start.seq <= end.seq
  /\ SequenceComplete
  /\ \A i \in DOMAIN end.rows : end.rows[i].instance = end.instance

Smaller(a, b) == IF a < b THEN a ELSE b
Larger(a, b) == IF a < b THEN b ELSE a

\* calibrate_record: whether the record lies between the probes.
Bracketed(r) ==
  /\ r.domain = start.domain /\ r.domain = end.domain
  /\ start.begin <= r.mono /\ r.mono <= end.finish

\* Bounds of host monotonic minus remote monotonic: a remote reading happened
\* after the call and before its return.
OffsetLow == Smaller(start.before.mono - start.finish, end.before.mono - end.finish)
OffsetHigh == Larger(start.after.mono - start.begin, end.after.mono - end.begin)

\* Bounds of host wall minus host monotonic over the host's samples.
WallLow ==
  Smaller(Smaller(start.before.wall - start.before.mono, start.after.wall - start.after.mono),
          Smaller(end.before.wall - end.before.mono, end.after.wall - end.after.mono)) - Resolution
WallHigh ==
  Larger(Larger(start.before.wall - start.before.mono, start.after.wall - start.after.mono),
         Larger(end.before.wall - end.before.mono, end.after.wall - end.after.mono)) + Resolution

Low(r) == r.mono + OffsetLow + WallLow
High(r) == r.mono + OffsetHigh + WallHigh

\* recorded_at: the middle of the interval in whole microseconds.
RecordedAt(r) == (((Low(r) + High(r)) \div 2) \div Micro) * Micro

\* Fault injection: the uncertainty leaves out the truncation.
WidthOnly(r) == High(r) - Low(r)

\* Twice clock_uncertainty_s: half the interval and the truncation.
TwiceUncertainty(r) == High(r) - Low(r) + 2 * Micro

(***************************************************************************)
(* Properties.                                                             *)
(***************************************************************************)

\* When the fences are valid, every record begun and checkpointed while the
\* capture was open is among the captured rows: nothing is lost to a race with
\* an append, a full journal or a restart (validate_fence, JOURNAL_PROBE,
\* EvidenceBuffer.append).
CaptureIsClosed ==
  pc = "closed" /\ FenceValid =>
    \A i \in DOMAIN log : log[i].began /\ log[i].ended => log[i].record \in Range(end.rows)

\* The calibrated time of every captured record that lies between the probes is
\* within its uncertainty of the host's wall clock at the record's true moment
\* (calibrate_record).
CalibrationIsSound ==
  pc = "closed" =>
    \A r \in Range(end.rows) : Bracketed(r) =>
      /\ 2 * (r.wall - RecordedAt(r)) <= TwiceUncertainty(r)
      /\ 2 * (RecordedAt(r) - r.wall) <= TwiceUncertainty(r)
=============================================================================
