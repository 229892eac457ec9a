--------------------------- MODULE EvidenceProofs ---------------------------
(***************************************************************************)
(* Proofs about EvidenceCapture, for any capacity, resolution, offsets,    *)
(* directions of drift and bounds, and about ConformanceVerdicts, for any  *)
(* records, values, deadline and retention.                                *)
(*                                                                         *)
(* A capture is closed because current.json never counts a line that is    *)
(* not in the journal, and the end fence counts every line checkpointed    *)
(* while the capture was open (JournalInv, LogInv, FenceInv).              *)
(*                                                                         *)
(* A record keeps the sum of two things the host cannot see: the offset o  *)
(* of the remote clock and the slew s of the wall clock at its moment.     *)
(* AnchorInv and RowInv say that there is such an o, bounded on one side by*)
(* what the start probe saw and on the other by what the end probe saw;    *)
(* which side is which depends on the directions of drift.                 *)
(*                                                                         *)
(* A verdict is true because a calibrated time is within Bound of the true *)
(* one and records of one clock domain keep their order (TimesInv), and    *)
(* because a ticket is issued by one approval, before its use (TicketInv). *)
(***************************************************************************)
EXTENDS EvidenceCapture, ConformanceVerdicts, SequenceTheorems, FiniteSetTheorems, TLAPS

Rec == [instance : Nat, seq : Nat, domain : Nat, mono : Int, wall : Int]
Entry == [record : Rec, began : BOOLEAN, ended : BOOLEAN]
HostReading == [wall : Int, mono : Int]
RowsOf == UNION {[D -> Rec] : D \in SUBSET Nat}

Called == [step : {"called"}, before : HostReading]
Met == [step : {"met"}, before : HostReading, begin : Int, instance : Nat, seq : Nat,
        overflow : BOOLEAN]
Read == [step : {"read"}, before : HostReading, begin : Int, instance : Nat, seq : Nat,
         overflow : BOOLEAN, rows : RowsOf, finish : Int, domain : Nat]
Fence == [step : {"returned"}, before : HostReading, begin : Int, instance : Nat, seq : Nat,
             overflow : BOOLEAN, rows : RowsOf, finish : Int, domain : Nat, after : HostReading]

TypeOK ==
  /\ now \in Nat /\ offset \in Int /\ slew \in Int /\ rate \in {-1, 0, 1} \X {-1, 0, 1}
  /\ process \in [instance : Nat, domain : Nat, seq : Nat, appending : BOOLEAN]
  /\ journal \in Seq(Rec) /\ log \in Seq(Entry)
  /\ current \in [instance : Nat, seq : Nat]
  /\ pc \in {"start", "open", "end", "closed"}
  /\ probe \in {NoProbe} \cup Called \cup Met \cup Read
  /\ probe # NoProbe => Probing
  /\ pc # "start" => start \in Fence
  /\ pc = "closed" => end \in Fence

\* The journal holds the lines of the running instance, as many as fit, and
\* current.json counts the ones whose append is finished.
JournalInv ==
  /\ Len(journal) = Smaller(process.seq, Capacity)
  /\ \A k \in 1..Len(journal) :
       /\ journal[k].seq = k /\ journal[k].instance = process.instance
       /\ journal[k].domain = process.domain
  /\ current.instance = process.instance /\ current.seq <= process.seq
  /\ ~process.appending => current.seq = process.seq

\* A record of the running instance is in the journal unless it was full, and
\* counted once it was checkpointed.
LogInv ==
  /\ \A i \in 1..Len(log) :
       LET r == log[i].record IN
       /\ r.instance <= process.instance /\ 0 < r.seq
       /\ r.instance = process.instance => r.seq <= process.seq
       /\ r.instance = process.instance /\ r.seq <= Capacity => journal[r.seq] = r
       /\ r.instance = process.instance /\ log[i].ended => r.seq <= current.seq
  /\ process.appending =>
       /\ 0 < Len(log) /\ log[Len(log)].record.instance = process.instance
       /\ log[Len(log)].record.seq = process.seq

\* The probe under way has read the remote clock and current.json.
ClockRead == probe.step \in {"met", "read"}

\* The probe under way, and the start fence, lie where they were taken.
FenceInv ==
  /\ ClockRead => /\ probe.instance = process.instance /\ probe.seq <= process.seq
             /\ probe.overflow = (probe.seq > Capacity)
  /\ probe.step = "read" => probe.domain = process.domain
  /\ pc = "start" => \A i \in 1..Len(log) : ~log[i].began
  /\ pc # "start" =>
       /\ start.instance <= process.instance /\ start.domain <= process.domain
       /\ start.instance = process.instance => start.seq <= process.seq
       /\ \A i \in 1..Len(log) : log[i].began =>
            LET r == log[i].record IN
            start.instance <= r.instance /\ (r.instance = start.instance => start.seq < r.seq)
  /\ pc = "end" /\ ClockRead =>
       \A i \in 1..Len(log) :
         log[i].ended /\ log[i].record.instance = probe.instance => log[i].record.seq <= probe.seq

\* What the open capture began and checkpointed is among the rows of probe p.
HasAll(p) ==
  start.instance = p.instance /\ ~p.overflow =>
    \A i \in 1..Len(log) : log[i].began /\ log[i].ended => log[i].record \in Range(p.rows)

CapturedInv ==
  /\ pc = "end" /\ probe.step = "read" => HasAll(probe)
  /\ pc = "closed" => HasAll(end)

(***************************************************************************)
(* The clocks.                                                             *)
(***************************************************************************)

\* Offset o and slew s of a moment after probe p had read the remote clock and,
\* at the latest, late when it was over.
Since(p, late, o, s) ==
  /\ rate[1] >= 0 => o >= p.begin - late
  /\ rate[1] < 0 => o <= p.begin - p.before.mono
  /\ rate[2] >= 0 => s >= p.before.wall - p.before.mono
  /\ rate[2] <= 0 => s <= p.before.wall - p.before.mono

\* Offset o and slew s of a moment when the offset was not beyond q and the slew
\* not beyond t, in the directions of drift.
Until(q, t, o, s) ==
  /\ rate[1] >= 0 => o <= q
  /\ rate[1] <= 0 => o >= q
  /\ rate[2] >= 0 => s <= t
  /\ rate[2] <= 0 => s >= t

\* The probe that anchors the calibration, once it has read the remote clock.
Anchored == (pc = "start" /\ ClockRead) \/ pc \in {"open", "end"}
Anchor == IF pc = "start" THEN probe ELSE start
Late == IF pc = "start" THEN now ELSE start.after.mono
SameClock == pc # "start" => start.domain = process.domain

\* Slew minus offset at the moment of record r.
Delta(r) == r.wall - r.mono

\* A record made while the remote clock was between the anchor's and now.
Dated(r) == \E o \in Int : /\ Since(Anchor, Late, o, Delta(r) + o)
                           /\ Until(offset, slew, o, Delta(r) + o)

\* What the host and the probe under way have read lies behind the clocks.
ReadingInv ==
  /\ probe # NoProbe => /\ probe.before.mono <= now
                        /\ rate[2] >= 0 => probe.before.wall - probe.before.mono <= slew
                        /\ rate[2] <= 0 => slew <= probe.before.wall - probe.before.mono
  /\ \A k \in 1..Len(journal) :
       journal[k].mono < Mono \/ (journal[k].mono = Mono /\ journal[k].wall = Wall)
  /\ ClockRead => probe.begin <= Mono
  /\ probe.step = "read" => probe.begin <= probe.finish
  /\ pc # "start" => start.begin <= start.finish

\* The clocks, and the journal's records since the anchor, lie past the anchor.
AnchorInv ==
  Anchored /\ SameClock =>
    /\ Since(Anchor, Late, offset, slew)
    /\ \A k \in 1..Len(journal) : Anchor.begin <= journal[k].mono => Dated(journal[k])

\* A row of the end probe p, which is over at time t with slew w, is bounded by
\* the start probe on one side and by p on the other.
RowDated(r, p, t, w) ==
  \E o \in Int :
    /\ Since(start, start.after.mono, o, Delta(r) + o)
    /\ rate[1] >= 0 => o <= p.finish - p.before.mono
    /\ rate[1] < 0 => o >= p.begin - t
    /\ rate[2] >= 0 => Delta(r) + o <= w
    /\ rate[2] <= 0 => Delta(r) + o >= w

RowInv ==
  /\ pc = "end" /\ probe.step = "read" /\ start.domain = probe.domain =>
       \A r \in Range(probe.rows) : start.begin <= r.mono => RowDated(r, probe, now, slew)
  /\ pc = "closed" /\ start.domain = end.domain =>
       \A r \in Range(end.rows) : start.begin <= r.mono =>
         RowDated(r, end, end.after.mono, end.after.wall - end.after.mono)

IInv == TypeOK /\ JournalInv /\ LogInv /\ FenceInv /\ CapturedInv /\ ReadingInv /\ AnchorInv /\ RowInv

(***************************************************************************)
(* Types.                                                                  *)
(***************************************************************************)

\* The lines a probe takes are records under their line numbers.
LEMMA RowsFacts ==
  ASSUME TypeOK
  PROVE  Rows \in RowsOf /\ Range(Rows) = {journal[k] : k \in {i \in 1..Len(journal) : Taken(journal[i])}}
<1> DEFINE D == {i \in 1..Len(journal) : Taken(journal[i])}
<1>1. journal \in Seq(Rec) /\ Len(journal) \in Nat /\ DOMAIN journal = 1..Len(journal)
  BY LenProperties DEF TypeOK
<1>2. \A i \in 1..Len(journal) : journal[i] \in Rec  BY <1>1, ElementOfSeq
<1>3. D \in SUBSET Nat  BY <1>1
<1>4. Rows = [i \in D |-> journal[i]]  BY <1>1 DEF Rows, Restrict
<1> HIDE DEF D
<1>5. D \subseteq 1..Len(journal)  BY DEF D
<1>6. Rows \in [D -> Rec]  BY <1>2, <1>4, <1>5
<1>7. Rows \in RowsOf  BY <1>3, <1>6 DEF RowsOf
<1>8. Range(Rows) = {journal[k] : k \in D}  BY <1>4 DEF Range
<1> QED  BY <1>7, <1>8 DEF D

\* The record being appended.
LEMMA RecordType ==
  ASSUME TypeOK
  PROVE  Record \in Rec /\ Record.instance = process.instance /\ Record.seq = process.seq + 1
         /\ Record.domain = process.domain /\ Record.mono = Mono /\ Record.wall = Wall
         /\ Mono \in Int /\ Wall \in Int
BY DEF TypeOK, Record, Rec, Mono, Wall

\* Every step keeps the types.
LEMMA TypeStep ==
  ASSUME TypeOK, [Next]_vars
  PROVE  TypeOK'
<1> USE DEF clockVars, processVars, Probing
<1>1. CASE Tick
  <2>1. rate[1] \in Int /\ rate[2] \in Int  BY DEF TypeOK
  <2>2. now' \in Nat  BY <1>1 DEF Tick, TypeOK
  <2>3. offset' \in Int /\ slew' \in Int
    <3>1. offset \in Int /\ slew \in Int  BY DEF TypeOK
    <3>2. \/ offset' = offset /\ slew' = slew
          \/ offset' = offset + rate[1] /\ slew' = slew + rate[2]
      BY <1>1 DEF Tick
    <3> QED  BY <2>1, <3>1, <3>2
  <2> QED  BY <1>1, <2>2, <2>3 DEF Tick, TypeOK
<1>2. CASE Append_
  <2>1. process' \in [instance : Nat, domain : Nat, seq : Nat, appending : BOOLEAN]
    <3>1. process.seq + 1 \in Nat /\ process' = [process EXCEPT !.seq = process.seq + 1, !.appending = TRUE]
      BY <1>2 DEF Append_, TypeOK
    <3> QED  BY <3>1 DEF TypeOK
  <2>2. journal' \in Seq(Rec)
    BY <1>2, RecordType, AppendProperties DEF Append_, TypeOK
  <2>3. [record |-> Record, began |-> pc = "open", ended |-> FALSE] \in Entry
    BY RecordType DEF Entry
  <2>4. log' \in Seq(Entry)  BY <1>2, <2>3, AppendProperties DEF Append_, TypeOK
  <2> QED  BY <1>2, <2>1, <2>2, <2>4 DEF Append_, TypeOK
<1>3. CASE Checkpoint
  <2>1. process' \in [instance : Nat, domain : Nat, seq : Nat, appending : BOOLEAN]
    BY <1>3 DEF Checkpoint, TypeOK
  <2>2. current' \in [instance : Nat, seq : Nat]  BY <1>3 DEF Checkpoint, TypeOK
  <2>3. log' \in Seq(Entry)
    <3> DEFINE n == Len(log)
               e == [log[n] EXCEPT !.ended = (pc = "open")]
    <3>1. log' = [log EXCEPT ![n] = e]  BY <1>3 DEF Checkpoint
    <3>2. log \in Seq(Entry) /\ n \in Nat  BY LenProperties DEF TypeOK
    <3>3. CASE n = 0
      <4>1. DOMAIN log = {}  BY <3>2, <3>3, LenProperties
      <4>2. log' = log  BY <3>1, <3>2, <3>3, <4>1
      <4> QED  BY <3>2, <4>2
    <3>4. CASE n # 0
      <4>1. n \in 1..n /\ log[n] \in Entry  BY <3>2, <3>4, ElementOfSeq
      <4>2. e \in Entry  BY <4>1 DEF Entry
      <4> HIDE DEF e
      <4> QED  BY <3>1, <3>2, <4>1, <4>2, ExceptSeq
    <3> QED  BY <3>3, <3>4
  <2> QED  BY <1>3, <2>1, <2>2, <2>3 DEF Checkpoint, TypeOK
<1>4. CASE Restart
  <2>1. process' \in [instance : Nat, domain : Nat, seq : Nat, appending : BOOLEAN]
    BY <1>4 DEF Restart, TypeOK
  <2>2. offset' \in Int  BY <1>4, ClockAssumption DEF Restart, TypeOK
  <2>3. current' \in [instance : Nat, seq : Nat] /\ journal' \in Seq(Rec)
    BY <1>4, EmptySeq DEF Restart, TypeOK
  <2> QED  BY <1>4, <2>1, <2>2, <2>3 DEF Restart, TypeOK
<1>5. HostClock \in HostReading  BY DEF HostClock, HostReading, Wall, TypeOK
<1>6. CASE Call
  <2>1. probe' \in Called  BY <1>5, <1>6 DEF Call, Called
  <2> QED  BY <1>6, <2>1 DEF Call, TypeOK
<1>7. CASE ReadCurrent
  <2>1. probe \in Called  BY <1>7 DEF ReadCurrent, TypeOK, NoProbe, Met, Read
  <2>2. probe.before \in HostReading  BY <2>1 DEF Called
  <2>3. current.seq \in Nat /\ current.instance \in Nat /\ (current.seq > Capacity) \in BOOLEAN
    BY DEF TypeOK
  <2>4. probe' \in Met  BY <1>7, <2>2, <2>3, RecordType DEF ReadCurrent, Met
  <2>5. probe # NoProbe  BY <1>7 DEF ReadCurrent, NoProbe
  <2> QED  BY <1>7, <2>4, <2>5 DEF ReadCurrent, TypeOK
<1>8. CASE ReadJournal
  <2>1. probe \in Met  BY <1>8 DEF ReadJournal, TypeOK, NoProbe, Called, Read
  <2>2. process.domain \in Nat  BY DEF TypeOK
  <2>3. probe' \in Read
    BY <1>8, <2>1, <2>2, RowsFacts, RecordType DEF ReadJournal, Met, Read
  <2>4. probe # NoProbe  BY <1>8 DEF ReadJournal, NoProbe
  <2> QED  BY <1>8, <2>3, <2>4 DEF ReadJournal, TypeOK
<1>9. CASE Return
  <2>1. probe \in Read  BY <1>9 DEF Return, TypeOK, NoProbe, Called, Met
  <2>2. Returned \in Fence  BY <1>5, <2>1 DEF Returned, Read, Fence
  <2>3. pc \in {"start", "end"}  BY <1>9 DEF Return, TypeOK, NoProbe
  <2>4. CASE pc = "start"  BY <1>9, <2>2, <2>4 DEF Return, TypeOK
  <2>5. CASE pc = "end"  BY <1>9, <2>2, <2>5 DEF Return, TypeOK
  <2> QED  BY <2>3, <2>4, <2>5
<1>10. CASE Close  BY <1>10 DEF Close, TypeOK
<1>11. CASE UNCHANGED vars  BY <1>11 DEF vars, TypeOK
<1> QED  BY <1>1, <1>2, <1>3, <1>4, <1>6, <1>7, <1>8, <1>9, <1>10, <1>11 DEF Next, Done

(***************************************************************************)
(* The journal and the records of the process.                             *)
(***************************************************************************)

\* The running instance's journal and current.json.
LEMMA JournalStep ==
  ASSUME TypeOK, JournalInv, [Next]_vars
  PROVE  JournalInv'
<1> USE DEF clockVars, processVars
<1>1. CASE UNCHANGED <<process, journal, current>>  BY <1>1 DEF JournalInv
<1>2. /\ process.seq \in Nat /\ process.instance \in Nat /\ process.domain \in Nat
      /\ Len(journal) \in Nat /\ Capacity \in Nat \ {0} /\ current.seq \in Nat
  BY ClockAssumption, LenProperties DEF TypeOK
<1>3. CASE Append_
  <2>1. /\ process'.seq = process.seq + 1 /\ process'.instance = process.instance
        /\ process'.domain = process.domain /\ process'.appending
    BY <1>3 DEF Append_, TypeOK
  <2>2. current' = current /\ current.seq <= process'.seq
    BY <1>2, <1>3, <2>1 DEF Append_, JournalInv
  <2>3. CASE process.seq < Capacity
    <3>1. journal' = Append(journal, Record)  BY <1>3, <2>3 DEF Append_
    <3>2. /\ Len(journal') = Len(journal) + 1
          /\ \A k \in 1..Len(journal) : journal'[k] = journal[k]
          /\ journal'[Len(journal) + 1] = Record
      BY <3>1, RecordType, AppendProperties DEF TypeOK
    <3>3. Len(journal) = process.seq  BY <1>2, <2>3 DEF JournalInv, Smaller
    <3>4. Len(journal') = Smaller(process'.seq, Capacity)
      BY <1>2, <2>1, <2>3, <3>2, <3>3 DEF Smaller
    <3>5. ASSUME NEW k \in 1..Len(journal')
          PROVE  /\ journal'[k].seq = k /\ journal'[k].instance = process'.instance
                 /\ journal'[k].domain = process'.domain
      <4>1. CASE k = Len(journal) + 1  BY <2>1, <3>2, <3>3, <4>1, RecordType
      <4>2. CASE k \in 1..Len(journal)  BY <2>1, <3>2, <4>2 DEF JournalInv
      <4> QED  BY <1>2, <3>2, <4>1, <4>2
    <3> QED  BY <2>1, <2>2, <3>4, <3>5 DEF JournalInv
  <2>4. CASE ~(process.seq < Capacity)
    <3>1. journal' = journal  BY <1>3, <2>4 DEF Append_
    <3>2. Len(journal') = Smaller(process'.seq, Capacity)
      BY <1>2, <2>1, <2>4, <3>1 DEF JournalInv, Smaller
    <3> QED  BY <2>1, <2>2, <3>1, <3>2 DEF JournalInv
  <2> QED  BY <2>3, <2>4
<1>4. CASE Checkpoint
  <2>1. /\ process'.seq = process.seq /\ process'.instance = process.instance
        /\ process'.domain = process.domain /\ journal' = journal
        /\ current'.instance = process.instance /\ current'.seq = process.seq
    BY <1>4 DEF Checkpoint, TypeOK
  <2> QED  BY <1>2, <2>1 DEF JournalInv
<1>5. CASE Restart
  <2>1. /\ process'.seq = 0 /\ process'.instance = process.instance + 1 /\ journal' = << >>
        /\ current'.instance = process.instance + 1 /\ current'.seq = 0
    BY <1>5 DEF Restart
  <2>2. Len(journal') = 0 /\ Smaller(0, Capacity) = 0  BY <1>2, <2>1 DEF Smaller
  <2> QED  BY <2>1, <2>2 DEF JournalInv
<1>6. UNCHANGED <<process, journal, current>> \/ Append_ \/ Checkpoint \/ Restart
  BY DEF Next, Done, vars, Tick, Call, ReadCurrent, ReadJournal, Return, Close
<1> QED  BY <1>1, <1>3, <1>4, <1>5, <1>6

\* A record that leaves the process is where the journal says.
LEMMA LogStep ==
  ASSUME TypeOK, JournalInv, LogInv, [Next]_vars
  PROVE  LogInv'
<1> USE DEF clockVars, processVars
<1>1. CASE UNCHANGED <<process, journal, current, log>>  BY <1>1 DEF LogInv
<1>2. /\ process.seq \in Nat /\ process.instance \in Nat /\ Len(log) \in Nat
      /\ Len(journal) \in Nat /\ Capacity \in Nat \ {0} /\ current.seq \in Nat
  BY ClockAssumption, LenProperties DEF TypeOK
<1>3. \A i \in 1..Len(log) : log[i] \in Entry /\ log[i].record \in Rec
                            /\ log[i].record.seq \in Nat /\ log[i].record.instance \in Nat
  <2>1. log \in Seq(Entry)  BY DEF TypeOK
  <2>2. ASSUME NEW i \in 1..Len(log)  PROVE log[i] \in Entry  BY <2>1, ElementOfSeq
  <2>3. \A e \in Entry : e.record \in Rec  BY DEF Entry
  <2>4. \A r \in Rec : r.seq \in Nat /\ r.instance \in Nat  BY DEF Rec
  <2> QED  BY <2>2, <2>3, <2>4
<1>4. CASE Append_
  <2> DEFINE e == [record |-> Record, began |-> pc = "open", ended |-> FALSE]
  <2>1. /\ process'.seq = process.seq + 1 /\ process'.instance = process.instance
    BY <1>4 DEF Append_, TypeOK
  <2>2. log' = Append(log, e) /\ current' = current  BY <1>4 DEF Append_
  <2>3. e \in Entry /\ e.record = Record /\ ~e.ended  BY RecordType DEF Entry
  <2> HIDE DEF e
  <2>4. /\ Len(log') = Len(log) + 1 /\ \A i \in 1..Len(log) : log'[i] = log[i]
        /\ log'[Len(log) + 1] = e
    BY <2>2, <2>3, AppendProperties DEF TypeOK
  <2>5. /\ \A k \in 1..Len(journal) : journal'[k] = journal[k]
        /\ process.seq < Capacity => journal'[process.seq + 1] = Record
    <3>1. CASE process.seq < Capacity
      <4>1. journal' = Append(journal, Record)  BY <1>4, <3>1 DEF Append_
      <4>2. Len(journal) = process.seq  BY <1>2, <3>1 DEF JournalInv, Smaller
      <4> QED  BY <4>1, <4>2, RecordType, AppendProperties DEF TypeOK
    <3>2. CASE ~(process.seq < Capacity)  BY <1>4, <3>2 DEF Append_
    <3> QED  BY <3>1, <3>2
  <2>6. ASSUME NEW i \in 1..Len(log')
        PROVE  LET r == log'[i].record IN
               /\ r.instance <= process'.instance /\ 0 < r.seq
               /\ r.instance = process'.instance => r.seq <= process'.seq
               /\ r.instance = process'.instance /\ r.seq <= Capacity => journal'[r.seq] = r
               /\ r.instance = process'.instance /\ log'[i].ended => r.seq <= current'.seq
    <3>1. CASE i = Len(log) + 1
      <4>1. log'[i].record = Record /\ ~log'[i].ended  BY <2>3, <2>4, <3>1
      <4>2. Record.instance = process.instance /\ Record.seq = process.seq + 1  BY RecordType
      <4>3. process.seq + 1 <= Capacity => journal'[process.seq + 1] = Record  BY <1>2, <2>5
      <4>4. 0 < process.seq + 1 /\ process.instance <= process.instance
            /\ process.seq + 1 <= process.seq + 1
        BY <1>2
      <4> QED  BY <2>1, <4>1, <4>2, <4>3, <4>4
    <3>2. CASE i \in 1..Len(log)
      <4> DEFINE r == log[i].record
      <4>1. /\ r.instance <= process.instance /\ 0 < r.seq
            /\ r.instance = process.instance => r.seq <= process.seq
            /\ r.instance = process.instance /\ r.seq <= Capacity => journal[r.seq] = r
            /\ r.instance = process.instance /\ log[i].ended => r.seq <= current.seq
        BY <3>2 DEF LogInv
      <4>2. r.seq \in Nat /\ r.instance \in Nat  BY <1>3, <3>2
      <4>3. log'[i] = log[i]  BY <2>4, <3>2
      <4>4. r.instance = process.instance /\ r.seq <= Capacity => r.seq \in 1..Len(journal)
        BY <1>2, <4>1, <4>2 DEF JournalInv, Smaller
      <4> HIDE DEF r
      <4>5. /\ r.instance <= process'.instance /\ 0 < r.seq
            /\ r.instance = process'.instance => r.seq <= process'.seq
            /\ r.instance = process'.instance /\ r.seq <= Capacity => journal'[r.seq] = r
            /\ r.instance = process'.instance /\ log[i].ended => r.seq <= current'.seq
        BY <1>2, <2>1, <2>2, <2>5, <4>1, <4>2, <4>4
      <4> QED  BY <4>3, <4>5 DEF r
    <3> QED  BY <1>2, <2>4, <3>1, <3>2
  <2>7. 0 < Len(log') /\ log'[Len(log')].record = Record  BY <1>2, <2>3, <2>4
  <2> QED  BY <2>1, <2>6, <2>7, RecordType DEF LogInv
<1>5. CASE Checkpoint
  <2> DEFINE n == Len(log)
  <2>1. /\ process'.seq = process.seq /\ process'.instance = process.instance
        /\ ~process'.appending /\ journal' = journal /\ current'.seq = process.seq
    BY <1>5 DEF Checkpoint, TypeOK
  <2>2. n \in 1..n  BY <1>2, <1>5 DEF Checkpoint, LogInv
  <2>3. log' = [log EXCEPT ![n] = [log[n] EXCEPT !.ended = (pc = "open")]]
    BY <1>5 DEF Checkpoint
  <2>4. log \in Seq(Entry) /\ [log[n] EXCEPT !.ended = (pc = "open")] \in Entry
    BY <1>3, <2>2 DEF TypeOK, Entry
  <2>5. Len(log') = n /\ \A i \in 1..n : log'[i].record = log[i].record
    <3> DEFINE e == [log[n] EXCEPT !.ended = (pc = "open")]
    <3>1. e.record = log[n].record  BY <1>3, <2>2 DEF Entry
    <3> HIDE DEF e
    <3>2. Len(log') = n /\ \A i \in 1..n : log'[i] = IF i = n THEN e ELSE log[i]
      BY <2>2, <2>3, <2>4, ExceptSeq DEF e
    <3> QED  BY <3>1, <3>2
  <2> HIDE DEF n
  <2>6. \A i \in 1..n :
          LET r == log[i].record IN
          /\ r.instance <= process.instance /\ 0 < r.seq
          /\ r.instance = process.instance => r.seq <= process.seq
          /\ r.instance = process.instance /\ r.seq <= Capacity => journal[r.seq] = r
    BY DEF LogInv, n
  <2> QED  BY <2>1, <2>5, <2>6 DEF LogInv
<1>6. CASE Restart
  <2>1. process'.instance = process.instance + 1 /\ ~process'.appending /\ log' = log
    BY <1>6 DEF Restart
  <2>2. \A i \in 1..Len(log) :
          0 < log[i].record.seq /\ log[i].record.instance < process'.instance
    BY <1>2, <1>3, <2>1 DEF LogInv
  <2> QED  BY <1>2, <1>3, <2>1, <2>2 DEF LogInv
<1> QED
  BY <1>1, <1>4, <1>5, <1>6 DEF Next, Done, vars, Tick, Call, ReadCurrent, ReadJournal, Return, Close

(***************************************************************************)
(* The fences.                                                             *)
(***************************************************************************)

\* The log after an append.
LEMMA AppendLog ==
  ASSUME TypeOK, Append_
  PROVE  /\ Len(log) \in Nat /\ Len(log') = Len(log) + 1
         /\ \A i \in 1..Len(log) : log'[i] = log[i]
         /\ log'[Len(log) + 1].record = Record
         /\ log'[Len(log) + 1].began = (pc = "open")
         /\ ~log'[Len(log) + 1].ended
<1> DEFINE e == [record |-> Record, began |-> pc = "open", ended |-> FALSE]
<1>1. log' = Append(log, e)  BY DEF Append_
<1>2. e \in Entry /\ e.record = Record /\ e.began = (pc = "open") /\ ~e.ended
  BY RecordType DEF Entry
<1> HIDE DEF e
<1>3. log \in Seq(Entry) /\ Len(log) \in Nat  BY LenProperties DEF TypeOK
<1>4. /\ Len(log') = Len(log) + 1 /\ \A i \in 1..Len(log) : log'[i] = log[i]
      /\ log'[Len(log) + 1] = e
  BY <1>1, <1>2, <1>3, AppendProperties
<1> QED  BY <1>2, <1>3, <1>4

\* The log after a checkpoint.
LEMMA CheckpointLog ==
  ASSUME TypeOK, LogInv, Checkpoint
  PROVE  /\ Len(log) \in Nat /\ Len(log') = Len(log)
         /\ \A i \in 1..Len(log) :
              /\ log'[i].record = log[i].record /\ log'[i].began = log[i].began
              /\ log'[i].ended => log[i].ended \/ pc = "open"
<1> DEFINE n == Len(log)
           e == [log[n] EXCEPT !.ended = (pc = "open")]
<1>1. log \in Seq(Entry) /\ n \in Nat  BY LenProperties DEF TypeOK
<1>2. n \in 1..n  BY <1>1 DEF Checkpoint, LogInv
<1>3. log[n] \in Entry  BY <1>1, <1>2, ElementOfSeq
<1>4. /\ e \in Entry /\ e.record = log[n].record /\ e.began = log[n].began
      /\ e.ended = (pc = "open")
  BY <1>3 DEF Entry
<1>5. log' = [log EXCEPT ![n] = e]  BY DEF Checkpoint
<1> HIDE DEF e
<1>6. Len(log') = n /\ \A i \in 1..n : log'[i] = IF i = n THEN e ELSE log[i]
  BY <1>1, <1>2, <1>4, <1>5, ExceptSeq
<1> QED  BY <1>1, <1>4, <1>6

\* What a probe has read.
LEMMA ProbeTypes ==
  ASSUME TypeOK
  PROVE  /\ NoProbe.step = "idle"
         /\ probe.step = "called" => probe \in Called
         /\ probe.step = "met" => probe \in Met
         /\ probe.step = "read" => probe \in Read
         /\ probe.step \in {"called", "met", "read"} =>
              /\ probe # NoProbe /\ pc \in {"start", "end"}
              /\ probe.before.mono \in Int /\ probe.before.wall \in Int
         /\ ClockRead => probe.begin \in Int /\ probe.seq \in Nat /\ probe.instance \in Nat
         /\ probe.step = "read" => probe.finish \in Int /\ probe.domain \in Nat
<1>1. NoProbe.step = "idle"  BY DEF NoProbe
<1>2. probe.step = "called" => probe \in Called  BY DEF TypeOK, NoProbe, Met, Read
<1>3. probe.step = "met" => probe \in Met  BY DEF TypeOK, NoProbe, Called, Read
<1>4. probe.step = "read" => probe \in Read  BY DEF TypeOK, NoProbe, Met, Called
<1>5. probe.step \in {"called", "met", "read"} => probe # NoProbe /\ pc \in {"start", "end"}
  BY <1>1 DEF TypeOK, Probing
<1>6. probe.step \in {"called", "met", "read"} =>
        probe.before.mono \in Int /\ probe.before.wall \in Int
  BY <1>2, <1>3, <1>4 DEF Called, Met, Read, HostReading
<1>7. ClockRead => probe.begin \in Int /\ probe.seq \in Nat /\ probe.instance \in Nat
  BY <1>3, <1>4 DEF ClockRead, Met, Read
<1>8. probe.step = "read" => probe.finish \in Int /\ probe.domain \in Nat  BY <1>4 DEF Read
<1> QED  BY <1>1, <1>2, <1>3, <1>4, <1>5, <1>6, <1>7, <1>8

\* What a completed probe holds.
LEMMA FenceTypes ==
  ASSUME NEW f \in Fence
  PROVE  /\ f.before.mono \in Int /\ f.before.wall \in Int /\ f.after.mono \in Int
         /\ f.after.wall \in Int /\ f.begin \in Int /\ f.finish \in Int
         /\ f.instance \in Nat /\ f.seq \in Nat /\ f.domain \in Nat
         /\ f.rows \in RowsOf
BY DEF Fence, HostReading

\* The fences lie where they were taken.
LEMMA FenceStep ==
  ASSUME TypeOK, JournalInv, LogInv, FenceInv, [Next]_vars
  PROVE  FenceInv'
<1> USE DEF clockVars, processVars
<1>1. CASE UNCHANGED <<process, log, pc, probe, start>>  BY <1>1 DEF FenceInv, ClockRead
<1>2. /\ process.seq \in Nat /\ process.instance \in Nat /\ process.domain \in Nat
      /\ pc # "start" => start.instance \in Nat /\ start.seq \in Nat /\ start.domain \in Nat
  BY FenceTypes DEF TypeOK
<1>3. CASE Append_
  <2>1. /\ process'.seq = process.seq + 1 /\ process'.instance = process.instance
        /\ process'.domain = process.domain /\ UNCHANGED <<pc, probe, start>>
    BY <1>3 DEF Append_, TypeOK
  <2>2. ClockRead' => /\ probe.instance = process'.instance /\ probe.seq <= process'.seq
                      /\ probe.overflow = (probe.seq > Capacity)
    BY <1>2, <2>1, ProbeTypes DEF FenceInv, ClockRead
  <2>3. ASSUME pc = "start", NEW i \in 1..Len(log')  PROVE ~log'[i].began
    <3>1. CASE i = Len(log) + 1  BY <1>3, <2>3, <3>1, AppendLog
    <3>2. CASE i \in 1..Len(log)
      <4>1. log'[i] = log[i]  BY <1>3, <3>2, AppendLog
      <4> QED  BY <2>3, <3>2, <4>1 DEF FenceInv
    <3> QED  BY <1>3, <3>1, <3>2, AppendLog
  <2>4. pc # "start" =>
          /\ start.instance <= process'.instance /\ start.domain <= process'.domain
          /\ start.instance = process'.instance => start.seq <= process'.seq
    BY <1>2, <2>1 DEF FenceInv
  <2>5. pc # "start" =>
          \A i \in 1..Len(log') : log'[i].began =>
            LET r == log'[i].record IN
            start.instance <= r.instance /\ (r.instance = start.instance => start.seq < r.seq)
    <3>1. SUFFICES ASSUME pc # "start", NEW i \in 1..Len(log'), log'[i].began
                   PROVE  /\ start.instance <= log'[i].record.instance
                          /\ log'[i].record.instance = start.instance => start.seq < log'[i].record.seq
      OBVIOUS
    <3>2. CASE i = Len(log) + 1
      <4>1. log'[i].record = Record  BY <1>3, <3>2, AppendLog
      <4> QED  BY <1>2, <2>1, <3>1, <4>1, RecordType DEF FenceInv
    <3>3. CASE i \in 1..Len(log)
      <4>1. log'[i] = log[i]  BY <1>3, <3>3, AppendLog
      <4> QED  BY <3>1, <3>3, <4>1 DEF FenceInv
    <3> QED  BY <1>3, <3>2, <3>3, AppendLog
  <2>6. pc = "end" /\ ClockRead' =>
          \A i \in 1..Len(log') :
            log'[i].ended /\ log'[i].record.instance = probe.instance => log'[i].record.seq <= probe.seq
    BY <1>3, <2>1, AppendLog DEF FenceInv, ClockRead
  <2> QED  BY <2>1, <2>2, <2>3, <2>4, <2>5, <2>6 DEF FenceInv
<1>4. CASE Checkpoint
  <2>1. /\ process'.seq = process.seq /\ process'.instance = process.instance
        /\ process'.domain = process.domain /\ UNCHANGED <<pc, probe, start>>
    BY <1>4 DEF Checkpoint, TypeOK
  <2>2. /\ Len(log') = Len(log)
        /\ \A i \in 1..Len(log) :
             /\ log'[i].record = log[i].record /\ log'[i].began = log[i].began
             /\ log'[i].ended => log[i].ended \/ pc = "open"
    BY <1>4, CheckpointLog
  <2> QED  BY <2>1, <2>2 DEF FenceInv, ClockRead
<1>5. CASE Restart
  <2>1. /\ process'.instance = process.instance + 1 /\ process'.domain \in {process.domain, process.domain + 1}
        /\ probe' = NoProbe /\ UNCHANGED <<log, pc, start>>
    BY <1>5 DEF Restart
  <2>2. ~ClockRead' /\ probe'.step # "read"  BY <2>1 DEF ClockRead, NoProbe
  <2>3. pc # "start" => /\ start.instance < process'.instance /\ start.domain <= process'.domain
    BY <1>2, <2>1 DEF FenceInv
  <2> QED  BY <1>2, <2>1, <2>2, <2>3 DEF FenceInv
<1>6. CASE Call
  <2>1. ~ClockRead' /\ probe'.step # "read" /\ UNCHANGED <<process, log, pc, start>>
    BY <1>6 DEF Call, ClockRead
  <2> QED  BY <2>1 DEF FenceInv
<1>7. CASE ReadCurrent
  <2>1. /\ probe'.instance = current.instance /\ probe'.seq = current.seq /\ probe'.step = "met"
        /\ probe'.overflow = (current.seq > Capacity) /\ UNCHANGED <<process, log, pc, start>>
    BY <1>7 DEF ReadCurrent
  <2>2. current.instance = process.instance /\ current.seq <= process.seq  BY DEF JournalInv
  <2>3. \A i \in 1..Len(log) : log[i].ended /\ log[i].record.instance = process.instance =>
                                log[i].record.seq <= current.seq
    BY DEF LogInv
  <2> QED  BY <2>1, <2>2, <2>3 DEF FenceInv
<1>8. CASE ReadJournal
  <2>1. /\ probe'.instance = probe.instance /\ probe'.seq = probe.seq /\ probe'.step = "read"
        /\ probe'.overflow = probe.overflow /\ probe'.domain = process.domain
        /\ UNCHANGED <<process, log, pc, start>> /\ ClockRead
    BY <1>8 DEF ReadJournal, ClockRead
  <2> QED  BY <2>1 DEF FenceInv
<1>9. CASE Return
  <2>1. ~ClockRead' /\ probe'.step # "read" /\ UNCHANGED <<process, log>> /\ ClockRead
    BY <1>9 DEF Return, ClockRead, NoProbe
  <2>2. CASE pc = "start"
    <3>1. /\ pc' = "open" /\ start'.instance = probe.instance /\ start'.seq = probe.seq
          /\ start'.domain = probe.domain
      BY <1>9, <2>2 DEF Return, Returned
    <3>2. /\ probe.instance = process.instance /\ probe.seq <= process.seq
          /\ probe.domain = process.domain /\ \A i \in 1..Len(log) : ~log[i].began
      BY <1>9, <2>1, <2>2 DEF FenceInv, Return
    <3> QED  BY <1>2, <2>1, <3>1, <3>2 DEF FenceInv
  <2>3. CASE pc # "start"
    <3>1. pc' = "closed" /\ start' = start  BY <1>9, <2>3 DEF Return
    <3> QED  BY <2>1, <2>3, <3>1 DEF FenceInv
  <2> QED  BY <2>2, <2>3
<1>10. CASE Close
  <2>1. /\ pc = "open" /\ pc' = "end" /\ UNCHANGED <<process, log, probe, start>>
    BY <1>10 DEF Close
  <2>2. ~ClockRead  BY <2>1, ProbeTypes DEF ClockRead
  <2>3. ~ClockRead'  BY <2>1, <2>2 DEF ClockRead
  <2> QED  BY <2>1, <2>2, <2>3 DEF FenceInv, ClockRead
<1>11. UNCHANGED <<process, log, pc, probe, start>> \/ Append_ \/ Checkpoint \/ Restart \/ Call
       \/ ReadCurrent \/ ReadJournal \/ Return \/ Close
  BY DEF Next, Done, vars, Tick
<1> QED  BY <1>1, <1>3, <1>4, <1>5, <1>6, <1>7, <1>8, <1>9, <1>10, <1>11

\* The end probe takes what the open capture began and checkpointed.
LEMMA CapturedStep ==
  ASSUME TypeOK, JournalInv, LogInv, FenceInv, CapturedInv, [Next]_vars
  PROVE  CapturedInv'
<1> USE DEF clockVars, processVars
<1>1. CASE UNCHANGED <<log, pc, probe, start, end>>  BY <1>1 DEF CapturedInv, HasAll
<1>2. CASE pc # "closed" /\ Append_
  <2>1. pc' # "closed" /\ UNCHANGED <<pc, probe, start>>  BY <1>2 DEF Append_
  <2>2. SUFFICES ASSUME pc = "end", probe.step = "read", start.instance = probe.instance, ~probe.overflow,
                        NEW i \in 1..Len(log'), log'[i].began /\ log'[i].ended
                 PROVE  log'[i].record \in Range(probe.rows)
    BY <2>1 DEF CapturedInv, HasAll
  <2>3. i \in 1..Len(log) /\ log'[i] = log[i]  BY <1>2, <2>2, AppendLog
  <2> QED  BY <2>2, <2>3 DEF CapturedInv, HasAll
<1>3. CASE pc # "closed" /\ Checkpoint
  <2>1. pc' # "closed" /\ UNCHANGED <<pc, probe, start>>  BY <1>3 DEF Checkpoint
  <2>2. SUFFICES ASSUME pc = "end", probe.step = "read", start.instance = probe.instance, ~probe.overflow,
                        NEW i \in 1..Len(log'), log'[i].began /\ log'[i].ended
                 PROVE  log'[i].record \in Range(probe.rows)
    BY <2>1 DEF CapturedInv, HasAll
  <2>3. i \in 1..Len(log) /\ log'[i].record = log[i].record /\ log[i].began /\ log[i].ended
    BY <1>3, <2>2, CheckpointLog
  <2> QED  BY <2>2, <2>3 DEF CapturedInv, HasAll
<1>4. CASE pc # "closed" /\ Restart
  <2>1. pc' # "closed" /\ probe'.step # "read"  BY <1>4 DEF Restart, NoProbe
  <2> QED  BY <2>1 DEF CapturedInv
<1>5. CASE Call \/ ReadCurrent
  <2>1. pc' # "closed"  BY <1>5, ProbeTypes DEF Call, ReadCurrent, Probing
  <2>2. probe'.step # "read"  BY <1>5 DEF Call, ReadCurrent
  <2> QED  BY <2>1, <2>2 DEF CapturedInv
<1>6. CASE ReadJournal
  <2>1. ClockRead /\ pc \in {"start", "end"} /\ UNCHANGED <<processVars, pc, start>>
        /\ probe'.rows = Rows /\ probe'.instance = probe.instance /\ probe'.overflow = probe.overflow
    BY <1>6, ProbeTypes DEF ReadJournal, ClockRead
  <2>2. SUFFICES ASSUME pc = "end", start.instance = probe.instance, ~probe.overflow,
                        NEW i \in 1..Len(log), log[i].began, log[i].ended
                 PROVE  log[i].record \in Range(Rows)
    BY <2>1 DEF CapturedInv, HasAll
  <2> DEFINE r == log[i].record
  <2>3. r.seq \in Nat /\ r.instance \in Nat
    <3>1. log[i] \in Entry  BY <2>2, ElementOfSeq DEF TypeOK
    <3> QED  BY <3>1 DEF Entry, Rec
  <2>4. /\ start.instance \in Nat /\ start.seq \in Nat /\ process.instance \in Nat
        /\ process.seq \in Nat /\ probe.seq \in Nat /\ Capacity \in Nat
    BY <2>1, <2>2, FenceTypes, ProbeTypes, ClockAssumption DEF TypeOK
  <2>5. /\ probe.instance = process.instance /\ probe.seq <= process.seq /\ probe.seq <= Capacity
    <3>1. /\ probe.instance = process.instance /\ probe.seq <= process.seq
          /\ probe.overflow = (probe.seq > Capacity)
      BY <2>1 DEF FenceInv
    <3>2. ~(probe.seq > Capacity)  BY <2>2, <3>1
    <3> QED  BY <2>4, <3>1, <3>2
  <2>6. /\ start.instance <= r.instance /\ (r.instance = start.instance => start.seq < r.seq)
        /\ r.instance = probe.instance => r.seq <= probe.seq
    BY <2>1, <2>2 DEF FenceInv
  <2>7. /\ r.instance <= process.instance
        /\ r.instance = process.instance /\ r.seq <= Capacity => journal[r.seq] = r
    BY <2>2 DEF LogInv
  <2> HIDE DEF r
  <2>8. r.instance = process.instance  BY <2>2, <2>3, <2>4, <2>5, <2>6, <2>7
  <2>9. start.seq < r.seq /\ r.seq <= probe.seq /\ journal[r.seq] = r
    BY <2>2, <2>3, <2>4, <2>5, <2>6, <2>7, <2>8
  <2>10. Taken(r)  BY <2>2, <2>9 DEF Taken, After
  <2>11. r.seq \in 1..Len(journal)
    BY <2>3, <2>4, <2>5, <2>9 DEF JournalInv, Smaller
  <2>12. r \in Range(Rows)  BY <2>9, <2>10, <2>11, RowsFacts
  <2> QED  BY <2>12 DEF r
<1>7. CASE Return
  <2>1. probe'.step # "read" /\ log' = log /\ probe.step = "read"
    BY <1>7 DEF Return, NoProbe
  <2>2. CASE pc = "start"
    <3>1. pc' = "open"  BY <1>7, <2>2 DEF Return
    <3> QED  BY <2>1, <3>1 DEF CapturedInv
  <2>3. CASE pc # "start"
    <3>1. /\ start' = start /\ end'.instance = probe.instance /\ end'.overflow = probe.overflow
          /\ end'.rows = probe.rows
      BY <1>7, <2>3 DEF Return, Returned
    <3>2. pc = "end"  BY <2>1, <2>3, ProbeTypes
    <3> QED  BY <2>1, <3>1, <3>2 DEF CapturedInv, HasAll
  <2> QED  BY <2>2, <2>3
<1>8. CASE Close
  <2>1. pc = "open" /\ pc' = "end" /\ probe' = probe  BY <1>8 DEF Close
  <2>2. probe.step # "read"  BY <2>1, ProbeTypes
  <2> QED  BY <2>1, <2>2 DEF CapturedInv
<1>9. CASE Tick \/ UNCHANGED vars
  <2>1. UNCHANGED <<log, pc, probe, start, end>>  BY <1>9 DEF Tick, vars
  <2> QED  BY <1>1, <2>1
<1> QED  BY <1>2, <1>3, <1>4, <1>5, <1>6, <1>7, <1>8, <1>9 DEF Next, Done

(***************************************************************************)
(* The clocks.                                                             *)
(***************************************************************************)

\* Readings are integers, directions of drift are small ones.
LEMMA ClockTypes ==
  ASSUME TypeOK
  PROVE  /\ now \in Int /\ offset \in Int /\ slew \in Int /\ Mono \in Int /\ Wall \in Int
         /\ rate[1] \in Int /\ -1 <= rate[1] /\ rate[1] <= 1
         /\ rate[2] \in Int /\ -1 <= rate[2] /\ rate[2] <= 1
         /\ Mono = now + offset /\ Wall = now + slew
<1>1. /\ now \in Int /\ offset \in Int /\ slew \in Int
      /\ rate[1] \in {-1, 0, 1} /\ rate[2] \in {-1, 0, 1}
  BY DEF TypeOK
<1> QED  BY <1>1 DEF Mono, Wall

LEMMA JournalTypes ==
  ASSUME TypeOK
  PROVE  /\ Len(journal) \in Nat
         /\ \A k \in 1..Len(journal) : journal[k].mono \in Int /\ journal[k].wall \in Int
<1>1. journal \in Seq(Rec) /\ Len(journal) \in Nat  BY LenProperties DEF TypeOK
<1>2. ASSUME NEW k \in 1..Len(journal)  PROVE journal[k] \in Rec  BY <1>1, ElementOfSeq
<1> QED  BY <1>1, <1>2 DEF Rec

\* Time passes on every clock, and each drifts its way.
LEMMA TickClocks ==
  ASSUME TypeOK, Tick
  PROVE  /\ now' \in Int /\ offset' \in Int /\ slew' \in Int /\ Mono' \in Int
         /\ now <= now' /\ Mono < Mono' /\ rate' = rate
         /\ rate[1] >= 0 => offset <= offset'
         /\ rate[1] <= 0 => offset' <= offset
         /\ rate[2] >= 0 => slew <= slew'
         /\ rate[2] <= 0 => slew' <= slew
<1> DEFINE a == rate[1]
           b == rate[2]
<1>1. now' = now + 2 /\ rate' = rate  BY DEF Tick
<1>2. \/ offset' = offset /\ slew' = slew
      \/ offset' = offset + a /\ slew' = slew + b
  BY DEF Tick
<1>3. /\ now \in Int /\ offset \in Int /\ slew \in Int /\ a \in Int /\ b \in Int /\ -1 <= a
      /\ Mono = now + offset /\ Mono' = now' + offset'
  BY ClockTypes DEF Mono
<1> HIDE DEF a, b
<1>4. /\ now' \in Int /\ offset' \in Int /\ slew' \in Int /\ Mono' \in Int
      /\ now <= now' /\ Mono < Mono'
      /\ a >= 0 => offset <= offset'
      /\ a <= 0 => offset' <= offset
      /\ b >= 0 => slew <= slew'
      /\ b <= 0 => slew' <= slew
  <2>1. CASE offset' = offset /\ slew' = slew  BY <1>1, <1>3, <2>1
  <2>2. CASE offset' = offset + a /\ slew' = slew + b  BY <1>1, <1>3, <2>2
  <2> QED  BY <1>2, <2>1, <2>2
<1> QED  BY <1>1, <1>4 DEF a, b

\* The readings lie behind the clocks.
LEMMA ReadingStep ==
  ASSUME TypeOK, ReadingInv, [Next]_vars
  PROVE  ReadingInv'
<1> USE DEF clockVars, processVars
<1>1. CASE Tick
  <2>1. UNCHANGED <<journal, pc, probe, start>>  BY <1>1 DEF Tick
  <2>2. /\ now \in Int /\ now' \in Int /\ slew \in Int /\ slew' \in Int /\ Mono \in Int /\ Mono' \in Int
        /\ rate[2] \in Int /\ now <= now' /\ Mono < Mono' /\ rate' = rate
        /\ rate[2] >= 0 => slew <= slew'
        /\ rate[2] <= 0 => slew' <= slew
    BY <1>1, ClockTypes, TickClocks
  <2>3. ASSUME probe # NoProbe
        PROVE  /\ probe.before.mono <= now'
               /\ rate[2] >= 0 => probe.before.wall - probe.before.mono <= slew'
               /\ rate[2] <= 0 => slew' <= probe.before.wall - probe.before.mono
    <3>1. probe.step \in {"called", "met", "read"}  BY <2>3 DEF TypeOK, Called, Met, Read
    <3>2. probe.before.mono \in Int /\ probe.before.wall \in Int  BY <3>1, ProbeTypes
    <3>3. /\ probe.before.mono <= now
          /\ rate[2] >= 0 => probe.before.wall - probe.before.mono <= slew
          /\ rate[2] <= 0 => slew <= probe.before.wall - probe.before.mono
      BY <2>3 DEF ReadingInv
    <3> QED  BY <2>2, <3>2, <3>3
  <2>4. \A k \in 1..Len(journal) : journal[k].mono < Mono'
    <3>1. TAKE k \in 1..Len(journal)
    <3>2. journal[k].mono \in Int  BY JournalTypes
    <3>3. journal[k].mono < Mono \/ journal[k].mono = Mono  BY DEF ReadingInv
    <3> QED  BY <2>2, <3>2, <3>3
  <2>5. ClockRead => probe.begin <= Mono'
    <3>1. ClockRead => probe.begin \in Int /\ probe.begin <= Mono  BY ProbeTypes DEF ReadingInv
    <3> QED  BY <2>2, <3>1
  <2> QED  BY <2>1, <2>2, <2>3, <2>4, <2>5 DEF ReadingInv, ClockRead
<1>2. CASE Append_
  <2>1. UNCHANGED <<now, offset, slew, rate, pc, probe, start>>  BY <1>2 DEF Append_
  <2>2. Mono' = Mono /\ Wall' = Wall  BY <2>1 DEF Mono, Wall
  <2>3. ASSUME NEW k \in 1..Len(journal')
        PROVE  journal'[k].mono < Mono \/ (journal'[k].mono = Mono /\ journal'[k].wall = Wall)
    <3>1. CASE journal' = journal  BY <3>1 DEF ReadingInv
    <3>2. CASE journal' = Append(journal, Record)
      <4>1. /\ Len(journal') = Len(journal) + 1 /\ \A m \in 1..Len(journal) : journal'[m] = journal[m]
            /\ journal'[Len(journal) + 1] = Record
        BY <3>2, RecordType, AppendProperties DEF TypeOK
      <4>2. CASE k = Len(journal) + 1  BY <4>1, <4>2, RecordType
      <4>3. CASE k \in 1..Len(journal)  BY <4>1, <4>3 DEF ReadingInv
      <4> QED  BY <4>1, <4>2, <4>3, JournalTypes
    <3> QED  BY <1>2, <3>1, <3>2 DEF Append_
  <2> QED  BY <2>1, <2>2, <2>3 DEF ReadingInv, ClockRead
<1>3. CASE Checkpoint \/ UNCHANGED vars
  <2>1. UNCHANGED <<now, offset, slew, rate, journal, pc, probe, start>>  BY <1>3 DEF Checkpoint, vars
  <2> QED  BY <2>1 DEF ReadingInv, ClockRead, Mono, Wall
<1>4. CASE Restart
  <2>1. /\ probe' = NoProbe /\ Len(journal') = 0 /\ UNCHANGED <<pc, start>>  BY <1>4 DEF Restart
  <2> QED  BY <2>1, ProbeTypes DEF ReadingInv, ClockRead, NoProbe
<1>5. CASE Call
  <2>1. /\ probe'.before.mono = now /\ probe'.before.wall = Wall /\ probe'.step = "called"
        /\ UNCHANGED <<now, offset, slew, rate, journal, pc, start>>
    BY <1>5 DEF Call, HostClock
  <2>2. Mono' = Mono /\ Wall' = Wall /\ ~ClockRead'  BY <2>1 DEF Mono, Wall, ClockRead
  <2>3. Wall - now = slew /\ now <= now /\ slew <= slew  BY ClockTypes
  <2> QED  BY <2>1, <2>2, <2>3 DEF ReadingInv
<1>6. CASE ReadCurrent
  <2>1. /\ probe'.before = probe.before /\ probe'.begin = Mono /\ probe'.step = "met" /\ probe # NoProbe
        /\ UNCHANGED <<now, offset, slew, rate, journal, pc, start>>
    BY <1>6, ProbeTypes DEF ReadCurrent
  <2>2. Mono' = Mono /\ Wall' = Wall /\ Mono <= Mono  BY <2>1, ClockTypes DEF Mono, Wall
  <2> QED  BY <2>1, <2>2 DEF ReadingInv
<1>7. CASE ReadJournal
  <2>1. /\ probe'.before = probe.before /\ probe'.begin = probe.begin /\ probe'.finish = Mono
        /\ probe # NoProbe /\ ClockRead
        /\ UNCHANGED <<now, offset, slew, rate, journal, pc, start>>
    BY <1>7, ProbeTypes DEF ReadJournal, ClockRead
  <2>2. Mono' = Mono /\ Wall' = Wall  BY <2>1 DEF Mono, Wall
  <2> QED  BY <2>1, <2>2 DEF ReadingInv
<1>8. CASE Return
  <2>1. /\ probe' = NoProbe /\ probe.step = "read" /\ UNCHANGED <<now, offset, slew, rate, journal>>
        /\ start' = start \/ (start'.begin = probe.begin /\ start'.finish = probe.finish)
        /\ pc = "start" => start'.begin = probe.begin /\ start'.finish = probe.finish
    BY <1>8 DEF Return, Returned
  <2>2. Mono' = Mono /\ Wall' = Wall /\ ~ClockRead' /\ probe'.step # "read"
    BY <2>1 DEF Mono, Wall, ClockRead, NoProbe
  <2> QED  BY <2>1, <2>2 DEF ReadingInv
<1>9. CASE Close
  <2>1. pc = "open" /\ UNCHANGED <<now, offset, slew, rate, journal, probe, start>>  BY <1>9 DEF Close
  <2>2. Mono' = Mono /\ Wall' = Wall /\ ClockRead' = ClockRead  BY <2>1 DEF Mono, Wall, ClockRead
  <2> QED  BY <2>1, <2>2 DEF ReadingInv
<1> QED  BY <1>1, <1>2, <1>3, <1>4, <1>5, <1>6, <1>7, <1>8, <1>9 DEF Next, Done

\* What lies past a probe does so when the probe's end is taken later.
LEMMA SinceLater ==
  ASSUME NEW p, p.begin \in Int, NEW late \in Int, NEW later \in Int, late <= later,
         NEW o \in Int, NEW s, Since(p, late, o, s)
  PROVE  Since(p, later, o, s)
BY DEF Since

\* The anchor's readings are integers.
LEMMA AnchorTypes ==
  ASSUME TypeOK, Anchored
  PROVE  /\ Anchor.begin \in Int /\ Anchor.before.mono \in Int /\ Anchor.before.wall \in Int
         /\ Late \in Int
<1>1. CASE pc = "start"
  <2>1. ClockRead /\ Anchor = probe /\ Late = now  BY <1>1 DEF Anchored, Anchor, Late
  <2> QED  BY <2>1, ProbeTypes, ClockTypes DEF ClockRead
<1>2. CASE pc # "start"
  <2>1. Anchor = start /\ Late = start.after.mono /\ start \in Fence
    BY <1>2 DEF Anchor, Late, TypeOK
  <2> QED  BY <2>1, FenceTypes
<1> QED  BY <1>1, <1>2

\* The clocks drift their way.
Drift ==
  /\ rate' = rate /\ offset' \in Int /\ slew' \in Int
  /\ rate[1] >= 0 => offset <= offset'
  /\ rate[1] <= 0 => offset' <= offset
  /\ rate[2] >= 0 => slew <= slew'
  /\ rate[2] <= 0 => slew' <= slew

\* The anchor's end is taken later, if at all.
Kept ==
  Anchored' /\ SameClock' =>
    /\ Anchored /\ SameClock
    /\ Anchor'.begin = Anchor.begin /\ Anchor'.before = Anchor.before
    /\ Late' \in Int /\ Late <= Late'

\* A record stays dated while the clocks drift on.
LEMMA DatedKept ==
  ASSUME TypeOK, Drift, Anchored, Anchor'.begin = Anchor.begin, Anchor'.before = Anchor.before,
         Late' \in Int, Late <= Late', NEW r \in Rec, Dated(r)
  PROVE  \E o \in Int : /\ Since(Anchor, Late, o, Delta(r) + o)'
                        /\ Until(offset, slew, o, Delta(r) + o)'
<1>1. PICK o \in Int : /\ Since(Anchor, Late, o, Delta(r) + o)
                       /\ Until(offset, slew, o, Delta(r) + o)
  BY DEF Dated
<1> DEFINE s == Delta(r) + o
<1>2. s \in Int  BY DEF Delta, Rec
<1>3. /\ Anchor.begin \in Int /\ Late \in Int /\ offset \in Int /\ slew \in Int
      /\ rate[1] \in Int /\ rate[2] \in Int
  BY AnchorTypes, ClockTypes
<1> HIDE DEF s
<1>4. Since(Anchor, Late', o, s)  BY <1>1, <1>3, SinceLater DEF s
<1>5. Since(Anchor, Late, o, s)'  BY <1>4 DEF Since, Drift, s, Delta
<1>6. Until(offset', slew', o, s)  BY <1>1, <1>2, <1>3 DEF Until, Drift, s
<1>7. Until(offset, slew, o, s)'  BY <1>6 DEF Until, Drift, s, Delta
<1> QED  BY <1>5, <1>7 DEF s, Delta

\* The anchor keeps what lies past it.
LEMMA AnchorKept ==
  ASSUME TypeOK, AnchorInv, Drift, Kept, journal' = journal
  PROVE  AnchorInv'
<1>1. SUFFICES ASSUME Anchored', SameClock'
               PROVE  /\ Since(Anchor, Late, offset, slew)'
                      /\ \A k \in 1..Len(journal) : Anchor'.begin <= journal[k].mono => Dated(journal[k])'
  BY DEF AnchorInv
<1>2. /\ Anchored /\ SameClock /\ Anchor'.begin = Anchor.begin /\ Anchor'.before = Anchor.before
      /\ Late' \in Int /\ Late <= Late'
  BY <1>1 DEF Kept
<1>3. Since(Anchor, Late, offset, slew)'
  <2>1. Since(Anchor, Late, offset, slew)  BY <1>2 DEF AnchorInv
  <2>2. /\ Anchor.begin \in Int /\ Anchor.before.mono \in Int /\ Anchor.before.wall \in Int
        /\ Late \in Int /\ offset \in Int /\ slew \in Int /\ rate[1] \in Int /\ rate[2] \in Int
    BY <1>2, AnchorTypes, ClockTypes
  <2>3. Since(Anchor, Late', offset, slew)  BY <1>2, <2>1, <2>2, SinceLater
  <2>4. /\ rate[1] >= 0 => offset' >= Anchor.begin - Late'
        /\ rate[1] < 0 => offset' <= Anchor.begin - Anchor.before.mono
        /\ rate[2] >= 0 => slew' >= Anchor.before.wall - Anchor.before.mono
        /\ rate[2] <= 0 => slew' <= Anchor.before.wall - Anchor.before.mono
    BY <1>2, <2>2, <2>3 DEF Since, Drift
  <2> QED  BY <1>2, <2>4 DEF Since, Drift
<1>4. ASSUME NEW k \in 1..Len(journal), Anchor'.begin <= journal[k].mono
      PROVE  Dated(journal[k])'
  <2>1. Dated(journal[k])  BY <1>2, <1>4 DEF AnchorInv
  <2>2. journal[k] \in Rec  BY ElementOfSeq DEF TypeOK
  <2>3. \E o \in Int : /\ Since(Anchor, Late, o, Delta(journal[k]) + o)'
                       /\ Until(offset, slew, o, Delta(journal[k]) + o)'
    <3> DEFINE r == journal[k]
    <3>1. r \in Rec /\ Dated(r) /\ r' = r  BY <2>1, <2>2
    <3> HIDE DEF r
    <3>2. PICK q \in Rec : q = r  BY <3>1
    <3>3. Dated(q)  BY <3>1, <3>2 DEF Dated, Delta
    <3>4. \E o \in Int : /\ Since(Anchor, Late, o, Delta(q) + o)'
                         /\ Until(offset, slew, o, Delta(q) + o)'
      BY <1>2, <3>3, DatedKept
    <3> QED  BY <3>1, <3>2, <3>4 DEF r, Delta
  <2> QED  BY <2>3 DEF Dated
<1> QED  BY <1>3, <1>4

\* A record of the current moment is dated.
LEMMA DatedNow ==
  ASSUME TypeOK, Since(Anchor, Late, offset, slew), NEW r, r.mono = Mono, r.wall = Wall
  PROVE  Dated(r)
<1>1. offset \in Int /\ slew \in Int /\ Delta(r) + offset = slew
  BY ClockTypes DEF Delta
<1>2. Until(offset, slew, offset, slew)  BY <1>1 DEF Until
<1> QED  BY <1>1, <1>2 DEF Dated

\* Every step keeps what lies past the anchor.
LEMMA AnchorStep ==
  ASSUME TypeOK, TypeOK', FenceInv, ReadingInv, AnchorInv, [Next]_vars
  PROVE  AnchorInv'
<1> USE DEF clockVars, processVars
<1>1. CASE Tick
  <2>1. Drift  BY <1>1, TickClocks DEF Drift
  <2>2. UNCHANGED <<process, journal, pc, probe, start>>  BY <1>1 DEF Tick
  <2>3. Anchored' = Anchored /\ SameClock' = SameClock /\ Anchor' = Anchor
    BY <2>2 DEF Anchored, ClockRead, SameClock, Anchor
  <2>4. Anchored => Late' \in Int /\ Late <= Late'
    <3>1. CASE pc = "start"  BY <1>1, <2>2, <3>1, TickClocks DEF Late
    <3>2. CASE pc # "start"
      <4>1. Anchored => Late \in Int  BY AnchorTypes
      <4>2. Late' = Late  BY <2>2, <3>2 DEF Late
      <4> QED  BY <4>1, <4>2
    <3> QED  BY <3>1, <3>2
  <2>5. Kept  BY <2>3, <2>4 DEF Kept
  <2> QED  BY <2>1, <2>2, <2>5, AnchorKept
<1>2. ASSUME UNCHANGED <<now, offset, slew, rate>>  PROVE Drift
  BY <1>2, ClockTypes DEF Drift
<1>3. CASE Append_
  <2>1. /\ UNCHANGED <<now, offset, slew, rate, pc, probe, start>> /\ process'.domain = process.domain
    BY <1>3 DEF Append_, TypeOK
  <2>2. /\ Anchored' = Anchored /\ SameClock' = SameClock /\ Anchor' = Anchor /\ Late' = Late
    BY <2>1 DEF Anchored, ClockRead, SameClock, Anchor, Late
  <2>3. SUFFICES ASSUME Anchored, SameClock, NEW k \in 1..Len(journal'), Anchor.begin <= journal'[k].mono
                 PROVE  Dated(journal[k])'
    BY <2>1, <2>2 DEF AnchorInv, Since
  <2>4. Dated(journal'[k])
    <3>1. CASE k \in 1..Len(journal) /\ journal'[k] = journal[k]  BY <2>3, <3>1 DEF AnchorInv
    <3>2. CASE journal'[k] = Record
      <4>1. Since(Anchor, Late, offset, slew)  BY <2>3 DEF AnchorInv
      <4> QED  BY <3>2, <4>1, RecordType, DatedNow
    <3>3. CASE journal' = journal  BY <2>3, <3>1, <3>3
    <3>4. CASE journal' = Append(journal, Record)
      <4>1. /\ Len(journal') = Len(journal) + 1 /\ \A m \in 1..Len(journal) : journal'[m] = journal[m]
            /\ journal'[Len(journal) + 1] = Record
        BY <3>4, RecordType, AppendProperties DEF TypeOK
      <4> QED  BY <2>3, <3>1, <3>2, <4>1, JournalTypes
    <3> QED  BY <1>3, <3>3, <3>4 DEF Append_
  <2> QED  BY <2>1, <2>2, <2>4 DEF Dated, Since, Until, Delta
<1>4. CASE Checkpoint \/ UNCHANGED vars
  <2>1. UNCHANGED <<now, offset, slew, rate, journal, pc, probe, start>> /\ process'.domain = process.domain
    BY <1>4 DEF Checkpoint, vars, TypeOK
  <2>2. /\ Anchored' = Anchored /\ SameClock' = SameClock /\ Anchor' = Anchor /\ Late' = Late
    BY <2>1 DEF Anchored, ClockRead, SameClock, Anchor, Late
  <2>3. Kept  BY <2>2, AnchorTypes DEF Kept
  <2> QED  BY <1>2, <2>1, <2>3, AnchorKept
<1>5. CASE Restart
  <2>1. /\ Len(journal') = 0 /\ probe' = NoProbe /\ probe = NoProbe /\ UNCHANGED <<now, slew, rate, pc, start>>
        /\ \/ process'.domain = process.domain /\ offset' = offset
           \/ process'.domain = process.domain + 1
    BY <1>5 DEF Restart
  <2>2. ~ClockRead' /\ ~ClockRead  BY <2>1, ProbeTypes DEF ClockRead, NoProbe
  <2>3. SUFFICES ASSUME Anchored', SameClock'  PROVE Since(Anchor, Late, offset, slew)'
    BY <2>1 DEF AnchorInv
  <2>4. pc \in {"open", "end"} /\ start.domain = process'.domain  BY <2>1, <2>2, <2>3 DEF Anchored, SameClock
  <2>5. process'.domain = process.domain /\ offset' = offset
    <3>1. start.domain <= process.domain /\ process.domain \in Nat  BY <2>4 DEF FenceInv, TypeOK
    <3> QED  BY <2>1, <2>4, <3>1
  <2>6. Since(Anchor, Late, offset, slew)
    BY <2>4, <2>5 DEF AnchorInv, Anchored, SameClock
  <2>7. Anchor' = Anchor /\ Late' = Late  BY <2>1, <2>4 DEF Anchor, Late
  <2> QED  BY <2>1, <2>5, <2>6, <2>7 DEF Since
<1>6. CASE Call \/ Close
  <2>1. UNCHANGED <<now, offset, slew, rate, journal, process, start>>
    BY <1>6 DEF Call, Close
  <2>2. Anchored' => /\ Anchored /\ pc # "start" /\ pc' # "start"
    BY <1>6 DEF Call, Close, Anchored, ClockRead, Probing
  <2>3. Anchored' => Anchor' = Anchor /\ Late' = Late /\ (SameClock' => SameClock)
    BY <2>1, <2>2 DEF Anchor, Late, SameClock
  <2>4. Anchored => Late \in Int /\ Late <= Late
    <3>1. Anchored => Late \in Int  BY AnchorTypes
    <3> QED  BY <3>1
  <2>5. Kept  BY <2>2, <2>3, <2>4 DEF Kept
  <2> QED  BY <1>2, <2>1, <2>5, AnchorKept
<1>7. CASE ReadCurrent
  <2>1. /\ UNCHANGED <<now, offset, slew, rate, journal, process, pc, start>>
        /\ probe'.before = probe.before /\ probe'.begin = Mono /\ probe # NoProbe
        /\ probe.before.mono \in Int /\ probe.before.wall \in Int
    BY <1>7, ProbeTypes DEF ReadCurrent
  <2>2. CASE pc = "start"
    <3>1. Anchor' = probe' /\ Late' = now  BY <2>1, <2>2 DEF Anchor, Late
    <3>2. /\ probe.before.mono <= now
          /\ rate[2] >= 0 => probe.before.wall - probe.before.mono <= slew
          /\ rate[2] <= 0 => slew <= probe.before.wall - probe.before.mono
      BY <2>1 DEF ReadingInv
    <3>3. Since(Anchor, Late, offset, slew)'
      <4>1. /\ rate[1] >= 0 => offset >= Mono - now
            /\ rate[1] < 0 => offset <= Mono - probe.before.mono
            /\ rate[2] >= 0 => slew >= probe.before.wall - probe.before.mono
            /\ rate[2] <= 0 => slew <= probe.before.wall - probe.before.mono
        BY <2>1, <3>2, ClockTypes
      <4> QED  BY <2>1, <3>1, <4>1 DEF Since
    <3>4. ASSUME NEW k \in 1..Len(journal), Mono <= journal[k].mono
          PROVE  Dated(journal[k])'
      <4>1. journal[k].mono = Mono /\ journal[k].wall = Wall
        <5>1. journal[k].mono \in Int /\ Mono \in Int  BY ClockTypes, JournalTypes
        <5>2. journal[k].mono < Mono \/ (journal[k].mono = Mono /\ journal[k].wall = Wall)
          BY DEF ReadingInv
        <5> QED  BY <3>4, <5>1, <5>2
      <4>2. Delta(journal[k]) + offset = slew /\ offset \in Int /\ slew \in Int
        BY <4>1, ClockTypes DEF Delta
      <4>3. Until(offset, slew, offset, slew)  BY <4>2 DEF Until
      <4>4. /\ Since(Anchor, Late, offset, Delta(journal[k]) + offset)'
            /\ Until(offset, slew, offset, Delta(journal[k]) + offset)'
        BY <2>1, <3>3, <4>2, <4>3 DEF Since, Until, Delta
      <4> QED  BY <2>1, <4>2, <4>4 DEF Dated
    <3> QED  BY <2>1, <3>1, <3>3, <3>4 DEF AnchorInv
  <2>3. CASE pc # "start"
    <3>1. Anchored' = Anchored /\ Anchor' = Anchor /\ Late' = Late /\ SameClock' = SameClock
      BY <2>1, <2>3 DEF Anchored, Anchor, Late, SameClock
    <3>2. Kept  BY <3>1, AnchorTypes DEF Kept
    <3> QED  BY <1>2, <2>1, <3>2, AnchorKept
  <2> QED  BY <2>2, <2>3
<1>8. CASE ReadJournal
  <2>1. /\ UNCHANGED <<now, offset, slew, rate, journal, process, pc, start>>
        /\ probe'.before = probe.before /\ probe'.begin = probe.begin /\ ClockRead
    BY <1>8 DEF ReadJournal, ClockRead
  <2>2. /\ Anchored' => Anchored
        /\ Anchor'.begin = Anchor.begin /\ Anchor'.before = Anchor.before
        /\ Late' = Late /\ SameClock' = SameClock
    BY <2>1 DEF Anchored, Anchor, Late, SameClock
  <2>3. Kept  BY <2>2, AnchorTypes DEF Kept
  <2> QED  BY <1>2, <2>1, <2>3, AnchorKept
<1>9. CASE Return
  <2>1. UNCHANGED <<now, offset, slew, rate, journal, process>> /\ ClockRead
    BY <1>9 DEF Return, ClockRead
  <2>2. CASE pc = "start"
    <3>1. pc' = "open" /\ start' = Returned  BY <1>9, <2>2 DEF Return
    <3>2. /\ Anchored /\ SameClock /\ Anchor = probe /\ Late = now
          /\ Anchor' = start' /\ Late' = start'.after.mono
      BY <2>1, <2>2, <3>1 DEF Anchored, SameClock, Anchor, Late
    <3>3. start'.begin = probe.begin /\ start'.before = probe.before /\ start'.after.mono = now
      BY <3>1 DEF Returned, HostClock
    <3>4. Kept  BY <3>2, <3>3, AnchorTypes DEF Kept
    <3> QED  BY <1>2, <2>1, <3>4, AnchorKept
  <2>3. CASE pc # "start"
    <3>1. pc' = "closed"  BY <1>9, <2>3 DEF Return
    <3>2. ~Anchored'  BY <3>1 DEF Anchored
    <3> QED  BY <3>2 DEF AnchorInv
  <2> QED  BY <2>2, <2>3
<1> QED  BY <1>1, <1>3, <1>4, <1>5, <1>6, <1>7, <1>8, <1>9 DEF Next, Done

(***************************************************************************)
(* The rows of the end probe.                                              *)
(***************************************************************************)

\* A row stays dated while the probe goes on.
LEMMA RowKept ==
  ASSUME TypeOK, Tick, NEW r \in Rec, start.begin \in Int, probe.begin \in Int,
         RowDated(r, probe, now, slew)
  PROVE  RowDated(r, probe, now, slew)'
<1>1. PICK o \in Int :
        /\ Since(start, start.after.mono, o, Delta(r) + o)
        /\ rate[1] >= 0 => o <= probe.finish - probe.before.mono
        /\ rate[1] < 0 => o >= probe.begin - now
        /\ rate[2] >= 0 => Delta(r) + o <= slew
        /\ rate[2] <= 0 => Delta(r) + o >= slew
  BY DEF RowDated
<1> DEFINE s == Delta(r) + o
<1>2. s \in Int  BY DEF Delta, Rec
<1>3. /\ now \in Int /\ slew \in Int /\ now' \in Int /\ slew' \in Int /\ now <= now' /\ rate' = rate
      /\ rate[1] \in Int /\ rate[2] \in Int
      /\ rate[2] >= 0 => slew <= slew'
      /\ rate[2] <= 0 => slew' <= slew
  BY ClockTypes, TickClocks
<1>4. start' = start /\ probe' = probe  BY DEF Tick
<1> HIDE DEF s
<1>5. /\ rate[1] < 0 => o >= probe.begin - now'
      /\ rate[2] >= 0 => s <= slew'
      /\ rate[2] <= 0 => s >= slew'
  BY <1>1, <1>2, <1>3 DEF s
<1>6. Since(start, start.after.mono, o, s)'  BY <1>1, <1>3, <1>4 DEF Since, s, Delta
<1> QED  BY <1>1, <1>3, <1>4, <1>5, <1>6 DEF RowDated, s, Delta

\* A line the end probe takes is a dated row.
LEMMA RowTaken ==
  ASSUME TypeOK, FenceInv, ReadingInv, AnchorInv, ReadJournal, pc = "end",
         start.domain = process.domain, NEW k \in 1..Len(journal), start.begin <= journal[k].mono
  PROVE  RowDated(journal[k], probe', now, slew)
<1>1. Anchored /\ SameClock /\ Anchor = start /\ Late = start.after.mono
  BY DEF Anchored, SameClock, Anchor, Late
<1>2. Dated(journal[k])  BY <1>1 DEF AnchorInv
<1>3. PICK o \in Int : /\ Since(start, start.after.mono, o, Delta(journal[k]) + o)
                       /\ Until(offset, slew, o, Delta(journal[k]) + o)
  BY <1>1, <1>2 DEF Dated
<1>4. /\ probe'.before = probe.before /\ probe'.begin = probe.begin /\ probe'.finish = Mono
      /\ ClockRead /\ probe # NoProbe /\ probe.before.mono \in Int /\ probe.begin \in Int
  BY ProbeTypes DEF ReadJournal, ClockRead
<1>5. probe.before.mono <= now /\ probe.begin <= Mono  BY <1>4 DEF ReadingInv
<1>6. /\ now \in Int /\ offset \in Int /\ Mono = now + offset /\ rate[1] \in Int
  BY ClockTypes
<1>7. /\ rate[1] >= 0 => o <= offset
      /\ rate[1] <= 0 => o >= offset
  BY <1>3 DEF Until
<1>8. /\ rate[1] >= 0 => o <= probe'.finish - probe'.before.mono
      /\ rate[1] < 0 => o >= probe'.begin - now
  BY <1>4, <1>5, <1>6, <1>7
<1> QED  BY <1>3, <1>8 DEF RowDated, Until

\* Rows are records.
LEMMA RowsType ==
  ASSUME NEW f \in RowsOf, NEW r \in Range(f)
  PROVE  r \in Rec
<1>1. PICK D \in SUBSET Nat : f \in [D -> Rec]  BY DEF RowsOf
<1> QED  BY <1>1 DEF Range

\* Every step keeps the rows dated.
LEMMA RowStep ==
  ASSUME TypeOK, FenceInv, ReadingInv, AnchorInv, RowInv, [Next]_vars
  PROVE  RowInv'
<1> USE DEF clockVars, processVars
<1>1. CASE pc # "closed" /\ Tick
  <2>1. UNCHANGED <<rate, pc, probe, start, end>>  BY <1>1 DEF Tick
  <2>2. SUFFICES ASSUME pc = "end", probe.step = "read", start.domain = probe.domain,
                        NEW r \in Range(probe.rows), start.begin <= r.mono
                 PROVE  RowDated(r, probe, now, slew)'
    BY <1>1, <2>1 DEF RowInv
  <2>3. start \in Fence /\ probe \in Read  BY <2>2, ProbeTypes DEF TypeOK
  <2>4. start.begin \in Int /\ probe.begin \in Int /\ probe.rows \in RowsOf
    BY <2>3, FenceTypes DEF Read
  <2>5. r \in Rec  BY <2>2, <2>4, RowsType
  <2>6. RowDated(r, probe, now, slew)  BY <2>2 DEF RowInv
  <2> QED  BY <1>1, <2>4, <2>5, <2>6, RowKept
<1>2. CASE (pc # "closed" /\ (Append_ \/ Checkpoint)) \/ UNCHANGED vars
  <2>1. UNCHANGED <<now, offset, slew, rate, pc, probe, start, end>>
    BY <1>2 DEF Append_, Checkpoint, vars
  <2> QED  BY <2>1 DEF RowInv, RowDated, Since, Delta
<1>3. CASE pc # "closed" /\ Restart
  <2>1. pc' # "closed" /\ probe'.step # "read"  BY <1>3 DEF Restart, NoProbe
  <2> QED  BY <2>1 DEF RowInv
<1>4. CASE Call \/ ReadCurrent
  <2>1. pc' # "closed"  BY <1>4, ProbeTypes DEF Call, ReadCurrent, Probing
  <2>2. probe'.step # "read"  BY <1>4 DEF Call, ReadCurrent
  <2> QED  BY <2>1, <2>2 DEF RowInv
<1>5. CASE ReadJournal
  <2>1. /\ UNCHANGED <<now, offset, slew, rate, pc, start>> /\ probe'.rows = Rows
        /\ probe'.domain = process.domain /\ pc # "closed"
    BY <1>5, ProbeTypes DEF ReadJournal
  <2>2. SUFFICES ASSUME pc = "end", start.domain = process.domain,
                        NEW r \in Range(Rows), start.begin <= r.mono
                 PROVE  RowDated(r, probe, now, slew)'
    BY <2>1 DEF RowInv
  <2>3. PICK k \in 1..Len(journal) : r = journal[k]  BY <2>2, RowsFacts
  <2>4. RowDated(journal[k], probe', now, slew)  BY <1>5, <2>2, <2>3, RowTaken
  <2> QED  BY <2>1, <2>3, <2>4 DEF RowDated, Since, Delta
<1>6. CASE Return
  <2>1. probe'.step # "read" /\ probe.step = "read" /\ UNCHANGED <<now, offset, slew, rate>>
    BY <1>6 DEF Return, NoProbe
  <2>2. CASE pc = "start"
    <3>1. pc' = "open"  BY <1>6, <2>2 DEF Return
    <3> QED  BY <2>1, <3>1 DEF RowInv
  <2>3. CASE pc # "start"
    <3>1. pc = "end"  BY <2>1, <2>3, ProbeTypes
    <3>2. /\ start' = start /\ end'.begin = probe.begin /\ end'.before = probe.before
          /\ end'.finish = probe.finish /\ end'.rows = probe.rows /\ end'.domain = probe.domain
          /\ end'.after.mono = now /\ end'.after.wall = Wall
      BY <1>6, <2>3 DEF Return, Returned, HostClock
    <3>3. end'.after.wall - end'.after.mono = slew  BY <3>2, ClockTypes
    <3>4. SUFFICES ASSUME start.domain = probe.domain, NEW r \in Range(probe.rows), start.begin <= r.mono
                   PROVE  RowDated(r, end, end.after.mono, end.after.wall - end.after.mono)'
      BY <2>1, <3>2 DEF RowInv
    <3>5. RowDated(r, probe, now, slew)  BY <2>1, <3>1, <3>4 DEF RowInv
    <3> QED  BY <2>1, <3>2, <3>3, <3>5 DEF RowDated, Since, Delta
  <2> QED  BY <2>2, <2>3
<1>7. CASE Close
  <2>1. pc = "open" /\ pc' = "end" /\ probe' = probe  BY <1>7 DEF Close
  <2>2. probe.step # "read"  BY <2>1, ProbeTypes
  <2> QED  BY <2>1, <2>2 DEF RowInv
<1> QED  BY <1>1, <1>2, <1>3, <1>4, <1>5, <1>6, <1>7 DEF Next, Done

(***************************************************************************)
(* Calibration.                                                            *)
(***************************************************************************)

\* Rounding down to a multiple.
LEMMA Multiple ==
  ASSUME NEW m \in Int, NEW u \in Nat \ {0}
  PROVE  /\ (m \div u) * u \in Int
         /\ (m \div u) * u <= m /\ m < (m \div u) * u + u
<1>1. m \div u \in Int /\ m % u \in 0..(u - 1) /\ m = u * (m \div u) + (m % u)  OBVIOUS
<1> DEFINE q == m \div u
           p == q * u
<1>2. q \in Int /\ p \in Int /\ u * q = p  BY <1>1
<1> HIDE DEF q, p
<1>3. m % u \in Int /\ 0 <= m % u /\ m % u < u /\ m = p + (m % u)  BY <1>1, <1>2 DEF q
<1> QED  BY <1>2, <1>3 DEF p, q

\* The middle of an interval in whole microseconds is close to all of it.
LEMMA Middle ==
  ASSUME NEW low \in Int, NEW high \in Int, NEW w \in Int, low <= w, w <= high,
         NEW u \in Nat \ {0}
  PROVE  LET at == (((low + high) \div 2) \div u) * u IN
         /\ 2 * (w - at) <= high - low + 2 * u
         /\ 2 * (at - w) <= high - low + 2 * u
<1> DEFINE m == (low + high) \div 2
           at == (m \div u) * u
<1>1. m \in Int /\ 2 * m <= low + high /\ low + high <= 2 * m + 1  OBVIOUS
<1> HIDE DEF m
<1>2. at \in Int /\ at <= m /\ m < at + u  BY <1>1, Multiple
<1> HIDE DEF at
<1>3. 2 * (w - at) <= high - low + 2 * u  BY <1>1, <1>2
<1>4. 2 * (at - w) <= high - low + 2 * u  BY <1>1, <1>2
<1> QED  BY <1>3, <1>4 DEF at, m

LEMMA Least ==
  ASSUME NEW a \in Int, NEW b \in Int
  PROVE  Smaller(a, b) \in Int /\ Smaller(a, b) <= a /\ Smaller(a, b) <= b
BY DEF Smaller

LEMMA Greatest ==
  ASSUME NEW a \in Int, NEW b \in Int
  PROVE  Larger(a, b) \in Int /\ a <= Larger(a, b) /\ b <= Larger(a, b)
BY DEF Larger

\* The wall clock at a record's moment lies in the interval calibrate_record
\* computes.
LEMMA IntervalIsSound ==
  ASSUME IInv, pc = "closed", NEW r \in Range(end.rows), Bracketed(r)
  PROVE  /\ r \in Rec /\ Low(r) \in Int /\ High(r) \in Int
         /\ Low(r) <= r.wall /\ r.wall <= High(r)
<1>1. TypeOK /\ ReadingInv /\ RowInv  BY DEF IInv
<1>2. start \in Fence /\ end \in Fence  BY <1>1 DEF TypeOK
<1> DEFINE sb == start.before.mono
           sa == start.after.mono
           eb == end.before.mono
           ea == end.after.mono
           s1 == start.before.wall - start.before.mono
           s2 == start.after.wall - start.after.mono
           e1 == end.before.wall - end.before.mono
           e2 == end.after.wall - end.after.mono
           g == start.begin
           f == start.finish
           h == end.begin
           k == end.finish
<1>3. /\ sb \in Int /\ sa \in Int /\ eb \in Int /\ ea \in Int /\ s1 \in Int /\ s2 \in Int
      /\ e1 \in Int /\ e2 \in Int /\ g \in Int /\ f \in Int /\ h \in Int /\ k \in Int
  <2>1. /\ sb \in Int /\ sa \in Int /\ start.before.wall \in Int /\ start.after.wall \in Int
        /\ g \in Int /\ f \in Int
    BY <1>2, FenceTypes
  <2>2. /\ eb \in Int /\ ea \in Int /\ end.before.wall \in Int /\ end.after.wall \in Int
        /\ h \in Int /\ k \in Int
    BY <1>2, FenceTypes
  <2> QED  BY <2>1, <2>2
<1>4. r \in Rec  BY <1>2, FenceTypes, RowsType
<1>5. RowDated(r, end, end.after.mono, end.after.wall - end.after.mono)
  BY <1>1 DEF RowInv, Bracketed
<1>6. PICK o \in Int :
        /\ Since(start, start.after.mono, o, Delta(r) + o)
        /\ rate[1] >= 0 => o <= k - eb
        /\ rate[1] < 0 => o >= h - ea
        /\ rate[2] >= 0 => Delta(r) + o <= e2
        /\ rate[2] <= 0 => Delta(r) + o >= e2
  BY <1>5 DEF RowDated
<1> DEFINE s == Delta(r) + o
<1>7. s \in Int /\ r.wall \in Int /\ r.mono \in Int /\ r.wall = r.mono + s - o
  BY <1>4 DEF Delta, Rec
<1>8. /\ rate[1] >= 0 => o >= g - sa
      /\ rate[1] < 0 => o <= g - sb
      /\ rate[2] >= 0 => s >= s1
      /\ rate[2] <= 0 => s <= s1
  BY <1>6 DEF Since
<1>9. /\ rate[1] >= 0 => o <= k - eb
      /\ rate[1] < 0 => o >= h - ea
      /\ rate[2] >= 0 => s <= e2
      /\ rate[2] <= 0 => s >= e2
  BY <1>6
<1>10. g <= f  BY <1>1 DEF ReadingInv
<1>11. rate[1] \in Int /\ rate[2] \in Int  BY <1>1, ClockTypes
<1>12. /\ OffsetLow = Smaller(sb - f, eb - k)
       /\ OffsetHigh = Larger(sa - g, ea - h)
       /\ WallLow = Smaller(Smaller(s1, s2), Smaller(e1, e2)) - Resolution
       /\ WallHigh = Larger(Larger(s1, s2), Larger(e1, e2)) + Resolution
  BY DEF OffsetLow, OffsetHigh, WallLow, WallHigh
<1> HIDE DEF sb, sa, eb, ea, s1, s2, e1, e2, g, f, h, k, s
<1>13. OffsetLow \in Int /\ OffsetLow <= -o
  <2>1. OffsetLow \in Int /\ OffsetLow <= sb - f /\ OffsetLow <= eb - k
    BY <1>3, <1>12, Least
  <2> QED  BY <1>3, <1>8, <1>9, <1>10, <1>11, <2>1
<1>14. OffsetHigh \in Int /\ -o <= OffsetHigh
  <2>1. OffsetHigh \in Int /\ sa - g <= OffsetHigh /\ ea - h <= OffsetHigh
    BY <1>3, <1>12, Greatest
  <2> QED  BY <1>3, <1>8, <1>9, <1>11, <2>1
<1>15. WallLow \in Int /\ WallLow <= s
  <2>1. Resolution \in Nat  BY ClockAssumption
  <2> DEFINE a == Smaller(s1, s2)
             b == Smaller(e1, e2)
             c == Smaller(a, b)
  <2>2. a \in Int /\ a <= s1 /\ b \in Int /\ b <= e2  BY <1>3, Least
  <2>3. WallLow = c - Resolution  BY <1>12
  <2> HIDE DEF a, b
  <2>4. c \in Int /\ c <= a /\ c <= b  BY <2>2, Least
  <2> HIDE DEF c
  <2>5. WallLow \in Int /\ WallLow <= s1 /\ WallLow <= e2
    BY <1>3, <2>1, <2>2, <2>3, <2>4
  <2> QED  BY <1>3, <1>7, <1>8, <1>9, <1>11, <2>5
<1>16. WallHigh \in Int /\ s <= WallHigh
  <2>1. Resolution \in Nat  BY ClockAssumption
  <2> DEFINE a == Larger(s1, s2)
             b == Larger(e1, e2)
             c == Larger(a, b)
  <2>2. a \in Int /\ s1 <= a /\ b \in Int /\ e2 <= b  BY <1>3, Greatest
  <2>3. WallHigh = c + Resolution  BY <1>12
  <2> HIDE DEF a, b
  <2>4. c \in Int /\ a <= c /\ b <= c  BY <2>2, Greatest
  <2> HIDE DEF c
  <2>5. WallHigh \in Int /\ s1 <= WallHigh /\ e2 <= WallHigh
    BY <1>3, <2>1, <2>2, <2>3, <2>4
  <2> QED  BY <1>3, <1>7, <1>8, <1>9, <1>11, <2>5
<1>17. Low(r) \in Int /\ Low(r) <= r.wall  BY <1>7, <1>13, <1>15 DEF Low
<1>18. High(r) \in Int /\ r.wall <= High(r)  BY <1>7, <1>14, <1>16 DEF High
<1> QED  BY <1>4, <1>17, <1>18

(***************************************************************************)
(* The invariant and what it implies.                                      *)
(***************************************************************************)

LEMMA InitInv ==
  ASSUME Init
  PROVE  IInv
<1>1. TypeOK
  <2>1. offset \in Int /\ rate \in {-1, 0, 1} \X {-1, 0, 1}  BY ClockAssumption DEF Init
  <2>2. journal \in Seq(Rec) /\ log \in Seq(Entry)  BY EmptySeq DEF Init
  <2> QED  BY <2>1, <2>2 DEF Init, TypeOK
<1>2. /\ pc = "start" /\ probe = NoProbe /\ Len(journal) = 0 /\ Len(log) = 0
      /\ ~process.appending /\ process.seq = 0 /\ current.seq = 0
      /\ current.instance = process.instance
  BY DEF Init
<1>3. ~ClockRead /\ probe.step # "read"  BY <1>2 DEF ClockRead, NoProbe
<1>4. JournalInv
  <2>1. Smaller(0, Capacity) = 0  BY ClockAssumption DEF Smaller
  <2> QED  BY <1>2, <2>1 DEF JournalInv
<1>5. LogInv /\ FenceInv  BY <1>2, <1>3 DEF LogInv, FenceInv
<1>6. CapturedInv /\ ReadingInv /\ AnchorInv /\ RowInv
  BY <1>2, <1>3 DEF CapturedInv, ReadingInv, AnchorInv, RowInv, Anchored
<1> QED  BY <1>1, <1>4, <1>5, <1>6 DEF IInv

LEMMA StepInv ==
  ASSUME IInv, [Next]_vars
  PROVE  IInv'
<1>1. /\ TypeOK /\ JournalInv /\ LogInv /\ FenceInv /\ CapturedInv /\ ReadingInv /\ AnchorInv
      /\ RowInv
  BY DEF IInv
<1>2. TypeOK' /\ JournalInv' /\ LogInv'  BY <1>1, TypeStep, JournalStep, LogStep
<1>3. FenceInv' /\ CapturedInv'  BY <1>1, FenceStep, CapturedStep
<1>4. ReadingInv' /\ AnchorInv' /\ RowInv'  BY <1>1, <1>2, ReadingStep, AnchorStep, RowStep
<1> QED  BY <1>2, <1>3, <1>4 DEF IInv

\* The invariant of the process, its journal, the probes and the clocks.
THEOREM Inductive == Spec => []IInv
<1>1. Init => IInv  BY InitInv
<1>2. IInv /\ [Next]_vars => IInv'  BY StepInv
<1> QED  BY <1>1, <1>2, PTL DEF Spec

\* Every variable keeps its type (EvidenceBuffer, Cluster.probe).
THEOREM TypeCorrect == Spec => []TypeOK
<1>1. IInv => TypeOK  BY DEF IInv
<1> QED  BY <1>1, Inductive, PTL

\* Valid fences mean that the capture lost no record begun and checkpointed
\* while it was open, whatever the capacity, the number of records, restarts
\* and interleavings (validate_fence, JOURNAL_PROBE, EvidenceBuffer.append).
THEOREM CapturesAreClosed == Spec => []CaptureIsClosed
<1>1. ASSUME IInv  PROVE CaptureIsClosed
  <2>1. TypeOK /\ CapturedInv  BY <1>1 DEF IInv
  <2>2. DOMAIN log = 1..Len(log)  BY <2>1, LenProperties DEF TypeOK
  <2>3. SUFFICES ASSUME pc = "closed", FenceValid
                 PROVE  \A i \in 1..Len(log) :
                          log[i].began /\ log[i].ended => log[i].record \in Range(end.rows)
    BY <2>2 DEF CaptureIsClosed
  <2>4. start.instance = end.instance /\ ~end.overflow  BY <2>3 DEF FenceValid
  <2> QED  BY <2>1, <2>3, <2>4 DEF CapturedInv, HasAll
<1> QED  BY <1>1, Inductive, PTL

\* The calibrated time of every captured record between the probes is within its
\* uncertainty of the host's wall clock at the record's moment, for every
\* resolution, granule, drift and length of the probes (calibrate_record).
THEOREM CalibrationsAreSound == Spec => []CalibrationIsSound
<1>1. ASSUME IInv  PROVE CalibrationIsSound
  <2>1. SUFFICES ASSUME pc = "closed", NEW r \in Range(end.rows), Bracketed(r)
                 PROVE  /\ 2 * (r.wall - RecordedAt(r)) <= TwiceUncertainty(r)
                        /\ 2 * (RecordedAt(r) - r.wall) <= TwiceUncertainty(r)
    BY DEF CalibrationIsSound
  <2>2. /\ r \in Rec /\ Low(r) \in Int /\ High(r) \in Int
        /\ Low(r) <= r.wall /\ r.wall <= High(r)
    BY <1>1, <2>1, IntervalIsSound
  <2>3. r.wall \in Int /\ Micro \in Nat \ {0}  BY <2>2, ClockAssumption DEF Rec
  <2> QED  BY <2>2, <2>3, Middle DEF RecordedAt, TwiceUncertainty
<1> QED  BY <1>1, Inductive, PTL

(***************************************************************************)
(* The judgement of a command's records (ConformanceVerdicts).             *)
(***************************************************************************)

Supplied ==
  [id : Nat, component : {"validator", "writer"},
   action : {"validation_decided", "executor_admitted", "write_initiated", "writer_result"},
   value : Values, decision : {"none", "approve", "reject"}, ticket : Nat, verified : BOOLEAN,
   attempt : Nat, outcome : {"none", "completed", "unstamped", "refused", "blamed", "unknown"},
   mono : Nat, instance : Nat, domain : Nat, at : Int, bounded : BOOLEAN]

SuppliedTypes ==
  /\ time \in Nat /\ records \in Seq(Supplied) /\ instance \in Nat /\ clock \in Clocks

\* Records are numbered and follow each other in time; a calibrated time is
\* within its bound.
TimesInv ==
  \A i \in 1..Len(records) :
    /\ records[i].id = i /\ records[i].mono <= time
    /\ -Bound <= records[i].at - records[i].mono /\ records[i].at - records[i].mono <= Bound
    /\ \A j \in 1..Len(records) : i <= j => records[i].mono <= records[j].mono

\* An approval issues its own ticket, and the writer's tickets were issued.
TicketInv ==
  \A i \in 1..Len(records) :
    /\ records[i].decision = "approve" => records[i].ticket = i
    /\ records[i].action # "validation_decided" => records[i].component = "writer"
    /\ records[i].component = "writer" /\ records[i].ticket # 0 => records[i].ticket < i

JudgeInv == SuppliedTypes /\ TimesInv /\ TicketInv

\* What the next record is like.
NextRecord(r) ==
  /\ r \in Supplied /\ r.id = Len(records) + 1 /\ r.mono = time
  /\ r.decision = "approve" => r.ticket = r.id
  /\ r.action # "validation_decided" => r.component = "writer"
  /\ r.component = "writer" /\ r.ticket # 0 => r.ticket < r.id

\* Elements of the records are records.
LEMMA SuppliedElements ==
  ASSUME SuppliedTypes
  PROVE  /\ Len(records) \in Nat /\ DOMAIN records = 1..Len(records)
         /\ \A i \in 1..Len(records) : records[i] \in Supplied
<1>1. records \in Seq(Supplied)  BY DEF SuppliedTypes
<1> QED  BY <1>1, LenProperties, ElementOfSeq

\* Writing a record of that kind.
LEMMA WriteStep ==
  ASSUME JudgeInv, NEW r, NextRecord(r), Write(r), UNCHANGED <<time, instance, clock>>
  PROVE  JudgeInv'
<1> DEFINE n == Len(records)
<1>1. /\ SuppliedTypes /\ n \in Nat /\ time \in Nat
      /\ \A i \in 1..n : records[i] \in Supplied /\ records[i].mono \in Nat
  BY SuppliedElements DEF JudgeInv, SuppliedTypes, Supplied
<1>2. PICK error \in -Bound..Bound : records' = Append(records, [r EXCEPT !.at = time + error])
  <2>1. 0 \in -Bound..Bound /\ Errors \subseteq -Bound..Bound  BY VerdictAssumption
  <2> QED  BY <2>1 DEF Write
<1> DEFINE q == [r EXCEPT !.at = time + error]
<1>3. /\ q \in Supplied /\ q.id = n + 1 /\ q.mono = time
      /\ -Bound <= q.at - q.mono /\ q.at - q.mono <= Bound
      /\ q.decision = "approve" => q.ticket = q.id
      /\ q.action # "validation_decided" => q.component = "writer"
      /\ q.component = "writer" /\ q.ticket # 0 => q.ticket < q.id
  <2>1. time + error \in Int /\ -Bound <= (time + error) - time /\ (time + error) - time <= Bound
    BY <1>1, VerdictAssumption
  <2>2. /\ q \in Supplied /\ q.at = time + error /\ q.id = r.id /\ q.mono = r.mono
        /\ q.decision = r.decision /\ q.ticket = r.ticket /\ q.action = r.action
        /\ q.component = r.component
    BY <2>1 DEF NextRecord, Supplied
  <2> HIDE DEF q
  <2> QED  BY <2>1, <2>2 DEF NextRecord
<1> HIDE DEF q
<1>4. /\ records' \in Seq(Supplied) /\ Len(records') = n + 1
      /\ \A i \in 1..n : records'[i] = records[i]
      /\ records'[n + 1] = q
  <2>1. records' = Append(records, q) /\ records \in Seq(Supplied)  BY <1>1, <1>2 DEF q, SuppliedTypes
  <2> QED  BY <1>3, <2>1, AppendProperties
<1> HIDE DEF n
<1>5. SuppliedTypes'  BY <1>1, <1>4 DEF SuppliedTypes
<1>6. TimesInv'
  <2>1. ASSUME NEW i \in 1..(n + 1)
        PROVE  /\ records'[i].id = i /\ records'[i].mono <= time
               /\ -Bound <= records'[i].at - records'[i].mono /\ records'[i].at - records'[i].mono <= Bound
    <3>1. CASE i = n + 1  BY <1>1, <1>3, <1>4, <3>1
    <3>2. CASE i \in 1..n
      <4>1. records'[i] = records[i]  BY <1>4, <3>2
      <4> QED  BY <3>2, <4>1 DEF JudgeInv, TimesInv, n
    <3> QED  BY <1>1, <3>1, <3>2
  <2>2. ASSUME NEW i \in 1..(n + 1), NEW j \in 1..(n + 1), i <= j
        PROVE  records'[i].mono <= records'[j].mono
    <3>1. CASE j = n + 1  BY <1>3, <1>4, <2>1, <3>1
    <3>2. CASE j \in 1..n
      <4>1. i \in 1..n  BY <1>1, <2>2, <3>2
      <4>2. records'[i] = records[i] /\ records'[j] = records[j]  BY <1>4, <3>2, <4>1
      <4> QED  BY <2>2, <3>2, <4>1, <4>2 DEF JudgeInv, TimesInv, n
    <3> QED  BY <1>1, <3>1, <3>2
  <2> QED  BY <1>4, <2>1, <2>2 DEF TimesInv
<1>7. TicketInv'
  <2>1. ASSUME NEW i \in 1..(n + 1)
        PROVE  /\ records'[i].decision = "approve" => records'[i].ticket = i
               /\ records'[i].action # "validation_decided" => records'[i].component = "writer"
               /\ records'[i].component = "writer" /\ records'[i].ticket # 0 => records'[i].ticket < i
    <3>1. CASE i = n + 1  BY <1>3, <1>4, <3>1
    <3>2. CASE i \in 1..n
      <4>1. records'[i] = records[i]  BY <1>4, <3>2
      <4> QED  BY <3>2, <4>1 DEF JudgeInv, TicketInv, n
    <3> QED  BY <1>1, <3>1, <3>2
  <2> QED  BY <1>4, <2>1 DEF TicketInv
<1> QED  BY <1>5, <1>6, <1>7 DEF JudgeInv

\* What every record carries.
LEMMA BlankType ==
  ASSUME SuppliedTypes, NEW c \in {"validator", "writer"}, NEW v \in Values,
         NEW a \in {"validation_decided", "executor_admitted", "write_initiated", "writer_result"}
  PROVE  LET b == Blank(c, a, v) IN
         /\ b \in Supplied /\ b.id = Len(records) + 1 /\ b.mono = time /\ b.component = c
         /\ b.action = a /\ b.decision = "none" /\ b.ticket = 0
<1>1. clock.bounded \in BOOLEAN
  BY VerdictAssumption DEF SuppliedTypes
<1>2. time \in Nat /\ Len(records) \in Nat /\ instance \in Nat
  BY SuppliedElements DEF SuppliedTypes
<1> DEFINE d == IF c = "writer" /\ ~clock.shared THEN 2 ELSE 1
           i == IF c = "writer" THEN instance ELSE 1
<1>3. d \in Nat /\ i \in Nat  BY <1>2
<1>4. Blank(c, a, v) =
        [id |-> Len(records) + 1, component |-> c, action |-> a, value |-> v, decision |-> "none",
         ticket |-> 0, verified |-> FALSE, attempt |-> 0, outcome |-> "none", mono |-> time,
         instance |-> i, domain |-> d, at |-> time, bounded |-> clock.bounded]
  BY DEF Blank
<1> HIDE DEF d, i
<1> QED  BY <1>1, <1>2, <1>3, <1>4 DEF Supplied

\* Every step keeps the records as the judge relies on them to be.
LEMMA JudgeStep ==
  ASSUME JudgeInv, [RecordNext]_recordVars
  PROVE  JudgeInv'
<1>1. SuppliedTypes /\ TicketInv  BY DEF JudgeInv
<1>2. /\ Len(records) \in Nat /\ DOMAIN records = 1..Len(records)
      /\ \A i \in 1..Len(records) : records[i] \in Supplied
  BY <1>1, SuppliedElements
<1>3. CASE TimePasses
  <2>1. time' = time + Interval /\ UNCHANGED <<records, instance, clock>>  BY <1>3 DEF TimePasses
  <2>2. time \in Nat /\ time' \in Nat /\ time <= time'
    BY <1>1, <2>1, VerdictAssumption DEF SuppliedTypes
  <2>3. ASSUME NEW i \in 1..Len(records)  PROVE records[i].mono <= time'
    <3>1. records[i].mono \in Nat /\ records[i].mono <= time
      BY <1>2 DEF JudgeInv, TimesInv, Supplied
    <3> QED  BY <2>1, <2>2, <3>1
  <2>4. TimesInv'  BY <2>1, <2>3 DEF JudgeInv, TimesInv
  <2> QED  BY <1>1, <2>1, <2>2, <2>4 DEF JudgeInv, SuppliedTypes, TicketInv
<1>4. CASE Decide
  <2>1. PICK v \in Values, x \in {"approve", "reject"} :
          Write([Blank("validator", "validation_decided", v) EXCEPT
                   !.decision = x, !.ticket = IF x = "approve" THEN Len(records) + 1 ELSE 0])
    BY <1>4 DEF Decide
  <2> DEFINE b == Blank("validator", "validation_decided", v)
             t == IF x = "approve" THEN Len(records) + 1 ELSE 0
             r == [b EXCEPT !.decision = x, !.ticket = t]
  <2>2. /\ b \in Supplied /\ b.id = Len(records) + 1 /\ b.mono = time /\ b.component = "validator"
        /\ b.action = "validation_decided"
    BY <1>1, BlankType
  <2>3. t \in Nat /\ (x = "approve" => t = Len(records) + 1)  BY <1>2
  <2> HIDE DEF b, t
  <2>4. /\ r \in Supplied /\ r.id = b.id /\ r.mono = b.mono /\ r.component = b.component
        /\ r.action = b.action /\ r.decision = x /\ r.ticket = t
    BY <2>2, <2>3 DEF Supplied
  <2> HIDE DEF r
  <2>5. NextRecord(r)  BY <2>2, <2>3, <2>4 DEF NextRecord
  <2>6. Write(r)  BY <2>1 DEF r, b, t
  <2>7. UNCHANGED <<time, instance, clock>>  BY <1>4 DEF Decide
  <2> QED  BY <2>5, <2>6, <2>7, WriteStep
<1>5. CASE Admit
  <2>1. PICK v \in Values, t \in Tickets \cup {0}, y \in BOOLEAN :
          Write([Blank("writer", "executor_admitted", v) EXCEPT
                   !.ticket = t, !.verified = y, !.attempt = Len(records) + 1])
    BY <1>5 DEF Admit
  <2> DEFINE b == Blank("writer", "executor_admitted", v)
             r == [b EXCEPT !.ticket = t, !.verified = y, !.attempt = Len(records) + 1]
  <2>2. /\ b \in Supplied /\ b.id = Len(records) + 1 /\ b.mono = time /\ b.component = "writer"
        /\ b.decision = "none"
    BY <1>1, BlankType
  <2>3. t \in Nat /\ t < Len(records) + 1  BY <1>2 DEF Tickets
  <2> HIDE DEF b
  <2>4. /\ r \in Supplied /\ r.id = b.id /\ r.mono = b.mono /\ r.component = b.component
        /\ r.decision = b.decision /\ r.ticket = t
    BY <1>2, <2>2, <2>3 DEF Supplied
  <2> HIDE DEF r
  <2>5. NextRecord(r)  BY <2>2, <2>3, <2>4 DEF NextRecord
  <2>6. Write(r)  BY <2>1 DEF r, b
  <2>7. UNCHANGED <<time, instance, clock>>  BY <1>5 DEF Admit
  <2> QED  BY <2>5, <2>6, <2>7, WriteStep
<1>6. CASE Initiate
  <2>1. UNCHANGED <<time, instance, clock>>  BY <1>6 DEF Initiate
  <2>2. ASSUME NEW i \in Admissions, NEW v \in Values,
               Write([Blank("writer", "write_initiated", v) EXCEPT
                        !.ticket = records[i].ticket, !.attempt = i,
                        !.verified = records[i].verified /\ v = records[i].value])
        PROVE  JudgeInv'
    <3> DEFINE b == Blank("writer", "write_initiated", v)
               t == records[i].ticket
               y == records[i].verified /\ v = records[i].value
               r == [b EXCEPT !.ticket = t, !.attempt = i, !.verified = y]
    <3>1. /\ b \in Supplied /\ b.id = Len(records) + 1 /\ b.mono = time /\ b.component = "writer"
          /\ b.decision = "none"
      BY <1>1, BlankType
    <3>2. i \in 1..Len(records) /\ records[i].action = "executor_admitted"  BY <1>2 DEF Admissions
    <3>3. t \in Nat /\ (t # 0 => t < i)
      <4>1. records[i] \in Supplied  BY <1>2, <3>2
      <4>2. records[i].component = "writer"  BY <1>1, <3>2 DEF TicketInv
      <4>3. t # 0 => t < i  BY <1>1, <3>2, <4>2 DEF TicketInv
      <4> QED  BY <4>1, <4>3 DEF Supplied
    <3>4. t # 0 => t < Len(records) + 1  BY <1>2, <3>2, <3>3
    <3>5. i \in Nat /\ t \in Nat /\ y \in BOOLEAN  BY <1>2, <3>2, <3>3
    <3> HIDE DEF b, t, y
    <3>6. /\ r \in Supplied /\ r.id = b.id /\ r.mono = b.mono /\ r.component = b.component
          /\ r.decision = b.decision /\ r.ticket = t
      BY <3>1, <3>5 DEF Supplied
    <3> HIDE DEF r
    <3>7. NextRecord(r)  BY <3>1, <3>4, <3>6 DEF NextRecord
    <3>8. Write(r)  BY <2>2 DEF r, b, t, y
    <3> QED  BY <2>1, <3>7, <3>8, WriteStep
  <2>3. ASSUME NEW v \in Values, Write(Blank("writer", "write_initiated", v))
        PROVE  JudgeInv'
    <3> DEFINE b == Blank("writer", "write_initiated", v)
    <3>1. /\ b \in Supplied /\ b.id = Len(records) + 1 /\ b.mono = time /\ b.component = "writer"
          /\ b.decision = "none" /\ b.ticket = 0
      BY <1>1, BlankType
    <3>2. Write(b)  BY <2>3
    <3> HIDE DEF b
    <3>3. NextRecord(b)  BY <3>1 DEF NextRecord
    <3> QED  BY <2>1, <3>2, <3>3, WriteStep
  <2> QED  BY <1>6, <2>2, <2>3 DEF Initiate
<1>7. CASE Settle
  <2>1. /\ records # << >> /\ UNCHANGED <<time, instance, clock>>  BY <1>7 DEF Settle
  <2> DEFINE v == records[Len(records)].value
  <2>2. PICK x \in {"completed", "unstamped", "refused", "blamed", "unknown"} :
          Write([Blank("writer", "writer_result", v) EXCEPT !.outcome = x])
    BY <1>7 DEF Settle
  <2>3. v \in Values
    <3>1. Len(records) \in 1..Len(records)
      BY <1>1, <1>2, <2>1, EmptySeq DEF SuppliedTypes
    <3> QED  BY <1>2, <3>1 DEF Supplied
  <2> HIDE DEF v
  <2> DEFINE b == Blank("writer", "writer_result", v)
             r == [b EXCEPT !.outcome = x]
  <2>4. /\ b \in Supplied /\ b.id = Len(records) + 1 /\ b.mono = time /\ b.component = "writer"
        /\ b.decision = "none" /\ b.ticket = 0
    BY <1>1, <2>3, BlankType
  <2> HIDE DEF b
  <2>5. /\ r \in Supplied /\ r.id = b.id /\ r.mono = b.mono /\ r.component = b.component
        /\ r.decision = b.decision /\ r.ticket = b.ticket
    BY <2>4 DEF Supplied
  <2> HIDE DEF r
  <2>6. NextRecord(r)  BY <2>4, <2>5 DEF NextRecord
  <2>7. Write(r)  BY <2>2 DEF r, b
  <2> QED  BY <2>1, <2>6, <2>7, WriteStep
<1>8. CASE RestartWriter
  <2>1. instance' = 2 /\ UNCHANGED <<time, records, clock>>  BY <1>8 DEF RestartWriter
  <2> QED  BY <2>1 DEF JudgeInv, SuppliedTypes, TimesInv, TicketInv
<1>9. CASE UNCHANGED recordVars
  BY <1>9 DEF recordVars, JudgeInv, SuppliedTypes, TimesInv, TicketInv
<1> QED  BY <1>3, <1>4, <1>5, <1>6, <1>7, <1>8, <1>9 DEF RecordNext

(***************************************************************************)
(* What the judge concludes from times.                                    *)
(***************************************************************************)

\* A record of the log, with its number and times.
LEMMA InLog ==
  ASSUME JudgeInv, NEW r \in All
  PROVE  /\ r.id \in 1..Len(records) /\ records[r.id] = r /\ r \in Supplied
         /\ r.mono \in Nat /\ r.at \in Int
         /\ -Bound <= r.at - r.mono /\ r.at - r.mono <= Bound
<1>1. /\ Len(records) \in Nat /\ DOMAIN records = 1..Len(records)
      /\ \A i \in 1..Len(records) : records[i] \in Supplied
  BY SuppliedElements DEF JudgeInv
<1>2. PICK i \in 1..Len(records) : r = records[i]  BY <1>1 DEF All
<1>3. r \in Supplied  BY <1>1, <1>2
<1>4. r.id = i /\ -Bound <= r.at - r.mono /\ r.at - r.mono <= Bound
  BY <1>2 DEF JudgeInv, TimesInv
<1>5. r.mono \in Nat /\ r.at \in Int  BY <1>3 DEF Supplied
<1> QED  BY <1>2, <1>3, <1>4, <1>5

\* What before() calls certain is so, on the true clock and in the log.
LEMMA BeforeIsTrue ==
  ASSUME JudgeInv, NEW a \in All, NEW b \in All, Before(a, b) = "yes"
  PROVE  a.mono < b.mono /\ a.id < b.id
<1>1. a.mono < b.mono \/ b.at - a.at > 2 * Bound  BY Zenon DEF Before
<1>2. /\ a.id \in 1..Len(records) /\ records[a.id] = a /\ a.mono \in Nat /\ a.at \in Int
      /\ -Bound <= a.at - a.mono /\ a.at - a.mono <= Bound
  BY InLog
<1>3. /\ b.id \in 1..Len(records) /\ records[b.id] = b /\ b.mono \in Nat /\ b.at \in Int
      /\ -Bound <= b.at - b.mono /\ b.at - b.mono <= Bound
  BY InLog
<1>4. a.mono < b.mono
  <2>1. CASE b.at - a.at > 2 * Bound
    <3> Bound \in Nat  BY VerdictAssumption
    <3> DEFINE x == a.mono  y == b.mono  s == a.at  t == b.at
    <3>1. x \in Nat /\ y \in Nat /\ s \in Int /\ t \in Int  BY <1>2, <1>3
    <3>2. s - x >= -Bound /\ t - y <= Bound /\ t - s > 2 * Bound  BY <1>2, <1>3, <2>1
    <3> HIDE DEF x, y, s, t
    <3>3. x < y  BY <3>1, <3>2
    <3> QED  BY <3>3 DEF x, y
  <2> QED  BY <1>1, <2>1
<1>5. Len(records) \in Nat  BY SuppliedElements DEF JudgeInv
<1>6. b.id <= a.id => b.mono <= a.mono  BY <1>2, <1>3 DEF JudgeInv, TimesInv
<1> QED  BY <1>2, <1>3, <1>4, <1>5, <1>6

\* What within_window() calls certain is so.
LEMMA WindowIsTrue ==
  ASSUME JudgeInv, NEW a \in All, NEW b \in All, WithinWindow(a, b) = "yes"
  PROVE  ~(Gap(a.mono, b.mono) > Retention)
<1>1. Gap(a.mono, b.mono) <= Retention \/ Gap(a.at, b.at) + 2 * Bound <= Retention
  BY Zenon DEF WithinWindow
<1>2. /\ a.mono \in Nat /\ a.at \in Int /\ -Bound <= a.at - a.mono /\ a.at - a.mono <= Bound
      /\ b.mono \in Nat /\ b.at \in Int /\ -Bound <= b.at - b.mono /\ b.at - b.mono <= Bound
  BY InLog
<1>3. Retention \in Nat  BY VerdictAssumption
<1> QED  BY <1>1, <1>2, <1>3, VerdictAssumption DEF Gap

\* A deadline judged kept was kept, one judged missed was missed.
LEMMA OnTimeIsTrue ==
  ASSUME JudgeInv, NEW w \in All
  PROVE  /\ OnTime(w) = "pass" => w.mono <= Deadline
         /\ OnTime(w) = "fail" => w.mono > Deadline
<1>1. OnTime(w) = "pass" => Deadline - w.at >= Bound  BY Zenon DEF OnTime
<1>2. OnTime(w) = "fail" => Deadline - w.at < -Bound  BY Zenon DEF OnTime
<1>3. w.mono \in Nat /\ w.at \in Int /\ -Bound <= w.at - w.mono /\ w.at - w.mono <= Bound
  BY InLog
<1>4. Deadline \in Nat  BY VerdictAssumption
<1> QED  BY <1>1, <1>2, <1>3, <1>4, VerdictAssumption

(***************************************************************************)
(* What the judge concludes about the write.                               *)
(***************************************************************************)

\* A write judged admitted followed an approval of its content: the approval's
\* record is ordered before it, or the ticket it used was issued by it.
LEMMA AdmissionIsTrue ==
  ASSUME JudgeInv, NEW S \in SUBSET All, NEW w \in Writes(S), Admission(S, w) = "pass"
  PROVE  Approved(w)
<1>1. Ordered(S, w) # {} \/ Causal(S, w) # {}  BY Zenon DEF Admission
<1>2. w \in All /\ w.action = "write_initiated"  BY DEF Writes, With
<1>3. PICK r \in Approvals(S, w) : Before(r, w) = "yes" \/ w.ticket = r.ticket
  BY <1>1 DEF Ordered, Causal
<1>4. r \in All /\ r.decision = "approve" /\ r.value = w.value
  BY DEF Approvals, Decisions, With
<1>5. r.id \in 1..Len(records) /\ records[r.id] = r  BY <1>4, InLog
<1>6. w.id \in 1..Len(records) /\ records[w.id] = w  BY <1>2, InLog
<1>7. Len(records) \in Nat  BY SuppliedElements DEF JudgeInv
<1>8. r.id < w.id
  <2>1. CASE Before(r, w) = "yes"  BY <1>2, <1>4, <2>1, BeforeIsTrue
  <2>2. CASE w.ticket = r.ticket
    <3>1. r.ticket = r.id  BY <1>4, <1>5 DEF JudgeInv, TicketInv
    <3>2. w.component = "writer"  BY <1>2, <1>6 DEF JudgeInv, TicketInv
    <3>3. w.ticket # 0 => w.ticket < w.id  BY <1>6, <3>2 DEF JudgeInv, TicketInv
    <3> QED  BY <1>5, <1>7, <2>2, <3>1, <3>3
  <2> QED  BY <1>3, <2>1, <2>2
<1>9. r.id \in 1..(w.id - 1)  BY <1>5, <1>6, <1>7, <1>8
<1> QED  BY <1>4, <1>5, <1>9 DEF Approved

\* A write judged superseded followed a refusal that followed an approval.
LEMMA RefusalIsTrue ==
  ASSUME JudgeInv, NEW S \in SUBSET All, NEW w \in Writes(S), Admission(S, w) = "fail"
  PROVE  Refused(w)
<1>1. Superseded(S, w)  BY Zenon DEF Admission
<1>2. PICK a \in Ordered(S, w), r \in Decisions(S) :
        r.decision = "reject" /\ r.value = w.value /\ Before(a, r) = "yes" /\ Before(r, w) = "yes"
  BY <1>1 DEF Superseded
<1>3. a \in All /\ a.decision = "approve" /\ a.value = w.value /\ r \in All /\ w \in All
  BY DEF Ordered, Approvals, Decisions, Writes, With
<1>4. a.id < r.id /\ r.id < w.id  BY <1>2, <1>3, BeforeIsTrue
<1>5. /\ a.id \in 1..Len(records) /\ records[a.id] = a /\ r.id \in 1..Len(records)
      /\ records[r.id] = r /\ w.id \in 1..Len(records)
  BY <1>3, InLog
<1>6. Len(records) \in Nat  BY SuppliedElements DEF JudgeInv
<1>7. a.id \in 1..(w.id - 1) /\ r.id \in 1..(w.id - 1)  BY <1>4, <1>5, <1>6
<1> QED  BY <1>2, <1>3, <1>4, <1>5, <1>7 DEF Refused

\* verdict() passes only without failures and gaps, and fails only on a failure.
LEMMA VerdictIsTrue ==
  ASSUME NEW T
  PROVE  /\ Verdict(T) = "pass" => "fail" \notin T /\ "unknown" \notin T
         /\ Verdict(T) = "fail" => "fail" \in T
BY Zenon DEF Verdict

\* Every check ends in a status.
LEMMA Statuses ==
  ASSUME NEW S, NEW w
  PROVE  /\ Admission(S, w) \in {"pass", "fail", "unknown"}
         /\ OnTime(w) \in {"pass", "fail", "unknown"}
         /\ WritePolicy(w) \in {"pass", "fail"}
         /\ Initiations(S) \in {"pass", "fail", "unknown"}
         /\ Binding(S) \in {"pass", "fail", "unknown"}
<1>1. \A T : Verdict(T) \in {"pass", "fail", "unknown"}  BY Zenon DEF Verdict
<1>2. Admission(S, w) \in {"pass", "fail", "unknown"}  BY Zenon DEF Admission
<1>3. OnTime(w) \in {"pass", "fail", "unknown"}  BY Zenon DEF OnTime
<1>4. WritePolicy(w) \in {"pass", "fail"}  BY DEF WritePolicy
<1>5. Initiations(S) \in {"pass", "fail", "unknown"}  BY <1>1, Zenon DEF Initiations
<1>6. Binding(S) \in {"pass", "fail", "unknown"}  BY <1>1, Zenon DEF Binding
<1> QED  BY <1>2, <1>3, <1>4, <1>5, <1>6

\* A pair that counts as a failure lies inside the retention time.
LEMMA InsideIsTrue ==
  ASSUME JudgeInv, NEW S \in SUBSET All, NEW pair \in Pairs(S), Inside(pair) = "fail"
  PROVE  /\ pair[1] \in S /\ pair[2] \in S /\ pair[1] # pair[2]
         /\ ~(Gap(pair[1].mono, pair[2].mono) > Retention)
<1>1. pair[1] \in S /\ pair[2] \in S /\ pair[1].id < pair[2].id  BY DEF Pairs
<1>2. WithinWindow(pair[1], pair[2]) = "yes"  BY DEF Inside
<1>3. pair[1].id \in 1..Len(records) /\ Len(records) \in Nat
  BY <1>1, InLog, SuppliedElements DEF JudgeInv
<1>4. pair[1] # pair[2]  BY <1>1, <1>3
<1> QED  BY <1>1, <1>2, <1>4, WindowIsTrue

\* Without failures nothing is left of a pair but the unknown.
LEMMA PairsNeverPass ==
  ASSUME NEW P, P # {}
  PROVE  Verdict({Inside(pair) : pair \in P}) # "pass"
<1>1. PICK pair \in P : TRUE  OBVIOUS
<1>2. Inside(pair) \in {"fail", "unknown"}  BY DEF Inside
<1> QED  BY <1>1, <1>2, VerdictIsTrue

\* Two records with different numbers make a pair, one way or the other.
LEMMA Paired ==
  ASSUME JudgeInv, NEW S \in SUBSET All, NEW a \in S, NEW b \in S, a # b
  PROVE  <<a, b>> \in Pairs(S) \/ <<b, a>> \in Pairs(S)
<1>1. /\ a.id \in 1..Len(records) /\ records[a.id] = a
      /\ b.id \in 1..Len(records) /\ records[b.id] = b
  BY InLog
<1>2. Len(records) \in Nat  BY SuppliedElements DEF JudgeInv
<1>3. a.id # b.id  BY <1>1
<1>4. a.id < b.id \/ b.id < a.id  BY <1>1, <1>2, <1>3
<1> QED  BY <1>4 DEF Pairs

\* A failure is true, for any subset of the records.
LEMMA FailuresAreTrue ==
  ASSUME JudgeInv
  PROVE  FailIsTrue
<1>1. \A S \in SUBSET All, w \in Writes(All) : w \in S => w \in Writes(S)  BY DEF Writes, With
<1>2. ASSUME NEW w \in Writes(All), ~Refused(w), NEW S \in SUBSET All, w \in S
      PROVE  Admission(S, w) # "fail"
  BY <1>1, <1>2, RefusalIsTrue
<1>3. ASSUME NEW w \in Writes(All), w.mono <= Deadline
      PROVE  OnTime(w) # "fail"
  <2>1. w \in All  BY DEF Writes, With
  <2>2. w.mono \in Nat /\ Deadline \in Nat  BY <2>1, InLog, VerdictAssumption
  <2> QED  BY <1>3, <2>1, <2>2, OnTimeIsTrue
<1>4. ASSUME NEW S \in SUBSET Writes(All), Initiations(S) = "fail"
      PROVE  \E a, b \in Writes(All) : a # b /\ ~(Gap(a.mono, b.mono) > Retention)
  <2>1. Verdict({Inside(pair) : pair \in Pairs(Writes(S))}) = "fail"  BY <1>4, Zenon DEF Initiations
  <2>2. PICK pair \in Pairs(Writes(S)) : Inside(pair) = "fail"  BY <2>1, VerdictIsTrue
  <2>3. Writes(S) \in SUBSET All /\ Writes(S) \subseteq Writes(All)  BY DEF Writes, With
  <2>4. /\ pair[1] \in Writes(S) /\ pair[2] \in Writes(S) /\ pair[1] # pair[2]
        /\ ~(Gap(pair[1].mono, pair[2].mono) > Retention)
    BY <2>2, <2>3, InsideIsTrue
  <2> QED  BY <2>3, <2>4
<1>5. ASSUME NEW S \in SUBSET All, Binding(S) = "fail"
      PROVE  \E a, b \in All : a.value # b.value /\ ~(Gap(a.mono, b.mono) > Retention)
  <2> DEFINE changed == {pair \in Pairs(BoundRecords(S)) : pair[1].value # pair[2].value}
  <2>1. Verdict({Inside(pair) : pair \in changed}) = "fail"  BY <1>5, Zenon DEF Binding
  <2>2. PICK pair \in changed : Inside(pair) = "fail"  BY <2>1, VerdictIsTrue
  <2>3. BoundRecords(S) \in SUBSET All  BY DEF BoundRecords, Writes, With
  <2>4. pair \in Pairs(BoundRecords(S)) /\ pair[1].value # pair[2].value  BY <2>2
  <2>5. /\ pair[1] \in BoundRecords(S) /\ pair[2] \in BoundRecords(S)
        /\ ~(Gap(pair[1].mono, pair[2].mono) > Retention)
    BY <2>2, <2>3, <2>4, InsideIsTrue
  <2> QED  BY <2>3, <2>4, <2>5
<1> QED  BY <1>2, <1>3, <1>4, <1>5 DEF FailIsTrue

\* A report over all records that passes has seen one write, approved, permitted,
\* on time and of the admitted content.
LEMMA ReportIsTrue ==
  ASSUME JudgeInv, LocalReport(All, TRUE) = "pass"
  PROVE  /\ Cardinality(Writes(All)) = 1
         /\ \A w \in Writes(All) : w.value \in Allowed /\ Approved(w) /\ w.mono <= Deadline
         /\ \A r \in With(All, "executor_admitted") : \A w \in Writes(All) : r.value = w.value
<1> DEFINE T == {IF TRUE THEN "pass" ELSE "unknown", Initiations(All), Binding(All), OutcomeMeaning(All),
                 StageCoverage(All)}
                \cup {Admission(All, w) : w \in Writes(All)} \cup {OnTime(w) : w \in Writes(All)}
                \cup {WritePolicy(w) : w \in Writes(All)}
<1>1. Verdict(T) = "pass"  BY DEF LocalReport
<1>2. "fail" \notin T /\ "unknown" \notin T  BY <1>1, VerdictIsTrue
<1>3. Initiations(All) \in T /\ Binding(All) \in T  OBVIOUS
<1>4. \A w \in Writes(All) : Admission(All, w) \in T /\ OnTime(w) \in T /\ WritePolicy(w) \in T
  OBVIOUS
<1> HIDE DEF T
<1>5. Initiations(All) = "pass" /\ Binding(All) = "pass"  BY <1>2, <1>3, Statuses
<1>6. \A w \in Writes(All) : Admission(All, w) = "pass" /\ OnTime(w) = "pass" /\ WritePolicy(w) = "pass"
  BY <1>2, <1>4, Statuses
<1>7. Writes(All) \in SUBSET All /\ With(All, "executor_admitted") \in SUBSET All
  BY DEF Writes, With
<1>8. Cardinality(Writes(All)) = 1
  <2>1. Writes(All) # {}  BY <1>5, Zenon DEF Initiations
  <2>2. Pairs(Writes(All)) = {}
    <3>1. SUFFICES ASSUME Pairs(Writes(All)) # {}  PROVE FALSE  OBVIOUS
    <3>2. Verdict({Inside(pair) : pair \in Pairs(Writes(All))}) = "pass"
      BY <1>5, <2>1, <3>1, Zenon DEF Initiations
    <3> QED  BY <3>1, <3>2, PairsNeverPass
  <2>3. PICK w \in Writes(All) : TRUE  BY <2>1
  <2>4. \A v \in Writes(All) : v = w  BY <1>7, <2>2, Paired
  <2>5. Writes(All) = {w}  BY <2>4
  <2> QED  BY <2>5, FS_Singleton
<1>9. ASSUME NEW w \in Writes(All)
      PROVE  w.value \in Allowed /\ Approved(w) /\ w.mono <= Deadline
  <2>1. w.value \in Allowed  BY <1>6 DEF WritePolicy
  <2>2. Approved(w)  BY <1>6, AdmissionIsTrue
  <2>3. w.mono <= Deadline  BY <1>6, <1>7, OnTimeIsTrue
  <2> QED  BY <2>1, <2>2, <2>3
<1>10. ASSUME NEW r \in With(All, "executor_admitted"), NEW w \in Writes(All)
       PROVE  r.value = w.value
  <2> DEFINE B == BoundRecords(All)
             changed == {pair \in Pairs(B) : pair[1].value # pair[2].value}
  <2>1. r \in B /\ w \in B  BY DEF BoundRecords
  <2>2. B # {}  BY <2>1
  <2>3. changed = {}
    <3>1. SUFFICES ASSUME changed # {}  PROVE FALSE  OBVIOUS
    <3>2. Verdict({Inside(pair) : pair \in changed}) = "pass"
      BY <1>5, <2>2, <3>1, Zenon DEF Binding
    <3> QED  BY <3>1, <3>2, PairsNeverPass
  <2>4. B \in SUBSET All  BY DEF BoundRecords, Writes, With
  <2>5. r # w  BY DEF Writes, With
  <2> HIDE DEF B
  <2>6. <<r, w>> \in Pairs(B) \/ <<w, r>> \in Pairs(B)  BY <2>1, <2>4, <2>5, Paired
  <2>7. ASSUME r.value # w.value  PROVE <<r, w>> \in changed \/ <<w, r>> \in changed
    BY <2>6, <2>7
  <2> QED  BY <2>3, <2>7
<1> QED  BY <1>8, <1>9, <1>10

\* The judge's records, in every reachable state.
THEOREM JudgedRecords == RecordSpec => []JudgeInv
<1>1. RecordInit => JudgeInv
  <2>1. SUFFICES ASSUME RecordInit  PROVE JudgeInv  OBVIOUS
  <2>2. /\ time \in Nat /\ records \in Seq(Supplied) /\ Len(records) = 0 /\ instance \in Nat
        /\ clock \in Clocks
    BY <2>1, EmptySeq DEF RecordInit
  <2> QED  BY <2>2 DEF JudgeInv, SuppliedTypes, TimesInv, TicketInv
<1>2. JudgeInv /\ [RecordNext]_recordVars => JudgeInv'  BY JudgeStep
<1> QED  BY <1>1, <1>2, PTL DEF RecordSpec

\* A failure is true, for any number of records, contents, missing records and
\* clock errors within the bound (check_execution).
THEOREM FailedIsTrue == RecordSpec => []FailIsTrue
<1>1. JudgeInv => FailIsTrue  BY FailuresAreTrue
<1> QED  BY <1>1, JudgedRecords, PTL

\* A pass is true, for any number of records, contents, missing records and
\* clock errors within the bound (check_execution, local_report).
THEOREM PassedIsTrue == RecordSpec => []PassIsTrue
<1>1. ASSUME JudgeInv  PROVE PassIsTrue
  <2>1. ASSUME NEW w \in Writes(All)
        PROVE  /\ ~Approved(w) => \A S \in SUBSET All : w \in S => Admission(S, w) # "pass"
               /\ w.mono > Deadline => OnTime(w) # "pass"
    <3>1. w \in All  BY DEF Writes, With
    <3>2. \A S \in SUBSET All : w \in S => w \in Writes(S)  BY DEF Writes, With
    <3>3. ~Approved(w) => \A S \in SUBSET All : w \in S => Admission(S, w) # "pass"
      BY <1>1, <3>2, AdmissionIsTrue
    <3>4. w.mono \in Nat /\ Deadline \in Nat  BY <1>1, <3>1, InLog, VerdictAssumption
    <3>5. w.mono > Deadline => OnTime(w) # "pass"  BY <1>1, <3>1, <3>4, OnTimeIsTrue
    <3> QED  BY <3>3, <3>5
  <2>2. LocalReport(All, TRUE) = "pass" =>
          /\ Cardinality(Writes(All)) = 1
          /\ \A w \in Writes(All) : w.value \in Allowed /\ Approved(w) /\ w.mono <= Deadline
          /\ \A r \in With(All, "executor_admitted") : \A w \in Writes(All) : r.value = w.value
    BY <1>1, ReportIsTrue
  <2> QED  BY <2>1, <2>2 DEF PassIsTrue
<1> QED  BY <1>1, JudgedRecords, PTL

=============================================================================
