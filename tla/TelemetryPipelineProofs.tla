---------------------- MODULE TelemetryPipelineProofs ----------------------
(***************************************************************************)
(* Proofs about TelemetryPipeline, for any nodes, rules and bounds.        *)
(*                                                                         *)
(* Every reading that may still be published stands in one line: published *)
(* before the one in the publish worker's hand, before the requests queued *)
(* at that worker, before the one the orchestrator runs, before those it   *)
(* has not taken.  A step moves a reading to the next place, drops it, or  *)
(* adds a new one at the end, and a new one's position is above every      *)
(* position its node was given: so positions ascend along the line.        *)
(***************************************************************************)
EXTENDS TelemetryPipeline, SequenceTheorems, TLAPS

Qualities == {"good", "uncertain", "bad"}
Reading == [node : Nodes, quality : Qualities, position : Nat \X Nat]
Link == [up : BOOLEAN, epoch : Nat, next : 1..Len(PollList) \cup {1}]
Run == [pc : {"send", "wait"}, reading : Reading, stage : 1..3]
Requests == [reading : Reading, stage : StageNames]

TypeOK ==
  /\ link \in [Adapters -> Link]
  /\ sequence \in [Nodes -> Nat]
  /\ readings \in Seq(Reading) /\ ingress \in Seq(Reading) /\ published \in Seq(Reading)
  /\ run \in {Idle} \cup Run
  /\ work \in [StageNames -> Seq(Requests)]
  /\ inbox \subseteq [to : Requests, status : {"ok", "error"}]
  /\ handling \in {NoJob} \cup [on : Nat, request : Requests, sent : BOOLEAN]
  /\ mqtt \in [loop : {"connecting", "waiting", "sleeping"}, client : Nat, last : Nat, event : BOOLEAN]
  /\ alive \subseteq Nat
  /\ dlq \subseteq Reading \X StageNames
  /\ succeeded \subseteq Reading /\ abandoned \subseteq Reading
  /\ faults \in 0..MaxFaults

\* A request waits only at the stage it is addressed to.
AddressInv == \A s \in StageNames : \A i \in DOMAIN work[s] : work[s][i].stage = s

\* What the publish worker has confirmed, or is about to, the broker has.
ConfirmInv ==
  /\ \A m \in inbox :
       m.status = "ok" /\ m.to.stage = "publish" => m.to.reading \in ToSet(published)
  /\ handling # NoJob /\ handling.sent => handling.request.reading \in ToSet(published)

(***************************************************************************)
(* The line of readings that the broker has or may still be given.         *)
(***************************************************************************)

InHand == IF handling # NoJob /\ ~handling.sent THEN {handling.request.reading} ELSE {}
ReadingsOf(q) == [i \in DOMAIN q |-> q[i].reading]
Queue == ReadingsOf(work["publish"])
Running == IF run = Idle \/ (run.pc = "wait" /\ run.stage = 3) THEN {} ELSE {run.reading}

InOrder(r, q) == r.node = q.node => Precedes(r.position, q.position)
Before(A, B) == \A r \in A, q \in B : InOrder(r, q)

\* The five places, front to back.
InLine(P, H, Q, R, I) ==
  /\ Before(P, H \cup Q \cup R \cup I)
  /\ Before(H, Q \cup R \cup I)
  /\ Before(Q, R \cup I)
  /\ Before(R, I)

LineInv == InLine(ToSet(published), InHand, ToSet(Queue), Running, ToSet(ingress))

\* Within a place that holds several, the readings ascend too.
Ascending(s) == \A i, j \in DOMAIN s : i < j => InOrder(s[i], s[j])
QueueInv == Ascending(published) /\ Ascending(Queue) /\ Ascending(ingress)

AdapterOf(n) == IF n \in OpcuaNodes THEN "opcua" ELSE "s7"

\* The position was given by the node's adapter, in its epoch or an earlier one.
Issued(r) ==
  \/ r.position[1] < link[AdapterOf(r.node)].epoch
  \/ r.position[1] = link[AdapterOf(r.node)].epoch /\ r.position[2] <= sequence[r.node]

InTheLine == ToSet(published) \cup InHand \cup ToSet(Queue) \cup Running \cup ToSet(ingress)
IssuedInv == \A r \in InTheLine : Issued(r)

OrderInv == LineInv /\ QueueInv /\ IssuedInv

IInv == TypeOK /\ AddressInv /\ ConfirmInv /\ SuccessIsPublished /\ OrderInv

(***************************************************************************)
(* Facts about the operators.                                              *)
(***************************************************************************)

\* Appending to a queue adds one element to its set.
LEMMA ToSetAppend ==
  ASSUME NEW S, NEW s \in Seq(S), NEW e \in S
  PROVE  ToSet(Append(s, e)) = ToSet(s) \cup {e}
<1>1. /\ Append(s, e) \in Seq(S) /\ Len(Append(s, e)) = Len(s) + 1
      /\ \A i \in 1..Len(s) : Append(s, e)[i] = s[i]
      /\ Append(s, e)[Len(s) + 1] = e
  BY AppendProperties
<1>2. DOMAIN s = 1..Len(s) /\ DOMAIN Append(s, e) = 1..(Len(s) + 1) /\ Len(s) \in Nat
  BY <1>1, LenProperties
<1> QED  BY <1>1, <1>2 DEF ToSet

\* What leaves the front of a queue was in it, and nothing is added.
LEMMA ToSetTail ==
  ASSUME NEW S, NEW s \in Seq(S), s # << >>
  PROVE  /\ Head(s) \in S /\ Tail(s) \in Seq(S)
         /\ Head(s) \in ToSet(s) /\ ToSet(Tail(s)) \subseteq ToSet(s)
<1>1. /\ Head(s) \in S /\ Tail(s) \in Seq(S) /\ Len(Tail(s)) = Len(s) - 1
      /\ \A i \in 1..Len(Tail(s)) : Tail(s)[i] = s[i + 1]
  BY HeadTailProperties
<1>2. DOMAIN s = 1..Len(s) /\ DOMAIN Tail(s) = 1..(Len(s) - 1) /\ Len(s) \in Nat \ {0}
  BY <1>1, LenProperties, EmptySeq
<1>3. Head(s) = s[1]  BY DEF Head
<1> QED  BY <1>1, <1>2, <1>3 DEF ToSet

\* The readings of a queue of requests are a queue.
LEMMA ReadingsType ==
  ASSUME NEW q \in Seq(Requests)
  PROVE  ReadingsOf(q) \in Seq(Reading) /\ Len(ReadingsOf(q)) = Len(q)
<1>1. DOMAIN q = 1..Len(q) /\ Len(q) \in Nat /\ \A i \in 1..Len(q) : q[i] \in Requests
  BY LenProperties, ElementOfSeq
<1>2. \A i \in 1..Len(q) : q[i].reading \in Reading  BY <1>1 DEF Requests
<1> QED  BY <1>1, <1>2 DEF ReadingsOf

\* A request joins the queue with its reading.
LEMMA ReadingsAppend ==
  ASSUME NEW q \in Seq(Requests), NEW m \in Requests
  PROVE  ReadingsOf(Append(q, m)) = Append(ReadingsOf(q), m.reading)
<1> DEFINE a == ReadingsOf(Append(q, m))
           b == Append(ReadingsOf(q), m.reading)
<1>1. m.reading \in Reading  BY DEF Requests
<1>2. Append(q, m) \in Seq(Requests) /\ Len(Append(q, m)) = Len(q) + 1 /\ Len(q) \in Nat
  BY AppendProperties, LenProperties
<1>3. a \in Seq(Reading) /\ Len(a) = Len(q) + 1  BY <1>2, ReadingsType
<1>4. ReadingsOf(q) \in Seq(Reading) /\ Len(ReadingsOf(q)) = Len(q)  BY ReadingsType
<1>5. b \in Seq(Reading) /\ Len(b) = Len(q) + 1  BY <1>1, <1>4, AppendProperties
<1>6. ASSUME NEW i \in 1..(Len(q) + 1)  PROVE a[i] = b[i]
  <2>1. DOMAIN q = 1..Len(q) /\ DOMAIN Append(q, m) = 1..(Len(q) + 1)
    BY <1>2, LenProperties
  <2>2. a[i] = Append(q, m)[i].reading  BY <1>3, <2>1 DEF ReadingsOf
  <2>3. CASE i = Len(q) + 1
    <3>1. Append(q, m)[i] = m  BY <2>3, AppendProperties
    <3>2. b[i] = m.reading  BY <1>1, <1>4, <2>3, AppendProperties
    <3> QED  BY <2>2, <3>1, <3>2
  <2>4. CASE i \in 1..Len(q)
    <3>1. Append(q, m)[i] = q[i]  BY <2>4, AppendProperties
    <3>2. b[i] = ReadingsOf(q)[i]  BY <1>1, <1>4, <2>4, AppendProperties
    <3>3. ReadingsOf(q)[i] = q[i].reading  BY <2>1, <2>4 DEF ReadingsOf
    <3> QED  BY <2>2, <3>1, <3>2, <3>3
  <2>5. i = Len(q) + 1 \/ i \in 1..Len(q)  BY <1>2
  <2> QED  BY <2>3, <2>4, <2>5
<1> HIDE DEF a, b
<1>7. a = b  BY <1>3, <1>5, <1>6, SeqEqual
<1> QED  BY <1>7 DEF a, b

\* A request leaves the queue with its reading.
LEMMA ReadingsTail ==
  ASSUME NEW q \in Seq(Requests), q # << >>
  PROVE  /\ ReadingsOf(q) # << >> /\ Head(ReadingsOf(q)) = Head(q).reading
         /\ ReadingsOf(Tail(q)) = Tail(ReadingsOf(q))
<1> DEFINE r == ReadingsOf(q)
           a == ReadingsOf(Tail(q))
           b == Tail(r)
<1>1. r \in Seq(Reading) /\ Len(r) = Len(q)  BY ReadingsType
<1>2. /\ Tail(q) \in Seq(Requests) /\ Len(Tail(q)) = Len(q) - 1
      /\ \A i \in 1..Len(Tail(q)) : Tail(q)[i] = q[i + 1]
  BY HeadTailProperties
<1>3. Len(q) \in Nat \ {0}  BY EmptySeq
<1>4. r # << >>  BY <1>1, <1>3
<1>5. a \in Seq(Reading) /\ Len(a) = Len(q) - 1  BY <1>2, ReadingsType
<1>6. /\ b \in Seq(Reading) /\ Len(b) = Len(q) - 1
      /\ \A i \in 1..Len(b) : b[i] = r[i + 1]
  BY <1>1, <1>4, HeadTailProperties
<1>7. DOMAIN q = 1..Len(q) /\ DOMAIN Tail(q) = 1..(Len(q) - 1)
  BY <1>2, LenProperties
<1>8. \A i \in 1..Len(q) : r[i] = q[i].reading  BY <1>7 DEF ReadingsOf
<1>9. \A i \in 1..Len(a) : a[i] = q[i + 1].reading
  BY <1>2, <1>5, <1>7 DEF ReadingsOf
<1>10. Head(r) = Head(q).reading  BY <1>3, <1>8 DEF Head
<1> HIDE DEF a, b, r
<1>11. \A i \in 1..Len(a) : a[i] = b[i]  BY <1>3, <1>5, <1>6, <1>8, <1>9
<1>12. a = b  BY <1>5, <1>6, <1>11, SeqEqual
<1> QED  BY <1>4, <1>10, <1>12 DEF a, b, r

\* A queue stays ascending when what joins it comes after all of it.
LEMMA AscendingAppend ==
  ASSUME NEW s \in Seq(Reading), NEW e \in Reading, Ascending(s), Before(ToSet(s), {e})
  PROVE  Ascending(Append(s, e))
<1>1. /\ Append(s, e) \in Seq(Reading) /\ Len(Append(s, e)) = Len(s) + 1
      /\ \A i \in 1..Len(s) : Append(s, e)[i] = s[i]
      /\ Append(s, e)[Len(s) + 1] = e
  BY AppendProperties
<1>2. DOMAIN s = 1..Len(s) /\ DOMAIN Append(s, e) = 1..(Len(s) + 1) /\ Len(s) \in Nat
  BY <1>1, LenProperties
<1>3. \A i \in 1..Len(s) : InOrder(s[i], e)  BY <1>2 DEF Before, ToSet
<1>4. \A i, j \in 1..Len(s) : i < j => InOrder(s[i], s[j])  BY <1>2 DEF Ascending
<1>5. ASSUME NEW i \in 1..(Len(s) + 1), NEW j \in 1..(Len(s) + 1), i < j
      PROVE  InOrder(Append(s, e)[i], Append(s, e)[j])
  <2>1. i \in 1..Len(s)  BY <1>2, <1>5
  <2>2. CASE j = Len(s) + 1  BY <1>1, <1>3, <2>1, <2>2
  <2>3. CASE j \in 1..Len(s)  BY <1>1, <1>4, <1>5, <2>1, <2>3
  <2> QED  BY <1>2, <2>2, <2>3
<1> QED  BY <1>2, <1>5 DEF Ascending

\* The head of an ascending queue comes before the rest, which is ascending.
LEMMA AscendingTail ==
  ASSUME NEW s \in Seq(Reading), s # << >>, Ascending(s)
  PROVE  Ascending(Tail(s)) /\ Before({Head(s)}, ToSet(Tail(s)))
<1>1. /\ Tail(s) \in Seq(Reading) /\ Len(Tail(s)) = Len(s) - 1
      /\ \A i \in 1..Len(Tail(s)) : Tail(s)[i] = s[i + 1]
  BY HeadTailProperties
<1>2. DOMAIN s = 1..Len(s) /\ DOMAIN Tail(s) = 1..(Len(s) - 1) /\ Len(s) \in Nat \ {0}
  BY <1>1, LenProperties, EmptySeq
<1>3. Head(s) = s[1]  BY DEF Head
<1>4. \A i, j \in 1..Len(s) : i < j => InOrder(s[i], s[j])  BY <1>2 DEF Ascending
<1>5. Ascending(Tail(s))
  <2>1. ASSUME NEW i \in 1..(Len(s) - 1), NEW j \in 1..(Len(s) - 1), i < j
        PROVE  InOrder(Tail(s)[i], Tail(s)[j])
    <3>1. i + 1 \in 1..Len(s) /\ j + 1 \in 1..Len(s) /\ i + 1 < j + 1
      BY <1>2, <2>1
    <3>2. InOrder(s[i + 1], s[j + 1])  BY <1>4, <3>1
    <3> QED  BY <1>1, <3>2
  <2> QED  BY <1>2, <2>1 DEF Ascending
<1>6. \A i \in 1..(Len(s) - 1) : InOrder(s[1], Tail(s)[i])
  <2>1. ASSUME NEW i \in 1..(Len(s) - 1)  PROVE InOrder(s[1], s[i + 1])
    BY <1>2, <1>4
  <2> QED  BY <1>1, <2>1
<1> QED  BY <1>2, <1>3, <1>5, <1>6 DEF Before, ToSet

\* Nothing gets out of order when readings are dropped.
LEMMA LineShrinks ==
  ASSUME NEW P, NEW H, NEW Q, NEW R, NEW I, InLine(P, H, Q, R, I),
         NEW P2 \in SUBSET P, NEW H2 \in SUBSET H, NEW Q2 \in SUBSET Q,
         NEW R2 \in SUBSET R, NEW I2 \in SUBSET I
  PROVE  InLine(P2, H2, Q2, R2, I2)
BY DEF InLine, Before

\* The three stages, in the order run_pipeline calls them.
LEMMA StageFacts ==
  /\ Len(Stages) = 3
  /\ Stages[1] = "convert" /\ Stages[2] = "contextualize" /\ Stages[3] = "publish"
  /\ StageNames = {"convert", "contextualize", "publish"}
<1>1. Len(Stages) = 3 /\ DOMAIN Stages = 1..3  BY DEF Stages
<1>2. Stages[1] = "convert" /\ Stages[2] = "contextualize" /\ Stages[3] = "publish"
  BY DEF Stages
<1>3. StageNames = {Stages[i] : i \in 1..3}  BY <1>1 DEF StageNames, ToSet
<1>4. 1..3 = {1, 2, 3}  OBVIOUS
<1> HIDE DEF Stages
<1> QED  BY <1>1, <1>2, <1>3, <1>4

(***************************************************************************)
(* Type correctness.                                                       *)
(***************************************************************************)

\* What an adapter emits is a reading; it goes to the end of both logs.
LEMMA EmitTypes ==
  ASSUME TypeOK, NEW a \in Adapters, NEW n \in Nodes, NEW q \in Qualities, Emit(a, n, q)
  PROVE  /\ sequence' \in [Nodes -> Nat]
         /\ readings' \in Seq(Reading) /\ ingress' \in Seq(Reading)
<1> DEFINE r == [node |-> n, quality |-> q, position |-> <<link[a].epoch, sequence[n] + 1>>]
<1>1. r \in Reading  BY DEF TypeOK, Reading, Link
<1>2. readings' = Append(readings, r) /\ ingress' = Append(ingress, r)
  BY DEF Emit
<1>3. sequence' \in [Nodes -> Nat]  BY DEF Emit, TypeOK
<1> HIDE DEF r
<1>4. readings' \in Seq(Reading) /\ ingress' \in Seq(Reading)
  BY <1>1, <1>2, AppendProperties DEF TypeOK
<1> QED  BY <1>3, <1>4

\* A run that gives up ends with a dead letter for the stage it was at.
LEMMA DeadLetterTypes ==
  ASSUME TypeOK, run # Idle, DeadLetter
  PROVE  run' = Idle /\ dlq' \subseteq Reading \X StageNames
<1>1. run.reading \in Reading /\ run.stage \in 1..3  BY DEF TypeOK, Run
<1>2. Stages[run.stage] \in StageNames  BY <1>1, StageFacts
<1> QED  BY <1>1, <1>2 DEF DeadLetter, TypeOK

\* A worker's reply.
LEMMA RespondTypes ==
  ASSUME TypeOK, NEW m \in Requests, NEW st \in {"ok", "error"}, Respond(m, st)
  PROVE  inbox' \subseteq [to : Requests, status : {"ok", "error"}]
BY DEF Respond, TypeOK

\* A request leaves the front of a stage's queue.
LEMMA PopTypes ==
  ASSUME TypeOK, NEW s \in StageNames, work[s] # << >>,
         work' = [work EXCEPT ![s] = Tail(@)]
  PROVE  /\ Head(work[s]) \in Requests
         /\ work' \in [StageNames -> Seq(Requests)]
<1>1. work[s] \in Seq(Requests)  BY DEF TypeOK
<1>2. Head(work[s]) \in Requests /\ Tail(work[s]) \in Seq(Requests)  BY <1>1, ToSetTail
<1> QED  BY <1>2 DEF TypeOK

LEMMA FaultTypes ==
  ASSUME TypeOK, Fault
  PROVE  faults' \in 0..MaxFaults
BY BoundsAssumption DEF TypeOK, Fault

\* Steps of the adapters keep the types.
LEMMA AdapterTypes ==
  ASSUME TypeOK, (\E a \in Adapters : Connect(a) \/ Disconnect(a)) \/ DataChange \/ Poll
  PROVE  TypeOK'
<1>1. ASSUME NEW a \in Adapters, Connect(a)  PROVE TypeOK'
  <2>1. link' \in [Adapters -> Link]
    <3> DEFINE new == [up |-> TRUE, epoch |-> link[a].epoch + 1, next |-> 1]
    <3>1. link[a].epoch \in Nat  BY DEF TypeOK, Link
    <3>2. new \in Link  BY <3>1 DEF Link
    <3>3. link' = [link EXCEPT ![a] = new]  BY <1>1 DEF Connect
    <3> HIDE DEF new
    <3> QED  BY <3>2, <3>3 DEF TypeOK
  <2>2. sequence' \in [Nodes -> Nat]  BY <1>1 DEF Connect, TypeOK
  <2> QED  BY <1>1, <2>1, <2>2 DEF Connect, TypeOK, workVars, mqttVars, outcomeVars
<1>2. ASSUME NEW a \in Adapters, Disconnect(a)  PROVE TypeOK'
  <2>1. link' \in [Adapters -> Link]
    <3> DEFINE new == [link[a] EXCEPT !.up = FALSE]
    <3>1. link[a] \in Link  BY DEF TypeOK
    <3>2. new \in Link  BY <3>1 DEF Link
    <3>3. link' = [link EXCEPT ![a] = new]  BY <1>2 DEF Disconnect
    <3> HIDE DEF new
    <3> QED  BY <3>2, <3>3 DEF TypeOK
  <2>2. faults' \in 0..MaxFaults  BY <1>2, FaultTypes DEF Disconnect
  <2> QED  BY <1>2, <2>1, <2>2 DEF Disconnect, TypeOK, workVars, mqttVars, outcomeVars
<1>3. CASE DataChange
  <2>1. PICK n \in OpcuaNodes, q \in Qualities : Emit("opcua", n, q)
    BY <1>3 DEF DataChange, Qualities
  <2>2. n \in Nodes /\ "opcua" \in Adapters  BY DEF Nodes, Adapters
  <2>3. /\ sequence' \in [Nodes -> Nat]
        /\ readings' \in Seq(Reading) /\ ingress' \in Seq(Reading)
    BY <2>1, <2>2, EmitTypes
  <2> QED  BY <1>3, <2>3 DEF DataChange, TypeOK, workVars, mqttVars, outcomeVars
<1>4. CASE Poll
  <2> DEFINE n == PollList[link["s7"].next]
  <2>1. "s7" \in Adapters /\ "good" \in Qualities  BY DEF Adapters, Qualities
  <2>2. link["s7"].next \in 1..Len(PollList) /\ Len(PollList) \in Nat \ {0}
    BY <1>4, <2>1, NodesAssumption, EmptySeq DEF Poll, TypeOK, Link
  <2>3. n \in Nodes  BY <2>2, NodesAssumption, ElementOfSeq DEF Nodes
  <2>4. Emit("s7", n, "good")  BY <1>4 DEF Poll
  <2> HIDE DEF n
  <2>5. /\ sequence' \in [Nodes -> Nat]
        /\ readings' \in Seq(Reading) /\ ingress' \in Seq(Reading)
    BY <2>1, <2>3, <2>4, EmitTypes
  <2>6. link' \in [Adapters -> Link]
    <3> DEFINE i == IF link["s7"].next = Len(PollList) THEN 1 ELSE link["s7"].next + 1
               new == [link["s7"] EXCEPT !.next = i]
    <3>1. link["s7"] \in Link  BY <2>1 DEF TypeOK
    <3>2. i \in 1..Len(PollList) \cup {1}  BY <2>2
    <3>3. link' = [link EXCEPT !["s7"] = new]  BY <1>4 DEF Poll
    <3> HIDE DEF i
    <3>4. new \in Link  BY <3>1, <3>2 DEF Link
    <3> HIDE DEF new
    <3> QED  BY <3>3, <3>4 DEF TypeOK
  <2> QED  BY <1>4, <2>5, <2>6 DEF Poll, TypeOK, workVars, mqttVars, outcomeVars
<1> QED  BY <1>1, <1>2, <1>3, <1>4

\* Steps of the orchestrator keep the types.
LEMMA OrchestratorTypes ==
  ASSUME TypeOK, Orchestrate \/ NoResponders \/ Timeout \/ Crash
  PROVE  TypeOK'
<1> USE DEF adapterVars, workVars, mqttVars, outcomeVars, Run
<1>1. CASE Take
  <2>1. Head(ingress) \in Reading /\ Tail(ingress) \in Seq(Reading)
    BY <1>1, ToSetTail DEF Take, TypeOK
  <2>2. run' \in Run
    BY <1>1, <2>1 DEF Take
  <2> QED  BY <1>1, <2>1, <2>2 DEF Take, TypeOK
<1>2. CASE Send
  <2>1. run \in Run
    BY <1>2 DEF Send, TypeOK, Idle
  <2>2. Stages[run.stage] \in StageNames  BY <2>1, StageFacts
  <2>3. Request \in Requests  BY <2>1, <2>2 DEF Request, Requests
  <2>4. work[Stages[run.stage]] \in Seq(Requests)  BY <2>2 DEF TypeOK
  <2>5. Append(work[Stages[run.stage]], Request) \in Seq(Requests)
    BY <2>3, <2>4, AppendProperties
  <2>6. work' \in [StageNames -> Seq(Requests)]  BY <1>2, <2>2, <2>5 DEF Send, TypeOK
  <2>7. run' \in Run
    BY <1>2, <2>1 DEF Send
  <2> QED  BY <1>2, <2>6, <2>7 DEF Send, TypeOK
<1>3. CASE ReplyError
  <2>1. run # Idle /\ DeadLetter /\ inbox' \subseteq inbox /\ UNCHANGED <<work, faults>>
    BY <1>3 DEF ReplyError, Replies, Idle
  <2>2. run' = Idle /\ dlq' \subseteq Reading \X StageNames  BY <2>1, DeadLetterTypes
  <2> QED  BY <2>1, <2>2 DEF DeadLetter, TypeOK
<1>4. CASE ReplyOk
  <2>1. run \in Run
    BY <1>4 DEF ReplyOk, Replies, TypeOK, Idle
  <2>2. /\ inbox' \subseteq inbox
        /\ IF run.stage < 3
           THEN run' = [run EXCEPT !.pc = "send", !.stage = @ + 1] /\ UNCHANGED succeeded
           ELSE run' = Idle /\ succeeded' = succeeded \cup {run.reading}
        /\ UNCHANGED <<adapterVars, ingress, work, handling, mqttVars, dlq, abandoned, faults>>
    BY <1>4, StageFacts DEF ReplyOk
  <2>3. run' \in {Idle} \cup Run
    <3>1. CASE run.stage < 3
      <4>1. run' = [run EXCEPT !.pc = "send", !.stage = run.stage + 1]  BY <2>2, <3>1
      <4>2. run.stage + 1 \in 1..3  BY <2>1, <3>1
      <4> QED  BY <2>1, <4>1, <4>2
    <3>2. CASE ~(run.stage < 3)  BY <2>2, <3>2
    <3> QED  BY <3>1, <3>2
  <2>4. succeeded' \subseteq Reading  BY <2>1, <2>2 DEF TypeOK
  <2> QED  BY <2>2, <2>3, <2>4 DEF TypeOK
<1>5. CASE NoResponders
  <2>1. run # Idle /\ DeadLetter /\ Fault /\ UNCHANGED <<work, inbox>>
    BY <1>5 DEF NoResponders, Idle
  <2>2. run' = Idle /\ dlq' \subseteq Reading \X StageNames  BY <2>1, DeadLetterTypes
  <2>3. faults' \in 0..MaxFaults  BY <2>1, FaultTypes
  <2> QED  BY <2>1, <2>2, <2>3 DEF DeadLetter, TypeOK
<1>6. CASE Timeout
  <2>1. run # Idle /\ DeadLetter /\ (Fault \/ UNCHANGED faults) /\ UNCHANGED <<work, inbox>>
    BY <1>6 DEF Timeout, Idle
  <2>2. run' = Idle /\ dlq' \subseteq Reading \X StageNames  BY <2>1, DeadLetterTypes
  <2>3. faults' \in 0..MaxFaults  BY <2>1, FaultTypes DEF TypeOK
  <2> QED  BY <2>1, <2>2, <2>3 DEF DeadLetter, TypeOK
<1>7. CASE Crash
  <2>1. faults' \in 0..MaxFaults  BY <1>7, FaultTypes DEF Crash
  <2>2. abandoned' \subseteq Reading  BY <1>7 DEF Crash, TypeOK
  <2> QED  BY <1>7, <2>1, <2>2 DEF Crash, TypeOK
<1> QED  BY <1>1, <1>2, <1>3, <1>4, <1>5, <1>6, <1>7 DEF Orchestrate

\* Steps of the workers keep the types.
LEMMA WorkerTypes ==
  ASSUME TypeOK, Work \/ \E s \in StageNames : LoseRequest(s)
  PROVE  TypeOK'
<1> USE DEF adapterVars, workVars, mqttVars, outcomeVars
<1>1. ASSUME NEW s \in StageNames, NEW ok, Serve(s, ok)  PROVE TypeOK'
  <2> DEFINE st == IF Head(work[s]).reading \in ok THEN "ok" ELSE "error"
  <2>1. work[s] # << >> /\ work' = [work EXCEPT ![s] = Tail(@)] /\ Respond(Head(work[s]), st)
    BY <1>1 DEF Serve
  <2>2. st \in {"ok", "error"}  OBVIOUS
  <2> HIDE DEF st
  <2>3. Head(work[s]) \in Requests /\ work' \in [StageNames -> Seq(Requests)]
    BY <2>1, PopTypes
  <2>4. inbox' \subseteq [to : Requests, status : {"ok", "error"}]
    BY <2>1, <2>2, <2>3, RespondTypes
  <2> QED  BY <1>1, <2>3, <2>4 DEF Serve, TypeOK
<1>2. CASE Convert  BY <1>1, <1>2, StageFacts DEF Convert
<1>3. CASE Contextualize  BY <1>1, <1>3, StageFacts DEF Contextualize
<1>4. CASE BeginPublish
  <2>1. "publish" \in StageNames  BY StageFacts
  <2>2. Head(work["publish"]) \in Requests /\ work' \in [StageNames -> Seq(Requests)]
    BY <1>4, <2>1, PopTypes DEF BeginPublish
  <2>3. CASE mqtt.client = 0
    <3>1. Respond(Head(work["publish"]), "error") /\ UNCHANGED handling
      BY <1>4, <2>3 DEF BeginPublish
    <3>2. inbox' \subseteq [to : Requests, status : {"ok", "error"}]
      BY <2>2, <3>1, RespondTypes
    <3> QED  BY <1>4, <2>2, <3>1, <3>2 DEF BeginPublish, TypeOK
  <2>4. CASE mqtt.client # 0
    <3>1. /\ handling' = [on |-> mqtt.client, request |-> Head(work["publish"]), sent |-> FALSE]
          /\ UNCHANGED inbox
      BY <1>4, <2>4 DEF BeginPublish
    <3>2. handling' \in [on : Nat, request : Requests, sent : BOOLEAN]
      BY <2>2, <3>1 DEF TypeOK
    <3> QED  BY <1>4, <2>2, <3>1, <3>2 DEF BeginPublish, TypeOK
  <2> QED  BY <2>3, <2>4
<1>5. CASE Accept
  <2>1. handling \in [on : Nat, request : Requests, sent : BOOLEAN]
    BY <1>5 DEF Accept, TypeOK
  <2>2. handling.request.reading \in Reading  BY <2>1 DEF Requests
  <2>3. published' \in Seq(Reading)
    BY <1>5, <2>2, AppendProperties DEF Accept, TypeOK
  <2>4. handling' \in [on : Nat, request : Requests, sent : BOOLEAN]
    BY <1>5, <2>1 DEF Accept
  <2> QED  BY <1>5, <2>3, <2>4 DEF Accept, TypeOK
<1>6. CASE EndPublish
  <2>1. handling.request \in Requests  BY <1>6 DEF EndPublish, TypeOK
  <2>2. inbox' \subseteq [to : Requests, status : {"ok", "error"}]
    BY <1>6, <2>1, RespondTypes DEF EndPublish
  <2> QED  BY <1>6, <2>2 DEF EndPublish, TypeOK
<1>7. CASE FailPublish
  <2>1. handling.request \in Requests  BY <1>7 DEF FailPublish, TypeOK
  <2>2. inbox' \subseteq [to : Requests, status : {"ok", "error"}]
    BY <1>7, <2>1, RespondTypes DEF FailPublish
  <2>3. faults' \in 0..MaxFaults  BY <1>7, FaultTypes DEF FailPublish, TypeOK
  <2>4. mqtt' \in [loop : {"connecting", "waiting", "sleeping"}, client : Nat, last : Nat,
                   event : BOOLEAN]
    BY <1>7 DEF FailPublish, TypeOK
  <2> QED  BY <1>7, <2>2, <2>3, <2>4 DEF FailPublish, TypeOK
<1>8. ASSUME NEW s \in StageNames, LoseRequest(s)  PROVE TypeOK'
  <2>1. work' \in [StageNames -> Seq(Requests)]  BY <1>8, PopTypes DEF LoseRequest
  <2>2. faults' \in 0..MaxFaults  BY <1>8, FaultTypes DEF LoseRequest
  <2> QED  BY <1>8, <2>1, <2>2 DEF LoseRequest, TypeOK
<1> QED  BY <1>2, <1>3, <1>4, <1>5, <1>6, <1>7, <1>8 DEF Work

\* Steps of the connection task keep the types.
LEMMA MqttTypes ==
  ASSUME TypeOK, Reconnect \/ MqttDrop \/ MqttRefused
  PROVE  TypeOK'
<1> USE DEF adapterVars, workVars, outcomeVars, MqttUnchanged
<1> DEFINE M == [loop : {"connecting", "waiting", "sleeping"}, client : Nat, last : Nat,
                 event : BOOLEAN]
<1>1. mqtt \in M  BY DEF TypeOK
<1>2. Disconnected \in M  BY <1>1 DEF Disconnected
<1>3. [mqtt EXCEPT !.loop = "connecting"] \in M  BY <1>1
<1>4. CASE MqttConnect
  <2>1. mqtt.last + 1 \in Nat  BY <1>1
  <2>2. mqtt' \in M  BY <1>4, <2>1 DEF MqttConnect
  <2>3. alive' \subseteq Nat  BY <1>4, <2>1 DEF MqttConnect, TypeOK
  <2> QED  BY <1>4, <2>2, <2>3 DEF MqttConnect, TypeOK
<1>5. CASE MqttWake
  <2>1. mqtt' \in M /\ alive' \subseteq Nat  BY <1>2, <1>3, <1>5 DEF MqttWake, TypeOK
  <2> QED  BY <1>5, <2>1 DEF MqttWake, TypeOK
<1>6. CASE MqttSleep
  <2>1. mqtt' \in M  BY <1>3, <1>6 DEF MqttSleep
  <2> QED  BY <1>6, <2>1 DEF MqttSleep, TypeOK
<1>7. CASE MqttDrop
  <2>1. faults' \in 0..MaxFaults  BY <1>7, FaultTypes DEF MqttDrop
  <2> QED  BY <1>7, <2>1 DEF MqttDrop, TypeOK
<1>8. CASE MqttRefused
  <2>1. faults' \in 0..MaxFaults  BY <1>8, FaultTypes DEF MqttRefused
  <2>2. mqtt' \in M  BY <1>2, <1>8 DEF MqttRefused
  <2> QED  BY <1>8, <2>1, <2>2 DEF MqttRefused, TypeOK
<1> QED  BY <1>4, <1>5, <1>6, <1>7, <1>8 DEF Reconnect

\* Every step keeps the types.
LEMMA TypeStep ==
  ASSUME TypeOK, [Next]_vars
  PROVE  TypeOK'
<1>1. CASE UNCHANGED vars
  BY <1>1 DEF vars, adapterVars, workVars, mqttVars, outcomeVars, TypeOK
<1>2. CASE Next
  BY <1>2, AdapterTypes, OrchestratorTypes, WorkerTypes, MqttTypes DEF Next
<1> QED  BY <1>1, <1>2

(***************************************************************************)
(* Successes are real.                                                     *)
(***************************************************************************)

\* Taking the front request from a queue leaves addressed requests.
LEMMA PopAddress ==
  ASSUME TypeOK, AddressInv, NEW s \in StageNames, work[s] # << >>,
         work' = [work EXCEPT ![s] = Tail(@)]
  PROVE  AddressInv' /\ Head(work[s]).stage = s
<1>1. work[s] \in Seq(Requests) /\ work'[s] = Tail(work[s])  BY DEF TypeOK
<1>2. /\ Len(Tail(work[s])) = Len(work[s]) - 1 /\ Tail(work[s]) \in Seq(Requests)
      /\ \A i \in 1..Len(Tail(work[s])) : Tail(work[s])[i] = work[s][i + 1]
  BY <1>1, HeadTailProperties
<1>3. /\ DOMAIN work[s] = 1..Len(work[s]) /\ Len(work[s]) \in Nat \ {0}
      /\ DOMAIN Tail(work[s]) = 1..(Len(work[s]) - 1)
  BY <1>1, <1>2, LenProperties, EmptySeq
<1>4. \A i \in 1..Len(work[s]) : work[s][i].stage = s  BY <1>3 DEF AddressInv
<1>5. \A i \in DOMAIN work'[s] : work'[s][i].stage = s
  <2>1. ASSUME NEW i \in 1..(Len(work[s]) - 1)  PROVE Tail(work[s])[i].stage = s
    BY <1>2, <1>3, <1>4
  <2> QED  BY <1>1, <1>3, <2>1
<1>6. \A t \in StageNames : t # s => work'[t] = work[t]  BY DEF TypeOK
<1>7. AddressInv'
  <2>1. ASSUME NEW t \in StageNames, t # s, NEW i \in DOMAIN work'[t]
        PROVE  work'[t][i].stage = t
    BY <1>6, <2>1 DEF AddressInv
  <2> QED  BY <1>5, <2>1 DEF AddressInv
<1>8. Head(work[s]).stage = s  BY <1>3, <1>4 DEF Head
<1> QED  BY <1>7, <1>8

\* Requests are addressed to the stage at which they wait.
LEMMA AddressStep ==
  ASSUME TypeOK, AddressInv, [Next]_vars
  PROVE  AddressInv'
<1> USE DEF adapterVars, workVars, mqttVars, outcomeVars
<1>1. CASE UNCHANGED work  BY <1>1 DEF AddressInv
<1>2. CASE Send
  <2> DEFINE s == Stages[run.stage]
             q == work[s]
  <2>1. run.stage \in 1..3 /\ run.reading \in Reading  BY <1>2 DEF Send, TypeOK, Run, Idle
  <2>2. s \in StageNames  BY <2>1, StageFacts
  <2>3. Request \in Requests /\ Request.stage = s  BY <2>1, <2>2 DEF Request, Requests
  <2>4. q \in Seq(Requests)  BY <2>2 DEF TypeOK
  <2>5. work' = [work EXCEPT ![s] = Append(q, Request)]  BY <1>2 DEF Send
  <2>6. \A i \in DOMAIN q : q[i].stage = s  BY <2>2 DEF AddressInv
  <2> HIDE DEF s, q
  <2>7. /\ Append(q, Request) \in Seq(Requests) /\ Len(Append(q, Request)) = Len(q) + 1
        /\ \A i \in 1..Len(q) : Append(q, Request)[i] = q[i]
        /\ Append(q, Request)[Len(q) + 1] = Request
    BY <2>3, <2>4, AppendProperties
  <2>8. DOMAIN q = 1..Len(q) /\ Len(q) \in Nat /\ DOMAIN Append(q, Request) = 1..(Len(q) + 1)
    BY <2>4, <2>7, LenProperties
  <2>9. \A i \in DOMAIN Append(q, Request) : Append(q, Request)[i].stage = s
    BY <2>3, <2>6, <2>7, <2>8
  <2> QED  BY <2>2, <2>5, <2>9 DEF AddressInv, TypeOK
<1>3. CASE Convert \/ Contextualize
  BY <1>3, PopAddress, StageFacts DEF Convert, Contextualize, Serve
<1>4. CASE BeginPublish  BY <1>4, PopAddress, StageFacts DEF BeginPublish
<1>5. ASSUME NEW s \in StageNames, LoseRequest(s)  PROVE AddressInv'
  BY <1>5, PopAddress DEF LoseRequest
<1>6. UNCHANGED work \/ Send \/ Convert \/ Contextualize \/ BeginPublish
        \/ \E s \in StageNames : LoseRequest(s)
  BY DEF Next, Orchestrate, Work, Reconnect, vars, Connect, Disconnect, DataChange, Poll, Take,
         ReplyError, ReplyOk, NoResponders, Timeout, Crash, Accept, EndPublish, FailPublish,
         MqttConnect, MqttWake, MqttSleep, MqttDrop, MqttRefused, MqttUnchanged
<1> QED  BY <1>1, <1>2, <1>3, <1>4, <1>5, <1>6

\* What the publish worker confirms, the broker has.
LEMMA ConfirmStep ==
  ASSUME TypeOK, AddressInv, ConfirmInv, [Next]_vars
  PROVE  ConfirmInv'
<1> USE DEF adapterVars, workVars, mqttVars, outcomeVars
<1>1. CASE UNCHANGED <<handling, published>> /\ inbox' \subseteq inbox
  BY <1>1 DEF ConfirmInv
<1>2. ASSUME NEW s \in StageNames, NEW ok, s # "publish", Serve(s, ok)  PROVE ConfirmInv'
  <2>1. Head(work[s]).stage = s  BY <1>2, PopAddress DEF Serve
  <2>2. \A m \in inbox' : m \in inbox \/ m.to = Head(work[s])
    BY <1>2 DEF Serve, Respond
  <2>3. UNCHANGED <<handling, published>>  BY <1>2 DEF Serve
  <2> QED  BY <1>2, <2>1, <2>2, <2>3 DEF ConfirmInv
<1>3. CASE Convert \/ Contextualize
  BY <1>2, <1>3, StageFacts DEF Convert, Contextualize
<1>4. CASE BeginPublish
  <2>1. \A m \in inbox' : m \in inbox \/ m.status = "error"
    BY <1>4 DEF BeginPublish, Respond
  <2>2. handling' = NoJob \/ ~handling'.sent  BY <1>4 DEF BeginPublish
  <2> QED  BY <1>4, <2>1, <2>2 DEF BeginPublish, ConfirmInv
<1>5. CASE Accept
  <2>1. handling \in [on : Nat, request : Requests, sent : BOOLEAN]
    BY <1>5 DEF Accept, TypeOK
  <2>2. handling.request.reading \in Reading  BY <2>1 DEF Requests
  <2>3. ToSet(published') = ToSet(published) \cup {handling.request.reading}
    BY <1>5, <2>2, ToSetAppend DEF Accept, TypeOK
  <2>4. handling'.request = handling.request /\ UNCHANGED inbox
    BY <1>5, <2>1 DEF Accept
  <2> QED  BY <2>3, <2>4 DEF ConfirmInv
<1>6. CASE EndPublish
  <2>1. \A m \in inbox' : m \in inbox \/ m.to = handling.request
    BY <1>6 DEF EndPublish, Respond
  <2>2. handling.request.reading \in ToSet(published)  BY <1>6 DEF EndPublish, ConfirmInv
  <2>3. handling' = NoJob /\ UNCHANGED published  BY <1>6 DEF EndPublish
  <2> QED  BY <2>1, <2>2, <2>3 DEF ConfirmInv
<1>7. CASE FailPublish
  <2>1. \A m \in inbox' : m \in inbox \/ m.status = "error"
    BY <1>7 DEF FailPublish, Respond
  <2>2. handling' = NoJob /\ UNCHANGED published  BY <1>7 DEF FailPublish
  <2> QED  BY <2>1, <2>2 DEF ConfirmInv
<1>8. \/ UNCHANGED <<handling, published>> /\ inbox' \subseteq inbox
      \/ Convert \/ Contextualize \/ BeginPublish \/ Accept \/ EndPublish \/ FailPublish
  BY DEF Next, Orchestrate, Work, Reconnect, vars, Connect, Disconnect, DataChange, Poll, Take,
         Send, ReplyError, ReplyOk, NoResponders, Timeout, DeadLetter, Crash, LoseRequest,
         MqttConnect, MqttWake, MqttSleep, MqttDrop, MqttRefused, MqttUnchanged
<1> QED  BY <1>1, <1>3, <1>4, <1>5, <1>6, <1>7, <1>8

\* A run succeeds on its own publish request's confirmation.
LEMMA SuccessStep ==
  ASSUME TypeOK, ConfirmInv, SuccessIsPublished, [Next]_vars
  PROVE  SuccessIsPublished'
<1> USE DEF adapterVars, workVars, mqttVars, outcomeVars
<1>1. CASE UNCHANGED <<succeeded, published>>  BY <1>1 DEF SuccessIsPublished
<1>2. CASE ReplyOk
  <2>1. PICK m \in Replies :
          /\ m.status = "ok"
          /\ \/ UNCHANGED succeeded
             \/ ~(run.stage < 3) /\ succeeded' = succeeded \cup {run.reading}
    BY <1>2, StageFacts DEF ReplyOk
  <2>2. UNCHANGED published  BY <1>2 DEF ReplyOk
  <2>3. m \in inbox /\ run.pc = "wait" /\ m.to = Request  BY DEF Replies
  <2>4. run.stage \in 1..3  BY <2>3 DEF TypeOK, Run, Idle
  <2>5. CASE ~(run.stage < 3) /\ succeeded' = succeeded \cup {run.reading}
    <3>1. run.stage = 3  BY <2>4, <2>5
    <3>2. m.to.stage = "publish" /\ m.to.reading = run.reading
      BY <2>3, <3>1, StageFacts DEF Request
    <3>3. run.reading \in ToSet(published)  BY <2>1, <2>3, <3>2 DEF ConfirmInv
    <3> QED  BY <2>2, <2>5, <3>3 DEF SuccessIsPublished
  <2>6. CASE UNCHANGED succeeded  BY <2>2, <2>6 DEF SuccessIsPublished
  <2> QED  BY <2>1, <2>5, <2>6
<1>3. CASE Accept
  <2>1. handling.request.reading \in Reading  BY <1>3 DEF Accept, TypeOK, Requests
  <2>2. ToSet(published') = ToSet(published) \cup {handling.request.reading}
    BY <1>3, <2>1, ToSetAppend DEF Accept, TypeOK
  <2> QED  BY <1>3, <2>2 DEF Accept, SuccessIsPublished
<1>4. UNCHANGED <<succeeded, published>> \/ ReplyOk \/ Accept
  BY DEF Next, Orchestrate, Work, Reconnect, vars, Connect, Disconnect, DataChange, Poll, Take,
         Send, ReplyError, NoResponders, Timeout, DeadLetter, Crash, LoseRequest, Convert,
         Contextualize, Serve, BeginPublish, EndPublish, FailPublish,
         MqttConnect, MqttWake, MqttSleep, MqttDrop, MqttRefused, MqttUnchanged
<1> QED  BY <1>1, <1>2, <1>3, <1>4

(***************************************************************************)
(* Positions ascend along the line.                                        *)
(***************************************************************************)

\* Nothing of the order is lost when the queues stay and readings are dropped
\* from the orchestrator's or the publish worker's hands.
LEMMA Dropped ==
  ASSUME OrderInv, UNCHANGED <<published, ingress, sequence>>,
         work'["publish"] = work["publish"],
         \A a \in Adapters : link'[a].epoch = link[a].epoch,
         InHand' \subseteq InHand, Running' \subseteq Running
  PROVE  OrderInv'
<1>1. Queue' = Queue  BY DEF Queue, ReadingsOf
<1>2. QueueInv'  BY <1>1 DEF OrderInv, QueueInv
<1>3. LineInv'
  <2>1. InLine(ToSet(published), InHand', ToSet(Queue), Running', ToSet(ingress))
    BY LineShrinks DEF OrderInv, LineInv
  <2> QED  BY <1>1, <2>1 DEF LineInv
<1>4. ASSUME NEW r \in InTheLine'  PROVE Issued(r)'
  <2>1. r \in InTheLine  BY <1>1 DEF InTheLine
  <2>2. Issued(r)  BY <2>1 DEF OrderInv, IssuedInv
  <2>3. AdapterOf(r.node) \in Adapters  BY DEF AdapterOf, Adapters
  <2> QED  BY <2>2, <2>3 DEF Issued
<1>5. IssuedInv'  BY <1>4 DEF IssuedInv
<1> QED  BY <1>2, <1>3, <1>5 DEF OrderInv

\* No position is above the latest when readings only move along the line.
LEMMA IssuedMoves ==
  ASSUME IssuedInv, UNCHANGED <<link, sequence>>, InTheLine' \subseteq InTheLine
  PROVE  IssuedInv'
<1>1. ASSUME NEW r \in InTheLine'  PROVE Issued(r)'
  <2>1. Issued(r)  BY <1>1 DEF IssuedInv
  <2> QED  BY <2>1 DEF Issued
<1> QED  BY <1>1 DEF IssuedInv

\* Whatever stands in the line is a reading.
LEMMA LineTypes ==
  ASSUME TypeOK
  PROVE  InTheLine \subseteq Reading /\ Queue \in Seq(Reading)
<1>1. ASSUME NEW s \in Seq(Reading)  PROVE ToSet(s) \subseteq Reading
  BY LenProperties, ElementOfSeq DEF ToSet
<1>2. Queue \in Seq(Reading)
  <2>1. work["publish"] \in Seq(Requests)  BY StageFacts DEF TypeOK
  <2> QED  BY <2>1, ReadingsType DEF Queue
<1>3. InHand \subseteq Reading /\ Running \subseteq Reading
  BY DEF InHand, Running, TypeOK, Run, Requests
<1>4. ToSet(published) \subseteq Reading /\ ToSet(ingress) \subseteq Reading
  BY <1>1 DEF TypeOK
<1>5. ToSet(Queue) \subseteq Reading  BY <1>1, <1>2
<1> QED  BY <1>2, <1>3, <1>4, <1>5 DEF InTheLine

\* A new reading goes behind all others: its position is its node's highest.
LEMMA EmitOrder ==
  ASSUME TypeOK, OrderInv, NEW a \in Adapters, NEW n \in NodesOf(a), NEW q \in Qualities,
         Emit(a, n, q), UNCHANGED <<published, handling, work, run>>,
         \A b \in Adapters : link'[b].epoch = link[b].epoch
  PROVE  OrderInv'
<1> DEFINE new == [node |-> n, quality |-> q, position |-> <<link[a].epoch, sequence[n] + 1>>]
<1>1. n \in Nodes /\ AdapterOf(n) = a
  BY NodesAssumption DEF NodesOf, Nodes, AdapterOf, Adapters
<1>2. link[a].epoch \in Nat /\ sequence[n] \in Nat  BY <1>1 DEF TypeOK, Link
<1>3. /\ new \in Reading /\ new.node = n
      /\ new.position = <<link[a].epoch, sequence[n] + 1>>
  BY <1>1, <1>2 DEF Reading
<1>4. /\ ingress' = Append(ingress, new)
      /\ sequence' = [sequence EXCEPT ![n] = sequence[n] + 1]
  BY DEF Emit
<1> HIDE DEF new
<1>5. ToSet(ingress') = ToSet(ingress) \cup {new}
  BY <1>3, <1>4, ToSetAppend DEF TypeOK
<1>6. ASSUME NEW r \in InTheLine  PROVE InOrder(r, new)
  <2>1. r \in Reading /\ Issued(r)  BY LineTypes DEF OrderInv, IssuedInv
  <2>2. r.position[1] \in Nat /\ r.position[2] \in Nat  BY <2>1 DEF Reading
  <2>3. CASE r.node = n
    <3>1. \/ r.position[1] < link[a].epoch
          \/ r.position[1] = link[a].epoch /\ r.position[2] <= sequence[n]
      BY <1>1, <2>1, <2>3 DEF Issued
    <3>2. new.position[1] = link[a].epoch /\ new.position[2] = sequence[n] + 1  BY <1>3
    <3> QED  BY <1>2, <2>2, <3>1, <3>2 DEF InOrder, Precedes
  <2>4. CASE r.node # n  BY <1>3, <2>4 DEF InOrder
  <2> QED  BY <2>3, <2>4
<1>7. Queue' = Queue /\ InHand' = InHand /\ Running' = Running
  BY DEF Queue, InHand, Running
<1>8. QueueInv'
  <2>1. Before(ToSet(ingress), {new})  BY <1>6 DEF Before, InTheLine
  <2>2. Ascending(ingress')
    BY <1>3, <1>4, <2>1, AscendingAppend DEF OrderInv, QueueInv, TypeOK
  <2> QED  BY <1>7, <2>2 DEF OrderInv, QueueInv
<1>9. LineInv'
  <2>1. InLine(ToSet(published), InHand, ToSet(Queue), Running, ToSet(ingress) \cup {new})
    BY <1>6 DEF OrderInv, LineInv, InLine, Before, InTheLine
  <2> QED  BY <1>5, <1>7, <2>1 DEF LineInv
<1>10. ASSUME NEW r \in InTheLine'  PROVE Issued(r)'
  <2>1. r \in InTheLine \/ r = new  BY <1>5, <1>7 DEF InTheLine
  <2>2. CASE r = new
    <3>1. sequence'[n] = sequence[n] + 1  BY <1>1, <1>4 DEF TypeOK
    <3>2. r.position[1] = link'[a].epoch /\ r.position[2] = sequence'[n]  BY <1>3, <2>2, <3>1
    <3>3. AdapterOf(r.node) = a /\ r.node = n  BY <1>1, <1>3, <2>2
    <3>4. sequence'[n] \in Nat  BY <1>2, <3>1
    <3> QED  BY <3>2, <3>3, <3>4 DEF Issued
  <2>3. CASE r \in InTheLine
    <3>1. r \in Reading /\ Issued(r)  BY <2>3, LineTypes DEF OrderInv, IssuedInv
    <3>2. r.node \in Nodes /\ r.position[2] \in Nat  BY <3>1 DEF Reading
    <3>3. sequence[r.node] \in Nat /\ sequence'[r.node] \in {sequence[r.node], sequence[r.node] + 1}
      BY <1>1, <1>4, <3>2 DEF TypeOK
    <3>4. r.position[2] <= sequence[r.node] => r.position[2] <= sequence'[r.node]
      BY <3>2, <3>3
    <3>5. link'[AdapterOf(r.node)].epoch = link[AdapterOf(r.node)].epoch
      BY DEF AdapterOf, Adapters
    <3> QED  BY <3>1, <3>4, <3>5 DEF Issued
  <2> QED  BY <2>1, <2>2, <2>3
<1>11. IssuedInv'  BY <1>10 DEF IssuedInv
<1> QED  BY <1>8, <1>9, <1>11 DEF OrderInv

\* A new epoch is above every position its adapter has given.
LEMMA ConnectOrder ==
  ASSUME TypeOK, OrderInv, NEW a \in Adapters, Connect(a)
  PROVE  OrderInv'
<1> USE DEF workVars, mqttVars
<1>1. UNCHANGED <<published, ingress, handling, work, run>>  BY DEF Connect
<1>2. Queue' = Queue /\ InHand' = InHand /\ Running' = Running
  BY <1>1 DEF Queue, InHand, Running
<1>3. LineInv' /\ QueueInv'  BY <1>1, <1>2 DEF OrderInv, LineInv, QueueInv
<1>4. ASSUME NEW r \in InTheLine'  PROVE Issued(r)'
  <2>1. r \in InTheLine  BY <1>1, <1>2 DEF InTheLine
  <2>2. r \in Reading /\ Issued(r)  BY <2>1, LineTypes DEF OrderInv, IssuedInv
  <2>3. r.node \in Nodes /\ r.position[1] \in Nat  BY <2>2 DEF Reading
  <2> DEFINE b == AdapterOf(r.node)
  <2>4. b \in Adapters /\ r.node \in NodesOf(b) /\ (a # b => r.node \notin NodesOf(a))
    BY <2>3, NodesAssumption DEF AdapterOf, Adapters, NodesOf, Nodes
  <2>5. link[b].epoch \in Nat  BY <2>4 DEF TypeOK, Link
  <2>6. CASE a = b
    <3>1. link'[b].epoch = link[b].epoch + 1  BY <2>4, <2>6 DEF Connect, TypeOK
    <3>2. r.position[1] <= link[b].epoch  BY <2>2, <2>3, <2>5 DEF Issued
    <3> QED  BY <2>3, <2>5, <3>1, <3>2 DEF Issued
  <2>7. CASE a # b
    <3>1. link'[b] = link[b]  BY <2>4, <2>7 DEF Connect, TypeOK
    <3>2. sequence'[r.node] = sequence[r.node]  BY <2>3, <2>4, <2>7 DEF Connect
    <3> QED  BY <2>2, <3>1, <3>2 DEF Issued
  <2> QED  BY <2>6, <2>7
<1>5. IssuedInv'  BY <1>4 DEF IssuedInv
<1> QED  BY <1>3, <1>5 DEF OrderInv

\* The orchestrator takes the front of the readings not yet taken.
LEMMA TakeOrder ==
  ASSUME TypeOK, OrderInv, Take
  PROVE  OrderInv'
<1> USE DEF adapterVars, workVars, mqttVars
<1> DEFINE r == Head(ingress)
<1>1. /\ run = Idle /\ ingress # << >> /\ ingress' = Tail(ingress)
      /\ UNCHANGED <<published, handling, work, link, sequence>>
  BY DEF Take
<1>2. Running = {} /\ Running' = {r}
  <2>1. run'.pc = "send" /\ run'.reading = r /\ run' # Idle  BY DEF Take, Idle
  <2> QED  BY <1>1, <2>1 DEF Running
<1>3. Queue' = Queue /\ InHand' = InHand  BY <1>1 DEF Queue, InHand
<1>4. r \in ToSet(ingress) /\ ToSet(Tail(ingress)) \subseteq ToSet(ingress)
  BY <1>1, ToSetTail DEF TypeOK
<1>5. Ascending(Tail(ingress)) /\ Before({r}, ToSet(Tail(ingress)))
  BY <1>1, AscendingTail DEF TypeOK, OrderInv, QueueInv
<1> HIDE DEF r
<1>6. QueueInv'  BY <1>1, <1>3, <1>5 DEF OrderInv, QueueInv
<1>7. LineInv'
  <2>1. InLine(ToSet(published), InHand, ToSet(Queue), {r}, ToSet(Tail(ingress)))
    BY <1>4, <1>5 DEF OrderInv, LineInv, InLine, Before
  <2> QED  BY <1>1, <1>2, <1>3, <2>1 DEF LineInv
<1>8. InTheLine' \subseteq InTheLine  BY <1>1, <1>2, <1>3, <1>4 DEF InTheLine
<1>9. IssuedInv'  BY <1>1, <1>8, IssuedMoves DEF OrderInv
<1> QED  BY <1>6, <1>7, <1>9 DEF OrderInv

\* The run's publish request goes to the end of the publish worker's queue.
LEMMA SendOrder ==
  ASSUME TypeOK, OrderInv, Send
  PROVE  OrderInv'
<1> USE DEF adapterVars, mqttVars
<1>1. run \in Run /\ run.pc = "send" /\ run # Idle  BY DEF Send, TypeOK, Idle
<1>2. UNCHANGED <<published, ingress, handling, link, sequence>>  BY DEF Send
<1>3. InHand' = InHand /\ Running = {run.reading}  BY <1>1, <1>2 DEF InHand, Running
<1>4. run'.pc = "wait" /\ run'.stage = run.stage /\ run'.reading = run.reading
  BY <1>1 DEF Send, Run
<1>5. CASE run.stage = 3
  <2> DEFINE r == run.reading
             q == work["publish"]
  <2>1. Running' = {}  BY <1>4, <1>5 DEF Running
  <2>2. Request \in Requests /\ Request.reading = r
    BY <1>1, <1>5, StageFacts DEF Request, Requests, Run
  <2>3. q \in Seq(Requests) /\ work'["publish"] = Append(q, Request)
    BY <1>5, StageFacts DEF Send, TypeOK
  <2>4. r \in Reading  BY <1>1 DEF Run
  <2> HIDE DEF r, q
  <2>5. Queue' = Append(Queue, r)
    BY <2>2, <2>3, ReadingsAppend DEF Queue, q
  <2>6. Queue \in Seq(Reading)  BY LineTypes
  <2>7. ToSet(Queue') = ToSet(Queue) \cup {r}  BY <2>4, <2>5, <2>6, ToSetAppend
  <2>8. Running = {r}  BY <1>3 DEF r
  <2>9. QueueInv'
    <3>1. Before(ToSet(Queue), {r})  BY <2>8 DEF OrderInv, LineInv, InLine, Before
    <3>2. Ascending(Queue')
      BY <2>4, <2>5, <2>6, <3>1, AscendingAppend DEF OrderInv, QueueInv
    <3> QED  BY <1>2, <3>2 DEF OrderInv, QueueInv
  <2>10. LineInv'
    <3>1. InLine(ToSet(published), InHand, ToSet(Queue) \cup {r}, {}, ToSet(ingress))
      BY <2>8 DEF OrderInv, LineInv, InLine, Before
    <3> QED  BY <1>2, <1>3, <2>1, <2>7, <3>1 DEF LineInv
  <2>11. InTheLine' \subseteq InTheLine
    BY <1>2, <1>3, <2>1, <2>7, <2>8 DEF InTheLine
  <2>12. IssuedInv'  BY <1>2, <2>11, IssuedMoves DEF OrderInv
  <2> QED  BY <2>9, <2>10, <2>12 DEF OrderInv
<1>6. CASE run.stage # 3
  <2>1. Stages[run.stage] \in StageNames \ {"publish"}
    BY <1>1, <1>6, StageFacts DEF Run
  <2>2. work'["publish"] = work["publish"]  BY <2>1, StageFacts DEF Send, TypeOK
  <2>3. Running' \subseteq Running  BY <1>3, <1>4 DEF Running
  <2> QED  BY <1>2, <1>3, <2>2, <2>3, Dropped
<1> QED  BY <1>5, <1>6

\* The front of the publish worker's queue is dropped, or taken in hand.
LEMMA PopOrder ==
  ASSUME TypeOK, OrderInv, work["publish"] # << >>,
         work' = [work EXCEPT !["publish"] = Tail(@)],
         UNCHANGED <<published, ingress, run, link, sequence>>,
         \/ UNCHANGED handling
         \/ /\ handling = NoJob /\ handling' # NoJob
            /\ handling'.request = Head(work["publish"])
  PROVE  OrderInv'
<1> DEFINE r == Head(Queue)
<1>1. work["publish"] \in Seq(Requests) /\ work'["publish"] = Tail(work["publish"])
  BY StageFacts DEF TypeOK
<1>2. /\ Queue # << >> /\ r = Head(work["publish"]).reading /\ Queue' = Tail(Queue)
  BY <1>1, ReadingsTail DEF Queue
<1>3. Queue \in Seq(Reading)  BY LineTypes
<1>4. r \in ToSet(Queue) /\ ToSet(Queue') \subseteq ToSet(Queue)  BY <1>2, <1>3, ToSetTail
<1>5. Ascending(Queue') /\ Before({r}, ToSet(Queue'))
  BY <1>2, <1>3, AscendingTail DEF OrderInv, QueueInv
<1> HIDE DEF r
<1>6. Running' = Running  BY DEF Running
<1>7. QueueInv'  BY <1>5 DEF OrderInv, QueueInv
<1>8. InHand' \subseteq InHand \/ (InHand = {} /\ InHand' \subseteq {r})
  BY <1>2 DEF InHand
<1>9. LineInv'
  <2>1. CASE InHand' \subseteq InHand
    <3>1. InLine(ToSet(published), InHand', ToSet(Queue'), Running, ToSet(ingress))
      BY <1>4, <2>1, LineShrinks DEF OrderInv, LineInv
    <3> QED  BY <1>6, <3>1 DEF LineInv
  <2>2. CASE InHand = {} /\ InHand' \subseteq {r}
    <3>1. InLine(ToSet(published), {r}, ToSet(Queue'), Running, ToSet(ingress))
      BY <1>4, <1>5 DEF OrderInv, LineInv, InLine, Before
    <3>2. InLine(ToSet(published), InHand', ToSet(Queue'), Running, ToSet(ingress))
      BY <2>2, <3>1, LineShrinks
    <3> QED  BY <1>6, <3>2 DEF LineInv
  <2> QED  BY <1>8, <2>1, <2>2
<1>10. InTheLine' \subseteq InTheLine  BY <1>4, <1>6, <1>8 DEF InTheLine
<1>11. IssuedInv'  BY <1>10, IssuedMoves DEF OrderInv
<1> QED  BY <1>7, <1>9, <1>11 DEF OrderInv

\* The broker accepts the reading in hand, which is next in line.
LEMMA AcceptOrder ==
  ASSUME TypeOK, OrderInv, Accept
  PROVE  OrderInv'
<1> USE DEF adapterVars
<1> DEFINE r == handling.request.reading
<1>1. handling \in [on : Nat, request : Requests, sent : BOOLEAN] /\ ~handling.sent
  BY DEF Accept, TypeOK
<1>2. /\ published' = Append(published, r)
      /\ UNCHANGED <<ingress, run, work, link, sequence>>
  BY DEF Accept
<1>3. InHand = {r}  BY DEF Accept, InHand
<1>4. handling'.sent  BY <1>1 DEF Accept
<1>5. InHand' = {}  BY <1>4 DEF InHand
<1>6. r \in Reading  BY <1>1 DEF Requests
<1>7. Queue' = Queue /\ Running' = Running  BY <1>2 DEF Queue, Running
<1> HIDE DEF r
<1>8. ToSet(published') = ToSet(published) \cup {r}  BY <1>2, <1>6, ToSetAppend DEF TypeOK
<1>9. QueueInv'
  <2>1. Before(ToSet(published), {r})  BY <1>3 DEF OrderInv, LineInv, InLine, Before
  <2>2. Ascending(published')
    BY <1>2, <1>6, <2>1, AscendingAppend DEF OrderInv, QueueInv, TypeOK
  <2> QED  BY <1>2, <1>7, <2>2 DEF OrderInv, QueueInv
<1>10. LineInv'
  <2>1. InLine(ToSet(published) \cup {r}, {}, ToSet(Queue), Running, ToSet(ingress))
    BY <1>3 DEF OrderInv, LineInv, InLine, Before
  <2> QED  BY <1>2, <1>5, <1>7, <1>8, <2>1 DEF LineInv
<1>11. InTheLine' \subseteq InTheLine  BY <1>2, <1>3, <1>5, <1>7, <1>8 DEF InTheLine
<1>12. IssuedInv'  BY <1>2, <1>11, IssuedMoves DEF OrderInv
<1> QED  BY <1>9, <1>10, <1>12 DEF OrderInv

\* Every step keeps the line in order.
LEMMA OrderStep ==
  ASSUME TypeOK, OrderInv, [Next]_vars
  PROVE  OrderInv'
<1> USE DEF adapterVars, workVars, mqttVars, outcomeVars
<1>1. ASSUME NEW a \in Adapters, Connect(a)  PROVE OrderInv'
  BY <1>1, ConnectOrder
<1>2. ASSUME NEW a \in Adapters, Disconnect(a)  PROVE OrderInv'
  <2>1. UNCHANGED <<published, ingress, sequence, work, handling, run>>
    BY <1>2 DEF Disconnect
  <2>2. \A b \in Adapters : link'[b].epoch = link[b].epoch
    BY <1>2 DEF Disconnect, TypeOK, Link
  <2>3. InHand' = InHand /\ Running' = Running  BY <2>1 DEF InHand, Running
  <2> QED  BY <2>1, <2>2, <2>3, Dropped
<1>3. CASE DataChange
  <2>1. PICK n \in OpcuaNodes, q \in Qualities : Emit("opcua", n, q)
    BY <1>3 DEF DataChange, Qualities
  <2>2. "opcua" \in Adapters /\ n \in NodesOf("opcua")  BY DEF Adapters, NodesOf
  <2>3. UNCHANGED <<published, handling, work, run, link>>  BY <1>3 DEF DataChange
  <2> QED  BY <2>1, <2>2, <2>3, EmitOrder
<1>4. CASE Poll
  <2> DEFINE n == PollList[link["s7"].next]
  <2>1. "s7" \in Adapters /\ "good" \in Qualities  BY DEF Adapters, Qualities
  <2>2. link["s7"].next \in 1..Len(PollList)
    BY <1>4, <2>1, NodesAssumption, EmptySeq DEF Poll, TypeOK, Link
  <2>3. n \in NodesOf("s7")  BY <2>2, NodesAssumption, ElementOfSeq DEF NodesOf
  <2>4. Emit("s7", n, "good")  BY <1>4 DEF Poll
  <2>5. UNCHANGED <<published, handling, work, run>>  BY <1>4 DEF Poll
  <2>6. \A b \in Adapters : link'[b].epoch = link[b].epoch
    BY <1>4 DEF Poll, TypeOK, Link
  <2> HIDE DEF n
  <2> QED  BY <2>1, <2>3, <2>4, <2>5, <2>6, EmitOrder
<1>5. CASE Take  BY <1>5, TakeOrder
<1>6. CASE Send  BY <1>6, SendOrder
<1>7. CASE UNCHANGED <<published, ingress, sequence, work, link, handling>>
             /\ (run' = run \/ run' = Idle)
  <2>1. InHand' = InHand /\ Running' \subseteq Running  BY <1>7 DEF InHand, Running
  <2> QED  BY <1>7, <2>1, Dropped
<1>8. CASE ReplyOk
  <2>1. run \in Run /\ run.pc = "wait"  BY <1>8 DEF ReplyOk, Replies, TypeOK, Idle
  <2>2. UNCHANGED <<published, ingress, sequence, work, link, handling>>  BY <1>8 DEF ReplyOk
  <2>3. run' = Idle \/ (run.stage < 3 /\ run' = [run EXCEPT !.pc = "send", !.stage = @ + 1])
    BY <1>8, StageFacts DEF ReplyOk
  <2>4. CASE run.stage < 3 /\ run' = [run EXCEPT !.pc = "send", !.stage = @ + 1]
    <3>1. run'.reading = run.reading  BY <2>1, <2>4 DEF Run
    <3>2. run # Idle /\ run.stage # 3  BY <2>1, <2>4 DEF Idle, Run
    <3>3. Running = {run.reading}  BY <3>2 DEF Running
    <3>4. Running' \subseteq {run.reading}  BY <3>1 DEF Running
    <3>5. InHand' = InHand  BY <2>2 DEF InHand
    <3> QED  BY <2>2, <3>3, <3>4, <3>5, Dropped
  <2>5. CASE run' = Idle  BY <1>7, <2>2, <2>5
  <2> QED  BY <2>3, <2>4, <2>5
<1>9. CASE Convert \/ Contextualize
  <2>1. /\ UNCHANGED <<published, ingress, sequence, link, handling, run>>
        /\ work'["publish"] = work["publish"]
    BY <1>9, StageFacts DEF Convert, Contextualize, Serve, TypeOK
  <2>2. InHand' = InHand /\ Running' = Running  BY <2>1 DEF InHand, Running
  <2> QED  BY <2>1, <2>2, Dropped
<1>10. CASE BeginPublish
  <2>1. \/ UNCHANGED handling
        \/ /\ handling = NoJob /\ handling' # NoJob
           /\ handling'.request = Head(work["publish"])
    BY <1>10 DEF BeginPublish, NoJob
  <2> QED  BY <1>10, <2>1, PopOrder DEF BeginPublish
<1>11. CASE Accept  BY <1>11, AcceptOrder
<1>12. CASE EndPublish \/ FailPublish
  <2>1. /\ UNCHANGED <<published, ingress, sequence, work, link, run>> /\ handling' = NoJob
    BY <1>12 DEF EndPublish, FailPublish
  <2>2. InHand' \subseteq InHand /\ Running' = Running  BY <2>1 DEF InHand, Running
  <2> QED  BY <2>1, <2>2, Dropped
<1>13. ASSUME NEW s \in StageNames, LoseRequest(s)  PROVE OrderInv'
  <2>1. UNCHANGED <<published, ingress, sequence, link, handling, run>>
    BY <1>13 DEF LoseRequest
  <2>2. CASE s = "publish"  BY <1>13, <2>1, <2>2, PopOrder DEF LoseRequest
  <2>3. CASE s # "publish"
    <3>1. work'["publish"] = work["publish"]
      BY <1>13, <2>3, StageFacts DEF LoseRequest, TypeOK
    <3>2. InHand' = InHand /\ Running' = Running  BY <2>1 DEF InHand, Running
    <3> QED  BY <2>1, <3>1, <3>2, Dropped
  <2> QED  BY <2>2, <2>3
<1>14. ReplyError \/ NoResponders \/ Timeout \/ Crash \/ Reconnect \/ MqttDrop \/ MqttRefused
         \/ UNCHANGED vars
       => UNCHANGED <<published, ingress, sequence, work, link, handling>>
            /\ (run' = run \/ run' = Idle)
  BY DEF ReplyError, NoResponders, Timeout, DeadLetter, Crash, Reconnect, MqttConnect, MqttWake,
         MqttSleep, MqttDrop, MqttRefused, MqttUnchanged, vars
<1> QED
  BY <1>1, <1>2, <1>3, <1>4, <1>5, <1>6, <1>7, <1>8, <1>9, <1>10, <1>11, <1>12, <1>13, <1>14
  DEF Next, Orchestrate, Work

(***************************************************************************)
(* The theorems.                                                           *)
(***************************************************************************)

\* The services start with nothing read, queued or published.
LEMMA InitInv ==
  ASSUME Init
  PROVE  IInv
<1>1. TypeOK
  <2>1. link \in [Adapters -> Link]  BY DEF Init, Link
  <2>2. sequence \in [Nodes -> Nat]  BY DEF Init
  <2>3. readings \in Seq(Reading) /\ ingress \in Seq(Reading) /\ published \in Seq(Reading)
    BY EmptySeq DEF Init
  <2>4. work \in [StageNames -> Seq(Requests)]  BY EmptySeq DEF Init
  <2>5. mqtt \in [loop : {"connecting", "waiting", "sleeping"}, client : Nat, last : Nat,
                  event : BOOLEAN]
    BY DEF Init
  <2>6. faults \in 0..MaxFaults  BY BoundsAssumption DEF Init
  <2> QED  BY <2>1, <2>2, <2>3, <2>4, <2>5, <2>6 DEF Init, TypeOK
<1>2. DOMAIN << >> = {}  OBVIOUS
<1>3. AddressInv  BY <1>2 DEF Init, AddressInv
<1>4. ConfirmInv /\ SuccessIsPublished  BY DEF Init, ConfirmInv, SuccessIsPublished
<1>5. Queue = << >>  BY StageFacts DEF Init, Queue, ReadingsOf
<1>6. /\ ToSet(published) = {} /\ ToSet(ingress) = {} /\ ToSet(Queue) = {}
      /\ InHand = {} /\ Running = {}
  BY <1>2, <1>5 DEF Init, ToSet, InHand, Running
<1>7. LineInv /\ IssuedInv
  BY <1>6 DEF LineInv, InLine, Before, IssuedInv, InTheLine
<1>8. QueueInv  BY <1>2, <1>5 DEF Init, QueueInv, Ascending
<1> QED  BY <1>1, <1>3, <1>4, <1>7, <1>8 DEF IInv, OrderInv

\* The inductive invariant holds in every reachable state.
THEOREM Inductive == Spec => []IInv
<1>1. Init => IInv  BY InitInv
<1>2. IInv /\ [Next]_vars => IInv'
  BY TypeStep, AddressStep, ConfirmStep, SuccessStep, OrderStep DEF IInv
<1> QED  BY <1>1, <1>2, PTL DEF Spec

\* Type correctness of the adapters, the orchestrator and the workers.
THEOREM TypeCorrect == Spec => []TypeOK
<1>1. IInv => TypeOK  BY DEF IInv
<1> QED  BY <1>1, Inductive, PTL

\* Whatever timed out, was lost or answered late: a reading that run_pipeline
\* counts as a success was accepted by the broker.
THEOREM SuccessesArePublished == Spec => []SuccessIsPublished
<1>1. IInv => SuccessIsPublished  BY DEF IInv
<1> QED  BY <1>1, Inductive, PTL

\* Through timeouts, lost requests, restarts and reconnections of both adapters,
\* the namespace shows each node's readings in the order of their positions.
THEOREM PublicationsInOrder == Spec => []PublishedInOrder
<1>1. IInv => PublishedInOrder
  BY DEF IInv, OrderInv, QueueInv, Ascending, InOrder, PublishedInOrder
<1> QED  BY <1>1, Inductive, PTL

\* One publication per reading: no two observations of the namespace are of the
\* same node and position, so a retry or a late worker never repeats one.
THEOREM PublishedOnce ==
  Spec => [](\A i, j \in DOMAIN published :
               i # j => \/ published[i].node # published[j].node
                        \/ published[i].position # published[j].position)
<1> DEFINE Once == \A i, j \in DOMAIN published :
                     i # j => \/ published[i].node # published[j].node
                              \/ published[i].position # published[j].position
<1>1. ASSUME IInv  PROVE Once
  <2>1. ASSUME NEW r \in Reading, NEW q \in Reading, InOrder(r, q), r.node = q.node
        PROVE  r.position # q.position
    BY <2>1 DEF InOrder, Precedes, Reading
  <2>2. /\ DOMAIN published = 1..Len(published) /\ Len(published) \in Nat
        /\ \A i \in 1..Len(published) : published[i] \in Reading
    BY <1>1, LenProperties, ElementOfSeq DEF IInv, TypeOK
  <2>3. \A i, j \in 1..Len(published) : i < j => InOrder(published[i], published[j])
    BY <1>1, <2>2 DEF IInv, OrderInv, QueueInv, Ascending
  <2>4. ASSUME NEW i \in 1..Len(published), NEW j \in 1..Len(published), i # j,
               published[i].node = published[j].node
        PROVE  published[i].position # published[j].position
    <3>1. CASE i < j  BY <2>1, <2>2, <2>3, <2>4, <3>1
    <3>2. CASE j < i  BY <2>1, <2>2, <2>3, <2>4, <3>2
    <3> QED  BY <2>2, <2>4, <3>1, <3>2
  <2> QED  BY <2>2, <2>4
<1> QED  BY <1>1, Inductive, PTL

=============================================================================
