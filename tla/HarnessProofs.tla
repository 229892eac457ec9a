--------------------------- MODULE HarnessProofs ---------------------------
(***************************************************************************)
(* The safety properties of ExperimentHarness, for any requests, series,   *)
(* limit of pending requests and number of polls.                          *)
(*                                                                         *)
(* What a run reports rests on three things that are settled at different  *)
(* times: the summary of the load process, the series the scraper has seen *)
(* and the pods that came back.  The invariant says of each from which     *)
(* step on it no longer changes, so that it still holds when _result reads *)
(* it and after the run.                                                   *)
(***************************************************************************)
EXTENDS ExperimentHarness, SequenceTheorems, TLAPS

Inside == {"open", "connect", "settle", "work", "delete", "recover", "query", "cool"}
Alive == {"running", "draining"}
Pods == {"untouched", "pending", "running"}

RunType ==
  /\ exp \in {"a", "b", "c"}
  /\ pc \in Inside \cup {"reap", "stop", "close", "done"}
  /\ raised \in {"none", "error", "cancel"}
  /\ forwards \in [AllPorts -> {"absent", "starting", "up", "gone", "stopped"}]
  /\ attempt \in Nat
  /\ files \subseteq {"collection", "generator", "process", "run"}
  /\ outcome \in {"none", "ok", "failed", "incomplete", "interrupted"}

Child == [state : {"none", "running", "draining", "ended", "killed"}, exit : Int,
          stopped : BOOLEAN, expired : BOOLEAN]
ChildType ==
  child \in Child /\ requests \in [Requests -> {"new", "waiting", "ok", "err", "unresolved"}]

PodType == pods \in Seq([recovered : BOOLEAN, phase : Pods]) /\ pod \in Pods /\ overdue \in BOOLEAN

Task == [state : {"off", "polling", "waiting", "done"}, polls : Nat, issue : BOOLEAN,
         stop : BOOLEAN, seen : SUBSET Series, ever : SUBSET Series]
ScraperType == scraper \in Task

TypeOK == RunType /\ ChildType /\ PodType /\ ScraperType

\* An exception that is on its way out has left the body.
RaisedInv == pc \in Inside => raised = "none"

\* Only the experiment's own ports are forwarded; one still starting after the
\* forwards have been opened was interrupted there.
ForwardInv ==
  \A p \in AllPorts :
    /\ (\A i \in DOMAIN Ports[exp] : Ports[exp][i] # p) => forwards[p] = "absent"
    /\ pc # "open" /\ forwards[p] = "starting" => raised = "cancel"

\* Forwards are opened one at a time, in order.
OpeningInv ==
  pc = "open" =>
    \A i, j \in DOMAIN Ports[exp] :
      j < i /\ forwards[Ports[exp][i]] = "starting" =>
        forwards[Ports[exp][j]] \notin {"absent", "starting"}

\* The child lives only between its start and its reaping.
ChildInv ==
  /\ pc \notin {"work", "reap"} => child.state \notin Alive
  /\ exp = "b" => child.state = "none"
  /\ child.stopped => exp = "a"

\* The summary is written when nothing is pending, and nothing is sent after it.
GeneratorInv ==
  "generator" \in files => exp = "c" /\ child.state = "ended" /\ WithState("waiting") = {}

\* Without an issue the last poll has seen every series there ever was; the
\* task has ended when the run closes its forwards.
ScraperInv ==
  /\ ~scraper.issue => scraper.seen = scraper.ever
  /\ pc = "open" => scraper.state = "off"
  /\ pc \in {"close", "done"} => scraper.state \in {"off", "done"}

\* A pod that recovered was running; a run of b that nothing disturbed has
\* deleted a pod of every label when it leaves its body.
PodInv ==
  /\ \A i \in 1..Len(pods) : pods[i].recovered => pods[i].phase = "running"
  /\ pc \in {"open", "connect", "settle"} => Len(pods) = 0
  /\ pc \in {"delete", "recover", "query"} \/ (exp = "b" /\ pc = "work") => Len(pods) < Labels
  /\ exp = "b" => pc # "reap" /\ Len(pods) <= Labels
  /\ exp = "b" /\ raised = "none" /\ pc \in {"stop", "close", "done"} => Len(pods) = Labels

\* "ok" is the outcome of a finished run, and earned.
OkInv == OkIsEarned /\ (outcome = "ok" => pc = "done")

IInv ==
  /\ TypeOK /\ RaisedInv /\ ForwardInv /\ OpeningInv /\ ChildInv /\ GeneratorInv /\ ScraperInv
  /\ PodInv /\ OkInv /\ NothingLeftRunning

\* The first and the last of a set of ports.
LEMMA Extremes ==
  ASSUME NEW S \in SUBSET (1..3), S # {}
  PROVE  /\ Min(S) \in S /\ \A k \in S : Min(S) <= k
         /\ Max(S) \in S /\ \A k \in S : k <= Max(S)
<1>1. \E x \in S : \A y \in S : x <= y
  <2>1. CASE 1 \in S  BY <2>1
  <2>2. CASE 1 \notin S /\ 2 \in S  BY <2>2
  <2>3. CASE 1 \notin S /\ 2 \notin S
    <3>1. PICK z \in S : TRUE  OBVIOUS
    <3>2. \A y \in S : y = 3  BY <2>3
    <3>3. \A y \in S : z <= y  BY <3>2
    <3> QED  BY <3>3
  <2> QED  BY <2>1, <2>2, <2>3
<1>2. \E x \in S : \A y \in S : x >= y
  <2>1. CASE 3 \in S  BY <2>1
  <2>2. CASE 3 \notin S /\ 2 \in S  BY <2>2
  <2>3. CASE 3 \notin S /\ 2 \notin S
    <3>1. PICK z \in S : TRUE  OBVIOUS
    <3>2. \A y \in S : y = 1  BY <2>3
    <3>3. \A y \in S : z >= y  BY <3>2
    <3> QED  BY <3>3
  <2> QED  BY <2>1, <2>2, <2>3
<1>3. Min(S) \in S /\ \A k \in S : Min(S) <= k  BY <1>1 DEF Min
<1>4. Max(S) \in S /\ \A k \in S : Max(S) >= k  BY <1>2 DEF Max
<1> QED  BY <1>3, <1>4

\* The forwards of an experiment.
LEMMA OwnPorts ==
  ASSUME exp \in {"a", "b", "c"}
  PROVE  /\ DOMAIN Ports[exp] \subseteq 1..3
         /\ \A i \in DOMAIN Ports[exp] : Ports[exp][i] \in AllPorts
         /\ \A i, j \in DOMAIN Ports[exp] : Ports[exp][i] = Ports[exp][j] => i = j
<1>1. CASE exp = "a"
  <2>1. Ports[exp] = <<"prometheus", "opcua", "amqp">>  BY <1>1 DEF Ports
  <2> QED  BY <2>1 DEF AllPorts
<1>2. CASE exp = "b"
  <2>1. Ports[exp] = <<"prometheus">>  BY <1>2 DEF Ports
  <2> QED  BY <2>1 DEF AllPorts
<1>3. CASE exp = "c"
  <2>1. Ports[exp] = <<"prometheus", "nats">>  BY <1>3 DEF Ports
  <2> QED  BY <2>1 DEF AllPorts
<1> QED  BY <1>1, <1>2, <1>3

\* The forward being opened, and the innermost one that is open.
LEMMA NextForward ==
  ASSUME exp \in {"a", "b", "c"}, Unopened # {}
  PROVE  /\ Min(Unopened) \in DOMAIN Ports[exp] /\ Ports[exp][Min(Unopened)] \in AllPorts
         /\ \A i \in DOMAIN Ports[exp] :
              forwards[Ports[exp][i]] \in {"absent", "starting"} => Min(Unopened) <= i
<1>1. Unopened \subseteq DOMAIN Ports[exp] /\ Unopened \subseteq 1..3  BY OwnPorts DEF Unopened
<1>2. Min(Unopened) \in Unopened /\ \A k \in Unopened : Min(Unopened) <= k  BY <1>1, Extremes
<1>3. \A i \in DOMAIN Ports[exp] : forwards[Ports[exp][i]] \in {"absent", "starting"} => i \in Unopened
  BY DEF Unopened
<1> QED  BY <1>1, <1>2, <1>3, OwnPorts

LEMMA LastForward ==
  ASSUME exp \in {"a", "b", "c"}, StillOpen # {}
  PROVE  Max(StillOpen) \in DOMAIN Ports[exp] /\ Ports[exp][Max(StillOpen)] \in AllPorts
<1>1. StillOpen \subseteq DOMAIN Ports[exp] /\ StillOpen \subseteq 1..3  BY OwnPorts DEF StillOpen
<1>2. Max(StillOpen) \in StillOpen  BY <1>1, Extremes
<1> QED  BY <1>1, <1>2, OwnPorts

\* Updates of the child's and the scraper's records.
LEMMA ChildUpdate ==
  ASSUME NEW c \in Child, NEW s \in {"none", "running", "draining", "ended", "killed"}
  PROVE  /\ [c EXCEPT !.state = s] \in Child
         /\ \A e \in Int : [c EXCEPT !.state = s, !.exit = e] \in Child
<1>1. [c EXCEPT !.state = s] \in Child  BY DEF Child
<1>2. ASSUME NEW e \in Int  PROVE [c EXCEPT !.state = s, !.exit = e] \in Child  BY DEF Child
<1> QED  BY <1>1, <1>2


LEMMA TaskUpdate ==
  ASSUME NEW t \in Task, NEW s \in {"off", "polling", "waiting", "done"}, NEW n \in Nat,
         NEW f \in SUBSET Series, NEW e \in SUBSET Series, NEW b \in BOOLEAN
  PROVE  /\ [t EXCEPT !.state = s, !.polls = n] \in Task
         /\ [t EXCEPT !.issue = b, !.state = s] \in Task
         /\ [t EXCEPT !.issue = b, !.state = s, !.seen = f, !.ever = e] \in Task
<1>1. [t EXCEPT !.state = s, !.polls = n] \in Task  BY DEF Task
<1>2. [t EXCEPT !.issue = b, !.state = s] \in Task  BY DEF Task
<1>3. [t EXCEPT !.issue = b, !.state = s, !.seen = f, !.ever = e] \in Task  BY DEF Task
<1> QED  BY <1>1, <1>2, <1>3

(***************************************************************************)
(* What each step does to each part of the invariant.  A lemma names the   *)
(* actions that touch its part; all others leave it as it is.              *)
(***************************************************************************)

\* Where a run stands, its forwards, files and outcome have their types.
LEMMA RunTypeStep ==
  ASSUME IInv, [Next]_vars
  PROVE  RunType'
<1>1. \/ MissingCredentials \/ OpenForward \/ ForwardReady \/ Opened \/ Connect \/ Settle
      \/ CoolDown \/ Flushed \/ ChildAwaited \/ Reap \/ DeletePod \/ Deleted \/ QueryPod \/ PodAnswered
      \/ CloseForward \/ Finish \/ Summarise \/ ForwardDies \/ Interrupt
      \/ UNCHANGED <<exp, pc, raised, forwards, attempt, files, outcome>>
  BY DEF Next, Harness, Kubectl, TimePasses, Generator, Scrape, Environment, Done, vars, childVars, podVars,
         StartChild, DisturbanceEnds, SendRequest, Reply, Deadline, BeginPoll, EndPoll,
         PodStarts, CancelScraper
<1>2. CASE MissingCredentials
  BY <1>2 DEF MissingCredentials, Raise, childVars, podVars, IInv, TypeOK, RunType, Inside
<1>3. CASE OpenForward
  <2>1. PICK p : forwards' = [forwards EXCEPT ![p] = "starting"]  BY <1>3 DEF OpenForward
  <2>2. forwards' \in [AllPorts -> {"absent", "starting", "up", "gone", "stopped"}]
    BY <2>1 DEF IInv, TypeOK, RunType
  <2> QED  BY <1>3, <2>2 DEF OpenForward, IInv, TypeOK, RunType
<1>4. CASE ForwardReady
  BY <1>4 DEF ForwardReady, Raise, childVars, podVars, IInv, TypeOK, RunType, Inside
<1>5. CASE Opened
  BY <1>5 DEF Opened, childVars, podVars, IInv, TypeOK, RunType, Inside
<1>6. CASE Connect
  BY <1>6 DEF Connect, Raise, childVars, podVars, IInv, TypeOK, RunType, Inside
<1>7. CASE Settle
  BY <1>7 DEF Settle, childVars, podVars, IInv, TypeOK, RunType, Inside
<1>8. CASE CoolDown
  BY <1>8 DEF CoolDown, LeaveBody, childVars, podVars, IInv, TypeOK, RunType, Inside
<1>9. CASE Flushed
  BY <1>9 DEF Flushed, Flush, childVars, podVars, IInv, TypeOK, RunType, Inside
<1>10. CASE ChildAwaited
  BY <1>10 DEF ChildAwaited, AwaitChild, childVars, podVars, IInv, TypeOK, RunType, Inside
<1>11. CASE Reap
  BY <1>11 DEF Reap, LeaveBody, Stopped, childVars, podVars, IInv, TypeOK, RunType, Inside
<1>12. CASE DeletePod \/ Deleted
  BY <1>12 DEF DeletePod, Deleted, LeaveBody, childVars, podVars, IInv, TypeOK, RunType, Inside
<1>13. CASE QueryPod \/ PodAnswered
  BY <1>13 DEF QueryPod, PodAnswered, WaitEnds, LeaveBody, childVars, podVars, IInv, TypeOK, RunType, Inside
<1>14. CASE CloseForward
  BY <1>14 DEF CloseForward, SignalInnermost, childVars, podVars, IInv, TypeOK, RunType, Inside
<1>15. CASE Finish
  BY <1>15 DEF Finish, childVars, podVars, IInv, TypeOK, RunType, Inside, Judged
<1>16. CASE Summarise
  BY <1>16 DEF Summarise, childVars, podVars, IInv, TypeOK, RunType, Inside
<1>17. CASE ForwardDies
  BY <1>17 DEF ForwardDies, childVars, podVars, IInv, TypeOK, RunType, Inside
<1>18. CASE Interrupt
  BY <1>18 DEF Interrupt, LeaveBody, Stopped, SignalInnermost, childVars, podVars, IInv, TypeOK, RunType, Inside
<1>19. CASE UNCHANGED <<exp, pc, raised, forwards, attempt, files, outcome>>
  BY <1>19 DEF IInv, TypeOK, RunType, Inside
<1> QED  BY <1>1, <1>2, <1>3, <1>4, <1>5, <1>6, <1>7, <1>8, <1>9, <1>10, <1>11, <1>12, <1>13, <1>14, <1>15, <1>16, <1>17, <1>18, <1>19

\* The child process and its requests have their types.
LEMMA ChildTypeStep ==
  ASSUME IInv, [Next]_vars
  PROVE  ChildType'
<1>1. \/ StartChild \/ ChildAwaited \/ Reap \/ DisturbanceEnds \/ SendRequest \/ Reply
      \/ Deadline \/ Summarise \/ Interrupt
      \/ UNCHANGED <<child, requests>>
  BY DEF Next, Harness, Kubectl, TimePasses, Generator, Scrape, Environment, Done, vars, childVars, podVars,
         MissingCredentials, OpenForward, ForwardReady, Opened, Connect, Settle, CoolDown,
         Flushed, DeletePod, Deleted, QueryPod, PodAnswered, CloseForward, Finish, BeginPoll, EndPoll,
         ForwardDies, PodStarts, CancelScraper
<1> child \in Child /\ ChildType  BY DEF IInv, TypeOK, ChildType
<1>2. CASE StartChild
  BY <1>2 DEF StartChild, childVars, podVars, ChildType, Child, Alive
<1>3. CASE ChildAwaited
  BY <1>3 DEF ChildAwaited, AwaitChild, childVars, podVars, ChildType, Child, Alive
<1>4. CASE Reap
  <2>1. Stopped(child) \in Child
    <3>1. -15 \in Int  OBVIOUS
    <3> QED  BY <3>1, ChildUpdate DEF Stopped
  <2> QED  BY <1>4, <2>1 DEF Reap, ChildType
<1>5. CASE DisturbanceEnds
  <2>1. PICK code \in {0, 1} : child' = [child EXCEPT !.state = "ended", !.exit = code]
    BY <1>5 DEF DisturbanceEnds
  <2>2. code \in Int  OBVIOUS
  <2>3. child' \in Child  BY <2>1, <2>2, ChildUpdate
  <2> QED  BY <1>5, <2>3 DEF DisturbanceEnds, ChildType
<1>6. CASE SendRequest
  BY <1>6 DEF SendRequest, childVars, podVars, ChildType, Child, Alive
<1>7. CASE Reply
  BY <1>7 DEF Reply, Count, childVars, podVars, ChildType, Child, Alive
<1>8. CASE Deadline
  <2>1. \/ child' = [child EXCEPT !.state = "draining"]
        \/ child' = [child EXCEPT !.state = "ended", !.exit = 1]
    BY <1>8 DEF Deadline
  <2>2. 1 \in Int  OBVIOUS
  <2>3. child' \in Child  BY <2>1, <2>2, ChildUpdate
  <2> QED  BY <1>8, <2>3 DEF Deadline, ChildType
<1>9. CASE Summarise
  <2>1. PICK code \in {0, 1} : child' = [child EXCEPT !.state = "ended", !.exit = code]
    BY <1>9 DEF Summarise
  <2>2. code \in Int  OBVIOUS
  <2>3. child' \in Child  BY <2>1, <2>2, ChildUpdate
  <2> QED  BY <1>9, <2>3 DEF Summarise, ChildType
<1>10. CASE Interrupt
  <2>1. Stopped(child) \in Child
    <3>1. -15 \in Int  OBVIOUS
    <3> QED  BY <3>1, ChildUpdate DEF Stopped
  <2>2. child' \in {child, Stopped(child)} /\ requests' = requests  BY <1>10 DEF Interrupt
  <2> QED  BY <2>1, <2>2 DEF ChildType
<1>11. CASE UNCHANGED <<child, requests>>
  BY <1>11 DEF ChildType, Child, Alive
<1> QED  BY <1>1, <1>2, <1>3, <1>4, <1>5, <1>6, <1>7, <1>8, <1>9, <1>10, <1>11

\* So have the pods,
LEMMA PodTypeStep ==
  ASSUME IInv, [Next]_vars
  PROVE  PodType'
<1>1. \/ Deleted \/ PodStarts \/ TimePasses \/ QueryPod \/ PodAnswered
      \/ UNCHANGED podVars
  BY DEF Next, Harness, Kubectl, Generator, Scrape, Environment, Done, vars, childVars,
         MissingCredentials, OpenForward, ForwardReady, Opened, Connect, Settle, CoolDown,
         Flushed, StartChild, ChildAwaited, Reap, DeletePod, CloseForward, Finish, DisturbanceEnds,
         SendRequest, Reply, Deadline, Summarise, BeginPoll, EndPoll, ForwardDies,
         Interrupt, CancelScraper
<1> PodType  BY DEF IInv, TypeOK
<1>2. CASE Deleted
  BY <1>2 DEF Deleted, LeaveBody, PodType, Pods
<1>3. CASE PodStarts
  BY <1>3 DEF PodStarts, PodType, Pods
<1>4. CASE TimePasses
  BY <1>4 DEF TimePasses, PodType
<1>5. ASSUME NEW b \in BOOLEAN, WaitEnds(b)  PROVE PodType'
  <2> DEFINE Pod == [recovered : BOOLEAN, phase : Pods]
             new == [recovered |-> b, phase |-> pod]
  <2>1. pods \in Seq(Pod) /\ new \in Pod  BY DEF PodType
  <2>2. pods' = Append(pods, new) /\ pod' = "untouched" /\ overdue' = overdue  BY <1>5 DEF WaitEnds
  <2> HIDE DEF Pod, new
  <2>3. pods' \in Seq(Pod)  BY <2>1, <2>2, AppendProperties
  <2> QED  BY <2>2, <2>3 DEF PodType, Pod, Pods
<1>6. CASE QueryPod \/ PodAnswered
  <2>1. UNCHANGED podVars \/ WaitEnds(TRUE) \/ WaitEnds(FALSE)
    BY <1>6 DEF QueryPod, PodAnswered
  <2> QED  BY <1>5, <2>1 DEF podVars, PodType
<1>7. CASE UNCHANGED podVars
  BY <1>7 DEF podVars, PodType
<1> QED  BY <1>1, <1>2, <1>3, <1>4, <1>6, <1>7

\* and the scraper.
LEMMA ScraperTypeStep ==
  ASSUME IInv, [Next]_vars
  PROVE  ScraperType'
<1>1. \/ Connect \/ EndPoll \/ BeginPoll \/ CoolDown \/ Reap \/ DeletePod \/ Deleted \/ QueryPod \/ PodAnswered
      \/ Interrupt \/ CancelScraper
      \/ UNCHANGED <<scraper>>
  BY DEF Next, Harness, Kubectl, TimePasses, Generator, Scrape, Environment, Done, vars, childVars, podVars,
         MissingCredentials, OpenForward, ForwardReady, Opened, Settle, Flushed, StartChild,
         ChildAwaited, CloseForward, Finish, DisturbanceEnds, SendRequest, Reply, Deadline,
         Summarise, ForwardDies, PodStarts
<1> ScraperType  BY DEF IInv, TypeOK
<1>2. CASE Connect
  <2>1. scraper' = scraper \/ scraper' = [scraper EXCEPT !.state = "polling", !.polls = 1]
    BY <1>2 DEF Connect
  <2>2. [scraper EXCEPT !.state = "polling", !.polls = 1] \in Task
    BY TaskUpdate DEF ScraperType
  <2> QED  BY <2>1, <2>2 DEF ScraperType
<1>3. CASE EndPoll
  <2> DEFINE next == IF scraper.stop THEN "done" ELSE "waiting"
  <2>1. next \in {"waiting", "done"}  OBVIOUS
  <2> HIDE DEF next
  <2>2. CASE scraper' = [scraper EXCEPT !.issue = TRUE, !.state = next]
    BY <2>1, <2>2, TaskUpdate DEF ScraperType
  <2>3. ASSUME NEW found \in SUBSET Series,
               scraper' = [scraper EXCEPT !.issue = scraper.issue \/ SeriesMissing(found), !.state = next,
                                          !.seen = found, !.ever = scraper.ever \cup found]
        PROVE  ScraperType'
    <3>1. (scraper.issue \/ SeriesMissing(found)) \in BOOLEAN  OBVIOUS
    <3>2. scraper.ever \in SUBSET Series  BY DEF ScraperType, Task
    <3>3. scraper.ever \cup found \in SUBSET Series  BY <3>2
    <3>4. [scraper EXCEPT !.issue = scraper.issue \/ SeriesMissing(found), !.state = next,
                          !.seen = found, !.ever = scraper.ever \cup found] \in Task
      BY <2>1, <3>1, <3>3, TaskUpdate DEF ScraperType
    <3> QED  BY <2>3, <3>4 DEF ScraperType
  <2> QED  BY <1>3, <2>2, <2>3 DEF EndPoll, next
<1>4. CASE BeginPoll
  <2>1. scraper.polls + 1 \in Nat  BY DEF ScraperType, Task
  <2> QED  BY <1>4, <2>1, TaskUpdate DEF BeginPoll, ScraperType
<1>5. CASE CoolDown
  BY <1>5 DEF CoolDown, LeaveBody, childVars, podVars, ScraperType, Task
<1>6. CASE Reap
  BY <1>6 DEF Reap, LeaveBody, Stopped, childVars, podVars, ScraperType, Task
<1>7. CASE DeletePod \/ Deleted
  BY <1>7 DEF DeletePod, Deleted, LeaveBody, childVars, podVars, ScraperType, Task
<1>8. CASE QueryPod \/ PodAnswered
  BY <1>8 DEF QueryPod, PodAnswered, WaitEnds, LeaveBody, childVars, podVars, ScraperType, Task
<1>9. CASE Interrupt
  BY <1>9 DEF Interrupt, LeaveBody, Stopped, SignalInnermost, childVars, podVars, ScraperType, Task
<1>10. CASE CancelScraper
  BY <1>10 DEF CancelScraper, childVars, podVars, ScraperType, Task
<1>11. CASE UNCHANGED <<scraper>>
  BY <1>11 DEF ScraperType, Task
<1> QED  BY <1>1, <1>2, <1>3, <1>4, <1>5, <1>6, <1>7, <1>8, <1>9, <1>10, <1>11

\* An exception leaves the body.
LEMMA RaisedStep ==
  ASSUME IInv, [Next]_vars
  PROVE  RaisedInv'
<1>1. \/ MissingCredentials \/ ForwardReady \/ Opened \/ Connect \/ Settle \/ CoolDown
      \/ Flushed \/ ChildAwaited \/ Reap \/ DeletePod \/ Deleted \/ QueryPod \/ PodAnswered \/ Finish \/ Interrupt
      \/ UNCHANGED <<pc, raised>>
  BY DEF Next, Harness, Kubectl, TimePasses, Generator, Scrape, Environment, Done, vars, childVars, podVars,
         OpenForward, StartChild, CloseForward, DisturbanceEnds, SendRequest, Reply,
         Deadline, Summarise, BeginPoll, EndPoll, ForwardDies, PodStarts, CancelScraper
<1>2. CASE MissingCredentials
  BY <1>2 DEF MissingCredentials, Raise, childVars, podVars, IInv, RaisedInv, Inside
<1>3. CASE ForwardReady
  BY <1>3 DEF ForwardReady, Raise, childVars, podVars, IInv, RaisedInv, Inside
<1>4. CASE Opened
  BY <1>4 DEF Opened, childVars, podVars, IInv, RaisedInv, Inside
<1>5. CASE Connect
  BY <1>5 DEF Connect, Raise, childVars, podVars, IInv, RaisedInv, Inside
<1>6. CASE Settle
  BY <1>6 DEF Settle, childVars, podVars, IInv, RaisedInv, Inside
<1>7. CASE CoolDown
  BY <1>7 DEF CoolDown, LeaveBody, childVars, podVars, IInv, RaisedInv, Inside
<1>8. CASE Flushed
  BY <1>8 DEF Flushed, Flush, childVars, podVars, IInv, RaisedInv, Inside
<1>9. CASE ChildAwaited
  BY <1>9 DEF ChildAwaited, AwaitChild, childVars, podVars, IInv, RaisedInv, Inside
<1>10. CASE Reap
  BY <1>10 DEF Reap, LeaveBody, Stopped, childVars, podVars, IInv, RaisedInv, Inside
<1>11. CASE DeletePod \/ Deleted
  BY <1>11 DEF DeletePod, Deleted, LeaveBody, childVars, podVars, IInv, RaisedInv, Inside
<1>12. CASE QueryPod \/ PodAnswered
  BY <1>12 DEF QueryPod, PodAnswered, WaitEnds, LeaveBody, childVars, podVars, IInv, RaisedInv, Inside
<1>13. CASE Finish
  BY <1>13 DEF Finish, childVars, podVars, IInv, RaisedInv, Inside
<1>14. CASE Interrupt
  BY <1>14 DEF Interrupt, LeaveBody, Stopped, SignalInnermost, childVars, podVars, IInv, RaisedInv, Inside
<1>15. CASE UNCHANGED <<pc, raised>>
  BY <1>15 DEF IInv, RaisedInv
<1> QED  BY <1>1, <1>2, <1>3, <1>4, <1>5, <1>6, <1>7, <1>8, <1>9, <1>10, <1>11, <1>12, <1>13, <1>14, <1>15

\* Forwards of other experiments are never opened; one left starting was interrupted.
LEMMA ForwardStep ==
  ASSUME IInv, [Next]_vars
  PROVE  ForwardInv'
<1>1. \/ MissingCredentials \/ OpenForward \/ ForwardReady \/ Opened \/ Connect \/ Settle
      \/ CoolDown \/ Flushed \/ ChildAwaited \/ Reap \/ DeletePod \/ Deleted \/ QueryPod \/ PodAnswered
      \/ CloseForward \/ Finish \/ ForwardDies \/ Interrupt
      \/ UNCHANGED <<exp, pc, raised, forwards>>
  BY DEF Next, Harness, Kubectl, TimePasses, Generator, Scrape, Environment, Done, vars, childVars, podVars,
         StartChild, DisturbanceEnds, SendRequest, Reply, Deadline, Summarise, BeginPoll,
         EndPoll, PodStarts, CancelScraper
<1> exp \in {"a", "b", "c"} /\ RunType  BY DEF IInv, TypeOK, RunType
<1>2. CASE MissingCredentials
  BY <1>2 DEF MissingCredentials, Raise, childVars, podVars, IInv, ForwardInv, RaisedInv, Inside
<1>3. CASE OpenForward
  <2> DEFINE p == Ports[exp][Min(Unopened)]
  <2>1. Min(Unopened) \in DOMAIN Ports[exp] /\ p \in AllPorts  BY <1>3, NextForward DEF OpenForward
  <2>2. pc = "open" /\ forwards' = [forwards EXCEPT ![p] = "starting"] /\ UNCHANGED <<exp, pc>>
    BY <1>3 DEF OpenForward
  <2> QED  BY <2>1, <2>2 DEF IInv, ForwardInv, RunType
<1>4. CASE ForwardReady
  <2> DEFINE k == Min(Unopened)
             p == Ports[exp][k]
  <2>1. /\ k \in DOMAIN Ports[exp] /\ p \in AllPorts
        /\ \A i \in DOMAIN Ports[exp] : forwards[Ports[exp][i]] \in {"absent", "starting"} => k <= i
    BY <1>4, NextForward DEF ForwardReady
  <2>2. /\ pc = "open" /\ exp' = exp /\ forwards[p] = "starting"
        /\ \/ forwards' = [forwards EXCEPT ![p] = "up"] /\ UNCHANGED pc
           \/ forwards' = [forwards EXCEPT ![p] = "absent"]
    BY <1>4 DEF ForwardReady
  <2>3. ASSUME NEW q \in AllPorts, q # p  PROVE forwards[q] # "starting"
    <3>1. CASE \A i \in DOMAIN Ports[exp] : Ports[exp][i] # q  BY <2>3, <3>1 DEF IInv, ForwardInv
    <3>2. ASSUME NEW i \in DOMAIN Ports[exp], Ports[exp][i] = q, forwards[q] = "starting"
          PROVE  FALSE
      <4>1. k <= i /\ k # i  BY <2>1, <2>3, <3>2
      <4>2. k < i  BY <2>1, <4>1, OwnPorts
      <4> QED  BY <2>1, <2>2, <3>2, <4>2 DEF IInv, OpeningInv
    <3> QED  BY <3>1, <3>2
  <2> HIDE DEF k
  <2>4. \A q \in AllPorts : forwards'[q] # "starting"  BY <2>1, <2>2, <2>3 DEF RunType
  <2>5. \A q \in AllPorts : q # p => forwards'[q] = forwards[q]  BY <2>2 DEF RunType
  <2> QED  BY <2>1, <2>2, <2>4, <2>5 DEF IInv, ForwardInv
<1>5. CASE Opened
  <2>1. \A i \in DOMAIN Ports[exp] : forwards[Ports[exp][i]] # "starting"
    BY <1>5 DEF Opened, Unopened
  <2>2. UNCHANGED <<exp, forwards>>  BY <1>5 DEF Opened
  <2>3. \A p \in AllPorts : forwards[p] # "starting"  BY <2>1 DEF IInv, ForwardInv
  <2> QED  BY <2>2, <2>3 DEF IInv, ForwardInv
<1>6. CASE Connect
  BY <1>6 DEF Connect, Raise, childVars, podVars, IInv, ForwardInv, RaisedInv, Inside
<1>7. CASE Settle
  BY <1>7 DEF Settle, childVars, podVars, IInv, ForwardInv, RaisedInv, Inside
<1>8. CASE CoolDown
  BY <1>8 DEF CoolDown, LeaveBody, childVars, podVars, IInv, ForwardInv, RaisedInv, Inside
<1>9. CASE Flushed
  BY <1>9 DEF Flushed, Flush, childVars, podVars, IInv, ForwardInv, RaisedInv, Inside
<1>10. CASE ChildAwaited
  BY <1>10 DEF ChildAwaited, AwaitChild, childVars, podVars, IInv, ForwardInv, RaisedInv, Inside
<1>11. CASE Reap
  BY <1>11 DEF Reap, LeaveBody, Stopped, childVars, podVars, IInv, ForwardInv, RaisedInv, Inside
<1>12. CASE DeletePod \/ Deleted
  BY <1>12 DEF DeletePod, Deleted, LeaveBody, childVars, podVars, IInv, ForwardInv, RaisedInv, Inside
<1>13. CASE QueryPod \/ PodAnswered
  BY <1>13 DEF QueryPod, PodAnswered, WaitEnds, LeaveBody, childVars, podVars, IInv, ForwardInv, RaisedInv, Inside
<1>14. CASE CloseForward
  <2> DEFINE p == Ports[exp][Max(StillOpen)]
  <2>1. Max(StillOpen) \in DOMAIN Ports[exp] /\ p \in AllPorts  BY <1>14, LastForward DEF CloseForward
  <2>2. forwards' = [forwards EXCEPT ![p] = "stopped"] /\ UNCHANGED <<exp, pc, raised>>
    BY <1>14 DEF CloseForward, SignalInnermost
  <2> QED  BY <2>1, <2>2 DEF IInv, ForwardInv, RunType
<1>15. CASE Finish
  BY <1>15 DEF Finish, childVars, podVars, IInv, ForwardInv, RaisedInv, Inside
<1>16. CASE ForwardDies
  BY <1>16 DEF ForwardDies, childVars, podVars, IInv, ForwardInv, RaisedInv, Inside
<1>17. CASE Interrupt
  <2>1. exp' = exp /\ raised' = "cancel"  BY <1>17 DEF Interrupt
  <2>2. CASE forwards' = forwards  BY <2>1, <2>2 DEF IInv, ForwardInv
  <2>3. CASE StillOpen # {} /\ SignalInnermost
    <3> DEFINE p == Ports[exp][Max(StillOpen)]
    <3>1. Max(StillOpen) \in DOMAIN Ports[exp] /\ p \in AllPorts  BY <2>3, LastForward
    <3>2. forwards' = [forwards EXCEPT ![p] = "stopped"]  BY <2>3 DEF SignalInnermost
    <3> QED  BY <2>1, <3>1, <3>2 DEF IInv, ForwardInv, RunType
  <2> QED  BY <1>17, <2>2, <2>3 DEF Interrupt
<1>18. CASE UNCHANGED <<exp, pc, raised, forwards>>
  BY <1>18 DEF IInv, ForwardInv, RaisedInv, Inside
<1> QED  BY <1>1, <1>2, <1>3, <1>4, <1>5, <1>6, <1>7, <1>8, <1>9, <1>10, <1>11, <1>12, <1>13, <1>14, <1>15, <1>16, <1>17, <1>18

\* A forward is opened when the ones before it are.
LEMMA OpeningStep ==
  ASSUME IInv, [Next]_vars
  PROVE  OpeningInv'
<1>1. \/ MissingCredentials \/ OpenForward \/ ForwardReady \/ Opened \/ Connect \/ Settle
      \/ CoolDown \/ Flushed \/ ChildAwaited \/ Reap \/ DeletePod \/ Deleted \/ QueryPod \/ PodAnswered
      \/ CloseForward \/ Finish \/ ForwardDies \/ Interrupt
      \/ UNCHANGED <<exp, pc, forwards>>
  BY DEF Next, Harness, Kubectl, TimePasses, Generator, Scrape, Environment, Done, vars, childVars, podVars,
         StartChild, DisturbanceEnds, SendRequest, Reply, Deadline, Summarise, BeginPoll,
         EndPoll, PodStarts, CancelScraper
<1> exp \in {"a", "b", "c"} /\ RunType  BY DEF IInv, TypeOK, RunType
<1>2. CASE MissingCredentials
  BY <1>2 DEF MissingCredentials, Raise, childVars, podVars, IInv, OpeningInv
<1>3. CASE OpenForward
  <2> DEFINE k == Min(Unopened)
             p == Ports[exp][k]
  <2>1. /\ k \in DOMAIN Ports[exp] /\ p \in AllPorts
        /\ \A i \in DOMAIN Ports[exp] : forwards[Ports[exp][i]] \in {"absent", "starting"} => k <= i
    BY <1>3, NextForward DEF OpenForward
  <2>2. /\ pc = "open" /\ exp' = exp /\ forwards[p] = "absent"
        /\ forwards' = [forwards EXCEPT ![p] = "starting"]
    BY <1>3 DEF OpenForward
  <2>3. ASSUME NEW i \in DOMAIN Ports[exp], NEW j \in DOMAIN Ports[exp], j < i,
               forwards'[Ports[exp][i]] = "starting"
        PROVE  forwards'[Ports[exp][j]] \notin {"absent", "starting"}
    <3>1. i \in 1..3 /\ j \in 1..3 /\ k \in 1..3  BY <2>1, OwnPorts
    <3>2. Ports[exp][i] \in AllPorts /\ Ports[exp][j] \in AllPorts  BY OwnPorts
    <3>3. i = k
      <4>1. CASE i # k
        <5>1. forwards[Ports[exp][i]] = "starting"  BY <2>1, <2>2, <2>3, <3>2, <4>1, OwnPorts DEF RunType
        <5>2. k < i  BY <2>1, <3>1, <4>1, <5>1
        <5> QED  BY <2>1, <2>2, <5>1, <5>2 DEF IInv, OpeningInv
      <4> QED  BY <4>1
    <3>4. j # k /\ ~(k <= j)  BY <2>3, <3>1, <3>3
    <3>5. forwards'[Ports[exp][j]] = forwards[Ports[exp][j]]
      BY <2>1, <2>2, <3>2, <3>4, OwnPorts DEF RunType
    <3> QED  BY <2>1, <3>4, <3>5
  <2> QED  BY <2>2, <2>3 DEF OpeningInv
<1>4. CASE ForwardReady
  <2> DEFINE k == Min(Unopened)
             p == Ports[exp][k]
  <2>1. /\ k \in DOMAIN Ports[exp] /\ p \in AllPorts
        /\ \A i \in DOMAIN Ports[exp] : forwards[Ports[exp][i]] \in {"absent", "starting"} => k <= i
    BY <1>4, NextForward DEF ForwardReady
  <2>2. /\ pc = "open" /\ exp' = exp /\ forwards[p] = "starting"
        /\ forwards' \in {[forwards EXCEPT ![p] = "up"], [forwards EXCEPT ![p] = "absent"]}
    BY <1>4 DEF ForwardReady
  <2>3. ASSUME NEW i \in DOMAIN Ports[exp], forwards'[Ports[exp][i]] = "starting"
        PROVE  FALSE
    <3>1. i # k /\ forwards[Ports[exp][i]] = "starting"  BY <2>1, <2>2, <2>3, OwnPorts DEF RunType
    <3>2. k < i  BY <2>1, <3>1, OwnPorts
    <3> QED  BY <2>1, <2>2, <3>1, <3>2 DEF IInv, OpeningInv
  <2> QED  BY <2>2, <2>3 DEF OpeningInv
<1>5. CASE Opened
  BY <1>5 DEF Opened, childVars, podVars, IInv, OpeningInv
<1>6. CASE Connect
  BY <1>6 DEF Connect, Raise, childVars, podVars, IInv, OpeningInv
<1>7. CASE Settle
  BY <1>7 DEF Settle, childVars, podVars, IInv, OpeningInv
<1>8. CASE CoolDown
  BY <1>8 DEF CoolDown, LeaveBody, childVars, podVars, IInv, OpeningInv
<1>9. CASE Flushed
  BY <1>9 DEF Flushed, Flush, childVars, podVars, IInv, OpeningInv
<1>10. CASE ChildAwaited
  BY <1>10 DEF ChildAwaited, AwaitChild, childVars, podVars, IInv, OpeningInv
<1>11. CASE Reap
  BY <1>11 DEF Reap, LeaveBody, Stopped, childVars, podVars, IInv, OpeningInv
<1>12. CASE DeletePod \/ Deleted
  BY <1>12 DEF DeletePod, Deleted, LeaveBody, childVars, podVars, IInv, OpeningInv
<1>13. CASE QueryPod \/ PodAnswered
  BY <1>13 DEF QueryPod, PodAnswered, WaitEnds, LeaveBody, childVars, podVars, IInv, OpeningInv
<1>14. CASE CloseForward
  BY <1>14 DEF CloseForward, SignalInnermost, childVars, podVars, IInv, OpeningInv
<1>15. CASE Finish
  BY <1>15 DEF Finish, childVars, podVars, IInv, OpeningInv
<1>16. CASE ForwardDies
  BY <1>16 DEF ForwardDies, childVars, podVars, IInv, OpeningInv
<1>17. CASE Interrupt
  BY <1>17 DEF Interrupt, LeaveBody, Stopped, SignalInnermost, childVars, podVars, IInv, OpeningInv
<1>18. CASE UNCHANGED <<exp, pc, forwards>>
  BY <1>18 DEF IInv, OpeningInv
<1> QED  BY <1>1, <1>2, <1>3, <1>4, <1>5, <1>6, <1>7, <1>8, <1>9, <1>10, <1>11, <1>12, <1>13, <1>14, <1>15, <1>16, <1>17, <1>18

\* The child lives between its start and its reaping.
LEMMA ChildStep ==
  ASSUME IInv, [Next]_vars
  PROVE  ChildInv'
<1>1. \/ MissingCredentials \/ ForwardReady \/ Opened \/ Connect \/ Settle \/ CoolDown
      \/ Flushed \/ StartChild \/ ChildAwaited \/ Reap \/ DeletePod \/ Deleted \/ QueryPod \/ PodAnswered \/ Finish
      \/ DisturbanceEnds \/ Deadline \/ Summarise \/ Interrupt
      \/ UNCHANGED <<exp, pc, child>>
  BY DEF Next, Harness, Kubectl, TimePasses, Generator, Scrape, Environment, Done, vars, childVars, podVars,
         OpenForward, CloseForward, SendRequest, Reply, BeginPoll, EndPoll, ForwardDies,
         PodStarts, CancelScraper
<1>2. CASE MissingCredentials
  BY <1>2 DEF MissingCredentials, Raise, childVars, podVars, IInv, ChildInv, ChildType, Child, Alive, TypeOK
<1>3. CASE ForwardReady
  BY <1>3 DEF ForwardReady, Raise, childVars, podVars, IInv, ChildInv, ChildType, Child, Alive, TypeOK
<1>4. CASE Opened
  BY <1>4 DEF Opened, childVars, podVars, IInv, ChildInv, ChildType, Child, Alive, TypeOK
<1>5. CASE Connect
  BY <1>5 DEF Connect, Raise, childVars, podVars, IInv, ChildInv, ChildType, Child, Alive, TypeOK
<1>6. CASE Settle
  BY <1>6 DEF Settle, childVars, podVars, IInv, ChildInv, ChildType, Child, Alive, TypeOK
<1>7. CASE CoolDown
  BY <1>7 DEF CoolDown, LeaveBody, childVars, podVars, IInv, ChildInv, ChildType, Child, Alive, TypeOK
<1>8. CASE Flushed
  BY <1>8 DEF Flushed, Flush, childVars, podVars, IInv, ChildInv, ChildType, Child, Alive, TypeOK
<1>9. CASE StartChild
  BY <1>9 DEF StartChild, childVars, podVars, IInv, ChildInv, ChildType, Child, Alive, TypeOK
<1>10. CASE ChildAwaited
  BY <1>10 DEF ChildAwaited, AwaitChild, childVars, podVars, IInv, ChildInv, ChildType, Child, Alive, TypeOK
<1>11. CASE Reap
  BY <1>11 DEF Reap, LeaveBody, Stopped, childVars, podVars, IInv, ChildInv, ChildType, Child, Alive, TypeOK
<1>12. CASE DeletePod \/ Deleted
  BY <1>12 DEF DeletePod, Deleted, LeaveBody, childVars, podVars, IInv, ChildInv, ChildType, Child, Alive, TypeOK
<1>13. CASE QueryPod \/ PodAnswered
  BY <1>13 DEF QueryPod, PodAnswered, WaitEnds, LeaveBody, childVars, podVars, IInv, ChildInv, ChildType, Child, Alive, TypeOK
<1>14. CASE Finish
  BY <1>14 DEF Finish, childVars, podVars, IInv, ChildInv, ChildType, Child, Alive, TypeOK
<1>15. CASE DisturbanceEnds
  BY <1>15 DEF DisturbanceEnds, childVars, podVars, IInv, ChildInv, ChildType, Child, Alive, TypeOK
<1>16. CASE Deadline
  BY <1>16 DEF Deadline, childVars, podVars, IInv, ChildInv, ChildType, Child, Alive, TypeOK
<1>17. CASE Summarise
  BY <1>17 DEF Summarise, childVars, podVars, IInv, ChildInv, ChildType, Child, Alive, TypeOK
<1>18. CASE Interrupt
  BY <1>18 DEF Interrupt, LeaveBody, Stopped, SignalInnermost, childVars, podVars, IInv, ChildInv, ChildType, Child, Alive, TypeOK
<1>19. CASE UNCHANGED <<exp, pc, child>>
  BY <1>19 DEF IInv, ChildInv, ChildType, Child, Alive, TypeOK
<1> QED  BY <1>1, <1>2, <1>3, <1>4, <1>5, <1>6, <1>7, <1>8, <1>9, <1>10, <1>11, <1>12, <1>13, <1>14, <1>15, <1>16, <1>17, <1>18, <1>19

\* The summary is final.
LEMMA GeneratorStep ==
  ASSUME IInv, [Next]_vars
  PROVE  GeneratorInv'
<1>1. \/ Flushed \/ StartChild \/ ChildAwaited \/ Reap \/ DisturbanceEnds \/ SendRequest
      \/ Reply \/ Deadline \/ Summarise \/ Finish \/ Interrupt
      \/ UNCHANGED <<exp, child, requests, files>>
  BY DEF Next, Harness, Kubectl, TimePasses, Generator, Scrape, Environment, Done, vars, childVars, podVars,
         MissingCredentials, OpenForward, ForwardReady, Opened, Connect, Settle, CoolDown,
         DeletePod, Deleted, QueryPod, PodAnswered, CloseForward, BeginPoll, EndPoll, ForwardDies, PodStarts,
         CancelScraper
<1>2. CASE Flushed
  BY <1>2 DEF Flushed, Flush, childVars, podVars, IInv, GeneratorInv, WithState, ChildType, Child, TypeOK
<1>3. CASE StartChild
  BY <1>3 DEF StartChild, childVars, podVars, IInv, GeneratorInv, WithState, ChildType, Child, TypeOK
<1>4. CASE ChildAwaited
  BY <1>4 DEF ChildAwaited, AwaitChild, childVars, podVars, IInv, GeneratorInv, WithState, ChildType, Child, TypeOK
<1>5. CASE Reap
  BY <1>5 DEF Reap, LeaveBody, Stopped, childVars, podVars, IInv, GeneratorInv, WithState, ChildType, Child, TypeOK
<1>6. CASE DisturbanceEnds
  BY <1>6 DEF DisturbanceEnds, childVars, podVars, IInv, GeneratorInv, WithState, ChildType, Child, TypeOK
<1>7. CASE SendRequest
  BY <1>7 DEF SendRequest, childVars, podVars, IInv, GeneratorInv, WithState, ChildType, Child, TypeOK
<1>8. CASE Reply
  BY <1>8 DEF Reply, Count, childVars, podVars, IInv, GeneratorInv, WithState, ChildType, Child, TypeOK
<1>9. CASE Deadline
  BY <1>9 DEF Deadline, childVars, podVars, IInv, GeneratorInv, WithState, ChildType, Child, TypeOK
<1>10. CASE Summarise
  BY <1>10 DEF Summarise, childVars, podVars, IInv, GeneratorInv, WithState, ChildType, Child, TypeOK
<1>11. CASE Finish
  BY <1>11 DEF Finish, childVars, podVars, IInv, GeneratorInv, WithState, ChildType, Child, TypeOK
<1>12. CASE Interrupt
  BY <1>12 DEF Interrupt, LeaveBody, Stopped, SignalInnermost, childVars, podVars, IInv, GeneratorInv, WithState, ChildType, Child, TypeOK
<1>13. CASE UNCHANGED <<exp, child, requests, files>>
  BY <1>13 DEF IInv, GeneratorInv, WithState, ChildType, Child, TypeOK
<1> QED  BY <1>1, <1>2, <1>3, <1>4, <1>5, <1>6, <1>7, <1>8, <1>9, <1>10, <1>11, <1>12, <1>13

\* What the scraper has seen, and when it ends.
LEMMA ScraperStep ==
  ASSUME IInv, [Next]_vars
  PROVE  ScraperInv'
<1>1. \/ MissingCredentials \/ ForwardReady \/ Opened \/ Connect \/ Settle \/ CoolDown
      \/ Flushed \/ ChildAwaited \/ Reap \/ DeletePod \/ Deleted \/ QueryPod \/ PodAnswered \/ Finish \/ EndPoll
      \/ BeginPoll \/ Interrupt \/ CancelScraper
      \/ UNCHANGED <<pc, scraper>>
  BY DEF Next, Harness, Kubectl, TimePasses, Generator, Scrape, Environment, Done, vars, childVars, podVars,
         OpenForward, StartChild, CloseForward, DisturbanceEnds, SendRequest, Reply,
         Deadline, Summarise, ForwardDies, PodStarts
<1>2. CASE MissingCredentials
  BY <1>2 DEF MissingCredentials, Raise, childVars, podVars, IInv, ScraperInv, ScraperType, Task, TypeOK
<1>3. CASE ForwardReady
  BY <1>3 DEF ForwardReady, Raise, childVars, podVars, IInv, ScraperInv, ScraperType, Task, TypeOK
<1>4. CASE Opened
  BY <1>4 DEF Opened, childVars, podVars, IInv, ScraperInv, ScraperType, Task, TypeOK
<1>5. CASE Connect
  BY <1>5 DEF Connect, Raise, childVars, podVars, IInv, ScraperInv, ScraperType, Task, TypeOK
<1>6. CASE Settle
  BY <1>6 DEF Settle, childVars, podVars, IInv, ScraperInv, ScraperType, Task, TypeOK
<1>7. CASE CoolDown
  BY <1>7 DEF CoolDown, LeaveBody, childVars, podVars, IInv, ScraperInv, ScraperType, Task, TypeOK
<1>8. CASE Flushed
  BY <1>8 DEF Flushed, Flush, childVars, podVars, IInv, ScraperInv, ScraperType, Task, TypeOK
<1>9. CASE ChildAwaited
  BY <1>9 DEF ChildAwaited, AwaitChild, childVars, podVars, IInv, ScraperInv, ScraperType, Task, TypeOK
<1>10. CASE Reap
  BY <1>10 DEF Reap, LeaveBody, Stopped, childVars, podVars, IInv, ScraperInv, ScraperType, Task, TypeOK
<1>11. CASE DeletePod \/ Deleted
  BY <1>11 DEF DeletePod, Deleted, LeaveBody, childVars, podVars, IInv, ScraperInv, ScraperType, Task, TypeOK
<1>12. CASE QueryPod \/ PodAnswered
  BY <1>12 DEF QueryPod, PodAnswered, WaitEnds, LeaveBody, childVars, podVars, IInv, ScraperInv, ScraperType, Task, TypeOK
<1>13. CASE Finish
  BY <1>13 DEF Finish, childVars, podVars, IInv, ScraperInv, ScraperType, Task, TypeOK
<1>14. CASE EndPoll
  <2> DEFINE next == IF scraper.stop THEN "done" ELSE "waiting"
  <2>0. scraper.state = "polling" /\ pc' = pc  BY <1>14 DEF EndPoll
  <2>1. scraper'.state # "off" /\ (~scraper'.issue => scraper'.seen = scraper'.ever)
    <3>1. CASE scraper' = [scraper EXCEPT !.issue = TRUE, !.state = next]
      BY <3>1 DEF IInv, TypeOK, ScraperType, Task
    <3>2. ASSUME NEW found \in SUBSET Series,
                 scraper' = [scraper EXCEPT !.issue = scraper.issue \/ SeriesMissing(found), !.state = next,
                                            !.seen = found, !.ever = scraper.ever \cup found]
          PROVE  scraper'.state # "off" /\ (~scraper'.issue => scraper'.seen = scraper'.ever)
      <4>1. /\ scraper'.issue = (scraper.issue \/ SeriesMissing(found)) /\ scraper'.state = next
            /\ scraper'.seen = found /\ scraper'.ever = scraper.ever \cup found
        BY <3>2, Zenon DEF IInv, TypeOK, ScraperType, Task
      <4>2. scraper.issue \/ scraper.seen = scraper.ever  BY DEF IInv, ScraperInv
      <4>3. ~SeriesMissing(found) => scraper.seen \subseteq found  BY DEF SeriesMissing
      <4>4. next # "off"  OBVIOUS
      <4>5. scraper.seen = scraper.ever /\ scraper.seen \subseteq found => found = scraper.ever \cup found
        OBVIOUS
      <4> QED  BY <4>1, <4>2, <4>3, <4>4, <4>5, Zenon
    <3> QED  BY <1>14, <3>1, <3>2 DEF EndPoll
  <2> QED  BY <2>0, <2>1 DEF IInv, ScraperInv
<1>15. CASE BeginPoll
  BY <1>15 DEF BeginPoll, childVars, podVars, IInv, ScraperInv, ScraperType, Task, TypeOK
<1>16. CASE Interrupt
  BY <1>16 DEF Interrupt, LeaveBody, Stopped, SignalInnermost, childVars, podVars, IInv, ScraperInv, ScraperType, Task, TypeOK
<1>17. CASE CancelScraper
  BY <1>17 DEF CancelScraper, childVars, podVars, IInv, ScraperInv, ScraperType, Task, TypeOK
<1>18. CASE UNCHANGED <<pc, scraper>>
  BY <1>18 DEF IInv, ScraperInv, ScraperType, Task, TypeOK
<1> QED  BY <1>1, <1>2, <1>3, <1>4, <1>5, <1>6, <1>7, <1>8, <1>9, <1>10, <1>11, <1>12, <1>13, <1>14, <1>15, <1>16, <1>17, <1>18

\* The pods deleted and recovered.
LEMMA PodStep ==
  ASSUME IInv, [Next]_vars
  PROVE  PodInv'
<1>1. \/ MissingCredentials \/ ForwardReady \/ Opened \/ Connect \/ Settle \/ CoolDown
      \/ Flushed \/ ChildAwaited \/ Reap \/ DeletePod \/ Deleted \/ QueryPod \/ PodAnswered \/ Finish \/ Interrupt
      \/ UNCHANGED <<exp, pc, raised, pods>>
  BY DEF Next, Harness, Kubectl, TimePasses, Generator, Scrape, Environment, Done, vars, childVars, podVars,
         OpenForward, StartChild, CloseForward, DisturbanceEnds, SendRequest, Reply,
         Deadline, Summarise, BeginPoll, EndPoll, ForwardDies, PodStarts, CancelScraper
<1> PodInv /\ PodType  BY DEF IInv, TypeOK
<1>2. CASE MissingCredentials
  BY <1>2 DEF MissingCredentials, Raise, childVars, podVars, PodInv, Labels
<1>3. CASE ForwardReady
  BY <1>3 DEF ForwardReady, Raise, childVars, podVars, PodInv, Labels
<1>4. CASE Opened
  BY <1>4 DEF Opened, childVars, podVars, PodInv, Labels
<1>5. CASE Connect
  BY <1>5 DEF Connect, Raise, childVars, podVars, PodInv, Labels
<1>6. CASE Settle
  BY <1>6 DEF Settle, childVars, podVars, PodInv, Labels
<1>7. CASE CoolDown
  <2>1. Len(pods) \in Nat  BY DEF PodType
  <2>2. pc = "cool" /\ UNCHANGED <<exp, raised, pods>>  BY <1>7 DEF CoolDown, podVars
  <2>3. CASE exp = "b" /\ Len(pods) < Labels
    <3>1. pc' = "work"  BY <1>7, <2>3 DEF CoolDown
    <3> QED  BY <2>2, <2>3, <3>1 DEF PodInv
  <2>4. CASE ~(exp = "b" /\ Len(pods) < Labels)
    <3>1. LeaveBody  BY <1>7, <2>4, Zenon DEF CoolDown
    <3>2. pc' = "stop"  BY <3>1 DEF LeaveBody
    <3>3. exp = "b" => Len(pods) <= 2 /\ ~(Len(pods) < 2)  BY <2>4 DEF PodInv, Labels
    <3>4. \A n \in Nat : n <= 2 /\ ~(n < 2) => n = 2  OBVIOUS
    <3>5. exp = "b" => Len(pods) = Labels  BY <2>1, <3>3, <3>4, Zenon DEF Labels
    <3> QED  BY <2>2, <3>2, <3>5 DEF PodInv
  <2> QED  BY <2>3, <2>4
<1>8. CASE Flushed
  BY <1>8 DEF Flushed, Flush, childVars, podVars, PodInv, Labels
<1>9. CASE ChildAwaited
  BY <1>9 DEF ChildAwaited, podVars, PodInv, Labels, IInv, ChildInv
<1>10. CASE Reap
  BY <1>10 DEF Reap, LeaveBody, Stopped, childVars, podVars, PodInv, Labels
<1>11. CASE DeletePod \/ Deleted
  BY <1>11 DEF DeletePod, Deleted, LeaveBody, childVars, podVars, PodInv, Labels
<1>12. CASE QueryPod \/ PodAnswered
  <2>0. Len(pods) \in Nat /\ Len(pods) < Labels /\ exp' = exp
    <3>1. pc \in {"recover", "query"} /\ exp' = exp  BY <1>12 DEF QueryPod, PodAnswered
    <3> QED  BY <3>1 DEF PodType, PodInv
  <2>1. CASE UNCHANGED <<pods, pod>> /\ pc' \in {"query", "recover", "stop"} /\ (pc' = "stop" => raised' = "error")
    BY <2>0, <2>1 DEF PodInv
  <2>2. ASSUME NEW b \in BOOLEAN, WaitEnds(b), b => pod = "running"  PROVE PodInv'
    <3>1. pods' = Append(pods, [recovered |-> b, phase |-> pod]) /\ pc' = "cool"  BY <2>2 DEF WaitEnds
    <3>2. Len(pods') = Len(pods) + 1 /\ Len(pods') <= Labels  BY <2>0, <3>1 DEF PodType, Labels
    <3>3. ASSUME NEW i \in 1..Len(pods')  PROVE pods'[i].recovered => pods'[i].phase = "running"
      <4>1. CASE i = Len(pods) + 1
        <5>1. pods'[i] = [recovered |-> b, phase |-> pod]  BY <3>1, <4>1 DEF PodType
        <5>2. pods'[i].recovered = b /\ pods'[i].phase = pod  BY <5>1
        <5> QED  BY <2>2, <5>2, Zenon
      <4>2. CASE i # Len(pods) + 1
        <5>1. i \in 1..Len(pods) /\ pods'[i] = pods[i]  BY <2>0, <3>1, <3>2, <4>2 DEF PodType
        <5> QED  BY <5>1 DEF PodInv
      <4> QED  BY <4>1, <4>2
    <3> QED  BY <2>0, <3>1, <3>2, <3>3 DEF PodInv
  <2>3. \/ UNCHANGED <<pods, pod>> /\ pc' \in {"query", "recover", "stop"} /\ (pc' = "stop" => raised' = "error")
        \/ WaitEnds(FALSE)
        \/ pod = "running" /\ WaitEnds(TRUE)
    BY <1>12 DEF QueryPod, PodAnswered, LeaveBody, podVars
  <2> QED  BY <2>1, <2>2, <2>3
<1>13. CASE Finish
  BY <1>13 DEF Finish, childVars, podVars, PodInv, Labels
<1>14. CASE Interrupt
  BY <1>14 DEF Interrupt, LeaveBody, podVars, PodInv, Labels, IInv, ChildInv
<1>15. CASE UNCHANGED <<exp, pc, raised, pods>>
  BY <1>15 DEF PodInv, Labels
<1> QED  BY <1>1, <1>2, <1>3, <1>4, <1>5, <1>6, <1>7, <1>8, <1>9, <1>10, <1>11, <1>12, <1>13, <1>14, <1>15

\* A finished run changes nothing the outcome rests on; an "ok" is given for it.
LEMMA OkStep ==
  ASSUME IInv, [Next]_vars
  PROVE  OkInv'
<1>1. CASE pc = "done"
  <2>1. child.state \notin Alive /\ scraper.state \notin {"polling", "waiting"}
    BY <1>1 DEF IInv, ChildInv, ScraperInv
  <2>2. UNCHANGED <<exp, pc, raised, child, requests, pods, scraper, outcome>>
    BY <1>1, <2>1 DEF Next, Harness, Kubectl, TimePasses, Generator, Scrape, Environment, Done, vars, childVars, podVars, Alive,
                      MissingCredentials, OpenForward, ForwardReady, Opened, Connect,
                      Settle, CoolDown, Flushed, StartChild, ChildAwaited, Reap,
                      DeletePod, Deleted, QueryPod, PodAnswered, CloseForward, Finish, DisturbanceEnds,
                      SendRequest, Reply, Deadline, Summarise, BeginPoll, EndPoll,
                      ForwardDies, PodStarts, Interrupt, CancelScraper
  <2> QED  BY <2>2 DEF IInv, OkInv, OkIsEarned, Sent, WithState
<1>2. CASE pc # "done" /\ ~Finish
  <2>1. outcome # "ok"  BY <1>2 DEF IInv, OkInv
  <2>2. outcome' = outcome
    BY <1>2 DEF Next, Harness, Kubectl, TimePasses, Generator, Scrape, Environment, Done, vars, MissingCredentials,
                OpenForward, ForwardReady, Opened, Connect, Settle, CoolDown, Flushed,
                StartChild, ChildAwaited, Reap, DeletePod, Deleted, QueryPod, PodAnswered, CloseForward,
                DisturbanceEnds, SendRequest, Reply, Deadline, Summarise, BeginPoll,
                EndPoll, ForwardDies, PodStarts, Interrupt, CancelScraper
  <2> QED  BY <2>1, <2>2 DEF OkInv, OkIsEarned
<1>3. CASE Finish
  <2>1. /\ pc = "close" /\ pc' = "done"
        /\ UNCHANGED <<exp, raised, child, requests, pods, scraper>>
    BY <1>3 DEF Finish, childVars, podVars
  <2>2. SUFFICES ASSUME outcome' = "ok"  PROVE OkIsEarned'
    BY <2>1 DEF OkInv, OkIsEarned
  <2>3. raised = "none" /\ Judged = "ok"  BY <1>3, <2>2 DEF Finish, IInv, TypeOK, RunType
  <2>4. ~ChildFailed /\ ~GeneratorFailed /\ ~TimedOut /\ Complete  BY <2>3, Zenon DEF Judged
  <2>5. scraper.seen # {} /\ scraper.seen = scraper.ever
    BY <2>4 DEF Complete, IInv, ScraperInv
  <2>6. exp = "a" => child.stopped  BY <2>4 DEF ChildFailed
  <2>7. exp = "b" => Len(pods) = Labels /\ \A i \in DOMAIN pods : pods[i].phase = "running"
    <3>1. DOMAIN pods = 1..Len(pods)  BY DEF IInv, TypeOK, PodType
    <3> QED  BY <2>1, <2>3, <2>4, <3>1 DEF TimedOut, IInv, PodInv
  <2>8. exp = "c" => Sent # {} /\ Sent = WithState("ok") /\ child.exit = 0
    <3>1. SUFFICES ASSUME exp = "c"  PROVE Sent # {} /\ Sent = WithState("ok") /\ child.exit = 0
      OBVIOUS
    <3>2. child.exit = 0  BY <2>4, <3>1 DEF ChildFailed, IInv, ChildInv
    <3>3. Sent # {} /\ Failures = {} /\ WithState("waiting") = {}
      BY <2>4, <3>1 DEF GeneratorFailed, IInv, GeneratorInv
    <3>4. Sent = WithState("ok")
      BY <3>3 DEF Sent, Failures, WithState, IInv, TypeOK, ChildType
    <3> QED  BY <3>2, <3>3, <3>4
  <2> QED  BY <2>1, <2>3, <2>5, <2>6, <2>7, <2>8 DEF OkIsEarned, Sent, WithState
<1> QED  BY <1>1, <1>2, <1>3

\* When the run ends its forwards have been closed and its child reaped.
LEMMA EndStep ==
  ASSUME IInv, [Next]_vars
  PROVE  NothingLeftRunning'
<1>1. CASE pc = "done"
  <2>1. child.state \notin Alive /\ \A p \in AllPorts : forwards[p] # "up"
    BY <1>1 DEF IInv, ChildInv, NothingLeftRunning
  <2>2. UNCHANGED <<pc, raised, child, forwards>>
    BY <1>1, <2>1 DEF Next, Harness, Kubectl, TimePasses, Generator, Scrape, Environment, Done, vars, childVars, podVars, Alive,
                      MissingCredentials, OpenForward, ForwardReady, Opened, Connect,
                      Settle, CoolDown, Flushed, StartChild, ChildAwaited, Reap,
                      DeletePod, Deleted, QueryPod, PodAnswered, CloseForward, Finish, DisturbanceEnds,
                      SendRequest, Reply, Deadline, Summarise, BeginPoll, EndPoll,
                      ForwardDies, PodStarts, Interrupt, CancelScraper
  <2> QED  BY <2>2 DEF IInv, NothingLeftRunning
<1>2. CASE pc # "done" /\ ~Finish
  <2>1. pc' # "done"
    BY <1>2 DEF Next, Harness, Kubectl, TimePasses, Generator, Scrape, Environment, Done, vars, LeaveBody, Raise, WaitEnds,
                MissingCredentials, OpenForward, ForwardReady, Opened, Connect, Settle,
                CoolDown, Flushed, StartChild, ChildAwaited, Reap, DeletePod, Deleted, QueryPod, PodAnswered,
                CloseForward, DisturbanceEnds, SendRequest, Reply, Deadline, Summarise,
                BeginPoll, EndPoll, ForwardDies, PodStarts, Interrupt, CancelScraper
  <2> QED  BY <2>1 DEF NothingLeftRunning
<1>3. CASE Finish
  <2>1. pc = "close" /\ StillOpen = {} /\ UNCHANGED <<exp, raised, child, forwards>>
    BY <1>3 DEF Finish, childVars
  <2>2. child.state \notin Alive  BY <2>1 DEF IInv, ChildInv
  <2>3. ASSUME NEW p \in AllPorts
        PROVE  forwards[p] # "up" /\ (forwards[p] = "starting" => raised = "cancel")
    BY <2>1 DEF StillOpen, IInv, ForwardInv
  <2> QED  BY <2>1, <2>2, <2>3 DEF NothingLeftRunning, Alive
<1> QED  BY <1>1, <1>2, <1>3

\* The invariant of a run.
THEOREM Inductive == Spec => []IInv
<1>1. Init => IInv
  <2> SUFFICES ASSUME Init  PROVE IInv  OBVIOUS
  <2>1. RunType  BY HarnessAssumption DEF Init, RunType, Inside
  <2>2. ChildType /\ ScraperType  BY DEF Init, ChildType, Child, ScraperType, Task
  <2>3. PodType /\ Len(pods) = 0
    <3>1. pods = << >> /\ pod \in Pods  BY DEF Init, Pods
    <3>2. overdue \in BOOLEAN  BY Zenon DEF Init
    <3> QED  BY <3>1, <3>2 DEF PodType
  <2>4. RaisedInv /\ ForwardInv /\ OpeningInv  BY <2>1, OwnPorts DEF Init, RunType, RaisedInv, ForwardInv, OpeningInv
  <2>5. ChildInv /\ GeneratorInv /\ ScraperInv  BY DEF Init, ChildInv, Alive, GeneratorInv, ScraperInv
  <2>6. PodInv /\ OkInv /\ NothingLeftRunning
    BY <2>3 DEF Init, PodInv, Labels, OkInv, OkIsEarned, NothingLeftRunning
  <2> QED  BY <2>1, <2>2, <2>3, <2>4, <2>5, <2>6 DEF IInv, TypeOK
<1>2. IInv /\ [Next]_vars => IInv'
  BY RunTypeStep, ChildTypeStep, PodTypeStep, ScraperTypeStep, RaisedStep, ForwardStep, OpeningStep,
     ChildStep, GeneratorStep, ScraperStep, PodStep, OkStep, EndStep
  DEF IInv, TypeOK
<1> QED  BY <1>1, <1>2, PTL DEF Spec

\* Every variable keeps its type (_run, Scraper, LoadStats).
THEOREM TypeCorrect == Spec => []TypeOK
<1>1. IInv => TypeOK  BY DEF IInv
<1> QED  BY <1>1, Inductive, PTL

\* A run that reports "ok" was undisturbed, for any number of requests, series
\* and polls (_result, _run).
THEOREM OksAreEarned == Spec => []OkIsEarned
<1>1. IInv => OkIsEarned  BY DEF IInv, OkInv
<1> QED  BY <1>1, Inductive, PTL

\* No forward and no child process outlives its run (port_forward, _run_child).
THEOREM NothingKeepsRunning == Spec => []NothingLeftRunning
<1>1. IInv => NothingLeftRunning  BY DEF IInv
<1> QED  BY <1>1, Inductive, PTL
=============================================================================
