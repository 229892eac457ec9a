------------------------- MODULE ExperimentHarness -------------------------
(***************************************************************************)
(* One run of the experiment harness (scripts/harness.py): experiment a    *)
(* disturbs the production mode, b deletes two pods, c injects load        *)
(* (scripts/load_inject.py).                                               *)
(*                                                                         *)
(* A run opens port forwards one inside the other, collects metrics in a   *)
(* background task, does its work, and unwinds in reverse order whatever   *)
(* happened: a forward that dies, a child process that fails or hangs, a   *)
(* pod that does not come back, metrics that are missing, an interruption  *)
(* by the operator at any await.  The steps between two awaits are one     *)
(* action.  The cluster, the forwards and the contextualizer are the       *)
(* environment.  A dry run starts nothing and is left out.                 *)
(***************************************************************************)
EXTENDS Integers, Sequences, FiniteSets, FiniteSetsExt

CONSTANTS
  Experiments,   \* the experiments of the instance, a subset of {"a", "b", "c"}
  Requests,      \* bound: requests the load injector can send
  MaxPending,    \* max_pending
  Series,        \* series a required query can return
  MaxPolls       \* bound: polls of the scraper before it is told to stop

ASSUME HarnessAssumption ==
  Experiments \subseteq {"a", "b", "c"} /\ MaxPending \in Nat \ {0} /\ MaxPolls \in Nat

VARIABLES
  exp,        \* the experiment of this run
  pc,         \* where the run stands
  raised,     \* exception on its way out: "none", "error", "cancel"
  forwards,   \* state of each port forward
  attempt,    \* attempts at the forward being opened
  child,      \* the disturbance or load process
  requests,   \* state of each request of the load process
  pods,       \* for each deleted pod how its recovery ended, oldest first
  pod,        \* the pod deleted last: "untouched", "pending", "running"
  overdue,    \* the deadline for its recovery is over
  scraper,    \* Scraper and its task
  files,      \* result files written
  outcome     \* outcome in run.json

childVars == <<child, requests>>
podVars == <<pods, pod, overdue>>
vars == <<exp, pc, raised, forwards, attempt, childVars, podVars, scraper, files, outcome>>

Ports == [a |-> <<"prometheus", "opcua", "amqp">>, b |-> <<"prometheus">>, c |-> <<"prometheus", "nats">>]
Labels == 2
AllPorts == {"prometheus", "opcua", "amqp", "nats"}
Usable(p) == forwards[p] = "up"

Init ==
  /\ exp \in Experiments
  /\ pc = "open" /\ raised = "none" /\ attempt = 0
  /\ forwards = [p \in AllPorts |-> "absent"]
  /\ child = [state |-> "none", exit |-> 0, stopped |-> FALSE, expired |-> FALSE]
  /\ requests = [r \in Requests |-> "new"]
  /\ pods = << >> /\ pod = "untouched" /\ overdue = FALSE
  /\ scraper = [state |-> "off", polls |-> 0, issue |-> FALSE, stop |-> FALSE, seen |-> {}, ever |-> {}]
  /\ files = {} /\ outcome = "none"

Raise(kind, stage) == raised' = kind /\ pc' = stage

(***************************************************************************)
(* Port forwards: those of run_experiment_a, _b and _c (Ports), each the   *)
(* context manager port_forward, entered in this order.                    *)
(***************************************************************************)

Unopened == {i \in DOMAIN Ports[exp] : forwards[Ports[exp][i]] \in {"absent", "starting"}}

\* Experiment a needs the driver's credentials before it starts anything.
MissingCredentials ==
  /\ pc = "open" /\ exp = "a" /\ \A p \in AllPorts : forwards[p] = "absent"
  /\ Raise("error", "close")
  /\ UNCHANGED <<exp, forwards, attempt, childVars, podVars, scraper, files, outcome>>

\* port_forward: start kubectl, at most twice.
OpenForward ==
  /\ pc = "open" /\ Unopened # {}
  /\ LET p == Ports[exp][Min(Unopened)] IN
       /\ forwards[p] = "absent"
       /\ forwards' = [forwards EXCEPT ![p] = "starting"]
  /\ attempt' = attempt + 1
  /\ UNCHANGED <<exp, pc, raised, childVars, podVars, scraper, files, outcome>>

\* After half a second kubectl still runs, or it exited and is tried again.
ForwardReady ==
  /\ pc = "open" /\ Unopened # {}
  /\ LET p == Ports[exp][Min(Unopened)] IN
       /\ forwards[p] = "starting"
       /\ \/ /\ forwards' = [forwards EXCEPT ![p] = "up"] /\ attempt' = 0
             /\ UNCHANGED <<pc, raised>>
          \/ /\ forwards' = [forwards EXCEPT ![p] = "absent"] /\ UNCHANGED attempt
             /\ IF attempt < 2 THEN UNCHANGED <<pc, raised>> ELSE Raise("error", "close")
  /\ UNCHANGED <<exp, childVars, podVars, scraper, files, outcome>>

Opened ==
  /\ pc = "open" /\ Unopened = {} /\ pc' = "connect"
  /\ UNCHANGED <<exp, raised, forwards, attempt, childVars, podVars, scraper, files, outcome>>

\* A forward ends by itself at any time.
ForwardDies ==
  /\ \E p \in AllPorts : forwards[p] = "up" /\ forwards' = [forwards EXCEPT ![p] = "gone"]
  /\ UNCHANGED <<exp, pc, raised, attempt, childVars, podVars, scraper, files, outcome>>

(***************************************************************************)
(* Collection of metrics: _collect and Scraper.                            *)
(***************************************************************************)

\* check_connectivity, then the scraper's task; a failure unwinds without it.
Connect ==
  /\ pc = "connect"
  /\ \/ /\ Usable("prometheus") /\ pc' = "settle" /\ UNCHANGED raised
        /\ scraper' = [scraper EXCEPT !.state = "polling", !.polls = 1]
     \/ Raise("error", "stop") /\ UNCHANGED scraper
  /\ UNCHANGED <<exp, forwards, attempt, childVars, podVars, files, outcome>>

\* Fault injection: a series that disappeared is noticed only by the first poll.
MissingAtFirst(found) == found = {} \/ (scraper.polls = 1 /\ scraper.seen \ found # {})

\* _poll_once, for a required query: no series, or one of the last poll's
\* series missing, is an issue.
SeriesMissing(found) == found = {} \/ scraper.seen \ found # {}

\* A poll ends: the query failed (no answer, warnings, a stale or non-finite
\* sample) or returned its series.
EndPoll ==
  /\ scraper.state = "polling"
  /\ LET next == IF scraper.stop THEN "done" ELSE "waiting" IN
       \/ scraper' = [scraper EXCEPT !.issue = TRUE, !.state = next]
       \/ \E found \in SUBSET Series :
            /\ Usable("prometheus")
            /\ scraper' = [scraper EXCEPT !.issue = @ \/ SeriesMissing(found), !.state = next,
                                          !.seen = found, !.ever = @ \cup found]
  /\ UNCHANGED <<exp, pc, raised, forwards, attempt, childVars, podVars, files, outcome>>

\* The interval is over, or the stop event wakes the task for a last poll.
BeginPoll ==
  /\ scraper.state = "waiting" /\ (scraper.polls < MaxPolls \/ scraper.stop)
  /\ scraper' = [scraper EXCEPT !.state = "polling", !.polls = @ + 1]
  /\ UNCHANGED <<exp, pc, raised, forwards, attempt, childVars, podVars, files, outcome>>

\* The first sleep of the body.
Settle ==
  /\ pc = "settle" /\ pc' = "work"
  /\ UNCHANGED <<exp, raised, forwards, attempt, childVars, podVars, scraper, files, outcome>>

\* The body is left, normally or not: the event is set and the task awaited.
LeaveBody == pc' = "stop" /\ scraper' = [scraper EXCEPT !.stop = TRUE]

\* The last sleep of the body (experiment b sleeps after every pod).
CoolDown ==
  /\ pc = "cool"
  /\ IF exp = "b" /\ Len(pods) < Labels THEN pc' = "work" /\ UNCHANGED scraper ELSE LeaveBody
  /\ UNCHANGED <<exp, raised, forwards, attempt, childVars, podVars, files, outcome>>

\* Scraper.flush: whether the collection counts as complete.
Complete == scraper.polls > 0 /\ scraper.seen # {} /\ ~scraper.issue

\* Scraper.flush: collection.json and the tables, whatever was collected.
Flush == files' = files \cup {"collection"}

Flushed ==
  /\ pc = "stop" /\ scraper.state \in {"off", "done"}
  /\ Flush /\ pc' = "close"
  /\ UNCHANGED <<exp, raised, forwards, attempt, childVars, podVars, scraper, outcome>>

(***************************************************************************)
(* The child process: the disturbance of a, the load injector of c.        *)
(***************************************************************************)

StartChild ==
  /\ pc = "work" /\ exp \in {"a", "c"} /\ child.state = "none"
  /\ child' = [child EXCEPT !.state = "running"]
  /\ UNCHANGED <<exp, pc, raised, forwards, attempt, requests, podVars, scraper, files, outcome>>

\* scripts/disturbance.py repeats its cycle until it is stopped or a cycle
\* fails.
DisturbanceEnds ==
  /\ exp = "a" /\ child.state = "running"
  /\ \E code \in {0, 1} : child' = [child EXCEPT !.state = "ended", !.exit = code]
  /\ UNCHANGED <<exp, pc, raised, forwards, attempt, requests, podVars, scraper, files, outcome>>

WithState(s) == {r \in Requests : requests[r] = s}
Sent == Requests \ WithState("new")

\* _request_one after _validate_reply: only a complete, correlated, successful
\* reply counts; no reply in time leaves the outcome open.
Count(r, reply) ==
  requests' = [requests EXCEPT ![r] = CASE reply = "valid" -> "ok" [] reply = "none" -> "unresolved" [] OTHER -> "err"]

SendRequest ==
  /\ exp = "c" /\ child.state = "running" /\ Cardinality(WithState("waiting")) < MaxPending
  /\ \E r \in WithState("new") : requests' = [requests EXCEPT ![r] = "waiting"]
  /\ UNCHANGED <<exp, pc, raised, forwards, attempt, child, podVars, scraper, files, outcome>>

\* Replies of the contextualizer: valid, wrong (an error, another request's, an
\* incomplete one) or none within the timeout.
Reply ==
  /\ exp = "c" /\ child.state \in {"running", "draining"}
  /\ \E r \in WithState("waiting"), reply \in {"valid", "wrong", "none"} :
       /\ reply = "valid" => Usable("nats")
       /\ Count(r, reply)
  /\ UNCHANGED <<exp, pc, raised, forwards, attempt, child, podVars, scraper, files, outcome>>

\* The injector's deadline: it awaits what is pending.  No connection to NATS
\* ends it at once.
Deadline ==
  /\ exp = "c" /\ child.state = "running"
  /\ \/ child' = [child EXCEPT !.state = "draining"]
     \/ Sent = {} /\ child' = [child EXCEPT !.state = "ended", !.exit = 1]
  /\ UNCHANGED <<exp, pc, raised, forwards, attempt, requests, podVars, scraper, files, outcome>>

Failures == WithState("err") \cup WithState("unresolved")

\* The injector saves its summary and exits with what it says.
Summarise ==
  /\ exp = "c" /\ child.state = "draining" /\ WithState("waiting") = {}
  /\ child' = [child EXCEPT !.state = "ended", !.exit = IF Sent = {} \/ Failures # {} THEN 1 ELSE 0]
  /\ files' = files \cup {"generator"}
  /\ UNCHANGED <<exp, pc, raised, forwards, attempt, requests, podVars, scraper, outcome>>

\* _run_child leaves its wait because the child ended or its time is over; a
\* disturbance is meant to be stopped, an injector is not.
AwaitChild ==
  child' = IF child.state = "ended" THEN child
           ELSE [child EXCEPT !.stopped = (exp = "a"), !.expired = (exp # "a")]

ChildAwaited ==
  /\ pc = "work" /\ child.state # "none" /\ AwaitChild /\ pc' = "reap"
  /\ UNCHANGED <<exp, raised, forwards, attempt, requests, podVars, scraper, files, outcome>>

\* Fault injection: the child is stopped only by a run that was not interrupted.
StoppedUnlessCancelled(c) ==
  IF c.state \in {"running", "draining"} /\ raised # "cancel" THEN [c EXCEPT !.state = "killed", !.exit = -15] ELSE c

\* _stop_process: terminate, and kill what does not end in time.
Stopped(c) == IF c.state \in {"running", "draining"} THEN [c EXCEPT !.state = "killed", !.exit = -15] ELSE c

\* The child is stopped and its process.json saved; then the body goes on or
\* an interruption continues.
Reap ==
  /\ pc = "reap"
  /\ child' = Stopped(child) /\ files' = files \cup {"process"}
  /\ IF raised = "none" THEN pc' = "cool" /\ UNCHANGED scraper ELSE LeaveBody
  /\ UNCHANGED <<exp, raised, forwards, attempt, requests, podVars, outcome>>

(***************************************************************************)
(* The pods of experiment b.                                               *)
(***************************************************************************)

\* _delete_pod_and_wait starts kubectl delete and awaits it without a limit.
DeletePod ==
  /\ pc = "work" /\ exp = "b" /\ pc' = "delete"
  /\ UNCHANGED <<exp, raised, forwards, attempt, childVars, podVars, scraper, files, outcome>>

\* kubectl delete fails, or returns once the old pod is gone.
Deleted ==
  /\ pc = "delete"
  /\ \/ pc' = "recover" /\ pod' = "pending" /\ overdue' = FALSE /\ UNCHANGED <<raised, scraper>>
     \/ raised' = "error" /\ LeaveBody /\ UNCHANGED <<pod, overdue>>
  /\ UNCHANGED <<exp, forwards, attempt, childVars, pods, files, outcome>>

PodStarts ==
  /\ pod = "pending" /\ pod' = "running"
  /\ UNCHANGED <<exp, pc, raised, forwards, attempt, childVars, pods, overdue, scraper, files, outcome>>

TimePasses ==
  /\ pc \in {"recover", "query"} /\ ~overdue /\ overdue' = TRUE
  /\ UNCHANGED <<exp, pc, raised, forwards, attempt, childVars, pods, pod, scraper, files, outcome>>

\* The wait for the pod ends with this answer.
WaitEnds(recovered) ==
  /\ pods' = Append(pods, [recovered |-> recovered, phase |-> pod])
  /\ pc' = "cool" /\ pod' = "untouched" /\ UNCHANGED <<raised, overdue, scraper>>

\* Fault injection: the deadline is not tested between two queries.
QueryUntilRunning ==
  /\ pc = "recover" /\ pc' = "query"
  /\ UNCHANGED <<exp, raised, forwards, attempt, childVars, podVars, scraper, files, outcome>>

\* _wait_for_pod_running tests its deadline between two queries only; kubectl
\* get itself is awaited without a limit.
QueryPod ==
  /\ pc = "recover"
  /\ IF overdue THEN WaitEnds(FALSE) ELSE pc' = "query" /\ UNCHANGED <<raised, podVars, scraper>>
  /\ UNCHANGED <<exp, forwards, attempt, childVars, files, outcome>>

\* kubectl get answers with the pod's phase, or fails.
PodAnswered ==
  /\ pc = "query"
  /\ \/ pod = "running" /\ WaitEnds(TRUE)
     \/ pod # "running" /\ pc' = "recover" /\ UNCHANGED <<raised, podVars, scraper>>
     \/ raised' = "error" /\ LeaveBody /\ UNCHANGED podVars
  /\ UNCHANGED <<exp, forwards, attempt, childVars, files, outcome>>

(***************************************************************************)
(* The way out.                                                            *)
(***************************************************************************)

StillOpen == {i \in DOMAIN Ports[exp] : forwards[Ports[exp][i]] \in {"up", "gone"}}

SignalInnermost == forwards' = [forwards EXCEPT ![Ports[exp][Max(StillOpen)]] = "stopped"]

\* Leaving the forwards' context managers, innermost first.
CloseForward ==
  /\ pc = "close" /\ StillOpen # {} /\ SignalInnermost
  /\ UNCHANGED <<exp, pc, raised, attempt, childVars, podVars, scraper, files, outcome>>

\* _result: what the child process did wrong.
ChildFailed ==
  \/ child.expired
  \/ child.exit # 0 /\ ~child.stopped
  \/ exp = "a" /\ ~child.stopped

\* _result: what the load injector's summary says.
GeneratorFailed == exp = "c" /\ ("generator" \notin files \/ Sent = {} \/ Failures # {})

TimedOut == \E i \in DOMAIN pods : ~pods[i].recovered

Judged ==
  IF ChildFailed \/ GeneratorFailed \/ TimedOut THEN "failed"
  ELSE IF Complete THEN "ok" ELSE "incomplete"

\* _run: run.json records the outcome of every run.
Finish ==
  /\ pc = "close" /\ StillOpen = {}
  /\ outcome' = CASE raised = "cancel" -> "interrupted" [] raised = "error" -> "failed" [] OTHER -> Judged
  /\ files' = files \cup {"run"} /\ pc' = "done"
  /\ UNCHANGED <<exp, raised, forwards, attempt, childVars, podVars, scraper>>

\* The operator interrupts once: the exception appears at the await the run is
\* in.  A forward that is just starting is not covered by its context manager;
\* one that is being stopped has its signal.
\* A child is stopped first, unless it is being stopped already: then it has
\* its signal, and process.json is not written.  The scraper's task may be
\* cancelled with the run (SIGTERM) and is when it is being awaited.  A kubectl
\* delete or get being awaited is left to itself.
Interrupt ==
  /\ raised # "cancel" /\ pc # "done" /\ raised' = "cancel"
  /\ \/ pc = "open" /\ Unopened # {} /\ pc' = "close" /\ UNCHANGED <<forwards, child, scraper>>
     \/ pc = "work" /\ child.state # "none" /\ pc' = "reap" /\ UNCHANGED <<forwards, child, scraper>>
     \/ /\ pc \in {"connect", "settle", "work", "delete", "recover", "query", "cool"} /\ (pc = "work" => child.state = "none")
        /\ LeaveBody /\ UNCHANGED <<forwards, child>>
     \/ pc = "reap" /\ LeaveBody /\ child' = Stopped(child) /\ UNCHANGED forwards
     \/ /\ pc = "stop" /\ scraper.state # "off" /\ UNCHANGED <<pc, forwards, child>>
        /\ scraper' = [scraper EXCEPT !.state = "done"]
     \/ pc = "close" /\ StillOpen # {} /\ SignalInnermost /\ UNCHANGED <<pc, child, scraper>>
  /\ UNCHANGED <<exp, attempt, requests, podVars, files, outcome>>

\* With SIGTERM every task is cancelled, the scraper's too.
CancelScraper ==
  /\ raised = "cancel" /\ pc # "done" /\ scraper.state \in {"polling", "waiting"}
  /\ scraper' = [scraper EXCEPT !.state = "done"]
  /\ UNCHANGED <<exp, pc, raised, forwards, attempt, childVars, podVars, files, outcome>>

Done == pc = "done" /\ UNCHANGED vars

Environment == ForwardDies \/ PodStarts \/ Interrupt \/ CancelScraper

Harness ==
  \/ MissingCredentials \/ OpenForward \/ ForwardReady \/ Opened \/ Connect \/ Settle \/ CoolDown
  \/ Flushed \/ StartChild \/ ChildAwaited \/ Reap \/ DeletePod \/ QueryPod \/ CloseForward \/ Finish

\* The answers the harness has no limit for.
Kubectl == Deleted \/ PodAnswered

Generator == DisturbanceEnds \/ SendRequest \/ Reply \/ Deadline \/ Summarise
Scrape == BeginPoll \/ EndPoll

Next == Harness \/ Kubectl \/ TimePasses \/ Generator \/ Scrape \/ Environment \/ Done

\* Fair: what the harness does next when an await has ended, the awaits that end
\* by their timeout (the sleeps, the child's, the scraper's queries) and the time
\* itself.  Not fair: what kubectl delete and get answer, the pods, the forwards.
Spec == Init /\ [][Next]_vars /\ WF_vars(Harness) /\ WF_vars(Scrape) /\ WF_vars(TimePasses)

(***************************************************************************)
(* Properties.                                                             *)
(***************************************************************************)

\* A run that reports "ok" went through undisturbed: nothing was raised, the last
\* poll of the required metrics still found every series ever observed, the disturbance lasted to
\* the end of the experiment, every deleted pod was running again in time, and
\* the load process sent something and got a valid reply to all of it
\* (_result, _run).
OkIsEarned ==
  outcome = "ok" =>
    /\ raised = "none" /\ scraper.seen # {} /\ scraper.seen = scraper.ever
    /\ exp = "a" => child.stopped
    /\ exp = "b" => Len(pods) = Labels /\ \A i \in DOMAIN pods : pods[i].phase = "running"
    /\ exp = "c" => Sent # {} /\ Sent = WithState("ok") /\ child.exit = 0

\* However a run ends, its port forwards and its disturbance or load process end
\* with it; only a forward interrupted in the half second after its start is left
\* behind.  A process interrupted while it is being stopped has its SIGTERM, which
\* neither script handles (port_forward, _run_child, _stop_process).
NothingLeftRunning ==
  pc = "done" =>
    /\ \A p \in AllPorts : forwards[p] # "up" /\ (forwards[p] = "starting" => raised = "cancel")
    /\ child.state \notin {"running", "draining"}

AwaitingKubectl == pc \in {"delete", "query"}

\* A run ends whatever the forwards, the pods and the child process do, unless it
\* stays in one kubectl delete or get for ever; an interruption ends it there too
\* (_run_child, _wait_for_pod_running, _delete_pod_and_wait).
RunEnds == <>(pc = "done") \/ <>[](AwaitingKubectl /\ raised = "none")
=============================================================================
