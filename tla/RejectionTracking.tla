------------------------- MODULE RejectionTracking -------------------------
(***************************************************************************)
(* The decision agent's in-memory rejection loop: InspectionRule turns a   *)
(* failed inspection into one rejection command, RejectionTracker keeps    *)
(* the command until evidence settles it - an approval of the pipeline     *)
(* together with the device's feedback (last rejected bottle, reject       *)
(* count), a refusal, or ten seconds without either.                       *)
(*                                                                         *)
(* Inspections and results reach the agent late, repeatedly and in any     *)
(* order; feedback reaches it late and by halves, or not at all.  The      *)
(* device (RejectControl) is also used by others; the bottles of the model *)
(* stay within its window.  An approval is only published for a command    *)
(* that was executed (ActuationPipeline); the other results may say        *)
(* anything.                                                               *)
(*                                                                         *)
(* Both the baseline of a command and the tracker's count come from the    *)
(* same observations under the same condition: one variable stands for     *)
(* both.  _bottles is written together with _seen and purged by the same   *)
(* cutoff: it is read off `seen'.  All of this is in memory: the module is *)
(* one life of the agent process, which begins with nothing.               *)
(***************************************************************************)
EXTENDS Integers, FiniteSets

CONSTANTS
    Inspections,     \* inspection messages
    About,           \* their session, sequence, bottle, passed and inspected_at
    Sessions,
    Bottles,
    MaxAge,          \* inspection_max_age_s
    MaxFeedbackAge,  \* max_observation_age_s
    Grace,           \* ten seconds, for duplicates and for feedback
    RuleCapacity,    \* InspectionRule.capacity (4096)
    Capacity,        \* RejectionTracker.capacity (128)
    MaxCount,        \* the reject count saturates here (65535)
    MaxTime, MaxCommands    \* bounds

Inspection == [session : Sessions, sequence : Nat, bottle : Bottles,
               passed : BOOLEAN, at : Nat]

ASSUME TrackingAssumption ==
    /\ About \in [Inspections -> Inspection]
    /\ MaxAge \in Nat \ {0} /\ MaxFeedbackAge \in Nat /\ Grace \in Nat
    /\ RuleCapacity \in Nat \ {0} /\ Capacity \in Nat \ {0} /\ MaxCount \in Nat \ {0}
    /\ MaxTime \in Nat /\ MaxCommands \in Nat
    /\ 0 \notin Bottles

SameIdentity(a, b) == a.session = b.session /\ a.sequence = b.sequence

(* The device stamps an inspection once: messages of one identity never    *)
(* lie further apart than the grace period.                                *)
ASSUME IdentityAssumption ==
    \A i, j \in Inspections :
        SameIdentity(About[i], About[j]) => About[i].at <= About[j].at + Grace

VARIABLES
    now,          \* the wall clock
    device,       \* RejectControl: count, last_bottle and _rejected
    wire,         \* the feedback last read from the device, on its way
    seen,         \* InspectionRule._seen: when each inspection was admitted
    heads,        \* InspectionRule._heads of each session
    feedback,     \* RejectionTracker._feedback
    made,         \* number of commands made
    command,      \* the commands, in the order they were made
    pending,      \* RejectionTracker.pending
    acknowledged, \* those of them with an approval
    executed,     \* device: commands whose rejection was applied
    reports       \* history: <<command, outcome>> reported

ruleVars    == <<seen, heads, made, command>>
trackerVars == <<pending, acknowledged, reports>>
deviceVars  == <<device, executed>>
vars == <<now, deviceVars, wire, ruleVars, feedback, trackerVars>>

Never == -1
Commands == 1 .. MaxCommands
NoHead == [sequence |-> 0, touched |-> Never, at |-> 0]
NoReading == [count |-> 0, bottle |-> 0, at |-> Never]
NoFeedback == [value |-> 0, at |-> Never]
NoCommand == [inspection |-> 0, at |-> Never, baseline |-> 0]

Init ==
    /\ now = 0
    /\ device = [count |-> 0, last |-> 0, rejected |-> {}]
    /\ wire = NoReading
    /\ seen = [i \in Inspections |-> Never]
    /\ heads = [s \in Sessions |-> NoHead]
    /\ feedback = [count |-> NoFeedback, bottle |-> NoFeedback]
    /\ made = 0 /\ command = [k \in Commands |-> NoCommand]
    /\ pending = {} /\ acknowledged = {} /\ executed = {}
    /\ reports = {}

(***************************************************************************)
(* Clock and device.                                                       *)
(***************************************************************************)
Tick ==
    /\ now < MaxTime
    /\ now' = now + 1
    /\ wire' = IF now' - wire.at <= MaxFeedbackAge THEN wire ELSE NoReading
    /\ UNCHANGED <<deviceVars, ruleVars, feedback, trackerVars>>

(* RejectControl.apply: a bottle is rejected once.                         *)
Apply(b) ==
    /\ b \notin device.rejected
    /\ device' = [count    |-> IF device.count < MaxCount THEN device.count + 1 ELSE MaxCount,
                  last     |-> b,
                  rejected |-> device.rejected \cup {b}]

DeadlineOf(k) == About[command[k].inspection].at + MaxAge

(* The writer executes a command, at most once and before its deadline.    *)
Execute(k) ==
    /\ k <= made /\ k \notin executed /\ now <= DeadlineOf(k)
    /\ Apply(About[command[k].inspection].bottle)
    /\ executed' = executed \cup {k}
    /\ UNCHANGED <<now, wire, ruleVars, feedback, trackerVars>>

(* Somebody else rejects a bottle.                                         *)
RejectManually(b) ==
    /\ Apply(b)
    /\ UNCHANGED <<now, wire, executed, ruleVars, feedback, trackerVars>>

(* The adapter reads count and last bottle in one request.                 *)
Sample ==
    /\ wire' = [count |-> device.count, bottle |-> device.last, at |-> now]
    /\ UNCHANGED <<now, deviceVars, ruleVars, feedback, trackerVars>>

(***************************************************************************)
(* RejectionTracker.                                                       *)
(***************************************************************************)
(* Fault injection: an acknowledged command does not expire.               *)
OverdueUnacknowledged == {k \in pending \ acknowledged : now > DeadlineOf(k) + Grace}

(* expire: commands without evidence ten seconds after their deadline.     *)
Overdue == {k \in pending : now > DeadlineOf(k) + Grace}

(* Fault injection: feedback is enough, no approval is needed.             *)
ConfirmableUnapproved(P, A, F) ==
    {k \in P : /\ F.bottle.value = About[command[k].inspection].bottle
               /\ F.count.value > command[k].baseline
               /\ F.bottle.at >= command[k].at /\ F.count.at >= command[k].at}

(* _confirm: an approval, the own bottle rejected last, the count above    *)
(* the baseline, and both observed after the request.                      *)
Confirmable(P, A, F) ==
    {k \in P \cap A : /\ F.bottle.value = About[command[k].inspection].bottle
                      /\ F.count.value > command[k].baseline
                      /\ F.bottle.at >= command[k].at /\ F.count.at >= command[k].at}

(* Outcomes are reported and their commands forgotten.                     *)
Report(unknown, refused, confirmed, A) ==
    /\ pending' = pending \ (unknown \cup refused \cup confirmed)
    /\ acknowledged' = A \ (unknown \cup refused \cup confirmed)
    /\ reports' = reports \cup (unknown \X {"unknown"}) \cup (refused \X {"not_confirmed"})
                           \cup (confirmed \X {"confirmed"})

(* A message about something else, or one that is not accepted.            *)
OtherMessage ==
    /\ Report(Overdue, {}, {}, acknowledged)
    /\ UNCHANGED <<now, deviceVars, wire, ruleVars, feedback>>

(* feedback: an observation the state guard has accepted as newer.         *)
Feedback(kind) ==
    /\ wire.at > feedback[kind].at
    /\ feedback' = [feedback EXCEPT ![kind] = [value |-> wire[kind], at |-> wire.at]]
    /\ Report(Overdue, {}, Confirmable(pending \ Overdue, acknowledged, feedback'),
              acknowledged)
    /\ UNCHANGED <<now, deviceVars, wire, ruleVars>>

(* result: what the pipeline says of a command, first or again.            *)
Result(k, decision) ==
    LET known    == k \in pending \ Overdue
        A        == IF known /\ decision = "approve" THEN acknowledged \cup {k}
                                                      ELSE acknowledged
        unknown  == IF known /\ decision = "unknown" THEN {k} ELSE {}
        refused  == IF known /\ decision = "reject" THEN {k} ELSE {}
        others   == (pending \ Overdue) \ (unknown \cup refused)
    IN  /\ k <= made /\ (decision = "approve" => k \in executed)
        /\ Report(Overdue \cup unknown, refused,
                  IF known /\ decision # "pending" THEN Confirmable(others, A, feedback)
                                                    ELSE {}, A)
        /\ UNCHANGED <<now, deviceVars, wire, ruleVars, feedback>>

(***************************************************************************)
(* InspectionRule, and what the agent asks before it consults the rule.    *)
(***************************************************************************)
Cutoff == now - (MaxAge + Grace)

Kept == [i \in Inspections |-> IF seen[i] >= Cutoff THEN seen[i] ELSE Never]

KeptHeads ==
    [s \in Sessions |-> IF heads[s].touched >= Cutoff THEN heads[s] ELSE NoHead]

Remembered == {i \in Inspections : Kept[i] # Never}

SameBottle(a, b) == a.session = b.session /\ a.bottle = b.bottle

BottleKnown(i) == \E j \in Remembered : SameBottle(About[i], About[j])

Late(i) ==
    LET head == KeptHeads[About[i].session]
    IN  head # NoHead /\ About[i].sequence <= head.sequence

(* Refused before the head of the session is looked at or moved.           *)
Ignored(i) ==
    LET head == KeptHeads[About[i].session]
    IN  \/ About[i].sequence = 0
        \/ \E j \in Remembered : SameIdentity(About[i], About[j])
        \/ Late(i) /\ About[i].at > head.at
        \/ head = NoHead
              /\ Cardinality({s \in Sessions : KeptHeads[s] # NoHead}) >= RuleCapacity

Admitted(i) ==
    ~Ignored(i) /\ ~BottleKnown(i) /\ Cardinality(Remembered) < RuleCapacity

(* update: what is remembered after an inspection.                         *)
Remember(i) ==
    /\ seen' = IF Admitted(i) THEN [Kept EXCEPT ![i] = now] ELSE Kept
    /\ heads' = IF Ignored(i) THEN KeptHeads
                ELSE [KeptHeads EXCEPT ![About[i].session] =
                        IF Late(i) THEN [@ EXCEPT !.touched = now]
                        ELSE [sequence |-> About[i].sequence, touched |-> now,
                              at |-> About[i].at]]

(* Fault injection: an old inspection is as good as a new one.             *)
FreshOrOld(i) == About[i].at <= now

Fresh(i) == About[i].at <= now /\ now - About[i].at < MaxAge

(* Fault injection: the room in the tracker is not asked for.              *)
SubmittableUnbounded ==
    feedback.count.at # Never /\ feedback.count.value # MaxCount
    /\ now - feedback.count.at <= MaxFeedbackAge

(* A fresh count below saturation is known and the tracker has room.       *)
Submittable ==
    /\ feedback.count.at # Never /\ feedback.count.value # MaxCount
    /\ now - feedback.count.at <= MaxFeedbackAge
    /\ Cardinality(pending \ Overdue) < Capacity

(* An inspection the rule does not see, or does not see as fresh.          *)
InspectInVain(i) ==
    /\ ~(Submittable /\ Fresh(i))
    /\ Report(Overdue, {}, {}, acknowledged)
    /\ UNCHANGED <<now, deviceVars, wire, ruleVars, feedback>>

(* An inspection that leads to no command.                                 *)
InspectOnly(i) ==
    /\ Submittable /\ Fresh(i) /\ ~(Admitted(i) /\ ~About[i].passed)
    /\ Remember(i)
    /\ Report(Overdue, {}, {}, acknowledged)
    /\ UNCHANGED <<now, deviceVars, wire, made, command, feedback>>

(* A failed inspection: the command is made, tracked (add raises when the  *)
(* tracker is full) and published.                                         *)
InspectFailed(i) ==
    /\ Submittable /\ Fresh(i) /\ Admitted(i) /\ ~About[i].passed
    /\ made < MaxCommands
    /\ Remember(i)
    /\ reports' = reports \cup (Overdue \X {"unknown"})
    /\ acknowledged' = acknowledged \ Overdue
    /\ IF Cardinality(pending \ Overdue) < Capacity
         THEN /\ made' = made + 1
              /\ command' = [command EXCEPT ![made + 1] =
                    [inspection |-> i, at |-> now, baseline |-> feedback.count.value]]
              /\ pending' = (pending \ Overdue) \cup {made + 1}
         ELSE UNCHANGED <<made, command>> /\ pending' = pending \ Overdue
    /\ UNCHANGED <<now, deviceVars, wire, feedback>>

Next ==
    \/ Tick \/ Sample \/ OtherMessage
    \/ \E b \in Bottles : RejectManually(b)
    \/ \E k \in Commands :
         Execute(k) \/ \E d \in {"approve", "reject", "pending", "unknown"} : Result(k, d)
    \/ \E kind \in {"count", "bottle"} : Feedback(kind)
    \/ \E i \in Inspections : InspectInVain(i) \/ InspectOnly(i) \/ InspectFailed(i)

Spec == Init /\ [][Next]_vars

(* Time passes and the polled topics keep sending messages.                *)
FairSpec == Spec /\ WF_vars(Tick) /\ WF_vars(OtherMessage)

(***************************************************************************)
(* Properties.                                                             *)
(***************************************************************************)
(* A rejection is reported as confirmed only if its own command was        *)
(* executed by the device after it was made: neither somebody else's       *)
(* rejection nor old feedback can stand in for it.                         *)
ConfirmedIsExecuted ==
    \A k \in 1 .. made : <<k, "confirmed">> \in reports => k \in executed

(* However often an inspection is delivered, a running agent makes one     *)
(* command for its identity: it is too old when it is forgotten.           *)
OneRequestPerInspection ==
    \A j, k \in 1 .. made :
        SameIdentity(About[command[j].inspection], About[command[k].inspection]) => j = k

(* A failed inspection the rule remembers has had its command: it is never *)
(* remembered, and so suppressed, without one.                             *)
AdmittedIsCommanded ==
    \A i \in Inspections : seen[i] # Never /\ ~About[i].passed =>
        \E k \in 1 .. made : command[k].inspection = i

(* Every tracked rejection is settled in the end, also when neither result *)
(* nor feedback ever comes.                                                *)
EveryRejectionSettles == \A k \in Commands : k \in pending ~> k \notin pending
=============================================================================
