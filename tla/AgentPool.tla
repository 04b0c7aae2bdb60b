------------------------------ MODULE AgentPool ------------------------------
(***************************************************************************)
(* The worker pool of packages/core (agents/AgentPool.ts) together with    *)
(* the part of an agent's life it drives (agents/Agent.ts).                *)
(*                                                                         *)
(* The pool is JavaScript: code runs to the next await without            *)
(* interruption, and everything an agent emits is delivered synchronously *)
(* to the pool.  An action here is one such uninterrupted stretch:  the    *)
(* setState('idle') of an agent, for instance, runs checkAutoscaling() and *)
(* dispatchNext() inside the same stretch, and so does action GoIdle.      *)
(* What an await separates (registering a spawned agent, removing a        *)
(* terminated one, the drain loop of stop(), a retry timer, the catch of a *)
(* failed assignment) is an action of its own.                             *)
(*                                                                         *)
(* An assignment's payload is abstracted to its priority rank, its retry   *)
(* limit, whether it passes the schemas of types.ts, and the agents that   *)
(* can run it.  A task id is submitted at most once, as Orchestrator does  *)
(* with its random UUIDs; so the QueuedTask of a task is the task and      *)
(* retries[t].  An agent is chosen freely among the available ones: that   *)
(* is the 'random' strategy, and it includes what the others choose.       *)
(***************************************************************************)
EXTENDS Naturals, Sequences, FiniteSets

CONSTANTS
    Agent,             \* identities of agents; one may be reused once it is gone
    Task,
    NoAgent, NoTask,
    Rank,              \* PRIORITY_ORDER of the task's priority: 0 is the most urgent
    MaxRetries,        \* retryPolicy.maxRetries of each task
    Malformed,         \* tasks whose assignment the zod schemas reject
    CanRun,            \* canHandle(): the tasks each agent has the capabilities for
    Calls,             \* what the owner of the pool does beyond start and submit
    InitialReplicas, ReplicaChoices,  \* spec.replicas, and the values updateSpec gives it
    Autoscaling, MinReplicas, MaxReplicas, TargetUtilization,  \* spec.autoscaling
    MaxStops,          \* bound: stop() calls that have not returned
    MaxSpawning        \* bound: spawns pending when start or updateSpec adds more

\* The operations an owner may use: "early" is submitting without having
\* awaited start() (Orchestrator.createPool does await it).  An owner without
\* "restart" starts the pool, uses it, and stops it, once each and in this order.
Operations == {"early", "stop", "restart", "terminateAgent", "updateSpec"}

ASSUME PoolAssumption ==
    /\ Rank \in [Task -> Nat]
    /\ MaxRetries \in [Task -> Nat]
    /\ Malformed \subseteq Task
    /\ CanRun \in [Agent -> SUBSET Task]
    /\ Calls \subseteq Operations
    /\ InitialReplicas \in Nat /\ ReplicaChoices \subseteq Nat
    /\ Autoscaling \in BOOLEAN
    /\ MinReplicas \in Nat /\ MaxReplicas \in Nat /\ TargetUtilization \in Nat
    /\ MaxStops \in Nat /\ MaxSpawning \in Nat
    /\ NoAgent \notin Agent /\ NoTask \notin Task

VARIABLES
    running, draining,    \* isRunning, draining
    stops, clearing,      \* stop() calls in their drain loop; those about to clear the map
    replicas,             \* spec.replicas
    agents,               \* keys of the agents Map
    state,                \* identity.state of each agent
    starting, spawning,   \* spawns still to come from start(); from scaling and updateSpec
    leaving,              \* agents stopped by terminateAgent(), not yet deleted from the Map
    shrink,               \* agents updateSpec() has still to terminate
    job, settled,         \* the task each agent executes; agents that have sent its result
    queue, retries,       \* taskQueue, and the retries each queued task carries
    inFlight,             \* inFlight: the agent each task is dispatched to
    backoff,              \* tasks waiting for their retry timer
    rejecting, refused,   \* assignments whose receiveMessage() rejected; those reported as dispatchError
    submitted,            \* tasks submitTask() has accepted
    history,              \* taskHistory
    deadLetters           \* deadLetterQueue

lifecycle == <<running, draining, stops, clearing, replicas>>
fleet     == <<agents, state, starting, spawning, leaving, shrink>>
work      == <<job, settled>>
tasks     == <<queue, retries, inFlight, backoff, rejecting, refused, submitted, history, deadLetters>>
vars      == <<lifecycle, fleet, work, tasks>>

AgentState == {"idle", "busy", "terminated"}
Outcome    == {"none", "success", "failure"}

TypeOK ==
    /\ running \in BOOLEAN /\ draining \in BOOLEAN
    /\ stops \in Nat /\ clearing \in Nat /\ replicas \in Nat
    /\ agents \subseteq Agent
    /\ state \in [Agent -> AgentState]
    /\ starting \in Nat /\ spawning \in Nat
    /\ leaving \subseteq Agent /\ shrink \subseteq Agent
    /\ job \in [Agent -> Task \cup {NoTask}]
    /\ settled \subseteq Agent
    /\ queue \in Seq(Task)
    /\ retries \in [Task -> Nat]
    /\ inFlight \in [Task -> Agent \cup {NoAgent}]
    /\ backoff \subseteq Task /\ rejecting \subseteq Task /\ refused \subseteq Task
    /\ submitted \subseteq Task
    /\ history \in [Task -> Outcome]
    /\ deadLetters \in Seq([task : Task, attempts : Nat])

Init ==
    /\ running = FALSE /\ draining = FALSE
    /\ stops = 0 /\ clearing = 0
    /\ replicas = InitialReplicas
    /\ agents = {} /\ leaving = {} /\ shrink = {}
    /\ state = [a \in Agent |-> "terminated"]
    /\ starting = 0 /\ spawning = 0
    /\ job = [a \in Agent |-> NoTask] /\ settled = {}
    /\ queue = <<>>
    /\ retries = [t \in Task |-> 0]
    /\ inFlight = [t \in Task |-> NoAgent]
    /\ backoff = {} /\ rejecting = {} /\ refused = {} /\ submitted = {}
    /\ history = [t \in Task |-> "none"]
    /\ deadLetters = <<>>

-----------------------------------------------------------------------------
(***************************************************************************)
(* checkAutoscaling(), run by every stateChange of a registered agent, as  *)
(* a function of the agents' states st.  Spawning completes after an       *)
(* await, so the Map it counts does not include spawns under way.          *)
(* Terminating an idle agent emits stateChange at once and so re-enters    *)
(* checkAutoscaling() with the same totalAgents and busyAgents, since the  *)
(* Map entry is deleted after an await: once the test for scaling down     *)
(* holds, the recursion ends only when no agent is idle.                   *)
(***************************************************************************)
Total    == Cardinality(agents)
Busy(st) == Cardinality({a \in agents : st[a] = "busy"})
AtLeastOne(n) == IF n = 0 THEN 1 ELSE n

Overloaded(st) ==
    /\ Autoscaling
    /\ Busy(st) * 100 > TargetUtilization * AtLeastOne(Total)
    /\ Total < MaxReplicas

Underloaded(st) ==
    /\ Autoscaling
    /\ ~ Overloaded(st)
    /\ Busy(st) * 200 < TargetUtilization * AtLeastOne(Total)
    /\ Total > MinReplicas

ScaledUp(st)   == IF Overloaded(st) THEN 1 ELSE 0
ScaledDown(st) ==
    IF Underloaded(st)
    THEN [a \in Agent |-> IF a \in agents /\ st[a] = "idle" THEN "terminated" ELSE st[a]]
    ELSE st

\* Every termination but that of stop() goes through terminateAgent(), which
\* deletes the agent from the Map after an await.
StatesBecome(st) ==
    /\ state' = st
    /\ leaving' = leaving \cup {a \in agents : state[a] # "terminated" /\ st[a] = "terminated"}

\* Mutation: the sort after the push is forgotten.
Enqueued_Unsorted(q, t) == {Append(q, t)}

\* sortQueue() after a push: a stable sort by rank and arrival puts the new
\* entry behind the entries of its rank.
Enqueued(q, t) ==
    { SubSeq(q, 1, k) \o <<t>> \o SubSeq(q, k + 1, Len(q)) :
        k \in { k \in 0..Len(q) :
                  /\ \A i \in 1..k : Rank[q[i]] <= Rank[t]
                  /\ \A i \in (k + 1)..Len(q) : Rank[t] < Rank[q[i]] } }

\* isAvailable() and canHandle() of an agent.
CanTake(a, t, st) == st[a] = "idle" /\ t \in CanRun[a]

\* selectAgent()
Candidates(t, st) == {a \in agents : CanTake(a, t, st)}

\* Mutation: a head nobody can take is not put back.
NoDispatch_Dropped(q, j, st, n) ==
    /\ ~ running \/ q = <<>> \/ Candidates(Head(q), st) = {}
    /\ queue' = IF running /\ q # <<>> THEN Tail(q) ELSE q
    /\ job' = j
    /\ StatesBecome(st)
    /\ spawning' = spawning + n
    /\ UNCHANGED <<inFlight, rejecting>>

(***************************************************************************)
(* dispatchNext() on the queue q, with agents in states st executing jobs  *)
(* j, after n scale-ups in the same stretch of code.  A head nobody can    *)
(* take is put back.  The chosen agent turns busy before                   *)
(* assignTaskToAgent() first awaits, unless the assignment does not pass   *)
(* the schemas: then receiveMessage() rejects and the agent stays idle.    *)
(***************************************************************************)
NoDispatch(q, j, st, n) ==
    /\ \/ ~ running
       \/ q = <<>>
       \/ q # <<>> /\ Candidates(Head(q), st) = {}
    /\ queue' = q
    /\ job' = j
    /\ StatesBecome(st)
    /\ spawning' = spawning + n
    /\ UNCHANGED <<inFlight, rejecting>>

DispatchTo(a, q, j, st, n) ==
    LET t == Head(q)  busy == [st EXCEPT ![a] = "busy"]
    IN  /\ queue' = Tail(q)
        /\ inFlight' = [inFlight EXCEPT ![t] = a]
        /\ \/ /\ t \in Malformed
              /\ rejecting' = rejecting \cup {t}
              /\ job' = j
              /\ StatesBecome(st)
              /\ spawning' = spawning + n
           \/ /\ t \notin Malformed
              /\ job' = [j EXCEPT ![a] = t]
              /\ StatesBecome(ScaledDown(busy))
              /\ spawning' = spawning + n + ScaledUp(busy)
              /\ UNCHANGED rejecting

DispatchNext(q, j, st, n) ==
    \/ NoDispatch(q, j, st, n)
    \/ /\ running /\ q # <<>>
       /\ \E a \in Candidates(Head(q), st) : DispatchTo(a, q, j, st, n)

-----------------------------------------------------------------------------
(***************************************************************************)
(* Submission, results, retries.                                           *)
(***************************************************************************)
Submit(t) ==
    /\ t \notin submitted
    /\ ~ draining
    /\ "early" \in Calls \/ (running /\ starting = 0)
    /\ submitted' = submitted \cup {t}
    /\ \E q \in Enqueued(queue, t) : DispatchNext(q, job, state, 0)
    /\ UNCHANGED <<lifecycle, agents, starting, shrink, settled, retries, backoff, refused,
                   history, deadLetters>>

\* What the result handler of assignTaskToAgent() does with a result.
Completed(t) ==
    /\ history' = [history EXCEPT ![t] = "success"]
    /\ UNCHANGED <<backoff, deadLetters>>

\* Mutation: one retry too many.
Retrying_OneMore(t) ==
    /\ retries[t] <= MaxRetries[t]
    /\ backoff' = backoff \cup {t}
    /\ UNCHANGED <<history, deadLetters>>

\* Mutation: a failed attempt is recorded although it is retried.
Retrying_Recorded(t) ==
    /\ retries[t] < MaxRetries[t]
    /\ backoff' = backoff \cup {t}
    /\ history' = [history EXCEPT ![t] = "failure"]
    /\ UNCHANGED deadLetters

Retrying(t) ==
    /\ retries[t] < MaxRetries[t]
    /\ backoff' = backoff \cup {t}
    /\ UNCHANGED <<history, deadLetters>>

DeadLettered(t) ==
    /\ retries[t] >= MaxRetries[t]
    /\ deadLetters' = Append(deadLetters, [task |-> t, attempts |-> retries[t] + 1])
    /\ history' = [history EXCEPT ![t] = "failure"]
    /\ UNCHANGED backoff

SendResult(a) ==
    /\ job[a] # NoTask /\ a \notin settled
    /\ settled' = settled \cup {a}
    /\ inFlight' = [inFlight EXCEPT ![job[a]] = NoAgent]
    /\ Completed(job[a]) \/ Retrying(job[a]) \/ DeadLettered(job[a])
    /\ UNCHANGED <<lifecycle, fleet, job, queue, retries, rejecting, refused, submitted>>

\* Mutation: an idle event does not dispatch.
GoIdle_NoDispatch(a) ==
    /\ a \in settled
    /\ settled' = settled \ {a}
    /\ job' = [job EXCEPT ![a] = NoTask]
    /\ state' = [state EXCEPT ![a] = "idle"]
    /\ UNCHANGED <<lifecycle, agents, starting, spawning, leaving, shrink, tasks>>

\* The finally of handleTaskAssignment(): whatever the agent's state was, it
\* becomes idle, and the pool's stateChange listener runs.
GoIdle(a) ==
    LET idle == [state EXCEPT ![a] = "idle"]
    IN  /\ a \in settled
        /\ settled' = settled \ {a}
        /\ DispatchNext(queue, [job EXCEPT ![a] = NoTask], ScaledDown(idle), ScaledUp(idle))
        /\ UNCHANGED <<lifecycle, agents, starting, shrink, retries, backoff, refused, submitted,
                       history, deadLetters>>

\* Mutation: the timer does not dispatch.
RetryTimer_NoDispatch(t) ==
    /\ t \in backoff
    /\ backoff' = backoff \ {t}
    /\ retries' = [retries EXCEPT ![t] = @ + 1]
    /\ queue' \in Enqueued(queue, t)
    /\ UNCHANGED <<lifecycle, fleet, work, inFlight, rejecting, refused, submitted, history,
                   deadLetters>>

\* The retry timer: enqueue() with one retry more, then dispatchNext().
RetryTimer(t) ==
    /\ t \in backoff
    /\ backoff' = backoff \ {t}
    /\ retries' = [retries EXCEPT ![t] = @ + 1]
    /\ \E q \in Enqueued(queue, t) : DispatchNext(q, job, state, 0)
    /\ UNCHANGED <<lifecycle, agents, starting, shrink, settled, refused, submitted, history,
                   deadLetters>>

\* The catch of dispatchNext(): the assignment leaves inFlight and is only
\* reported; nothing is dispatched in its place.
DispatchError(t) ==
    /\ t \in rejecting
    /\ rejecting' = rejecting \ {t}
    /\ inFlight' = [inFlight EXCEPT ![t] = NoAgent]
    /\ refused' = refused \cup {t}
    /\ UNCHANGED <<lifecycle, fleet, work, queue, retries, backoff, submitted, history, deadLetters>>

-----------------------------------------------------------------------------
(***************************************************************************)
(* The fleet: start(), spawnAgent(), terminateAgent(), updateSpec().       *)
(***************************************************************************)
Start ==
    /\ ~ running
    /\ "restart" \in Calls \/ submitted = {}
    /\ starting + spawning + replicas <= MaxSpawning
    /\ running' = TRUE
    /\ starting' = starting + replicas
    /\ UNCHANGED <<draining, stops, clearing, replicas, agents, state, spawning, leaving, shrink,
                   work, tasks>>

\* spawnAgent() after its await.  The agent emitted its stateChange to idle
\* before the pool listened to it: nothing is dispatched.
Register(a) ==
    /\ a \notin agents \cup leaving \cup shrink
    /\ job[a] = NoTask
    /\ agents' = agents \cup {a}
    /\ state' = [state EXCEPT ![a] = "idle"]
    /\ \/ starting > 0 /\ starting' = starting - 1 /\ UNCHANGED spawning
       \/ spawning > 0 /\ spawning' = spawning - 1 /\ UNCHANGED starting
    /\ UNCHANGED <<lifecycle, leaving, shrink, work, tasks>>

\* terminateAgent() to its await, and after it.  A busy agent goes on with
\* its task.
Terminate(a) ==
    LET st == [state EXCEPT ![a] = "terminated"]
    IN  /\ StatesBecome(ScaledDown(st))
        /\ spawning' = spawning + ScaledUp(st)
        /\ UNCHANGED <<lifecycle, agents, starting, work, tasks>>

TerminateAgent(a) ==
    /\ "terminateAgent" \in Calls
    /\ a \in agents
    /\ Terminate(a)
    /\ UNCHANGED shrink

Deregister(a) ==
    /\ a \in leaving
    /\ agents' = agents \ {a}
    /\ leaving' = leaving \ {a}
    /\ UNCHANGED <<lifecycle, state, starting, spawning, shrink, work, tasks>>

\* The loops of start() look at the replicas again after each agent: with n of
\* them each spawns so many more, or ends early, though not before the agent it
\* has under way.  How many loops there are (a restart begins another) and which
\* of them the remaining spawns belong to is left open.
StillStarting(n) ==
    IF starting = 0 THEN {0}
    ELSE IF n > replicas THEN {starting + loops * (n - replicas) : loops \in 1..starting}
    ELSE 1..starting

\* updateSpec({replicas: n}): grow by spawning one agent after the other, or
\* terminate, one after the other, agents that are idle at this moment.
UpdateSpec(n) ==
    /\ "updateSpec" \in Calls
    /\ n # replicas
    /\ replicas' = n
    /\ starting' \in StillStarting(n)
    /\ \/ /\ n > replicas
          /\ starting' + spawning + (n - replicas) <= MaxSpawning
          /\ spawning' = spawning + (n - replicas)
          /\ UNCHANGED shrink
       \/ /\ n < replicas
          /\ LET idle == {a \in agents : state[a] = "idle"} IN
             \E some \in SUBSET idle :
                /\ Cardinality(some) <= replicas - n
                /\ Cardinality(some) = replicas - n \/ some = idle
                /\ shrink' = shrink \cup some
          /\ UNCHANGED spawning
    /\ UNCHANGED <<running, draining, stops, clearing, agents, state, leaving, work, tasks>>

ShrinkNext(a) ==
    /\ a \in shrink
    /\ shrink' = shrink \ {a}
    /\ \/ a \in agents /\ Terminate(a)
       \/ a \notin agents /\ UNCHANGED <<lifecycle, agents, state, starting, spawning, leaving, work, tasks>>

-----------------------------------------------------------------------------
(***************************************************************************)
(* stop(): a drain loop that polls inFlight until it is empty or the       *)
(* deadline has passed, then the termination of every agent, then, after   *)
(* an await, agents.clear().                                               *)
(***************************************************************************)
Stop ==
    /\ "stop" \in Calls
    /\ "restart" \in Calls \/ submitted # {}
    /\ stops + clearing < MaxStops
    /\ stops' = stops + 1
    /\ draining' = TRUE
    /\ UNCHANGED <<running, clearing, replicas, fleet, work, tasks>>

\* Each agent.stop() emits stateChange, so a pool that is overloaded when it
\* stops may start spawning again before the last agent is stopped.
Shutdown ==
    /\ stops > 0
    /\ stops' = stops - 1
    /\ clearing' = clearing + 1
    /\ running' = FALSE
    /\ draining' = FALSE
    /\ state' = [a \in Agent |-> IF a \in agents THEN "terminated" ELSE state[a]]
    /\ \E n \in 0..(Total * ScaledUp(state)) : spawning' = spawning + n
    /\ UNCHANGED <<replicas, agents, starting, leaving, shrink, work, tasks>>

Drained       == Shutdown /\ \A t \in Task : inFlight[t] = NoAgent
DrainDeadline == Shutdown /\ \E t \in Task : inFlight[t] # NoAgent

ClearAgents ==
    /\ clearing > 0
    /\ clearing' = clearing - 1
    /\ agents' = {}
    /\ UNCHANGED <<running, draining, stops, replicas, state, starting, spawning, leaving, shrink,
                   work, tasks>>

-----------------------------------------------------------------------------
\* What the pool, its agents and its timers do of themselves, and what the
\* owner of the pool does.
Internal ==
    \/ \E a \in Agent : SendResult(a) \/ GoIdle(a) \/ Register(a) \/ Deregister(a) \/ ShrinkNext(a)
    \/ \E t \in Task : RetryTimer(t) \/ DispatchError(t)
    \/ Drained \/ DrainDeadline \/ ClearAgents

Owner ==
    \/ \E t \in Task : Submit(t)
    \/ Start \/ Stop
    \/ \E a \in Agent : TerminateAgent(a)
    \/ \E n \in ReplicaChoices : UpdateSpec(n)

Next == Internal \/ Owner

Spec == Init /\ [][Next]_vars

(***************************************************************************)
(* Fairness.  Promise continuations and timers run: the event loop does    *)
(* not drop them.  An agent's executeTask() returns or throws.  Nothing    *)
(* obliges the owner to do anything, and a deadline is not relied on.      *)
(***************************************************************************)
Fairness ==
    /\ \A a \in Agent : WF_vars(SendResult(a)) /\ WF_vars(GoIdle(a)) /\ WF_vars(Deregister(a))
                        /\ WF_vars(ShrinkNext(a))
    /\ WF_vars(\E a \in Agent : Register(a))
    /\ \A t \in Task : WF_vars(RetryTimer(t)) /\ WF_vars(DispatchError(t))
    /\ WF_vars(Drained) /\ WF_vars(ClearAgents)

FairSpec == Spec /\ Fairness

-----------------------------------------------------------------------------
(***************************************************************************)
(* Properties.                                                             *)
(***************************************************************************)
Queued(t)   == \E i \in 1..Len(queue) : queue[i] = t
Flying(t)   == inFlight[t] # NoAgent
Finished(t) == history[t] # "none"

Settled(t) == Finished(t) \/ t \in refused

(***************************************************************************)
(* Every accepted task is in exactly one place: waiting in taskQueue       *)
(* (once), in flight, behind a retry timer, in taskHistory, or reported as *)
(* a dispatch error; and no other task is anywhere.  A retry that were     *)
(* queued while its first attempt still runs, or a task that were dropped  *)
(* when no agent is free, would break it.                                  *)
(***************************************************************************)
OnePlace ==
    /\ \A t \in submitted : Queued(t) \/ Flying(t) \/ t \in backoff \/ Finished(t) \/ t \in refused
    /\ \A t \in Task : Queued(t) \/ Flying(t) \/ t \in backoff \/ Settled(t) => t \in submitted
    /\ \A t \in Task : Queued(t)      => ~ Flying(t) /\ t \notin backoff /\ ~ Settled(t)
    /\ \A t \in Task : Flying(t)      => t \notin backoff /\ ~ Settled(t)
    /\ \A t \in Task : t \in backoff  => ~ Settled(t)
    /\ \A t \in Task : Finished(t)    => t \notin refused
    /\ \A i, k \in 1..Len(queue) : queue[i] = queue[k] => i = k

(***************************************************************************)
(* inFlight names the agent that executes the task, for each task whose    *)
(* assignment was accepted, and each executing agent that owes a result is *)
(* named by it: results are matched to tasks through this pairing, also    *)
(* while agents are terminated, shrunk away or stopped under their tasks.  *)
(***************************************************************************)
FlightMatchesJob ==
    /\ \A t \in Task : Flying(t) /\ t \notin rejecting =>
          job[inFlight[t]] = t /\ inFlight[t] \notin settled
    /\ \A a \in Agent : job[a] # NoTask /\ a \notin settled => inFlight[job[a]] = a

(***************************************************************************)
(* An agent that says it is idle executes nothing: selectAgent() trusts    *)
(* the state alone.  A terminated agent may still be executing.            *)
(***************************************************************************)
IdleHasNoJob == \A a \in Agent : state[a] = "idle" => job[a] = NoTask

(***************************************************************************)
(* Nothing the pool took on is lost, doubled or credited to another task:  *)
(* the three above, which results, retries, terminations, scaling and      *)
(* stop() could each break in an order of their own.                       *)
(***************************************************************************)
JobsAccounted == OnePlace /\ FlightMatchesJob /\ IdleHasNoJob

(***************************************************************************)
(* What the three above need to be inductive: an assignment that the       *)
(* schemas reject stays in inFlight until its catch runs, and is never     *)
(* executed; an agent that has sent a result keeps its task until it turns *)
(* idle.                                                                   *)
(***************************************************************************)
Strengthening ==
    /\ \A t \in rejecting : Flying(t) /\ t \in Malformed
    /\ \A a \in Agent : job[a] \notin Malformed
    /\ \A a \in settled : job[a] # NoTask

(***************************************************************************)
(* A task is tried at most maxRetries + 1 times, and is dead-lettered      *)
(* exactly when the last of these tries has failed.                        *)
(***************************************************************************)
DeadLetterAfterLastTry ==
    /\ \A t \in Task : retries[t] <= MaxRetries[t]
    /\ \A i \in 1..Len(deadLetters) : LET d == deadLetters[i] IN
          d.attempts = MaxRetries[d.task] + 1 /\ history[d.task] = "failure"
    /\ \A t \in Task : history[t] = "failure" =>
          Cardinality({i \in 1..Len(deadLetters) : deadLetters[i].task = t}) = 1

(***************************************************************************)
(* A pool whose owner awaits start(), and whose agents all have the        *)
(* capabilities of the task at the head, never has an idle agent while     *)
(* tasks are queued: one dispatchNext() per submission, retry and idle     *)
(* event is enough.                                                        *)
(***************************************************************************)
NoIdleAgentWhileQueued ==
    running /\ queue # <<>> => \A a \in agents : state[a] # "idle"

(***************************************************************************)
(* A task taken from the queue is one that no waiting task should have     *)
(* preceded: none is more urgent.                                          *)
(***************************************************************************)
MostUrgentFirst ==
    [][ \A t \in Task : Flying(t)' /\ ~ Flying(t) =>
            \A i \in 1..Len(queue') : Rank[t] <= Rank[queue'[i]] ]_vars

(***************************************************************************)
(* An outcome is final: a task with a recorded outcome is not run again    *)
(* and its record does not change, whatever late results arrive.           *)
(***************************************************************************)
OutcomeFinal ==
    [][ \A t \in Task : Settled(t) =>
            history'[t] = history[t] /\ ~ Flying(t)' /\ ~ Queued(t)' /\ t \notin backoff' ]_vars

(***************************************************************************)
(* Autoscaling keeps the pool within its limit: the Map never holds more   *)
(* than maxReplicas agents.  Does not hold: spawns under way are not       *)
(* counted.                                                                *)
(***************************************************************************)
NeverAboveMaxReplicas == Cardinality(agents) <= MaxReplicas

(***************************************************************************)
(* Every accepted task is in the end completed, dead-lettered or reported, *)
(* unless the pool is stopped.                                             *)
(***************************************************************************)
EverySubmissionSettles == \A t \in Task : t \in submitted ~> Settled(t) \/ ~ running

(***************************************************************************)
(* stop() ends, even when the deadline is never what ends it.              *)
(***************************************************************************)
StopEnds == stops > 0 ~> ~ running

(***************************************************************************)
(* Both: neither work nor its end is ever stuck.                           *)
(***************************************************************************)
WorkEnds == EverySubmissionSettles /\ StopEnds
=============================================================================
