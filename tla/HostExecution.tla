-------------------------- MODULE HostExecution --------------------------
(***************************************************************************)
(* One host process: how it starts, how it admits method calls and socket   *)
(* events to their actors (one at a time per actor, in order of arrival),   *)
(* has them executed, and how it drains and stops.                          *)
(*                                                                          *)
(* What a commit does is in module DurableActor.  Here a publication         *)
(* succeeds, or fails with an unknown outcome; cache[a] is the state the     *)
(* next operation on actor a starts from, once it has resolved what was      *)
(* unresolved.                                                              *)
(***************************************************************************)
EXTENDS Executor, Sequences, Functions

CONSTANTS Kind,         \* per operation: a method call, an event, a disconnect event
          MaxAdmitted   \* MAX_ADMITTED_INVOCATIONS_PER_ACTOR

ASSUME KindAssumption == Kind \in [Ops -> {"method", "event", "disconnect"}]
ASSUME AdmittedAssumption == MaxAdmitted \in Nat \ {0}

VARIABLES host,       \* where the host process is
          ended,      \* it was the executor's task that ended and stopped the host
          timedOut,   \* the drain was cut short
          accepting,
          phase,      \* per operation: where it is
          gate,       \* per operation: the gate object it holds, 0 for none
          queue,      \* operations that hold a permit, in order of arrival
          cache,      \* per actor: the state to start from
          diverged    \* actors whose instance in Node may have another state than the cache

lifecycle == <<host, ended, timedOut, accepting>>
vars == <<executor, lifecycle, phase, gate, queue, cache, diverged>>

\* load, loaded, waiting: the loop of drain.
HostPhases == {"starting", "attached", "leased", "serving", "load", "loaded", "waiting",
               "drained", "closed", "unregistered", "panicked", "failed"}
Gone == {"unregistered", "panicked", "failed"}
Draining == {"load", "loaded", "waiting"}

\* checked: found the host accepting; hinted, hydrating: a command is out, without
\* or with the state; publish: the new state is to be published.
OpPhases == {"new", "checked", "queued", "hinted", "hydrating", "publish", "done", "lost"}
Executing == {"hinted", "hydrating", "publish"}

Active == {o \in Ops : phase[o] \in {"queued"} \cup Executing}
Working(o) == phase[o] \in Executing

TypeOK ==
    /\ ExecutorTypeOK
    /\ host \in HostPhases
    /\ {ended, timedOut, accepting} \subseteq BOOLEAN
    /\ phase \in [Ops -> OpPhases]
    /\ gate \in [Ops -> Nat]
    /\ queue \in Seq(Ops)
    /\ Range(queue) = Active
    /\ Cardinality(Entries) <= MaxResident
    /\ cache \in [Actors -> ActorState]
    /\ diverged \subseteq Actors

Init ==
    /\ ExecutorInit
    /\ host = "starting"
    /\ ended = FALSE /\ timedOut = FALSE /\ accepting = TRUE
    /\ phase = [o \in Ops |-> "new"]
    /\ gate = [o \in Ops |-> 0]
    /\ queue = << >>
    /\ cache = [a \in Actors |-> {}]
    /\ diverged = {}

-----------------------------------------------------------------------------
(* prepare_actor_host, serve_actor_host.                                    *)

Start(from, to) ==
    /\ host = from /\ host' = to
    /\ UNCHANGED <<residents, pending, outcome, worker, ended, timedOut, accepting, phase,
                   gate, queue, cache, diverged>>

\* The Node process has attached, next to the other dependencies; then the lease
\* is registered, and Node is told that all is ready.
Attach == conn' = "open" /\ Start("starting", "attached")
RegisterLease == Start("attached", "leased") /\ UNCHANGED conn
MarkReady == Start("leased", "serving") /\ UNCHANGED conn

StartFails ==
    /\ host \in {"starting", "attached", "leased"}
    /\ Start(host, "failed") /\ UNCHANGED conn

-----------------------------------------------------------------------------
(* Operations.                                                              *)

SetPhase(o, p) == phase' = [phase EXCEPT ![o] = p]

\* A queue without the operation o in it.
Without(q, o) ==
    LET at == CHOOSE i \in DOMAIN q : q[i] = o
    IN  [i \in 1 .. Len(q) - 1 |-> q[IF i < at THEN i ELSE i + 1]]

\* The guards of an operation are dropped.  The last one to finish wakes a drain
\* that waits already.
Finish(o) ==
    /\ SetPhase(o, "done")
    /\ Forget(o)
    /\ gate' = [gate EXCEPT ![o] = 0]
    /\ queue' = Without(queue, o)
    /\ host' = IF Active = {o} /\ host = "waiting" THEN "load" ELSE host
    /\ UNCHANGED <<ended, timedOut, accepting>>

\* validate_operation: a draining host takes nothing but disconnects.
Check(o) ==
    /\ phase[o] = "new" /\ host \in {"serving", "drained"} \cup Draining
    /\ SetPhase(o, IF accepting \/ Kind[o] = "disconnect" THEN "checked" ELSE "done")
    /\ UNCHANGED <<executor, lifecycle, gate, queue, cache, diverged>>

Holders(a) == {o \in Ops : ActorOf[o] = a /\ gate[o] # 0}

\* Mutant of GateFor: an actor whose operation executes gets a new gate.
GateForFresh(a) ==
    IF \E o \in Holders(a) : phase[o] = "queued"
    THEN gate[CHOOSE o \in Holders(a) : phase[o] = "queued"]
    ELSE Cardinality(Holders(a)) + 1

\* gate: the actor's gate as long as anyone holds it, else a new one.
GateFor(a) == IF Holders(a) = {} THEN 1 ELSE gate[CHOOSE o \in Holders(a) : TRUE]

\* The permits left at gate g of actor a.
Permits(g, a) == MaxAdmitted - Cardinality({o \in Holders(a) : gate[o] = g})

\* admit: a permit and a place in the queue for the lock, or HostUnavailable.
Admit(o) ==
    LET a == ActorOf[o]
    IN  /\ phase[o] = "checked" /\ host \notin Gone
        /\ IF Permits(GateFor(a), a) > 0
           THEN /\ SetPhase(o, "queued")
                /\ gate' = [gate EXCEPT ![o] = GateFor(a)]
                /\ queue' = Append(queue, o)
           ELSE SetPhase(o, "done") /\ UNCHANGED <<gate, queue>>
        /\ UNCHANGED <<executor, lifecycle, cache, diverged>>

\* The lock of a gate is granted in order of arrival.
HasLock(o) ==
    \A i \in DOMAIN queue : queue[i] = o =>
        \A j \in 1 .. i - 1 : ActorOf[queue[j]] # ActorOf[o] \/ gate[queue[j]] # gate[o]

\* The snapshots of actor a that may be loaded: this host's changes up to some
\* version, and changes of other hosts.
Snapshots(a) == SUBSET (cache[a] \cup {x \in Elsewhere : ActorOf[x] = a})

\* take_or_load_state: the entry in the cache, or, if there is none or it is of
\* another epoch, a snapshot.  An instance in Node stays what it is.
StartFrom(o, state) ==
    LET a == ActorOf[o]
    IN  /\ cache' = [cache EXCEPT ![a] = state]
        /\ diverged' = IF worker[a].hydrated /\ state # cache[a]
                       THEN diverged \cup {a} ELSE diverged
        /\ Hydrate(o, state)

\* Mutant of Enter: what was accepted is executed.
EnterUnchecked(o) ==
    /\ phase[o] = "queued" /\ HasLock(o) /\ host \notin Gone
    /\ SetPhase(o, IF ActorOf[o] \in residents THEN "hinted" ELSE "hydrating")
    /\ \E state \in Snapshots(ActorOf[o]) : StartFrom(o, state)
    /\ UNCHANGED <<conn, lifecycle, gate, queue>>

\* The lock is held: a host that drains by now refuses all the same, else the
\* state is at hand and the actor's code is called.
Enter(o) ==
    /\ phase[o] = "queued" /\ HasLock(o) /\ host \notin Gone
    /\ accepting \/ Kind[o] = "disconnect"
    /\ SetPhase(o, IF ActorOf[o] \in residents THEN "hinted" ELSE "hydrating")
    /\ \E state \in Snapshots(ActorOf[o]) : StartFrom(o, state)
    /\ UNCHANGED <<conn, lifecycle, gate, queue>>

\* It refuses; or the snapshot cannot be loaded, or the last publication resolved;
\* or the operation was the last one committed, whose result is returned again.
NotEntered(o) ==
    /\ phase[o] = "queued" /\ HasLock(o) /\ host \notin Gone
    /\ Finish(o)
    /\ UNCHANGED <<conn, residents, pending, worker, cache, diverged>>

Replied(o, type) == Working(o) /\ o \notin pending /\ outcome[o].type = type /\ host \notin Gone

StateRequired(o) ==
    /\ phase[o] = "hinted" /\ Replied(o, "state_required")
    /\ SetPhase(o, "hydrating")
    /\ HydrateExplicitly(o, cache[ActorOf[o]])
    /\ UNCHANGED <<conn, lifecycle, gate, queue, cache, diverged>>

\* Done: the state is what it was, or a new one is to be published.
Executed(o) ==
    /\ phase[o] \in {"hinted", "hydrating"} /\ Replied(o, "ok")
    /\ Remember(ActorOf[o])
    /\ IF outcome[o].state = cache[ActorOf[o]]
       THEN Finish(o)
       ELSE SetPhase(o, "publish") /\ UNCHANGED <<outcome, lifecycle, gate, queue>>
    /\ UNCHANGED <<conn, pending, worker, cache, diverged>>

\* Done, but its socket effects are invalid.
InvalidEffects(o) ==
    /\ phase[o] \in {"hinted", "hydrating"} /\ Replied(o, "ok")
    /\ Evict(ActorOf[o])
    /\ Finish(o)
    /\ UNCHANGED <<conn, pending, cache, diverged>>

\* A failed method call evicts the actor; a failed event relies on the Worker
\* being gone already.
ExecutionFailed(o) ==
    /\ phase[o] \in {"hinted", "hydrating"} /\ (Replied(o, "failed") \/ Replied(o, "error"))
    /\ IF Kind[o] = "method" THEN Evict(ActorOf[o]) ELSE UNCHANGED <<residents, worker>>
    /\ Finish(o)
    /\ UNCHANGED <<conn, pending, cache, diverged>>

Published(o) ==
    /\ phase[o] = "publish" /\ host \notin Gone
    /\ cache' = [cache EXCEPT ![ActorOf[o]] = outcome[o].state]
    /\ Finish(o)
    /\ UNCHANGED <<conn, residents, pending, worker, diverged>>

\* Mutant of PublishFails: the instance stays.
PublishFailsKeeps(o) ==
    /\ phase[o] = "publish" /\ host \notin Gone
    /\ cache' \in {cache, [cache EXCEPT ![ActorOf[o]] = outcome[o].state]}
    /\ Finish(o)
    /\ UNCHANGED <<conn, residents, pending, worker, diverged>>

\* Whether the commit took effect turns out later.
PublishFails(o) ==
    /\ phase[o] = "publish" /\ host \notin Gone
    /\ cache' \in {cache, [cache EXCEPT ![ActorOf[o]] = outcome[o].state]}
    /\ Evict(ActorOf[o])
    /\ Finish(o)
    /\ UNCHANGED <<conn, pending, diverged>>

\* The handler of a socket event is dropped with its call.  Its command, or what
\* it left in the Worker, is not.
Cancel(o) ==
    /\ Kind[o] # "method" /\ o \in Active /\ host \notin Gone
    /\ Finish(o)
    /\ pending' = pending \ {o}
    /\ diverged' = IF Working(o) THEN diverged \cup {ActorOf[o]} ELSE diverged
    /\ \/ UNCHANGED cache
       \/ phase[o] = "publish" /\ cache' = [cache EXCEPT ![ActorOf[o]] = outcome[o].state]
    /\ UNCHANGED <<conn, residents, worker>>

-----------------------------------------------------------------------------
(* The host stops.                                                          *)

HostStep(from, to) == host \in from /\ host' = to

Quiet == UNCHANGED <<phase, gate, queue, cache, diverged>>

\* wait_for_host_stop returns: the host was idle for long, was told to stop, has
\* lost its lease, or Node or the task of its connection has ended.  drain begins.
Stop ==
    /\ HostStep({"serving"}, "load")
    /\ accepting' = FALSE
    /\ ended' \in {FALSE, conn = "closed"}
    /\ UNCHANGED <<executor, timedOut>> /\ Quiet

\* The Node process exits.
NodeExits ==
    /\ conn = "open"
    /\ Disconnect
    /\ worker' = [a \in Actors |-> NoWorker]
    /\ UNCHANGED <<residents, lifecycle>> /\ Quiet

DrainLoad ==
    /\ HostStep({"load"}, IF Active = {} THEN "drained" ELSE "loaded")
    /\ UNCHANGED <<executor, ended, timedOut, accepting>> /\ Quiet

\* From here on the drain can be woken.
DrainWait ==
    /\ HostStep({"loaded"}, "waiting")
    /\ UNCHANGED <<executor, ended, timedOut, accepting>> /\ Quiet

\* Mutant of DrainTimeout: none.
DrainTimeoutNever ==
    /\ HostStep({"load"}, "drained") /\ Active = {}
    /\ UNCHANGED <<executor, ended, timedOut, accepting>> /\ Quiet

DrainTimeout ==
    /\ HostStep(Draining, "drained")
    /\ timedOut' = TRUE
    /\ UNCHANGED <<executor, ended, accepting>> /\ Quiet

\* Nothing is left of a process that is gone.
ProcessEnds ==
    /\ phase' = [o \in Ops |-> IF o \in Active \/ phase[o] = "checked" THEN "lost" ELSE phase[o]]
    /\ gate' = [o \in Ops |-> 0] /\ queue' = << >>
    /\ cache' = [a \in Actors |-> {}] /\ diverged' = {}
    /\ conn' = "closed" /\ residents' = {} /\ pending' = {}
    /\ outcome' = [o \in Ops |-> Result("none", {})]
    /\ worker' = [a \in Actors |-> NoWorker]
    /\ UNCHANGED <<ended, timedOut, accepting>>

\* The tasks are cancelled: the connection to Node is closed and the server takes
\* no more calls.
CloseExecutor ==
    /\ ~ended /\ HostStep({"drained"}, "closed")
    /\ Disconnect
    /\ UNCHANGED <<residents, worker, ended, timedOut, accepting>> /\ Quiet

\* When wait_for_host_stop returned because the executor's task had ended, the
\* task is polled again after its end, which is a panic.
JoinPanics ==
    /\ ended /\ HostStep({"drained"}, "panicked")
    /\ ProcessEnds

\* The server has stopped or is given up, the Node process is killed, the lease
\* is given back, and the process ends.
Unregister == HostStep({"closed"}, "unregistered") /\ ProcessEnds

-----------------------------------------------------------------------------
OpStep(o) ==
    \/ Admit(o) \/ Enter(o) \/ NotEntered(o)
    \/ StateRequired(o) \/ Executed(o) \/ InvalidEffects(o) \/ ExecutionFailed(o)
    \/ Published(o) \/ PublishFails(o)

NodeStep(a) == (RunStep(a) \/ WorkerDies(a) \/ IdleExpires(a)) /\ UNCHANGED lifecycle /\ Quiet

StopStep ==
    \/ DrainLoad \/ DrainWait \/ DrainTimeout
    \/ CloseExecutor \/ JoinPanics \/ Unregister

Next ==
    \/ Attach \/ RegisterLease \/ MarkReady \/ StartFails
    \/ \E o \in Ops : Check(o) \/ OpStep(o) \/ Cancel(o)
    \/ \E a \in Actors : NodeStep(a)
    \/ Stop \/ NodeExits
    \/ StopStep

\* The host's tasks are scheduled and its calls have timeouts.  Actor code may
\* run forever, callers do as they please, and nobody has to stop the host.
Spec == Init /\ [][Next]_vars /\ WF_vars(StopStep) /\ \A o \in Ops : WF_vars(OpStep(o))

-----------------------------------------------------------------------------
(* Correctness.                                                             *)

\* At most one operation of an actor is under way, although the gate of an actor
\* comes and goes with its holders (ActorExecutionLocks).
OneAtATime ==
    \A o, p \in Ops : o # p /\ ActorOf[o] = ActorOf[p] => ~(Working(o) /\ Working(p))

\* No more than MaxAdmitted operations of an actor are admitted at a time.
AdmissionBound == \A a \in Actors : Cardinality(Holders(a)) <= MaxAdmitted

\* An operation whose code has returned was executed on exactly the state the
\* host holds for the actor, and what it got is its own result: residency hints,
\* idle timers, the capacity limit and failures notwithstanding (exchange_with_state).
\* Two things may leave an instance with another state in Node, and are excepted:
\* an event dropped under way, and a snapshot loaded for another epoch.
ExecutesOnCached ==
    \A o \in Ops :
        LET held == cache[ActorOf[o]]
        IN  Working(o) /\ o \notin pending /\ outcome[o].type = "ok" /\ ActorOf[o] \notin diverged
              => outcome[o].state \in {held, held \cup {o}}

\* Nobody waits for a reply that nobody will make: the Worker of a waiting
\* operation runs code for its actor and will settle this operation's promise.
\* In particular the capacity limit never costs an actor that is busy its Worker.
WaitsForWorker ==
    \A o \in pending : worker[ActorOf[o]].slot = o /\ worker[ActorOf[o]].running # {}

\* A host that has drained in time executes nothing any more but disconnects,
\* even for an operation that found it accepting before (drain, and the second
\* look at accepting after admission).
DrainedQuiet ==
    host \in {"drained", "closed"} /\ ~timedOut =>
        \A o \in Ops : Working(o) => Kind[o] = "disconnect"

\* A host that begins to stop comes to its end, whatever its operations do, and
\* even if the last of them finishes just before the drain starts to wait.  It
\* gives its lease back, unless it was the executor's task that ended.
StopEnds == host \in Draining ~> host = IF ended THEN "panicked" ELSE "unregistered"

\* If actor code always returns, every admitted operation is answered, in spite
\* of refused hints, evictions and dropped events, or ends with its host: each is
\* admitted once, and in the end none is left.
MethodsReturn == \A a \in Actors : WF_vars(RunStep(a) /\ UNCHANGED lifecycle /\ Quiet)
Answered == MethodsReturn => <>[](Active = {})

=============================================================================
