---------------------------- MODULE Executor ----------------------------
(***************************************************************************)
(* How a host has actor code executed: the connection to the Node process   *)
(* (JsActorExecutor in Rust, ActorSession in Node), the supervisor there     *)
(* that keeps one resident Worker per actor, and the Workers.                *)
(*                                                                          *)
(* A command and its reply are known by the operation they belong to.  A     *)
(* command is handled by the supervisor when it is sent, and a reply reaches *)
(* the operation that waits for it when it is made: the stream in between is *)
(* ordered, and the host does nothing that depends on the delay.  The state  *)
(* of an actor is the set of the operations applied to it.                   *)
(***************************************************************************)
EXTENDS Naturals, FiniteSets

CONSTANTS Actors, Ops, NoOp,
          ActorOf,      \* the actor of an operation
          Elsewhere,    \* operations that other hosts apply
          MaxResident,  \* MAX_RESIDENT_ACTORS
          HintLimit     \* residents kept in mind by the host (4096)

ASSUME OpsAssumption == NoOp \notin Ops /\ ActorOf \in [Ops \cup Elsewhere -> Actors]
ASSUME LimitsAssumption == MaxResident \in Nat \ {0} /\ HintLimit \in Nat \ {0}

VARIABLES conn,       \* the connection to the Node process
          residents,  \* actors the host believes to be resident
          pending,    \* operations that wait for a reply
          outcome,    \* per operation: the reply
          worker      \* per actor: its resident Worker in Node

executor == <<conn, residents, pending, outcome, worker>>

ActorState == SUBSET (Ops \cup Elsewhere)

\* empty: an entry of the supervisor without a Worker; dead: the Worker is gone
\* and the entry does not know it yet.
\* slot: the operation whose promise the Worker's next message settles.
\* idle: the idle timer runs.
Worker ==
    [status: {"absent", "empty", "live", "dead"}, hydrated: BOOLEAN, state: ActorState,
     running: SUBSET Ops, slot: Ops \cup {NoOp}, idle: BOOLEAN]

NoWorker == [status |-> "absent", hydrated |-> FALSE, state |-> {},
             running |-> {}, slot |-> NoOp, idle |-> FALSE]
EmptyEntry == [NoWorker EXCEPT !.status = "empty", !.idle = TRUE]

Outcome == [type: {"none", "ok", "failed", "state_required", "error"}, state: ActorState]
Result(type, state) == [type |-> type, state |-> state]

ExecutorTypeOK ==
    /\ conn \in {"none", "open", "closed"}
    /\ residents \subseteq Actors
    /\ pending \subseteq Ops
    /\ outcome \in [Ops -> Outcome]
    /\ worker \in [Actors -> Worker]

ExecutorInit ==
    /\ conn = "none"
    /\ residents = {}
    /\ pending = {}
    /\ outcome = [o \in Ops |-> Result("none", {})]
    /\ worker = [a \in Actors |-> NoWorker]

-----------------------------------------------------------------------------
(* Replies.                                                                 *)

\* deliver: the reply goes to the operation it names, if that still waits.
Deliver(o, type, state) ==
    IF o \in pending
    THEN /\ outcome' = [outcome EXCEPT ![o] = Result(type, state)]
         /\ pending' = pending \ {o}
    ELSE UNCHANGED <<outcome, pending>>

\* A command that is answered without a Worker's help.
Answer(o, type) ==
    /\ outcome' = [outcome EXCEPT ![o] = Result(type, {})]
    /\ pending' = pending \ {o}

\* disconnect: whoever waits hears that the executor is gone.
Disconnect ==
    /\ conn' = "closed"
    /\ outcome' = [o \in Ops |-> IF o \in pending THEN Result("error", {}) ELSE outcome[o]]
    /\ pending' = {}

-----------------------------------------------------------------------------
(* The supervisor in Node.                                                  *)

SetWorker(a, w) == worker' = [worker EXCEPT ![a] = w]
Entries == {a \in Actors : worker[a].status # "absent"}

\* The command goes to the actor's Worker.  An instance it has is used whatever
\* state the command carries.  The promise of the last command is the one the
\* Worker's next message settles.
Post(o, state, workers) ==
    LET a == ActorOf[o]
        w == workers[a]
    IN  /\ worker' = [workers EXCEPT ![a] =
               [status |-> "live", hydrated |-> TRUE,
                state |-> IF w.hydrated THEN w.state ELSE state,
                running |-> w.running \cup {o}, slot |-> o, idle |-> FALSE]]
        /\ pending' = pending \cup {o}
        /\ outcome' = [outcome EXCEPT ![o] = Result("none", {})]

\* Mutant of MakeRoom: off by one.
MakeRoomOneMore(o, state) ==
    \/ Cardinality(Entries) <= MaxResident /\ Post(o, state, worker)
    \/ /\ Cardinality(Entries) > MaxResident
       /\ \E b \in Entries : worker[b].idle /\ Post(o, state, [worker EXCEPT ![b] = NoWorker])

\* Mutant of MakeRoom: any resident actor may have to go.
MakeRoomAny(o, state) ==
    \/ Cardinality(Entries) < MaxResident /\ Post(o, state, worker)
    \/ /\ Cardinality(Entries) >= MaxResident
       /\ \E b \in Entries : Post(o, state, [worker EXCEPT ![b] = NoWorker])

\* makeRoomForActor: a full supervisor gives up an idle actor (the one that was
\* used least recently; here, any) or refuses.
MakeRoom(o, state) ==
    \/ Cardinality(Entries) < MaxResident /\ Post(o, state, worker)
    \/ /\ Cardinality(Entries) >= MaxResident
       /\ \E b \in Entries : worker[b].idle /\ Post(o, state, [worker EXCEPT ![b] = NoWorker])
    \/ /\ Cardinality(Entries) >= MaxResident /\ \A b \in Entries : ~worker[b].idle
       /\ Answer(o, "failed") /\ UNCHANGED worker

\* ActorWorkerSupervisor.execute, ResidentActorWorker.execute, prepare.
SupervisorExecute(o, residentOnly, state) ==
    LET a == ActorOf[o]
        w == worker[a]
    IN  \/ /\ w.status \in {"absent", "empty"} /\ residentOnly
           /\ Answer(o, "state_required") /\ UNCHANGED worker
        \/ w.status = "absent" /\ ~residentOnly /\ MakeRoom(o, state)
        \/ /\ w.status = "live" /\ ~w.hydrated /\ residentOnly
           /\ Answer(o, "state_required") /\ SetWorker(a, [w EXCEPT !.slot = NoOp, !.idle = TRUE])
        \/ /\ w.status = "dead"
           /\ Answer(o, "failed") /\ SetWorker(a, EmptyEntry)
        \/ /\ \/ w.status = "empty" /\ ~residentOnly
              \/ w.status = "live" /\ (w.hydrated \/ ~residentOnly)
           /\ Post(o, state, worker)

\* An entry is deleted and its Worker terminated.
Terminate(a) == SetWorker(a, NoWorker)

-----------------------------------------------------------------------------
(* A Worker.                                                                *)

\* The actor's code returns, with or without having changed the state.
RunReturns(a, o) ==
    LET w == worker[a]
    IN  \E next \in {w.state, w.state \cup {o}} :
            /\ SetWorker(a, [w EXCEPT !.running = @ \ {o}, !.state = next, !.slot = NoOp,
                                      !.idle = @ \/ w.slot # NoOp])
            /\ Deliver(w.slot, "ok", next)

\* It throws, or there is no instance: the instance is reset, and a failed reply
\* ends the Worker.
RunThrows(a, o) ==
    LET w == worker[a]
    IN  /\ IF w.slot = NoOp
           THEN SetWorker(a, [w EXCEPT !.running = @ \ {o}, !.hydrated = FALSE, !.state = {}])
           ELSE SetWorker(a, EmptyEntry)
        /\ Deliver(w.slot, "failed", {})

\* It returns a reply too large to send: the session evicts the actor first.
ReplyTooLarge(a, o) ==
    /\ worker[a].slot # NoOp
    /\ Terminate(a)
    /\ Deliver(worker[a].slot, "failed", {})

\* The Worker exits.
WorkerDies(a) ==
    LET w == worker[a]
    IN  /\ w.status = "live"
        /\ SetWorker(a, IF w.slot = NoOp THEN [NoWorker EXCEPT !.status = "dead", !.idle = w.idle]
                        ELSE EmptyEntry)
        /\ Deliver(w.slot, "failed", {})
        /\ UNCHANGED <<conn, residents>>

RunStep(a) ==
    /\ \E o \in worker[a].running : RunReturns(a, o) \/ RunThrows(a, o) \/ ReplyTooLarge(a, o)
    /\ UNCHANGED <<conn, residents>>

\* removeIfCurrent, when the idle timer fires: nobody waits for the Worker.
IdleExpires(a) ==
    /\ worker[a].idle
    /\ Terminate(a)
    /\ UNCHANGED <<conn, residents, pending, outcome>>

-----------------------------------------------------------------------------
(* The host's end.                                                          *)

\* exchange: a command is sent, is too large to be sent, or cannot be sent.
Exchange(o, residentOnly, state) ==
    \/ conn = "open" /\ SupervisorExecute(o, residentOnly, state)
    \/ conn = "open" /\ Answer(o, "failed") /\ UNCHANGED worker
    \/ conn # "open" /\ Answer(o, "error") /\ UNCHANGED worker

\* exchange_with_state: an actor believed resident gets no state ...
Hydrate(o, state) ==
    /\ Exchange(o, ActorOf[o] \in residents, state)
    /\ residents' = residents \ {ActorOf[o]}

\* Mutant of HydrateExplicitly: again without the state.
HydrateAgain(o, state) ==
    /\ Exchange(o, TRUE, state)
    /\ UNCHANGED residents

\* ... and when that was wrong the command is sent again with it.
HydrateExplicitly(o, state) ==
    /\ Exchange(o, FALSE, state)
    /\ UNCHANGED residents

\* An actor that has executed is believed resident.
Remember(a) ==
    residents' = IF Cardinality(residents) >= HintLimit THEN {a} ELSE residents \cup {a}

\* evict: by an operation that has had its reply, after which no instance is left.
\* It fails when the connection is gone, and with it the instance.
Evict(a) ==
    /\ residents' = residents \ {a}
    /\ IF conn = "open" THEN Terminate(a) ELSE UNCHANGED worker

\* The reply has been dealt with.
Forget(o) == outcome' = [outcome EXCEPT ![o] = Result("none", {})]

=============================================================================
