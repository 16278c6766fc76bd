------------------------- MODULE SocketGateway -------------------------
(***************************************************************************)
(* The WebSocket gateway: the registry of one actor's live connections, the *)
(* task that serves each connection (run_connection), and the calls by      *)
(* which it hands connects, messages and disconnects to the actor's host.   *)
(*                                                                          *)
(* The tasks of different connections run side by side.  What the actor     *)
(* commits comes back as socket effects, which the gateway applies one by   *)
(* one, each under a lock of its own.  A workflow posts the effects of its   *)
(* method calls, and broadcasts of its own, in the same way.                *)
(*                                                                          *)
(* A metadata value, and a message, is known by the event that produced it; *)
(* tags are treated like metadata and stay out of the model.                *)
(***************************************************************************)
EXTENDS Naturals, Sequences, FiniteSets, Functions

CONSTANTS Conns,        \* connections, each with a fresh id
          Posters,      \* workflow requests that post effects
          NoConn,
          Limit,        \* MAX_CONNECTIONS_PER_ACTOR
          ActorEffects, \* per connection and kind of event: effects the hook may choose
          MaxMessages,  \* bound, per connection: frames taken from its client
          MaxLost       \* bound: calls that end without an answer

ASSUME ConnsAssumption == NoConn \notin Conns /\ Conns \cap Posters = {}
ASSUME LimitAssumption == Limit \in Nat /\ MaxMessages \in [Conns -> Nat] /\ MaxLost \in Nat

VARIABLES task,        \* per connection: where run_connection is
          event,       \* per connection: the event in dispatch
          taken,       \* per connection: messages taken from the client
          registered,  \* connections in the registry ...
          open,        \* ... those of them that are open ...
          metadata,    \* ... and their metadata
          outbound,    \* per connection: the channel to its task
          effects,     \* per task and post: effects still to be applied
          committed,   \* what the actor has committed
          late,        \* calls that were given up and may yet take effect
          heard,       \* per connection: where the first message its client got is from
          sunk         \* message events handed to the event sink

registry == <<registered, open, metadata>>
vars == <<task, event, taken, registry, outbound, effects, committed, late, heard, sunk>>

\* sending: the loop waits for the client to take the head of the channel.
Tasks == {"new", "event", "loop", "sending", "ended"}
Kinds == {"connect", "message", "disconnect"}

\* removed: a disconnect between its two locks; sent: the call to the actor;
\* apply: its effects are applied.
Stages == {"removed", "sent", "apply"}

\* What a lifecycle event, or a workflow's call, is known by.  A connection has
\* one connect, one disconnect, and its messages by number.
EventId == [conn: Conns \cup Posters, kind: Kinds \cup {"call"}, number: Nat]
Event(t, kind, n) == [conn |-> t, kind |-> kind, number |-> n]
NoEvent == [conn |-> NoConn, kind |-> "none", number |-> 0]
CloseFrame == [conn |-> NoConn, kind |-> "close", number |-> 0]
Frame == EventId \cup {CloseFrame}

\* number counts the messages of a connection; metadata and catalog are what
\* the invocation carries besides the event.
SocketEvent ==
    [kind: Kinds, number: Nat, stage: Stages, metadata: EventId \cup {NoEvent},
     catalog: SUBSET Conns]
SomeEvent(kind, n, stage, data, catalog) ==
    [kind |-> kind, number |-> n, stage |-> stage, metadata |-> data, catalog |-> catalog]
NotDispatching == SomeEvent("connect", 0, "sent", NoEvent, {})

\* to: the connection addressed; for a broadcast the one excepted, or NoConn.
SocketEffect ==
    [type: {"broadcast", "send", "metadata", "close", "reject"}, to: Conns \cup {NoConn}]

\* One commit of the actor: the event, whether its caller had given it up, whether
\* the connection was rejected, and whose metadata it set.
Commit == [event: EventId, late: BOOLEAN, rejected: BOOLEAN, sets: SUBSET Conns]

\* A call that was given up: its event, and the connections it shows.
LostCall == [event: [conn: Conns, kind: Kinds, number: Nat], catalog: SUBSET Conns]

TypeOK ==
    /\ task \in [Conns -> Tasks]
    /\ event \in [Conns -> SocketEvent]
    /\ taken \in [Conns -> Nat]
    /\ registered \subseteq Conns /\ Cardinality(registered) <= Limit
    /\ open \subseteq registered
    /\ metadata \in [Conns -> EventId \cup {NoEvent}]
    /\ outbound \in [Conns -> Seq(Frame)]
    /\ effects \in [Conns \cup Posters -> Seq([effect: SocketEffect, by: EventId])]
    /\ committed \subseteq Commit
    /\ late \subseteq LostCall
    /\ heard \in [Conns -> EventId \cup {NoEvent}]
    /\ sunk \subseteq Conns \X Nat \X (Conns \cup {NoConn})

\* apply_effects: the effects of a method call that was committed, or a broadcast
\* of the workflow's own, on their way to the gateway.
Posted(p) ==
    <<[effect |-> [type |-> "broadcast", to |-> NoConn], by |-> Event(p, "call", 0)]>>

Init ==
    /\ task = [c \in Conns |-> "new"]
    /\ event = [c \in Conns |-> NotDispatching]
    /\ taken = [c \in Conns |-> 0]
    /\ registered = {} /\ open = {}
    /\ metadata = [c \in Conns |-> NoEvent]
    /\ outbound = [c \in Conns |-> <<>>]
    /\ effects = [t \in Conns \cup Posters |-> IF t \in Posters THEN Posted(t) ELSE <<>>]
    /\ committed = {}
    /\ late = {}
    /\ heard = [c \in Conns |-> NoEvent]
    /\ sunk = {}
-----------------------------------------------------------------------------
(* The registry.                                                            *)

Insert(c) ==
    /\ Cardinality(registered) < Limit
    /\ registered' = registered \cup {c}
    /\ UNCHANGED <<open, metadata>>

\* Mutant of Remove: the connection is still listed as open.
RemoveKeepsOpen(c) ==
    /\ registered' = registered \ {c}
    /\ metadata' = [metadata EXCEPT ![c] = NoEvent]
    /\ UNCHANGED open

Remove(c) ==
    /\ registered' = registered \ {c}
    /\ open' = open \ {c}
    /\ metadata' = [metadata EXCEPT ![c] = NoEvent]

\* A frame for a set of connections; a sender that is gone ignores it.
Queue(cs, frame) ==
    outbound' = [c \in Conns |-> IF c \in cs THEN Append(outbound[c], frame) ELSE outbound[c]]

Applied(effect, by) ==
    LET to == {effect.to} \cap registered
    IN  CASE effect.type = "broadcast" ->
               Queue(open \ {effect.to}, by) /\ UNCHANGED metadata
          [] effect.type = "send" -> Queue(to, by) /\ UNCHANGED metadata
          [] effect.type \in {"close", "reject"} ->
               Queue(to, CloseFrame) /\ UNCHANGED metadata
          [] effect.type = "metadata" ->
               /\ metadata' = [c \in Conns |-> IF c \in to THEN by ELSE metadata[c]]
               /\ UNCHANGED outbound

\* apply: the next effect of a list.
ApplyOne(t) ==
    /\ effects[t] # <<>>
    /\ Applied(Head(effects[t]).effect, Head(effects[t]).by)
    /\ effects' = [effects EXCEPT ![t] = Tail(@)]
    /\ UNCHANGED <<task, event, taken, registered, open, committed, late, heard, sunk>>
-----------------------------------------------------------------------------
(* The actor's host, as the gateway sees it.                                *)

\* What a hook produces: at most one effect of its own choice, on a connection
\* it was shown.  A connect may reject its connection as well: after the effect,
\* unless that closed it, or before it, unless that sends to it or closes it.  One
\* that does not reject adds the state event.
HookEffects(kind, c, catalog) ==
    LET any == {[type |-> "broadcast", to |-> d] : d \in {c, NoConn}}
                 \cup [type: {"send", "metadata", "close"}, to: catalog]
        chosen == {e \in any : e.type \in ActorEffects[c][kind]}
        state == [type |-> "send", to |-> c]
        closing == [type |-> "close", to |-> c]
        refusal == [type |-> "reject", to |-> c]
    IN  IF kind = "connect"
        THEN {<<state>>, <<refusal>>} \cup {<<e, state>> : e \in chosen}
               \cup {<<e, refusal>> : e \in chosen \ {closing}}
               \cup {<<refusal, e>> : e \in chosen \ {closing, state}}
        ELSE {<<>>} \cup {<<e>> : e \in chosen}

\* onMessage is given its socket from the catalog, and fails without it.
HookRuns(e, catalog) == e.kind = "message" => e.conn \in catalog

\* The actor's state is committed together with what it produced.
Commits(e, isLate, produced) ==
    LET made == Range(produced)
    IN  committed' = committed \cup
            {[event |-> e, late |-> isLate,
              rejected |-> \E effect \in made : effect.type = "reject",
              sets |-> {effect.to : effect \in {x \in made : x.type = "metadata"}}]}

\* The effects of a commit, to be applied.
Produced(e, produced) == [i \in DOMAIN produced |-> [effect |-> produced[i], by |-> e]]
-----------------------------------------------------------------------------
(* dispatch: one event of a connection on its way to the actor.             *)

In(c, stage) == task[c] = "event" /\ event[c].stage = stage
Current(c) == Event(c, event[c].kind, event[c].number)

SetTask(c, at, e) == task' = [task EXCEPT ![c] = at] /\ event' = [event EXCEPT ![c] = e]

\* The task ends and drops its channel.
End(c) ==
    /\ SetTask(c, "ended", NotDispatching)
    /\ outbound' = [outbound EXCEPT ![c] = <<>>]

\* Mutant of PrepareEvent: all registered connections are listed.
PrepareEventAll(c, kind, n) ==
    LET catalog == IF kind = "connect" THEN registered \cup {c} ELSE registered
    IN  SetTask(c, "event", SomeEvent(kind, n, "sent", NoEvent, catalog))

\* prepare_event of a connect or a message: the open connections, and the new one.
PrepareEvent(c, kind, n) ==
    LET catalog == IF kind = "connect" THEN open \cup {c} ELSE open
    IN  SetTask(c, "event", SomeEvent(kind, n, "sent", NoEvent, catalog))

\* Mutant of LeaveLoop: the disconnect carries the metadata of the connect.
LeaveLoopOld(c) ==
    /\ SetTask(c, "event", SomeEvent("disconnect", 0, "removed", NoEvent, {}))
    /\ Remove(c)

\* The loop is over.  prepare_event of the disconnect first takes the connection
\* out of the registry, with the metadata it has there ...
LeaveLoop(c) ==
    LET data == IF c \in registered THEN metadata[c] ELSE NoEvent
    IN  /\ SetTask(c, "event", SomeEvent("disconnect", 0, "removed", data, {}))
        /\ Remove(c)

\* ... and then lists the connections that are left.
PrepareDisconnect(c) ==
    /\ In(c, "removed")
    /\ event' = [event EXCEPT ![c] = SomeEvent(@.kind, @.number, "sent", @.metadata, open)]
    /\ UNCHANGED <<task, taken, registry, outbound, effects, committed, late, heard, sunk>>

\* Completed: the state is committed and the effects are here.
Completed(c, produced) ==
    /\ In(c, "sent")
    /\ HookRuns(Current(c), event[c].catalog)
    /\ Commits(Current(c), FALSE, produced)
    /\ effects' = [effects EXCEPT ![c] = Produced(Current(c), produced)]
    /\ event' = [event EXCEPT ![c] = SomeEvent(@.kind, @.number, "apply", NoEvent, {})]
    /\ UNCHANGED <<task, taken, registry, outbound, late, heard, sunk>>

\* Mutant of DispatchFails: a connection that could not connect disconnects.
DispatchFailsLeaves(c) ==
    IF event[c].kind # "disconnect" THEN LeaveLoop(c) /\ UNCHANGED <<outbound, sunk>>
    ELSE Remove(c) /\ End(c) /\ UNCHANGED sunk

\* dispatch returns false: a connect removes the connection and closes the
\* socket, a message leaves the loop, and a disconnect has been tried.
DispatchFails(c) ==
    IF event[c].kind = "message" THEN LeaveLoop(c) /\ UNCHANGED <<outbound, sunk>>
    ELSE Remove(c) /\ End(c) /\ UNCHANGED sunk

\* Nothing was committed: the connection's credential has expired or no host is
\* to be had (socket_target), the host drains, the hook threw, or its effects
\* are invalid (Failed).
NotExecuted(c) ==
    /\ In(c, "sent")
    /\ DispatchFails(c)
    /\ UNCHANGED <<taken, effects, committed, late, heard>>

GivenUp(c) == [event |-> Current(c), catalog |-> event[c].catalog]
MayLose == Cardinality(late) + Cardinality({x \in committed : x.late}) < MaxLost

\* Mutant of CallLost: a call that failed in transport is made again.
CallLostRetried(c) ==
    /\ In(c, "sent") /\ MayLose
    /\ late' = late \cup {GivenUp(c)}
    /\ UNCHANGED <<task, event, taken, registry, outbound, effects, committed, heard, sunk>>

\* The call fails in transport, times out, or ends with an unknown outcome: the
\* host may have executed the event, or may yet do so.
CallLost(c) ==
    /\ In(c, "sent") /\ MayLose
    /\ late' = late \cup {GivenUp(c)}
    /\ DispatchFails(c)
    /\ UNCHANGED <<taken, effects, committed, heard>>

\* It does; nobody is there for its effects.
LateCommit(call, produced) ==
    /\ HookRuns(call.event, call.catalog)
    /\ late' = late \ {call}
    /\ Commits(call.event, TRUE, produced)
    /\ UNCHANGED <<task, event, taken, registry, outbound, effects, heard, sunk>>

\* Mutant of Connected: the connection is open before the effects are applied.
ConnectedEarly(c) ==
    /\ In(c, "apply") /\ event[c].kind = "connect" /\ (effects[c] = <<>> \/ c \notin open)
    /\ open' = open \cup ({c} \cap registered)
    /\ IF effects[c] = <<>> THEN SetTask(c, "loop", NotDispatching) ELSE UNCHANGED <<task, event>>
    /\ UNCHANGED <<taken, registered, metadata, outbound, effects, committed, late, heard, sunk>>

\* dispatch returns true once the effects are applied.  activate: a connection
\* that has connected is open from now on, even one that was rejected.
Connected(c) ==
    /\ In(c, "apply") /\ event[c].kind = "connect" /\ effects[c] = <<>>
    /\ open' = open \cup ({c} \cap registered)
    /\ SetTask(c, "loop", NotDispatching)
    /\ UNCHANGED <<taken, registered, metadata, outbound, effects, committed, late, heard, sunk>>

TriggerId(c) == IF c \in registered THEN c ELSE NoConn

\* A message goes on to the event sink with the trigger of its connection.
DeliverMessageEvent(c) == sunk' = sunk \cup {<<c, event[c].number, TriggerId(c)>>}

MessageDone(c) ==
    /\ In(c, "apply") /\ event[c].kind = "message" /\ effects[c] = <<>>
    /\ DeliverMessageEvent(c)
    /\ SetTask(c, "loop", NotDispatching)
    /\ UNCHANGED <<taken, registry, outbound, effects, committed, late, heard>>

Disconnected(c) ==
    /\ In(c, "apply") /\ event[c].kind = "disconnect" /\ effects[c] = <<>>
    /\ Remove(c)
    /\ End(c)
    /\ UNCHANGED <<taken, effects, committed, late, heard, sunk>>
-----------------------------------------------------------------------------
(* run_connection.                                                          *)

\* connect_workflow, connect_external: authenticated and upgraded, with metadata
\* from the authorization or from the first frame.
Register(c) ==
    /\ task[c] = "new"
    /\ Insert(c)
    /\ PrepareEvent(c, "connect", 0)
    /\ UNCHANGED <<taken, outbound, effects, committed, late, heard, sunk>>

\* receive_metadata times out or gets something else, or the registry is full
\* ("actor connection limit reached").
NotRegistered(c) ==
    /\ task[c] = "new"
    /\ End(c)
    /\ UNCHANGED <<taken, registry, effects, committed, late, heard, sunk>>

\* The loop takes a frame of the client.
TakeInbound(c) ==
    /\ task[c] = "loop" /\ taken[c] < MaxMessages[c]
    /\ taken' = [taken EXCEPT ![c] = @ + 1]
    /\ PrepareEvent(c, "message", taken[c] + 1)
    /\ UNCHANGED <<registry, outbound, effects, committed, late, heard, sunk>>

\* ... or takes a frame for the client, and hands it to the socket.
TakeOutbound(c) ==
    /\ task[c] = "loop" /\ outbound[c] # <<>>
    /\ task' = [task EXCEPT ![c] = "sending"]
    /\ UNCHANGED <<event, taken, registry, outbound, effects, committed, late, heard, sunk>>

\* Mutant of Sent: the actor's Close does not end the loop.
SentStays(c) ==
    /\ task[c] = "sending"
    /\ outbound' = [outbound EXCEPT ![c] = Tail(@)]
    /\ heard' = [heard EXCEPT ![c] =
                    IF @ = NoEvent /\ Head(outbound[c]) # CloseFrame THEN Head(outbound[c]) ELSE @]
    /\ task' = [task EXCEPT ![c] = "loop"]
    /\ UNCHANGED <<event, taken, registry, effects, committed, late, sunk>>

\* The client has taken the frame, for which send and close_socket wait without
\* a timeout.  The actor's Close ends the loop.  A pong is sent in the same way, and
\* stays out of the model.
Sent(c) ==
    /\ task[c] = "sending"
    /\ outbound' = [outbound EXCEPT ![c] = Tail(@)]
    /\ IF Head(outbound[c]) = CloseFrame
       THEN LeaveLoop(c) /\ UNCHANGED heard
       ELSE /\ heard' = [heard EXCEPT ![c] = IF @ = NoEvent THEN Head(outbound[c]) ELSE @]
            /\ task' = [task EXCEPT ![c] = "loop"]
            /\ UNCHANGED <<event, registry>>
    /\ UNCHANGED <<taken, effects, committed, late, sunk>>

\* The loop finds that the client has closed or is gone, or that a frame cannot
\* be sent to it.
ClientLeft(c) ==
    /\ task[c] \in {"loop", "sending"}
    /\ LeaveLoop(c)
    /\ UNCHANGED <<taken, outbound, effects, committed, late, heard, sunk>>
-----------------------------------------------------------------------------
(* Everything together.                                                     *)

CallEnds(c) ==
    \/ \E produced \in HookEffects(event[c].kind, c, event[c].catalog) : Completed(c, produced)
    \/ NotExecuted(c) \/ CallLost(c)

TaskStep(c) ==
    \/ PrepareDisconnect(c) \/ CallEnds(c) \/ ApplyOne(c)
    \/ Connected(c) \/ MessageDone(c) \/ Disconnected(c) \/ TakeOutbound(c)

ClientStep(c) ==
    Register(c) \/ NotRegistered(c) \/ TakeInbound(c) \/ Sent(c) \/ ClientLeft(c)

HostStep ==
    \E call \in late :
        \E produced \in HookEffects(call.event.kind, call.event.conn, call.catalog) :
            LateCommit(call, produced)

Next ==
    \/ \E c \in Conns : TaskStep(c) \/ ClientStep(c)
    \/ \E p \in Posters : ApplyOne(p)
    \/ HostStep

\* Every task is scheduled, and every call ends: routing and the host's call
\* have timeouts.  Clients do as they please, and may take nothing that is sent
\* to them.
Spec == Init /\ [][Next]_vars /\ \A c \in Conns : WF_vars(TaskStep(c))

-----------------------------------------------------------------------------
(* Correctness.                                                             *)

\* The actor takes no lifecycle event twice, whatever calls are lost: one that
\* has failed in transport may still be executed, and is not made again
\* (dispatch_socket_event).
EventsOnce == \A x, y \in committed : x.event = y.event => x = y

\* The place of an event in the life of its connection.
Rank(e) ==
    CASE e.kind = "message" -> e.number
      [] e.kind = "disconnect" -> MaxMessages[e.conn] + 1
      [] OTHER -> 0

HasConnected(c) == \E x \in committed : x.event = Event(c, "connect", 0)

\* The actor commits the events of a connection in order: its connect, its
\* messages as they were sent, its disconnect.  Only events whose call was given
\* up may be out of place, and nothing comes before the connect (run_connection).
LifecycleOrder ==
    [][\A y \in committed' \ committed :
          /\ \A x \in committed :
                x.event.conn = y.event.conn /\ ~x.late /\ ~y.late => Rank(x.event) < Rank(y.event)
          /\ y.event.kind \in {"message", "disconnect"} => HasConnected(y.event.conn)]_vars

\* An event shows the actor only connections whose connect it has committed,
\* apart from the one that is connecting; a connect and a message show their
\* own connection, without which the hook of a message fails (prepare_event).
CatalogAccepted ==
    \A c \in Conns : In(c, "sent") =>
        /\ \A d \in event[c].catalog : d = c \/ HasConnected(d)
        /\ c \in event[c].catalog <=> event[c].kind # "disconnect"

\* A client hears nothing before what its own connect produced, and nothing when
\* the answer to its connect was lost, so that the state event is not overtaken by
\* a broadcast of a later state.  One that is rejected may still hear what the hook
\* sent to it before (dispatch, activate).
SnapshotFirst ==
    \A c \in Conns : heard[c] # NoEvent =>
        /\ heard[c] = Event(c, "connect", 0)
        /\ \E x \in committed : x.event = heard[c] /\ ~x.late

\* The commits that set the metadata of c, and the last event of some.
Setting(c) == {x \in committed : c \in x.sets}
LastEvent(S) ==
    IF S = {} THEN NoEvent
    ELSE (CHOOSE x \in S : \A y \in S : Rank(y.event) <= Rank(x.event)).event

\* As long as only a connection's own events set its metadata, and none of them
\* in a call that was given up, the gateway has the metadata of the latest of them
\* whenever it can show it to the actor: while the connection is served and in its
\* disconnect event (apply_one, remove).  Events of two connections that set the
\* metadata of a third may be applied in another order than they were committed,
\* and what a late event set is not applied.
MetadataCurrent ==
    \A c \in Conns : (\A x \in Setting(c) : x.event.conn = c /\ ~x.late) =>
        LET current == LastEvent(Setting(c))
        IN  /\ task[c] \in {"loop", "sending"} => metadata[c] = current
            /\ task[c] = "event" /\ event[c].kind = "disconnect"
                 /\ event[c].stage \in {"removed", "sent"}
                   => event[c].metadata = current

\* A connection whose task has ended holds no place in the registry, so that the
\* limit counts live tasks only; one that is open is being served.
EndedUnregistered ==
    \A c \in registered :
        task[c] \in {"event", "loop", "sending"} /\ (task[c] # "event" => c \in open)

\* Every message the event sink gets was committed by the actor, and carries
\* the trigger its connection was authorized for (deliver_socket_message_event).
SinkExact ==
    \A s \in sunk :
        s[3] = s[1] /\ \E x \in committed : x.event = Event(s[1], "message", s[2]) /\ ~x.late

\* A connection that the actor closes or rejects ends, and leaves the registry,
\* whatever its hooks and its host do, if clients take what is sent to them: one
\* that does not holds its task and its place in the registry (run_connection).
Departs ==
    (\A c \in Conns : WF_vars(Sent(c))) =>
        \A c \in Conns :
            (\E i \in DOMAIN outbound[c] : outbound[c][i] = CloseFrame)
                ~> (task[c] = "ended" /\ c \notin registered)

=============================================================================
