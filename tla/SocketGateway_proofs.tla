---------------------- MODULE SocketGateway_proofs ----------------------
(***************************************************************************)
(* Proofs about the WebSocket gateway, for any number of connections and    *)
(* posters, any limits and any effects the actor's hooks produce.           *)
(*                                                                          *)
(* The invariant has a part for what the actor has committed (CommitInv)    *)
(* and a part for each connection (ConnInv).  A step of one connection's     *)
(* task leaves the part of every other connection alone, except that the    *)
(* effects it applies reach their channels and their metadata.              *)
(***************************************************************************)
EXTENDS SocketGateway, FiniteSetTheorems, TLAPS

\* The connect of c, and that the actor committed it and answered.
ConnectOf(c) == Event(c, "connect", 0)
Welcomed(c) == \E x \in committed : x.event = ConnectOf(c) /\ ~x.late

\* The connection has been activated, and may be gone again.
Past(c) == task[c] # "new" /\ (task[c] = "event" => event[c].kind # "connect")

\* A connection has dispatched this event, and the call has ended.
Reached(e) ==
    LET c == e.conn
        at == task[c] = "event"
    IN  /\ c \in Conns
        /\ \/ /\ e.kind = "connect" /\ e.number = 0 /\ task[c] # "new"
              /\ at /\ event[c].kind = "connect" => event[c].stage = "apply"
           \/ /\ e.kind = "message" /\ 1 <= e.number /\ e.number <= taken[c]
              /\ at /\ event[c].kind = "message" /\ event[c].stage = "sent"
                   => e.number < taken[c]
           \/ /\ e.kind = "disconnect" /\ e.number = 0
              /\ \/ task[c] = "ended"
                 \/ at /\ event[c].kind = "disconnect" /\ event[c].stage = "apply"

\* What the actor has committed, and may yet commit.
CommitInv ==
    /\ \A x \in committed : Reached(x.event)
    /\ \A call \in late :
          /\ Reached(call.event)
          /\ \A x \in committed : x.event # call.event
          /\ \A other \in late : other.event = call.event => other = call
          /\ call.event.kind # "connect" => HasConnected(call.event.conn)
    /\ EventsOnce
    /\ SinkExact

\* Where a connection's task is, and its place in the registry.
Lifecycle(c) ==
    /\ task[c] = "new" => c \notin registered /\ taken[c] = 0 /\ outbound[c] = <<>>
    /\ task[c] = "ended" => c \notin registered
    /\ task[c] \in {"loop", "sending"} => c \in open
    /\ task[c] = "sending" => outbound[c] # <<>>
    /\ task[c] = "event" =>
          /\ event[c].kind = "connect" =>
                /\ c \in registered /\ c \notin open
                /\ event[c].number = 0 /\ taken[c] = 0 /\ event[c].stage # "removed"
          /\ event[c].kind = "message" =>
                /\ c \in open
                /\ event[c].number = taken[c] /\ 1 <= taken[c] /\ event[c].stage # "removed"
          /\ event[c].kind = "disconnect" => c \notin registered /\ event[c].number = 0
    /\ taken[c] <= MaxMessages[c]
    /\ effects[c] # <<>> => In(c, "apply")
    /\ c \notin registered => metadata[c] = NoEvent

\* What the actor knows of it.
Known(c) ==
    /\ Past(c) /\ task[c] # "ended" => HasConnected(c)
    /\ In(c, "apply") => \E x \in committed : x.event = Current(c) /\ ~x.late
    /\ In(c, "sent") =>
          /\ \A d \in event[c].catalog : d = c \/ (Past(d) /\ HasConnected(d))
          /\ c \in event[c].catalog <=> event[c].kind # "disconnect"

\* An effect that the task of c has yet to apply.
Pending(c, item) ==
    /\ item.by = Current(c)
    /\ item.effect.type # "broadcast" =>
          item.effect.to \in Conns /\ (item.effect.to = c \/ Past(item.effect.to))
    /\ item.effect.type = "metadata" =>
          \E x \in committed : x.event = item.by /\ item.effect.to \in x.sets
    /\ event[c].kind = "connect" /\ item.effect.type = "send" => Welcomed(c)

AllPending(c) == \A i \in DOMAIN effects[c] : Pending(c, effects[c][i])

\* The first frame for the client of c is the actor's Close, or from its connect.
Greeting(c, frame) == frame = CloseFrame \/ (frame = ConnectOf(c) /\ Welcomed(c))

\* Among the effects yet to be applied is one that sends to the connection or
\* rejects it.
OwnAhead(c) ==
    \E i \in DOMAIN effects[c] :
        effects[c][i].effect.to = c /\ effects[c][i].effect.type \in {"send", "reject"}

Greeted(c) ==
    /\ heard[c] # NoEvent => heard[c] = ConnectOf(c) /\ Welcomed(c)
    /\ c \in registered /\ heard[c] = NoEvent =>
          /\ outbound[c] # <<>> => Greeting(c, Head(outbound[c]))
          /\ c \in open => outbound[c] # <<>>
          /\ In(c, "apply") /\ event[c].kind = "connect" =>
                outbound[c] # <<>> \/ OwnAhead(c)

\* Only events of c have set its metadata; e is the last event in S.
OwnSettings(c) == \A x \in Setting(c) : x.event.conn = c /\ ~x.late
IsLast(S, e) ==
    \/ S = {} /\ e = NoEvent
    \/ \E x \in S : x.event = e /\ \A y \in S : Rank(y.event) <= Rank(e)
SetsOwn(c) ==
    \E i \in DOMAIN effects[c] :
        effects[c][i].effect.type = "metadata" /\ effects[c][i].effect.to = c

Tracked(c) ==
    OwnSettings(c) =>
        /\ c \in registered =>
              IsLast(Setting(c), IF SetsOwn(c) THEN Current(c) ELSE metadata[c])
        /\ task[c] = "event" /\ event[c].kind = "disconnect" /\ event[c].stage \in {"removed", "sent"}
              => IsLast(Setting(c), event[c].metadata)

ConnInv(c) ==
    Lifecycle(c) /\ Known(c) /\ AllPending(c) /\ Greeted(c) /\ Tracked(c)

PosterInv(p) == \A i \in DOMAIN effects[p] : effects[p][i].effect.type = "broadcast"

TypeInv == TypeOK /\ IsFiniteSet(registered)

GatewayInv ==
    /\ TypeInv
    /\ CommitInv
    /\ \A c \in Conns : ConnInv(c)
    /\ \A p \in Posters : PosterInv(p)
\* A step that leaves a connection alone, and a step of the task of c that
\* does to no other connection anything but commit.
Same(d) ==
    /\ task'[d] = task[d] /\ event'[d] = event[d] /\ taken'[d] = taken[d]
    /\ (d \in registered' <=> d \in registered) /\ (d \in open' <=> d \in open)
    /\ metadata'[d] = metadata[d] /\ outbound'[d] = outbound[d]
    /\ effects'[d] = effects[d] /\ heard'[d] = heard[d]
Moves(c) ==
    /\ \A d \in Conns \ {c} : Same(d)
    /\ \A p \in Posters : effects'[p] = effects[p]
    /\ \A e \in EventId : e.conn = c /\ Reached(e) => Reached(e)'
    /\ Past(c) => Past(c)'
-----------------------------------------------------------------------------
(* The records of the model.                                                *)

\* Event ids and what identifies them (ConnectionRegistry's lifecycle events).
LEMMA EventTyped ==
  /\ \A t \in Conns \cup Posters, k \in Kinds \cup {"call"}, n \in Nat : Event(t, k, n) \in EventId
  /\ \A t, k, n : /\ Event(t, k, n).conn = t /\ Event(t, k, n).kind = k
                  /\ Event(t, k, n).number = n
  /\ NoEvent \notin EventId /\ \A t : Event(t, "connect", 0) # NoEvent
  /\ CloseFrame \in Frame /\ EventId \subseteq Frame
<1>1. \A t \in Conns \cup Posters, k \in Kinds \cup {"call"}, n \in Nat : Event(t, k, n) \in EventId
  BY Zenon DEF Event, EventId
<1>2. \A t, k, n : /\ Event(t, k, n).conn = t /\ Event(t, k, n).kind = k
                   /\ Event(t, k, n).number = n
  BY Zenon DEF Event
<1>3. NoEvent \notin EventId
  BY Zenon DEF NoEvent, EventId, Kinds
<1>4. \A t : Event(t, "connect", 0) # NoEvent
  BY Zenon DEF NoEvent, Event
<1>5. CloseFrame \in Frame /\ EventId \subseteq Frame
  BY Zenon DEF Frame
<1> QED
  BY <1>1, <1>2, <1>3, <1>4, <1>5

\* What an event in dispatch carries (SocketEvent).
LEMMA SomeEventTyped ==
  /\ \A k \in Kinds, n \in Nat, s \in Stages, m \in EventId \cup {NoEvent}, cs \in SUBSET Conns :
        SomeEvent(k, n, s, m, cs) \in SocketEvent
  /\ \A k, n, s, m, cs :
        /\ SomeEvent(k, n, s, m, cs).kind = k /\ SomeEvent(k, n, s, m, cs).number = n
        /\ SomeEvent(k, n, s, m, cs).stage = s /\ SomeEvent(k, n, s, m, cs).metadata = m
        /\ SomeEvent(k, n, s, m, cs).catalog = cs
  /\ NotDispatching \in SocketEvent
<1>1. \A k \in Kinds, n \in Nat, s \in Stages, m \in EventId \cup {NoEvent}, cs \in SUBSET Conns :
        SomeEvent(k, n, s, m, cs) \in SocketEvent
  BY Zenon DEF SomeEvent, SocketEvent
<1>2. \A k, n, s, m, cs :
        /\ SomeEvent(k, n, s, m, cs).kind = k /\ SomeEvent(k, n, s, m, cs).number = n
        /\ SomeEvent(k, n, s, m, cs).stage = s /\ SomeEvent(k, n, s, m, cs).metadata = m
        /\ SomeEvent(k, n, s, m, cs).catalog = cs
  BY SMT DEF SomeEvent
<1>3. "connect" \in Kinds /\ 0 \in Nat /\ "sent" \in Stages /\ {} \in SUBSET Conns
  BY Zenon DEF Kinds, Stages
<1>4. NotDispatching \in SocketEvent
  BY <1>1, <1>3, Zenon DEF NotDispatching
<1> QED
  BY <1>1, <1>2, <1>4

\* What is known of a call that was given up.
LEMMA LostTyped ==
  ASSUME NEW call \in LostCall
  PROVE  /\ call.event \in EventId /\ call.event.conn \in Conns /\ call.event.kind \in Kinds
         /\ call.catalog \in SUBSET Conns
<1>1. call.event \in [conn: Conns, kind: Kinds, number: Nat] /\ call.catalog \in SUBSET Conns
  BY Zenon DEF LostCall
<1> QED
  BY <1>1, SMT DEF EventId

\* What the hook of an event produces: effects on connections it was shown, and
\* for a connect one that sends to the connection itself or rejects it
\* (executeSocketEvent).
LEMMA Hooks ==
  ASSUME NEW kind \in Kinds, NEW c \in Conns, NEW catalog \in SUBSET Conns,
         NEW produced \in HookEffects(kind, c, catalog)
  PROVE  /\ produced \in Seq(SocketEffect)
         /\ \A i \in DOMAIN produced :
               produced[i].type # "broadcast" =>
                  produced[i].to \in Conns /\ (produced[i].to = c \/ produced[i].to \in catalog)
         /\ kind = "connect" =>
               \E i \in DOMAIN produced :
                  produced[i].to = c /\ produced[i].type \in {"send", "reject"}
<1> DEFINE any == {[type |-> "broadcast", to |-> d] : d \in {c, NoConn}}
                    \cup [type: {"send", "metadata", "close"}, to: catalog]
           state == [type |-> "send", to |-> c]
           refusal == [type |-> "reject", to |-> c]
<1>1. /\ any \subseteq SocketEffect /\ state \in SocketEffect /\ refusal \in SocketEffect
      /\ state.type = "send" /\ state.to = c /\ refusal.type = "reject" /\ refusal.to = c
  BY SMT DEF SocketEffect
<1>2. \A e \in any : e.type # "broadcast" => e.to \in catalog
  BY SMT
<1>3. \/ produced = <<>> /\ kind # "connect"
      \/ kind # "connect" /\ \E e \in any : produced = <<e>>
      \/ produced = <<state>>
      \/ produced = <<refusal>>
      \/ \E e \in any : produced = <<e, state>>
      \/ \E e \in any : produced = <<e, refusal>>
      \/ \E e \in any : produced = <<refusal, e>>
  BY Zenon DEF HookEffects
<1> HIDE DEF any, state, refusal
<1>4. CASE produced = <<>> /\ kind # "connect"
  BY <1>4, SMT
<1>5. CASE kind # "connect" /\ \E e \in any : produced = <<e>>
  BY <1>1, <1>2, <1>5, SMT
<1>6. ASSUME NEW own \in {state, refusal}, produced = <<own>>
      PROVE  /\ produced \in Seq(SocketEffect) /\ DOMAIN produced = {1} /\ produced[1] = own
  BY <1>1, <1>6, SMT
<1>7. ASSUME NEW e \in any, NEW own \in {state, refusal}, produced = <<e, own>>
      PROVE  /\ produced \in Seq(SocketEffect) /\ DOMAIN produced = {1, 2}
             /\ produced[1] = e /\ produced[2] = own
  BY <1>1, <1>7, SMT
<1>8. ASSUME NEW e \in any, produced = <<refusal, e>>
      PROVE  /\ produced \in Seq(SocketEffect) /\ DOMAIN produced = {1, 2}
             /\ produced[1] = refusal /\ produced[2] = e
  BY <1>1, <1>8, SMT
<1>9. CASE \E own \in {state, refusal} : produced = <<own>>
  BY <1>1, <1>6, <1>9, Zenon
<1>10. CASE \E e \in any : \E own \in {state, refusal} : produced = <<e, own>>
  BY <1>1, <1>2, <1>7, <1>10, Zenon
<1>11. CASE \E e \in any : produced = <<refusal, e>>
  BY <1>1, <1>2, <1>8, <1>11, Zenon
<1> QED
  BY <1>3, <1>4, <1>5, <1>9, <1>10, <1>11, Zenon
-----------------------------------------------------------------------------
(* Type correctness.                                                        *)

\* The operators that several steps are made of keep the types (SetTask, End,
\* the registry's remove, and what takes a task out of its loop).
LEMMA PartTypes ==
  ASSUME TypeInv, NEW c \in Conns
  PROVE  /\ \A at \in Tasks, e \in SocketEvent :
               SetTask(c, at, e) => task' \in [Conns -> Tasks] /\ event' \in [Conns -> SocketEvent]
         /\ Remove(c) =>
               /\ registered' \subseteq Conns /\ IsFiniteSet(registered')
               /\ Cardinality(registered') <= Limit /\ open' \subseteq registered'
               /\ metadata' \in [Conns -> EventId \cup {NoEvent}]
         /\ End(c) =>
               /\ task' \in [Conns -> Tasks] /\ event' \in [Conns -> SocketEvent]
               /\ outbound' \in [Conns -> Seq(Frame)]
         /\ LeaveLoop(c) =>
               /\ task' \in [Conns -> Tasks] /\ event' \in [Conns -> SocketEvent]
               /\ registered' \subseteq Conns /\ IsFiniteSet(registered')
               /\ Cardinality(registered') <= Limit /\ open' \subseteq registered'
               /\ metadata' \in [Conns -> EventId \cup {NoEvent}]
<1>1. /\ task \in [Conns -> Tasks] /\ event \in [Conns -> SocketEvent]
      /\ registered \subseteq Conns /\ IsFiniteSet(registered) /\ Cardinality(registered) <= Limit
      /\ open \subseteq registered /\ metadata \in [Conns -> EventId \cup {NoEvent}]
      /\ outbound \in [Conns -> Seq(Frame)]
  BY Zenon DEF TypeInv, TypeOK
<1>2. ASSUME NEW at \in Tasks, NEW e \in SocketEvent, SetTask(c, at, e)
      PROVE  task' \in [Conns -> Tasks] /\ event' \in [Conns -> SocketEvent]
  BY <1>1, <1>2, Zenon DEF SetTask
<1>3. ASSUME Remove(c)
      PROVE  /\ registered' \subseteq Conns /\ IsFiniteSet(registered')
             /\ Cardinality(registered') <= Limit /\ open' \subseteq registered'
             /\ metadata' \in [Conns -> EventId \cup {NoEvent}]
  <2>1. IsFiniteSet(registered \ {c}) /\ Cardinality(registered \ {c}) <= Limit
    <3>1. /\ IsFiniteSet(registered \ {c})
          /\ Cardinality(registered \ {c}) =
               IF c \in registered THEN Cardinality(registered) - 1 ELSE Cardinality(registered)
      BY <1>1, FS_RemoveElement, Zenon
    <3>2. Cardinality(registered) \in Nat
      BY <1>1, FS_CardinalityType, Zenon
    <3> QED
      BY <1>1, <3>1, <3>2, LimitAssumption, SMT
  <2>2. registered' = registered \ {c} /\ open' = open \ {c}
    BY <1>3, Zenon DEF Remove
  <2>3. metadata' \in [Conns -> EventId \cup {NoEvent}]
    BY <1>1, <1>3, Zenon DEF Remove
  <2> QED
    BY <1>1, <2>1, <2>2, <2>3, Zenon
<1>4. ASSUME End(c)
      PROVE  /\ task' \in [Conns -> Tasks] /\ event' \in [Conns -> SocketEvent]
             /\ outbound' \in [Conns -> Seq(Frame)]
  <2>1. "ended" \in Tasks
    BY Zenon DEF Tasks
  <2>2. outbound' \in [Conns -> Seq(Frame)]
    BY <1>1, <1>4, SMT DEF End
  <2> QED
    BY <1>2, <1>4, <2>1, <2>2, SomeEventTyped, Zenon DEF End
<1>5. ASSUME LeaveLoop(c)
      PROVE  task' \in [Conns -> Tasks] /\ event' \in [Conns -> SocketEvent]
  <2> DEFINE data == IF c \in registered THEN metadata[c] ELSE NoEvent
  <2>1. data \in EventId \cup {NoEvent}
    BY <1>1, Zenon
  <2>2. /\ "event" \in Tasks /\ "disconnect" \in Kinds /\ "removed" \in Stages
        /\ 0 \in Nat /\ {} \in SUBSET Conns
    BY Zenon DEF Tasks, Kinds, Stages
  <2>3. SetTask(c, "event", SomeEvent("disconnect", 0, "removed", data, {}))
    BY <1>5, Zenon DEF LeaveLoop
  <2> HIDE DEF data
  <2> QED
    BY <1>2, <2>1, <2>2, <2>3, SomeEventTyped, Zenon
<1> QED
  BY <1>2, <1>3, <1>4, <1>5, Zenon DEF LeaveLoop

\* What the actor commits is a commit (the answer to a socket event).
LEMMA CommitTyped ==
  ASSUME TypeInv, NEW e \in EventId, NEW isLate \in BOOLEAN, NEW produced \in Seq(SocketEffect),
         \A i \in DOMAIN produced : produced[i].type # "broadcast" => produced[i].to \in Conns,
         Commits(e, isLate, produced)
  PROVE  committed' \subseteq Commit
<1> DEFINE rejected == \E effect \in Range(produced) : effect.type = "reject"
           sets == {effect.to : effect \in {x \in Range(produced) : x.type = "metadata"}}
<1>1. committed' = committed \cup
        {[event |-> e, late |-> isLate, rejected |-> rejected, sets |-> sets]}
  BY Zenon DEF Commits
<1>2. sets \subseteq Conns
  BY Zenon DEF Range
<1>3. rejected \in BOOLEAN
  BY Zenon
<1> HIDE DEF rejected, sets
<1>4. [event |-> e, late |-> isLate, rejected |-> rejected, sets |-> sets] \in Commit
  BY <1>2, <1>3, Zenon DEF Commit
<1> QED
  BY <1>1, <1>4, Zenon DEF TypeInv, TypeOK

\* Applying an effect keeps the types (ConnectionRegistry::apply_one).
LEMMA ApplyTypes ==
  ASSUME TypeInv, NEW t \in Conns \cup Posters, ApplyOne(t)
  PROVE  TypeInv'
<1> DEFINE item == Head(effects[t])
           Item == [effect: SocketEffect, by: EventId]
<1>1. /\ effects \in [Conns \cup Posters -> Seq(Item)] /\ effects[t] # <<>>
      /\ effects' = [effects EXCEPT ![t] = Tail(@)]
  BY Zenon DEF TypeInv, TypeOK, ApplyOne
<1>2. item.effect \in SocketEffect /\ item.by \in EventId
  <2> HIDE DEF Item
  <2>1. item \in Item
    BY <1>1, SMT
  <2> QED
    BY <2>1, Zenon DEF Item
<1>3. effects' \in [Conns \cup Posters -> Seq(Item)]
  <2> HIDE DEF Item
  <2> QED
    BY <1>1, SMT
<1>4. Applied(item.effect, item.by)
  BY Zenon DEF ApplyOne
<1> HIDE DEF item
<1>5. ASSUME NEW cs, NEW frame \in Frame, Queue(cs, frame)
      PROVE  outbound' \in [Conns -> Seq(Frame)]
  <2>1. outbound \in [Conns -> Seq(Frame)]
    BY Zenon DEF TypeInv, TypeOK
  <2> QED
    BY <1>5, <2>1, SMT DEF Queue
<1>6. outbound' \in [Conns -> Seq(Frame)] /\ metadata' \in [Conns -> EventId \cup {NoEvent}]
  <2>1. /\ metadata \in [Conns -> EventId \cup {NoEvent}]
        /\ outbound \in [Conns -> Seq(Frame)]
    BY Zenon DEF TypeInv, TypeOK
  <2>2. item.by \in Frame /\ CloseFrame \in Frame
    BY <1>2, EventTyped, Zenon
  <2>3. item.effect.type \in {"broadcast", "send", "metadata", "close", "reject"}
    BY <1>2, Zenon DEF SocketEffect
  <2>4. CASE item.effect.type = "metadata"
    BY <1>2, <1>4, <2>1, <2>4, Zenon DEF Applied
  <2>5. CASE item.effect.type = "broadcast"
    <3>1. Queue(open \ {item.effect.to}, item.by) /\ UNCHANGED metadata
      BY <1>4, <2>5, Zenon DEF Applied
    <3> QED
      BY <1>5, <2>1, <2>2, <3>1, Zenon
  <2>6. CASE item.effect.type = "send"
    <3>1. Queue({item.effect.to} \cap registered, item.by) /\ UNCHANGED metadata
      BY <1>4, <2>6, Zenon DEF Applied
    <3> QED
      BY <1>5, <2>1, <2>2, <3>1, Zenon
  <2>7. CASE item.effect.type \in {"close", "reject"}
    <3>1. Queue({item.effect.to} \cap registered, CloseFrame) /\ UNCHANGED metadata
      <4>1. CASE item.effect.type = "close"
        BY <1>4, <4>1, Zenon DEF Applied
      <4>2. CASE item.effect.type = "reject"
        BY <1>4, <4>2, Zenon DEF Applied
      <4> QED
        BY <2>7, <4>1, <4>2, Zenon
    <3> QED
      BY <1>5, <2>1, <2>2, <3>1, Zenon
  <2> QED
    BY <2>3, <2>4, <2>5, <2>6, <2>7, Zenon
<1>7. UNCHANGED <<task, event, taken, registered, open, committed, late, heard, sunk>>
  BY Zenon DEF ApplyOne
<1> QED
  BY <1>3, <1>6, <1>7, Zenon DEF TypeInv, TypeOK

\* Every step keeps the types, and the registry within its limit.
LEMMA Types ==
  ASSUME TypeInv, \A c \in Conns : task[c] = "sending" => outbound[c] # <<>>, Next
  PROVE  TypeInv'
<1> USE DEF registry
<1>1. ASSUME NEW c \in Conns, TaskStep(c) \/ ClientStep(c)
      PROVE  TypeInv'
  <2>1. /\ event[c] \in SocketEvent /\ event[c].kind \in Kinds /\ event[c].number \in Nat
        /\ event[c].metadata \in EventId \cup {NoEvent} /\ event[c].catalog \in SUBSET Conns
    <3>1. event[c] \in SocketEvent
      BY Zenon DEF TypeInv, TypeOK
    <3> QED
      BY <3>1, Zenon DEF SocketEvent
  <2>2. Current(c) \in EventId
    BY <2>1, EventTyped, Zenon DEF Current
  <2>3. /\ {"event", "loop", "sending"} \subseteq Tasks /\ {"sent", "apply"} \subseteq Stages
        /\ {"connect", "message"} \subseteq Kinds /\ {} \in SUBSET Conns /\ 0 \in Nat
    BY Zenon DEF Tasks, Stages, Kinds
  <2>4. open \in SUBSET Conns /\ open \cup {c} \in SUBSET Conns
    BY Zenon DEF TypeInv, TypeOK
  <2>5. ASSUME NEW e \in SocketEvent, event' = [event EXCEPT ![c] = e]
        PROVE  event' \in [Conns -> SocketEvent]
    BY <2>5, Zenon DEF TypeInv, TypeOK
  <2>6. CASE PrepareDisconnect(c)
    <3>1. SomeEvent(event[c].kind, event[c].number, "sent", event[c].metadata, open) \in SocketEvent
      BY <2>1, <2>3, <2>4, SomeEventTyped, Zenon
    <3>2. event' = [event EXCEPT ![c] =
             SomeEvent(event[c].kind, event[c].number, "sent", event[c].metadata, open)]
      BY <2>6, Zenon DEF PrepareDisconnect, TypeInv, TypeOK
    <3>3. event' \in [Conns -> SocketEvent]
      BY <2>5, <3>1, <3>2, Zenon
    <3> QED
      BY <2>6, <3>3, Zenon DEF PrepareDisconnect, TypeInv, TypeOK
  <2>7. ASSUME NEW produced \in HookEffects(event[c].kind, c, event[c].catalog),
               Completed(c, produced)
        PROVE  TypeInv'
    <3>1. /\ produced \in Seq(SocketEffect)
          /\ \A i \in DOMAIN produced :
                produced[i].type # "broadcast" => produced[i].to \in Conns
      BY <2>1, Hooks
    <3>2. Commits(Current(c), FALSE, produced)
      BY <2>7, Zenon DEF Completed
    <3>3. committed' \subseteq Commit
      BY <2>2, <3>1, <3>2, CommitTyped, Zenon
    <3>4. SomeEvent(event[c].kind, event[c].number, "apply", NoEvent, {}) \in SocketEvent
      BY <2>1, <2>3, SomeEventTyped, Zenon
    <3>5. event' = [event EXCEPT ![c] =
             SomeEvent(event[c].kind, event[c].number, "apply", NoEvent, {})]
      BY <2>7, Zenon DEF Completed, TypeInv, TypeOK
    <3>6. event' \in [Conns -> SocketEvent]
      BY <2>5, <3>4, <3>5, Zenon
    <3>7. Produced(Current(c), produced) \in Seq([effect: SocketEffect, by: EventId])
      <4> DEFINE Item == [effect: SocketEffect, by: EventId]
      <4>1. \A i \in DOMAIN produced : [effect |-> produced[i], by |-> Current(c)] \in Item
        BY <2>2, <3>1, SMT
      <4> HIDE DEF Item
      <4>2. [i \in DOMAIN produced |-> [effect |-> produced[i], by |-> Current(c)]] \in Seq(Item)
        BY <3>1, <4>1, SMT
      <4> QED
        BY <4>2, Zenon DEF Produced, Item
    <3>8. effects' \in [Conns \cup Posters -> Seq([effect: SocketEffect, by: EventId])]
      <4>1. effects' = [effects EXCEPT ![c] = Produced(Current(c), produced)]
        BY <2>7, Zenon DEF Completed
      <4> QED
        BY <3>7, <4>1, Zenon DEF TypeInv, TypeOK
    <3> QED
      BY <2>7, <3>3, <3>6, <3>8, Zenon DEF Completed, TypeInv, TypeOK
  <2>8. CASE NotExecuted(c) \/ CallLost(c)
    <3>1. DispatchFails(c)
      BY <2>8, Zenon DEF NotExecuted, CallLost
    <3>2. /\ task' \in [Conns -> Tasks] /\ event' \in [Conns -> SocketEvent]
          /\ registered' \subseteq Conns /\ IsFiniteSet(registered')
          /\ Cardinality(registered') <= Limit /\ open' \subseteq registered'
          /\ metadata' \in [Conns -> EventId \cup {NoEvent}]
          /\ outbound' \in [Conns -> Seq(Frame)] /\ sunk' = sunk
      <4>1. CASE event[c].kind = "message"
        BY <3>1, <4>1, PartTypes, Zenon DEF DispatchFails, TypeInv, TypeOK
      <4>2. CASE event[c].kind # "message"
        BY <3>1, <4>2, PartTypes, Zenon DEF DispatchFails
      <4> QED
        BY <4>1, <4>2, Zenon
    <3>3. late' \subseteq LostCall
      <4>1. GivenUp(c) \in LostCall
        BY <2>1, Zenon DEF GivenUp, LostCall, Current, Event
      <4> QED
        BY <2>8, <4>1, Zenon DEF NotExecuted, CallLost, TypeInv, TypeOK
    <3>4. UNCHANGED <<taken, effects, committed, heard>>
      BY <2>8, Zenon DEF NotExecuted, CallLost
    <3> QED
      BY <3>2, <3>3, <3>4, Zenon DEF TypeInv, TypeOK
  <2>9. CASE ApplyOne(c)
    BY <2>9, ApplyTypes, Zenon
  <2>10. CASE Connected(c)
    <3>1. task' \in [Conns -> Tasks] /\ event' \in [Conns -> SocketEvent]
      BY <2>3, <2>10, PartTypes, SomeEventTyped, Zenon DEF Connected
    <3> QED
      BY <2>10, <3>1, Zenon DEF Connected, TypeInv, TypeOK
  <2>11. CASE MessageDone(c)
    <3>1. task' \in [Conns -> Tasks] /\ event' \in [Conns -> SocketEvent]
      BY <2>3, <2>11, PartTypes, SomeEventTyped, Zenon DEF MessageDone
    <3>2. <<c, event[c].number, TriggerId(c)>> \in Conns \X Nat \X (Conns \cup {NoConn})
      BY <2>1, Zenon DEF TriggerId
    <3>3. sunk' \subseteq Conns \X Nat \X (Conns \cup {NoConn})
      BY <2>11, <3>2, Zenon DEF MessageDone, DeliverMessageEvent, TypeInv, TypeOK
    <3> QED
      BY <2>11, <3>1, <3>3, Zenon DEF MessageDone, TypeInv, TypeOK
  <2>12. CASE Disconnected(c)
    BY <2>12, PartTypes, Zenon DEF Disconnected, TypeInv, TypeOK
  <2>13. CASE Sent(c)
    <3>1. outbound' \in [Conns -> Seq(Frame)] /\ Head(outbound[c]) \in Frame
      <4>1. /\ outbound \in [Conns -> Seq(Frame)] /\ outbound[c] # <<>>
            /\ outbound' = [outbound EXCEPT ![c] = Tail(@)]
        BY <2>13, Zenon DEF Sent, TypeInv, TypeOK
      <4> QED
        BY <4>1, SMT
    <3>2. CASE Head(outbound[c]) = CloseFrame
      BY <2>13, <3>1, <3>2, PartTypes, Zenon DEF Sent, TypeInv, TypeOK
    <3>3. CASE Head(outbound[c]) # CloseFrame
      <4>1. Head(outbound[c]) \in EventId
        BY <3>1, <3>3, Zenon DEF Frame
      <4>2. heard' \in [Conns -> EventId \cup {NoEvent}]
        <5>1. heard \in [Conns -> EventId \cup {NoEvent}]
          BY Zenon DEF TypeInv, TypeOK
        <5>2. heard' = [heard EXCEPT ![c] = IF @ = NoEvent THEN Head(outbound[c]) ELSE @]
          BY <2>13, <3>3, Zenon DEF Sent
        <5> QED
          BY <4>1, <5>1, <5>2, Zenon
      <4>3. task' \in [Conns -> Tasks]
        BY <2>3, <2>13, <3>3, Zenon DEF Sent, TypeInv, TypeOK
      <4> QED
        BY <2>13, <3>1, <3>3, <4>2, <4>3, Zenon DEF Sent, TypeInv, TypeOK
    <3> QED
      BY <3>2, <3>3, Zenon
  <2>14. CASE Register(c)
    <3>1. task' \in [Conns -> Tasks] /\ event' \in [Conns -> SocketEvent]
      BY <2>3, <2>4, <2>14, PartTypes, SomeEventTyped, Zenon DEF Register, PrepareEvent
    <3>2. /\ registered' = registered \cup {c} /\ IsFiniteSet(registered')
          /\ Cardinality(registered') <= Limit
      <4>1. registered' = registered \cup {c} /\ Cardinality(registered) < Limit
        BY <2>14, Zenon DEF Register, Insert
      <4>2. /\ IsFiniteSet(registered \cup {c})
            /\ Cardinality(registered \cup {c}) =
                 IF c \in registered THEN Cardinality(registered) ELSE Cardinality(registered) + 1
        BY FS_AddElement, Zenon DEF TypeInv
      <4>3. Cardinality(registered) \in Nat
        BY FS_CardinalityType, Zenon DEF TypeInv
      <4> QED
        BY <4>1, <4>2, <4>3, LimitAssumption, SMT
    <3> QED
      BY <2>14, <3>1, <3>2, Zenon DEF Register, Insert, TypeInv, TypeOK
  <2>15. CASE NotRegistered(c)
    BY <2>15, PartTypes, Zenon DEF NotRegistered, TypeInv, TypeOK
  <2>16. CASE TakeInbound(c)
    <3>1. taken[c] + 1 \in Nat /\ taken' \in [Conns -> Nat]
      BY <2>16, SMT DEF TakeInbound, TypeInv, TypeOK
    <3>2. task' \in [Conns -> Tasks] /\ event' \in [Conns -> SocketEvent]
      BY <2>3, <2>4, <2>16, <3>1, PartTypes, SomeEventTyped, Zenon DEF TakeInbound, PrepareEvent
    <3> QED
      BY <2>16, <3>1, <3>2, Zenon DEF TakeInbound, TypeInv, TypeOK
  <2>17. CASE ClientLeft(c)
    BY <2>17, PartTypes, Zenon DEF ClientLeft, TypeInv, TypeOK
  <2>18. CASE TakeOutbound(c)
    <3>1. task' \in [Conns -> Tasks]
      BY <2>3, <2>18, Zenon DEF TakeOutbound, TypeInv, TypeOK
    <3> QED
      BY <2>18, <3>1, Zenon DEF TakeOutbound, TypeInv, TypeOK
  <2> QED
    BY <1>1, <2>6, <2>7, <2>8, <2>9, <2>10, <2>11, <2>12, <2>13, <2>14, <2>15, <2>16, <2>17, <2>18,
       Zenon
    DEF TaskStep, CallEnds, ClientStep
<1>2. ASSUME NEW call \in late,
             NEW produced \in HookEffects(call.event.kind, call.event.conn, call.catalog),
             LateCommit(call, produced)
      PROVE  TypeInv'
  <2>1. call \in LostCall /\ late' \subseteq LostCall
    BY <1>2, Zenon DEF LateCommit, TypeInv, TypeOK
  <2>2. /\ call.event \in EventId /\ call.event.conn \in Conns /\ call.event.kind \in Kinds
        /\ call.catalog \in SUBSET Conns
    BY <2>1, LostTyped, Zenon
  <2>3. Commits(call.event, TRUE, produced)
    BY <1>2, Zenon DEF LateCommit
  <2>4. /\ produced \in Seq(SocketEffect)
        /\ \A i \in DOMAIN produced : produced[i].type # "broadcast" => produced[i].to \in Conns
    BY <1>2, <2>2, Hooks
  <2>5. committed' \subseteq Commit
    BY <2>2, <2>3, <2>4, CommitTyped, Zenon
  <2> QED
    BY <1>2, <2>1, <2>5, Zenon DEF LateCommit, TypeInv, TypeOK
<1> QED
  BY <1>1, <1>2, ApplyTypes, Zenon DEF Next, HostStep
-----------------------------------------------------------------------------
(* What a step of one connection does to the others.                        *)

\* An open connection is past its connect, which the actor has committed.
LEMMA OpenKnown ==
  ASSUME TypeInv, NEW d \in Conns, ConnInv(d), d \in open
  PROVE  Past(d) /\ HasConnected(d) /\ d \in registered
<1>1. task[d] \in Tasks /\ event[d] \in SocketEvent /\ d \in registered
  BY Zenon DEF TypeInv, TypeOK
<1>2. event[d].kind \in Kinds
  BY <1>1, Zenon DEF SocketEvent
<1>3. task[d] # "new" /\ task[d] # "ended" /\ (task[d] = "event" => event[d].kind # "connect")
  BY <1>1, Zenon DEF ConnInv, Lifecycle
<1> QED
  BY <1>1, <1>3, Zenon DEF ConnInv, Known, Past

\* Commits are never taken back, so what the actor knows it keeps knowing.
LEMMA KnownStays ==
  ASSUME committed \subseteq committed'
  PROVE  /\ \A d : HasConnected(d) => HasConnected(d)'
         /\ \A d : Welcomed(d) => Welcomed(d)'
         /\ \A d : OwnSettings(d)' => OwnSettings(d)
<1>1. \A d : HasConnected(d) => HasConnected(d)'
  BY Zenon DEF HasConnected
<1>2. \A d : Welcomed(d) => Welcomed(d)'
  BY Zenon DEF Welcomed
<1>3. \A d : OwnSettings(d)' => OwnSettings(d)
  BY Zenon DEF OwnSettings, Setting
<1> QED
  BY <1>1, <1>2, <1>3, Zenon

\* A connection that a step leaves alone keeps its invariant.
LEMMA LeftAlone ==
  ASSUME NEW d \in Conns, ConnInv(d), Same(d), committed \subseteq committed',
         \A e \in Conns : Past(e) => Past(e)',
         event[d].catalog \subseteq Conns,
         OwnSettings(d)' => Setting(d)' = Setting(d)
  PROVE  ConnInv(d)'
<1>1. /\ \A e : HasConnected(e) => HasConnected(e)'
      /\ \A e : Welcomed(e) => Welcomed(e)'
      /\ OwnSettings(d)' => OwnSettings(d)
  BY KnownStays, Zenon
<1>2. Lifecycle(d)'
  BY Zenon DEF ConnInv, Lifecycle, Same, In
<1>3. Past(d)' <=> Past(d)
  BY Zenon DEF Same, Past
<1>4. Current(d)' = Current(d) /\ (\A s : In(d, s)' <=> In(d, s))
  BY Zenon DEF Same, Current, In
<1>5. Known(d)'
  <2>1. Past(d)' /\ task'[d] # "ended" => HasConnected(d)'
    BY <1>1, <1>3, Zenon DEF ConnInv, Known, Same
  <2>2. In(d, "apply")' => \E x \in committed' : x.event = Current(d)' /\ ~x.late
    BY <1>4, Zenon DEF ConnInv, Known
  <2>3. In(d, "sent")' =>
          /\ \A b \in event'[d].catalog : b = d \/ (Past(b)' /\ HasConnected(b)')
          /\ d \in event'[d].catalog <=> event'[d].kind # "disconnect"
    BY <1>1, <1>4, Zenon DEF ConnInv, Known, Same
  <2> QED
    BY <2>1, <2>2, <2>3, Zenon DEF Known
<1>6. AllPending(d)'
  <2>1. ASSUME NEW item, Pending(d, item)
        PROVE  Pending(d, item)'
    BY <1>1, <1>4, <2>1, Zenon DEF Pending, Same
  <2> QED
    BY <2>1, Zenon DEF ConnInv, AllPending, Same
<1>7. Greeted(d)'
  <2>1. \A f : Greeting(d, f) => Greeting(d, f)'
    BY <1>1, Zenon DEF Greeting, ConnectOf
  <2>2. OwnAhead(d)' <=> OwnAhead(d)
    BY Zenon DEF OwnAhead, Same
  <2> QED
    BY <1>1, <1>4, <2>1, <2>2, Zenon DEF ConnInv, Greeted, Same, ConnectOf
<1>8. Tracked(d)'
  <2>1. SetsOwn(d)' <=> SetsOwn(d)
    BY Zenon DEF SetsOwn, Same
  <2>2. \A S, e : IsLast(S, e)' <=> IsLast(S, e)
    BY Zenon DEF IsLast, Rank
  <2> QED
    BY <1>1, <1>4, <2>1, <2>2, Zenon DEF ConnInv, Tracked, Same
<1> QED
  BY <1>2, <1>5, <1>6, <1>7, <1>8, Zenon DEF ConnInv

\* The calls that have ended stay ended.
LEMMA ReachedStays ==
  ASSUME NEW c \in Conns, Moves(c), NEW e \in EventId, Reached(e)
  PROVE  Reached(e)'
<1>1. CASE e.conn = c
  BY <1>1, Zenon DEF Moves
<1>2. CASE e.conn # c
  <2>1. e.conn \in Conns /\ Same(e.conn)
    BY <1>2, Zenon DEF Moves, Reached
  <2> QED
    BY <2>1, Zenon DEF Reached, Same
<1> QED
  BY <1>1, <1>2, Zenon

\* The part about the actor's commits, for a step that commits at most one event
\* and gives up at most the one it does not commit, neither of them seen before.
LEMMA CommitStep ==
  ASSUME TypeInv, TypeInv', CommitInv, NEW c \in Conns, Moves(c),
         committed \subseteq committed', committed' = committed \/ late' = late,
         \A x \in committed' \ committed : Reached(x.event)' /\ ~Reached(x.event),
         \A x, y \in committed' \ committed : x = y,
         \A call \in late' \ late :
            /\ Reached(call.event)' /\ ~Reached(call.event)
            /\ call.event.kind # "connect" => HasConnected(call.event.conn),
         \A call, other \in late' \ late : call = other,
         \A s \in sunk' \ sunk :
            s[3] = s[1] /\ \E x \in committed : x.event = Event(s[1], "message", s[2]) /\ ~x.late
  PROVE  CommitInv'
<1>1. /\ committed \subseteq Commit /\ committed' \subseteq Commit
      /\ late \subseteq LostCall /\ late' \subseteq LostCall
  BY Zenon DEF TypeInv, TypeOK
<1>2. (\A x \in committed' : x.event \in EventId) /\ \A call \in late' : call.event \in EventId
  BY <1>1, LostTyped, Zenon DEF Commit
<1>3. \A e \in EventId : Reached(e) => Reached(e)'
  BY ReachedStays, Zenon
<1>4. \A x \in committed : Reached(x.event)
  BY Zenon DEF CommitInv
<1>5. \A x \in committed' : Reached(x.event)'
  BY <1>2, <1>3, <1>4, Zenon
<1>6. \A call \in late' :
        Reached(call.event)' /\ (call.event.kind # "connect" => HasConnected(call.event.conn)')
  <2>1. \A d : HasConnected(d) => HasConnected(d)'
    BY KnownStays, Zenon
  <2>2. \A call \in late :
          Reached(call.event) /\ (call.event.kind # "connect" => HasConnected(call.event.conn))
    BY Zenon DEF CommitInv
  <2> QED
    BY <1>2, <1>3, <2>1, <2>2, Zenon
<1>7. \A call \in late' : \A x \in committed' : x.event # call.event
  <2>1. ASSUME NEW call \in late', NEW x \in committed', x.event = call.event
        PROVE  FALSE
    <3>1. CASE call \in late /\ x \in committed
      BY <2>1, <3>1, Zenon DEF CommitInv
    <3>2. CASE call \in late /\ x \notin committed
      <4>1. Reached(call.event)
        BY <3>2, Zenon DEF CommitInv
      <4> QED
        BY <2>1, <3>2, <4>1, Zenon
    <3>3. CASE call \notin late
      BY <1>4, <2>1, <3>3, Zenon
    <3> QED
      BY <3>1, <3>2, <3>3, Zenon
  <2> QED
    BY <2>1, Zenon
<1>10. \A call, other \in late' : other.event = call.event => other = call
  <2>1. \A call \in late : Reached(call.event)
    BY Zenon DEF CommitInv
  <2>2. \A call, other \in late : other.event = call.event => other = call
    BY Zenon DEF CommitInv
  <2> QED
    BY <2>1, <2>2, Zenon
<1>8. EventsOnce'
  <2>1. ASSUME NEW x \in committed', NEW y \in committed', x.event = y.event
        PROVE  x = y
    <3>1. CASE x \in committed /\ y \in committed
      BY <2>1, <3>1, Zenon DEF CommitInv, EventsOnce
    <3>2. CASE x \notin committed /\ y \notin committed
      BY <3>2, Zenon
    <3>3. CASE x \notin committed /\ y \in committed
      <4>1. ~Reached(x.event) /\ Reached(y.event)
        BY <1>4, <3>3, Zenon
      <4> QED
        BY <2>1, <4>1, Zenon
    <3>4. CASE x \in committed /\ y \notin committed
      <4>1. Reached(x.event) /\ ~Reached(y.event)
        BY <1>4, <3>4, Zenon
      <4> QED
        BY <2>1, <4>1, Zenon
    <3> QED
      BY <3>1, <3>2, <3>3, <3>4, Zenon
  <2> QED
    BY <2>1, Zenon DEF EventsOnce
<1>9. SinkExact'
  BY Zenon DEF CommitInv, SinkExact
<1> QED
  BY <1>5, <1>6, <1>7, <1>8, <1>9, <1>10, Zenon DEF CommitInv

\* An event in its call has not been committed or given up.
LEMMA CurrentFresh ==
  ASSUME TypeInv, NEW c \in Conns, ConnInv(c), In(c, "sent")
  PROVE  ~Reached(Current(c)) /\ Current(c) \in EventId
<1>1. event[c] \in SocketEvent /\ taken[c] \in Nat
  BY Zenon DEF TypeInv, TypeOK
<1>2. event[c].kind \in Kinds /\ event[c].number \in Nat
  BY <1>1, Zenon DEF SocketEvent
<1>3. /\ Current(c) \in EventId /\ Current(c).conn = c /\ Current(c).kind = event[c].kind
      /\ Current(c).number = event[c].number
  BY <1>2, EventTyped DEF Current
<1>4. task[c] = "event" /\ event[c].stage = "sent"
  BY Zenon DEF In
<1>5. event[c].kind = "message" => event[c].number = taken[c]
  BY <1>4, Zenon DEF ConnInv, Lifecycle
<1>6. ~(taken[c] < taken[c])
  BY <1>1, SMT
<1> QED
  BY <1>3, <1>4, <1>5, <1>6, Zenon DEF Reached

\* The invariant after a step of the task of c, from what the step does to c.
LEMMA TaskKeeps ==
  ASSUME GatewayInv, TypeInv', NEW c \in Conns, Moves(c), ConnInv(c)', CommitInv',
         committed \subseteq committed',
         \A d \in Conns \ {c} : OwnSettings(d)' => Setting(d)' = Setting(d)
  PROVE  GatewayInv'
<1>1. \A e \in Conns : Past(e) => Past(e)'
  <2>1. \A e \in Conns \ {c} : Past(e) => Past(e)'
    BY Zenon DEF Moves, Same, Past
  <2> QED
    BY <2>1, Zenon DEF Moves
<1>2. ASSUME NEW d \in Conns \ {c}
      PROVE  ConnInv(d)'
  <2>1. ConnInv(d) /\ Same(d)
    BY Zenon DEF GatewayInv, Moves
  <2>2. event[d] \in SocketEvent
    BY Zenon DEF GatewayInv, TypeInv, TypeOK
  <2>3. event[d].catalog \subseteq Conns
    BY <2>2, Zenon DEF SocketEvent
  <2> QED
    BY <1>1, <2>1, <2>3, LeftAlone, Zenon
<1>3. \A p \in Posters : PosterInv(p)'
  BY Zenon DEF GatewayInv, PosterInv, Moves
<1> QED
  BY <1>2, <1>3, Zenon DEF GatewayInv

\* The same for a step that commits nothing and gives nothing up.
LEMMA QuietStep ==
  ASSUME GatewayInv, TypeInv', NEW c \in Conns, Moves(c), ConnInv(c)',
         UNCHANGED <<committed, late, sunk>>
  PROVE  GatewayInv'
<1>1. TypeInv /\ CommitInv
  BY Zenon DEF GatewayInv
<1>2. CommitInv'
  BY <1>1, CommitStep, Zenon
<1>3. \A d : Setting(d)' = Setting(d)
  BY Zenon DEF Setting
<1> QED
  BY <1>2, <1>3, TaskKeeps, Zenon

\* What the parts of a step do to the connections (SetTask, remove).
LEMMA PartSteps ==
  ASSUME TypeInv, NEW c \in Conns
  PROVE  /\ \A at, e : SetTask(c, at, e) =>
               /\ task'[c] = at /\ event'[c] = e
               /\ \A d \in Conns \ {c} : task'[d] = task[d] /\ event'[d] = event[d]
         /\ Remove(c) =>
               /\ c \notin registered' /\ c \notin open' /\ metadata'[c] = NoEvent
               /\ \A d \in Conns \ {c} :
                     /\ (d \in registered' <=> d \in registered) /\ (d \in open' <=> d \in open)
                     /\ metadata'[d] = metadata[d]
         /\ \A d \in Conns \ {c} : d # c /\ d \in Conns
<1>1. /\ task \in [Conns -> Tasks] /\ event \in [Conns -> SocketEvent]
      /\ metadata \in [Conns -> EventId \cup {NoEvent}]
  BY Zenon DEF TypeInv, TypeOK
<1>2. \A at, e : SetTask(c, at, e) =>
               /\ task'[c] = at /\ event'[c] = e
               /\ \A d \in Conns \ {c} : task'[d] = task[d] /\ event'[d] = event[d]
  BY <1>1, Zenon DEF SetTask
<1>3. Remove(c) =>
         /\ metadata'[c] = NoEvent
         /\ \A d \in Conns \ {c} : metadata'[d] = metadata[d]
  BY <1>1, Zenon DEF Remove
<1> QED
  BY <1>2, <1>3, Zenon DEF Remove

\* The invariant of a connection that is not in its dispatch or loop.
LEMMA EndedKeeps ==
  ASSUME TypeInv, NEW c \in Conns, ConnInv(c), ~In(c, "apply") \/ effects[c] = <<>>,
         task'[c] = "ended", c \notin registered', metadata'[c] = NoEvent,
         UNCHANGED <<taken, effects, heard, committed>>
  PROVE  ConnInv(c)' /\ effects[c] = <<>>
<1>1. effects[c] = <<>>
  BY Zenon DEF ConnInv, Lifecycle
<1>2. Lifecycle(c)'
  BY <1>1, Zenon DEF ConnInv, Lifecycle
<1>3. Known(c)'
  BY Zenon DEF Known, In
<1>4. AllPending(c)'
  BY <1>1, SMT DEF AllPending
<1>5. Welcomed(c)' <=> Welcomed(c)
  BY Zenon DEF Welcomed
<1>6. Greeted(c)'
  BY <1>5, Zenon DEF ConnInv, Greeted, ConnectOf
<1>7. Tracked(c)'
  BY Zenon DEF Tracked
<1> QED
  BY <1>1, <1>2, <1>3, <1>4, <1>6, <1>7, Zenon DEF ConnInv

\* The task of c ends: a connect that failed, a disconnect that was tried or done.
LEMMA Ends ==
  ASSUME GatewayInv, NEW c \in Conns, Remove(c), End(c),
         \/ In(c, "sent") /\ event[c].kind # "message"
         \/ In(c, "apply") /\ event[c].kind = "disconnect" /\ effects[c] = <<>>,
         UNCHANGED <<taken, effects, heard, committed>>
  PROVE  Moves(c) /\ ConnInv(c)' /\ task'[c] = "ended"
<1>1. TypeInv /\ ConnInv(c) /\ outbound \in [Conns -> Seq(Frame)]
  BY Zenon DEF GatewayInv, TypeInv, TypeOK
<1>2. SetTask(c, "ended", NotDispatching)
  BY Zenon DEF End
<1>3. /\ task'[c] = "ended" /\ c \notin registered' /\ metadata'[c] = NoEvent
      /\ \A d \in Conns \ {c} : task'[d] = task[d] /\ event'[d] = event[d]
      /\ \A d \in Conns \ {c} :
            /\ (d \in registered' <=> d \in registered) /\ (d \in open' <=> d \in open)
            /\ metadata'[d] = metadata[d]
  BY <1>1, <1>2, PartSteps, Zenon
<1>4. \A d \in Conns \ {c} : outbound'[d] = outbound[d]
  BY <1>1, Zenon DEF End
<1>5. \A d \in Conns \ {c} : Same(d)
  BY <1>3, <1>4, Zenon DEF Same
<1>6. ~In(c, "apply") \/ effects[c] = <<>>
  BY Zenon DEF In
<1>7. ConnInv(c)'
  BY <1>1, <1>3, <1>6, EndedKeeps, Zenon
<1>8. task[c] = "event" /\ (event[c].stage = "sent" => event[c].kind # "message")
  BY Zenon DEF In
<1>9. \A e \in EventId : e.conn = c /\ Reached(e) => Reached(e)'
  BY <1>3, <1>8, Zenon DEF Reached
<1>10. Past(c)'
  BY <1>3, Zenon DEF Past
<1> QED
  BY <1>3, <1>5, <1>7, <1>9, <1>10, Zenon DEF Moves

\* The task of c leaves its loop, or a message that failed, for its disconnect:
\* it takes along the metadata that the registry had.
LEMMA Leaves ==
  ASSUME GatewayInv, NEW c \in Conns, LeaveLoop(c),
         \/ task[c] \in {"loop", "sending"}
         \/ In(c, "sent") /\ event[c].kind = "message",
         \A d \in Conns \ {c} : outbound'[d] = outbound[d],
         UNCHANGED <<taken, effects, heard, committed>>
  PROVE  /\ Moves(c) /\ ConnInv(c)' /\ task'[c] = "event"
         /\ event'[c].kind = "disconnect" /\ event'[c].stage = "removed"
<1>1. TypeInv /\ ConnInv(c) /\ open \subseteq registered
  BY Zenon DEF GatewayInv, TypeInv, TypeOK
<1>2. c \in open /\ c \in registered /\ effects[c] = <<>> /\ Past(c) /\ task[c] # "ended"
  <2>1. c \in open /\ effects[c] = <<>>
    BY <1>1, Zenon DEF ConnInv, Lifecycle, In
  <2>2. Past(c) /\ task[c] # "ended"
    BY Zenon DEF Past, In
  <2> QED
    BY <1>1, <2>1, <2>2, Zenon
<1>3. /\ SetTask(c, "event", SomeEvent("disconnect", 0, "removed", metadata[c], {})) /\ Remove(c)
  BY <1>2, Zenon DEF LeaveLoop
<1>4. /\ task'[c] = "event" /\ c \notin registered' /\ c \notin open' /\ metadata'[c] = NoEvent
      /\ event'[c] = SomeEvent("disconnect", 0, "removed", metadata[c], {})
      /\ \A d \in Conns \ {c} : task'[d] = task[d] /\ event'[d] = event[d]
      /\ \A d \in Conns \ {c} :
            /\ (d \in registered' <=> d \in registered) /\ (d \in open' <=> d \in open)
            /\ metadata'[d] = metadata[d]
  BY <1>1, <1>3, PartSteps
<1>5. /\ event'[c].kind = "disconnect" /\ event'[c].stage = "removed"
      /\ event'[c].metadata = metadata[c] /\ event'[c].number = 0
  BY <1>4, SomeEventTyped
<1>6. \A d \in Conns \ {c} : Same(d)
  BY <1>4, Zenon DEF Same
<1>7. \A e \in EventId : e.conn = c /\ Reached(e) => Reached(e)'
  BY <1>4, <1>5, Zenon DEF Reached, In
<1>8. Lifecycle(c)'
  BY <1>1, <1>2, <1>4, <1>5, Zenon DEF ConnInv, Lifecycle
<1>9. /\ (HasConnected(c)' <=> HasConnected(c)) /\ (Welcomed(c)' <=> Welcomed(c))
      /\ Setting(c)' = Setting(c) /\ (OwnSettings(c)' <=> OwnSettings(c))
  BY Zenon DEF HasConnected, Welcomed, Setting, OwnSettings
<1>10. Known(c)'
  BY <1>1, <1>2, <1>5, <1>9, Zenon DEF ConnInv, Known, In
<1>11. AllPending(c)'
  BY <1>2, SMT DEF AllPending
<1>12. Greeted(c)'
  BY <1>1, <1>4, <1>9, Zenon DEF ConnInv, Greeted, ConnectOf
<1>13. Tracked(c)'
  <2>1. ~SetsOwn(c)
    BY <1>2, SMT DEF SetsOwn
  <2>2. OwnSettings(c) => IsLast(Setting(c), metadata[c])
    BY <1>1, <1>2, <2>1, Zenon DEF ConnInv, Tracked
  <2>3. \A S, e : IsLast(S, e)' <=> IsLast(S, e)
    BY Zenon DEF IsLast, Rank
  <2> QED
    BY <1>4, <1>5, <1>9, <2>2, <2>3, Zenon DEF Tracked
<1>14. Past(c)'
  BY <1>4, <1>5, Zenon DEF Past
<1> QED
  BY <1>4, <1>5, <1>6, <1>7, <1>8, <1>10, <1>11, <1>12, <1>13, <1>14, Zenon DEF Moves, ConnInv
-----------------------------------------------------------------------------
(* The steps of run_connection.                                             *)

\* A connection enters the registry, or does not get that far.
LEMMA Enters ==
  ASSUME GatewayInv, TypeInv', NEW c \in Conns, Register(c) \/ NotRegistered(c)
  PROVE  GatewayInv'
<1> USE DEF registry
<1>1. TypeInv /\ ConnInv(c) /\ open \subseteq registered /\ outbound \in [Conns -> Seq(Frame)]
  BY Zenon DEF GatewayInv, TypeInv, TypeOK
<1>2. task[c] = "new"
  BY Zenon DEF Register, NotRegistered
<1>3. /\ c \notin registered /\ c \notin open /\ taken[c] = 0 /\ outbound[c] = <<>>
      /\ effects[c] = <<>> /\ metadata[c] = NoEvent
  BY <1>1, <1>2, Zenon DEF ConnInv, Lifecycle, In
<1>4. \A e \in EventId : ~(e.conn = c /\ Reached(e))
  <2>1. \A e \in EventId : ~(1 <= e.number /\ e.number <= 0)
    BY SMT DEF EventId
  <2> QED
    BY <1>2, <1>3, <2>1, Zenon DEF Reached
<1>5. ~Past(c)
  BY <1>2, Zenon DEF Past
<1>6. CASE NotRegistered(c)
  <2>1. SetTask(c, "ended", NotDispatching) /\ UNCHANGED <<registered, open, metadata, effects, heard, taken>>
        /\ UNCHANGED <<committed, late, sunk>> /\ outbound' = [outbound EXCEPT ![c] = <<>>]
    BY <1>6, Zenon DEF NotRegistered, End
  <2>2. task'[c] = "ended" /\ \A d \in Conns \ {c} : task'[d] = task[d] /\ event'[d] = event[d]
    BY <1>1, <2>1, PartSteps, Zenon
  <2>3. \A d \in Conns \ {c} : outbound'[d] = outbound[d]
    BY <1>1, <2>1, Zenon
  <2>4. \A d \in Conns \ {c} : Same(d)
    BY <2>1, <2>2, <2>3, Zenon DEF Same
  <2>5. Moves(c)
    BY <1>4, <1>5, <2>1, <2>4, Zenon DEF Moves
  <2>6. ConnInv(c)'
    BY <1>1, <1>3, <2>1, <2>2, EndedKeeps, Zenon
  <2> QED
    BY <2>1, <2>5, <2>6, QuietStep, Zenon
<1>7. CASE Register(c)
  <2> DEFINE e == SomeEvent("connect", 0, "sent", NoEvent, open \cup {c})
  <2>1. /\ SetTask(c, "event", e) /\ registered' = registered \cup {c}
        /\ UNCHANGED <<open, metadata, outbound, effects, heard, taken, committed, late, sunk>>
    BY <1>7, Zenon DEF Register, Insert, PrepareEvent
  <2>2. /\ e.kind = "connect" /\ e.number = 0 /\ e.stage = "sent" /\ e.catalog = open \cup {c}
    BY SomeEventTyped
  <2> HIDE DEF e
  <2>3. /\ task'[c] = "event" /\ event'[c] = e
        /\ \A d \in Conns \ {c} : task'[d] = task[d] /\ event'[d] = event[d]
    BY <1>1, <2>1, PartSteps, Zenon
  <2>4. \A d \in Conns \ {c} : Same(d)
    BY <2>1, <2>3, Zenon DEF Same
  <2>5. Moves(c)
    BY <1>4, <1>5, <2>1, <2>4, Zenon DEF Moves
  <2>6. Lifecycle(c)'
    BY <1>1, <1>3, <2>1, <2>2, <2>3, Zenon DEF ConnInv, Lifecycle
  <2>7. Known(c)'
    <3>1. ~In(c, "apply")' /\ ~Past(c)'
      BY <2>2, <2>3, Zenon DEF In, Past
    <3>2. ASSUME NEW d \in open \cup {c}, d # c
          PROVE  Past(d)' /\ HasConnected(d)'
      <4>1. d \in open /\ d \in Conns
        BY <3>2, Zenon DEF GatewayInv, TypeInv, TypeOK
      <4>2. Past(d) /\ HasConnected(d)
        BY <1>1, <4>1, OpenKnown, Zenon DEF GatewayInv
      <4> QED
        BY <2>1, <2>4, <3>2, <4>1, <4>2, Zenon DEF Same, Past, HasConnected
    <3> QED
      BY <2>2, <2>3, <3>1, <3>2, Zenon DEF Known
  <2>8. AllPending(c)'
    BY <1>3, <2>1, SMT DEF AllPending
  <2>9. Greeted(c)'
    <3>1. Welcomed(c)' <=> Welcomed(c)
      BY <2>1, Zenon DEF Welcomed
    <3>2. ~In(c, "apply")'
      BY <2>2, <2>3, Zenon DEF In
    <3> QED
      BY <1>1, <1>3, <2>1, <3>1, <3>2, Zenon DEF ConnInv, Greeted, ConnectOf
  <2>10. Tracked(c)'
    <3>1. OwnSettings(c)' => Setting(c)' = {}
      <4>1. \A x \in committed : x.event \in EventId /\ Reached(x.event)
        BY Zenon DEF GatewayInv, TypeInv, TypeOK, Commit, CommitInv
      <4> QED
        BY <1>4, <2>1, <4>1, Zenon DEF OwnSettings, Setting
    <3>2. ~SetsOwn(c)'
      BY <1>3, <2>1, SMT DEF SetsOwn
    <3> QED
      BY <1>3, <2>1, <2>2, <2>3, <3>1, <3>2, Zenon DEF Tracked, IsLast
  <2> QED
    BY <2>1, <2>5, <2>6, <2>7, <2>8, <2>9, <2>10, QuietStep, Zenon DEF ConnInv
<1> QED
  BY <1>6, <1>7, Zenon

\* The loop takes a message, a frame, or the actor's Close, or finds its client gone.
LEMMA Loops ==
  ASSUME GatewayInv, TypeInv', NEW c \in Conns,
         TakeInbound(c) \/ ClientLeft(c) \/ TakeOutbound(c) \/ Sent(c)
  PROVE  GatewayInv'
<1> USE DEF registry
<1>1. /\ TypeInv /\ ConnInv(c) /\ open \subseteq registered /\ registered \subseteq Conns
      /\ outbound \in [Conns -> Seq(Frame)] /\ taken \in [Conns -> Nat]
      /\ heard \in [Conns -> EventId \cup {NoEvent}] /\ task \in [Conns -> Tasks]
  BY Zenon DEF GatewayInv, TypeInv, TypeOK
<1>2. task[c] \in {"loop", "sending"}
  BY Zenon DEF TakeInbound, ClientLeft, TakeOutbound, Sent
<1>3. c \in open /\ c \in registered /\ effects[c] = <<>> /\ Past(c) /\ HasConnected(c)
  BY <1>1, <1>2, Zenon DEF ConnInv, Lifecycle, Known, Past, In
<1>4. CASE ClientLeft(c)
  <2>1. LeaveLoop(c) /\ UNCHANGED <<taken, outbound, effects, committed, late, heard, sunk>>
    BY <1>4, Zenon DEF ClientLeft
  <2>2. Moves(c) /\ ConnInv(c)'
    BY <1>2, <2>1, Leaves, Zenon
  <2> QED
    BY <2>1, <2>2, QuietStep, Zenon
<1>5. ASSUME Sent(c), Head(outbound[c]) = CloseFrame
      PROVE  GatewayInv'
  <2>1. /\ LeaveLoop(c) /\ UNCHANGED <<taken, effects, committed, late, heard, sunk>>
        /\ outbound' = [outbound EXCEPT ![c] = Tail(@)]
    BY <1>5, Zenon DEF Sent
  <2>2. \A d \in Conns \ {c} : outbound'[d] = outbound[d]
    BY <1>1, <2>1, Zenon
  <2>3. Moves(c) /\ ConnInv(c)'
    BY <1>2, <2>1, <2>2, Leaves, Zenon
  <2> QED
    BY <2>1, <2>3, QuietStep, Zenon
<1>6. ASSUME Sent(c), Head(outbound[c]) # CloseFrame
      PROVE  GatewayInv'
  <2>1. /\ UNCHANGED <<taken, effects, committed, late, sunk, event, registered, open, metadata>>
        /\ outbound' = [outbound EXCEPT ![c] = Tail(@)]
        /\ heard' = [heard EXCEPT ![c] = IF @ = NoEvent THEN Head(outbound[c]) ELSE @]
        /\ task[c] = "sending" /\ task' = [task EXCEPT ![c] = "loop"]
    BY <1>6, Zenon DEF Sent
  <2>2. /\ outbound[c] # <<>> /\ task'[c] = "loop"
        /\ \A d \in Conns \ {c} :
              outbound'[d] = outbound[d] /\ heard'[d] = heard[d] /\ task'[d] = task[d]
    BY <1>1, <2>1, Zenon DEF ConnInv, Lifecycle
  <2>3. heard'[c] = IF heard[c] = NoEvent THEN Head(outbound[c]) ELSE heard[c]
    BY <1>1, <2>1, Zenon
  <2>4. \A d \in Conns \ {c} : Same(d)
    BY <2>1, <2>2, Zenon DEF Same
  <2>5. Moves(c)
    BY <2>1, <2>2, <2>4, Zenon DEF Moves, Reached, Past
  <2>6. /\ (HasConnected(c)' <=> HasConnected(c)) /\ (\A d : Welcomed(d)' <=> Welcomed(d))
        /\ Setting(c)' = Setting(c) /\ (OwnSettings(c)' <=> OwnSettings(c))
    BY <2>1, Zenon DEF HasConnected, Welcomed, Setting, OwnSettings
  <2>7. Lifecycle(c)' /\ Known(c)'
    BY <1>1, <1>3, <2>1, <2>2, <2>6, Zenon DEF ConnInv, Lifecycle, Known, In
  <2>8. AllPending(c)'
    BY <1>3, <2>1, SMT DEF AllPending
  <2>9. heard'[c] = ConnectOf(c) /\ Welcomed(c) /\ heard'[c] # NoEvent
    <3>1. Event(c, "connect", 0) # NoEvent
      BY EventTyped, Zenon
    <3>2. heard[c] # NoEvent => heard[c] = ConnectOf(c) /\ Welcomed(c)
      BY <1>1, Zenon DEF ConnInv, Greeted
    <3>3. heard[c] = NoEvent => Greeting(c, Head(outbound[c]))
      BY <1>1, <1>3, <2>2, Zenon DEF ConnInv, Greeted
    <3> QED
      BY <1>6, <2>3, <3>1, <3>2, <3>3, Zenon DEF Greeting, ConnectOf
  <2>10. Greeted(c)'
    BY <2>6, <2>9, Zenon DEF Greeted, ConnectOf
  <2>11. Tracked(c)'
    <3>1. SetsOwn(c)' <=> SetsOwn(c)
      BY <2>1, Zenon DEF SetsOwn
    <3>2. \A S, e : IsLast(S, e)' <=> IsLast(S, e)
      BY Zenon DEF IsLast, Rank
    <3>3. Current(c)' = Current(c)
      BY <2>1, Zenon DEF Current
    <3> QED
      BY <1>1, <2>1, <2>2, <2>6, <3>1, <3>2, <3>3, Zenon DEF ConnInv, Tracked
  <2> QED
    BY <2>1, <2>5, <2>7, <2>8, <2>10, <2>11, QuietStep, Zenon DEF ConnInv
<1>7. CASE TakeInbound(c)
  <2> DEFINE e == SomeEvent("message", taken[c] + 1, "sent", NoEvent, open)
  <2>1. /\ SetTask(c, "event", e) /\ taken' = [taken EXCEPT ![c] = @ + 1] /\ taken[c] < MaxMessages[c]
        /\ UNCHANGED <<registered, open, metadata, outbound, effects, heard, committed, late, sunk>>
    BY <1>7, Zenon DEF TakeInbound, PrepareEvent
  <2>2. /\ e.kind = "message" /\ e.number = taken[c] + 1 /\ e.stage = "sent" /\ e.catalog = open
    BY SomeEventTyped
  <2> HIDE DEF e
  <2>3. /\ task'[c] = "event" /\ event'[c] = e
        /\ \A d \in Conns \ {c} : task'[d] = task[d] /\ event'[d] = event[d]
    BY <1>1, <2>1, PartSteps, Zenon
  <2>4. taken'[c] = taken[c] + 1 /\ \A d \in Conns \ {c} : taken'[d] = taken[d]
    BY <1>1, <2>1, Zenon
  <2>5. \A d \in Conns \ {c} : Same(d)
    BY <2>1, <2>3, <2>4, Zenon DEF Same
  <2>6. /\ Past(c)' /\ (\A d : HasConnected(d)' <=> HasConnected(d)) /\ (Welcomed(c)' <=> Welcomed(c))
        /\ Setting(c)' = Setting(c) /\ (OwnSettings(c)' <=> OwnSettings(c))
    BY <2>1, <2>2, <2>3, Zenon DEF HasConnected, Welcomed, Setting, OwnSettings, Past
  <2>7. \A f \in EventId : f.conn = c /\ Reached(f) => Reached(f)'
    <3>1. \A f \in EventId : f.number \in Nat
      BY Zenon DEF EventId
    <3>2. taken[c] \in Nat
      BY <1>1, Zenon
    <3> QED
      BY <1>2, <2>2, <2>3, <2>4, <3>1, <3>2, SMT DEF Reached
  <2>8. Moves(c)
    BY <2>1, <2>5, <2>6, <2>7, Zenon DEF Moves
  <2>9. Lifecycle(c)'
    <3>1. taken[c] \in Nat /\ MaxMessages[c] \in Nat
      BY <1>1, LimitAssumption, Zenon
    <3>2. taken[c] + 1 <= MaxMessages[c] /\ 1 <= taken[c] + 1
      BY <2>1, <3>1, SMT
    <3> QED
      BY <1>1, <1>3, <2>1, <2>2, <2>3, <2>4, <3>2, Zenon DEF ConnInv, Lifecycle
  <2>10. Known(c)'
    <3>1. \A d \in open : d = c \/ (Past(d)' /\ HasConnected(d)')
      <4>1. ASSUME NEW d \in open, d # c
            PROVE  Past(d)'
        <5>1. d \in Conns /\ Past(d)
          BY <1>1, OpenKnown, Zenon DEF GatewayInv
        <5> QED
          BY <2>5, <4>1, <5>1, Zenon DEF Same, Past
      <4>2. \A d \in open : HasConnected(d)
        BY <1>1, OpenKnown, Zenon DEF GatewayInv
      <4> QED
        BY <2>6, <4>1, <4>2, Zenon
    <3> QED
      BY <1>3, <2>2, <2>3, <2>6, <3>1, Zenon DEF Known, In
  <2>11. AllPending(c)'
    BY <1>3, <2>1, SMT DEF AllPending
  <2>12. Greeted(c)'
    <3>1. ~In(c, "apply")'
      BY <2>2, <2>3, Zenon DEF In
    <3> QED
      BY <1>1, <2>1, <2>6, <3>1, Zenon DEF ConnInv, Greeted, ConnectOf, Greeting
  <2>13. Tracked(c)'
    <3>1. ~SetsOwn(c)' /\ ~SetsOwn(c)
      BY <1>3, <2>1, SMT DEF SetsOwn
    <3>2. \A S, f : IsLast(S, f)' <=> IsLast(S, f)
      BY Zenon DEF IsLast, Rank
    <3> QED
      BY <1>1, <1>3, <2>1, <2>2, <2>3, <2>6, <3>1, <3>2, Zenon DEF ConnInv, Tracked
  <2> QED
    BY <2>1, <2>8, <2>9, <2>10, <2>11, <2>12, <2>13, QuietStep, Zenon DEF ConnInv
<1>8. CASE TakeOutbound(c)
  <2>1. /\ UNCHANGED <<taken, effects, committed, late, sunk, event, registered, open, metadata>>
        /\ UNCHANGED <<outbound, heard>> /\ outbound[c] # <<>>
        /\ task[c] = "loop" /\ task' = [task EXCEPT ![c] = "sending"]
    BY <1>8, Zenon DEF TakeOutbound
  <2>2. task'[c] = "sending" /\ \A d \in Conns \ {c} : task'[d] = task[d]
    BY <1>1, <2>1, Zenon
  <2>3. \A d \in Conns \ {c} : Same(d)
    BY <2>1, <2>2, Zenon DEF Same
  <2>4. Moves(c)
    BY <2>1, <2>2, <2>3, Zenon DEF Moves, Reached, Past
  <2>5. /\ (HasConnected(c)' <=> HasConnected(c)) /\ (\A d : Welcomed(d)' <=> Welcomed(d))
        /\ Setting(c)' = Setting(c) /\ (OwnSettings(c)' <=> OwnSettings(c))
    BY <2>1, Zenon DEF HasConnected, Welcomed, Setting, OwnSettings
  <2>6. Lifecycle(c)' /\ Known(c)'
    BY <1>1, <1>3, <2>1, <2>2, <2>5, Zenon DEF ConnInv, Lifecycle, Known, In
  <2>7. AllPending(c)'
    BY <1>3, <2>1, SMT DEF AllPending
  <2>8. Greeted(c)'
    <3>1. \A f : Greeting(c, f)' <=> Greeting(c, f)
      BY <2>5, Zenon DEF Greeting, ConnectOf
    <3>2. ~In(c, "apply")'
      BY <2>2, Zenon DEF In
    <3> QED
      BY <1>1, <2>1, <2>5, <3>1, <3>2, Zenon DEF ConnInv, Greeted, ConnectOf
  <2>9. Tracked(c)'
    <3>1. SetsOwn(c)' <=> SetsOwn(c)
      BY <2>1, Zenon DEF SetsOwn
    <3>2. \A S, e : IsLast(S, e)' <=> IsLast(S, e)
      BY Zenon DEF IsLast, Rank
    <3>3. Current(c)' = Current(c)
      BY <2>1, Zenon DEF Current
    <3> QED
      BY <1>1, <2>1, <2>2, <2>5, <3>1, <3>2, <3>3, Zenon DEF ConnInv, Tracked
  <2> QED
    BY <2>1, <2>4, <2>6, <2>7, <2>8, <2>9, QuietStep, Zenon DEF ConnInv
<1> QED
  BY <1>4, <1>5, <1>6, <1>7, <1>8, Zenon

\* The steps of an event before and after its call: a disconnect gets its
\* catalog, and an event is done when its effects are applied.
LEMMA Dispatches ==
  ASSUME GatewayInv, TypeInv', NEW c \in Conns,
         PrepareDisconnect(c) \/ Connected(c) \/ MessageDone(c) \/ Disconnected(c)
  PROVE  GatewayInv'
<1> USE DEF registry
<1>1. /\ TypeInv /\ CommitInv /\ ConnInv(c) /\ open \subseteq registered /\ registered \subseteq Conns
      /\ event \in [Conns -> SocketEvent]
  BY Zenon DEF GatewayInv, TypeInv, TypeOK
<1>2. task[c] = "event"
  BY Zenon DEF PrepareDisconnect, Connected, MessageDone, Disconnected, In
<1>3. \A S, e : IsLast(S, e)' <=> IsLast(S, e)
  BY Zenon DEF IsLast, Rank
<1>4. CASE Disconnected(c)
  <2>1. Moves(c) /\ ConnInv(c)'
    BY <1>4, Ends, Zenon DEF Disconnected
  <2> QED
    BY <1>4, <2>1, QuietStep, Zenon DEF Disconnected
<1>5. CASE PrepareDisconnect(c)
  <2> DEFINE e == SomeEvent(event[c].kind, event[c].number, "sent", event[c].metadata, open)
  <2>1. /\ UNCHANGED <<task, taken, registered, open, metadata, outbound, effects>>
        /\ UNCHANGED <<heard, committed, late, sunk>> /\ event[c].stage = "removed"
    BY <1>5, Zenon DEF PrepareDisconnect, In
  <2>2. event'[c] = e /\ \A d \in Conns \ {c} : event'[d] = event[d]
    BY <1>1, <1>5, Zenon DEF PrepareDisconnect
  <2>3. /\ e.kind = event[c].kind /\ e.number = event[c].number /\ e.stage = "sent"
        /\ e.catalog = open /\ e.metadata = event[c].metadata
    BY SomeEventTyped
  <2> HIDE DEF e
  <2>4. event[c].kind = "disconnect" /\ c \notin registered /\ c \notin open /\ effects[c] = <<>>
    <3>1. event[c].kind \in Kinds
      BY <1>1, Zenon DEF SocketEvent
    <3> QED
      BY <1>1, <1>2, <2>1, <3>1, Zenon DEF ConnInv, Lifecycle, In, Kinds
  <2>5. \A d \in Conns \ {c} : Same(d)
    BY <2>1, <2>2, Zenon DEF Same
  <2>6. /\ (\A d : HasConnected(d)' <=> HasConnected(d)) /\ (Welcomed(c)' <=> Welcomed(c))
        /\ Setting(c)' = Setting(c) /\ (OwnSettings(c)' <=> OwnSettings(c)) /\ (Past(c)' <=> Past(c))
    BY <2>1, <2>2, <2>3, Zenon DEF HasConnected, Welcomed, Setting, OwnSettings, Past
  <2>7. \A f \in EventId : f.conn = c /\ Reached(f) => Reached(f)'
    BY <1>2, <2>1, <2>2, <2>3, <2>4, Zenon DEF Reached
  <2>8. Moves(c)
    BY <2>1, <2>5, <2>6, <2>7, Zenon DEF Moves
  <2>9. Lifecycle(c)'
    BY <1>1, <1>2, <2>1, <2>2, <2>3, <2>4, Zenon DEF ConnInv, Lifecycle
  <2>10. Known(c)'
    <3>1. ASSUME NEW d \in open, d # c
          PROVE  Past(d)' /\ HasConnected(d)'
      <4>1. d \in Conns /\ Past(d) /\ HasConnected(d)
        BY <1>1, OpenKnown, Zenon DEF GatewayInv
      <4> QED
        BY <2>5, <2>6, <3>1, <4>1, Zenon DEF Same, Past
    <3> QED
      BY <1>1, <2>1, <2>2, <2>3, <2>4, <2>6, <3>1, Zenon DEF ConnInv, Known, In
  <2>11. AllPending(c)'
    BY <2>1, <2>4, SMT DEF AllPending
  <2>12. Greeted(c)'
    BY <1>1, <2>1, <2>4, <2>6, Zenon DEF ConnInv, Greeted, ConnectOf
  <2>13. Tracked(c)'
    BY <1>1, <1>2, <1>3, <2>1, <2>2, <2>3, <2>4, <2>6, Zenon DEF ConnInv, Tracked
  <2> QED
    BY <2>1, <2>8, <2>9, <2>10, <2>11, <2>12, <2>13, QuietStep, Zenon DEF ConnInv
<1>6. CASE Connected(c) \/ MessageDone(c)
  <2>1. /\ UNCHANGED <<taken, registered, metadata, outbound, effects, heard, committed, late>>
        /\ event[c].stage = "apply" /\ effects[c] = <<>> /\ SetTask(c, "loop", NotDispatching)
        /\ In(c, "apply")
    BY <1>6, Zenon DEF Connected, MessageDone, In
  <2>2. /\ task'[c] = "loop"
        /\ \A d \in Conns \ {c} : task'[d] = task[d] /\ event'[d] = event[d]
    BY <1>1, <2>1, PartSteps, Zenon
  <2>3. event[c].kind \in {"connect", "message"} /\ c \in registered
    BY <1>1, <1>2, <1>6, Zenon DEF ConnInv, Lifecycle, Connected, MessageDone
  <2>4. c \in open' /\ \A d \in Conns \ {c} : d \in open' <=> d \in open
    BY <1>1, <1>2, <1>6, <2>3, Zenon DEF ConnInv, Lifecycle, Connected, MessageDone
  <2>5. \A d \in Conns \ {c} : Same(d)
    BY <2>1, <2>2, <2>4, Zenon DEF Same
  <2>6. /\ (\A d : HasConnected(d)' <=> HasConnected(d)) /\ (Welcomed(c)' <=> Welcomed(c))
        /\ Setting(c)' = Setting(c) /\ (OwnSettings(c)' <=> OwnSettings(c)) /\ Past(c)'
    BY <2>1, <2>2, Zenon DEF HasConnected, Welcomed, Setting, OwnSettings, Past
  <2>7. \A f \in EventId : f.conn = c /\ Reached(f) => Reached(f)'
    BY <1>2, <2>1, <2>2, <2>3, Zenon DEF Reached
  <2>8. Moves(c)
    BY <2>1, <2>5, <2>6, <2>7, Zenon DEF Moves
  <2>9. HasConnected(c)
    <3>1. CASE event[c].kind = "connect"
      <4>1. Current(c) = Event(c, "connect", 0)
        BY <1>1, <1>2, <3>1, Zenon DEF ConnInv, Lifecycle, Current
      <4> QED
        BY <1>1, <2>1, <4>1, Zenon DEF ConnInv, Known, HasConnected
    <3>2. CASE event[c].kind = "message"
      BY <1>1, <1>2, <3>2, Zenon DEF ConnInv, Known, Past
    <3> QED
      BY <2>3, <3>1, <3>2, Zenon
  <2>10. Lifecycle(c)'
    BY <1>1, <2>1, <2>2, <2>3, <2>4, Zenon DEF ConnInv, Lifecycle
  <2>11. Known(c)'
    BY <2>2, <2>6, <2>9, Zenon DEF Known, In
  <2>12. AllPending(c)'
    BY <2>1, SMT DEF AllPending
  <2>13. Greeted(c)'
    <3>1. heard[c] = NoEvent => outbound[c] # <<>> /\ Greeting(c, Head(outbound[c]))
      <4>1. ~OwnAhead(c)
        BY <2>1, SMT DEF OwnAhead
      <4> QED
        BY <1>1, <1>2, <2>1, <2>3, <4>1, Zenon DEF ConnInv, Greeted, Lifecycle
    <3>2. \A f : Greeting(c, f)' <=> Greeting(c, f)
      BY <2>6, Zenon DEF Greeting, ConnectOf
    <3>3. ~In(c, "apply")'
      BY <2>2, Zenon DEF In
    <3> QED
      BY <1>1, <2>1, <2>6, <3>1, <3>2, <3>3, Zenon DEF ConnInv, Greeted, ConnectOf
  <2>14. Tracked(c)'
    <3>1. ~SetsOwn(c)' /\ ~SetsOwn(c)
      BY <2>1, SMT DEF SetsOwn
    <3> QED
      BY <1>1, <1>3, <2>1, <2>2, <2>3, <2>6, <3>1, Zenon DEF ConnInv, Tracked
  <2>15. ASSUME NEW s \in sunk' \ sunk
         PROVE  s[3] = s[1] /\ \E x \in committed : x.event = Event(s[1], "message", s[2]) /\ ~x.late
    <3>1. MessageDone(c)
      BY <1>6, Zenon DEF Connected
    <3>2. s = <<c, event[c].number, c>> /\ event[c].kind = "message"
      BY <2>3, <3>1, Zenon DEF MessageDone, DeliverMessageEvent, TriggerId
    <3>3. \E x \in committed : x.event = Event(c, "message", event[c].number) /\ ~x.late
      BY <1>1, <2>1, <3>2, Zenon DEF ConnInv, Known, Current
    <3> QED
      BY <3>2, <3>3, Zenon
  <2>16. CommitInv'
    BY <1>1, <2>1, <2>8, <2>15, CommitStep, Zenon
  <2>17. \A d : Setting(d)' = Setting(d)
    BY <2>1, Zenon DEF Setting
  <2> QED
    BY <2>1, <2>8, <2>10, <2>11, <2>12, <2>13, <2>14, <2>16, <2>17, TaskKeeps, Zenon DEF ConnInv
<1> QED
  BY <1>4, <1>5, <1>6, Zenon

\* The call ends without an answer that the event was executed: nothing is
\* committed, and a call that was lost may yet take effect.
LEMMA Fails ==
  ASSUME GatewayInv, TypeInv', NEW c \in Conns, NotExecuted(c) \/ CallLost(c)
  PROVE  GatewayInv'
<1> USE DEF registry
<1>1. TypeInv /\ CommitInv /\ ConnInv(c) /\ event[c] \in SocketEvent
  BY Zenon DEF GatewayInv, TypeInv, TypeOK
<1>2. /\ In(c, "sent") /\ DispatchFails(c) /\ UNCHANGED <<taken, effects, committed, heard>>
      /\ sunk' = sunk /\ (late' = late \/ late' = late \cup {GivenUp(c)})
  BY Zenon DEF NotExecuted, CallLost, DispatchFails
<1>3. task[c] = "event" /\ event[c].stage = "sent"
  BY <1>2, Zenon DEF In
<1>4. /\ Moves(c) /\ ConnInv(c)'
      /\ \/ task'[c] = "ended" /\ event[c].kind # "message"
         \/ /\ event[c].kind = "message" /\ task'[c] = "event" /\ event'[c].kind = "disconnect"
            /\ event'[c].stage = "removed"
  <2>1. CASE event[c].kind = "message"
    BY <1>2, <2>1, Leaves, Zenon DEF DispatchFails
  <2>2. CASE event[c].kind # "message"
    BY <1>2, <2>2, Ends, Zenon DEF DispatchFails
  <2> QED
    BY <2>1, <2>2, Zenon
<1>5. ~Reached(Current(c)) /\ Current(c) \in EventId
  BY <1>1, <1>2, CurrentFresh, Zenon
<1>6. /\ Current(c).conn = c /\ Current(c).kind = event[c].kind
      /\ Current(c).number = event[c].number /\ event[c].kind \in Kinds
  BY <1>1, EventTyped, SMT DEF Current, SocketEvent
<1>7. ASSUME NEW f, f = Current(c)
      PROVE  Reached(f)'
  <2>1. taken[c] \in Nat /\ taken'[c] = taken[c]
    BY <1>1, <1>2, Zenon DEF TypeInv, TypeOK
  <2>2. /\ event[c].kind = "connect" => event[c].number = 0
        /\ event[c].kind = "disconnect" => event[c].number = 0
        /\ event[c].kind = "message" => event[c].number = taken[c] /\ 1 <= taken[c]
    BY <1>1, <1>3, Zenon DEF ConnInv, Lifecycle
  <2> QED
    BY <1>4, <1>6, <1>7, <2>1, <2>2, SMT DEF Reached, Kinds
<1>8. event[c].kind # "connect" => HasConnected(c)
  BY <1>1, <1>3, Zenon DEF ConnInv, Known, Past
<1>9. /\ \A call \in late' \ late :
            /\ Reached(call.event)' /\ ~Reached(call.event)
            /\ call.event.kind # "connect" => HasConnected(call.event.conn)
      /\ \A call, other \in late' \ late : call = other
  <2>1. ASSUME NEW call \in late' \ late
        PROVE  call = GivenUp(c) /\ call.event = Current(c)
    <3>1. call = GivenUp(c)
      BY <1>2, <2>1, Zenon
    <3>2. GivenUp(c).event = Current(c)
      BY SMT DEF GivenUp
    <3> QED
      BY <3>1, <3>2, Zenon
  <2> QED
    BY <1>5, <1>6, <1>7, <1>8, <2>1, Zenon
<1>10. CommitInv'
  BY <1>1, <1>2, <1>4, <1>9, CommitStep, Zenon
<1>11. \A d : Setting(d)' = Setting(d)
  BY <1>2, Zenon DEF Setting
<1> QED
  BY <1>2, <1>4, <1>10, <1>11, TaskKeeps, Zenon

\* What a connection has done ranks before the event in its call.
LEMMA RankBefore ==
  ASSUME TypeInv, NEW c \in Conns, ConnInv(c), In(c, "sent"),
         NEW e \in EventId, e.conn = c, Reached(e)
  PROVE  Rank(e) < Rank(Current(c)) /\ Rank(e) <= Rank(Current(c))
<1>1. event[c] \in SocketEvent /\ taken[c] \in Nat /\ MaxMessages[c] \in Nat
  BY LimitAssumption, Zenon DEF TypeInv, TypeOK
<1>2. event[c].kind \in Kinds /\ event[c].number \in Nat /\ e.number \in Nat
  BY <1>1, Zenon DEF SocketEvent, EventId
<1>3. task[c] = "event" /\ event[c].stage = "sent" /\ taken[c] <= MaxMessages[c]
  BY Zenon DEF In, ConnInv, Lifecycle
<1>4. Rank(Current(c)) =
        CASE event[c].kind = "message" -> event[c].number
          [] event[c].kind = "disconnect" -> MaxMessages[c] + 1
          [] OTHER -> 0
  BY EventTyped DEF Rank, Current
<1>5. /\ event[c].kind = "connect" => taken[c] = 0
      /\ event[c].kind = "message" => event[c].number = taken[c] /\ 1 <= taken[c]
  BY <1>3, Zenon DEF ConnInv, Lifecycle
<1>6. CASE e.kind = "connect"
  <2>1. event[c].kind # "connect" /\ Rank(e) = 0
    BY <1>3, <1>6, Zenon DEF Reached, Rank
  <2> QED
    BY <1>1, <1>2, <1>4, <1>5, <2>1, SMT DEF Kinds
<1>7. CASE e.kind = "message"
  <2>1. /\ 1 <= e.number /\ e.number <= taken[c] /\ Rank(e) = e.number
        /\ event[c].kind = "message" => e.number < taken[c]
    BY <1>3, <1>7, Zenon DEF Reached, Rank
  <2> QED
    BY <1>1, <1>2, <1>3, <1>4, <1>5, <2>1, SMT DEF Kinds
<1> QED
  BY <1>3, <1>6, <1>7, Zenon DEF Reached

\* The call ends with the event committed and its effects at hand.
LEMMA Completes ==
  ASSUME GatewayInv, TypeInv', NEW c \in Conns,
         NEW produced \in HookEffects(event[c].kind, c, event[c].catalog), Completed(c, produced)
  PROVE  GatewayInv'
<1> USE DEF registry
<1>1. /\ TypeInv /\ CommitInv /\ ConnInv(c) /\ event \in [Conns -> SocketEvent]
      /\ effects \in [Conns \cup Posters -> Seq([effect: SocketEffect, by: EventId])]
      /\ committed \subseteq Commit /\ taken[c] \in Nat
  BY Zenon DEF GatewayInv, TypeInv, TypeOK
<1>2. /\ event[c].kind \in Kinds /\ event[c].number \in Nat /\ event[c].catalog \in SUBSET Conns
  BY <1>1, Zenon DEF SocketEvent
<1>3. /\ In(c, "sent") /\ Commits(Current(c), FALSE, produced)
      /\ effects' = [effects EXCEPT ![c] = Produced(Current(c), produced)]
      /\ UNCHANGED <<task, taken, registered, open, metadata, outbound, late, heard, sunk>>
  BY Zenon DEF Completed
<1>4. task[c] = "event" /\ event[c].stage = "sent"
  BY <1>3, Zenon DEF In
<1>5. PICK x :
        /\ x.event = Current(c) /\ ~x.late /\ committed' = committed \cup {x}
        /\ \A d : d \in x.sets <=>
              \E i \in DOMAIN produced : produced[i].type = "metadata" /\ produced[i].to = d
  <2> DEFINE rejected == \E effect \in Range(produced) : effect.type = "reject"
             sets == {effect.to : effect \in {y \in Range(produced) : y.type = "metadata"}}
             z == [event |-> Current(c), late |-> FALSE, rejected |-> rejected, sets |-> sets]
  <2>1. committed' = committed \cup {z}
    BY <1>3, Zenon DEF Commits
  <2>2. \A d : d \in sets <=>
          \E i \in DOMAIN produced : produced[i].type = "metadata" /\ produced[i].to = d
    BY Zenon DEF Range
  <2> HIDE DEF rejected, sets
  <2>3. z.event = Current(c) /\ ~z.late /\ z.sets = sets
    BY Zenon
  <2> HIDE DEF z
  <2> QED
    BY <2>1, <2>2, <2>3, Zenon
<1>7. /\ \A i \in DOMAIN produced :
            produced[i].type # "broadcast" =>
               produced[i].to \in Conns /\ (produced[i].to = c \/ produced[i].to \in event[c].catalog)
      /\ event[c].kind = "connect" =>
            \E i \in DOMAIN produced :
               produced[i].to = c /\ produced[i].type \in {"send", "reject"}
      /\ produced \in Seq(SocketEffect)
  BY <1>2, Hooks
<1> DEFINE now == SomeEvent(event[c].kind, event[c].number, "apply", NoEvent, {})
<1>8. event'[c] = now /\ \A d \in Conns \ {c} : event'[d] = event[d]
  BY <1>1, Zenon DEF Completed
<1>9. now.kind = event[c].kind /\ now.number = event[c].number /\ now.stage = "apply"
  BY SomeEventTyped
<1> HIDE DEF now
<1>10. /\ effects'[c] = [i \in DOMAIN produced |-> [effect |-> produced[i], by |-> Current(c)]]
       /\ \A t \in (Conns \cup Posters) \ {c} : effects'[t] = effects[t]
  BY <1>1, <1>3, Zenon DEF Produced
<1>11. /\ DOMAIN effects'[c] = DOMAIN produced
       /\ \A i \in DOMAIN produced :
             effects'[c][i].effect = produced[i] /\ effects'[c][i].by = Current(c)
  BY <1>10, SMT
<1>12. effects[c] = <<>>
  BY <1>1, <1>4, Zenon DEF ConnInv, Lifecycle, In
<1>13. \A d \in Conns \ {c} : Same(d)
  BY <1>3, <1>8, <1>10, Zenon DEF Same
<1>14. /\ (Past(c)' <=> Past(c)) /\ \A f : f = Current(c) => f = Current(c)'
  BY <1>3, <1>8, <1>9, Zenon DEF Past, Current
<1>15. \A f \in EventId : f.conn = c /\ Reached(f) => Reached(f)'
  BY <1>3, <1>4, <1>8, <1>9, Zenon DEF Reached
<1>16. Moves(c)
  <2>1. \A p \in Posters : effects'[p] = effects[p]
    BY <1>10, ConnsAssumption, Zenon
  <2> QED
    BY <1>13, <1>14, <1>15, <2>1, Zenon DEF Moves
<1>17. ~Reached(Current(c)) /\ Current(c) \in EventId
  BY <1>1, <1>3, CurrentFresh, Zenon
<1>18. /\ Current(c).conn = c /\ Current(c).kind = event[c].kind /\ Current(c).number = event[c].number
  BY EventTyped DEF Current
<1>19. Lifecycle(c)'
  BY <1>1, <1>3, <1>4, <1>8, <1>9, Zenon DEF ConnInv, Lifecycle, In
<1>20. CommitInv'
  <2>1. Reached(x.event)'
    <3>1. /\ event[c].kind = "connect" => event[c].number = 0
          /\ event[c].kind = "disconnect" => event[c].number = 0
          /\ event[c].kind = "message" => event[c].number = taken[c] /\ 1 <= taken[c]
      BY <1>1, <1>4, Zenon DEF ConnInv, Lifecycle
    <3> QED
      BY <1>1, <1>2, <1>3, <1>4, <1>5, <1>8, <1>9, <1>18, <3>1, SMT DEF Reached, Kinds
  <2> QED
    BY <1>1, <1>3, <1>5, <1>16, <1>17, <2>1, CommitStep
<1>21. \A d \in Conns \ {c} : OwnSettings(d)' => Setting(d)' = Setting(d)
  <2>1. ASSUME NEW d \in Conns \ {c}, OwnSettings(d)'
        PROVE  d \notin x.sets
    <3>1. d \in x.sets => x \in Setting(d)'
      BY <1>5, Zenon DEF Setting
    <3>2. x.event.conn = c /\ c # d
      BY <1>5, <1>18, Zenon
    <3> QED
      BY <2>1, <3>1, <3>2, Zenon DEF OwnSettings
  <2> QED
    BY <1>5, <2>1, Zenon DEF Setting
<1>22. /\ \A d : HasConnected(d) => HasConnected(d)'
       /\ \A d : Welcomed(d) => Welcomed(d)'
       /\ OwnSettings(c)' => OwnSettings(c)
  BY <1>5, KnownStays, Zenon
<1>23. Known(c)'
  BY <1>1, <1>3, <1>5, <1>8, <1>9, <1>14, <1>22, Zenon DEF ConnInv, Known, In
<1>24. AllPending(c)'
  <2>1. ASSUME NEW i \in DOMAIN produced
        PROVE  Pending(c, effects[c][i])'
    <3>1. PICK item : item = effects'[c][i]
      BY Zenon
    <3>2. item.effect = produced[i] /\ item.by = Current(c)
      BY <1>11, <3>1, Zenon
    <3>3. produced[i].type # "broadcast" =>
            produced[i].to \in Conns /\ (produced[i].to = c \/ Past(produced[i].to)')
      <4>1. ASSUME produced[i].type # "broadcast", produced[i].to # c
            PROVE  produced[i].to \in Conns /\ Past(produced[i].to)
        BY <1>1, <1>3, <1>7, <4>1, Zenon DEF ConnInv, Known
      <4> QED
        BY <1>7, <1>13, <4>1, Zenon DEF Same, Past
    <3>4. produced[i].type = "metadata" => x.event = item.by /\ produced[i].to \in x.sets
      BY <1>5, <3>2, Zenon
    <3>5. event[c].kind = "connect" /\ produced[i].type = "send" => Welcomed(c)'
      <4>1. event[c].kind = "connect" => Current(c) = ConnectOf(c)
        BY <1>1, <1>4, Zenon DEF ConnInv, Lifecycle, Current, ConnectOf
      <4> QED
        BY <1>5, <4>1, Zenon DEF Welcomed, ConnectOf
    <3>6. Pending(c, item)'
      BY <1>5, <1>8, <1>9, <1>14, <3>2, <3>3, <3>4, <3>5, Zenon DEF Pending
    <3> QED
      BY <3>1, <3>6, Zenon
  <2> QED
    BY <1>11, <2>1, Zenon DEF AllPending
<1>25. Greeted(c)'
  <2>1. \A f : Greeting(c, f) => Greeting(c, f)'
    BY <1>22, Zenon DEF Greeting, ConnectOf
  <2>2. event[c].kind = "connect" => OwnAhead(c)'
    BY <1>7, <1>11, Zenon DEF OwnAhead
  <2> QED
    BY <1>1, <1>3, <1>8, <1>9, <1>22, <2>1, <2>2, Zenon DEF ConnInv, Greeted, ConnectOf
<1>26. Tracked(c)'
  <2>1. \A S, f : IsLast(S, f)' <=> IsLast(S, f)
    BY Zenon DEF IsLast, Rank
  <2>2. SetsOwn(c)' <=> c \in x.sets
    <3>1. \A i \in DOMAIN produced : effects'[c][i].effect = produced[i]
      BY <1>11, Zenon
    <3>2. c \in x.sets <=>
            \E i \in DOMAIN produced : produced[i].type = "metadata" /\ produced[i].to = c
      BY <1>5, Zenon
    <3>3. SetsOwn(c)' <=> \E i \in DOMAIN produced :
            effects'[c][i].effect.type = "metadata" /\ effects'[c][i].effect.to = c
      BY <1>11, Zenon DEF SetsOwn
    <3> QED
      BY <3>1, <3>2, <3>3, Zenon
  <2>3. ~SetsOwn(c)
    BY <1>12, SMT DEF SetsOwn
  <2>4. ASSUME OwnSettings(c)', c \in registered'
        PROVE  IsLast(Setting(c)', IF SetsOwn(c)' THEN Current(c) ELSE metadata[c])
    <3>1. CASE c \in x.sets
      <4>1. \A y \in committed : y.event \in EventId /\ Reached(y.event)
        BY <1>1, Zenon DEF Commit, CommitInv
      <4>2. \A y \in Setting(c)' : y.event.conn = c /\ (y \in committed \/ y = x)
        BY <1>5, <2>4, Zenon DEF OwnSettings, Setting
      <4>3. Rank(Current(c)) <= Rank(Current(c))
        BY <1>2, <1>18, LimitAssumption DEF Rank
      <4>4. \A y \in Setting(c)' : Rank(y.event) <= Rank(Current(c))
        BY <1>1, <1>3, <1>5, <4>1, <4>2, <4>3, RankBefore, Zenon
      <4>5. x \in Setting(c)'
        BY <1>5, <3>1, Zenon DEF Setting
      <4> QED
        BY <1>5, <2>2, <3>1, <4>4, <4>5, Zenon DEF IsLast
    <3>2. CASE c \notin x.sets
      <4>1. Setting(c)' = Setting(c)
        BY <1>5, <3>2, Zenon DEF Setting
      <4> QED
        BY <1>1, <1>3, <1>22, <2>2, <2>3, <2>4, <3>2, <4>1, Zenon DEF ConnInv, Tracked
    <3> QED
      BY <3>1, <3>2, Zenon
  <2> QED
    BY <1>3, <1>8, <1>9, <1>14, <2>1, <2>4, Zenon DEF Tracked
<1> QED
  BY <1>5, <1>16, <1>19, <1>20, <1>21, <1>23, <1>24, <1>25, <1>26, TaskKeeps, Zenon DEF ConnInv
-----------------------------------------------------------------------------
(* Effects that are applied, and calls that take effect late.               *)

\* The effect that t applies next.
IsNext(t, item) == effects[t] # <<>> /\ item = Head(effects[t])

\* What one effect does to a connection: a frame at the end of its channel, only
\* if it is open or the effect is its own, or new metadata.
LEMMA Delivered ==
  ASSUME GatewayInv, NEW t \in Conns \cup Posters, ApplyOne(t), NEW d \in Conns,
         NEW item, IsNext(t, item)
  PROVE  /\ \/ outbound'[d] = outbound[d]
            \/ /\ d \in registered
               /\ \E f \in Frame : /\ outbound'[d] = Append(outbound[d], f)
                                   /\ d \in open \/ Greeting(d, f)
         /\ \/ metadata'[d] = metadata[d]
            \/ /\ d \in registered /\ t \in Conns /\ metadata'[d] = Current(t)
               /\ item.effect.type = "metadata" /\ item.effect.to = d
               /\ \E x \in committed : x.event = Current(t) /\ d \in x.sets
         /\ d \in registered /\ item.effect.to = d =>
               /\ item.effect.type \in {"send", "reject"} =>
                     \E f \in Frame : outbound'[d] = Append(outbound[d], f)
               /\ item.effect.type = "metadata" => metadata'[d] = Current(t)
<1> DEFINE Item == [effect: SocketEffect, by: EventId]
<1>1. /\ effects \in [Conns \cup Posters -> Seq(Item)] /\ effects[t] # <<>>
      /\ outbound \in [Conns -> Seq(Frame)] /\ metadata \in [Conns -> EventId \cup {NoEvent}]
      /\ TypeInv /\ ConnInv(d) /\ event[d] \in SocketEvent /\ Applied(item.effect, item.by)
      /\ task[d] \in Tasks
  BY Zenon DEF GatewayInv, TypeInv, TypeOK, ApplyOne, IsNext
<1>2. item \in Item /\ item = effects[t][1] /\ 1 \in DOMAIN effects[t]
  <2> HIDE DEF Item
  <2> QED
    BY <1>1, SMT DEF IsNext
<1>3. /\ item.effect.type \in {"broadcast", "send", "metadata", "close", "reject"}
      /\ item.effect.to \in Conns \cup {NoConn}
  BY <1>2, Zenon DEF SocketEffect
<1>4. item.effect.type # "broadcast" => t \in Conns /\ Pending(t, item) /\ ConnInv(t)
  <2>1. t \in Posters => item.effect.type = "broadcast"
    BY <1>2, Zenon DEF GatewayInv, PosterInv
  <2>2. t \in Conns => Pending(t, item) /\ ConnInv(t)
    BY <1>2, Zenon DEF GatewayInv, ConnInv, AllPending
  <2> QED
    BY <2>1, <2>2, Zenon
<1>5. item.effect.type # "broadcast" => item.by = Current(t)
  BY <1>4, Zenon DEF Pending
<1>6. item.effect.type # "broadcast" /\ item.effect.to = d /\ d \in registered
        => d \in open \/ (d = t /\ task[d] = "event" /\ event[d].kind = "connect")
  <2>1. event[d].kind \in Kinds
    BY <1>1, Zenon DEF SocketEvent
  <2>2. Past(d) /\ d \in registered => d \in open
    BY <1>1, <2>1, Zenon DEF ConnInv, Lifecycle, Past, Kinds, Tasks
  <2>3. item.effect.type # "broadcast" /\ item.effect.to = d => d = t \/ Past(d)
    BY <1>4, Zenon DEF Pending
  <2>4. d = t => task[d] = "event"
    BY <1>1, Zenon DEF ConnInv, Lifecycle, In
  <2> QED
    BY <2>2, <2>3, <2>4, Zenon DEF Past
<1>7. item.effect.type = "send" /\ item.effect.to = d /\ d \in registered
        => d \in open \/ Greeting(d, item.by)
  <2>1. ASSUME d = t, task[d] = "event", event[d].kind = "connect", item.effect.type = "send"
        PROVE  Greeting(d, item.by)
    <3>1. Current(d) = ConnectOf(d)
      BY <1>1, <2>1, Zenon DEF ConnInv, Lifecycle, Current, ConnectOf
    <3> QED
      BY <1>4, <2>1, <3>1, Zenon DEF Pending, Greeting
  <2> QED
    BY <1>6, <2>1, Zenon
<1>8. item.effect.type = "metadata" /\ item.effect.to = d =>
        \E x \in committed : x.event = Current(t) /\ d \in x.sets
  BY <1>4, <1>5, Zenon DEF Pending
<1>9. item.by \in Frame /\ CloseFrame \in Frame
  BY <1>2, EventTyped, Zenon
<1>10. ASSUME NEW cs, NEW f, Queue(cs, f)
      PROVE  outbound'[d] = IF d \in cs THEN Append(outbound[d], f) ELSE outbound[d]
  BY <1>10, Zenon DEF Queue
<1>11. CASE item.effect.type = "metadata"
  <2>1. outbound'[d] = outbound[d] /\ metadata'[d] =
          IF d \in {item.effect.to} \cap registered THEN item.by ELSE metadata[d]
    BY <1>1, <1>11, Zenon DEF Applied
  <2> QED
    BY <1>4, <1>5, <1>8, <1>11, <2>1, Zenon
<1>12. CASE item.effect.type = "broadcast"
  <2>1. Queue(open \ {item.effect.to}, item.by) /\ UNCHANGED metadata
    BY <1>1, <1>12, Zenon DEF Applied
  <2>2. open \subseteq registered
    BY <1>1, Zenon DEF TypeInv, TypeOK
  <2>3. /\ metadata'[d] = metadata[d]
        /\ outbound'[d] = IF d \in open \ {item.effect.to} THEN Append(outbound[d], item.by)
                         ELSE outbound[d]
    BY <1>10, <2>1, Zenon
  <2> QED
    BY <1>12, <1>9, <2>2, <2>3, Zenon
<1>13. CASE item.effect.type = "send"
  <2>1. Queue({item.effect.to} \cap registered, item.by) /\ UNCHANGED metadata
    BY <1>1, <1>13, Zenon DEF Applied
  <2>2. /\ metadata'[d] = metadata[d]
        /\ outbound'[d] = IF d \in {item.effect.to} \cap registered
                         THEN Append(outbound[d], item.by) ELSE outbound[d]
    BY <1>10, <2>1, Zenon
  <2> QED
    BY <1>7, <1>13, <1>9, <2>2, Zenon
<1>14. CASE item.effect.type \in {"close", "reject"}
  <2>1. Queue({item.effect.to} \cap registered, CloseFrame) /\ UNCHANGED metadata
    <3>1. CASE item.effect.type = "close"
      BY <1>1, <3>1, Zenon DEF Applied
    <3>2. CASE item.effect.type = "reject"
      BY <1>1, <3>2, Zenon DEF Applied
    <3> QED
      BY <1>14, <3>1, <3>2, Zenon
  <2>2. Greeting(d, CloseFrame)
    BY Zenon DEF Greeting
  <2>3. /\ metadata'[d] = metadata[d]
        /\ outbound'[d] = IF d \in {item.effect.to} \cap registered
                         THEN Append(outbound[d], CloseFrame) ELSE outbound[d]
    BY <1>10, <2>1, Zenon
  <2> QED
    BY <1>14, <1>9, <2>2, <2>3, Zenon
<1> QED
  BY <1>3, <1>11, <1>12, <1>13, <1>14, Zenon

\* A task or a workflow's post applies its next effect.
LEMMA Applies ==
  ASSUME GatewayInv, TypeInv', NEW t \in Conns \cup Posters, ApplyOne(t)
  PROVE  GatewayInv'
<1> DEFINE Item == [effect: SocketEffect, by: EventId]
<1>1. /\ effects \in [Conns \cup Posters -> Seq(Item)] /\ effects[t] # <<>>
      /\ effects' = [effects EXCEPT ![t] = Tail(@)] /\ outbound \in [Conns -> Seq(Frame)]
      /\ UNCHANGED <<task, event, taken, registered, open, committed, late, heard, sunk>>
      /\ committed \subseteq Commit
  BY Zenon DEF GatewayInv, TypeInv, TypeOK, ApplyOne
<1> HIDE DEF Item
<1>2. /\ effects'[t] = Tail(effects[t]) /\ effects[t] \in Seq(Item)
      /\ \A d \in (Conns \cup Posters) \ {t} : effects'[d] = effects[d]
  BY <1>1, Zenon
<1>3. PICK item : item = Head(effects[t])
  BY Zenon
<1>4. IsNext(t, item)
  BY <1>1, <1>3, Zenon DEF IsNext
<1>5. /\ \A i \in DOMAIN effects'[t] : \E j \in DOMAIN effects[t] : effects'[t][i] = effects[t][j]
      /\ \A i \in DOMAIN effects[t] :
            \/ effects[t][i] = item
            \/ \E j \in DOMAIN effects'[t] : effects'[t][j] = effects[t][i]
      /\ 1 \in DOMAIN effects[t] /\ effects[t][1] = item
  <2>1. \A i \in DOMAIN Tail(effects[t]) :
            i + 1 \in DOMAIN effects[t] /\ Tail(effects[t])[i] = effects[t][i + 1]
    BY <1>1, <1>2, SMT
  <2>2. 1 \in DOMAIN effects[t] /\ effects[t][1] = item
    BY <1>1, <1>2, <1>3, SMT
  <2>3. ASSUME NEW i \in DOMAIN effects[t], i # 1
        PROVE  \E j \in DOMAIN Tail(effects[t]) : Tail(effects[t])[j] = effects[t][i]
    <3>1. i - 1 \in DOMAIN Tail(effects[t]) /\ Tail(effects[t])[i - 1] = effects[t][i]
      BY <1>1, <1>2, <2>3, SMT
    <3> QED
      BY <3>1, Zenon
  <2> QED
    BY <1>2, <2>1, <2>2, <2>3, Zenon
<1>8. CommitInv'
  <2>1. \A e : Reached(e)' <=> Reached(e)
    BY <1>1, Zenon DEF Reached
  <2>2. \A d : HasConnected(d)' <=> HasConnected(d)
    BY <1>1, Zenon DEF HasConnected
  <2>3. CommitInv
    BY Zenon DEF GatewayInv
  <2>4. EventsOnce' /\ SinkExact'
    BY <1>1, <2>3, Zenon DEF CommitInv, EventsOnce, SinkExact
  <2> QED
    BY <1>1, <2>1, <2>2, <2>3, <2>4, Zenon DEF CommitInv
<1>9. /\ \A d : Past(d)' <=> Past(d)
      /\ \A d : HasConnected(d)' <=> HasConnected(d)
      /\ \A d : Welcomed(d)' <=> Welcomed(d)
      /\ \A d : Setting(d)' = Setting(d)
      /\ \A d : OwnSettings(d)' <=> OwnSettings(d)
  BY <1>1, Zenon DEF Past, HasConnected, Welcomed, Setting, OwnSettings
<1>10. ASSUME NEW d \in Conns
       PROVE  ConnInv(d)'
  <2>1. /\ \/ outbound'[d] = outbound[d]
           \/ /\ d \in registered
              /\ \E f \in Frame : /\ outbound'[d] = Append(outbound[d], f)
                                  /\ d \in open \/ Greeting(d, f)
        /\ \/ metadata'[d] = metadata[d]
           \/ /\ d \in registered /\ t \in Conns /\ metadata'[d] = Current(t)
              /\ item.effect.type = "metadata" /\ item.effect.to = d
              /\ \E x \in committed : x.event = Current(t) /\ d \in x.sets
        /\ d \in registered /\ item.effect.to = d =>
              /\ item.effect.type \in {"send", "reject"} =>
                    \E f \in Frame : outbound'[d] = Append(outbound[d], f)
              /\ item.effect.type = "metadata" => metadata'[d] = Current(t)
    BY <1>4, Delivered, Zenon
  <2>2. ConnInv(d) /\ outbound[d] \in Seq(Frame)
    BY <1>1, Zenon DEF GatewayInv
  <2>3. effects'[d] # <<>> => effects[d] # <<>>
    BY <1>1, <1>2, Zenon
  <2>4. Current(d)' = Current(d) /\ (\A s : In(d, s)' <=> In(d, s))
    BY <1>1, Zenon DEF Current, In
  <2>5. Lifecycle(d)'
    <3>1. d \notin registered => outbound'[d] = outbound[d] /\ metadata'[d] = metadata[d]
      BY <2>1, Zenon
    <3>2. outbound[d] # <<>> => outbound'[d] # <<>>
      <4>1. \A f \in Frame : Append(outbound[d], f) # <<>>
        BY <2>2, SMT
      <4> QED
        BY <2>1, <4>1, Zenon
    <3> QED
      BY <1>1, <2>2, <2>3, <2>4, <3>1, <3>2, Zenon DEF ConnInv, Lifecycle
  <2>6. Known(d)'
    BY <1>1, <1>9, <2>2, <2>4, Zenon DEF ConnInv, Known
  <2>7. AllPending(d)'
    <3>1. \A i \in DOMAIN effects'[d] : \E j \in DOMAIN effects[d] : effects'[d][i] = effects[d][j]
      <4>1. CASE d = t
        BY <1>5, <4>1, Zenon
      <4>2. CASE d # t
        BY <1>2, <4>2, Zenon
      <4> QED
        BY <4>1, <4>2, Zenon
    <3>2. ASSUME NEW it, Pending(d, it)
          PROVE  Pending(d, it)'
      BY <1>1, <1>9, <2>4, <3>2, Zenon DEF Pending
    <3>3. ASSUME NEW i \in DOMAIN effects'[d]
          PROVE  Pending(d, effects[d][i])'
      <4>1. PICK j \in DOMAIN effects[d] : effects'[d][i] = effects[d][j]
        BY <3>1, Zenon
      <4>2. PICK it : it = effects'[d][i]
        BY Zenon
      <4>3. Pending(d, it)
        BY <2>2, <4>1, <4>2, Zenon DEF ConnInv, AllPending
      <4>4. Pending(d, it)'
        BY <3>2, <4>3, Zenon
      <4> QED
        BY <4>2, <4>4, Zenon
    <3> QED
      BY <3>3, Zenon DEF AllPending
  <2>8. Greeted(d)'
    <3>1. \A f : Greeting(d, f)' <=> Greeting(d, f)
      BY <1>9, Zenon DEF Greeting, ConnectOf
    <3>2. ASSUME d \in registered, heard[d] = NoEvent
          PROVE  /\ outbound'[d] # <<>> => Greeting(d, Head(outbound'[d]))
                 /\ d \in open => outbound'[d] # <<>>
                 /\ outbound[d] # <<>> => outbound'[d] # <<>>
      <4>1. /\ outbound[d] # <<>> => Greeting(d, Head(outbound[d]))
            /\ d \in open => outbound[d] # <<>>
        BY <2>2, <3>2, Zenon DEF ConnInv, Greeted
      <4>2. CASE outbound'[d] = outbound[d]
        BY <4>1, <4>2, Zenon
      <4>3. CASE outbound'[d] # outbound[d]
        <5>1. PICK f \in Frame :
                outbound'[d] = Append(outbound[d], f) /\ (d \in open \/ Greeting(d, f))
          BY <2>1, <4>3, Zenon
        <5>2. outbound'[d] # <<>>
          BY <2>2, <5>1, SMT
        <5>3. outbound[d] = <<>> => Head(outbound'[d]) = f
          BY <5>1, SMT
        <5>4. outbound[d] # <<>> => Head(outbound'[d]) = Head(outbound[d])
          <6>1. Head(outbound'[d]) = outbound'[d][1]
            BY <2>2, <5>1, SMT
          <6>2. outbound[d] # <<>> =>
                  1 \in 1 .. Len(outbound[d]) /\ Head(outbound[d]) = outbound[d][1]
            BY <2>2, SMT
          <6>3. \A i \in 1 .. Len(outbound[d]) : outbound'[d][i] = outbound[d][i]
            BY <2>2, <5>1, SMT
          <6> QED
            BY <6>1, <6>2, <6>3, Zenon
        <5> QED
          BY <4>1, <5>2, <5>3, <5>4, <5>1, Zenon
      <4> QED
        BY <4>2, <4>3, Zenon
    <3>3. ASSUME d \in registered, heard[d] = NoEvent, In(d, "apply"), event[d].kind = "connect"
          PROVE  outbound'[d] # <<>> \/ OwnAhead(d)'
      <4>1. outbound[d] # <<>> \/ OwnAhead(d)
        BY <2>2, <3>3, Zenon DEF ConnInv, Greeted
      <4>2. CASE outbound[d] # <<>>
        BY <3>2, <3>3, <4>2, Zenon
      <4>3. CASE OwnAhead(d) /\ d # t
        BY <1>2, <4>3, Zenon DEF OwnAhead
      <4>4. CASE OwnAhead(d) /\ d = t
        <5>1. PICK i \in DOMAIN effects[t] :
                effects[t][i].effect.to = d /\ effects[t][i].effect.type \in {"send", "reject"}
          BY <4>4, Zenon DEF OwnAhead
        <5>2. CASE effects[t][i] = item
          <6>1. PICK f : outbound'[d] = Append(outbound[d], f)
            BY <2>1, <3>3, <5>1, <5>2, Zenon
          <6> QED
            BY <2>2, <6>1, SMT
        <5>3. CASE effects[t][i] # item
          <6>1. PICK j \in DOMAIN effects'[t] : effects'[t][j] = effects[t][i]
            BY <1>5, <5>3, Zenon
          <6> QED
            BY <4>4, <5>1, <6>1, Zenon DEF OwnAhead
        <5> QED
          BY <5>2, <5>3, Zenon
      <4> QED
        BY <4>1, <4>2, <4>3, <4>4, Zenon
    <3>4. heard[d] # NoEvent => heard[d] = ConnectOf(d) /\ Welcomed(d)
      BY <2>2, Zenon DEF ConnInv, Greeted
    <3> QED
      BY <1>1, <1>9, <2>4, <3>1, <3>2, <3>3, <3>4, Zenon DEF Greeted, ConnectOf
  <2>9. Tracked(d)'
    <3>1. \A S, e : IsLast(S, e)' <=> IsLast(S, e)
      BY Zenon DEF IsLast, Rank
    <3>2. ASSUME OwnSettings(d), d \in registered
          PROVE  IsLast(Setting(d), IF SetsOwn(d)' THEN Current(d) ELSE metadata'[d])
      <4>1. IsLast(Setting(d), IF SetsOwn(d) THEN Current(d) ELSE metadata[d])
        BY <2>2, <3>2, Zenon DEF ConnInv, Tracked
      <4>2. CASE d # t
        <5>1. SetsOwn(d)' <=> SetsOwn(d)
          BY <1>2, <4>2, Zenon DEF SetsOwn
        <5>2. metadata'[d] = metadata[d]
          <6>1. \A x \in committed : x.event = Current(t) => x.event.conn = t
            BY EventTyped DEF Current
          <6> QED
            BY <2>1, <3>2, <4>2, <6>1, Zenon DEF OwnSettings, Setting
        <5> QED
          BY <4>1, <5>1, <5>2, Zenon
      <4>3. ASSUME d = t, item.effect.type = "metadata", item.effect.to = d
            PROVE  IsLast(Setting(d), IF SetsOwn(d)' THEN Current(d) ELSE metadata'[d])
        <5>1. SetsOwn(d) /\ metadata'[d] = Current(d)
          BY <1>5, <2>1, <3>2, <4>3, Zenon DEF SetsOwn
        <5> QED
          BY <4>1, <5>1, Zenon
      <4>4. ASSUME d = t, ~(item.effect.type = "metadata" /\ item.effect.to = d)
            PROVE  IsLast(Setting(d), IF SetsOwn(d)' THEN Current(d) ELSE metadata'[d])
        <5>1. metadata'[d] = metadata[d]
          BY <2>1, <4>4, Zenon
        <5>2. SetsOwn(d)' <=> SetsOwn(d)
          <6>1. ASSUME NEW i \in DOMAIN effects'[t], effects'[t][i].effect.type = "metadata",
                       effects'[t][i].effect.to = t
                PROVE  SetsOwn(t)
            <7>1. PICK j \in DOMAIN effects[t] : effects'[t][i] = effects[t][j]
              BY <1>5, Zenon
            <7> QED
              BY <6>1, <7>1, Zenon DEF SetsOwn
          <6>2. ASSUME NEW i \in DOMAIN effects[t], effects[t][i].effect.type = "metadata",
                       effects[t][i].effect.to = t
                PROVE  SetsOwn(t)'
            <7>1. effects[t][i] # item
              BY <4>4, <6>2, Zenon
            <7>2. PICK j \in DOMAIN effects'[t] : effects'[t][j] = effects[t][i]
              BY <1>5, <7>1, Zenon
            <7> QED
              BY <6>2, <7>2, Zenon DEF SetsOwn
          <6> QED
            BY <4>4, <6>1, <6>2, Zenon DEF SetsOwn
        <5> QED
          BY <4>1, <5>1, <5>2, Zenon
      <4> QED
        BY <4>2, <4>3, <4>4, Zenon
    <3> QED
      BY <1>1, <1>9, <2>2, <2>4, <3>1, <3>2, Zenon DEF ConnInv, Tracked
  <2> QED
    BY <2>5, <2>6, <2>7, <2>8, <2>9, Zenon DEF ConnInv
<1>11. ASSUME NEW p \in Posters
       PROVE  PosterInv(p)'
  <2>1. PosterInv(p)
    BY Zenon DEF GatewayInv
  <2>2. CASE p = t
    <3>1. ASSUME NEW i \in DOMAIN effects'[t]
          PROVE  effects'[t][i].effect.type = "broadcast"
      <4>1. PICK j \in DOMAIN effects[t] : effects'[t][i] = effects[t][j]
        BY <1>5, Zenon
      <4>2. effects[t][j].effect.type = "broadcast"
        BY <2>1, <2>2, Zenon DEF PosterInv
      <4> QED
        BY <4>1, <4>2, Zenon
    <3> QED
      BY <2>2, <3>1, Zenon DEF PosterInv
  <2>3. CASE p # t
    BY <1>2, <2>1, <2>3, Zenon DEF PosterInv
  <2> QED
    BY <2>2, <2>3, Zenon
<1> QED
  BY <1>8, <1>10, <1>11, Zenon DEF GatewayInv

\* A call that was given up takes effect after all.
LEMMA TakesEffectLate ==
  ASSUME GatewayInv, TypeInv', NEW call \in late, NEW produced, LateCommit(call, produced)
  PROVE  GatewayInv'
<1> USE DEF registry
<1>1. /\ UNCHANGED <<task, event, taken, registered, open, metadata>>
      /\ UNCHANGED <<outbound, effects, heard, sunk>>
      /\ late' = late \ {call} /\ Commits(call.event, TRUE, produced) /\ TypeInv /\ CommitInv
  BY Zenon DEF LateCommit, GatewayInv
<1>2. PICK x : committed' = committed \cup {x} /\ x.event = call.event /\ x.late
  <2> DEFINE rejected == \E effect \in Range(produced) : effect.type = "reject"
             sets == {effect.to : effect \in {y \in Range(produced) : y.type = "metadata"}}
             z == [event |-> call.event, late |-> TRUE, rejected |-> rejected, sets |-> sets]
  <2>1. committed' = committed \cup {z}
    BY <1>1, Zenon DEF Commits
  <2> HIDE DEF rejected, sets
  <2>2. z.event = call.event /\ z.late
    BY Zenon
  <2> HIDE DEF z
  <2> QED
    BY <2>1, <2>2, Zenon
<1>3. CommitInv'
  <2>1. \A f : Reached(f)' <=> Reached(f)
    BY <1>1, Zenon DEF Reached
  <2>2. \A d : HasConnected(d) => HasConnected(d)'
    BY <1>2, KnownStays, Zenon
  <2>3. Reached(call.event) /\ \A y \in committed : y.event # call.event
    BY <1>1, Zenon DEF CommitInv
  <2>4. EventsOnce'
    BY <1>1, <1>2, <2>3, Zenon DEF CommitInv, EventsOnce
  <2>5. SinkExact'
    BY <1>1, <1>2, Zenon DEF CommitInv, SinkExact
  <2>6. \A y \in committed' : Reached(y.event)'
    BY <1>1, <1>2, <2>1, <2>3, Zenon DEF CommitInv
  <2>7. ASSUME NEW other \in late'
        PROVE  /\ Reached(other.event)' /\ \A y \in committed' : y.event # other.event
               /\ \A third \in late' : third.event = other.event => third = other
               /\ other.event.kind # "connect" => HasConnected(other.event.conn)'
    <3>1. other \in late /\ other # call
      BY <1>1, Zenon
    <3>2. other.event # call.event
      BY <1>1, <3>1, Zenon DEF CommitInv
    <3> QED
      BY <1>1, <1>2, <2>1, <2>2, <3>1, <3>2, Zenon DEF CommitInv
  <2> QED
    BY <2>4, <2>5, <2>6, <2>7, Zenon DEF CommitInv
<1>4. ASSUME NEW d \in Conns
      PROVE  ConnInv(d)'
  <2>1. Same(d) /\ ConnInv(d) /\ \A b \in Conns : Past(b) => Past(b)'
    BY <1>1, Zenon DEF Same, Past, GatewayInv
  <2>2. (OwnSettings(d)' => Setting(d)' = Setting(d)) /\ committed \subseteq committed'
    BY <1>2, Zenon DEF OwnSettings, Setting
  <2>3. event[d] \in SocketEvent
    BY <1>1, Zenon DEF TypeInv, TypeOK
  <2>4. event[d].catalog \subseteq Conns
    BY <2>3, Zenon DEF SocketEvent
  <2> QED
    BY <2>1, <2>2, <2>4, LeftAlone, Zenon
<1>5. \A p \in Posters : PosterInv(p)'
  BY <1>1, Zenon DEF GatewayInv, PosterInv
<1> QED
  BY <1>3, <1>4, <1>5, Zenon DEF GatewayInv
-----------------------------------------------------------------------------
(* The results.                                                             *)

\* The invariant holds initially ...
LEMMA InitInv ==
  ASSUME Init
  PROVE  GatewayInv
<1>1. TypeInv
  <2>1. \A p \in Posters : Posted(p) \in Seq([effect: SocketEffect, by: EventId])
    <3>1. \A p \in Posters : Event(p, "call", 0) \in EventId
      BY EventTyped, Zenon
    <3>2. [type |-> "broadcast", to |-> NoConn] \in SocketEffect
      BY Zenon DEF SocketEffect
    <3> DEFINE note == [type |-> "broadcast", to |-> NoConn]
               Item == [effect: SocketEffect, by: EventId]
    <3>3. \A p \in Posters : [effect |-> note, by |-> Event(p, "call", 0)] \in Item
      BY <3>1, <3>2, Zenon
    <3> HIDE DEF Item
    <3>4. \A p \in Posters : Posted(p) \in Seq(Item)
      BY <3>3, SMT DEF Posted
    <3> QED
      BY <3>4, Zenon DEF Item
  <2>2. effects \in [Conns \cup Posters -> Seq([effect: SocketEffect, by: EventId])]
    <3> DEFINE Item == [effect: SocketEffect, by: EventId]
    <3>1. \A p \in Posters : Posted(p) \in Seq(Item)
      BY <2>1, Zenon
    <3> HIDE DEF Item
    <3>2. effects \in [Conns \cup Posters -> Seq(Item)]
      BY <3>1, SMT DEF Init
    <3> QED
      BY <3>2, Zenon DEF Item
  <2>3. /\ IsFiniteSet(registered) /\ Cardinality(registered) = 0
    BY FS_EmptySet, Zenon DEF Init
  <2>4. Cardinality(registered) <= Limit
    BY <2>3, LimitAssumption, SMT
  <2>5. /\ task \in [Conns -> Tasks] /\ event \in [Conns -> SocketEvent] /\ taken \in [Conns -> Nat]
    BY SomeEventTyped, Zenon DEF Init, Tasks
  <2>6. /\ metadata \in [Conns -> EventId \cup {NoEvent}] /\ outbound \in [Conns -> Seq(Frame)]
        /\ heard \in [Conns -> EventId \cup {NoEvent}]
    BY SMT DEF Init
  <2>7. registered \subseteq Conns /\ open \subseteq registered /\ committed = {} /\ late = {} /\ sunk = {}
    BY Zenon DEF Init
  <2> QED
    BY <2>2, <2>3, <2>4, <2>5, <2>6, <2>7, Zenon DEF TypeInv, TypeOK
<1>2. CommitInv
  BY Zenon DEF Init, CommitInv, EventsOnce, SinkExact
<1>3. ASSUME NEW c \in Conns
      PROVE  ConnInv(c)
  <2>1. /\ task[c] = "new" /\ taken[c] = 0 /\ registered = {} /\ open = {} /\ metadata[c] = NoEvent
        /\ outbound[c] = <<>> /\ heard[c] = NoEvent /\ effects[c] = <<>>
    BY ConnsAssumption, Zenon DEF Init
  <2>2. MaxMessages[c] \in Nat
    BY LimitAssumption, Zenon
  <2>3. Lifecycle(c)
    BY <2>1, <2>2, SMT DEF Lifecycle
  <2>4. Known(c)
    BY <2>1, Zenon DEF Known, Past, In
  <2>5. AllPending(c)
    BY <2>1, SMT DEF AllPending
  <2>6. Greeted(c)
    BY <2>1, Zenon DEF Greeted
  <2>7. Tracked(c)
    BY <2>1, Zenon DEF Tracked
  <2> QED
    BY <2>3, <2>4, <2>5, <2>6, <2>7, Zenon DEF ConnInv
<1>4. ASSUME NEW p \in Posters
      PROVE  PosterInv(p)
  BY SMT DEF Init, PosterInv, Posted
<1> QED
  BY <1>1, <1>2, <1>3, <1>4, Zenon DEF GatewayInv

\* ... and every step keeps it.
LEMMA NextInv ==
  ASSUME GatewayInv, [Next]_vars
  PROVE  GatewayInv'
<1>1. CASE Next
  <2>1. TypeInv'
    BY <1>1, Types, Zenon DEF GatewayInv, ConnInv, Lifecycle
  <2>2. ASSUME NEW c \in Conns, TaskStep(c) \/ ClientStep(c)
        PROVE  GatewayInv'
    BY <2>1, <2>2, Enters, Loops, Dispatches, Fails, Completes, Applies, Zenon
    DEF TaskStep, ClientStep, CallEnds
  <2> QED
    BY <1>1, <2>1, <2>2, Applies, TakesEffectLate, Zenon DEF Next, HostStep
<1>2. CASE UNCHANGED vars
  <2>1. /\ UNCHANGED <<task, event, taken, registered, open, metadata, outbound>>
        /\ UNCHANGED <<effects, committed, late, heard, sunk>>
    BY <1>2, Zenon DEF vars, registry
  <2>2. TypeInv'
    BY <2>1, Zenon DEF GatewayInv, TypeInv, TypeOK
  <2>3. CommitInv'
    <3>1. \A e : Reached(e)' <=> Reached(e)
      BY <2>1, Zenon DEF Reached
    <3>2. \A d : HasConnected(d)' <=> HasConnected(d)
      BY <2>1, Zenon DEF HasConnected
    <3>3. CommitInv /\ EventsOnce' /\ SinkExact'
      BY <2>1, Zenon DEF GatewayInv, CommitInv, EventsOnce, SinkExact
    <3> QED
      BY <2>1, <3>1, <3>2, <3>3, Zenon DEF CommitInv
  <2>4. ASSUME NEW d \in Conns
        PROVE  ConnInv(d)'
    <3>1. Same(d) /\ ConnInv(d) /\ \A b \in Conns : Past(b) => Past(b)'
      BY <2>1, Zenon DEF Same, Past, GatewayInv
    <3>2. Setting(d)' = Setting(d) /\ committed \subseteq committed' /\ event[d] \in SocketEvent
      BY <2>1, Zenon DEF Setting, GatewayInv, TypeInv, TypeOK
    <3>3. event[d].catalog \subseteq Conns
      BY <3>2, Zenon DEF SocketEvent
    <3> QED
      BY <3>1, <3>2, <3>3, LeftAlone, Zenon
  <2>5. \A p \in Posters : PosterInv(p)'
    BY <2>1, Zenon DEF GatewayInv, PosterInv
  <2> QED
    BY <2>2, <2>3, <2>4, <2>5, Zenon DEF GatewayInv
<1> QED
  BY <1>1, <1>2, Zenon

\* The gateway, the actor's commits and every connection stay consistent.
THEOREM GatewaySafety == Spec => []GatewayInv
<1>1. Init => GatewayInv
  BY InitInv, Zenon
<1>2. GatewayInv /\ [Next]_vars => GatewayInv'
  BY NextInv, Zenon
<1> QED
  BY <1>1, <1>2, PTL DEF Spec

\* The variables have their types, and the registry never holds more than Limit
\* connections (ConnectionRegistry::insert).
THEOREM TypeCorrect == Spec => []TypeOK
<1>1. GatewayInv => TypeOK
  BY Zenon DEF GatewayInv, TypeInv
<1> QED
  BY <1>1, GatewaySafety, PTL

\* The actor takes no lifecycle event twice, whatever calls are lost
\* (dispatch_socket_event).
THEOREM TakenOnce == Spec => []EventsOnce
<1>1. GatewayInv => EventsOnce
  BY Zenon DEF GatewayInv, CommitInv
<1> QED
  BY <1>1, GatewaySafety, PTL

\* An event shows the actor only connections whose connect it has committed, and
\* its own (prepare_event).
THEOREM ShownAccepted == Spec => []CatalogAccepted
<1>1. GatewayInv => CatalogAccepted
  BY Zenon DEF GatewayInv, ConnInv, Known, CatalogAccepted
<1> QED
  BY <1>1, GatewaySafety, PTL

\* The first thing a client hears is from its own connect, which the actor has
\* committed and answered, whatever broadcasts and sends of other connections go on
\* (dispatch, activate).
THEOREM HearsOwnConnectFirst == Spec => []SnapshotFirst
<1>1. GatewayInv => SnapshotFirst
  <2> SUFFICES ASSUME GatewayInv, NEW c \in Conns, heard[c] # NoEvent
               PROVE  /\ heard[c] = Event(c, "connect", 0)
                      /\ \E x \in committed : x.event = heard[c] /\ ~x.late
    BY Zenon DEF SnapshotFirst
  <2>1. heard[c] = ConnectOf(c) /\ Welcomed(c)
    BY Zenon DEF GatewayInv, ConnInv, Greeted
  <2> QED
    BY <2>1, Zenon DEF ConnectOf, Welcomed
<1> QED
  BY <1>1, GatewaySafety, PTL

\* A connection that holds a place in the registry has a live task, and one that
\* is in its loop is open (run_connection).
THEOREM RegisteredAlive == Spec => []EndedUnregistered
<1>1. GatewayInv => EndedUnregistered
  <2> SUFFICES ASSUME GatewayInv, NEW c \in registered
               PROVE  task[c] \in {"event", "loop", "sending"} /\ (task[c] # "event" => c \in open)
    BY Zenon DEF EndedUnregistered
  <2>1. c \in Conns /\ task[c] \in Tasks
    BY Zenon DEF GatewayInv, TypeInv, TypeOK
  <2>2. Lifecycle(c)
    BY <2>1, Zenon DEF GatewayInv, ConnInv
  <2> QED
    BY <2>1, <2>2, Zenon DEF Lifecycle, Tasks
<1> QED
  BY <1>1, GatewaySafety, PTL

\* The event sink gets only messages the actor has committed, with the trigger of
\* their connection (deliver_socket_message_event).
THEOREM SunkCommitted == Spec => []SinkExact
<1>1. GatewayInv => SinkExact
  BY Zenon DEF GatewayInv, CommitInv
<1> QED
  BY <1>1, GatewaySafety, PTL

\* The events of one connection that have been dispatched are told apart by
\* their rank, so the last one is unique.
LEMMA LastUnique ==
  ASSUME GatewayInv, NEW c \in Conns, OwnSettings(c), NEW e, IsLast(Setting(c), e)
  PROVE  LastEvent(Setting(c)) = e
<1>1. taken[c] \in Nat /\ taken[c] <= MaxMessages[c] /\ MaxMessages[c] \in Nat
  BY LimitAssumption, Zenon DEF GatewayInv, TypeInv, TypeOK, ConnInv, Lifecycle
<1>2. committed \subseteq Commit
  BY Zenon DEF GatewayInv, TypeInv, TypeOK
<1>3. \A x \in Setting(c) : x.event \in EventId /\ x.event.conn = c /\ Reached(x.event)
  <2>1. \A x \in committed : x.event \in EventId
    BY <1>2, Zenon DEF Commit
  <2> QED
    BY <2>1, Zenon DEF Setting, OwnSettings, GatewayInv, CommitInv
<1>4. ASSUME NEW f \in EventId, f.conn = c, Reached(f)
      PROVE  \/ f.kind = "connect" /\ f.number = 0 /\ Rank(f) = 0
             \/ f.kind = "message" /\ 1 <= f.number /\ f.number <= MaxMessages[c] /\ Rank(f) = f.number
             \/ f.kind = "disconnect" /\ f.number = 0 /\ Rank(f) = MaxMessages[c] + 1
  <2>1. f.number \in Nat
    BY Zenon DEF EventId
  <2> QED
    BY <1>1, <1>4, <2>1, SMT DEF Reached, Rank
<1>5. ASSUME NEW f \in EventId, f.conn = c, Reached(f), NEW g \in EventId, g.conn = c, Reached(g),
             Rank(f) <= Rank(g), Rank(g) <= Rank(f)
      PROVE  f = g
  <2>1. f.number \in Nat /\ g.number \in Nat
    BY Zenon DEF EventId
  <2>2. f.kind = g.kind /\ f.number = g.number
    <3>1. \/ f.kind = "connect" /\ f.number = 0 /\ Rank(f) = 0
          \/ f.kind = "message" /\ 1 <= f.number /\ f.number <= MaxMessages[c] /\ Rank(f) = f.number
          \/ f.kind = "disconnect" /\ f.number = 0 /\ Rank(f) = MaxMessages[c] + 1
      BY <1>4, <1>5, Zenon
    <3>2. \/ g.kind = "connect" /\ g.number = 0 /\ Rank(g) = 0
          \/ g.kind = "message" /\ 1 <= g.number /\ g.number <= MaxMessages[c] /\ Rank(g) = g.number
          \/ g.kind = "disconnect" /\ g.number = 0 /\ Rank(g) = MaxMessages[c] + 1
      BY <1>4, <1>5, Zenon
    <3> QED
      BY <1>1, <1>5, <2>1, <3>1, <3>2, SMT
  <2> QED
    BY <1>5, <2>2, SMT DEF EventId
<1>6. CASE Setting(c) = {}
  BY <1>6, Zenon DEF IsLast, LastEvent
<1>7. CASE Setting(c) # {}
  <2>1. PICK x \in Setting(c) : x.event = e /\ \A y \in Setting(c) : Rank(y.event) <= Rank(x.event)
    BY <1>7, Zenon DEF IsLast
  <2> DEFINE z == CHOOSE y \in Setting(c) : \A w \in Setting(c) : Rank(w.event) <= Rank(y.event)
  <2>2. z \in Setting(c) /\ \A w \in Setting(c) : Rank(w.event) <= Rank(z.event)
    BY <2>1, Zenon
  <2>3. LastEvent(Setting(c)) = z.event
    BY <1>7, Zenon DEF LastEvent
  <2> HIDE DEF z
  <2>4. z.event = x.event
    BY <1>3, <1>5, <2>1, <2>2, Zenon
  <2> QED
    BY <2>1, <2>3, <2>4, Zenon
<1> QED
  BY <1>6, <1>7, Zenon

\* As long as only its own events, none of them late, set the metadata of a
\* connection, the gateway has the latest of it in the loop and in the disconnect
\* (apply_one, remove).
THEOREM MetadataFollows == Spec => []MetadataCurrent
<1>1. GatewayInv => MetadataCurrent
  <2> SUFFICES ASSUME GatewayInv, NEW c \in Conns, OwnSettings(c)
               PROVE  /\ task[c] \in {"loop", "sending"} => metadata[c] = LastEvent(Setting(c))
                      /\ task[c] = "event" /\ event[c].kind = "disconnect"
                           /\ event[c].stage \in {"removed", "sent"}
                             => event[c].metadata = LastEvent(Setting(c))
    BY Zenon DEF MetadataCurrent, OwnSettings
  <2>1. ConnInv(c) /\ open \subseteq registered
    BY Zenon DEF GatewayInv, TypeInv, TypeOK
  <2>2. task[c] \in {"loop", "sending"} => IsLast(Setting(c), metadata[c])
    <3>1. task[c] \in {"loop", "sending"} => c \in registered /\ effects[c] = <<>>
      BY <2>1, Zenon DEF ConnInv, Lifecycle, In
    <3>2. effects[c] = <<>> => ~SetsOwn(c)
      BY SMT DEF SetsOwn
    <3> QED
      BY <2>1, <3>1, <3>2, Zenon DEF ConnInv, Tracked
  <2>3. task[c] = "event" /\ event[c].kind = "disconnect" /\ event[c].stage \in {"removed", "sent"}
          => IsLast(Setting(c), event[c].metadata)
    BY <2>1, Zenon DEF ConnInv, Tracked
  <2> QED
    BY <2>2, <2>3, LastUnique, Zenon
<1> QED
  BY <1>1, GatewaySafety, PTL

\* The actor commits the events of a connection in order, and nothing of it before
\* its connect (run_connection).
THEOREM CommitsInOrder == Spec => LifecycleOrder
<1> DEFINE InOrder ==
             \A y \in committed' \ committed :
                /\ \A x \in committed :
                      x.event.conn = y.event.conn /\ ~x.late /\ ~y.late => Rank(x.event) < Rank(y.event)
                /\ y.event.kind \in {"message", "disconnect"} => HasConnected(y.event.conn)
<1>1. ASSUME GatewayInv, Next
      PROVE  InOrder
  <2>1. ASSUME NEW c \in Conns, NEW produced, Completed(c, produced)
        PROVE  InOrder
    <3>1. TypeInv /\ ConnInv(c) /\ In(c, "sent") /\ CommitInv /\ committed \subseteq Commit
      BY <1>1, <2>1, Zenon DEF GatewayInv, Completed, TypeInv, TypeOK
    <3>2. \A y \in committed' \ committed : y.event = Current(c)
      BY <2>1 DEF Completed, Commits
    <3>3. Current(c).conn = c /\ Current(c).kind = event[c].kind
      BY EventTyped DEF Current
    <3>4. event[c].kind \in {"message", "disconnect"} => HasConnected(c)
      BY <3>1, Zenon DEF ConnInv, Known, Past, In
    <3>5. \A x \in committed : x.event \in EventId /\ Reached(x.event)
      BY <3>1, Zenon DEF CommitInv, Commit
    <3>6. \A x \in committed : x.event.conn = c => Rank(x.event) < Rank(Current(c))
      BY <3>1, <3>5, RankBefore, Zenon
    <3> QED
      BY <3>2, <3>3, <3>4, <3>6, Zenon
  <2>2. ASSUME NEW call \in late, NEW produced, LateCommit(call, produced)
        PROVE  InOrder
    <3>1. call.event.kind # "connect" => HasConnected(call.event.conn)
      BY <1>1, Zenon DEF GatewayInv, CommitInv
    <3>2. \A y \in committed' \ committed : y.event = call.event /\ y.late
      BY <2>2 DEF LateCommit, Commits
    <3> QED
      BY <3>1, <3>2, Zenon
  <2>3. CASE committed' = committed
    BY <2>3, Zenon
  <2>4. \/ \E c \in Conns : \E produced : Completed(c, produced)
        \/ \E call \in late : \E produced : LateCommit(call, produced)
        \/ committed' = committed
    BY <1>1, Zenon
    DEF Next, TaskStep, ClientStep, HostStep, CallEnds, PrepareDisconnect, NotExecuted, CallLost,
        ApplyOne, Connected, MessageDone, Disconnected, TakeOutbound, Sent, Register, NotRegistered,
        TakeInbound, ClientLeft
  <2> QED
    BY <2>1, <2>2, <2>3, <2>4, Zenon
<1>2. GatewayInv /\ [Next]_vars => [InOrder]_vars
  BY <1>1, Zenon
<1>3. LifecycleOrder <=> [][InOrder]_vars
  BY Zenon DEF LifecycleOrder
<1> HIDE DEF InOrder
<1> QED
  BY <1>2, <1>3, GatewaySafety, PTL DEF Spec
=============================================================================
