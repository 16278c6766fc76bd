-------------------- MODULE DurableActorTypes_proofs --------------------
(***************************************************************************)
(* Every step of DurableActor keeps the types, and the facts about single    *)
(* definitions that the other proofs share.                                  *)
(***************************************************************************)
EXTENDS DurableActor, TLAPS

-----------------------------------------------------------------------------
(* Facts about single definitions.                                           *)

\* An uploaded snapshot has the fields of StateSnapshot (state_log.rs).
LEMMA StoreType ==
  ASSUME TypeOK, NEW o \in 1..Len(store)
  PROVE  /\ store[o] \in Snapshot
         /\ store[o].version \in Nat /\ store[o].epoch \in Nat
         /\ store[o].request \in Requests /\ store[o].state \in ActorState
<1>1. store[o] \in Snapshot
  BY DEF TypeOK
<1>2. QED
  BY <1>1, Zenon DEF Snapshot

\* The fields of a host's cache entry.
LEMMA CacheType ==
  ASSUME TypeOK, NEW h \in Hosts
  PROVE  /\ cache[h] \in CachedActorState
         /\ cache[h].epoch \in Nat /\ cache[h].version \in Nat
         /\ cache[h].state \in ActorState /\ cache[h].pending \in Nat
         /\ cache[h].request \in Requests \cup {NoRequest}
         /\ cache[h].next_write \in Nat
  BY Zenon DEF TypeOK, CachedActorState

\* The fields of the invocation that holds a host's execution gate.
LEMMA InvType ==
  ASSUME TypeOK, NEW h \in Hosts
  PROVE  /\ inv[h] \in Invocation /\ inv[h].phase \in Phases
         /\ inv[h].request \in Requests \cup {NoRequest}
         /\ inv[h].next \in ActorState
  BY Zenon DEF TypeOK, Invocation

\* Changing a number in a cache entry leaves a cache entry.
LEMMA EntryChanged ==
  ASSUME NEW entry \in CachedActorState, NEW n \in Nat
  PROVE  /\ [entry EXCEPT !.next_write = n] \in CachedActorState
         /\ [entry EXCEPT !.pending = n] \in CachedActorState
  BY Zenon DEF CachedActorState

\* A committed snapshot makes a cache entry (finish_pending_commit).
LEMMA EntryCommitted ==
  ASSUME NEW snapshot \in Snapshot, NEW e \in Nat, NEW n \in Nat
  PROVE  [epoch |-> e, version |-> snapshot.version, state |-> snapshot.state,
          request |-> snapshot.request, next_write |-> n, pending |-> 0]
             \in CachedActorState
  BY Zenon DEF Snapshot, CachedActorState

\* An invocation that reaches another phase is an invocation.
LEMMA PhaseChanged ==
  ASSUME NEW invocation \in Invocation, NEW phase \in Phases
  PROVE  [invocation EXCEPT !.phase = phase] \in Invocation
  BY Zenon DEF Invocation

\* The values that stand for None have the types of what they stand in for.
LEMMA NoneTypes ==
  /\ NoCache \in CachedActorState /\ Idle \in Invocation /\ NoInstance \in Instance
  BY DEF NoCache, CachedActorState, ActorState, Idle, Invocation, Phases,
         NoInstance, Instance

\* The commit a host sends is for a snapshot it uploaded.
LEMMA CommitOfType ==
  ASSUME TypeOK, NEW h \in Hosts, PendingUploaded(h), cache[h].pending # 0
  PROVE  /\ CommitOf(h) \in StateCommitRequest
         /\ store[cache[h].pending] \in Snapshot
<1>1. cache[h].pending \in 1..Len(store)
  BY Zenon DEF PendingUploaded
<1>2. store[cache[h].pending] \in Snapshot /\ store[cache[h].pending].request \in Requests
  BY <1>1, StoreType, Zenon
<1>3. QED
  BY <1>2, CacheType, Zenon DEF CommitOf, StateCommitRequest

\* take_or_load_state returns a cache entry.
LEMMA LoadedType ==
  ASSUME TypeOK, HeadReadable, NEW h \in Hosts, NEW target \in heads
  PROVE  Loaded(h, target) \in CachedActorState
<1>1. target \in ObjectPlacement /\ target.epoch \in Nat /\ target.version \in Nat
  BY Zenon DEF TypeOK, ObjectPlacement
<1>2. CASE cache[h].epoch = target.epoch
  BY <1>2, CacheType, Zenon DEF Loaded
<1>3. CASE cache[h].epoch # target.epoch /\ target.version = 0
  BY <1>1, <1>3, NoneTypes, Zenon DEF Loaded, CachedActorState
<1>4. CASE cache[h].epoch # target.epoch /\ target.version # 0
  <2>1. target.object \in 1..Len(store)
    BY <1>4, Zenon DEF HeadReadable
  <2>2. QED
    BY <1>1, <1>4, <2>1, StoreType, Zenon DEF Loaded, CachedActorState
<1>5. QED
  BY <1>2, <1>3, <1>4, Zenon

\* The actor's code leaves an actor state behind.
LEMMA OutcomesType ==
  ASSUME TypeOK, NEW h \in Hosts, inv[h].request \in Requests
  PROVE  Base(h) \in ActorState /\ Outcomes(h) \subseteq ActorState
<1>1. Base(h) \in Seq(Requests)
  <2>1. node[h] \in Instance
    BY Zenon DEF TypeOK
  <2>2. node[h].state \in ActorState
    BY <2>1, Zenon DEF Instance
  <2>3. QED
    BY <2>2, CacheType, Zenon DEF Base, ActorState
<1>2. Append(Base(h), inv[h].request) \in Seq(Requests)
  BY <1>1
<1>3. QED
  BY <1>1, <1>2, Zenon DEF Outcomes, ActorState

\* Uploading a snapshot changes no snapshot that is there.
LEMMA StoreGrows ==
  ASSUME TypeOK, NEW s \in Snapshot, store' = Append(store, s)
  PROVE  /\ Len(store') = Len(store) + 1
         /\ store'[Len(store) + 1] = s
         /\ \A o \in 1..Len(store) : store'[o] = store[o]
         /\ store' \in Seq(Snapshot)
  BY DEF TypeOK

-----------------------------------------------------------------------------
(* Type correctness.                                                         *)

\* The invariant holds before the actor is first placed.
LEMMA InitSafe == Init => SafeInv
<1> SUFFICES ASSUME Init PROVE SafeInv
  BY Zenon
<1> USE DEF Init
<1>1. TypeOK
  BY NoneTypes DEF TypeOK, ObjectPlacement, NoPlacement, RpcStatus
<1>2. RowHistory /\ HeadReadable /\ LinearHistory /\ LateUploaded /\ StoreFollowsHeads
  BY DEF RowHistory, NoPlacement, HeadReadable, LinearHistory, LateUploaded, StoreFollowsHeads
<1>3. \A h \in Hosts : HostInv(h)
  BY Zenon DEF HostInv, CacheFromHeads, PendingUploaded, PhaseInv, NoCache, Idle
<1>5. RepliesCommitted
  BY Zenon DEF RepliesCommitted
<1>6. QED
  BY <1>1, <1>2, <1>3, <1>5, Zenon DEF SafeInv

\* A step of a host, whatever it is, keeps the types.
LEMMA HostTypes ==
  ASSUME SafeInv, NEW h \in Hosts, HostStep(h)
  PROVE  TypeOK'
<1>t. TypeOK /\ HeadReadable /\ HostInv(h)
  BY Zenon DEF SafeInv
<1> USE <1>t DEF TypeOK, HostInv
<1>1. ASSUME NEW target \in heads, LoadFails(h, target) PROVE TypeOK'
  BY <1>1, NoneTypes, Zenon DEF LoadFails, SetCache
<1>2. ASSUME NEW target \in heads, NEW r \in Requests, Invoke(h, r, target) PROVE TypeOK'
  <2>1. Loaded(h, target) \in CachedActorState
    BY LoadedType, Zenon
  <2>2. QED
    BY <1>2, <2>1 DEF Invoke, SetCache, SetInv, RpcStatus, Invocation, Phases, ActorState
<1>3. ASSUME NEW ticket \in BOOLEAN, CommitSucceeds(h, ticket) PROVE TypeOK'
  <2>1. store[cache[h].pending] \in Snapshot
    BY <1>3, CommitOfType, Zenon DEF CommitSucceeds, PhaseInv
  <2>2. inv[h].request \in Requests
    BY <1>3, Zenon DEF CommitSucceeds, PhaseInv
  <2> DEFINE snapshot == store[cache[h].pending]
             entry == [epoch |-> cache[h].epoch, version |-> snapshot.version,
                       state |-> snapshot.state, request |-> snapshot.request,
                       next_write |-> IF ticket THEN snapshot.version + 1 ELSE 0,
                       pending |-> 0]
  <2>e. entry \in CachedActorState
    <3>1. snapshot.version \in Nat
      BY <2>1, Zenon DEF Snapshot
    <3>2. (IF ticket THEN snapshot.version + 1 ELSE 0) \in Nat
      BY <3>1
    <3>3. QED
      BY <2>1, <3>2, CacheType, EntryCommitted, Zenon
  <2>3. cache' \in [Hosts -> CachedActorState] /\ reply' \in Reply \cup {NoReply}
    <3>1. entry.version = snapshot.version /\ entry.state = snapshot.state
      BY Zenon
    <3>2. [request |-> inv[h].request, version |-> snapshot.version,
           state |-> snapshot.state] \in Reply
      BY <2>1, <2>2, Zenon DEF Snapshot, Reply
    <3>3. QED
      BY <1>3, <2>e, <3>1, <3>2, Zenon DEF CommitSucceeds, SetCache, Complete
  <2>4. inv' \in [Hosts -> Invocation]
    <3>1. [inv[h] EXCEPT !.phase = "ready"] \in Invocation
      BY InvType, PhaseChanged, Zenon DEF Phases
    <3>2. QED
      BY <1>3, <3>1, NoneTypes, Zenon DEF CommitSucceeds, SetInv
  <2>5. QED
    BY <1>3, <2>3, <2>4, Zenon DEF CommitSucceeds, RpcStatus
<1>4. ASSUME Abandoned(h) = late' PROVE late' \subseteq StateCommitRequest
  BY <1>4, CommitOfType, Zenon DEF Abandoned, PhaseInv
<1>5. ASSUME CommitFails(h) PROVE TypeOK'
  BY <1>4, <1>5, NoneTypes, Zenon DEF CommitFails, SetInv, RpcStatus
<1>6. ASSUME Replay(h) PROVE TypeOK'
  <2>1. reply' \in Reply
    BY <1>6, CacheType, Zenon DEF Replay, PhaseInv, Complete, Reply
  <2>2. QED
    BY <1>6, <2>1, NoneTypes, Zenon DEF Replay, SetInv
<1>7. ASSUME NEW next \in Outcomes(h), Execute(h, next) PROVE TypeOK'
  <2>1. inv[h].request \in Requests
    BY <1>7, Zenon DEF Execute, PhaseInv
  <2>2. next \in ActorState
    BY <1>7, <2>1, OutcomesType, Zenon
  <2>3. reply' \in Reply \cup {NoReply}
    BY <1>7, <2>1, CacheType DEF Execute, Complete, Reply
  <2>4. inv' \in [Hosts -> Invocation]
    <3>1. [phase |-> "publish", request |-> inv[h].request, next |-> next] \in Invocation
      BY <2>1, <2>2, Zenon DEF Invocation, Phases
    <3>2. QED
      BY <1>7, <3>1, NoneTypes, Zenon DEF Execute, SetInv
  <2>5. [live |-> TRUE, state |-> next] \in Instance
    BY <2>2, Zenon DEF Instance
  <2>6. QED
    BY <1>7, <2>3, <2>4, <2>5, Zenon DEF Execute
<1>8. ASSUME ExecuteFails(h) \/ DropInstance(h) PROVE TypeOK'
  <2>1. UNCHANGED <<row, heads, store, up, cache, rpc, late>> /\ reply' = NoReply
    BY <1>8, Zenon DEF ExecuteFails, DropInstance
  <2>2. node' \in [Hosts -> Instance] /\ inv' \in [Hosts -> Invocation]
    BY <1>8, NoneTypes, Zenon DEF ExecuteFails, DropInstance, SetInv
  <2>3. QED
    BY <2>1, <2>2, Zenon
<1>9. ASSUME UseTicket(h) \/ PrepareStateWrite(h) PROVE TypeOK'
  <2>1. [cache[h] EXCEPT !.next_write = 0] \in CachedActorState
    BY CacheType, EntryChanged, Zenon
  <2>2. [inv[h] EXCEPT !.phase = "upload"] \in Invocation
    BY InvType, PhaseChanged, Zenon DEF Phases
  <2>3. QED
    BY <1>9, <2>1, <2>2, Zenon DEF UseTicket, PrepareStateWrite, SetInv, SetCache
<1>10. ASSUME PrepareFails(h) \/ UploadFails(h) PROVE TypeOK'
  <2>1. [cache[h] EXCEPT !.next_write = 0] \in CachedActorState
    BY CacheType, EntryChanged, Zenon
  <2>2. QED
    BY <1>10, <2>1, NoneTypes DEF PrepareFails, UploadFails, PublishFails, SetInv, SetCache
<1>11. ASSUME CommitMisses(h) \/ RereadRow(h) \/ SendFails(h) PROVE TypeOK'
  BY <1>11, NoneTypes, Zenon DEF CommitMisses, RereadRow, SendFails, SetInv, RpcStatus
<1>12. ASSUME Cancel(h) PROVE TypeOK'
  <2>1. ASSUME NEW next \in Outcomes(h), inv[h].phase = "ready" PROVE next \in ActorState
    BY <2>1, OutcomesType, Zenon DEF PhaseInv
  <2>2. node' \in [Hosts -> Instance]
    <3>1. ASSUME NEW next \in Outcomes(h), inv[h].phase = "ready"
          PROVE  [live |-> TRUE, state |-> next] \in Instance
      BY <2>1, <3>1, Zenon DEF Instance
    <3>2. QED
      BY <1>12, <3>1, Zenon DEF Cancel
  <2>3. QED
    BY <1>4, <1>12, <2>2, NoneTypes, Zenon DEF Cancel, SetInv, SetCache, RpcStatus
<1>13. ASSUME Crash(h) PROVE TypeOK'
  BY <1>4, <1>13, NoneTypes, Zenon DEF Crash, SetInv, SetCache, RpcStatus
<1>14. QED
  BY <1>1, <1>2, <1>3, <1>5, <1>6, <1>7, <1>8, <1>9, <1>10, <1>11, <1>12, <1>13, Zenon DEF HostStep

\* Every step keeps the types.
LEMMA TypesPreserved ==
  ASSUME SafeInv, Next
  PROVE  TypeOK'
<1>1. TypeOK /\ HeadReadable /\ \A h \in Hosts : HostInv(h)
  BY Zenon DEF SafeInv
<1> USE DEF TypeOK
<1>2. ASSUME NEW h \in Hosts, Claim(h) PROVE TypeOK'
  BY <1>1, <1>2 DEF Claim, Claimed, ObjectPlacement
<1>3. ASSUME NEW h \in Hosts, CommitState(h) PROVE TypeOK'
  <2>1. CommitOf(h) \in StateCommitRequest
    BY <1>1, <1>3, CommitOfType, Zenon DEF CommitState, HostInv, PhaseInv
  <2>2. row' \in ObjectPlacement
    BY <1>1, <1>3, <2>1 DEF CommitState, Committed, ObjectPlacement, StateCommitRequest
  <2>3. QED
    BY <1>1, <1>3, <2>2, Zenon DEF CommitState, RpcStatus
<1>4. ASSUME NEW commit \in late, CommitLate(commit) PROVE TypeOK'
  BY <1>1, <1>4 DEF CommitLate, Committed, ObjectPlacement, StateCommitRequest
<1>5. ASSUME NEW h \in Hosts, Upload(h) PROVE TypeOK'
  <2>1. NewSnapshot(h) \in Snapshot
    BY <1>1, <1>5, CacheType, InvType DEF Upload, NewSnapshot, Snapshot, HostInv, PhaseInv
  <2>2. [cache[h] EXCEPT !.pending = Len(store) + 1] \in CachedActorState
    <3>1. Len(store) + 1 \in Nat
      BY <1>1
    <3>2. QED
      BY <1>1, <3>1, CacheType, EntryChanged, Zenon
  <2>3. [inv[h] EXCEPT !.phase = "commit"] \in Invocation
    BY <1>1, InvType, PhaseChanged, Zenon DEF Phases
  <2>4. QED
    BY <1>1, <1>5, <2>1, <2>2, <2>3 DEF Upload, SetInv, SetCache, RpcStatus
<1>6. ASSUME NEW h \in Hosts, HostStep(h) PROVE TypeOK'
  BY <1>6, HostTypes, Zenon
<1>7. QED
  BY <1>2, <1>3, <1>4, <1>5, <1>6, Zenon DEF Next
=============================================================================
