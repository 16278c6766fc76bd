-------------------------- MODULE DurableActor --------------------------
(***************************************************************************)
(* One durable actor: its placement row, its immutable snapshots, and the   *)
(* hosts that execute it.  A host serves invocations of the actor one at a  *)
(* time (the actor's execution gate); each goes through                     *)
(*                                                                          *)
(*   Invoke -> (resolve a pending commit) -> replay or execute              *)
(*          -> write ticket -> upload snapshot -> commit -> reply           *)
(*                                                                          *)
(* and can stop at every arrow: a call to the control plane or the object   *)
(* store fails or its answer is lost, the actor's method throws, the host   *)
(* process dies, its lease lapses, another host claims the actor.           *)
(*                                                                          *)
(* The actor's state is the sequence of the requests applied to it, so that *)
(* two states are equal exactly when the same requests built them.  While a *)
(* host serves an invocation it holds the cache entry it took out of its    *)
(* map; the model leaves the entry in `cache` and clears it where the code  *)
(* would drop the local variable (Cancel, Crash).                           *)
(***************************************************************************)
EXTENDS Placement, Sequences

CONSTANTS Calls,        \* request ids of workflow method calls
          Events,       \* request ids of socket events
          HostsReturn,  \* a host may own the actor again after another host did
          Cancels,      \* a socket event's handler may be dropped at an await
          MaxEpoch,     \* bound on ownership changes
          MaxVersion,   \* bound on committed versions and on requests in a state
          MaxUploads    \* bound on uploaded snapshots

ASSUME RequestsAssumption == Requests = Calls \cup Events /\ Calls \cap Events = {}
ASSUME EnvironmentAssumption == HostsReturn \in BOOLEAN /\ Cancels \in BOOLEAN
ASSUME BoundsAssumption == MaxEpoch \in Nat /\ MaxVersion \in Nat /\ MaxUploads \in Nat

VARIABLES row,    \* the placement row in PostgreSQL
          heads,  \* history: every value the row has had
          store,  \* the snapshots uploaded to object storage, by object
          up,     \* the host processes that run
          cache,  \* per host: the cached actor state (CachedActorState)
          node,   \* per host: the actor instance in the Node worker
          inv,    \* per host: the invocation that holds the execution gate
          rpc,    \* per host: the commit request it waits for
          late,   \* commit requests whose sender no longer waits
          reply   \* the completed reply sent in the last step, if any

vars == <<row, heads, store, up, cache, node, inv, rpc, late, reply>>

-----------------------------------------------------------------------------
ActorState == Seq(Requests)

Snapshot == [version: Nat, epoch: Nat, request: Requests, state: ActorState]

\* pending is the uploaded object whose commit is unresolved, next_write the
\* version of the write ticket in hand; 0 stands for None in both.
CachedActorState ==
    [epoch: Nat, version: Nat, state: ActorState,
     request: Requests \cup {NoRequest}, next_write: Nat, pending: Nat]

NoCache == [epoch |-> 0, version |-> 0, state |-> << >>,
            request |-> NoRequest, next_write |-> 0, pending |-> 0]

Instance == [live: BOOLEAN, state: ActorState]

NoInstance == [live |-> FALSE, state |-> << >>]

Phases == {"idle", "resolve", "ready", "publish", "upload", "commit"}

\* next is the state the actor's code left behind, which is not yet committed.
Invocation == [phase: Phases, request: Requests \cup {NoRequest}, next: ActorState]

Idle == [phase |-> "idle", request |-> NoRequest, next |-> << >>]

\* A completed reply, with the version and state whose result it carries.
Reply == [request: Requests, version: Nat, state: ActorState]

NoReply == [request |-> NoRequest, version |-> 0, state |-> << >>]

RpcStatus == {"none", "sent", "missed", "ok"}

TypeOK ==
    /\ row \in ObjectPlacement
    /\ heads \subseteq ObjectPlacement
    /\ store \in Seq(Snapshot)
    /\ up \subseteq Hosts
    /\ cache \in [Hosts -> CachedActorState]
    /\ node \in [Hosts -> Instance]
    /\ inv \in [Hosts -> Invocation]
    /\ rpc \in [Hosts -> RpcStatus]
    /\ late \subseteq StateCommitRequest
    /\ reply \in Reply \cup {NoReply}

\* Hosts are in the model once the provisioner can return them: running, with
\* an active lease.  The actor has never been placed.
Init ==
    /\ row = NoPlacement
    /\ heads = {}
    /\ store = << >>
    /\ up = Hosts
    /\ cache = [h \in Hosts |-> NoCache]
    /\ node = [h \in Hosts |-> NoInstance]
    /\ inv = [h \in Hosts |-> Idle]
    /\ rpc = [h \in Hosts |-> "none"]
    /\ late = {}
    /\ reply = NoReply

-----------------------------------------------------------------------------
(* The control plane moves the actor and answers callers.                   *)

\* The router found no usable owner and claimed the actor for host h, which
\* the provisioner returned.  The row it read before may be stale by now, and
\* the owner may have renewed its lease meanwhile: only owner and epoch count.
\* A claim that loses changes nothing.  The caller's target is the new row.
Claim(h) ==
    /\ row.epoch < MaxEpoch
    /\ row.owner # h
    /\ HostsReturn \/ \A t \in heads : t.owner # h
    /\ row' = Claimed(row, h)
    /\ heads' = heads \cup {row'}
    /\ reply' = NoReply
    /\ UNCHANGED <<store, up, cache, node, inv, rpc, late>>

-----------------------------------------------------------------------------
(* The commit call: the control plane checks the lease, runs the update, *)
(* and if that matched nothing reads the row again.  A host's lease can lapse *)
(* and be renewed at any time (module HostLease), so wherever the code looks  *)
(* at it here it may be active or not.                                        *)

\* Mutant of CommitOf: commits under the request of the last commit.
CommitOfLastRequest(h) ==
    [owner |-> h, epoch |-> cache[h].epoch, version |-> cache[h].version,
     object |-> cache[h].pending, request |-> cache[h].request]

\* The commit that host h's cached pending snapshot stands for.
CommitOf(h) ==
    [owner |-> h, epoch |-> cache[h].epoch, version |-> cache[h].version,
     object |-> cache[h].pending, request |-> store[cache[h].pending].request]

\* The lease is active and the update finds the row.
CommitState(h) ==
    /\ rpc[h] = "sent" /\ CommitMatches(row, CommitOf(h))
    /\ row' = Committed(row, CommitOf(h))
    /\ heads' = heads \cup {row'}
    /\ rpc' = [rpc EXCEPT ![h] = "ok"]
    /\ reply' = NoReply
    /\ UNCHANGED <<store, up, cache, node, inv, late>>

\* The lease was active when require_active_host looked, but the update finds
\* no row with the owner, epoch and version, or no active lease.
CommitMisses(h) ==
    /\ rpc[h] = "sent"
    /\ rpc' = [rpc EXCEPT ![h] = "missed"]
    /\ reply' = NoReply
    /\ UNCHANGED <<row, heads, store, up, cache, node, inv, late>>

\* Only then is the row read, which may have changed in between.
RereadRow(h) ==
    /\ rpc[h] = "missed" /\ IsReplayedCommit(row, CommitOf(h))
    /\ rpc' = [rpc EXCEPT ![h] = "ok"]
    /\ reply' = NoReply
    /\ UNCHANGED <<row, heads, store, up, cache, node, inv, late>>

\* A commit request reaches the database after its sender stopped waiting.
CommitLate(commit) ==
    /\ CommitMatches(row, commit)
    /\ row' = Committed(row, commit)
    /\ heads' = heads \cup {row'}
    /\ late' = late \ {commit}
    /\ reply' = NoReply
    /\ UNCHANGED <<store, up, cache, node, inv, rpc>>

\* The requests nobody waits for once host h abandons its commit call.
Abandoned(h) == IF rpc[h] = "sent" THEN late \cup {CommitOf(h)} ELSE late

-----------------------------------------------------------------------------
(* The host serves an invocation.                                           *)

SetInv(h, invocation) == inv' = [inv EXCEPT ![h] = invocation]

SetCache(h, entry) == cache' = [cache EXCEPT ![h] = entry]

\* A completed reply: the request and the state and version it reports.
Complete(h, entry) ==
    reply' = [request |-> inv[h].request, version |-> entry.version,
              state |-> entry.state]

NeedsSnapshot(h, target) == cache[h].epoch # target.epoch /\ target.version # 0

\* Mutant of Loaded: a restored state does not know the request that made it.
LoadedWithoutRequest(h, target) ==
    IF cache[h].epoch = target.epoch THEN cache[h]
    ELSE IF target.version = 0 THEN [NoCache EXCEPT !.epoch = target.epoch]
    ELSE [epoch |-> target.epoch, version |-> target.version,
          state |-> store[target.object].state, request |-> NoRequest,
          next_write |-> 0, pending |-> 0]

\* take_or_load_state: the cache entry when its epoch is the caller's, else a
\* fresh entry or the snapshot the capability names.
Loaded(h, target) ==
    IF cache[h].epoch = target.epoch THEN cache[h]
    ELSE IF target.version = 0 THEN [NoCache EXCEPT !.epoch = target.epoch]
    ELSE [epoch |-> target.epoch, version |-> target.version,
          state |-> store[target.object].state,
          request |-> store[target.object].request,
          next_write |-> 0, pending |-> 0]

\* from_loaded's two checks on the snapshot.
SnapshotFits(target) ==
    /\ store[target.object].version = target.version
    /\ store[target.object].epoch <= target.epoch

\* Mutant of Invoke: executes without resolving the pending commit.
InvokeUnresolved(h, r, target) ==
    /\ h \in up /\ inv[h].phase = "idle" /\ target.owner = h
    /\ NeedsSnapshot(h, target) => SnapshotFits(target)
    /\ SetCache(h, Loaded(h, target))
    /\ SetInv(h, [phase |-> "ready", request |-> r, next |-> << >>])
    /\ reply' = NoReply
    /\ UNCHANGED <<row, heads, store, up, node, rpc, late>>

\* Host h admits request r under a capability issued from the row `target`.
\* Every value the row ever had can have been handed to a caller, who may use
\* it at any later time.
Invoke(h, r, target) ==
    /\ h \in up /\ inv[h].phase = "idle" /\ target.owner = h
    /\ NeedsSnapshot(h, target) => SnapshotFits(target)
    /\ LET entry == Loaded(h, target)
           resolve == entry.pending # 0
       IN  /\ SetCache(h, entry)
           /\ SetInv(h, [phase |-> IF resolve THEN "resolve" ELSE "ready",
                         request |-> r, next |-> << >>])
           /\ rpc' = [rpc EXCEPT ![h] = IF resolve THEN "sent" ELSE "none"]
    /\ reply' = NoReply
    /\ UNCHANGED <<row, heads, store, up, node, late>>

\* The snapshot cannot be read or does not fit.  The entry taken is gone.
LoadFails(h, target) ==
    /\ h \in up /\ inv[h].phase = "idle" /\ target.owner = h
    /\ NeedsSnapshot(h, target)
    /\ SetCache(h, NoCache)
    /\ reply' = NoReply
    /\ UNCHANGED <<row, heads, store, up, node, inv, rpc, late>>

\* The host hears that its commit succeeded: finish_pending_commit moves the
\* pending snapshot into the cache, with a ticket for the next version unless
\* the control plane could not make one.  An invocation that was publishing is
\* complete; one that was resolving an older commit goes on.
CommitSucceeds(h, ticket) ==
    /\ rpc[h] = "ok"
    /\ LET snapshot == store[cache[h].pending]
           entry == [epoch |-> cache[h].epoch, version |-> snapshot.version,
                     state |-> snapshot.state, request |-> snapshot.request,
                     next_write |-> IF ticket THEN snapshot.version + 1 ELSE 0,
                     pending |-> 0]
       IN  /\ SetCache(h, entry)
           /\ IF inv[h].phase = "commit"
              THEN SetInv(h, Idle) /\ Complete(h, entry)
              ELSE SetInv(h, [inv[h] EXCEPT !.phase = "ready"]) /\ reply' = NoReply
    /\ rpc' = [rpc EXCEPT ![h] = "none"]
    /\ UNCHANGED <<row, heads, store, up, node, late>>

\* Mutant of CommitFails: the instance that is ahead of the cache stays.
CommitFailsKeepsInstance(h) ==
    /\ rpc[h] # "none"
    /\ late' = Abandoned(h)
    /\ rpc' = [rpc EXCEPT ![h] = "none"]
    /\ SetInv(h, Idle)
    /\ reply' = NoReply
    /\ UNCHANGED <<row, heads, store, up, cache, node>>

\* Mutant of CommitFails: the pending snapshot is not put back into the cache.
CommitFailsForgets(h) ==
    /\ rpc[h] # "none"
    /\ late' = Abandoned(h)
    /\ rpc' = [rpc EXCEPT ![h] = "none"]
    /\ SetInv(h, Idle)
    /\ SetCache(h, NoCache)
    /\ node' = [node EXCEPT ![h] = NoInstance]
    /\ reply' = NoReply
    /\ UNCHANGED <<row, heads, store, up>>

\* The commit was refused, or its answer is lost or too late.  The pending
\* snapshot stays for the next invocation; after an execution the instance in
\* the Node worker, which is ahead of the cache, is evicted.
CommitFails(h) ==
    /\ rpc[h] # "none"
    /\ late' = Abandoned(h)
    /\ rpc' = [rpc EXCEPT ![h] = "none"]
    /\ SetInv(h, Idle)
    /\ node' = IF inv[h].phase = "commit" THEN [node EXCEPT ![h] = NoInstance] ELSE node
    /\ reply' = NoReply
    /\ UNCHANGED <<row, heads, store, up, cache>>

\* Mutant of IsReplay: no call is recognised.
NeverReplay(h) == FALSE

\* A method call that is the last one committed gets that call's result.
IsReplay(h) == inv[h].request \in Calls /\ cache[h].request = inv[h].request

Replay(h) ==
    /\ inv[h].phase = "ready" /\ IsReplay(h)
    /\ SetInv(h, Idle)
    /\ Complete(h, cache[h])
    /\ UNCHANGED <<row, heads, store, up, cache, node, rpc, late>>

\* The state the actor's code starts from.  A Node worker that holds an
\* instance uses it and ignores the state in the command, if there is any.
Base(h) == IF node[h].live THEN node[h].state ELSE cache[h].state

\* The actor's code changes the state or only reads it.
Outcomes(h) == {next \in {Append(Base(h), inv[h].request), Base(h)} : Len(next) <= MaxVersion}

\* The actor's code ran and left the state `next`.  When that is the cached
\* state the reply needs no commit.
Execute(h, next) ==
    /\ inv[h].phase = "ready" /\ ~IsReplay(h)
    /\ node' = [node EXCEPT ![h] = [live |-> TRUE, state |-> next]]
    /\ IF cache[h].version # 0 /\ next = cache[h].state
       THEN SetInv(h, Idle) /\ Complete(h, cache[h])
       ELSE SetInv(h, [phase |-> "publish", request |-> inv[h].request, next |-> next]) /\ reply' = NoReply
    /\ UNCHANGED <<row, heads, store, up, cache, rpc, late>>

\* The actor's code throws, its reply is too large or its effects are invalid.
ExecuteFails(h) ==
    /\ inv[h].phase = "ready" /\ ~IsReplay(h)
    /\ node' = [node EXCEPT ![h] = NoInstance]
    /\ SetInv(h, Idle)
    /\ reply' = NoReply
    /\ UNCHANGED <<row, heads, store, up, cache, rpc, late>>

\* The command is too large to be sent to Node.  Only after a method call is
\* the instance, which saw nothing of it, evicted all the same.
SendFails(h) ==
    /\ inv[h].phase = "ready" /\ inv[h].request \in Events
    /\ SetInv(h, Idle)
    /\ reply' = NoReply
    /\ UNCHANGED <<row, heads, store, up, cache, node, rpc, late>>

\* The Node worker was idle too long, made room for another actor, or died.
DropInstance(h) ==
    /\ node[h].live
    /\ node' = [node EXCEPT ![h] = NoInstance]
    /\ reply' = NoReply
    /\ UNCHANGED <<row, heads, store, up, cache, inv, rpc, late>>

-----------------------------------------------------------------------------
(* publish_result: ticket, upload, commit.                                  *)

\* The ticket that came with the last commit, if it has not expired.
UseTicket(h) ==
    /\ inv[h].phase = "publish"
    /\ cache[h].next_write = cache[h].version + 1
    /\ SetCache(h, [cache[h] EXCEPT !.next_write = 0])
    /\ SetInv(h, [inv[h] EXCEPT !.phase = "upload"])
    /\ reply' = NoReply
    /\ UNCHANGED <<row, heads, store, up, node, rpc, late>>

\* A ticket from the control plane, which has its own look at lease and row.
PrepareStateWrite(h) ==
    /\ inv[h].phase = "publish"
    /\ CommitMatches(row, [owner |-> h, epoch |-> cache[h].epoch,
                           version |-> cache[h].version])
    /\ SetCache(h, [cache[h] EXCEPT !.next_write = 0])
    /\ SetInv(h, [inv[h] EXCEPT !.phase = "upload"])
    /\ reply' = NoReply
    /\ UNCHANGED <<row, heads, store, up, node, rpc, late>>

\* Mutant of PublishFails: the unpublished instance is not evicted.
PublishFailsKeepsInstance(h) ==
    /\ SetInv(h, Idle)
    /\ SetCache(h, [cache[h] EXCEPT !.next_write = 0])
    /\ reply' = NoReply
    /\ UNCHANGED <<row, heads, store, up, node, rpc, late>>

\* The publication fails before a commit is pending: the instance is evicted
\* and the caller hears that the outcome is unknown.
PublishFails(h) ==
    /\ node' = [node EXCEPT ![h] = NoInstance]
    /\ SetInv(h, Idle)
    /\ SetCache(h, [cache[h] EXCEPT !.next_write = 0])
    /\ reply' = NoReply
    /\ UNCHANGED <<row, heads, store, up, rpc, late>>

PrepareFails(h) ==
    /\ inv[h].phase = "publish"
    /\ PublishFails(h)

NewSnapshot(h) ==
    [version |-> cache[h].version + 1, epoch |-> cache[h].epoch,
     request |-> inv[h].request, state |-> inv[h].next]

\* The create-only PUT succeeds under a name nobody used before.
Upload(h) ==
    /\ inv[h].phase = "upload"
    /\ Len(store) < MaxUploads /\ cache[h].version < MaxVersion
    /\ store' = Append(store, NewSnapshot(h))
    /\ SetCache(h, [cache[h] EXCEPT !.pending = Len(store) + 1])
    /\ SetInv(h, [inv[h] EXCEPT !.phase = "commit"])
    /\ rpc' = [rpc EXCEPT ![h] = "sent"]
    /\ reply' = NoReply
    /\ UNCHANGED <<row, heads, up, node, late>>

\* The PUT fails.  Should the object exist all the same, nobody knows its name.
UploadFails(h) ==
    /\ inv[h].phase = "upload"
    /\ PublishFails(h)

-----------------------------------------------------------------------------
(* What ends an invocation from outside.                                    *)

\* The handler of a socket event is not detached from its caller: it is
\* dropped with the call, and with it the cache entry it had taken.  A command
\* the Node worker has received is executed all the same.
Cancel(h) ==
    /\ Cancels /\ inv[h].phase # "idle" /\ inv[h].request \in Events
    /\ SetInv(h, Idle)
    /\ SetCache(h, NoCache)
    /\ late' = Abandoned(h)
    /\ rpc' = [rpc EXCEPT ![h] = "none"]
    /\ \/ UNCHANGED node
       \/ /\ inv[h].phase = "ready"
          /\ \E next \in Outcomes(h) : node' = [node EXCEPT ![h] = [live |-> TRUE, state |-> next]]
    /\ reply' = NoReply
    /\ UNCHANGED <<row, heads, store, up>>

\* The host process ends, for whatever reason; its id is never used again.
Crash(h) ==
    /\ h \in up
    /\ up' = up \ {h}
    /\ SetInv(h, Idle)
    /\ SetCache(h, NoCache)
    /\ node' = [node EXCEPT ![h] = NoInstance]
    /\ late' = Abandoned(h)
    /\ rpc' = [rpc EXCEPT ![h] = "none"]
    /\ reply' = NoReply
    /\ UNCHANGED <<row, heads, store>>

-----------------------------------------------------------------------------
\* A step of host h that leaves row and snapshots alone.
HostStep(h) ==
    \/ \E target \in heads : LoadFails(h, target) \/ \E r \in Requests : Invoke(h, r, target)
    \/ CommitMisses(h) \/ RereadRow(h)
    \/ \E ticket \in BOOLEAN : CommitSucceeds(h, ticket)
    \/ CommitFails(h) \/ Replay(h)
    \/ \E next \in Outcomes(h) : Execute(h, next)
    \/ ExecuteFails(h) \/ SendFails(h) \/ DropInstance(h)
    \/ UseTicket(h) \/ PrepareStateWrite(h) \/ PrepareFails(h) \/ UploadFails(h)
    \/ Cancel(h) \/ Crash(h)

Next ==
    \/ \E h \in Hosts : Claim(h) \/ CommitState(h) \/ Upload(h) \/ HostStep(h)
    \/ \E commit \in late : CommitLate(commit)

Spec == Init /\ [][Next]_vars

-----------------------------------------------------------------------------
(* Correctness.                                                             *)

\* The state that a row's head stands for.
StateAt(t) == IF t.version = 0 THEN << >> ELSE store[t.object].state

\* Every value the row has had names an uploaded snapshot of its own version,
\* made by the row's request in an epoch no later than the row's: the checks
\* of from_loaded never fail, however old the capability a host is shown.
HeadReadable ==
    \A t \in heads :
        t.version # 0 =>
            /\ t.object \in 1..Len(store)
            /\ SnapshotFits(t)
            /\ store[t.object].request = t.request

\* Fencing: an epoch has one owner, a version one snapshot, and a later epoch
\* never has an earlier version, whatever abandoned or repeated commits of
\* former owners still reach the database (claim and commit_state).
LinearHistory ==
    \A s, t \in heads :
        /\ s.epoch = t.epoch => s.owner = t.owner
        /\ s.version = t.version => s.object = t.object
        /\ s.epoch < t.epoch => s.version <= t.version

\* A completed reply reports the state of a committed version, also when it
\* changed nothing (no commit), answers a repeated call, or follows a commit
\* call that had to be repeated (invoke_actor_once).
RepliesCommitted ==
    reply # NoReply =>
        \E t \in heads : t.version = reply.version /\ reply.state = StateAt(t)

\* No lost update: each version is the previous one with its own request
\* applied, on whichever host either was computed (the first version of an
\* actor may hold its initial state).
NoLostUpdate ==
    \A s, t \in heads :
        t.version = s.version + 1 =>
            \/ StateAt(t) = Append(StateAt(s), t.request)
            \/ s.version = 0 /\ StateAt(t) = << >>

\* Host h's cache is at the newest version of its epoch, or about to get there.
CacheAtHead(h) ==
    \A t \in heads :
        t.epoch = cache[h].epoch =>
            \/ t.version <= cache[h].version
            \/ cache[h].pending # 0 /\ IsReplayedCommit(t, CommitOf(h))

\* A host's cache never falls behind the versions of its own epoch: it is at
\* the newest, or holds the pending commit that made it.  An owner with an older
\* cache could never commit again (prepare_state_write refuses its version) and
\* would answer a caller from before the state its capability names.
CacheCurrent == \A h \in Hosts : CacheAtHead(h)

\* When the actor's code starts, no commit that this host abandoned can still
\* create the version this execution is going to write
\* (finish_pending_commit before execute_method).
PendingResolvedFirst ==
    \A h \in Hosts, commit \in late :
        inv[h].phase = "ready" =>
            ~(commit.owner = h /\ commit.epoch = cache[h].epoch
                               /\ commit.version = cache[h].version)

\* A method call that is sent again right after it was committed is not applied
\* a second time, on the same or on another host (CachedActorState::replay).
CallNotReapplied ==
    \A s, t \in heads :
        t.version = s.version + 1 /\ s.request \in Calls => s.request # t.request

\* The snapshot of each version, as the head that reached it named it.
ObjectAt(v) == (CHOOSE t \in heads : t.version = v).object
History ==
    [v \in 1..row.version |->
        [request |-> store[ObjectAt(v)].request, state |-> store[ObjectAt(v)].state]]

Atomic == INSTANCE AtomicActor WITH history <- History, answer <- reply, NoAnswer <- NoReply

\* All the machinery of hosts, epochs, snapshots and retries shows its callers a
\* single history of versions: claims, uploads and repeated or late commits do
\* not change it, and each commit extends it by one request.
ImplementsAtomic == Atomic!Spec

-----------------------------------------------------------------------------
(* The inductive invariants.  SafeInv holds whatever the environment does;   *)
(* it carries the first group of properties.  ExactInv needs hosts that do   *)
(* not return and handlers that are not dropped; it adds NoLostUpdate,       *)
(* CacheCurrent and PendingResolvedFirst.                                    *)

\* The row is the newest of the values it has had.
RowHistory ==
    /\ row.epoch = 0 => row = NoPlacement /\ heads = {}
    /\ row.epoch # 0 => row \in heads
    /\ \A t \in heads :
          /\ t.owner \in Hosts
          /\ t.epoch >= 1 /\ t.epoch <= row.epoch
          /\ t.version <= row.version
          /\ t.version = 0 => t.object = 0 /\ t.request = NoRequest

\* A host caches a committed state, for an epoch it owns or has owned.
CacheFromHeads(h) ==
    cache[h].epoch # 0 =>
        /\ \E t \in heads : t.owner = h /\ t.epoch = cache[h].epoch
        /\ \E t \in heads : /\ t.version = cache[h].version
                            /\ t.request = cache[h].request
                            /\ StateAt(t) = cache[h].state

\* A pending commit advances the cache by the snapshot that was uploaded for it.
PendingUploaded(h) ==
    cache[h].pending # 0 =>
        /\ cache[h].epoch # 0
        /\ cache[h].pending \in 1..Len(store)
        /\ store[cache[h].pending].version = cache[h].version + 1
        /\ store[cache[h].pending].epoch = cache[h].epoch

\* What each phase of an invocation can rely on.
PhaseInv(h) ==
    /\ inv[h].phase # "idle" => inv[h].request \in Requests /\ cache[h].epoch # 0
    /\ inv[h].phase \in {"resolve", "commit"} <=> rpc[h] # "none"
    /\ rpc[h] # "none" => cache[h].pending # 0
    /\ rpc[h] = "ok" => \E t \in heads : /\ t.version = cache[h].version + 1
                                        /\ t.object = cache[h].pending
    /\ inv[h].phase \in {"ready", "publish", "upload"} => cache[h].pending = 0
    /\ inv[h].phase \in {"publish", "upload"} => ~IsReplay(h)

HostInv(h) == CacheFromHeads(h) /\ PendingUploaded(h) /\ PhaseInv(h)

\* An abandoned commit, too, is for a snapshot that was uploaded for it.
LateUploaded ==
    \A commit \in late :
        /\ commit.object \in 1..Len(store)
        /\ store[commit.object].version = commit.version + 1
        /\ store[commit.object].epoch = commit.epoch
        /\ store[commit.object].request = commit.request

\* No snapshot is ahead of the version after the head, and none repeats the
\* call committed just before it.
StoreFollowsHeads ==
    \A o \in 1..Len(store) :
        /\ store[o].version >= 1 /\ store[o].version <= row.version + 1
        /\ \A t \in heads :
              t.version + 1 = store[o].version /\ t.request \in Calls =>
                  store[o].request # t.request

SafeInv ==
    /\ TypeOK /\ RowHistory /\ HeadReadable /\ LinearHistory
    /\ \A h \in Hosts : HostInv(h)
    /\ LateUploaded /\ StoreFollowsHeads /\ RepliesCommitted

\* The result of applying a request to a state that a row's head stands for.
Extends(state, request, t) ==
    \/ state = Append(StateAt(t), request)
    \/ t.version = 0 /\ state = << >>

\* Each uploaded snapshot, committed or not, extends the version before its own.
StoreExtendsHeads ==
    /\ heads = {} => Len(store) = 0
    /\ \A o \in 1..Len(store) : \A t \in heads :
          t.version + 1 = store[o].version =>
              Extends(store[o].state, store[o].request, t)

\* The state about to be published extends the cached one.
NextExtendsCache(h) ==
    inv[h].phase \in {"publish", "upload"} =>
        \/ inv[h].next = Append(cache[h].state, inv[h].request)
        \/ cache[h].version = 0 /\ inv[h].next = << >>

\* An instance in the Node worker has the cached state whenever the actor's
\* code can be called on it, and is ahead only by what is being published.
InstanceFresh(h) ==
    /\ node[h].live /\ inv[h].phase \in {"idle", "resolve", "ready"} =>
          /\ cache[h].epoch # 0 /\ cache[h].pending = 0
          /\ node[h].state = cache[h].state
    /\ node[h].live /\ inv[h].phase \in {"publish", "upload", "commit"} =>
          node[h].state = inv[h].next
    /\ inv[h].phase = "commit" => store[cache[h].pending].state = inv[h].next

\* A running host without a cache entry has not committed anything.
EmptyCacheUnused(h) ==
    h \in up /\ cache[h].epoch = 0 =>
        /\ \A s, t \in heads : s.owner = h /\ t.owner = h => s = t
        /\ \A commit \in late : commit.owner # h

\* An abandoned commit is behind its host's cache or is its pending commit.
LateBehindCache(h) ==
    \A commit \in late :
        cache[h].epoch # 0 /\ commit.owner = h /\ commit.epoch = cache[h].epoch =>
            \/ commit.version < cache[h].version
            \/ cache[h].pending # 0 /\ commit = CommitOf(h)

HostExact(h) ==
    /\ NextExtendsCache(h) /\ InstanceFresh(h) /\ EmptyCacheUnused(h)
    /\ LateBehindCache(h) /\ CacheAtHead(h)

OneEpochPerHost ==
    \A s, t \in heads : s.owner = t.owner => s.epoch = t.epoch

LateFromHeads ==
    \A commit \in late : \E t \in heads : t.owner = commit.owner /\ t.epoch = commit.epoch

ExactInv ==
    /\ StoreExtendsHeads /\ OneEpochPerHost /\ LateFromHeads
    /\ \A h \in Hosts : HostExact(h)
=============================================================================
