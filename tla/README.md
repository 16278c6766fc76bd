# Verification of little-durable-objects

TLA+ models of the durable-object system in this repository, the TLC runs that
check them on small instances, and theorems about them that TLAPS proves for
every instance. Source paths below are relative to the repository root. In
`PROJECT.json` they carry the prefix `src/`, and its `map` names the lines that
each definition models.

## 1. The system

A *durable actor* is a named object with private state. At any time at most one
*host* (a sandbox with a Rust process and a Node executor) owns it. Callers are
workflow clients and WebSocket clients; a *control plane* with a PostgreSQL
database places actors on hosts and commits their state; the state itself lies
in immutable snapshot objects in an object store.

| part | source | state | operations |
|---|---|---|---|
| placement store | `src/placement.rs` | one row per actor: owner, epoch, version, object, last request | `claim`, `commit_state`, `get` |
| actor host | `src/host/actor_host.rs`, `src/actor_state/actor.rs` | cached state per actor, pending commit, write ticket, execution gates, activity counter | invoke, socket event, load, execute, publish, resolve a pending commit, evict, drain |
| snapshots | `src/state_log.rs`, `src/state_transport.rs`, `src/storage_urls.rs` | create-only objects | upload, read, sign URLs |
| control plane commands | `src/control_plane/service.rs`, `client.rs` | none of its own | prepare write, commit, register and unregister lease |
| host leases | `src/host_leases/`, `src/host/lease_maintenance.rs`, `src/clock.rs` | one row per host id, the host's local deadline | register, renew, unregister, self-fence |
| host process | `src/host/process.rs` | life cycle of the process | start, serve, drain, stop |
| Node executor | `src/actor/executor_connection.rs`, `npm/host/` | resident actor instances, workers, residency hints | execute, evict, make room, restart a worker |
| routing | `service.rs:765` | what it has read, cached public routes | find a usable owner, have a host provided, claim, choose a route |
| sandbox provider | `src/sandbox.rs`, `src/sandbox/command_process.rs`, `npm/providers/` | a pool of processes, named sandboxes | find, reuse, create, terminate a sandbox |
| deployments | `src/control_plane/admin.rs`, `public_api.rs` | active revision per namespace | register, terminate replaced hosts |
| WebSocket gateway | `src/control_plane/websocket.rs` | open connections per actor | connect, message, disconnect, apply effects |
| capabilities | `src/control_plane/issuer.rs`, `auth.rs`, `socket_auth.rs`, `service.rs:346` | cached targets | issue, cache, verify |
| workflow client | `npm/workflow/remoteClient.ts` | cached targets | resolve, call, retry |

How they interact: a caller asks the control plane for a target. The router
reads the placement row, checks the owner's lease and revision, and if it is not
usable provisions a host and claims the actor for it, which starts a new owner
*epoch*. The caller gets a capability with the row as it then was and calls the
host directly. The host takes the cached state if its epoch is the capability's,
or loads the snapshot the capability names, runs the actor's code in Node,
uploads the new state under a fresh name and commits it: the control plane moves
the row's head from version v to v + 1 if owner, epoch, version and lease still
match. The host renews its lease all the while and stops when it cannot.

What is hard about it: commits whose answer is lost; commits of former owners
that arrive late; capabilities and caches that are out of date; Node instances
ahead of, or behind, the cache; handlers that are dropped in the middle; a host
that dies between upload and commit; clocks that differ between the host and the
database; renewals that race a deadline; requests that queue while the host
drains; Workers that are given up while a hint says they are there; requests
that look at a placement, a lease or a deployment and act on it later; provider
processes that are abandoned in the middle of a command; effects of several
socket events that are applied while connections come and go. `PROJECT.json`
lists these as `hazards`, each at the line where it bites.

## 2. The modules

| module | models | composed with |
|---|---|---|
| `Placement` | the row and its two conditional updates, as pure operators | extended by `DurableActor` and `Provider` |
| `DurableActor` | one actor, its row and snapshots, and the hosts that serve it | implements `AtomicActor` |
| `AtomicActor` | what a durable actor promises: requests are applied one at a time | |
| `HostLease` | one host id, its lease row, and the processes that use it | |
| `Executor` | the connection to Node, the supervisor and its Workers | extended by `HostExecution` |
| `HostExecution` | one host process: start, gates, execution, drain, end | |
| `Provider` | the pool of provider processes and the sandboxes they manage | extended by `Routing` |
| `Routing` | `route_actor` and `register_deployment` | |
| `SocketGateway` | the connections of one actor and the tasks that serve them | |
| `TargetCache` | lifetimes of credentials and targets, and the cache of targets | |
| `MC...` | the instances that TLC checks | |
| `..._proofs` | the theorems | |

The models meet where one component uses another. `DurableActor` treats a lease
as a choice that `HostLease` explains, and a publication in `HostExecution`
stands for what `DurableActor` does in detail. `Routing` uses `Placement`'s claim
and says when a host gets an actor; `TargetCache` takes from it that an actor
stays with a host whose lease is active. `SocketGateway` sees a host as a call
that is answered, refused or lost, which is what `HostExecution` and
`TargetCache` show a host to be.

### Placement and DurableActor

Actors do not share rows, gates or snapshots, so one actor is enough. `row` is
the placement row; `heads` is a history variable with every value it has had,
because every such value can be in a capability that somebody still holds.
`store` is the sequence of uploaded snapshots (an object's name is its index:
uploads never reuse a name). Per host there is the cache entry (`cache`), the
Node instance (`node`), the invocation that holds the actor's execution gate
(`inv`, with the phase it has reached), and the commit call it waits for
(`rpc`). `late` holds commit requests that nobody waits for any more. `reply` is
the completed reply sent in the last step.

The actor's state is the sequence of requests applied to it; two states are then
equal exactly when the same requests made them. A host's invocation passes
`Invoke` (with `Loaded` for `take_or_load_state`), possibly the phase `resolve`
(`finish_pending_commit` of an older commit), `Replay` or `Execute`,
`UseTicket` or `PrepareStateWrite`, `Upload`, the commit call (`CommitState`,
`CommitMisses`, `RereadRow`) and `CommitSucceeds` or `CommitFails`. At each await
the step can fail instead (`LoadFails`, `ExecuteFails`, `SendFails`,
`PrepareFails`, `UploadFails`, `CommitFails`), the process can die (`Crash`), and
the handler of a socket event can be dropped with its call (`Cancel`).
`CommitLate` applies an abandoned commit. `Claim` moves the actor.

Two constants say what the environment may do. `HostsReturn`: a host may own the
actor again after another host did. `Cancels`: socket handlers may be dropped.

Abstractions: leases appear as a choice (wherever the code tests a lease, both
outcomes are possible, and `HostLease` says when which occurs); the router as the
claim that ends it; the state as a sequence; authentication and URL signing not
at all. A Worker's single reply slot, which can hand the reply of a dropped
command to the next one, is in `Executor`.

`AtomicActor` is the promise: a history of versions, each made from the one
before by one request, and answers that report one of them. The refinement
mapping takes the history from the values the row has had and the answer from
the reply just sent: every commit, timely or late, is an application, and
everything else that hosts, callers and messages do is an answer or nothing.

### HostLease

One host id and a set of processes (sessions) that use it. The provisioner gives
every process its own host id, so there is one session per id in practice; the
registry's contract is about several, and they are in the model. Time is `now`,
the database's clock, in ticks of 1/`TicksPerMs` ms: `LocalNow` truncates to
milliseconds as `SystemClock` does and `StoreNow` rounds as `::bigint` does. A
session's clock differs from `now` by a constant offset: all clocks run at the
same rate. `Register` is the upsert with its stamp, which may be up to `Stall`
older than the update if the statement waits for the row. A registration is
carried out once at any time after it was sent, also when its sender has given
up or gone. `Start`, `Renew`, `Answer`, `Confirm`, `AnsweredTooLate`,
`RegisterFails` and `SelfFence` are the steps of `start` and
`renew_until_stopped`; `StopServing`, `Drained` and `Exit` those of
`serve_actor_host`. `RenewalDone` and `TimerDone` end the scope of the local
variables of a renewal and of the wait for it.

### Executor and HostExecution

One host process, its Node process, some actors and operations (method calls,
socket events, disconnect events). An operation is `Check`ed (`validate_operation`),
`Admit`ted to its actor's gate, gets the lock in order of arrival (`Enter`, with
the second look at `accepting`) and the state to start from: the cached one, or a
snapshot if the cache has none of its epoch (`StartFrom`; `Elsewhere` are changes
made by other hosts). It has its command executed, perhaps twice (`StateRequired`),
and publishes. A gate is a number that lives as long as an
operation holds it, like the weak reference in `ActorExecutionLocks`. `Cancel`
drops the handler of a socket event at any point.

In Node, `worker` has an entry per actor with its instance's state, the commands
that run in it and the one promise (`slot`) its next message settles.
`SupervisorExecute` is the whole of `ActorWorkerSupervisor.execute`, capacity and
LRU eviction (`MakeRoom`) included. Workers return, throw, exit, and idle out.
A command is handled when it is sent and a reply delivered when it is made: the
stream in between is ordered and nothing the host does depends on the delay.

`Stop`, `DrainLoad`, `DrainWait`, `DrainTimeout`, `CloseExecutor`, `Unregister`
are the end of the process; the drain's test and its wait are two steps, so the
wake-up can be lost. `JoinPanics` is what happens if the executor's task was the
one that ended: `stop_host_tasks` joins it again.

### Provider and Routing

One actor, its requests (`Routes`), registrations of deployments (`Admins`),
hosts by id, and a pool of provider processes that carry out commands step by
step (`Look`, `Reuse`, `Discard`, `Create`, `Activate`, `WriteMetadata`) and can be
killed between any two. A sandbox is named after a revision and is known by the
host id it was created with. A request loads the deployment once and then goes
round `Get`, `Check`, `Provide`, `Validate`, `Claim`, `Reread`. `HostMatchesRevision`
is the prefix test of the code: `Prefixes` says which revision names go on from
which others after a dot. Leases expire whatever state the sandbox is in, and come back
with a late registration; `regained` records which requests had found the lease
missing before.

### SocketGateway

The registry of one actor, and per connection the task `run_connection`. An
event goes through `PrepareEvent` (or `LeaveLoop` and `PrepareDisconnect`: the
removal and the catalog are under two locks), the call (`Completed`,
`NotExecuted`, `CallLost`), the effects one by one (`ApplyOne`), and `Connected`,
`MessageDone` or `Disconnected`. An event whose call was lost may still be
committed (`LateCommit`), and nobody applies what it produced. The loop takes a
frame from the channel (`TakeOutbound`) and waits, without a timeout, until the
client has it (`Sent`). Workflows post effects of their own. A hook produces at most one
effect of the kinds in `ActorEffects`; a connect may reject its connection before
or after it, as `socket.ts` allows, and is followed by the state event if it does
not. A connection that was rejected is activated, and listed to the actor, until
its task has taken the Close. Pings and pongs are left out: answering one is a
send like any other.

### TargetCache

Time in ticks, tokens in whole seconds, hosts with a clock that may be off by
any of `Skews`. `SocketTarget` uses a cached target or joins the one resolution
under way (`Route`, `Issue`, `Resolved`: the token is issued before the route is
looked up). Hosts drain, unregister and die. `HostUnavailable` reaches the gateway
as a failed invocation (`src/grpc/wire.rs`), so the target stays in the cache and
nothing is tried again. A host verifies a token once (`Authenticate`); the call may
then wait for the actor's gate and state before it is answered or refused. The
workflow client caches with the same margin and
drops a target on the same failures.

## 3. What the runs check

Run one with `tlc -config <cfg> <module>`.

| run | cfg | instance | result |
|---|---|---|---|
| `durable_actor` | `MCDurableActor.cfg` | 2 hosts, a call and an event, 2 epochs, 2 versions, 3 uploads; hosts do not return, no cancelled handlers | holds: `TypeOK`, `ExactInv`, `NoLostUpdate`, `CacheCurrent`, `PendingResolvedFirst`, `CallNotReapplied`, `ImplementsAtomic` |
| `unrestricted` | `MCUnrestricted.cfg` | 2 hosts, an event, 3 epochs, 1 version, 2 uploads; hosts return, handlers are dropped | holds: `SafeInv`, `HeadReadable`, `LinearHistory`, `RepliesCommitted` |
| `returning_host` | `MCReturningHost.cfg` | 3 epochs, 3 versions, hosts return | `NoLostUpdate` is violated |
| `cancelled_socket` | `MCCancelledSocket.cfg` | 2 epochs, handlers are dropped | `PendingResolvedFirst` is violated |
| `host_lease` | `MCHostLease.cfg` | 2 sessions, half-millisecond ticks, lease 4 ms, registrations take at least 1.5 ms, stamps up to half a ms old | holds: `TypeOK`, `LeaseInv`, `ConfirmedIsHeld`, `ActiveLeaseKept` |
| `lease_rounding` | `MCLeaseRounding.cfg` | 2 sessions, lease 2 ms, registrations may take half a millisecond | `ConfirmedIsHeld` is violated |
| `prompt_lease` | `MCPromptLease.cfg` | 2 sessions, answers within 3 ticks, lease 10 ticks, no symmetry | holds: `NeverFenced`, `GoneHostLapses` |
| `socket_gateway` | `MCSocketGateway.cfg` | 2 connections with hooks that set metadata, send, close and reject, a message of one of them, a posted broadcast, 1 lost call | holds: `TypeOK`, `EventsOnce`, `CatalogAccepted`, `SnapshotFirst`, `MetadataCurrent`, `LifecycleOrder`, `Departs` |
| `host_execution` | `MCHostExecution.cfg` | a call and an event on one actor, a disconnect on another, room for one Worker and one hint | holds: `TypeOK`, `OneAtATime`, `ExecutesOnCached`, `WaitsForWorker`, `DrainedQuiet`, `StopEnds`, `Answered` |
| `routing` | `MCRouting.cfg` | 2 requests, 2 registrations, 3 hosts, 2 provider processes, unrelated revision names | holds: `TypeOK`, `OwnReply`, `RoutedRevision`, `RouteOfHost`, `NoSteal`, `RetriesForOthers` |
| `nested_revisions` | `MCNestedRevisions.cfg` | as `routing`, revisions 1.2.3 and 1.2 | `RoutedRevision` is violated |
| `target_cache` | `MCTargetCache.cfg` | 2 calls, 2 hosts, half-second ticks, targets of 3 s, hosts half a second ahead or behind | holds: `NotAfterExpiry`, `NotRefused`, `StaleBounded` |

The properties:

- `LinearHistory`: an epoch has one owner, a version one snapshot, no later epoch
  has an earlier version. `HeadReadable`: whatever capability a host is shown,
  the snapshot exists and passes the host's checks. `RepliesCommitted`: a
  completed reply reports a committed state. These need nothing of the
  environment.
- `NoLostUpdate`: each version is the one before it with its request applied.
  `CacheCurrent`: an owner's cache is at the head of its epoch or holds the
  commit that made the head. `PendingResolvedFirst`: no abandoned commit of a
  host can still create the version that its running execution will write.
  `ImplementsAtomic`: the whole implements `AtomicActor`. These need hosts that
  do not return and handlers that run to their end.
- `CallNotReapplied`: a method call repeated right after its commit is not
  applied again. It is proved without conditions on the environment.
- `ConfirmedIsHeld`: before its local deadline a serving host holds the active
  durable lease. `ActiveLeaseKept`: an active lease ends early only by its own
  session's unregistration, when that session no longer renews.
  `GoneHostLapses`: the lease of a dead process lapses for good. `NeverFenced`:
  prompt renewals keep a host alive.
- `OneAtATime`: one operation of an actor is under way at a time, although its
  gate comes and goes. `ExecutesOnCached`: whatever hints, idle timers, capacity
  and failures do, code runs on exactly the state the host holds, and a caller
  gets its own result, unless an event of the actor was dropped under way or a
  snapshot was loaded over a resident instance (`diverged`). `WaitsForWorker`: nobody waits for a reply that will not
  be made. `DrainedQuiet`: a host that has drained in time executes nothing but
  disconnects. `StopEnds`: a host that begins to stop comes to its end.
  `Answered`: if actor code returns, every admitted operation is answered.
- `OwnReply`: a reply read from a provider process is to the reader's command.
  `RoutedRevision`: a request is routed to a host of the deployment it loaded.
  `RouteOfHost`: the route leads to the host the capability is for, while it
  runs. `NoSteal`: a claim takes the actor from a host that serves the claimer's
  deployment under an active lease only if that lease came back after the claimer
  had found it missing (a late renewal may do that, `host_leases/postgres.rs`).
  `RetriesForOthers`: a request goes round again only when another one got the
  actor.
- `EventsOnce`, `LifecycleOrder`: the actor gets the events of a connection once
  and in order, except that lost calls may come late. `CatalogAccepted`: an event
  shows, besides its own connection, only connections whose connect the actor has
  committed; a rejected one is among them until it closes. `SnapshotFirst`: a client
  first hears what its own connect produced; one that is rejected gets no state event
  but may hear what the hook sent before it rejected. `MetadataCurrent`: the gateway
  shows the actor the metadata it set last, as long as only the connection's own
  events, none of them late, have set it. `Departs`: a connection the actor closes
  ends and leaves the registry, if clients take what is sent to them.
- `NotAfterExpiry`: no host accepts a call after the credential expired, by the
  host's own clock; `docs/system-architecture.md:36` enforces expiration "strictly
  at authentication", and what is accepted may wait in the host for any time.
  `NotRefused`: a call within the margin is not refused for its token while the
  clocks differ by no more than the leeway. `StaleBounded`: calls to a host that is
  gone end after the lease, a resolution and what is left of its targets.

**Bounds.** Two hosts are the old and the new owner. Three epochs let a host
return; two epochs are all that two hosts can have when they do not. Two
versions let a version be built on another host's; three uploads leave one
attempt that is never committed. `unrestricted` has one version because dropped
handlers multiply its states; the theorems cover the rest. The constants
of `host_lease` meet the condition of the theorems (`SlowEnough`) with nothing to
spare. Within `MaxSend` a session renews while its lease is confirmed, a
registration it gave up is carried out after the newer one that is in force, and
a lapsed lease is taken over by the other session; `MaxTime` is the end of the
last window that can be confirmed. `MaxInFlight` counts the registrations in the
air: the old one and the new one. In `prompt_lease` `MaxTime` exceeds `MaxSend` by
the lease and its rounding, so that every lease can be seen to lapse.
In `host_execution` two operations share an actor and a third needs the only
place for a Worker, so that capacity evicts, hints go wrong and a lock is waited
for; one change made elsewhere lets a loaded snapshot differ from the cache. In `routing` three hosts let an actor leave a host, and the host that
replaces it, and two registrations replace each other's deployments. In
`socket_gateway` a connect and a message that set metadata give it an order, the
other connection's hook sends before or without a rejection, and one lost call is
enough for every property to meet a late commit. `Limit` does not bind there: that
the registry keeps to it is `TypeCorrect`, for every limit. In `target_cache` the lifetime of a
target, the cache, the margin and the lease all end within `MaxTime`; the theorems
have no such bounds.

**Deadlock.** The runs do not check for deadlock: the bounds and the death of
all processes end every behaviour.

**Fairness.** In `HostLease` only time is fair; no process, message or timer has
to be for `GoneHostLapses`. `Prompt`, used in `prompt_lease` only, stops the clock
while an answer or a timer of a live session is overdue, also one that the bounds
withhold; `GoneHostLapses` is therefore about the behaviours in which time does go
on. The registrations of a dead session may take any time. In `SocketGateway` every connection's task
is scheduled and every call ends, because routing and the call to the host have
timeouts; clients may be silent for ever. They may also take nothing that is sent
to them: the loop then waits in `socket.send` or `close_socket` for ever and keeps
its place in the registry. That they do take it is the hypothesis of `Departs`. In `HostExecution` the task that stops
the host and the tasks of operations are scheduled, because drain, publication
and shutdown have timeouts. Actor code may run for ever: `StopEnds` does not need
it to return, and `Answered` states that it does as its hypothesis. `Routing` has
no fairness; that its loop makes progress is the action property
`RetriesForOthers`.

## 4. Where code and documentation disagree

1. *A host that returns* (`returning_host`). An actor's Node instance survives
   the loss of the actor, and `npm/host/worker/runtime.ts:78` prefers an existing
   instance to the state in the command. If the host owns the actor again, after
   another host committed, its code runs on the old instance and the commit, with
   the right epoch and version, replaces the other host's update.
   `docs/system-architecture.md:36` promises that the next host "restores the
   exact snapshot". Host ids are fresh for every sandbox, so this takes a
   deployment registered again while its old sandbox survived termination.
2. *A cancelled socket event* (`cancelled_socket`). Method calls run detached
   from their caller, socket events do not (`src/grpc/service.rs:71`). A cancelled
   call drops the handler and the cache entry it had taken, pending snapshot
   included; the next request executes without resolving that commit.
   `docs/system-architecture.md:42` says the host "retains the pending snapshot
   and retries the same idempotent commit before executing another request".
   The fencing still holds (`unrestricted`).
3. *Rounding of the lease* (`lease_rounding`). The host truncates, the database
   rounds; a registration that reaches the database within less than 2 ms can
   leave the local deadline up to 2 ms after the durable expiry, contrary to
   `src/host/lease_maintenance.rs:186`. From 2 ms on the comment is right
   (theorem `ConfirmedLeaseHeld`).

4. *Nested revision names* (`nested_revisions`). `host_matches_revision`
   (`src/control_plane/service.rs:1144`) tests for the prefix `<revision>.`, and a
   revision may contain dots. A host of 1.2.3 that survived its termination
   serves as a host of 1.2, with the replaced code, although
   `docs/system-architecture.md:36` says that "the next invocation claims a new
   host for the active revision". With names that are not nested in this way the
   property holds (`routing`).

Other behaviour a reader of the code may not expect, stated by the models:

- If the executor's task ends and thereby stops the host, `stop_host_tasks`
  (`src/host/process.rs:527`) joins the finished task a second time, which panics;
  the lease is not given back and lapses (`JoinPanics`, `StopEnds`).
- A drain that is about to wait when the last operation ends misses the
  notification and is ended by its timeout of 5 s (`DrainWait`, `DrainTimeout`).
- The reply of a socket event that was dropped under way can be taken for the
  reply of the next command of the actor (`npm/host/worker/supervisor.ts:220`);
  `ExecutesOnCached` excepts such actors.
- A capability of another epoch replaces the host's cached state by a snapshot and
  leaves the instance in Node as it is; `ExecutesOnCached` excepts these actors
  too, and `returning_host` shows what can come of it.
- A Worker that dies while idle fails the next invocation instead of being
  replaced by it.
- `HostUnavailable` is sent as a failed invocation, so `dispatch_socket_event`
  never gets to its second attempt and the target stays cached until it nears
  its expiry; `docs/system-architecture.md:40` says "the next frame provisions it
  again" (`Refuses`, `StaleBounded`).
- Two registrations that overlap can both terminate the hosts of the same
  predecessor and leave those of the deployment in between to idle out.
- A request that loaded a deployment before it was replaced can move the actor
  back to it.
- A connect whose call is lost may be committed and gets no disconnect; a
  broadcast applied before a connection is activated is missed by it although
  its snapshot is older; effects of different connections' events may be applied
  in another order than they were committed.

The default settings also make the renewal timeout (30 s) as long as the lease:
a renewal that hangs ends in self-fencing and is never retried.

## 5. What is proved

Proofs are checked with `tlapm <module>.tla`. They use no assumption but the
`ASSUME`s on the constants: the `No...` values are not members, tasks of
different kinds (calls and events, requests and registrations, connections and
posters) are disjoint, bounds and times are numbers, `RenewEvery < Duration`.
They hold for any number of hosts, requests, sessions, epochs, versions, uploads,
provider processes, actors, operations and connections. A condition that a
theorem needs beyond these stands in its statement.

**DurableActor.** `Safety` (`SafeInv` is invariant), and from it `TypeCorrect`,
`HeadsReadable`, `HistoryLinear`, `CompletedCommitted` and `CallsOnce`. None of
these is inductive alone. `SafeInv` adds:

- `RowHistory`: the row is the newest of its values, which ties `heads` to `row`;
- `HostInv`: a cache entry is a state some head stands for, in an epoch the host
  owned; a pending commit is for an uploaded snapshot one version ahead; and
  what each phase of an invocation may rely on;
- `LateUploaded`: the same for abandoned commits, so that a late commit installs
  only a snapshot that fits;
- `StoreFollowsHeads`: no snapshot is more than one version ahead of the head,
  nor repeats the call before it.

The steps that matter are those that change the row (`ClaimSafe`, `CommitSafe`
for both timely and late commits) or the store (`UploadSafe`); every other step
touches one host (`HostStepSafe`). The types are kept by a lemma of their own
(`DurableActorTypes_proofs`).

`Exactness` proves `ExactInv` under `HostsReturn = FALSE` and `Cancels = FALSE`,
and from it `NothingLost`, `CachesCurrent` and `PendingFirst`. `ExactInv` says
that a host owns at most one epoch, that its Node instance has the cached state
whenever code can run on it, that an abandoned commit is behind the cache or is
the pending one, and that every uploaded snapshot, committed or not, extends the
version before its own. The two violation runs show that neither condition can
be dropped.

**HostLease.** `TypeCorrect`; `LeaseKept` (`ActiveLeaseKept`) without
conditions; `ConfirmedLeaseHeld` for `Latency >= 2 * (TicksPerMs - 1) + Stall`:
what truncation and rounding lose, and the time an upsert may stall after its
stamp, is less than a registration's way to the database. The invariant
`LeaseInv` (`LeaseCovers`, under the same condition) says that the lease
outlasts the deadline in force by the rounding, that this deadline is recent
enough for *any* later registration of the session to cover it as well (so
abandoned registrations do no harm), and that a granted registration covers the
deadline it will lead to. `PromptHostServes` proves
`NeverFenced` when `RenewEvery + 2 * MaxRpc` and a millisecond fit into the
lease: with the default settings (30 s, renewal every 10 s) answers may take just
under 10 s.

**Refinement.** `Refinement` proves `ImplementsAtomic` under the conditions of
`Exactness`: the initial states correspond, a commit extends the history by the
request it carries (from `ExactInv`, which says that every uploaded snapshot
extends its predecessor), and no other step changes the history or answers with
anything but a version of it.

**TargetCache.** `TargetSafety` proves the invariant `TargetInv`, and `Expiry`,
`Accepted` and `StaleCallsEnd` derive `NotAfterExpiry`, `NotRefused` and
`StaleBounded` from it, for every lifetime, margin, leeway, clock difference,
number of hosts and length of a stage. `TargetInv` says that every target, issued,
cached or in use, was issued in the past for at most its lifetime and at most
until the credential expires; that one in use had the margin left when it came
from the cache; and that a target for a host that is gone was issued no later
than its lease's lapse and one stage.

**Routing.** `RoutingSafe` proves `RoutingInv`, and from it follow `Types`
(`TypeOK`), `Replied` (`OwnReply`), `EpochNamesHost` (`EpochOneHost`) and the
action properties `ClaimsNoneServed` (`NoSteal`) and `RetriesMeanProgress`
(`RetriesForOthers`). `RoutedToRevision` and `RouteLeadsToHost` prove
`RoutedRevision` and `RouteOfHost` if `Prefixes = {}`, that is, if no revision
name is another one up to a dot; `MCNestedRevisions` shows why the condition is
there. `RoutingInv` adds to the types:

- `HostsInv`: a sandbox gets a lease only once it is ready, and no two running
  sandboxes are of the same revision, whose name they would share;
- `HoldersInv`, `ProcessInv`: a task leases one process; a free process is as
  good as new, and a leased one has either its holder's command or the reply to
  it, which is why an abandoned exchange must cost the process;
- `RowKnown`, `EpochInv`: the owner in a row is a host that has had a lease, and
  rows of the same epoch, whoever has read them, have the same owner;
- `CacheInv`: where a cached public route leads;
- `TaskInv`: a request knows a row that was current once, has come this far only
  because that row's owner does not serve its deployment (which only the return of
  a lease undoes, and `regained` remembers that), and has found a host of its own
  deployment.

**HostExecution.** `HostSafety` proves `HostInv`, and from it follow
`TypeCorrect`, `OnePerActor` (`OneAtATime`), `AdmissionLimited`
(`AdmissionBound`), `RanOnCached` (`ExecutesOnCached`), `WaitersServed`
(`WaitsForWorker`) and `QuietOnceDrained` (`DrainedQuiet`). `HostInv` consists of

- `QueueInv`: every admitted operation is in its actor's queue once, and only the
  first of a queue executes;
- `ExecutorInv`: the supervisor has finitely many entries, at most `MaxResident`,
  and one for every Worker that runs code;
- `ActorInv`, for each actor: a waiting operation is the one its Worker will
  settle, no Worker with a running idle timer has one, and, unless the actor is in
  `diverged`, the instance has the state the host has cached, or that of the
  operation that has returned and not yet published;
- `ReplyInv`, `LifeInv`: who can be waiting in which phase, and that a host which
  drains has stopped accepting.

A step of one actor leaves another actor's `ActorInv` alone, or takes away an idle
Worker (`Same`): that makes the eviction by `makeRoomForActor` and the failure of
the whole connection the only steps that touch several actors.

**SocketGateway.** `GatewaySafety` proves `GatewayInv`, and from it follow
`TypeCorrect`, `TakenOnce` (`EventsOnce`), `ShownAccepted` (`CatalogAccepted`),
`HearsOwnConnectFirst` (`SnapshotFirst`), `MetadataFollows` (`MetadataCurrent`),
`CommitsInOrder` (`LifecycleOrder`, an action property), `RegisteredAlive`
(`EndedUnregistered`) and `SunkCommitted` (`SinkExact`). `GatewayInv` consists of

- `CommitInv`: whatever the actor has committed, or may still commit late, was
  dispatched and its call has ended (`Reached`), so that the event in dispatch is
  new and ranks after all of its connection's;
- `Lifecycle`, for each connection: where its task is, against the registry, its
  channel, the messages taken and its metadata;
- `Known`: the actor has committed the connect of a connection that has gone on
  to messages, and a catalogue shows only such connections;
- `AllPending`: the effects still to be applied are of the event in dispatch and
  are for its own connection or one whose connect is committed;
- `Greeted`: the first thing in the channel of a client that has heard nothing is
  from its own connect or closes it, and a connection is open to others' effects
  only when something is in the channel already: what a connect has yet to apply
  includes a send to its connection or the rejection, until one of them is in the
  channel (`OwnAhead`);
- `Tracked`: the metadata is that of the last event that set it.

A step of one connection's task leaves the other connections' conjuncts alone
(`LeftAlone`, `TaskKeeps`); effects reach them through the channel and the
metadata only (`Delivered`, `Applies`).

`EpochOneHost`, `AdmissionBound`, `EndedUnregistered` and `SinkExact` are proved
and are not properties of a run.

**Only model-checked.** Liveness (`GoneHostLapses`, `Departs`, `StopEnds`,
`Answered`), which is beyond the prover.

## 6. What is not modelled, and why

- *Commands and tokens.* The signing and verifying of tokens and URLs are pure
  functions of their input. A host's own token and its renewal on a refused
  command (`client.rs`) are left out: a refused command is one of the failures
  every command may have.
- *The provider without a pool.* `sandbox.rs` can also start one process per
  command; it has no state between commands. `warm_image` starts a sandbox that is
  no host and terminates it.
- *The executor's stream.* A connection that ends by a protocol violation while
  Node goes on, and a gRPC server that ends by itself, are not modelled: the
  first needs a fault in either end of the project's own protocol.
- *The workflow client's map.* `remoteClient.ts` keeps promises of targets; a failed
  resolution may delete a newer entry, which costs one resolution.
- *PostgreSQL.* Every statement is one atomic step, except that `Register` may
  stall after its stamp. Connection handling, settings, entry points, wiring and
  telemetry decide nothing.
- Clocks that run at different rates, and database failover that loses a
  committed row, are outside what the code is built for.
