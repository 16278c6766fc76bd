---------------------------- MODULE Routing ----------------------------
(***************************************************************************)
(* How the control plane finds the host of an actor (route_actor): it loads *)
(* the deployment, looks at the actor's placement and its owner's lease, has *)
(* a host provided when there is none, and claims the actor for it.  Calls   *)
(* run side by side, and deployments are replaced meanwhile.                *)
(*                                                                          *)
(* One actor.  What its hosts commit does not matter to a claim, so the      *)
(* state head of the placement row stays at version 0.                      *)
(***************************************************************************)
EXTENDS Provider

CONSTANTS Routes,       \* requests to resolve the actor
          Admins,       \* registrations of a deployment ...
          Deploys,      \* ... and the revision each of them registers
          NoRevision,   \* the namespace has no deployment
          Prefixes      \* pairs of revisions, the second being the first up to a dot

ASSUME TasksAssumption == Callers = Routes \cup Admins /\ Routes \cap Admins = {}
ASSUME DeploysAssumption == Deploys \in [Admins -> Revisions] /\ NoRevision \notin Revisions
ASSUME PrefixesAssumption == Prefixes \subseteq Revisions \X Revisions

VARIABLES deployment,   \* code_revision of the launch spec
          placement,
          publicRoutes, \* the cache: per host, the host its public route leads to
          at,           \* per task: where it is
          spec,         \* per task: the launch spec it has loaded
          current,      \* per task: the placement it has loaded, in the end its result
          found,        \* per task: the host it was given ...
          route,        \* ... and the host at the end of the route it returns
          regained      \* requests that found no active lease, which is back by now

tasks == <<at, spec, current, found, route>>
vars == <<hosts, pool, deployment, placement, publicRoutes, tasks, regained>>

\* From get to reread: the loop of route_actor; routed to asking: the rest of
\* resolve_workflow_route; upsert: a registration that has read what it replaces.
Places == {"new", "get", "check", "provide", "exchange", "validate", "claim", "reread",
           "routed", "lookup", "asking", "resolved", "upsert", "ended"}
Exchanging == {"exchange", "asking"}

\* route_actor has found that the owner does not serve, and gets the actor a host.
Looked(r) == at[r] \in {"provide", "exchange", "validate", "claim"}

\* route_actor has returned.
Routed(r) == at[r] \in {"routed", "lookup", "asking", "resolved"}

TypeOK ==
    /\ ProviderTypeOK
    /\ deployment \in Revisions \cup {NoRevision}
    /\ placement \in ObjectPlacement
    /\ publicRoutes \in [Hosts -> Hosts \cup {NoHost}]
    /\ at \in [Callers -> Places]
    /\ spec \in [Callers -> Revisions \cup {NoRevision}]
    /\ current \in [Callers -> ObjectPlacement]
    /\ found \in [Callers -> Hosts \cup {NoHost}]
    /\ route \in [Callers -> Hosts \cup {NoHost}]
    /\ regained \subseteq Routes
    /\ \A c \in Callers : at[c] \in Exchanging <=> \E p \in Processes : holder[p] = c

Init ==
    /\ ProviderInit
    /\ deployment = NoRevision
    /\ placement = NoPlacement
    /\ publicRoutes = [h \in Hosts |-> NoHost]
    /\ at = [c \in Callers |-> "new"]
    /\ spec = [c \in Callers |-> NoRevision]
    /\ current = [c \in Callers |-> NoPlacement]
    /\ found = [c \in Callers |-> NoHost]
    /\ route = [c \in Callers |-> NoHost]
    /\ regained = {}

-----------------------------------------------------------------------------
(* Commands to the provider.                                                *)

Goto(c, place) == at' = [at EXCEPT ![c] = place]

\* The task ends without a result; what it knew is gone.
Ends(c) ==
    /\ Goto(c, "ended")
    /\ spec' = [spec EXCEPT ![c] = NoRevision]
    /\ current' = [current EXCEPT ![c] = NoPlacement]
    /\ found' = [found EXCEPT ![c] = NoHost]
    /\ regained' = regained \ {c}

Operation(c) ==
    IF c \in Admins THEN "terminate_hosts"
    ELSE IF at[c] = "provide" THEN "ensure_host" ELSE "public_host_route"

Provide(c) ==
    /\ at[c] \in {"provide", "lookup"}
    /\ Exchange([by |-> c, revision |-> spec[c], operation |-> Operation(c)])
    /\ Goto(c, IF at[c] = "provide" THEN "exchange" ELSE "asking")
    /\ UNCHANGED <<deployment, placement, publicRoutes, spec, current, found, route, regained>>

\* The reply: a host to be checked, or a failure.  A registration only logs it.
Provided(c) ==
    \E p \in Processes :
        LET host == Head(process[p].output).host
        IN  /\ at[c] = "exchange" /\ holder[p] = c /\ TakeReply(p)
            /\ IF c \in Routes /\ host # NoHost
               THEN /\ Goto(c, "validate")
                    /\ found' = [found EXCEPT ![c] = host]
                    /\ UNCHANGED <<spec, current, regained>>
               ELSE Ends(c)
            /\ UNCHANGED <<deployment, placement, publicRoutes, route>>

\* The wait for a process, or for the reply, times out, or the task is cancelled.
TimesOut(c) ==
    /\ \/ at[c] \in {"provide", "lookup"} /\ UNCHANGED <<pool, hosts>>
       \/ \E p \in Processes : holder[p] = c /\ DropLease(p)
    /\ Ends(c)
    /\ UNCHANGED <<deployment, placement, publicRoutes, route>>

-----------------------------------------------------------------------------
(* register_deployment.                                                     *)

Quiet == UNCHANGED <<hosts, pool, placement, publicRoutes, current, found, route, regained>>

ReadPrevious(a) ==
    /\ at[a] = "new" /\ Goto(a, "upsert")
    /\ spec' = [spec EXCEPT ![a] = deployment]
    /\ Quiet /\ UNCHANGED deployment

\* A deployment that changes has the hosts of the one read before terminated.  It
\* changes with its revision, or with an image, directory or entrypoint, which are
\* not in the model.
Upsert(a) ==
    /\ at[a] = "upsert"
    /\ deployment' = Deploys[a]
    /\ \/ /\ spec[a] # NoRevision
          /\ Goto(a, "provide") /\ UNCHANGED <<spec, current, found, regained>>
       \/ /\ deployment = Deploys[a] \/ spec[a] = NoRevision
          /\ Ends(a)
    /\ UNCHANGED <<hosts, pool, placement, publicRoutes, route>>

-----------------------------------------------------------------------------
(* route_actor.                                                             *)

LoadSpec(r) ==
    /\ at[r] = "new"
    /\ spec' = [spec EXCEPT ![r] = deployment]
    /\ Goto(r, IF deployment = NoRevision THEN "ended" ELSE "get")
    /\ Quiet /\ UNCHANGED deployment

Get(r) ==
    /\ at[r] = "get" /\ Goto(r, "check")
    /\ current' = [current EXCEPT ![r] = placement]
    /\ UNCHANGED <<hosts, pool, deployment, placement, publicRoutes, spec, found, route>>
    /\ UNCHANGED regained

\* Mutant of HostMatchesRevision: any host of the namespace will do.
HostOfNamespace(h, r) == h # NoHost

\* host_matches_revision: the host id begins with the revision and a dot.
HostMatchesRevision(h, r) ==
    h # NoHost /\ (revision[h] = r \/ <<revision[h], r>> \in Prefixes)

\* active_target
Check(r) ==
    LET owner == current[r].owner
    IN  /\ at[r] = "check"
        /\ IF HostMatchesRevision(owner, spec[r]) /\ lease[owner] = "active"
           THEN Goto(r, "routed") /\ found' = [found EXCEPT ![r] = owner]
           ELSE Goto(r, "provide") /\ UNCHANGED found
        /\ UNCHANGED <<hosts, pool, deployment, placement, publicRoutes, spec, current, route>>
        /\ UNCHANGED regained

\* active_lease: a host whose lease is not active is an error.
Validate(r) ==
    /\ at[r] = "validate"
    /\ IF lease[found[r]] = "active"
       THEN Goto(r, "claim") /\ UNCHANGED <<spec, current, found, regained>>
       ELSE Ends(r)
    /\ UNCHANGED <<hosts, pool, deployment, placement, publicRoutes, route>>

\* Mutants of ClaimMatches: the update does not compare what was read; a row that
\* is not there is not inserted.
ClaimAlways(row, expected) == TRUE
ClaimUpdates(row, expected) ==
    row.epoch # 0 /\ row.owner = expected.owner /\ row.epoch = expected.epoch

\* The condition of the insert, and of the update.
ClaimMatches(row, expected) == row.owner = expected.owner /\ row.epoch = expected.epoch

\* claim: the statement matches, or the row is read again.
Claim(r) ==
    /\ at[r] = "claim"
    /\ IF current[r].owner # found[r] /\ ClaimMatches(placement, current[r])
       THEN /\ placement' = Claimed(placement, found[r])
            /\ current' = [current EXCEPT ![r] = placement']
            /\ Goto(r, "routed")
       ELSE Goto(r, "reread") /\ UNCHANGED <<placement, current>>
    /\ regained' = regained \ {r}
    /\ UNCHANGED <<hosts, pool, deployment, publicRoutes, spec, found, route>>

\* current_claim: another call has claimed the actor, for this host or for another.
Reread(r) ==
    /\ at[r] = "reread"
    /\ IF placement.owner = found[r]
       THEN Goto(r, "routed") /\ current' = [current EXCEPT ![r] = placement]
       ELSE Goto(r, "get") /\ UNCHANGED current
    /\ UNCHANGED <<hosts, pool, deployment, placement, publicRoutes, spec, found, route>>
    /\ UNCHANGED regained

-----------------------------------------------------------------------------
(* resolve_workflow_route, after the actor is routed.                       *)

Resolved(r, h) == Goto(r, "resolved") /\ route' = [route EXCEPT ![r] = h]

\* Mutant of CachedRoute: the routes are kept by revision.
CachedRouteOfRevision(h) ==
    LET known == {publicRoutes[g] : g \in {f \in Hosts : revision[f] = revision[h]}} \ {NoHost}
    IN  IF known = {} THEN NoHost ELSE CHOOSE g \in known : TRUE

CachedRoute(h) == publicRoutes[h]

\* The route in the lease, for a request that may use the private network; else
\* the public one, which the provider is asked for if it is not known.
SelectRoute(r) ==
    /\ at[r] = "routed"
    /\ \/ Resolved(r, found[r])
       \/ IF CachedRoute(found[r]) # NoHost
          THEN Resolved(r, CachedRoute(found[r]))
          ELSE Goto(r, "lookup") /\ UNCHANGED route
    /\ UNCHANGED <<hosts, pool, deployment, placement, publicRoutes, spec, current, found>>
    /\ UNCHANGED regained

PublicRoute(r) ==
    \E p \in Processes :
        LET host == Head(process[p].output).host
        IN  /\ at[r] = "asking" /\ holder[p] = r /\ TakeReply(p)
            /\ IF host = NoHost
               THEN Ends(r) /\ UNCHANGED <<route, publicRoutes>>
               ELSE /\ Resolved(r, host)
                    /\ publicRoutes' = [publicRoutes EXCEPT ![found[r]] = host]
                    /\ UNCHANGED <<spec, current, found, regained>>
            /\ UNCHANGED <<deployment, placement>>

-----------------------------------------------------------------------------
TaskStep(c) ==
    \/ Provide(c) \/ Provided(c) \/ TimesOut(c)
    \/ c \in Admins /\ (ReadPrevious(c) \/ Upsert(c))
    \/ c \in Routes
       /\ \/ LoadSpec(c) \/ Get(c) \/ Check(c) \/ Validate(c) \/ Claim(c) \/ Reread(c)
          \/ SelectRoute(c) \/ PublicRoute(c)

\* The lease of h is back, after requests have found it missing.
Regain(h) ==
    /\ LeaseReturns(h)
    /\ regained' = regained \cup {r \in Routes : Looked(r) /\ current[r].owner = h}

HostStep(h) ==
    \/ (HostReady(h) \/ HostExits(h) \/ HostDies(h) \/ LeaseExpires(h)) /\ UNCHANGED regained
    \/ Regain(h)

RestIdle == UNCHANGED <<deployment, placement, publicRoutes, tasks>>

Next ==
    \/ \E c \in Callers : TaskStep(c)
    \/ \E p \in Processes : ProviderStep(p) /\ RestIdle /\ UNCHANGED regained
    \/ \E h \in Hosts : HostStep(h) /\ RestIdle

Spec == Init /\ [][Next]_vars

-----------------------------------------------------------------------------
(* Properties.                                                              *)

\* Calls that were given the actor with the same owner epoch were given the same
\* host (placement.rs, claim): the epoch in a capability names one host.
EpochOneHost ==
    \A r, s \in Routes :
        (Routed(r) /\ Routed(s) /\ current[r].epoch = current[s].epoch)
            => found[r] = found[s]

\* A claim takes the actor from a host that serves the claimer's own deployment
\* under an active lease only if that lease has come back since the claimer looked
\* (route_actor, active_target), however long ago that was and whoever has claimed
\* the actor since: such a host may be at work on the actor.
NoSteal ==
    [][\A r \in Routes :
           (at[r] = "claim" /\ at'[r] = "routed" /\ r \notin regained)
               => ~(/\ HostMatchesRevision(placement.owner, spec[r])
                    /\ lease[placement.owner] = "active")]_vars

\* The reply a task is about to read is the one to its own command, although
\* exchanges are abandoned at any moment and processes are used again
\* (command_process.rs, exchange).
OwnReply ==
    \A p \in Processes :
        (holder[p] # NoCaller /\ process[p].output # <<>>)
            => Head(process[p].output).by = holder[p]

\* A call is routed to a host that was created for the deployment it loaded
\* (host_matches_revision): the next invocation after a replacement does not
\* go to a host of the replaced deployment.
RoutedRevision ==
    \A r \in Routes : Routed(r) => revision[found[r]] = spec[r]

\* The route that a request is given leads to the host its capability is for, as
\* long as that host runs (public_route), although the provider is asked for the
\* sandbox of a name and its answer is kept for later requests.
RouteOfHost ==
    \A r \in Routes :
        (at[r] = "resolved" /\ Running(found[r])) => route[r] = found[r]

\* A request goes round the loop of route_actor again only when another request
\* has moved the actor since it looked: however many there are, one gets on.
RetriesForOthers ==
    [][\A r \in Routes :
           (at[r] = "reread" /\ at'[r] = "get") => placement.epoch > current[r].epoch]_vars
=============================================================================
