----------------------------- MODULE TargetCache -----------------------------
(***************************************************************************)
(* How long the capabilities that authorize calls to a host live, and which *)
(* host a call reaches: the workflow credential, the invocation target that *)
(* resolve_workflow_route issues under it, the gateway's cache of targets,  *)
(* the retries of dispatch_socket_event, and the checks of the host, which  *)
(* has a clock of its own.  One actor, one principal, several events under  *)
(* way at a time.  Routing.tla has the choice of the host in full; here a   *)
(* host is routed to as long as its lease is active.                        *)
(*                                                                          *)
(* Time passes in ticks.  Tokens count whole seconds, as unix_seconds does. *)
(***************************************************************************)
EXTENDS Integers, FiniteSets

CONSTANTS
    Calls,          \* tasks of the gateway that dispatch events
    MaxHosts,       \* bound on the hosts that serve the actor one after another
    TicksPerSecond,
    Ttl,            \* INVOCATION_TARGET_TTL, seconds
    CacheTtl,       \* time_to_live of socket_targets, ticks
    Margin,         \* what a cached target must have left, seconds
    Leeway,         \* CLOCK_SKEW, seconds
    MaxLifetime,    \* lifetime of the issuer's tokens, seconds
    Grace,          \* WORKFLOW_DEADLINE_GRACE, ticks
    Deadlines,      \* ticks: deadlines workflows ask for, authenticators set
    Skews,          \* ticks: what a host's clock may be ahead, or behind
    LeaseDuration,  \* ticks: the lease of a host that is gone lapses by then
    Stage,          \* ticks: the longest call a resolution makes
    MaxTime         \* bound on time, ticks

ASSUME TargetAssumption ==
    /\ TicksPerSecond \in Nat \ {0} /\ MaxHosts \in Nat \ {0}
    /\ {Ttl, CacheTtl, Margin, Leeway, MaxLifetime, Grace, LeaseDuration, Stage, MaxTime} \subseteq Nat
    /\ LeaseDuration # 0 /\ Deadlines \subseteq Nat /\ Skews \subseteq Int

VARIABLES
    now,        \* the control plane's clock
    skew,       \* the hosts' clock minus the control plane's
    principal,  \* expires_at of the principal, a workflow or a socket's client
    host,       \* the host the placement names
    serving,    \* serving[h]: "yes", "draining" or "no"
    gone,       \* gone[h]: when h stopped renewing its lease
    lapses,     \* lapses[h]: when the lease of h is no longer active
    cache,      \* the entry of socket_targets
    resolving,  \* the initializer of try_get_with, shared by all that wait for it
    call        \* call[c]: the dispatch of c

clock == <<now, skew, principal>>
hosts == <<host, serving, gone, lapses>>
vars == <<clock, hosts, cache, resolving, call>>

Never == MaxTime + LeaseDuration + 1
Hosts == 1..MaxHosts

Seconds(t) == t \div TicksPerSecond
Now == Seconds(now)
HostNow == Seconds(now + skew)

Least(S) == CHOOSE x \in S : \A y \in S : x <= y
Greatest(a, b) == IF a > b THEN a ELSE b

-----------------------------------------------------------------------------
(* Tokens.                                                                  *)

Token == [host : Hosts, iat : Int, exp : Int]
NoToken == [host |-> 1, iat |-> 0, exp |-> 0]

\* The exp of a workflow's token: its deadline and some grace, but no longer
\* than any token lives.
IssueWorkflow(deadline) ==
    Seconds(Least({deadline + Grace, now + MaxLifetime * TicksPerSecond}))

\* A socket's client is authorized until its authenticator says, without a limit.
SocketAuthorized(expires) == expires > Now

ExpiresLate(issuing) == Least({issuing + Ttl, issuing + MaxLifetime})

\* The exp of a target: that of the workflow's credential at the latest.
TargetExpires(issuing) == Least({principal, issuing + Ttl, issuing + MaxLifetime})

\* What the host's verifier demands of the token of a request, by its own clock.
Verified(token) ==
    /\ token.exp > token.iat
    /\ token.exp - token.iat <= MaxLifetime
    /\ token.exp > HostNow
    /\ token.iat <= HostNow + Leeway

-----------------------------------------------------------------------------
\* sent: on its way to the host; accepted: authenticated there.
Phases == {"idle", "begin", "resolve", "sent", "accepted"}
NoCall == [phase |-> "idle", target |-> NoToken, sent |-> 0, cached |-> FALSE]
AcceptedBy(h) ==
    [phase |-> "accepted", target |-> [NoToken EXCEPT !.host = h], sent |-> 0, cached |-> FALSE]
NoEntry == [target |-> NoToken, stored |-> Never]
Quiescent == [stage |-> "none", since |-> 0, target |-> NoToken]

\* The type of the state.
TypeOK ==
    /\ now \in 0..MaxTime /\ skew \in Skews /\ principal \in Nat
    /\ host \in Hosts
    /\ serving \in [Hosts -> {"unborn", "yes", "draining", "no"}]
    /\ gone \in [Hosts -> 0..Never] /\ lapses \in [Hosts -> 0..Never]
    /\ cache \in [target : Token, stored : 0..Never]
    /\ resolving \in [stage : {"none", "route", "sign", "lookup"}, since : 0..MaxTime, target : Token]
    /\ call \in [Calls -> [phase : Phases, target : Token, sent : 0..MaxTime, cached : BOOLEAN]]

Init ==
    /\ now = 0 /\ skew \in Skews
    /\ \/ principal \in {IssueWorkflow(d) : d \in {d \in Deadlines : d > 0}}
       \/ principal \in {Seconds(d) : d \in Deadlines} /\ SocketAuthorized(principal)
    /\ host = 1
    /\ serving = [h \in Hosts |-> IF h = 1 THEN "yes" ELSE "unborn"]
    /\ gone = [h \in Hosts |-> Never] /\ lapses = [h \in Hosts |-> Never]
    /\ cache = NoEntry /\ resolving = Quiescent
    /\ call = [c \in Calls |-> NoCall]

\* Time passes, but no call of a resolution takes longer than Stage.
Tick ==
    /\ now < MaxTime
    /\ resolving.stage # "none" => now < resolving.since + Stage
    /\ now' = now + 1
    /\ UNCHANGED <<skew, principal, hosts, cache, resolving, call>>

-----------------------------------------------------------------------------
(* Hosts.                                                                   *)

Drain(h) ==
    /\ serving[h] = "yes"
    /\ serving' = [serving EXCEPT ![h] = "draining"]
    /\ UNCHANGED <<clock, host, gone, lapses, cache, resolving, call>>

\* The host unregisters at the end of its drain, or dies and its lease lapses.
Goes(h, lapse) ==
    /\ serving' = [serving EXCEPT ![h] = "no"]
    /\ gone' = [gone EXCEPT ![h] = now]
    /\ lapses' = [lapses EXCEPT ![h] = lapse]
    /\ UNCHANGED <<clock, host, cache, resolving, call>>

Exits(h) == serving[h] = "draining" /\ Goes(h, now)
Dies(h) == serving[h] \in {"yes", "draining"} /\ Goes(h, now + LeaseDuration)

-----------------------------------------------------------------------------
(* The gateway.                                                             *)

\* The call ends, with its answer or an error.  A task that dispatches again
\* begins anew.
End(c) == call' = [call EXCEPT ![c] = NoCall]

Dispatch(c) ==
    /\ call[c].phase = "idle"
    /\ call' = [call EXCEPT ![c].phase = "begin"]
    /\ UNCHANGED <<clock, hosts, cache, resolving>>

\* The cache drops an entry CacheTtl after it was stored.
Cached == cache.stored # Never /\ now < cache.stored + CacheTtl

\* A cached target that is not about to expire is used.
UsableUnlessExpired == Cached /\ cache.target.exp > Now
Usable == Cached /\ cache.target.exp > Now + Margin

\* socket_target, for an event of c.
SocketTarget(c) ==
    /\ call[c].phase = "begin"
    /\ \/ /\ principal <= Now
          /\ End(c) /\ UNCHANGED <<cache, resolving>>
       \/ /\ principal > Now /\ Usable
          /\ call' = [call EXCEPT ![c].phase = "sent", ![c].target = cache.target,
                                  ![c].sent = now, ![c].cached = TRUE]
          /\ UNCHANGED <<cache, resolving>>
       \/ /\ principal > Now /\ ~Usable
          /\ cache' = NoEntry
          /\ call' = [call EXCEPT ![c].phase = "resolve"]
          /\ resolving' = IF resolving.stage # "none" THEN resolving
                          ELSE [Quiescent EXCEPT !.stage = "route", !.since = now]
    /\ UNCHANGED <<clock, hosts>>

\* Everyone who waits for the resolution gets its error.
ResolutionFails ==
    /\ resolving.stage # "none"
    /\ resolving' = Quiescent
    /\ call' = [c \in Calls |-> IF call[c].phase = "resolve" THEN NoCall ELSE call[c]]
    /\ UNCHANGED <<clock, hosts, cache>>

\* route_actor: a placement whose host holds an active lease is kept, another
\* one goes to a new host.
Active(h) == now < lapses[h]
KeepsAny(h) == TRUE
Keeps(h) == Active(h)

Route ==
    /\ resolving.stage = "route"
    /\ \/ Keeps(host) /\ UNCHANGED <<host, serving>>
       \/ /\ ~Keeps(host) /\ host < MaxHosts
          /\ host' = host + 1
          /\ serving' = [serving EXCEPT ![host + 1] = "yes"]
    /\ resolving' = [stage |-> "sign", since |-> now, target |-> [NoToken EXCEPT !.host = host']]
    /\ UNCHANGED <<clock, gone, lapses, cache, call>>

\* The state's URL has been signed; the target is issued ...
Issue ==
    /\ resolving.stage = "sign"
    /\ TargetExpires(Now) > Now
    /\ resolving' = [stage |-> "lookup", since |-> now,
                     target |-> [resolving.target EXCEPT !.iat = Now, !.exp = TargetExpires(Now)]]
    /\ UNCHANGED <<clock, hosts, cache, call>>

\* ... and cached once the public route of its host is known.  Those who wait
\* use it as it is.
Resolved ==
    /\ resolving.stage = "lookup"
    /\ cache' = [target |-> resolving.target, stored |-> now]
    /\ call' = [c \in Calls |->
                   IF call[c].phase # "resolve" THEN call[c]
                   ELSE [call[c] EXCEPT !.phase = "sent", !.target = resolving.target,
                                        !.sent = now, !.cached = FALSE]]
    /\ resolving' = Quiescent
    /\ UNCHANGED <<clock, hosts>>

-----------------------------------------------------------------------------
(* The host answers, or the call fails.                                     *)

\* A connection that fails, a call that times out and a status of the host, as
\* for a token it does not accept, all cost the target its place in the cache.
KeepsTarget(c) == End(c) /\ UNCHANGED cache
DropsTarget(c) == End(c) /\ cache' = NoEntry

Serves(h) == serving[h] \in {"yes", "draining"}

\* The host verifies the token, once, when the request arrives.  What it accepts
\* may then wait for its actor's gate and for the actor's state; of the token, all
\* that counts is the host it has reached.
Authenticate(c) ==
    /\ call[c].phase = "sent"
    /\ Serves(call[c].target.host) /\ Verified(call[c].target)
    /\ call' = [call EXCEPT ![c] = AcceptedBy(call[c].target.host)]
    /\ UNCHANGED <<clock, hosts, cache, resolving>>

Answered(c) ==
    /\ call[c].phase = "accepted" /\ Serves(call[c].target.host)
    /\ End(c)
    /\ UNCHANGED <<clock, hosts, cache, resolving>>

\* The host is draining, or has admitted enough for the actor: HostUnavailable.
\* Its reply states that as a failed invocation, so that the error is final, the
\* target stays, and dispatch_socket_event has nothing it would try again.
Refuses(c) ==
    /\ call[c].phase = "accepted" /\ Serves(call[c].target.host)
    /\ KeepsTarget(c)
    /\ UNCHANGED <<clock, hosts, resolving>>

CallFails(c) ==
    /\ call[c].phase \in {"sent", "accepted"}
    /\ DropsTarget(c)
    /\ UNCHANGED <<clock, hosts, resolving>>

-----------------------------------------------------------------------------
CallStep(c) ==
    \/ Dispatch(c) \/ SocketTarget(c) \/ Authenticate(c)
    \/ Answered(c) \/ Refuses(c) \/ CallFails(c)
Resolution == Route \/ Issue \/ Resolved \/ ResolutionFails
HostStep(h) == Drain(h) \/ Exits(h) \/ Dies(h)

Next ==
    \/ Tick
    \/ \E c \in Calls : CallStep(c)
    \/ Resolution
    \/ \E h \in Hosts : HostStep(h)

Spec == Init /\ [][Next]_vars

-----------------------------------------------------------------------------
(* Correctness.                                                             *)

\* What a host accepts, it accepts before the principal's credential has expired
\* by its own clock (handle_socket, verify_capability): the credential bounds the
\* target, whatever the target's own lifetime, however long it has been cached
\* and the call under way.  How long an accepted call then waits is not bounded.
NotAfterExpiry ==
    [][\A c \in Calls :
          call[c].phase = "sent" /\ call'[c].phase = "accepted" => HostNow < principal]_vars

\* A call that takes less than the margin is not turned away for its token, if
\* the clocks differ by no more than the leeway.  That holds for a cached target
\* and for a new one unless finding the public route has used up its lifetime.
NotRefused ==
    \A c \in Calls :
        /\ call[c].phase = "sent"
        /\ HostNow <= Seconds(call[c].sent) + Margin
        /\ HostNow + Leeway >= Seconds(call[c].sent)
        /\ call[c].cached \/ call[c].target.exp > Seconds(call[c].sent) + Margin
        => Verified(call[c].target)

\* A host that is gone gets no more calls once its lease has lapsed and the
\* targets issued until then are used up: one more resolution may be under way
\* when the lease lapses, and takes as long as signing and the public route do.
StaleBounded ==
    \A c \in Calls :
        call[c].phase = "sent" =>
            call[c].sent < gone[call[c].target.host] + LeaseDuration + Stage
                             + Greatest(Stage, (Ttl - Margin) * TicksPerSecond)

=============================================================================
