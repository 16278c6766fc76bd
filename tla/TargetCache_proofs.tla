------------------------- MODULE TargetCache_proofs -------------------------
(***************************************************************************)
(* What TargetCache promises, for all lifetimes, margins and clocks.        *)
(***************************************************************************)
EXTENDS TargetCache, TLAPS

-----------------------------------------------------------------------------
(* Arithmetic.                                                              *)

\* Least of two or three numbers is one of them and bounds them all.
LEMMA LeastOfTwo ==
  ASSUME NEW a \in Int, NEW b \in Int
  PROVE  Least({a, b}) \in {a, b} /\ Least({a, b}) <= a /\ Least({a, b}) <= b
<1>1. \E x \in {a, b} : \A y \in {a, b} : x <= y
  OBVIOUS
<1>2. QED
  BY <1>1, Zenon DEF Least

LEMMA LeastOfThree ==
  ASSUME NEW a \in Int, NEW b \in Int, NEW c \in Int
  PROVE  /\ Least({a, b, c}) \in {a, b, c}
         /\ Least({a, b, c}) <= a /\ Least({a, b, c}) <= b /\ Least({a, b, c}) <= c
<1>1. \E x \in {a, b, c} : \A y \in {a, b, c} : x <= y
  OBVIOUS
<1>2. QED
  BY <1>1, Zenon DEF Least

\* A second begins no later than its ticks, and ends after them (unix_seconds).
LEMMA SecondOf ==
  ASSUME NEW t \in Int
  PROVE  /\ Seconds(t) \in Int
         /\ Seconds(t) * TicksPerSecond <= t
         /\ \A k \in Int : Seconds(t) < k => t < k * TicksPerSecond
<1>1. TicksPerSecond \in Int /\ TicksPerSecond > 0
  BY TargetAssumption
<1>2. /\ Seconds(t) \in Int
      /\ Seconds(t) * TicksPerSecond <= t /\ t < (Seconds(t) + 1) * TicksPerSecond
  BY <1>1 DEF Seconds
<1>3. ASSUME NEW k \in Int, Seconds(t) < k
      PROVE  (Seconds(t) + 1) * TicksPerSecond <= k * TicksPerSecond
  BY <1>1, <1>2, <1>3
<1>4. QED
  BY <1>1, <1>2, <1>3

\* Seconds do not go back while time passes.
LEMMA SecondsGrow ==
  ASSUME NEW t \in Int, NEW u \in Int, t <= u
  PROVE  Seconds(t) <= Seconds(u)
<1>1. TicksPerSecond \in Int /\ TicksPerSecond > 0 /\ Seconds(t) \in Int /\ Seconds(u) \in Int
  BY TargetAssumption, SecondOf
<1>2. ASSUME Seconds(u) < Seconds(t) PROVE FALSE
  <2>1. u < Seconds(t) * TicksPerSecond /\ Seconds(t) * TicksPerSecond <= t
    BY <1>1, <1>2, SecondOf, Zenon
  <2>2. QED
    BY <1>1, <2>1
<1>3. QED
  BY <1>1, <1>2

-----------------------------------------------------------------------------
(* The inductive invariant.  A resolution chooses its host while that host   *)
(* may still hold a lease, so each token says when at the latest its host    *)
(* was gone; and a token is bounded by the credential it was issued under.   *)

Window == Greatest(Stage, (Ttl - Margin) * TicksPerSecond)

\* A moment at which the host was not gone for longer than its lease, and slack.
Within(t, h, slack) == t < gone[h] + LeaseDuration + slack

TokenInv(token) ==
    /\ token.iat <= Now /\ token.iat < token.exp
    /\ token.exp <= principal /\ token.exp <= token.iat + Ttl
    /\ token.exp <= token.iat + MaxLifetime
    /\ Within(token.iat * TicksPerSecond, token.host, Stage)

ResolvingInv ==
    /\ resolving.stage # "none" => resolving.since <= now /\ now <= resolving.since + Stage
    /\ resolving.stage = "sign" => Within(resolving.since, resolving.target.host, 0)
    /\ resolving.stage = "lookup" =>
          /\ Within(resolving.since, resolving.target.host, Stage)
          /\ TokenInv(resolving.target)

CallInv(c) ==
    call[c].phase = "sent" =>
        /\ call[c].sent <= now /\ Within(call[c].sent, call[c].target.host, Stage + Window)
        /\ call[c].target.exp <= principal
        /\ call[c].target.iat < call[c].target.exp
        /\ call[c].target.exp <= call[c].target.iat + MaxLifetime
        /\ call[c].target.iat <= Seconds(call[c].sent)
        /\ call[c].cached => call[c].target.exp > Seconds(call[c].sent) + Margin

HostsInv ==
    \A h \in Hosts : /\ lapses[h] <= gone[h] + LeaseDuration
                     /\ h > host => serving[h] = "unborn" /\ gone[h] = Never

TargetInv ==
    /\ TypeOK /\ HostsInv /\ ResolvingInv
    /\ cache.stored # Never => TokenInv(cache.target)
    /\ \A c \in Calls : CallInv(c)

\* The constants are numbers.
LEMMA Numbers ==
  /\ TicksPerSecond \in Nat /\ TicksPerSecond > 0 /\ MaxHosts \in Nat /\ 1 \in Hosts
  /\ Ttl \in Nat /\ CacheTtl \in Nat /\ Margin \in Nat /\ Leeway \in Nat /\ MaxLifetime \in Nat
  /\ Grace \in Nat /\ LeaseDuration \in Nat /\ LeaseDuration > 0 /\ Stage \in Nat /\ MaxTime \in Nat
  /\ Never \in Nat /\ Never > MaxTime /\ Window \in Int /\ Window >= Stage
  /\ Window >= (Ttl - Margin) * TicksPerSecond
<1>1. /\ TicksPerSecond \in Nat /\ TicksPerSecond > 0 /\ MaxHosts \in Nat /\ 1 \in Hosts
      /\ Ttl \in Nat /\ CacheTtl \in Nat /\ Margin \in Nat /\ Leeway \in Nat /\ MaxLifetime \in Nat
      /\ Grace \in Nat /\ LeaseDuration \in Nat /\ LeaseDuration > 0 /\ Stage \in Nat /\ MaxTime \in Nat
  BY TargetAssumption DEF Hosts
<1>2. (Ttl - Margin) * TicksPerSecond \in Int
  BY <1>1
<1>3. QED
  BY <1>1, <1>2 DEF Never, Window, Greatest

\* Values of variables are numbers.
LEMMA StateNumbers ==
  ASSUME TypeOK
  PROVE  /\ now \in Nat /\ now <= MaxTime /\ skew \in Int /\ principal \in Nat /\ Now \in Int
         /\ host \in Hosts /\ HostNow \in Int
         /\ \A h \in Hosts : gone[h] \in Nat /\ gone[h] <= Never /\ lapses[h] \in Nat
<1>1. now \in Nat /\ now <= MaxTime /\ skew \in Int /\ principal \in Nat /\ host \in Hosts
  BY Numbers, TargetAssumption DEF TypeOK
<1>2. Now \in Int /\ HostNow \in Int
  BY <1>1, SecondOf DEF Now, HostNow
<1>3. \A h \in Hosts : gone[h] \in Nat /\ gone[h] <= Never /\ lapses[h] \in Nat
  BY Numbers DEF TypeOK
<1>4. QED
  BY <1>1, <1>2, <1>3, Zenon

\* The target that is issued has a lifetime, but not a longer one than those of
\* the credential and of the issuer (issue_invocation_target).
LEMMA TargetLifetime ==
  ASSUME TypeOK
  PROVE  /\ TargetExpires(Now) \in Int /\ TargetExpires(Now) <= principal
         /\ TargetExpires(Now) <= Now + Ttl /\ TargetExpires(Now) <= Now + MaxLifetime
<1>1. principal \in Int /\ Now + Ttl \in Int /\ Now + MaxLifetime \in Int
  BY StateNumbers, Numbers
<1>2. QED
  BY <1>1, LeastOfThree, Zenon DEF TargetExpires

\* The initial state has the types, whatever deadline the workflow asks for
\* (issue_workflow).
LEMMA InitTypes == Init => TypeOK
<1> SUFFICES ASSUME Init PROVE TypeOK
  BY Zenon
<1>1. now = 0 /\ now \in 0..MaxTime /\ skew \in Skews /\ host \in Hosts
  BY Numbers DEF Init
<1>2. principal \in Nat
  <2>1. PICK d \in Deadlines : principal = IssueWorkflow(d) \/ principal = Seconds(d)
    BY Zenon DEF Init
  <2>2. d \in Nat /\ d + Grace \in Nat /\ now + MaxLifetime * TicksPerSecond \in Nat
    BY <1>1, <2>1, Numbers, TargetAssumption
  <2>3. Least({d + Grace, now + MaxLifetime * TicksPerSecond}) \in Nat
    <3>1. ASSUME NEW a \in Nat, NEW b \in Nat PROVE Least({a, b}) \in Nat
      BY LeastOfTwo
    <3>2. QED
      BY <2>2, <3>1, Zenon
  <2>4. Seconds(0) = 0
    BY Numbers DEF Seconds
  <2>5. \A t \in Nat : Seconds(t) \in Int /\ Seconds(0) <= Seconds(t)
    BY SecondsGrow, SecondOf
  <2>6. principal \in Int /\ Seconds(0) <= principal
    BY <2>1, <2>2, <2>3, <2>5, Zenon DEF IssueWorkflow
  <2>7. QED
    BY <2>4, <2>6
<1>3. serving \in [Hosts -> {"unborn", "yes", "draining", "no"}]
  BY Zenon DEF Init
<1>4. gone \in [Hosts -> 0..Never] /\ lapses \in [Hosts -> 0..Never]
  BY Numbers DEF Init
<1>5. NoToken \in Token
  BY Numbers DEF NoToken, Token
<1>6. cache \in [target : Token, stored : 0..Never]
  BY <1>5, Numbers DEF Init, NoEntry
<1>7. resolving \in [stage : {"none", "route", "sign", "lookup"}, since : 0..MaxTime, target : Token]
  BY <1>5, Numbers DEF Init, Quiescent
<1>8. call \in [Calls -> [phase : Phases, target : Token, sent : 0..MaxTime, cached : BOOLEAN]]
  BY <1>5, Numbers DEF Init, NoCall, Phases
<1>9. QED
  BY <1>1, <1>2, <1>3, <1>4, <1>6, <1>7, <1>8, Zenon DEF TypeOK

CallType == [phase : Phases, target : Token, sent : 0..MaxTime, cached : BOOLEAN]

\* The values that stand for nothing have the types of what they stand in for.
LEMMA NothingTypes ==
  /\ NoToken \in Token /\ NoCall \in CallType
  /\ NoEntry \in [target : Token, stored : 0..Never]
  /\ Quiescent \in [stage : {"none", "route", "sign", "lookup"}, since : 0..MaxTime, target : Token]
<1>1. NoToken \in Token
  BY Numbers DEF NoToken, Token
<1>2. QED
  BY <1>1, Numbers DEF NoCall, CallType, Phases, NoEntry, Quiescent

\* Steps of the gateway's tasks keep the types (dispatch_socket_event).
LEMMA CallTypes ==
  ASSUME TypeOK, NEW c \in Calls, CallStep(c)
  PROVE  TypeOK'
<1>1. /\ call \in [Calls -> CallType] /\ now \in 0..MaxTime /\ cache.target \in Token
      /\ call[c] \in CallType
  BY Zenon DEF TypeOK, CallType
<1> DEFINE Rest == /\ UNCHANGED <<clock, hosts>>
                   /\ cache' = cache \/ cache' = NoEntry
<1>2. ASSUME Rest, resolving' = resolving \/ resolving' = [Quiescent EXCEPT !.stage = "route", !.since = now],
             call' \in [Calls -> CallType]
      PROVE  TypeOK'
  <2>1. resolving' \in [stage : {"none", "route", "sign", "lookup"}, since : 0..MaxTime, target : Token]
    BY <1>1, <1>2, NothingTypes, Zenon DEF TypeOK, Quiescent
  <2>2. cache' \in [target : Token, stored : 0..Never]
    BY <1>2, NothingTypes, Zenon DEF TypeOK
  <2>3. QED
    BY <1>2, <2>1, <2>2, Zenon DEF TypeOK, clock, hosts, CallType
<1>3. ASSUME End(c) PROVE call' \in [Calls -> CallType]
  BY <1>1, <1>3, NothingTypes, Zenon DEF End
<1>4. CASE Dispatch(c)
  <2>1. [call[c] EXCEPT !.phase = "begin"] \in CallType
    BY <1>1, Zenon DEF CallType, Phases
  <2>2. call' \in [Calls -> CallType]
    BY <1>1, <1>4, <2>1, Zenon DEF Dispatch
  <2>3. QED
    BY <1>2, <1>4, <2>2, Zenon DEF Dispatch
<1>5. CASE SocketTarget(c)
  <2>1. /\ [call[c] EXCEPT !.phase = "sent", !.target = cache.target, !.sent = now, !.cached = TRUE] \in CallType
        /\ [call[c] EXCEPT !.phase = "resolve"] \in CallType
    BY <1>1, Zenon DEF CallType, Phases
  <2>2. call' \in [Calls -> CallType]
    BY <1>1, <1>3, <1>5, <2>1, Zenon DEF SocketTarget
  <2>3. Rest /\ (resolving' = resolving \/ resolving' = [Quiescent EXCEPT !.stage = "route", !.since = now])
    BY <1>5, Zenon DEF SocketTarget
  <2>4. QED
    BY <1>2, <2>2, <2>3, Zenon
<1>6. CASE Answered(c)
  BY <1>2, <1>3, <1>6, Zenon DEF Answered
<1>7. CASE Refuses(c)
  BY <1>2, <1>3, <1>7, Zenon DEF Refuses, KeepsTarget
<1>8. CASE CallFails(c)
  BY <1>2, <1>3, <1>8, Zenon DEF CallFails, DropsTarget
<1>9. CASE Authenticate(c)
  <2>1. AcceptedBy(call[c].target.host) \in CallType
    BY <1>1, NothingTypes, Numbers DEF AcceptedBy, CallType, Phases, NoCall, NoToken, Token
  <2>2. call' \in [Calls -> CallType]
    BY <1>1, <1>9, <2>1, Zenon DEF Authenticate
  <2>3. QED
    BY <1>2, <1>9, <2>2, Zenon DEF Authenticate
<1>10. QED
  BY <1>4, <1>5, <1>6, <1>7, <1>8, <1>9, Zenon DEF CallStep

\* Steps of the resolution keep the types (resolve_workflow_route).
LEMMA ResolutionTypes ==
  ASSUME TypeOK, Resolution
  PROVE  TypeOK'
<1> DEFINE RT == [stage : {"none", "route", "sign", "lookup"}, since : 0..MaxTime, target : Token]
<1>1. /\ call \in [Calls -> CallType] /\ now \in 0..MaxTime /\ now <= MaxTime /\ now \in Nat
      /\ resolving \in RT /\ resolving.target \in Token /\ host \in 1..MaxHosts /\ Never > MaxTime
      /\ Never \in Nat /\ MaxHosts \in Nat
  BY StateNumbers, Numbers, Zenon DEF TypeOK, CallType, Hosts
<1>2. CASE Route
  <2>0. host' \in Hosts
    BY <1>1, <1>2 DEF Route, Hosts
  <2>1. host' \in Hosts /\ serving' \in [Hosts -> {"unborn", "yes", "draining", "no"}]
    BY <1>2, <2>0, Zenon DEF Route, TypeOK
  <2>2. [NoToken EXCEPT !.host = host'] \in Token
    BY <2>1, NothingTypes, Zenon DEF Token
  <2>3. resolving' \in RT
    BY <1>1, <1>2, <2>2, Zenon DEF Route
  <2>4. QED
    BY <1>2, <2>1, <2>3, Zenon DEF Route, TypeOK, clock
<1>3. CASE Issue
  <2>1. [resolving.target EXCEPT !.iat = Now, !.exp = TargetExpires(Now)] \in Token
    BY <1>1, StateNumbers, TargetLifetime, Zenon DEF Token
  <2>2. resolving' \in RT
    BY <1>1, <1>3, <2>1, Zenon DEF Issue
  <2>3. QED
    BY <1>3, <2>2, Zenon DEF Issue, TypeOK, clock, hosts
<1>4. CASE Resolved
  <2>0. now \in 0..Never
    BY <1>1, Numbers
  <2>1. cache' \in [target : Token, stored : 0..Never]
    BY <1>1, <1>4, <2>0, Zenon DEF Resolved
  <2>2. ASSUME NEW c \in Calls
        PROVE  [call[c] EXCEPT !.phase = "sent", !.target = resolving.target,
                               !.sent = now, !.cached = FALSE] \in CallType
    BY <1>1, Zenon DEF CallType, Phases
  <2>3. call' \in [Calls -> CallType]
    BY <1>1, <1>4, <2>2, Zenon DEF Resolved
  <2>4. QED
    BY <1>4, <2>1, <2>3, NothingTypes, Zenon DEF Resolved, TypeOK, clock, hosts, CallType
<1>5. CASE ResolutionFails
  <2>1. call' \in [Calls -> CallType]
    BY <1>1, <1>5, NothingTypes, Zenon DEF ResolutionFails
  <2>2. QED
    BY <1>5, <2>1, NothingTypes, Zenon DEF ResolutionFails, TypeOK, clock, hosts, CallType
<1>6. QED
  BY <1>2, <1>3, <1>4, <1>5, Zenon DEF Resolution

\* Every step keeps the types.
LEMMA NextTypes == TypeOK /\ [Next]_vars => TypeOK'
<1> SUFFICES ASSUME TypeOK, [Next]_vars PROVE TypeOK'
  BY Zenon
<1>1. CASE Tick
  <2>1. now' \in 0..MaxTime
    BY <1>1, Numbers DEF Tick, TypeOK
  <2>2. QED
    BY <1>1, <2>1, Zenon DEF Tick, TypeOK, hosts
<1>2. ASSUME NEW h \in Hosts, HostStep(h) PROVE TypeOK'
  <2>1. now \in 0..Never /\ now + LeaseDuration \in 0..Never
    BY StateNumbers, Numbers DEF Never
  <2>2. serving' \in [Hosts -> {"unborn", "yes", "draining", "no"}]
    BY <1>2, Zenon DEF HostStep, Drain, Exits, Dies, Goes, TypeOK
  <2>3. gone' \in [Hosts -> 0..Never] /\ lapses' \in [Hosts -> 0..Never]
    BY <1>2, <2>1 DEF HostStep, Drain, Exits, Dies, Goes, TypeOK
  <2>4. UNCHANGED <<clock, host, cache, resolving, call>>
    BY <1>2, Zenon DEF HostStep, Drain, Exits, Dies, Goes
  <2>5. QED
    BY <2>2, <2>3, <2>4, Zenon DEF TypeOK, clock
<1>3. CASE UNCHANGED vars
  BY <1>3, Zenon DEF vars, clock, hosts, TypeOK
<1>4. QED
  BY <1>1, <1>2, <1>3, CallTypes, ResolutionTypes, Zenon DEF Next

-----------------------------------------------------------------------------
(* TargetInv is inductive.                                                  *)

\* In a step time does not go back, and a host may be gone as of now.
Passes ==
    /\ TypeOK /\ TypeOK' /\ now <= now' /\ principal' = principal
    /\ \A h \in Hosts : gone'[h] = gone[h] \/ gone'[h] = now'

\* A moment that was within bounds stays there.
LEMMA WithinKept ==
  ASSUME Passes, NEW t \in Int, t <= now, NEW h \in Hosts, NEW slack \in Nat, Within(t, h, slack)
  PROVE  Within(t, h, slack)'
<1>1. now \in Nat /\ now' \in Nat /\ gone[h] \in Nat /\ LeaseDuration \in Nat /\ LeaseDuration > 0
  BY StateNumbers, Numbers DEF Passes, TypeOK
<1>2. QED
  BY <1>1 DEF Passes, Within

\* So does a token.
LEMMA TokenKept ==
  ASSUME Passes, NEW token \in Token, TokenInv(token)
  PROVE  TokenInv(token)'
<1>1. now \in Int /\ now' \in Int /\ Now \in Int /\ Now <= Now' /\ Now' \in Int
      /\ TicksPerSecond \in Nat /\ Stage \in Nat
  <2>1. now \in Int /\ Now \in Int
    BY StateNumbers DEF Passes
  <2>2. now' \in Int /\ now <= now'
    BY Numbers DEF Passes, TypeOK
  <2>3. Now <= Now' /\ Now' \in Int
    BY <2>1, <2>2, SecondOf, SecondsGrow, Zenon DEF Now
  <2>4. QED
    BY <2>1, <2>2, <2>3, Numbers, Zenon
<1>2. token.iat \in Int /\ token.exp \in Int /\ token.host \in Hosts
  BY Zenon DEF Token
<1>3. token.iat <= Now
  BY Zenon DEF TokenInv
<1>4. token.iat * TicksPerSecond <= Now * TicksPerSecond
  BY <1>1, <1>2, <1>3
<1>5. token.iat * TicksPerSecond \in Int /\ token.iat * TicksPerSecond <= now
  <2>1. Now * TicksPerSecond <= now
    BY <1>1, SecondOf, Zenon DEF Now
  <2>2. token.iat * TicksPerSecond \in Int /\ Now * TicksPerSecond \in Int
    BY <1>1, <1>2
  <2>3. QED
    BY <1>1, <1>4, <2>1, <2>2
<1>6. Within(token.iat * TicksPerSecond, token.host, Stage)'
  BY <1>1, <1>2, <1>5, WithinKept, Zenon DEF TokenInv
<1>7. token.iat <= Now'
  BY <1>1, <1>2, <1>3
<1>8. QED
  BY <1>6, <1>7, Zenon DEF TokenInv, Passes

\* So does the cached token.
LEMMA CacheKept ==
  ASSUME Passes, cache.stored # Never => TokenInv(cache.target), cache' = cache
  PROVE  (cache.stored # Never => TokenInv(cache.target))'
<1>1. cache.target \in Token
  BY Zenon DEF Passes, TypeOK
<1>2. ASSUME NEW token \in Token, TokenInv(token), token = cache.target PROVE TokenInv(cache.target)'
  <2>1. TokenInv(token)'
    BY <1>2, TokenKept, Zenon
  <2>2. token = cache'.target
    BY <1>2, Zenon
  <2>3. QED
    BY <2>1, <2>2, Zenon DEF TokenInv, Within
<1>3. QED
  BY <1>1, <1>2, Zenon

\* So does a call that the step leaves alone.
LEMMA CallKept ==
  ASSUME Passes, NEW c \in Calls, CallInv(c), call'[c] = call[c]
  PROVE  CallInv(c)'
<1>1. call[c].sent \in Int /\ call[c].target.host \in Hosts /\ call[c].target.iat \in Int
  BY Numbers DEF Passes, TypeOK, Token
<1>2. Stage + Window \in Nat
  BY Numbers
<1>3. SUFFICES ASSUME call[c].phase = "sent" PROVE CallInv(c)'
  BY Zenon DEF CallInv
<1>4. call[c].sent <= now /\ Within(call[c].sent, call[c].target.host, Stage + Window)
  BY <1>3, Zenon DEF CallInv
<1>5. Within(call[c].sent, call[c].target.host, Stage + Window)'
  BY <1>1, <1>2, <1>4, WithinKept, Zenon
<1>6. call[c].sent <= now'
  BY <1>1, <1>4, StateNumbers DEF Passes, TypeOK
<1>7. QED
  BY <1>3, <1>5, <1>6, Zenon DEF CallInv, Passes

\* And a resolution, as long as it is given no more time than a stage takes.
LEMMA ResolvingKept ==
  ASSUME Passes, ResolvingInv, resolving' = resolving,
         resolving.stage # "none" => now' <= resolving.since + Stage
  PROVE  ResolvingInv'
<1>1. resolving.since \in Int /\ resolving.target \in Token /\ resolving.target.host \in Hosts
      /\ now \in Int /\ now' \in Int /\ Stage \in Nat
  BY Numbers, StateNumbers DEF Passes, TypeOK, Token
<1>2. CASE resolving.stage = "none"
  BY <1>2, Zenon DEF ResolvingInv
<1>3. CASE resolving.stage # "none"
  <2>1. resolving.since <= now /\ resolving.since <= now'
    BY <1>1, <1>3 DEF ResolvingInv, Passes
  <2>2. resolving.stage = "sign" => Within(resolving.since, resolving.target.host, 0)'
    BY <1>1, <2>1, WithinKept, Zenon DEF ResolvingInv
  <2>3. resolving.stage = "lookup" =>
           Within(resolving.since, resolving.target.host, Stage)' /\ TokenInv(resolving.target)'
    BY <1>1, <2>1, WithinKept, TokenKept, Zenon DEF ResolvingInv
  <2>4. QED
    BY <2>1, <2>2, <2>3, Zenon DEF ResolvingInv
<1>4. QED
  BY <1>2, <1>3, Zenon

\* The initial state, with nothing cached and nothing under way.
LEMMA InitTarget == Init => TargetInv
<1> SUFFICES ASSUME Init PROVE TargetInv
  BY Zenon
<1>1. HostsInv
  BY Numbers DEF Init, HostsInv, Hosts
<1>2. ResolvingInv /\ cache.stored = Never /\ \A c \in Calls : CallInv(c)
  BY Zenon DEF Init, Quiescent, ResolvingInv, NoEntry, NoCall, CallInv
<1>3. QED
  BY <1>1, <1>2, InitTypes, Zenon DEF TargetInv

\* A usable target was issued while its host may have held a lease, and has at
\* least the margin left (socket_target).
LEMMA CachedWithin ==
  ASSUME TargetInv, Usable
  PROVE  Within(now, cache.target.host, Stage + Window)
<1> DEFINE token == cache.target
           started == token.iat * TicksPerSecond
           left == (Ttl - Margin) * TicksPerSecond
<1>1. TokenInv(token) /\ token \in Token
  BY Zenon DEF TargetInv, Usable, Cached, TypeOK
<1>2. token.iat \in Int /\ token.exp \in Int /\ token.host \in Hosts /\ TypeOK
  BY <1>1, Zenon DEF Token, TargetInv
<1>3. now \in Int /\ Now \in Int /\ gone[token.host] \in Int
  BY <1>2, StateNumbers
<1>4. Now < token.iat + (Ttl - Margin)
  BY <1>1, <1>2, <1>3, Numbers DEF TokenInv, Usable
<1>5. now < (token.iat + (Ttl - Margin)) * TicksPerSecond
  <2>1. token.iat + (Ttl - Margin) \in Int
    BY <1>2, Numbers
  <2>2. QED
    BY <1>3, <1>4, <2>1, SecondOf, Zenon DEF Now
<1>6. (token.iat + (Ttl - Margin)) * TicksPerSecond = started + left
  BY <1>2, Numbers
<1>7. started \in Int /\ left \in Int
  BY <1>2, Numbers
<1>8. started < gone[token.host] + LeaseDuration + Stage
  BY <1>1, Zenon DEF TokenInv, Within
<1>9. QED
  <2>1. left <= Window /\ Window \in Int /\ LeaseDuration \in Nat /\ Stage \in Nat
    BY Numbers, Zenon
  <2> HIDE DEF left, started
  <2>2. QED
    BY <1>3, <1>5, <1>6, <1>7, <1>8, <2>1 DEF Within

\* Steps of the gateway's tasks.
LEMMA CallInvariant ==
  ASSUME TargetInv, Passes, UNCHANGED <<clock, hosts>>, NEW c \in Calls, CallStep(c)
  PROVE  TargetInv'
<1>1. TypeOK' /\ HostsInv'
  BY Zenon DEF TargetInv, Passes, HostsInv, hosts
<1>2. \A d \in Calls \ {c} : call'[d] = call[d]
  BY Zenon DEF CallStep, Dispatch, SocketTarget, Authenticate, Answered, Refuses, CallFails, KeepsTarget, DropsTarget, End,
         TargetInv, TypeOK
<1>3. \A d \in Calls \ {c} : CallInv(d)'
  BY <1>2, CallKept, Zenon DEF TargetInv
<1>4. cache' = cache \/ cache' = NoEntry
  BY Zenon DEF CallStep, Dispatch, SocketTarget, Authenticate, Answered, Refuses, CallFails, KeepsTarget, DropsTarget
<1>5. (cache.stored # Never => TokenInv(cache.target))'
  BY <1>4, CacheKept DEF NoEntry, TargetInv
<1>6. \/ resolving' = resolving
      \/ resolving.stage = "none" /\ resolving' = [Quiescent EXCEPT !.stage = "route", !.since = now]
  BY Zenon DEF CallStep, Dispatch, SocketTarget, Authenticate, Answered, Refuses, CallFails
<1>7. ResolvingInv'
  <2>1. CASE resolving' = resolving
    BY <2>1, ResolvingKept, Zenon DEF TargetInv, ResolvingInv, clock
  <2>2. CASE resolving' = [Quiescent EXCEPT !.stage = "route", !.since = now]
    <3>1. resolving'.stage = "route" /\ resolving'.since = now /\ now' = now /\ now \in Nat /\ Stage \in Nat
      BY <2>2, StateNumbers, Numbers, Zenon DEF Quiescent, clock, Passes
    <3>2. QED
      BY <3>1 DEF ResolvingInv
  <2>3. QED
    BY <1>6, <2>1, <2>2, Zenon
<1>8. CallInv(c)'
  <2>1. CASE call'[c].phase # "sent"
    BY <2>1, Zenon DEF CallInv
  <2>2. CASE call'[c].phase = "sent"
    <3>0. ~Authenticate(c)
      <4>1. ASSUME Authenticate(c) PROVE call'[c] = AcceptedBy(call[c].target.host)
        BY <4>1, Zenon DEF Authenticate, TargetInv, TypeOK
      <4>2. AcceptedBy(call[c].target.host).phase = "accepted"
        BY DEF AcceptedBy
      <4>3. QED
        BY <2>2, <4>1, <4>2
    <3>1. /\ Usable /\ call'[c].target = cache.target /\ call'[c].sent = now /\ call'[c].cached
      BY <2>2, <3>0 DEF CallStep, Dispatch, SocketTarget, Answered, Refuses, CallFails, KeepsTarget, DropsTarget,
                  End, NoCall, TargetInv, TypeOK
    <3>2. TokenInv(cache.target) /\ cache.target.exp > Now + Margin
      BY <3>1, Zenon DEF TargetInv, Usable, Cached
    <3>3. Within(now, cache.target.host, Stage + Window)
      BY <3>1, CachedWithin, Zenon
    <3>4. now <= now
      BY StateNumbers DEF Passes
    <3>5. QED
      BY <3>1, <3>2, <3>3, <3>4, Zenon DEF CallInv, TokenInv, Within, clock, hosts, Now
  <2>3. QED
    BY <2>1, <2>2, Zenon
<1>9. QED
  BY <1>1, <1>3, <1>5, <1>7, <1>8, Zenon DEF TargetInv

\* Steps of the resolution: the host is chosen, the target issued and stored.
LEMMA ResolutionInvariant ==
  ASSUME TargetInv, Passes, Resolution
  PROVE  TargetInv'
<1>1. TypeOK /\ TypeOK' /\ now' = now /\ principal' = principal /\ gone' = gone /\ lapses' = lapses
  BY Zenon DEF Passes, Resolution, Route, Issue, Resolved, ResolutionFails, clock, hosts
<1>2. now \in Nat /\ now <= MaxTime /\ Now \in Int /\ Stage \in Nat /\ LeaseDuration \in Nat /\ MaxTime \in Nat
      /\ LeaseDuration > 0 /\ Never \in Nat /\ Never > MaxTime /\ host \in Hosts /\ Hosts \subseteq Nat
  BY <1>1, StateNumbers, Numbers DEF Hosts
<1>3. CASE Route
  <2>1. UNCHANGED <<cache, call>> /\ resolving'.stage = "sign" /\ resolving'.since = now
        /\ resolving'.target.host = host'
    BY <1>3, Zenon DEF Route, NoToken
  <2>2. HostsInv'
    BY <1>1, <1>2, <1>3 DEF TargetInv, HostsInv, Route, TypeOK
  <2>3. Within(now, host', 0)
    <3>1. CASE Keeps(host) /\ host' = host
      <4>1. now < lapses[host] /\ lapses[host] <= gone[host] + LeaseDuration
        BY <1>2, <3>1, Zenon DEF TargetInv, HostsInv, Keeps, Active
      <4>2. gone[host] \in Nat /\ lapses[host] \in Nat
        BY <1>1, <1>2, StateNumbers, Zenon
      <4>3. QED
        BY <1>2, <3>1, <4>1, <4>2 DEF Within
    <3>2. CASE host' = host + 1
      <4>1. host' \in Hosts /\ host' > host
        BY <1>1, <1>2, <3>2 DEF TypeOK
      <4>2. gone[host'] = Never
        BY <4>1, Zenon DEF TargetInv, HostsInv
      <4>3. QED
        BY <1>2, <4>2 DEF Within
    <3>3. QED
      BY <1>3, <3>1, <3>2, Zenon DEF Route
  <2>4. ResolvingInv'
    BY <1>1, <1>2, <2>1, <2>3 DEF ResolvingInv, Within
  <2>5. QED
    BY <1>1, <2>1, <2>2, <2>4, CallKept, CacheKept, Zenon DEF TargetInv
<1>4. ASSUME UNCHANGED <<host, serving>> PROVE HostsInv'
  BY <1>1, <1>4, Zenon DEF TargetInv, HostsInv
<1>5. CASE Issue
  <2> DEFINE token == [resolving.target EXCEPT !.iat = Now, !.exp = TargetExpires(Now)]
  <2>1. UNCHANGED <<cache, call>> /\ resolving'.stage = "lookup" /\ resolving'.since = now
        /\ resolving'.target = token /\ HostsInv'
    BY <1>4, <1>5, Zenon DEF Issue, hosts
  <2>2. token.iat = Now /\ token.exp = TargetExpires(Now) /\ token.host = resolving.target.host
        /\ resolving.target.host \in Hosts
    BY <1>1, Zenon DEF TypeOK, Token
  <2>3. resolving.since \in Nat /\ now <= resolving.since + Stage
        /\ Within(resolving.since, resolving.target.host, 0) /\ gone[resolving.target.host] \in Nat
    BY <1>1, <1>5, <2>2, StateNumbers DEF TargetInv, ResolvingInv, Issue, TypeOK
  <2>4. Within(now, resolving.target.host, Stage)
    BY <1>2, <2>3 DEF Within
  <2>5. Now * TicksPerSecond <= now /\ Now * TicksPerSecond \in Int
    BY <1>2, Numbers, SecondOf DEF Now
  <2>6. Within(Now * TicksPerSecond, resolving.target.host, Stage)
    BY <1>2, <2>3, <2>4, <2>5 DEF Within
  <2>7. TokenInv(token)
    BY <1>1, <1>2, <1>5, <2>2, <2>6, TargetLifetime DEF TokenInv, Issue
  <2> HIDE DEF token
  <2>8. ResolvingInv'
    BY <1>1, <1>2, <2>1, <2>2, <2>4, <2>7 DEF ResolvingInv, TokenInv, Within, Now
  <2>9. QED
    BY <1>1, <2>1, <2>8, CallKept, CacheKept, Zenon DEF TargetInv
<1>6. CASE Resolved
  <2>1. resolving' = Quiescent /\ HostsInv' /\ cache' = [target |-> resolving.target, stored |-> now]
    BY <1>4, <1>6, Zenon DEF Resolved, hosts
  <2>2. ResolvingInv'
    BY <2>1, Zenon DEF ResolvingInv, Quiescent
  <2>3. TokenInv(resolving.target) /\ Within(resolving.since, resolving.target.host, Stage)
        /\ now <= resolving.since + Stage
    BY <1>6, Zenon DEF TargetInv, ResolvingInv, Resolved
  <2>4. (cache.stored # Never => TokenInv(cache.target))'
    BY <1>1, <2>1, <2>3, Zenon DEF TokenInv, Within, Now
  <2>5. Within(now, resolving.target.host, Stage + Window)
    <3>1. gone[resolving.target.host] \in Nat /\ resolving.since \in Nat
      BY <1>1, StateNumbers DEF TypeOK, Token
    <3>2. QED
      BY <1>2, <2>3, <3>1, Numbers DEF Within
  <2>6. ASSUME NEW c \in Calls PROVE CallInv(c)'
    <3>1. CASE call[c].phase # "resolve"
      <4>1. call'[c] = call[c]
        BY <1>6, <3>1, Zenon DEF Resolved
      <4>2. QED
        BY <4>1, CallKept, Zenon DEF TargetInv
    <3>2. CASE call[c].phase = "resolve"
      <4>1. call'[c].target = resolving.target /\ call'[c].sent = now /\ ~call'[c].cached
        <5>1. call'[c] = [call[c] EXCEPT !.phase = "sent", !.target = resolving.target,
                                         !.sent = now, !.cached = FALSE]
          BY <1>6, <3>2, Zenon DEF Resolved
        <5>2. call[c] \in CallType
          BY <1>1 DEF TypeOK, CallType, Phases
        <5>3. QED
          BY <5>1, <5>2 DEF CallType
      <4>2. now <= now
        BY <1>2
      <4>3. QED
        BY <1>1, <2>3, <2>5, <4>1, <4>2, Zenon DEF CallInv, TokenInv, Within, Now
    <3>3. QED
      BY <3>1, <3>2, Zenon
  <2>7. QED
    BY <1>1, <2>1, <2>2, <2>4, <2>6, Zenon DEF TargetInv
<1>7. CASE ResolutionFails
  <2>1. resolving' = Quiescent /\ HostsInv' /\ cache' = cache
    BY <1>4, <1>7, Zenon DEF ResolutionFails, hosts
  <2>2. ResolvingInv'
    BY <2>1, Zenon DEF ResolvingInv, Quiescent
  <2>3. ASSUME NEW c \in Calls PROVE CallInv(c)'
    <3>1. call'[c] = call[c] \/ call'[c] = NoCall
      BY <1>7, Zenon DEF ResolutionFails
    <3>2. QED
      BY <3>1, CallKept DEF TargetInv, CallInv, NoCall
  <2>4. QED
    BY <1>1, <2>1, <2>2, <2>3, CacheKept, Zenon DEF TargetInv
<1>8. QED
  BY <1>3, <1>5, <1>6, <1>7, Zenon DEF Resolution

\* Time passes, and hosts drain and go.
LEMMA TimeInvariant ==
  ASSUME TargetInv, Passes, UNCHANGED <<host, cache, resolving, call>>, Tick \/ \E h \in Hosts : HostStep(h)
  PROVE  TargetInv'
<1>1. TypeOK /\ TypeOK' /\ now \in Nat /\ LeaseDuration \in Nat
  BY StateNumbers, Numbers, Zenon DEF Passes
<1>2. HostsInv'
  <2>1. CASE Tick
    BY <2>1, Zenon DEF Tick, hosts, TargetInv, HostsInv
  <2>2. ASSUME NEW h \in Hosts, HostStep(h) PROVE HostsInv'
    <3>1. CASE Drain(h)
      BY <3>1, Zenon DEF Drain, TargetInv, HostsInv, TypeOK
    <3>2. ASSUME NEW lapse \in Nat, lapse <= now + LeaseDuration, serving[h] # "unborn", Goes(h, lapse)
          PROVE  HostsInv'
      <4>1. ~(h > host)
        BY <3>2, Zenon DEF TargetInv, HostsInv
      <4>2. /\ gone' = [gone EXCEPT ![h] = now] /\ lapses' = [lapses EXCEPT ![h] = lapse]
            /\ serving' = [serving EXCEPT ![h] = "no"] /\ host' = host
        BY <3>2, Zenon DEF Goes
      <4>3. \A g \in Hosts \ {h} : gone'[g] = gone[g] /\ lapses'[g] = lapses[g] /\ serving'[g] = serving[g]
        BY <1>1, <4>2, Zenon DEF TypeOK
      <4>4. gone'[h] = now /\ lapses'[h] = lapse
        BY <1>1, <4>2, Zenon DEF TypeOK
      <4>5. QED
        BY <3>2, <4>1, <4>2, <4>3, <4>4, Zenon DEF TargetInv, HostsInv
    <3>3. QED
      BY <1>1, <2>2, <3>1, <3>2 DEF HostStep, Exits, Dies
  <2>3. QED
    BY <2>1, <2>2, Zenon
<1>3. resolving.stage # "none" => now' <= resolving.since + Stage
  <2>1. CASE Tick
    <3>1. resolving.since \in Nat /\ Stage \in Nat
      BY <1>1, Numbers DEF TypeOK
    <3>2. QED
      BY <1>1, <2>1, <3>1 DEF Tick
  <2>2. ASSUME NEW h \in Hosts, HostStep(h) PROVE now' = now
    BY <2>2, Zenon DEF HostStep, Drain, Exits, Dies, Goes, clock
  <2>3. QED
    BY <2>1, <2>2, Zenon DEF TargetInv, ResolvingInv
<1>4. ResolvingInv'
  BY <1>3, ResolvingKept, Zenon DEF TargetInv
<1>5. QED
  BY <1>1, <1>2, <1>4, CallKept, CacheKept, Zenon DEF TargetInv

\* TargetInv is inductive.
LEMMA NextTarget == TargetInv /\ [Next]_vars => TargetInv'
<1> SUFFICES ASSUME TargetInv, [Next]_vars PROVE TargetInv'
  BY Zenon
<1>1. TypeOK /\ TypeOK' /\ now \in Nat /\ now <= now
  BY NextTypes, StateNumbers DEF TargetInv
<1>2. ASSUME NEW c \in Calls, CallStep(c) PROVE TargetInv'
  <2>1. UNCHANGED <<clock, hosts>>
    BY <1>2, Zenon DEF CallStep, Dispatch, SocketTarget, Authenticate, Answered, Refuses, CallFails
  <2>2. Passes
    BY <1>1, <2>1, Zenon DEF Passes, clock, hosts
  <2>3. QED
    BY <1>2, <2>1, <2>2, CallInvariant, Zenon
<1>3. CASE Resolution
  <2>1. UNCHANGED <<clock, gone>>
    BY <1>3, Zenon DEF Resolution, Route, Issue, Resolved, ResolutionFails, hosts
  <2>2. Passes
    BY <1>1, <2>1, Zenon DEF Passes, clock
  <2>3. QED
    BY <1>3, <2>2, ResolutionInvariant, Zenon
<1>4. CASE Tick \/ \E h \in Hosts : HostStep(h)
  <2>1. UNCHANGED <<host, cache, resolving, call>>
    BY <1>4, Zenon DEF Tick, HostStep, Drain, Exits, Dies, Goes, hosts
  <2>2. now <= now' /\ principal' = principal
    BY <1>1, <1>4 DEF Tick, HostStep, Drain, Exits, Dies, Goes, clock
  <2>3. \A h \in Hosts : gone'[h] = gone[h] \/ gone'[h] = now'
    <3>1. CASE Tick
      BY <3>1, Zenon DEF Tick, hosts
    <3>2. ASSUME NEW h \in Hosts, HostStep(h) PROVE \A g \in Hosts : gone'[g] = gone[g] \/ gone'[g] = now'
      <4>1. gone' = gone \/ gone' = [gone EXCEPT ![h] = now]
        BY <3>2, Zenon DEF HostStep, Drain, Exits, Dies, Goes
      <4>2. now' = now /\ gone \in [Hosts -> 0..Never]
        BY <1>1, <3>2, Zenon DEF HostStep, Drain, Exits, Dies, Goes, clock, TypeOK
      <4>3. QED
        BY <4>1, <4>2, Zenon
    <3>3. QED
      BY <1>4, <3>1, <3>2, Zenon
  <2>4. Passes
    BY <1>1, <2>2, <2>3, Zenon DEF Passes
  <2>5. QED
    BY <1>4, <2>1, <2>4, TimeInvariant, Zenon
<1>5. CASE UNCHANGED vars
  <2>1. UNCHANGED <<clock, hosts, cache, resolving, call>>
    BY <1>5, Zenon DEF vars
  <2>2. Passes
    BY <1>1, <2>1, Zenon DEF Passes, clock, hosts
  <2>3. ResolvingInv'
    BY <2>1, <2>2, ResolvingKept, Zenon DEF TargetInv, ResolvingInv, clock
  <2>4. HostsInv'
    BY <2>1, Zenon DEF TargetInv, HostsInv, hosts
  <2>5. QED
    BY <1>1, <2>1, <2>2, <2>3, <2>4, CallKept, CacheKept, Zenon DEF TargetInv
<1>6. QED
  BY <1>2, <1>3, <1>4, <1>5, Zenon DEF Next

\* Tokens, the cache and the calls under way stay within their bounds.
THEOREM TargetSafety == Spec => []TargetInv
  BY InitTarget, NextTarget, PTL DEF Spec

\* The state keeps its type.
THEOREM TypeSafety == Spec => []TypeOK
  BY TargetSafety, PTL DEF TargetInv

\* No host accepts a call once the credential it was made under has expired by
\* the host's clock, for all lifetimes and clocks (issue_workflow,
\* issue_invocation_target, validate_claims).
THEOREM Expiry == Spec => NotAfterExpiry
<1>1. ASSUME TargetInv, [Next]_vars, NEW c \in Calls,
             call[c].phase = "sent", call'[c].phase = "accepted"
      PROVE  HostNow < principal
  <2>1. Verified(call[c].target)
    <3>1. ASSUME NEW d \in Calls, CallStep(d) PROVE Verified(call[c].target)
      <4>1. d = c
        BY <1>1, <3>1 DEF CallStep, Dispatch, SocketTarget, Authenticate, Answered, Refuses,
                 CallFails, KeepsTarget, DropsTarget, End, TargetInv, TypeOK
      <4>2. Authenticate(c)
        BY <1>1, <3>1, <4>1 DEF CallStep, Dispatch, SocketTarget, Answered, Refuses,
                 CallFails, KeepsTarget, DropsTarget, End, NoCall, TargetInv, TypeOK
      <4>3. QED
        BY <4>2, Zenon DEF Authenticate
    <3>2. CASE Resolution
      BY <1>1, <3>2 DEF Resolution, Route, Issue, Resolved, ResolutionFails
    <3>3. CASE Tick \/ UNCHANGED vars \/ \E h \in Hosts : HostStep(h)
      BY <1>1, <3>3 DEF Tick, vars, HostStep, Drain, Exits, Dies, Goes
    <3>4. QED
      BY <1>1, <3>1, <3>2, <3>3, Zenon DEF Next
  <2>2. call[c].target.exp <= principal /\ call[c].target.exp > HostNow
    BY <1>1, <2>1, Zenon DEF TargetInv, CallInv, Verified
  <2>3. call[c].target.exp \in Int /\ principal \in Int /\ HostNow \in Int
    BY <1>1, StateNumbers DEF TargetInv, TypeOK, Token
  <2>4. QED
    BY <2>2, <2>3
<1>2. TargetInv /\ [Next]_vars =>
        [\A c \in Calls :
            call[c].phase = "sent" /\ call'[c].phase = "accepted" => HostNow < principal]_vars
  BY <1>1, Zenon
<1>3. QED
  BY <1>2, TargetSafety, PTL DEF Spec, NotAfterExpiry

\* Within the margin and the leeway no call is turned away for its token
\* (socket_target, validate_claims).
THEOREM Accepted == Spec => []NotRefused
<1>1. ASSUME TargetInv PROVE NotRefused
  <2>1. SUFFICES ASSUME NEW c \in Calls, call[c].phase = "sent",
                        HostNow <= Seconds(call[c].sent) + Margin,
                        HostNow + Leeway >= Seconds(call[c].sent),
                        call[c].cached \/ call[c].target.exp > Seconds(call[c].sent) + Margin
                 PROVE  Verified(call[c].target)
    BY Zenon DEF NotRefused
  <2>2. /\ call[c].target.iat < call[c].target.exp
        /\ call[c].target.exp <= call[c].target.iat + MaxLifetime
        /\ call[c].target.iat <= Seconds(call[c].sent)
        /\ call[c].target.exp > Seconds(call[c].sent) + Margin
    BY <1>1, <2>1, Zenon DEF TargetInv, CallInv
  <2>3. /\ call[c].target.exp \in Int /\ call[c].target.iat \in Int /\ HostNow \in Int
        /\ call[c].sent \in Int
    BY <1>1, StateNumbers, Numbers DEF TargetInv, TypeOK, Token
  <2>4. Seconds(call[c].sent) \in Int /\ Margin \in Int /\ Leeway \in Int /\ MaxLifetime \in Int
    BY <2>3, SecondOf, Numbers
  <2>5. QED
    BY <2>1, <2>2, <2>3, <2>4 DEF Verified
<1>2. QED
  BY <1>1, TargetSafety, PTL

\* Calls to a host that is gone end within the time its lease, one resolution
\* and the lifetime of a target take (route_actor, socket_target).
THEOREM StaleCallsEnd == Spec => []StaleBounded
<1>1. ASSUME TargetInv PROVE StaleBounded
  <2>1. SUFFICES ASSUME NEW c \in Calls, call[c].phase = "sent"
                 PROVE  call[c].sent < gone[call[c].target.host] + LeaseDuration + Stage + Window
    BY Zenon DEF StaleBounded, Window
  <2>2. call[c].sent < gone[call[c].target.host] + LeaseDuration + (Stage + Window)
    BY <1>1, <2>1, Zenon DEF TargetInv, CallInv, Within
  <2>3. call[c].sent \in Int /\ gone[call[c].target.host] \in Int
    BY <1>1, StateNumbers, Numbers DEF TargetInv, TypeOK, Token
  <2>4. QED
    BY <2>2, <2>3, Numbers
<1>2. QED
  BY <1>1, TargetSafety, PTL

=============================================================================
