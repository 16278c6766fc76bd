--------------------------- MODULE HostLease ---------------------------
(***************************************************************************)
(* The lease of one host id: the row in PostgreSQL, stamped with the        *)
(* database's clock, and the host processes (sessions) that register, renew *)
(* and unregister it.  A session also keeps a deadline of its own and fences *)
(* itself when that passes.                                                 *)
(*                                                                          *)
(* Time is counted in ticks, TicksPerMs to the millisecond, because the     *)
(* code rounds: the host's clock is truncated to milliseconds, the          *)
(* database's is rounded (numeric to bigint).  Times in milliseconds are    *)
(* kept as ticks.  All clocks run at the same rate; `now` is the            *)
(* database's, a host's differs by its offset.                              *)
(***************************************************************************)
EXTENDS Naturals, FiniteSets

CONSTANTS Sessions,    \* sessions of one host id
          NoSession,   \* session of a lease row that does not exist
          TicksPerMs,
          Duration,    \* lease_duration, in ticks
          RenewEvery,  \* renew_every, in ticks
          Offsets,     \* how far ahead of the database a host's clock may be
          Latency,     \* least time from sending a registration to its execution
          Stall,       \* longest wait of the upsert for the row it updates
          Prompt,      \* registrations are answered within MaxRpc, timers on time
          MaxRpc,
          MaxSend,     \* bound: no registration is sent or carried out later
          MaxInFlight, \* bound: registrations sent and not carried out
          MaxTime      \* bound on time

ASSUME NoSessionAssumption == NoSession \notin Sessions
ASSUME ClockAssumption ==
    TicksPerMs \in Nat \ {0} /\ Offsets \subseteq Nat /\ Offsets # {}
ASSUME DurationAssumption ==
    /\ Duration \in Nat /\ Duration % TicksPerMs = 0
    /\ RenewEvery \in Nat /\ 0 < RenewEvery /\ RenewEvery < Duration
ASSUME NetworkAssumption ==
    Latency \in Nat /\ Stall \in Nat /\ Prompt \in BOOLEAN /\ MaxRpc \in Nat
ASSUME BoundAssumption ==
    MaxSend \in Nat /\ MaxInFlight \in Nat /\ MaxTime \in Nat

VARIABLES now,       \* the database's clock
          lease,     \* the row of durable_object_host_leases
          requests,  \* registrations sent and not carried out
          deletes,   \* sessions whose unregistration was sent and not carried out
          offset,    \* per session: its clock is at now + offset
          life,      \* per session: the host process
          renewal,   \* per session: the lease maintainer
          asked,     \* per session: when the last registration was sent
          anchor,    \* per session: Instant::now() when it was answered
          timer,     \* per session: when sleep(renew_every) ends
          deadline,  \* per session: local_deadline
          lost       \* sessions that have fenced themselves (lease_lost)

lives == <<life, lost>>
vars == <<now, lease, requests, deletes, offset, lives, renewal, asked, anchor, timer, deadline>>

HostLeaseRow == [session: Sessions \cup {NoSession}, expires: Nat]
NoLease == [session |-> NoSession, expires |-> 0]

Lives == {"new", "starting", "serving", "draining", "unregistering", "exited"}

\* off: no renewal task; waiting: in wait_until_renewal; sent: the registration
\* is in the air; granted, refused: carried out and not yet answered; answered:
\* between taking the timer's anchor and the deadline it is for.
Renewals == {"off", "waiting", "sent", "granted", "refused", "answered"}

TypeOK ==
    /\ now \in Nat
    /\ lease \in HostLeaseRow
    /\ requests \subseteq [session: Sessions, sent: Nat]
    /\ deletes \subseteq Sessions
    /\ offset \in [Sessions -> Offsets]
    /\ life \in [Sessions -> Lives]
    /\ renewal \in [Sessions -> Renewals]
    /\ asked \in [Sessions -> Nat]
    /\ anchor \in [Sessions -> Nat]
    /\ timer \in [Sessions -> Nat]
    /\ deadline \in [Sessions -> Nat]
    /\ lost \subseteq Sessions

Init ==
    /\ now = 0
    /\ lease = NoLease
    /\ requests = {}
    /\ deletes = {}
    /\ offset \in [Sessions -> Offsets]
    /\ life = [s \in Sessions |-> "new"]
    /\ renewal = [s \in Sessions |-> "off"]
    /\ asked = [s \in Sessions |-> 0]
    /\ anchor = [s \in Sessions |-> 0]
    /\ timer = [s \in Sessions |-> 0]
    /\ deadline = [s \in Sessions |-> 0]
    /\ lost = {}

-----------------------------------------------------------------------------
(* The two clocks.                                                          *)

Floor(t) == t - (t % TicksPerMs)

\* SystemClock::now_ms of session s when the database's clock is at t.
LocalNow(s, t) == Floor(t + offset[s])

\* REGISTRY_NOW_MS.
StoreNow(t) == Floor(t + (TicksPerMs \div 2))

\* Mutant of LeaseActive: a lease is taken for active as long as it is there.
LeaseRegistered(row, t) == row.session # NoSession

\* HostLeaseStatus::is_active, and what commit_state joins on.
LeaseActive(row, t) == row.session # NoSession /\ row.expires > StoreNow(t)

-----------------------------------------------------------------------------
(* The store carries out registrations and unregistrations.                 *)

\* The WHERE of the upsert; a row that is not there has expired.
MayRegister(s) == lease.session = s \/ lease.expires <= StoreNow(now)

\* The database carries out a registration.  The row it inserts is stamped at
\* the time `stamp`; should it have to wait for another statement on the row,
\* the update comes later, and compares with the clock of that moment.  If the
\* sender still waits, it can hear of it.
Register(request, stamp) ==
    LET s == request.session
        told == IF MayRegister(s) THEN "granted" ELSE "refused"
    IN  /\ stamp >= request.sent + Latency /\ now <= stamp + Stall /\ now <= MaxSend
        /\ lease' = IF MayRegister(s)
                    THEN [session |-> s, expires |-> StoreNow(stamp) + Duration] ELSE lease
        /\ requests' = requests \ {request}
        /\ renewal' = IF renewal[s] = "sent" /\ asked[s] = request.sent
                      THEN [renewal EXCEPT ![s] = told] ELSE renewal
        /\ UNCHANGED <<now, deletes, offset, lives, asked, anchor, timer, deadline>>

\* Mutant of Unregister: the row is deleted whatever its session.
UnregisterHost(s) ==
    /\ deletes' = deletes \ {s}
    /\ lease' = NoLease
    /\ UNCHANGED <<now, requests, offset, lives, renewal, asked, anchor, timer, deadline>>

\* DELETE ... WHERE host_id = $1 AND session_id = $2.
Unregister(s) ==
    /\ deletes' = deletes \ {s}
    /\ lease' = IF lease.session = s THEN NoLease ELSE lease
    /\ UNCHANGED <<now, requests, offset, lives, renewal, asked, anchor, timer, deadline>>

-----------------------------------------------------------------------------
(* The lease maintainer.                                                    *)

\* What the process keeps in local variables goes out of scope: those of
\* renew_once_with_deadline, and the timer of wait_until_renewal.
RenewalDone(s) == asked' = [asked EXCEPT ![s] = 0] /\ anchor' = [anchor EXCEPT ![s] = 0]
TimerDone(s) == timer' = [timer EXCEPT ![s] = 0]

\* renew_once_with_deadline up to the call: sample the clock, then send.
SendRegistration(s) ==
    /\ now <= MaxSend /\ Cardinality(requests) < MaxInFlight
    /\ asked' = [asked EXCEPT ![s] = now]
    /\ requests' = requests \cup {[session |-> s, sent |-> now]}
    /\ renewal' = [renewal EXCEPT ![s] = "sent"]

\* start: the first registration, before the host serves anything.
Start(s) ==
    /\ life[s] = "new"
    /\ life' = [life EXCEPT ![s] = "starting"]
    /\ SendRegistration(s)
    /\ UNCHANGED <<now, lease, deletes, offset, lost, anchor, timer, deadline>>

\* wait_until_renewal: the deadline comes before the renewal timer.
Renew(s) ==
    /\ renewal[s] = "waiting" /\ now < deadline[s]
    /\ now >= timer[s]
    /\ SendRegistration(s)
    /\ TimerDone(s)
    /\ UNCHANGED <<now, lease, deletes, offset, lives, anchor, deadline>>

\* The deadline passes in wait_until_renewal or renew_before_deadline: the
\* renewal task ends, and with it the wait for a registration in the air.
SelfFence(s) ==
    /\ renewal[s] \in {"waiting", "sent", "granted", "refused"} /\ life[s] # "starting"
    /\ now >= deadline[s]
    /\ lost' = lost \cup {s}
    /\ renewal' = [renewal EXCEPT ![s] = "off"]
    /\ RenewalDone(s) /\ TimerDone(s)
    /\ UNCHANGED <<now, lease, requests, deletes, offset, life, deadline>>

\* The answer is there; the anchor of the new deadline is taken.
Answer(s) ==
    /\ renewal[s] = "granted"
    /\ life[s] = "starting" \/ now < deadline[s]
    /\ anchor' = [anchor EXCEPT ![s] = now]
    /\ renewal' = [renewal EXCEPT ![s] = "answered"]
    /\ UNCHANGED <<now, lease, requests, deletes, offset, lives, asked, timer, deadline>>

\* The process goes on waiting for the next renewal, or, in start, begins to
\* serve.
Continue(s) ==
    /\ renewal' = [renewal EXCEPT ![s] = "waiting"]
    /\ timer' = [timer EXCEPT ![s] = now + RenewEvery]
    /\ life' = IF life[s] = "starting" THEN [life EXCEPT ![s] = "serving"] ELSE life
    /\ RenewalDone(s)

\* A registration that cannot be used: start gives up and the process exits, a
\* renewal keeps the deadline it has.
Unconfirmed(s) ==
    /\ IF life[s] = "starting"
       THEN /\ life' = [life EXCEPT ![s] = "exited"]
            /\ renewal' = [renewal EXCEPT ![s] = "off"]
            /\ RenewalDone(s)
            /\ TimerDone(s)
       ELSE Continue(s)
    /\ UNCHANGED <<now, lease, requests, deletes, offset, lost, deadline>>

\* Mutant of ValidUntil: the window is anchored where the answer arrived.
ValidUntilFromAnswer(s) == LocalNow(s, anchor[s]) + Duration

\* local_valid_until_ms, from the clock sampled before the call.
ValidUntil(s) == LocalNow(s, asked[s]) + Duration

\* Mutant of Confirm: a renewal does not move the deadline.
ConfirmOnlyFirst(s) ==
    /\ renewal[s] = "answered" /\ ValidUntil(s) > LocalNow(s, now)
    /\ deadline' = IF life[s] = "starting"
                   THEN [deadline EXCEPT ![s] = anchor[s] + (ValidUntil(s) - LocalNow(s, now))]
                   ELSE deadline
    /\ Continue(s)
    /\ UNCHANGED <<now, lease, requests, deletes, offset, lost>>

\* Mutant of Confirm: nobody checks that something is left of the window.
ConfirmUnchecked(s) ==
    /\ renewal[s] = "answered"
    /\ deadline' = [deadline EXCEPT ![s] = anchor[s] + (ValidUntil(s) - LocalNow(s, now))]
    /\ Continue(s)
    /\ UNCHANGED <<now, lease, requests, deletes, offset, lost>>

\* The deadline from the anchor and what is left of the window.
Confirm(s) ==
    /\ renewal[s] = "answered" /\ ValidUntil(s) > LocalNow(s, now)
    /\ deadline' = [deadline EXCEPT ![s] = anchor[s] + (ValidUntil(s) - LocalNow(s, now))]
    /\ Continue(s)
    /\ UNCHANGED <<now, lease, requests, deletes, offset, lost>>

\* "host lease expired before its registration response arrived".
AnsweredTooLate(s) ==
    /\ renewal[s] = "answered" /\ ValidUntil(s) <= LocalNow(s, now)
    /\ Unconfirmed(s)

\* The call fails: refused, timed out, or its answer lost.
RegisterFails(s) ==
    /\ renewal[s] = "refused" \/ (renewal[s] \in {"sent", "granted"} /\ ~Prompt)
    /\ life[s] = "starting" \/ now < deadline[s]
    /\ Unconfirmed(s)

-----------------------------------------------------------------------------
(* The host process.                                                        *)

\* wait_for_host_stop returns: self-fenced, idle, asked to stop, or a part of
\* the process ended.  Renewals go on while invocations drain.
StopServing(s) ==
    /\ life[s] = "serving"
    /\ life' = [life EXCEPT ![s] = "draining"]
    /\ UNCHANGED <<now, lease, requests, deletes, offset, lost, renewal, asked, anchor, timer, deadline>>

\* Mutant of Drained: the lease is unregistered while the renewal task runs.
DrainedRenewing(s) ==
    /\ life[s] = "draining" /\ renewal[s] # "answered"
    /\ life' = [life EXCEPT ![s] = "unregistering"]
    /\ deletes' = deletes \cup {s}
    /\ UNCHANGED <<now, lease, requests, offset, lost, renewal, asked, anchor, timer, deadline>>

\* The drain is over or has timed out: the renewal task is stopped, dropping a
\* registration in the air, and then the lease is unregistered.
Drained(s) ==
    /\ life[s] = "draining" /\ renewal[s] # "answered"
    /\ life' = [life EXCEPT ![s] = "unregistering"]
    /\ renewal' = [renewal EXCEPT ![s] = "off"]
    /\ deletes' = deletes \cup {s}
    /\ RenewalDone(s) /\ TimerDone(s)
    /\ UNCHANGED <<now, lease, requests, offset, lost, deadline>>

\* The process ends: after its unregistration was answered or failed, or at
\* any other moment because it is killed.
Exit(s) ==
    /\ life[s] \notin {"new", "exited"}
    /\ life' = [life EXCEPT ![s] = "exited"]
    /\ renewal' = [renewal EXCEPT ![s] = "off"]
    /\ RenewalDone(s) /\ TimerDone(s)
    /\ deadline' = [deadline EXCEPT ![s] = 0]
    /\ UNCHANGED <<now, lease, requests, deletes, offset, lost>>

\* What a prompt system does before time goes on.
Due(s) ==
    \/ renewal[s] = "waiting" /\ now >= timer[s]
    \/ renewal[s] \in {"sent", "granted", "refused"} /\ now >= asked[s] + MaxRpc
    \/ renewal[s] = "answered"

Tick ==
    /\ now < MaxTime
    /\ Prompt => \A s \in Sessions : ~Due(s)
    /\ now' = now + 1
    /\ UNCHANGED <<lease, requests, deletes, offset, lives, renewal, asked, anchor, timer, deadline>>

SessionStep(s) ==
    \/ Start(s) \/ Renew(s) \/ SelfFence(s) \/ Answer(s) \/ Confirm(s)
    \/ AnsweredTooLate(s) \/ RegisterFails(s)
    \/ StopServing(s) \/ Drained(s) \/ Exit(s)

Next ==
    \/ Tick
    \/ \E request \in requests, stamp \in 0..now : Register(request, stamp)
    \/ \E s \in deletes : Unregister(s)
    \/ \E s \in Sessions : SessionStep(s)

\* Time goes on.
Spec == Init /\ [][Next]_vars /\ WF_vars(Tick)

-----------------------------------------------------------------------------
(* Correctness.                                                             *)

\* Session s serves or drains under a lease it has confirmed locally.
Confirmed(s) == life[s] \in {"serving", "draining"} /\ now < deadline[s]

\* The locally confirmed window lapses no later than the durable lease: up to
\* its local deadline a session holds the active lease, whatever the offset of
\* its clock, however slow the answers were and whatever abandoned
\* registrations still arrive (renew_once_with_deadline).
ConfirmedIsHeld ==
    \A s \in Sessions : Confirmed(s) => lease.session = s /\ LeaseActive(lease, now)

\* An active lease passes to no other session; it ends early only by the
\* unregistration of its own session, which no longer serves or renews.
ActiveLeaseKept ==
    [][\A s \in Sessions :
          lease.session = s /\ LeaseActive(lease, now) /\ lease'.session # s =>
              /\ lease' = NoLease
              /\ life[s] \in {"unregistering", "exited"} /\ renewal[s] = "off"]_vars

\* The lease of a process that is gone lapses for good as time goes on, so that
\* the router can move its actors (active_target), even when a registration of
\* it arrives after its unregistration.
GoneHostLapses ==
    <>(now = MaxTime) =>
        \A s \in Sessions :
            life[s] = "exited" ~> [](lease.session = s => ~LeaseActive(lease, now))

\* A host whose registrations are answered promptly never fences itself.
NeverFenced == lost = {}

-----------------------------------------------------------------------------
(* The inductive invariants.  Everything is said in ticks, with the bounds   *)
(* that truncation and rounding leave: t - TicksPerMs < Floor(t) <= t.       *)

Half == TicksPerMs \div 2

\* The durable lease of session s outlasts the time t, or t has passed.
LeaseUntil(s, t) ==
    now >= t \/ (lease.session = s /\ lease.expires >= t + Half)

\* No deadline computed from the registration last sent is later than this.
LatestDeadline(s) == asked[s] + Duration + TicksPerMs - 1

\* The renewal task ends before the lease is unregistered.
LifeInv(s) ==
    /\ renewal[s] # "off" => life[s] \in {"starting", "serving", "draining"}
    /\ s \in deletes => life[s] \in {"unregistering", "exited"}

\* The deadline in force is covered, and not only by the registration it comes
\* from: by any registration of the session that the database carries out from
\* now on.  A registration granted covers the deadline it will lead to.
HeldInv(s) ==
    /\ life[s] \in {"serving", "draining"} =>
          /\ LeaseUntil(s, deadline[s])
          /\ deadline[s] + Latency <= now + Duration + TicksPerMs - 1
    /\ renewal[s] \in {"granted", "answered"} =>
          now >= asked[s] + Latency /\ LeaseUntil(s, LatestDeadline(s))
    /\ renewal[s] = "answered" => anchor[s] <= now
    /\ LifeInv(s)

LeaseInv == TypeOK /\ \A s \in Sessions : HeldInv(s)

\* What the two clocks lose to truncation and rounding, and the time a
\* registration may stall after its stamp, is less than its way takes.
SlowEnough == Latency >= 2 * (TicksPerMs - 1) + Stall

\* Two registrations in a row and the wait between them fit into the lease.
RenewsInTime == Prompt /\ RenewEvery + 2 * MaxRpc + TicksPerMs <= Duration

\* In a prompt system the deadline is never near: a renewal is sent, and
\* answered, before it.
PromptInv(s) ==
    /\ life[s] = "starting" => renewal[s] \in {"sent", "granted", "refused", "answered"}
    /\ renewal[s] \in {"sent", "granted", "refused", "answered"} =>
          /\ now <= asked[s] + MaxRpc
          /\ life[s] # "starting" => asked[s] + MaxRpc < deadline[s] /\ renewal[s] # "refused"
    /\ renewal[s] = "answered" => anchor[s] = now
    /\ renewal[s] = "waiting" => now <= timer[s] /\ timer[s] + MaxRpc < deadline[s]

FenceInv == lost = {} /\ \A s \in Sessions : PromptInv(s)
=============================================================================
