------------------------ MODULE HostLease_proofs ------------------------
(***************************************************************************)
(* A host that has confirmed its lease holds it, for every number of         *)
(* sessions, lease duration, clock offset and rounding, and a prompt host    *)
(* never fences itself.                                                      *)
(***************************************************************************)
EXTENDS HostLease, Integers, TLAPS

-----------------------------------------------------------------------------
(* The clocks.                                                               *)

\* Truncation loses less than a millisecond (now_ms).
LEMMA FloorBounds ==
  ASSUME NEW t \in Nat
  PROVE  Floor(t) \in Nat /\ Floor(t) <= t /\ t < Floor(t) + TicksPerMs
<1>1. TicksPerMs \in Nat /\ TicksPerMs > 0
  BY ClockAssumption
<1>2. t % TicksPerMs \in Nat /\ t % TicksPerMs < TicksPerMs
  BY <1>1
<1>3. t = TicksPerMs * (t \div TicksPerMs) + (t % TicksPerMs) /\ t \div TicksPerMs \in Nat
  BY <1>1
<1>4. TicksPerMs * (t \div TicksPerMs) \in Nat
  BY <1>1, <1>3
<1>5. t % TicksPerMs <= t
  BY <1>2, <1>3, <1>4
<1>6. QED
  BY <1>1, <1>2, <1>5 DEF Floor

\* Rounding moves a time by at most half a millisecond (REGISTRY_NOW_MS).
LEMMA StoreNowBounds ==
  ASSUME NEW t \in Nat
  PROVE  /\ Half \in Nat /\ StoreNow(t) \in Nat
         /\ StoreNow(t) <= t + Half /\ t + Half < StoreNow(t) + TicksPerMs
<1>1. Half \in Nat
  BY ClockAssumption DEF Half
<1>2. t + Half \in Nat
  BY <1>1
<1>3. QED
  BY <1>1, <1>2, FloorBounds, Zenon DEF StoreNow, Half

\* The clock of a session, within a millisecond of now + offset.
LEMMA LocalNowBounds ==
  ASSUME NEW s \in Sessions, NEW t \in Nat, offset[s] \in Nat
  PROVE  /\ LocalNow(s, t) \in Nat /\ LocalNow(s, t) <= t + offset[s]
         /\ t + offset[s] < LocalNow(s, t) + TicksPerMs
<1>1. t + offset[s] \in Nat
  OBVIOUS
<1>2. QED
  BY <1>1, FloorBounds, Zenon DEF LocalNow

-----------------------------------------------------------------------------
(* Types.                                                                    *)

\* The constants are numbers.
LEMMA ConstantTypes ==
  /\ TicksPerMs \in Nat /\ TicksPerMs >= 1 /\ Duration \in Nat /\ RenewEvery \in Nat
  /\ Latency \in Nat /\ Stall \in Nat /\ MaxRpc \in Nat /\ Offsets \subseteq Nat
  /\ Half \in Nat
  BY ClockAssumption, DurationAssumption, NetworkAssumption DEF Half

\* The fields of a session's state.
LEMMA SessionTypes ==
  ASSUME TypeOK, NEW s \in Sessions
  PROVE  /\ now \in Nat /\ offset[s] \in Nat /\ asked[s] \in Nat /\ anchor[s] \in Nat
         /\ timer[s] \in Nat /\ deadline[s] \in Nat
         /\ lease.session \in Sessions \cup {NoSession} /\ lease.expires \in Nat
         /\ life[s] \in Lives /\ renewal[s] \in Renewals
  BY ConstantTypes, Zenon DEF TypeOK, HostLeaseRow

\* A confirmed deadline is a time (the ensure! on remaining_ms).
LEMMA DeadlineType ==
  ASSUME TypeOK, NEW s \in Sessions, ValidUntil(s) > LocalNow(s, now)
  PROVE  anchor[s] + (ValidUntil(s) - LocalNow(s, now)) \in Nat
<1>1. /\ LocalNow(s, now) \in Nat /\ LocalNow(s, asked[s]) \in Nat
      /\ anchor[s] \in Nat
  BY SessionTypes, LocalNowBounds, Zenon
<1>2. QED
  BY <1>1, ConstantTypes DEF ValidUntil

\* Every step keeps the types.
LEMMA TypesKept ==
  ASSUME TypeOK, Next
  PROVE  TypeOK'
<1>0. ASSUME NEW s \in Sessions
      PROVE  /\ RenewalDone(s) => asked' \in [Sessions -> Nat] /\ anchor' \in [Sessions -> Nat]
             /\ TimerDone(s) => timer' \in [Sessions -> Nat]
             /\ [deadline EXCEPT ![s] = 0] \in [Sessions -> Nat]
  BY DEF RenewalDone, TimerDone, TypeOK
<1>1. ASSUME Tick PROVE TypeOK'
  BY <1>1 DEF Tick, TypeOK, lives
<1>2. ASSUME NEW request \in requests, NEW stamp \in 0..now, Register(request, stamp)
      PROVE  TypeOK'
  <2>1. stamp \in Nat /\ request.session \in Sessions
    BY DEF TypeOK
  <2>2. lease' \in HostLeaseRow
    BY <1>2, <2>1, StoreNowBounds, ConstantTypes DEF Register, TypeOK, HostLeaseRow
  <2>3. renewal' \in [Sessions -> Renewals]
    BY <1>2, <2>1, Zenon DEF Register, TypeOK, Renewals
  <2>4. QED
    BY <1>2, <2>2, <2>3, Zenon DEF Register, TypeOK, lives
<1>3. ASSUME NEW s \in deletes, Unregister(s) PROVE TypeOK'
  BY <1>3, Zenon DEF Unregister, TypeOK, lives, HostLeaseRow, NoLease
<1>4. ASSUME NEW s \in Sessions, SendRegistration(s)
      PROVE  /\ asked' \in [Sessions -> Nat] /\ renewal' \in [Sessions -> Renewals]
             /\ requests' \subseteq [session: Sessions, sent: Nat]
  BY <1>4 DEF SendRegistration, TypeOK, Renewals
<1>5. ASSUME NEW s \in Sessions, Start(s) \/ Renew(s) PROVE TypeOK'
  <2>1. SendRegistration(s) /\ life' \in [Sessions -> Lives]
    BY <1>5, Zenon DEF Start, Renew, TypeOK, Lives, lives, TimerDone
  <2>2. QED
    BY <1>0, <1>4, <1>5, <2>1, Zenon DEF Start, Renew, TypeOK, lives
<1>6. ASSUME NEW s \in Sessions, SelfFence(s) \/ Answer(s) PROVE TypeOK'
  BY <1>6 DEF SelfFence, Answer, TypeOK, Renewals, lives, RenewalDone, TimerDone
<1>7. ASSUME NEW s \in Sessions, Continue(s)
      PROVE  /\ renewal' \in [Sessions -> Renewals] /\ timer' \in [Sessions -> Nat]
             /\ life' \in [Sessions -> Lives]
             /\ asked' \in [Sessions -> Nat] /\ anchor' \in [Sessions -> Nat]
  BY <1>7, ConstantTypes DEF Continue, TypeOK, Renewals, Lives, RenewalDone
<1>8. ASSUME NEW s \in Sessions, Confirm(s) PROVE TypeOK'
  <2>1. deadline' \in [Sessions -> Nat]
    BY <1>8, DeadlineType, Zenon DEF Confirm, TypeOK
  <2>2. QED
    BY <1>7, <1>8, <2>1, Zenon DEF Confirm, TypeOK
<1>9. ASSUME NEW s \in Sessions, Unconfirmed(s) PROVE TypeOK'
  <2>1. CASE life[s] = "starting"
    BY <1>0, <1>9, <2>1, Zenon DEF Unconfirmed, TypeOK, Renewals, Lives
  <2>2. CASE life[s] # "starting"
    BY <1>7, <1>9, <2>2, Zenon DEF Unconfirmed, TypeOK
  <2>3. QED
    BY <2>1, <2>2, Zenon
<1>10. ASSUME NEW s \in Sessions, StopServing(s) \/ Drained(s) \/ Exit(s) PROVE TypeOK'
  <2>1. CASE StopServing(s)
    BY <2>1, Zenon DEF StopServing, TypeOK, Lives
  <2>2. CASE Drained(s)
    BY <1>0, <2>2, Zenon DEF Drained, TypeOK, Renewals, Lives
  <2>3. CASE Exit(s)
    BY <1>0, <2>3, Zenon DEF Exit, TypeOK, Renewals, Lives
  <2>4. QED
    BY <1>10, <2>1, <2>2, <2>3, Zenon
<1>11. QED
  BY <1>1, <1>2, <1>3, <1>5, <1>6, <1>8, <1>9, <1>10, Zenon
     DEF Next, SessionStep, AnsweredTooLate, RegisterFails

-----------------------------------------------------------------------------
(* LeaseInv is inductive.                                                    *)

\* At the start no session has done anything.
LEMMA InitHeld == Init => LeaseInv
  BY DEF Init, LeaseInv, TypeOK, HeldInv, LifeInv, NoLease, HostLeaseRow, Lives, Renewals

\* A registration whose stamp is no earlier than t - TicksPerMs covers t.
LEMMA StampCovers ==
  ASSUME NEW stamp \in Nat, NEW t \in Int,
         t <= stamp + Duration - TicksPerMs + 1
  PROVE  StoreNow(stamp) + Duration >= t + Half
  BY StoreNowBounds, ConstantTypes

\* A lease is taken over only when every window it covered is over.
LEMMA TakenOver ==
  ASSUME TypeOK, NEW s \in Sessions, NEW g \in Sessions, g # s, MayRegister(s),
         NEW t \in Int, LeaseUntil(g, t)
  PROVE  now >= t
<1>1. now \in Nat /\ lease.expires \in Nat /\ StoreNow(now) <= now + Half /\ StoreNow(now) \in Nat
  BY SessionTypes, StoreNowBounds, Zenon DEF TypeOK
<1>2. QED
  BY <1>1, ConstantTypes DEF MayRegister, LeaseUntil

\* A step that leaves the lease, the clock, and the session alone keeps HeldInv.
LEMMA HeldUnchanged ==
  ASSUME NEW g \in Sessions, HeldInv(g), now' = now, lease' = lease,
         life'[g] = life[g], renewal'[g] = renewal[g], asked'[g] = asked[g],
         anchor'[g] = anchor[g], deadline'[g] = deadline[g], g \in deletes' => g \in deletes
  PROVE  HeldInv(g)'
  BY Zenon DEF HeldInv, LifeInv, LeaseUntil, LatestDeadline

\* Time passes.
LEMMA TickHeld ==
  ASSUME LeaseInv, Tick, NEW g \in Sessions
  PROVE  HeldInv(g)'
<1>1. TypeOK /\ HeldInv(g) /\ now' = now + 1
      /\ UNCHANGED <<lease, deletes, life, renewal, asked, anchor, deadline>>
  BY Zenon DEF LeaseInv, Tick, lives
<1>2. now \in Nat /\ asked[g] \in Nat /\ anchor[g] \in Nat /\ deadline[g] \in Nat
  BY <1>1, SessionTypes, Zenon
<1>3. ASSUME NEW t \in Int, LeaseUntil(g, t) PROVE LeaseUntil(g, t)'
  BY <1>1, <1>2, <1>3 DEF LeaseUntil
<1>4. LatestDeadline(g) \in Int /\ LatestDeadline(g)' = LatestDeadline(g)
  BY <1>1, <1>2, ConstantTypes DEF LatestDeadline
<1>5. life[g] \in {"serving", "draining"} => LeaseUntil(g, deadline[g])'
  BY <1>1, <1>2, <1>3 DEF HeldInv, LifeInv
<1>6. renewal[g] \in {"granted", "answered"} => LeaseUntil(g, LatestDeadline(g))'
  BY <1>1, <1>3, <1>4, Zenon DEF HeldInv, LifeInv
<1>7. QED
  BY <1>1, <1>2, <1>5, <1>6, ConstantTypes DEF HeldInv, LifeInv

\* A registration is carried out: for its session it covers what was covered
\* before, however late it comes; for another session it changes nothing that
\* was not over.
LEMMA RegisterHeld ==
  ASSUME LeaseInv, SlowEnough, NEW request \in requests, NEW stamp \in 0..now,
         Register(request, stamp), NEW g \in Sessions
  PROVE  HeldInv(g)'
<1> DEFINE s == request.session
<1>1. TypeOK /\ HeldInv(g) /\ s \in Sessions /\ request.sent \in Nat /\ stamp \in Nat
  BY DEF LeaseInv, TypeOK
<1>2. /\ now' = now /\ UNCHANGED <<deletes, life, asked, anchor, deadline>>
      /\ stamp >= request.sent + Latency /\ now <= stamp + Stall
      /\ stamp <= now
  BY <1>1 DEF Register, lives
<1>3. /\ now \in Nat /\ asked[g] \in Nat /\ anchor[g] \in Nat /\ deadline[g] \in Nat
      /\ LatestDeadline(g) \in Int /\ LatestDeadline(g)' = LatestDeadline(g)
  BY <1>1, <1>2, SessionTypes, ConstantTypes DEF LatestDeadline
<1>4. CASE ~MayRegister(s)
  <2>1. /\ lease' = lease
        /\ renewal'[g] = renewal[g] \/ (renewal[g] = "sent" /\ renewal'[g] = "refused")
    BY <1>1, <1>4, Zenon DEF Register, TypeOK
  <2>2. QED
    BY <1>1, <1>2, <2>1, Zenon DEF HeldInv, LifeInv, LeaseUntil, LatestDeadline
<1>5. CASE MayRegister(s) /\ g # s
  <2>1. renewal'[g] = renewal[g]
    BY <1>1, <1>5, Zenon DEF Register, TypeOK
  <2>2. life[g] \in {"serving", "draining"} => now >= deadline[g]
    BY <1>1, <1>3, <1>5, TakenOver DEF HeldInv, LifeInv
  <2>3. renewal[g] \in {"granted", "answered"} => now >= LatestDeadline(g)
    BY <1>1, <1>3, <1>5, TakenOver, Zenon DEF HeldInv, LifeInv
  <2>4. QED
    BY <1>1, <1>2, <1>3, <2>1, <2>2, <2>3, Zenon DEF HeldInv, LifeInv, LeaseUntil
<1>6. CASE MayRegister(s) /\ g = s
  <2>1. /\ lease' = [session |-> g, expires |-> StoreNow(stamp) + Duration]
        /\ \/ renewal'[g] = renewal[g]
           \/ renewal[g] = "sent" /\ renewal'[g] = "granted" /\ asked[g] = request.sent
    BY <1>1, <1>6, Zenon DEF Register, TypeOK
  <2>2. ASSUME NEW t \in Int, t <= stamp + Duration - TicksPerMs + 1
        PROVE  LeaseUntil(g, t)'
    BY <1>1, <2>1, <2>2, StampCovers, Zenon DEF LeaseUntil, Half
  <2>3. Latency >= 2 * (TicksPerMs - 1) + Stall
    BY Zenon DEF SlowEnough
  <2>4. life[g] \in {"serving", "draining"} => LeaseUntil(g, deadline[g])'
    <3>1. ASSUME life[g] \in {"serving", "draining"}
          PROVE  deadline[g] <= stamp + Duration - TicksPerMs + 1
      BY <1>1, <1>2, <1>3, <2>3, <3>1, ConstantTypes DEF HeldInv, LifeInv
    <3>2. QED
      BY <1>2, <1>3, <2>2, <3>1
  <2>5. renewal'[g] \in {"granted", "answered"} => now >= asked[g] + Latency
    BY <1>1, <1>2, <1>3, <2>1, ConstantTypes DEF HeldInv, LifeInv
  <2>6. renewal'[g] \in {"granted", "answered"} => stamp + Stall >= asked[g] + Latency
    BY <1>1, <1>2, <1>3, <2>5, ConstantTypes
  <2>7. renewal'[g] \in {"granted", "answered"} => LeaseUntil(g, LatestDeadline(g))'
    <3>1. ASSUME renewal'[g] \in {"granted", "answered"}
          PROVE  LatestDeadline(g) <= stamp + Duration - TicksPerMs + 1
      BY <1>1, <1>3, <2>3, <2>6, <3>1, ConstantTypes DEF LatestDeadline
    <3>2. QED
      BY <1>3, <2>2, <3>1, Zenon
  <2>8. QED
    BY <1>1, <1>2, <1>3, <2>1, <2>4, <2>5, <2>7, Zenon DEF HeldInv, LifeInv
<1>7. QED
  BY <1>4, <1>5, <1>6, Zenon

\* The deadline that renew_once_with_deadline computes is no later than the
\* clock sampled before the call allows, up to truncation.
LEMMA ConfirmedDeadline ==
  ASSUME TypeOK, NEW s \in Sessions, HeldInv(s), renewal[s] = "answered"
  PROVE  anchor[s] + (ValidUntil(s) - LocalNow(s, now)) <= LatestDeadline(s)
<1>1. /\ now \in Nat /\ asked[s] \in Nat /\ anchor[s] \in Nat /\ offset[s] \in Nat
      /\ anchor[s] <= now
  BY SessionTypes, Zenon DEF HeldInv, LifeInv
<1>2. /\ LocalNow(s, now) \in Nat /\ now + offset[s] < LocalNow(s, now) + TicksPerMs
      /\ LocalNow(s, asked[s]) \in Nat /\ LocalNow(s, asked[s]) <= asked[s] + offset[s]
  BY <1>1, LocalNowBounds, Zenon
<1>3. QED
  BY <1>1, <1>2, ConstantTypes DEF ValidUntil, LatestDeadline

\* A confirmed registration moves the deadline to a time the lease covers.
LEMMA ConfirmHeld ==
  ASSUME LeaseInv, NEW s \in Sessions, Confirm(s)
  PROVE  HeldInv(s)'
<1> DEFINE new == anchor[s] + (ValidUntil(s) - LocalNow(s, now))
<1>1. TypeOK /\ HeldInv(s) /\ renewal[s] = "answered"
  BY Zenon DEF LeaseInv, Confirm
<1>2. /\ now' = now /\ lease' = lease /\ deletes' = deletes
      /\ deadline'[s] = new /\ renewal'[s] = "waiting"
      /\ life'[s] = IF life[s] = "starting" THEN "serving" ELSE life[s]
  BY <1>1, Zenon DEF Confirm, Continue, TypeOK, RenewalDone
<1>3. /\ now \in Nat /\ asked[s] \in Nat /\ new \in Nat /\ lease.expires \in Nat
      /\ new <= LatestDeadline(s)
  BY <1>1, SessionTypes, DeadlineType, ConfirmedDeadline, Zenon DEF Confirm
<1>4. now >= asked[s] + Latency /\ LeaseUntil(s, LatestDeadline(s))
  BY <1>1, Zenon DEF HeldInv, LifeInv
<1>5. LatestDeadline(s) = asked[s] + Duration + TicksPerMs - 1
  BY Zenon DEF LatestDeadline
<1> HIDE DEF new
<1>6. LeaseUntil(s, deadline[s])'
  BY <1>2, <1>3, <1>4, <1>5, ConstantTypes DEF LeaseUntil, Half
<1>7. deadline'[s] + Latency <= now' + Duration + TicksPerMs - 1
  BY <1>2, <1>3, <1>4, <1>5, ConstantTypes
<1>8. QED
  BY <1>1, <1>2, <1>6, <1>7, Zenon DEF HeldInv, LifeInv

\* Every other step of a session.
LEMMA SessionHeld ==
  ASSUME LeaseInv, NEW s \in Sessions, SessionStep(s), NEW g \in Sessions
  PROVE  HeldInv(g)'
<1>1. TypeOK /\ HeldInv(g) /\ HeldInv(s) /\ now \in Nat
  BY Zenon DEF LeaseInv, TypeOK
<1>2. CASE g # s
  <2>1. /\ now' = now /\ lease' = lease /\ life'[g] = life[g] /\ renewal'[g] = renewal[g]
        /\ asked'[g] = asked[g] /\ anchor'[g] = anchor[g] /\ deadline'[g] = deadline[g]
        /\ (g \in deletes' => g \in deletes)
    BY <1>1, <1>2, Zenon DEF SessionStep, Start, Renew, SendRegistration, SelfFence, Answer,
         Confirm, Continue, AnsweredTooLate, RegisterFails, Unconfirmed, StopServing,
         Drained, Exit, TypeOK, lives, RenewalDone, TimerDone
  <2>2. QED
    BY <1>1, <2>1, HeldUnchanged, Zenon
<1>3. CASE g = s
  <2>1. CASE Confirm(s)
    BY <1>3, <2>1, ConfirmHeld, Zenon
  <2>2. CASE Start(s) \/ Renew(s)
    BY <1>1, <1>3, <2>2, Zenon DEF Start, Renew, SendRegistration, TypeOK, HeldInv, LifeInv, LeaseUntil,
         LatestDeadline, lives, TimerDone
  <2>3. CASE SelfFence(s)
    BY <1>1, <1>3, <2>3, Zenon DEF SelfFence, TypeOK, HeldInv, LifeInv, LeaseUntil, LatestDeadline, RenewalDone, TimerDone
  <2>4. CASE Answer(s)
    BY <1>1, <1>3, <2>4 DEF Answer, TypeOK, HeldInv, LifeInv, LeaseUntil, LatestDeadline, lives
  <2>5. CASE Unconfirmed(s) /\ renewal[s] # "off"
    <3>1. /\ now' = now /\ lease' = lease /\ deletes' = deletes /\ deadline' = deadline
          /\ \/ life'[s] = "exited" /\ renewal'[s] = "off"
             \/ life'[s] = life[s] /\ life[s] # "starting" /\ renewal'[s] = "waiting"
      BY <1>1, <2>5, Zenon DEF Unconfirmed, Continue, TypeOK, RenewalDone, TimerDone
    <3>2. QED
      BY <1>1, <1>3, <2>5, <3>1, Zenon DEF HeldInv, LifeInv, LeaseUntil
  <2>6. CASE StopServing(s)
    BY <1>1, <1>3, <2>6, Zenon DEF StopServing, TypeOK, HeldInv, LifeInv, LeaseUntil, LatestDeadline
  <2>7. CASE Drained(s) \/ Exit(s)
    BY <1>1, <1>3, <2>7, Zenon DEF Drained, Exit, TypeOK, HeldInv, LifeInv, RenewalDone, TimerDone
  <2>8. QED
    BY <2>1, <2>2, <2>3, <2>4, <2>5, <2>6, <2>7, Zenon
       DEF SessionStep, AnsweredTooLate, RegisterFails
<1>4. QED
  BY <1>2, <1>3, Zenon

\* An unregistration only removes the lease of a session that is done with it.
LEMMA UnregisterHeld ==
  ASSUME LeaseInv, NEW s \in deletes, Unregister(s), NEW g \in Sessions
  PROVE  HeldInv(g)'
<1>1. TypeOK /\ HeldInv(g) /\ s \in Sessions
  BY Zenon DEF LeaseInv, TypeOK
<1>2. /\ now' = now /\ UNCHANGED <<life, renewal, asked, anchor, deadline>>
      /\ deletes' = deletes \ {s} /\ (lease.session # s => lease' = lease)
  BY Zenon DEF Unregister, lives
<1>3. CASE g = s
  BY <1>1, <1>2, <1>3, Zenon DEF HeldInv, LifeInv
<1>4. CASE g # s
  BY <1>1, <1>2, <1>4, Zenon DEF HeldInv, LifeInv, LeaseUntil, LatestDeadline
<1>5. QED
  BY <1>3, <1>4, Zenon

\* LeaseInv is inductive when a registration takes longer than the rounding.
LEMMA NextHeld == SlowEnough /\ LeaseInv /\ [Next]_vars => LeaseInv'
<1> SUFFICES ASSUME SlowEnough, LeaseInv, [Next]_vars PROVE LeaseInv'
  BY Zenon
<1>1. CASE UNCHANGED vars
  BY <1>1, Zenon DEF vars, lives, LeaseInv, TypeOK, HeldInv, LifeInv, LeaseUntil, LatestDeadline
<1>2. CASE Next
  <2>1. TypeOK'
    BY <1>2, TypesKept, Zenon DEF LeaseInv
  <2>2. ASSUME NEW g \in Sessions PROVE HeldInv(g)'
    BY <1>2, TickHeld, RegisterHeld, UnregisterHeld, SessionHeld, Zenon DEF Next
  <2>3. QED
    BY <2>1, <2>2, Zenon DEF LeaseInv
<1>3. QED
  BY <1>1, <1>2, Zenon

-----------------------------------------------------------------------------
(* The theorems.                                                             *)

\* LeaseInv in particular gives what ConfirmedIsHeld says of one state.
LEMMA HeldThen == LeaseInv => ConfirmedIsHeld
<1> SUFFICES ASSUME LeaseInv, NEW s \in Sessions, Confirmed(s)
             PROVE  lease.session = s /\ LeaseActive(lease, now)
  BY Zenon DEF ConfirmedIsHeld
<1>1. /\ TypeOK /\ now \in Nat /\ deadline[s] \in Nat /\ lease.expires \in Nat
      /\ now < deadline[s] /\ LeaseUntil(s, deadline[s])
  BY SessionTypes, Zenon DEF LeaseInv, HeldInv, LifeInv, Confirmed
<1>2. StoreNow(now) \in Nat /\ StoreNow(now) <= now + Half
  BY <1>1, StoreNowBounds, Zenon
<1>3. lease.session = s /\ lease.expires > StoreNow(now)
  BY <1>1, <1>2, ConstantTypes DEF LeaseUntil
<1>4. QED
  BY <1>3, NoSessionAssumption, Zenon DEF LeaseActive

\* The lease outlasts every deadline in force or on its way, and every registration
\* still to be carried out covers it (lease_maintenance.rs, postgres.rs register).
THEOREM LeaseCovers == SlowEnough => (Spec => []LeaseInv)
<1> SUFFICES ASSUME SlowEnough PROVE Spec => []LeaseInv
  BY Zenon
<1>1. LeaseInv /\ [Next]_vars => LeaseInv'
  BY NextHeld, Zenon
<1>2. QED
  BY <1>1, InitHeld, PTL DEF Spec

\* A session that serves before its local deadline holds the active lease, for
\* all clock offsets, delays and late registrations, provided a registration
\* takes longer than the rounding of the two clocks (renew_once_with_deadline).
THEOREM ConfirmedLeaseHeld == SlowEnough => (Spec => []ConfirmedIsHeld)
<1> SUFFICES ASSUME SlowEnough PROVE Spec => []ConfirmedIsHeld
  BY Zenon
<1>1. LeaseInv /\ [Next]_vars => LeaseInv'
  BY NextHeld, Zenon
<1>2. QED
  BY <1>1, InitHeld, HeldThen, PTL DEF Spec

\* Every reachable state has its type.
THEOREM TypeCorrect == Spec => []TypeOK
<1>1. Init => TypeOK
  BY InitHeld, Zenon DEF LeaseInv
<1>2. TypeOK /\ [Next]_vars => TypeOK'
  <2>1. TypeOK /\ UNCHANGED vars => TypeOK'
    BY Zenon DEF vars, lives, TypeOK
  <2>2. QED
    BY <2>1, TypesKept, Zenon
<1>3. QED
  BY <1>1, <1>2, PTL DEF Spec

\* A session's renewal task and its unregistration never overlap, whatever the
\* delays (serve_actor_host stops the renewal first).
LEMMA LifeKept ==
  ASSUME TypeOK, \A g \in Sessions : LifeInv(g), [Next]_vars, NEW g \in Sessions
  PROVE  LifeInv(g)'
<1>1. LifeInv(g)
  BY Zenon
<1>2. CASE UNCHANGED vars
  BY <1>1, <1>2, Zenon DEF vars, lives, LifeInv
<1>3. CASE Tick
  BY <1>1, <1>3, Zenon DEF Tick, lives, LifeInv
<1>4. ASSUME NEW request \in requests, NEW stamp \in 0..now, Register(request, stamp)
      PROVE  LifeInv(g)'
  <2>1. /\ UNCHANGED <<life, deletes>>
        /\ renewal'[g] = renewal[g] \/ renewal[g] = "sent"
    BY <1>4, Zenon DEF Register, lives, TypeOK
  <2>2. QED
    BY <1>1, <2>1, Zenon DEF LifeInv
<1>5. ASSUME NEW s \in deletes, Unregister(s) PROVE LifeInv(g)'
  BY <1>1, <1>5, Zenon DEF Unregister, lives, LifeInv
<1>6. ASSUME NEW s \in Sessions, SessionStep(s) PROVE LifeInv(g)'
  <2>1. CASE Start(s) \/ Renew(s) \/ SelfFence(s) \/ Answer(s)
    BY <1>1, <2>1, Zenon DEF Start, Renew, SendRegistration, SelfFence, Answer, lives, TypeOK, LifeInv, RenewalDone, TimerDone
  <2>2. CASE Confirm(s) \/ AnsweredTooLate(s) \/ RegisterFails(s)
    <3>1. /\ renewal[s] # "off" /\ deletes' = deletes
          /\ \/ Continue(s)
             \/ /\ life' = [life EXCEPT ![s] = "exited"]
                /\ renewal' = [renewal EXCEPT ![s] = "off"]
      BY <2>2, Zenon DEF Confirm, AnsweredTooLate, RegisterFails, Unconfirmed, RenewalDone, TimerDone
    <3>2. QED
      BY <1>1, <3>1, Zenon DEF Continue, TypeOK, LifeInv, RenewalDone
  <2>3. CASE StopServing(s) \/ Drained(s) \/ Exit(s)
    BY <1>1, <2>3, Zenon DEF StopServing, Drained, Exit, TypeOK, LifeInv, RenewalDone, TimerDone
  <2>4. QED
    BY <1>6, <2>1, <2>2, <2>3, Zenon DEF SessionStep
<1>7. QED
  BY <1>2, <1>3, <1>4, <1>5, <1>6, Zenon DEF Next

\* No step takes an active lease from its session, except the session's own
\* unregistration after it stopped renewing (the WHERE of register and of
\* unregister, and the order of serve_actor_host).
THEOREM LeaseKept == Spec => ActiveLeaseKept
<1> DEFINE Inv == TypeOK /\ \A g \in Sessions : LifeInv(g)
<1>1. Init => Inv
  BY InitHeld, Zenon DEF LeaseInv, HeldInv
<1>2. Inv /\ [Next]_vars => Inv'
  <2>1. TypeOK /\ [Next]_vars => TypeOK'
    BY TypesKept, Zenon DEF vars, lives, TypeOK
  <2>2. QED
    BY <2>1, LifeKept, Zenon
<1>3. Inv /\ [Next]_vars =>
          [\A s \in Sessions :
             lease.session = s /\ LeaseActive(lease, now) /\ lease'.session # s =>
                 /\ lease' = NoLease
                 /\ life[s] \in {"unregistering", "exited"} /\ renewal[s] = "off"]_vars
  <2> SUFFICES ASSUME Inv, Next, NEW s \in Sessions,
                      lease.session = s, LeaseActive(lease, now), lease'.session # s
               PROVE  /\ lease' = NoLease
                      /\ life[s] \in {"unregistering", "exited"} /\ renewal[s] = "off"
    BY Zenon
  <2>1. ASSUME NEW request \in requests, NEW stamp \in 0..now, Register(request, stamp)
        PROVE  FALSE
    <3>1. StoreNow(now) \in Nat /\ lease.expires \in Nat
      BY StoreNowBounds, Zenon DEF TypeOK, HostLeaseRow
    <3>2. QED
      BY <2>1, <3>1 DEF Register, MayRegister, LeaseActive
  <2>2. lease' # lease
    BY Zenon
  <2>3. PICK d \in deletes : Unregister(d)
    BY <2>1, <2>2, Zenon DEF Next, Tick, SessionStep, Start, Renew, SelfFence, Answer, Confirm,
         AnsweredTooLate, RegisterFails, Unconfirmed, StopServing, Drained, Exit, RenewalDone, TimerDone
  <2>4. d = s /\ lease' = NoLease
    BY <2>2, <2>3, Zenon DEF Unregister
  <2>5. QED
    BY <2>4, Zenon DEF LifeInv, TypeOK
<1>4. QED
  BY <1>1, <1>2, <1>3, PTL DEF Spec, ActiveLeaseKept

-----------------------------------------------------------------------------
(* A prompt host keeps its lease.                                            *)

\* A confirmed deadline leaves the whole lease but a millisecond, counted from
\* the moment the registration was sent.
LEMMA PromptDeadline ==
  ASSUME TypeOK, NEW s \in Sessions, anchor[s] = now
  PROVE  /\ LocalNow(s, now) \in Nat /\ ValidUntil(s) \in Nat
         /\ asked[s] + Duration < anchor[s] + (ValidUntil(s) - LocalNow(s, now)) + TicksPerMs
<1>1. now \in Nat /\ asked[s] \in Nat /\ offset[s] \in Nat
  BY SessionTypes, Zenon
<1>2. /\ LocalNow(s, now) \in Nat /\ LocalNow(s, now) <= now + offset[s]
      /\ LocalNow(s, asked[s]) \in Nat
      /\ asked[s] + offset[s] < LocalNow(s, asked[s]) + TicksPerMs
  BY <1>1, LocalNowBounds, Zenon
<1>3. QED
  BY <1>1, <1>2, ConstantTypes DEF ValidUntil

\* No step of a prompt system lets a deadline come near.
LEMMA NextPrompt ==
  ASSUME RenewsInTime, LeaseInv, FenceInv, Next
  PROVE  FenceInv'
<1>1. TypeOK /\ lost = {} /\ Prompt /\ RenewEvery + 2 * MaxRpc + TicksPerMs <= Duration
  BY Zenon DEF LeaseInv, FenceInv, RenewsInTime
<1>2. ASSUME NEW g \in Sessions
      PROVE  /\ PromptInv(g) /\ HeldInv(g) /\ now \in Nat /\ asked[g] \in Nat
             /\ anchor[g] \in Nat /\ timer[g] \in Nat /\ deadline[g] \in Nat
  BY <1>1, SessionTypes, Zenon DEF LeaseInv, FenceInv
<1>3. CASE Tick
  <2>1. ASSUME NEW g \in Sessions PROVE PromptInv(g)'
    <3>1. ~Due(g) /\ now' = now + 1
          /\ UNCHANGED <<life, renewal, asked, anchor, timer, deadline>>
      BY <1>1, <1>3, Zenon DEF Tick, lives
    <3>2. QED
      BY <1>2, <3>1, ConstantTypes DEF PromptInv, Due
  <2>2. QED
    BY <1>1, <1>3, <2>1, Zenon DEF Tick, lives, FenceInv
<1>4. ASSUME NEW request \in requests, NEW stamp \in 0..now, Register(request, stamp)
      PROVE  FenceInv'
  <2>1. ASSUME NEW g \in Sessions PROVE PromptInv(g)'
    <3>1. /\ UNCHANGED <<now, life, asked, anchor, timer, deadline>>
          /\ \/ renewal'[g] = renewal[g]
             \/ renewal[g] = "sent" /\ renewal'[g] = "granted"
             \/ renewal[g] = "sent" /\ renewal'[g] = "refused" /\ lease.session # g
      BY <1>1, <1>4, Zenon DEF Register, MayRegister, lives, TypeOK
    <3>2. renewal[g] = "sent" /\ life[g] # "starting" => lease.session = g
      BY <1>2, ConstantTypes DEF PromptInv, HeldInv, LifeInv, LeaseUntil
    <3>3. QED
      BY <1>2, <3>1, <3>2, Zenon DEF PromptInv
  <2>2. QED
    BY <1>1, <1>4, <2>1, Zenon DEF Register, lives, FenceInv
<1>5. ASSUME NEW s \in deletes, Unregister(s) PROVE FenceInv'
  BY <1>5, Zenon DEF Unregister, lives, FenceInv, PromptInv
<1>6. ASSUME NEW s \in Sessions, SessionStep(s) PROVE FenceInv'
  <2>1. ASSUME NEW g \in Sessions, g # s PROVE PromptInv(g)'
    <3>1. /\ now' = now /\ life'[g] = life[g] /\ renewal'[g] = renewal[g]
          /\ asked'[g] = asked[g] /\ anchor'[g] = anchor[g] /\ timer'[g] = timer[g]
          /\ deadline'[g] = deadline[g]
      BY <1>1, <1>6, <2>1, Zenon DEF SessionStep, Start, Renew, SendRegistration, SelfFence,
           Answer, Confirm, Continue, AnsweredTooLate, RegisterFails, Unconfirmed,
           StopServing, Drained, Exit, TypeOK, lives, RenewalDone, TimerDone
    <3>2. QED
      BY <1>2, <3>1, Zenon DEF PromptInv
  <2>2. ~SelfFence(s)
    BY <1>2, ConstantTypes DEF SelfFence, PromptInv, RenewalDone, TimerDone
  <2>3. PromptInv(s)'
    <3>1. CASE Start(s) \/ Renew(s)
      BY <1>1, <1>2, <3>1, ConstantTypes DEF Start, Renew, SendRegistration, PromptInv,
           HeldInv, LifeInv, TypeOK, lives, TimerDone
    <3>2. CASE Answer(s)
      BY <1>1, <1>2, <3>2, Zenon DEF Answer, PromptInv, TypeOK, lives
    <3>3. CASE Confirm(s)
      <4>1. /\ now' = now /\ renewal'[s] = "waiting" /\ life'[s] # "starting"
            /\ timer'[s] = now + RenewEvery
            /\ deadline'[s] = anchor[s] + (ValidUntil(s) - LocalNow(s, now))
        BY <1>1, <3>3, Zenon DEF Confirm, Continue, TypeOK, RenewalDone
      <4>2. anchor[s] = now /\ now <= asked[s] + MaxRpc
        BY <1>2, <3>3, Zenon DEF Confirm, PromptInv
      <4>3. /\ deadline'[s] \in Nat
            /\ asked[s] + Duration < deadline'[s] + TicksPerMs
        BY <1>1, <3>3, <4>1, <4>2, PromptDeadline, DeadlineType, Zenon DEF Confirm
      <4>4. timer'[s] + MaxRpc < deadline'[s]
        BY <1>1, <1>2, <4>1, <4>2, <4>3, ConstantTypes
      <4>5. QED
        BY <1>2, <4>1, <4>4, ConstantTypes DEF PromptInv
    <3>4. ~AnsweredTooLate(s)
      <4>1. SUFFICES ASSUME AnsweredTooLate(s) PROVE FALSE
        BY Zenon
      <4>2. anchor[s] = now /\ now <= asked[s] + MaxRpc /\ ValidUntil(s) <= LocalNow(s, now)
        BY <1>2, <4>1, Zenon DEF AnsweredTooLate, PromptInv
      <4>3. QED
        BY <1>1, <1>2, <4>2, PromptDeadline, ConstantTypes
    <3>5. CASE RegisterFails(s)
      BY <1>1, <1>2, <3>5, Zenon DEF RegisterFails, Unconfirmed, PromptInv, TypeOK, RenewalDone, TimerDone
    <3>6. CASE StopServing(s) \/ Drained(s) \/ Exit(s)
      BY <1>1, <1>2, <3>6, Zenon DEF StopServing, Drained, Exit, PromptInv, TypeOK, RenewalDone, TimerDone
    <3>7. QED
      BY <1>6, <2>2, <3>1, <3>2, <3>3, <3>4, <3>5, <3>6, Zenon DEF SessionStep
  <2>4. lost' = lost
    BY <1>6, <2>2, Zenon DEF SessionStep, Start, Renew, Answer, Confirm, AnsweredTooLate,
         RegisterFails, Unconfirmed, StopServing, Drained, Exit, lives, RenewalDone, TimerDone
  <2>5. QED
    BY <1>1, <2>1, <2>3, <2>4, Zenon DEF FenceInv
<1>7. QED
  BY <1>3, <1>4, <1>5, <1>6, Zenon DEF Next

\* A host whose timers fire on time and whose registrations are answered within
\* MaxRpc never fences itself, provided two answers, the wait between them and
\* a millisecond fit into the lease (wait_until_renewal, renew_before_deadline).
THEOREM PromptHostServes == SlowEnough /\ RenewsInTime => (Spec => []NeverFenced)
<1> SUFFICES ASSUME SlowEnough, RenewsInTime PROVE Spec => []NeverFenced
  BY Zenon
<1>1. Init => FenceInv
  BY Zenon DEF Init, FenceInv, PromptInv
<1>2. LeaseInv /\ [Next]_vars => LeaseInv'
  BY NextHeld, Zenon
<1>3. LeaseInv /\ FenceInv /\ [Next]_vars => FenceInv'
  <2>1. FenceInv /\ UNCHANGED vars => FenceInv'
    BY Zenon DEF vars, lives, FenceInv, PromptInv
  <2>2. QED
    BY <2>1, NextPrompt, Zenon
<1>4. FenceInv => NeverFenced
  BY Zenon DEF FenceInv, NeverFenced
<1>5. QED
  BY <1>1, <1>2, <1>3, <1>4, InitHeld, PTL DEF Spec
=============================================================================
