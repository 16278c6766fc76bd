---------------------- MODULE HostExecution_proofs ----------------------
(***************************************************************************)
(* One operation of an actor at a time, on the state the host holds, with a *)
(* Worker that will answer, and nothing after a drain: for every number of  *)
(* actors and operations and all limits.                                    *)
(***************************************************************************)
EXTENDS HostExecution, FiniteSetTheorems, TLAPS

-----------------------------------------------------------------------------
(* Admission: permits, the queue for the locks, and who has one.             *)

\* Every admitted operation is in the queue once and holds the one gate of its
\* actor; only the first of an actor in the queue executes (ActorExecutionLocks).
QueueInv ==
    /\ phase \in [Ops -> OpPhases] /\ gate \in [Ops -> Nat] /\ queue \in Seq(Ops)
    /\ Range(queue) = Active
    /\ IsFiniteSet(Active)
    /\ \A i, j \in DOMAIN queue : queue[i] = queue[j] => i = j
    /\ \A o \in Ops : gate[o] = IF o \in Active THEN 1 ELSE 0
    /\ \A i, j \in DOMAIN queue :
          i < j /\ ActorOf[queue[i]] = ActorOf[queue[j]] => phase[queue[j]] = "queued"
    /\ AdmissionBound

\* The place of an admitted operation.
LEMMA Place ==
  ASSUME QueueInv, NEW o \in Active
  PROVE  o \in Ops /\ \E i \in DOMAIN queue : queue[i] = o
  BY DEF QueueInv, Range, Active

\* Only one operation of an actor executes (ActorExecutionLocks).
LEMMA OnlyOne ==
  ASSUME QueueInv, NEW o \in Ops, NEW p \in Ops, o # p, ActorOf[o] = ActorOf[p], Working(o)
  PROVE  ~Working(p)
<1> SUFFICES ASSUME Working(p) PROVE FALSE
  BY Zenon
<1>1. o \in Active /\ p \in Active
  BY Zenon DEF Active, Working
<1>2. PICK i \in DOMAIN queue : queue[i] = o
  BY <1>1, Place, Zenon
<1>3. PICK j \in DOMAIN queue : queue[j] = p
  BY <1>1, Place, Zenon
<1>4. DOMAIN queue \subseteq Nat
  BY DEF QueueInv
<1>5. i < j \/ j < i
  BY <1>2, <1>3, <1>4
<1>6. phase[o] = "queued" \/ phase[p] = "queued"
  BY <1>2, <1>3, <1>5, Zenon DEF QueueInv
<1>7. QED
  BY <1>6, Zenon DEF Working, Executing

\* What Without leaves of a queue without repetition.
LEMMA WithoutEntries ==
  ASSUME NEW q \in Seq(Ops), \A i, j \in DOMAIN q : q[i] = q[j] => i = j,
         NEW k \in DOMAIN q
  PROVE  /\ Without(q, q[k]) \in Seq(Ops)
         /\ DOMAIN Without(q, q[k]) = 1 .. Len(q) - 1
         /\ \A i \in 1 .. Len(q) - 1 : Without(q, q[k])[i] = q[IF i < k THEN i ELSE i + 1]
<1>1. k = CHOOSE i \in DOMAIN q : q[i] = q[k]
  BY Zenon
<1>2. Without(q, q[k]) = [i \in 1 .. Len(q) - 1 |-> q[IF i < k THEN i ELSE i + 1]]
  BY <1>1, Zenon DEF Without
<1>3. Len(q) \in Nat /\ Len(q) # 0 /\ DOMAIN q = 1 .. Len(q)
  OBVIOUS
<1>4. Len(q) - 1 \in Nat
  BY <1>3
<1>5. \A i \in 1 .. Len(q) - 1 : q[IF i < k THEN i ELSE i + 1] \in Ops
  BY <1>3
<1>6. QED
  BY <1>2, <1>4, <1>5

\* ... which is everything else.
LEMMA WithoutRange ==
  ASSUME NEW q \in Seq(Ops), \A i, j \in DOMAIN q : q[i] = q[j] => i = j,
         NEW k \in DOMAIN q
  PROVE  Range(Without(q, q[k])) = Range(q) \ {q[k]}
<1> DEFINE r == Without(q, q[k])
<1>1. /\ DOMAIN r = 1 .. Len(q) - 1
      /\ \A i \in 1 .. Len(q) - 1 : r[i] = q[IF i < k THEN i ELSE i + 1]
  BY WithoutEntries, Zenon
<1> HIDE DEF r
<1>2. Len(q) \in Nat /\ DOMAIN q = 1 .. Len(q) /\ k \in 1 .. Len(q)
  OBVIOUS
<1>3. ASSUME NEW i \in DOMAIN r PROVE r[i] \in Range(q) \ {q[k]}
  <2>1. CASE i < k
    <3>1. r[i] = q[i] /\ i \in DOMAIN q /\ i # k
      BY <1>1, <1>2, <2>1
    <3>2. QED
      BY <3>1, Zenon DEF Range
  <2>2. CASE ~(i < k)
    <3>1. r[i] = q[i + 1] /\ i + 1 \in DOMAIN q /\ i + 1 # k
      BY <1>1, <1>2, <2>2
    <3>2. QED
      BY <3>1, Zenon DEF Range
  <2>3. QED
    BY <2>1, <2>2, Zenon
<1>4. ASSUME NEW i \in DOMAIN q, i # k PROVE q[i] \in Range(r)
  <2>1. CASE i < k
    <3>1. r[i] = q[i] /\ i \in DOMAIN r
      BY <1>1, <1>2, <2>1
    <3>2. QED
      BY <3>1, Zenon DEF Range
  <2>2. CASE ~(i < k)
    <3>1. r[i - 1] = q[i] /\ i - 1 \in DOMAIN r
      BY <1>1, <1>2, <1>4, <2>2
    <3>2. QED
      BY <3>1, Zenon DEF Range
  <2>3. QED
    BY <2>1, <2>2, Zenon
<1>5. QED
  BY <1>3, <1>4, Zenon DEF Range, r

\* A phase that changes within the admitted, or within the others, leaves the
\* queue as it is; whoever begins to execute has the lock (Enter).
LEMMA QueuePhase ==
  ASSUME QueueInv, NEW o \in Ops, NEW p \in OpPhases, SetPhase(o, p),
         gate' = gate, queue' = queue,
         o \in Active <=> p \in {"queued"} \cup Executing,
         phase[o] = "queued" /\ p # "queued" => HasLock(o)
  PROVE  QueueInv' /\ Active' = Active
<1>1. phase' \in [Ops -> OpPhases] /\ phase'[o] = p /\ \A q \in Ops : q # o => phase'[q] = phase[q]
  BY Zenon DEF QueueInv, SetPhase
<1>2. Active' = Active
  <2>1. \A q \in Ops : q \in Active' <=> q \in Active
    BY <1>1, Zenon DEF Active
  <2>2. QED
    BY <2>1, Zenon DEF Active
<1>3. ASSUME NEW i \in DOMAIN queue, NEW j \in DOMAIN queue,
             i < j, ActorOf[queue[i]] = ActorOf[queue[j]]
      PROVE  phase'[queue[j]] = "queued"
  <2>1. phase[queue[j]] = "queued" /\ queue[i] \in Active /\ queue[j] \in Active
    BY <1>3, Zenon DEF QueueInv, Range
  <2>2. queue[i] \in Ops /\ queue[j] \in Ops
    BY <2>1, Zenon DEF Active
  <2>3. gate[queue[i]] = 1 /\ gate[queue[j]] = 1
    BY <2>1, <2>2, Zenon DEF QueueInv
  <2>4. i \in 1 .. j - 1
    BY <1>3 DEF QueueInv
  <2>5. ASSUME queue[j] = o PROVE p = "queued"
    BY <1>3, <2>1, <2>3, <2>4, <2>5, Zenon DEF HasLock
  <2>6. QED
    BY <1>1, <2>1, <2>2, <2>5, Zenon
<1>4. AdmissionBound'
  BY Zenon DEF QueueInv, AdmissionBound, Holders
<1>5. QED
  BY <1>1, <1>2, <1>3, <1>4, Zenon DEF QueueInv

\* The holders of an actor's gate are finitely many admitted operations.
LEMMA HoldersActive ==
  ASSUME QueueInv, NEW a \in Actors
  PROVE  /\ Holders(a) = {o \in Active : ActorOf[o] = a}
         /\ IsFiniteSet(Holders(a)) /\ Cardinality(Holders(a)) \in Nat
<1>1. \A o \in Ops : gate[o] # 0 <=> o \in Active
  BY DEF QueueInv
<1>2. Holders(a) = {o \in Active : ActorOf[o] = a}
  BY <1>1, Zenon DEF Holders, Active
<1>3. IsFiniteSet(Holders(a))
  BY <1>2, FS_Subset, Zenon DEF QueueInv
<1>4. QED
  BY <1>2, <1>3, FS_CardinalityType, Zenon

\* An actor has one gate as long as someone holds it, and the permits left are
\* those of all holders (gate, ActorExecutionLocks).
LEMMA OneGate ==
  ASSUME QueueInv, NEW a \in Actors
  PROVE  GateFor(a) = 1 /\ Permits(GateFor(a), a) = MaxAdmitted - Cardinality(Holders(a))
<1>1. \A o \in Holders(a) : gate[o] = 1
  BY HoldersActive, Zenon DEF QueueInv, Active
<1>2. GateFor(a) = 1
  BY <1>1, Zenon DEF GateFor
<1>3. {o \in Holders(a) : gate[o] = 1} = Holders(a)
  BY <1>1, Zenon
<1>4. QED
  BY <1>2, <1>3, Zenon DEF Permits

\* admit gives a permit and the last place in the queue.
LEMMA QueueAppend ==
  ASSUME QueueInv, NEW o \in Ops, phase[o] = "checked", SetPhase(o, "queued"),
         Permits(GateFor(ActorOf[o]), ActorOf[o]) > 0,
         gate' = [gate EXCEPT ![o] = GateFor(ActorOf[o])], queue' = Append(queue, o)
  PROVE  QueueInv'
<1>1. /\ phase' \in [Ops -> OpPhases] /\ phase'[o] = "queued"
      /\ \A q \in Ops : q # o => phase'[q] = phase[q]
  BY Zenon DEF QueueInv, SetPhase, OpPhases
<1>2. ActorOf[o] \in Actors
  BY OpsAssumption, Zenon
<1>3. /\ gate' \in [Ops -> Nat] /\ gate'[o] = 1
      /\ \A q \in Ops : q # o => gate'[q] = gate[q]
  BY <1>2, OneGate DEF QueueInv
<1>4. o \notin Active
  BY Zenon DEF Active, Executing
<1>5. Active' = Active \cup {o}
  <2>1. \A q \in Ops : q \in Active' <=> q \in Active \/ q = o
    BY <1>1, Zenon DEF Active
  <2>2. QED
    BY <2>1, Zenon DEF Active
<1>6. Len(queue) \in Nat /\ DOMAIN queue = 1 .. Len(queue)
  BY DEF QueueInv
<1>7. /\ queue' \in Seq(Ops) /\ DOMAIN queue' = 1 .. Len(queue) + 1
      /\ \A i \in DOMAIN queue : queue'[i] = queue[i]
      /\ queue'[Len(queue) + 1] = o
  BY <1>6 DEF QueueInv
<1>8. \A i \in DOMAIN queue : queue[i] \in Active /\ queue[i] \in Ops /\ queue[i] # o
  BY <1>4, Zenon DEF QueueInv, Range, Active
<1>9. DOMAIN queue' = DOMAIN queue \cup {Len(queue) + 1}
  BY <1>6, <1>7
<1>10. Range(queue') = Active'
  BY <1>5, <1>7, <1>9 DEF QueueInv, Range
<1>11. IsFiniteSet(Active')
  BY <1>5, FS_AddElement, Zenon DEF QueueInv
<1>12. \A i, j \in DOMAIN queue' : queue'[i] = queue'[j] => i = j
  BY <1>7, <1>8, <1>9 DEF QueueInv
<1>13. \A q \in Ops : gate'[q] = IF q \in Active' THEN 1 ELSE 0
  BY <1>3, <1>4, <1>5, Zenon DEF QueueInv
<1>14. ASSUME NEW i \in DOMAIN queue', NEW j \in DOMAIN queue',
              i < j, ActorOf[queue'[i]] = ActorOf[queue'[j]]
       PROVE  phase'[queue'[j]] = "queued"
  <2>1. CASE j = Len(queue) + 1
    BY <1>1, <1>7, <2>1, Zenon
  <2>2. CASE j # Len(queue) + 1
    <3>1. i \in DOMAIN queue /\ j \in DOMAIN queue
      BY <1>6, <1>7, <1>14, <2>2
    <3>2. QED
      BY <1>1, <1>7, <1>8, <1>14, <3>1 DEF QueueInv
  <2>3. QED
    BY <2>1, <2>2, Zenon
<1>15. ASSUME NEW a \in Actors PROVE Cardinality(Holders(a)') <= MaxAdmitted
  <2>1. CASE a = ActorOf[o]
    <3>1. Holders(a)' = Holders(a) \cup {o}
      <4>1. \A q \in Ops : q \in Holders(a)' <=> q \in Holders(a) \/ q = o
        BY <1>3, <2>1 DEF Holders
      <4>2. QED
        BY <4>1, Zenon DEF Holders
    <3>2. IsFiniteSet(Holders(a)) /\ Cardinality(Holders(a)) \in Nat
      BY HoldersActive, Zenon
    <3>3. Cardinality(Holders(a)) + 1 <= MaxAdmitted
      BY <1>2, <2>1, <3>2, OneGate, AdmittedAssumption
    <3>4. o \notin Holders(a)
      BY <1>4, HoldersActive, Zenon
    <3>5. Cardinality(Holders(a) \cup {o}) = Cardinality(Holders(a)) + 1
      BY <3>2, <3>4, FS_AddElement, Zenon
    <3>6. QED
      BY <3>1, <3>3, <3>5, Zenon
  <2>2. CASE a # ActorOf[o]
    <3>1. Holders(a)' = Holders(a)
      BY <1>3, <2>2, Zenon DEF Holders
    <3>2. QED
      BY <3>1, Zenon DEF QueueInv, AdmissionBound
  <2>3. QED
    BY <2>1, <2>2, Zenon
<1>16. AdmissionBound'
  BY <1>15, Zenon DEF AdmissionBound
<1>17. QED
  BY <1>1, <1>3, <1>7, <1>10, <1>11, <1>12, <1>13, <1>14, <1>16 DEF QueueInv

\* An operation that ends gives up its permit and its place (the guards dropped).
LEMMA QueueFinish ==
  ASSUME QueueInv, NEW o \in Active, SetPhase(o, "done"),
         gate' = [gate EXCEPT ![o] = 0], queue' = Without(queue, o)
  PROVE  QueueInv' /\ Active' = Active \ {o}
<1>1. o \in Ops
  BY Zenon DEF Active
<1>2. PICK k \in DOMAIN queue : queue[k] = o
  BY Place, Zenon
<1>3. /\ phase' \in [Ops -> OpPhases] /\ phase'[o] = "done"
      /\ \A q \in Ops : q # o => phase'[q] = phase[q]
  BY <1>1, Zenon DEF QueueInv, SetPhase, OpPhases
<1>4. /\ gate' \in [Ops -> Nat] /\ gate'[o] = 0
      /\ \A q \in Ops : q # o => gate'[q] = gate[q]
  BY <1>1, Zenon DEF QueueInv
<1>5. Active' = Active \ {o}
  <2>1. \A q \in Ops : q \in Active' <=> q \in Active /\ q # o
    BY <1>3, Zenon DEF Active, Executing
  <2>2. QED
    BY <2>1, Zenon DEF Active
<1>6. /\ queue' \in Seq(Ops) /\ DOMAIN queue' = 1 .. Len(queue) - 1
      /\ \A i \in 1 .. Len(queue) - 1 : queue'[i] = queue[IF i < k THEN i ELSE i + 1]
  <2>1. queue \in Seq(Ops) /\ \A i, j \in DOMAIN queue : queue[i] = queue[j] => i = j
    BY Zenon DEF QueueInv
  <2>2. /\ Without(queue, queue[k]) \in Seq(Ops)
        /\ DOMAIN Without(queue, queue[k]) = 1 .. Len(queue) - 1
        /\ \A i \in 1 .. Len(queue) - 1 :
              Without(queue, queue[k])[i] = queue[IF i < k THEN i ELSE i + 1]
    BY <2>1, WithoutEntries, Zenon
  <2>3. Without(queue, queue[k]) = queue'
    BY <1>2, Zenon
  <2>4. QED
    BY <2>2, <2>3, Zenon
<1>7. Range(queue') = Active'
  BY <1>2, <1>5, WithoutRange, Zenon DEF QueueInv
<1>8. IsFiniteSet(Active')
  BY <1>5, FS_RemoveElement, Zenon DEF QueueInv
<1> DEFINE Old(i) == IF i < k THEN i ELSE i + 1
<1>9. Len(queue) \in Nat /\ DOMAIN queue = 1 .. Len(queue)
  BY DEF QueueInv
<1>10. ASSUME NEW i \in DOMAIN queue', NEW j \in DOMAIN queue'
       PROVE  /\ Old(i) \in DOMAIN queue /\ Old(j) \in DOMAIN queue /\ Old(j) # k
              /\ queue'[i] = queue[Old(i)] /\ queue'[j] = queue[Old(j)]
              /\ (Old(i) = Old(j) => i = j) /\ (i < j => Old(i) < Old(j))
  BY <1>6, <1>9
<1> HIDE DEF Old
<1>11. \A i, j \in DOMAIN queue' : queue'[i] = queue'[j] => i = j
  BY <1>10 DEF QueueInv
<1>12. \A q \in Ops : gate'[q] = IF q \in Active' THEN 1 ELSE 0
  BY <1>4, <1>5, Zenon DEF QueueInv
<1>13. ASSUME NEW i \in DOMAIN queue', NEW j \in DOMAIN queue',
              i < j, ActorOf[queue'[i]] = ActorOf[queue'[j]]
       PROVE  phase'[queue'[j]] = "queued"
  <2>1. phase[queue'[j]] = "queued"
    BY <1>10, <1>13 DEF QueueInv
  <2>2. queue'[j] \in Active'
    BY <1>7, Zenon DEF Range
  <2>3. queue'[j] \in Ops /\ queue'[j] # o
    BY <1>5, <2>2, Zenon DEF Active
  <2>4. QED
    BY <1>3, <2>1, <2>3, Zenon
<1>14. ASSUME NEW a \in Actors PROVE Cardinality(Holders(a)') <= MaxAdmitted
  <2>1. Holders(a)' \subseteq Holders(a)
    BY <1>4, Zenon DEF Holders
  <2>2. IsFiniteSet(Holders(a)) /\ Cardinality(Holders(a)) \in Nat
    BY HoldersActive, Zenon
  <2>3. Cardinality(Holders(a)') <= Cardinality(Holders(a)) /\ Cardinality(Holders(a)') \in Nat
    BY <2>1, <2>2, FS_Subset, FS_CardinalityType, Zenon
  <2>4. Cardinality(Holders(a)) <= MaxAdmitted
    BY Zenon DEF QueueInv, AdmissionBound
  <2>5. QED
    BY <2>2, <2>3, <2>4, AdmittedAssumption
<1>15. AdmissionBound'
  BY <1>14, Zenon DEF AdmissionBound
<1>16. QED
  BY <1>3, <1>4, <1>5, <1>6, <1>7, <1>8, <1>11, <1>12, <1>13, <1>15 DEF QueueInv

\* Nothing happens to the operations.
LEMMA QueueQuiet ==
  ASSUME QueueInv, phase' = phase, gate' = gate, queue' = queue
  PROVE  QueueInv' /\ Active' = Active
<1>1. Active' = Active /\ \A a \in Actors : Holders(a)' = Holders(a)
  BY Zenon DEF Active, Holders
<1>2. AdmissionBound'
  BY <1>1, Zenon DEF QueueInv, AdmissionBound
<1>3. QED
  BY <1>1, <1>2, Zenon DEF QueueInv

\* The process ends with its operations.
LEMMA QueueEnds ==
  ASSUME QueueInv, ProcessEnds
  PROVE  QueueInv' /\ Active' = {}
<1>1. /\ phase' = [o \in Ops |-> IF o \in Active \/ phase[o] = "checked" THEN "lost" ELSE phase[o]]
      /\ gate' = [o \in Ops |-> 0] /\ queue' = << >>
  BY Zenon DEF ProcessEnds
<1>2. phase' \in [Ops -> OpPhases]
  BY <1>1, Zenon DEF QueueInv, OpPhases
<1>3. \A o \in Ops : phase'[o] = "lost" \/ (o \notin Active /\ phase'[o] = phase[o])
  BY <1>1, Zenon
<1>4. \A o \in Ops : o \notin Active'
  BY <1>3, Zenon DEF Active, Executing
<1>5. Active' = {}
  BY <1>4, Zenon DEF Active
<1>6. \A a \in Actors : Holders(a)' = {}
  BY <1>1, Zenon DEF Holders
<1>7. AdmissionBound'
  BY <1>6, FS_EmptySet, AdmittedAssumption DEF AdmissionBound
<1>8. gate' \in [Ops -> Nat] /\ queue' \in Seq(Ops) /\ DOMAIN queue' = {}
  BY <1>1
<1>9. Range(queue') = {}
  BY <1>8, Zenon DEF Range
<1>10. \A o \in Ops : gate'[o] = 0
  BY <1>1, Zenon
<1>11. QED
  BY <1>2, <1>4, <1>5, <1>7, <1>8, <1>9, <1>10, FS_EmptySet, Zenon DEF QueueInv

\* Steps of an operation, one by one.
LEMMA QueueOp ==
  ASSUME QueueInv, NEW o \in Ops, Check(o) \/ OpStep(o) \/ Cancel(o)
  PROVE  QueueInv'
<1>1. phase[o] \in OpPhases
  BY Zenon DEF QueueInv
<1>2. ASSUME phase[o] \in {"queued"} \cup Executing, Finish(o) PROVE QueueInv'
  <2>1. o \in Active
    BY <1>2, Zenon DEF Active
  <2>2. SetPhase(o, "done") /\ gate' = [gate EXCEPT ![o] = 0] /\ queue' = Without(queue, o)
    BY <1>2, Zenon DEF Finish
  <2>3. QED
    BY <2>1, <2>2, QueueFinish, Zenon
<1>3. ASSUME NEW p \in {"hinted", "hydrating", "publish"}, SetPhase(o, p), gate' = gate, queue' = queue,
             phase[o] \in Executing \/ (phase[o] = "queued" /\ HasLock(o))
      PROVE  QueueInv'
  <2>1. o \in Active /\ p \in Executing /\ p \in OpPhases
    BY <1>3, Zenon DEF Active, Executing, OpPhases
  <2>2. phase[o] = "queued" /\ p # "queued" => HasLock(o)
    BY <1>3, Zenon DEF Executing
  <2>3. QED
    BY <1>3, <2>1, <2>2, QueuePhase, Zenon
<1>4. ASSUME NEW p \in {"checked", "done"}, SetPhase(o, p), gate' = gate, queue' = queue,
             phase[o] \in {"new", "checked"}
      PROVE  QueueInv'
  <2>1. o \notin Active /\ p \notin {"queued"} \cup Executing /\ p \in OpPhases /\ phase[o] # "queued"
    BY <1>4, Zenon DEF Active, Executing, OpPhases
  <2>2. QED
    BY <1>4, <2>1, QueuePhase, Zenon
<1>5. CASE Check(o)
  BY <1>4, <1>5, Zenon DEF Check
<1>6. CASE Admit(o)
  <2>1. CASE Permits(GateFor(ActorOf[o]), ActorOf[o]) > 0
    BY <1>6, <2>1, QueueAppend, Zenon DEF Admit
  <2>2. CASE ~(Permits(GateFor(ActorOf[o]), ActorOf[o]) > 0)
    BY <1>4, <1>6, <2>2, Zenon DEF Admit
  <2>3. QED
    BY <2>1, <2>2, Zenon
<1>7. CASE Enter(o)
  BY <1>3, <1>7, Zenon DEF Enter
<1>8. CASE NotEntered(o)
  BY <1>2, <1>8, Zenon DEF NotEntered
<1>9. CASE StateRequired(o)
  BY <1>3, <1>9, Zenon DEF StateRequired, Executing
<1>10. CASE Executed(o)
  BY <1>2, <1>3, <1>10, Zenon DEF Executed, Executing
<1>11. CASE InvalidEffects(o)
  BY <1>2, <1>11, Zenon DEF InvalidEffects, Executing
<1>12. CASE ExecutionFailed(o)
  BY <1>2, <1>12, Zenon DEF ExecutionFailed, Executing
<1>13. CASE Published(o)
  BY <1>2, <1>13, Zenon DEF Published, Executing
<1>14. CASE PublishFails(o)
  BY <1>2, <1>14, Zenon DEF PublishFails, Executing
<1>15. CASE Cancel(o)
  BY <1>2, <1>15, Zenon DEF Cancel, Active
<1>16. QED
  BY <1>5, <1>6, <1>7, <1>8, <1>9, <1>10, <1>11, <1>12, <1>13, <1>14, <1>15, Zenon DEF OpStep

\* Every step keeps the queue and the locks in order.
LEMMA QueueStep ==
  ASSUME QueueInv, [Next]_vars
  PROVE  QueueInv'
<1>1. CASE \E o \in Ops : Check(o) \/ OpStep(o) \/ Cancel(o)
  BY <1>1, QueueOp, Zenon
<1>2. CASE JoinPanics \/ Unregister
  BY <1>2, QueueEnds, Zenon DEF JoinPanics, Unregister
<1>3. CASE Attach \/ RegisterLease \/ MarkReady \/ StartFails
  BY <1>3, QueueQuiet, Zenon DEF Attach, RegisterLease, MarkReady, StartFails, Start
<1>4. CASE \/ \E a \in Actors : NodeStep(a)
           \/ Stop \/ NodeExits \/ DrainLoad \/ DrainWait \/ DrainTimeout \/ CloseExecutor
  BY <1>4, QueueQuiet, Zenon
     DEF NodeStep, Stop, NodeExits, DrainLoad, DrainWait, DrainTimeout, CloseExecutor, Quiet
<1>5. CASE UNCHANGED vars
  BY <1>5, QueueQuiet, Zenon DEF vars
<1>6. QED
  BY <1>1, <1>2, <1>3, <1>4, <1>5, Zenon DEF Next, StopStep

-----------------------------------------------------------------------------
(* The supervisor and its Workers.                                           *)

\* The executor's types; the supervisor has at most MaxResident entries, and one
\* for every Worker that runs something.
Listed(w) == w.running # {} => w.status # "absent"
ExecutorInv ==
    /\ ExecutorTypeOK
    /\ IsFiniteSet(Entries) /\ Cardinality(Entries) <= MaxResident
    /\ \A a \in Actors : Listed(worker[a])

\* The fields of the entries a Worker leaves behind.
LEMMA EntryFields ==
  /\ NoWorker \in Worker /\ NoWorker.status = "absent" /\ NoWorker.slot = NoOp
  /\ NoWorker.running = {} /\ NoWorker.hydrated = FALSE /\ NoWorker.idle = FALSE
  /\ EmptyEntry \in Worker /\ EmptyEntry.status = "empty" /\ EmptyEntry.slot = NoOp
  /\ EmptyEntry.running = {} /\ EmptyEntry.hydrated = FALSE /\ EmptyEntry.idle = TRUE
<1>1. NoWorker \in Worker
  BY Zenon DEF Worker, NoWorker, ActorState
<1>2. EmptyEntry \in Worker
  BY Zenon DEF Worker, EmptyEntry, NoWorker, ActorState
<1>3. /\ NoWorker.status = "absent" /\ NoWorker.slot = NoOp
      /\ NoWorker.running = {} /\ NoWorker.hydrated = FALSE /\ NoWorker.idle = FALSE
  BY Zenon DEF NoWorker
<1>4. /\ EmptyEntry.status = "empty" /\ EmptyEntry.slot = NoOp
      /\ EmptyEntry.running = {} /\ EmptyEntry.hydrated = FALSE /\ EmptyEntry.idle = TRUE
  BY Zenon DEF EmptyEntry, NoWorker
<1>5. QED
  BY <1>1, <1>2, <1>3, <1>4, Zenon

\* A Worker without an instance is asked for one (ResidentActorWorker.execute).
LEMMA StateAsked ==
  ASSUME NEW w \in Worker, NEW v, v = [w EXCEPT !.slot = NoOp, !.idle = TRUE]
  PROVE  /\ v \in Worker /\ v.slot = NoOp /\ v.running = w.running /\ v.hydrated = w.hydrated
         /\ v.status = w.status /\ v.idle = TRUE
<1>1. v \in Worker
  BY Zenon DEF Worker
<1>2. /\ v.slot = NoOp /\ v.running = w.running /\ v.hydrated = w.hydrated
      /\ v.status = w.status /\ v.idle = TRUE
  BY Zenon DEF Worker
<1>3. QED
  BY <1>1, <1>2, Zenon

\* Fewer entries are within the limit.
LEMMA FewerEntries ==
  ASSUME IsFiniteSet(Entries), Cardinality(Entries) <= MaxResident, Entries' \subseteq Entries
  PROVE  IsFiniteSet(Entries') /\ Cardinality(Entries') <= MaxResident
<1>1. /\ IsFiniteSet(Entries') /\ Cardinality(Entries') <= Cardinality(Entries)
      /\ Cardinality(Entries') \in Nat /\ Cardinality(Entries) \in Nat
  BY FS_Subset, FS_CardinalityType, Zenon
<1>2. QED
  BY <1>1, LimitsAssumption

\* A Worker changes, and is in an entry only if it was (SetWorker).
LEMMA WorkerChanges ==
  ASSUME ExecutorInv, NEW a \in Actors, NEW v \in Worker, worker' = [worker EXCEPT ![a] = v],
         worker[a].status = "absent" => v.status = "absent", Listed(v)
  PROVE  /\ worker' \in [Actors -> Worker] /\ \A b \in Actors : Listed(worker'[b])
         /\ worker'[a] = v /\ \A b \in Actors : b # a => worker'[b] = worker[b]
         /\ IsFiniteSet(Entries') /\ Cardinality(Entries') <= MaxResident
<1>1. /\ worker' \in [Actors -> Worker]
      /\ worker'[a] = v /\ \A b \in Actors : b # a => worker'[b] = worker[b]
  BY Zenon DEF ExecutorInv, ExecutorTypeOK
<1>2. Entries' \subseteq Entries
  BY <1>1, Zenon DEF Entries
<1>3. \A b \in Actors : Listed(worker'[b])
  BY <1>1, Zenon DEF ExecutorInv
<1>4. QED
  BY <1>1, <1>2, <1>3, FewerEntries, Zenon DEF ExecutorInv

\* What becomes of a command: it is refused without a Worker's help, or it is with
\* the actor's Worker, which keeps an instance it has.
Refused(o) ==
    /\ o \notin pending' /\ outcome'[o].type \in {"failed", "state_required", "error"}
    /\ \/ worker'[ActorOf[o]] = worker[ActorOf[o]]
       \/ /\ worker'[ActorOf[o]].slot = NoOp /\ ~worker'[ActorOf[o]].hydrated
          /\ worker'[ActorOf[o]].running \in {worker[ActorOf[o]].running, {}}
BusyWith(v, o, w, state) ==
    /\ v \in Worker /\ v.status = "live" /\ v.slot = o /\ v.running = w.running \cup {o}
    /\ v.idle = FALSE /\ v.hydrated = TRUE /\ v.state = IF w.hydrated THEN w.state ELSE state
PostedTo(o, state) ==
    /\ conn = "open" /\ o \in pending' /\ outcome'[o].type = "none"
    /\ BusyWith(worker'[ActorOf[o]], o, worker[ActorOf[o]], state)

\* A command changes its own reply and its own Worker, and may cost one idle actor
\* its entry.
CommandEffect(o) ==
    /\ ExecutorInv'
    /\ \A p \in Ops \ {o} : outcome'[p] = outcome[p] /\ (p \in pending' <=> p \in pending)
    /\ \A b \in Actors \ {ActorOf[o]} :
          worker'[b] = worker[b] \/ (worker[b].idle /\ worker'[b] = NoWorker)

\* Replies made without a Worker (Answer).
LEMMA AnswerEffect ==
  ASSUME ExecutorInv, NEW o \in Ops, NEW type \in {"failed", "state_required", "error"}, Answer(o, type)
  PROVE  /\ outcome' \in [Ops -> Outcome] /\ pending' \subseteq Ops
         /\ o \notin pending' /\ outcome'[o].type = type
         /\ \A p \in Ops \ {o} : outcome'[p] = outcome[p] /\ (p \in pending' <=> p \in pending)
<1>1. outcome' = [outcome EXCEPT ![o] = Result(type, {})] /\ pending' = pending \ {o}
  BY Zenon DEF Answer
<1>2. Result(type, {}) \in Outcome /\ Result(type, {}).type = type
  BY Zenon DEF Result, Outcome, ActorState
<1>3. outcome \in [Ops -> Outcome] /\ pending \subseteq Ops
  BY Zenon DEF ExecutorInv, ExecutorTypeOK
<1>4. outcome' \in [Ops -> Outcome] /\ outcome'[o] = Result(type, {})
      /\ \A p \in Ops \ {o} : outcome'[p] = outcome[p]
  BY <1>1, <1>2, <1>3, Zenon
<1>5. QED
  BY <1>1, <1>2, <1>3, <1>4, Zenon

\* A refusal that leaves the Workers alone.
LEMMA AnsweredOnly ==
  ASSUME ExecutorInv, NEW o \in Ops, NEW type \in {"failed", "state_required", "error"}, Answer(o, type),
         worker' = worker, conn' = conn, residents' \subseteq Actors
  PROVE  CommandEffect(o) /\ Refused(o)
<1>1. /\ outcome' \in [Ops -> Outcome] /\ pending' \subseteq Ops
      /\ o \notin pending' /\ outcome'[o].type = type
      /\ \A p \in Ops \ {o} : outcome'[p] = outcome[p] /\ (p \in pending' <=> p \in pending)
  BY AnswerEffect, Zenon
<1>2. Entries' = Entries
  BY Zenon DEF Entries
<1>3. ExecutorInv'
  BY <1>1, <1>2, Zenon DEF ExecutorInv, ExecutorTypeOK
<1>4. QED
  BY <1>1, <1>3, Zenon DEF CommandEffect, Refused

\* A refusal that leaves the Worker without an instance.
LEMMA AnsweredWorker ==
  ASSUME ExecutorInv, NEW o \in Ops, NEW type \in {"failed", "state_required", "error"}, Answer(o, type),
         NEW v \in Worker, worker' = [worker EXCEPT ![ActorOf[o]] = v],
         worker[ActorOf[o]].status # "absent", v.slot = NoOp, ~v.hydrated, Listed(v),
         v.running \in {worker[ActorOf[o]].running, {}},
         conn' = conn, residents' \subseteq Actors
  PROVE  CommandEffect(o) /\ Refused(o)
<1>1. /\ outcome' \in [Ops -> Outcome] /\ pending' \subseteq Ops
      /\ o \notin pending' /\ outcome'[o].type = type
      /\ \A p \in Ops \ {o} : outcome'[p] = outcome[p] /\ (p \in pending' <=> p \in pending)
  BY AnswerEffect, Zenon
<1>2. ActorOf[o] \in Actors
  BY OpsAssumption, Zenon
<1>3. /\ worker' \in [Actors -> Worker] /\ worker'[ActorOf[o]] = v
      /\ \A b \in Actors : Listed(worker'[b])
      /\ \A b \in Actors : b # ActorOf[o] => worker'[b] = worker[b]
      /\ IsFiniteSet(Entries') /\ Cardinality(Entries') <= MaxResident
  BY <1>2, WorkerChanges, Zenon
<1>4. ExecutorInv'
  BY <1>1, <1>3, Zenon DEF ExecutorInv, ExecutorTypeOK
<1>5. QED
  BY <1>1, <1>3, <1>4, Zenon DEF CommandEffect, Refused

\* The Worker that has been given a command.
Busy(w, o, state) ==
    [status |-> "live", hydrated |-> TRUE, state |-> IF w.hydrated THEN w.state ELSE state,
     running |-> w.running \cup {o}, slot |-> o, idle |-> FALSE]

\* Its fields (Post).
LEMMA BusyWorker ==
  ASSUME NEW w \in Worker, NEW o \in Ops, NEW state \in ActorState
  PROVE  BusyWith(Busy(w, o, state), o, w, state)
<1> DEFINE v == Busy(w, o, state)
<1>1. w.state \in ActorState /\ w.running \subseteq Ops
  BY Zenon DEF Worker
<1>2. (IF w.hydrated THEN w.state ELSE state) \in ActorState
  BY <1>1, Zenon
<1>3. w.running \cup {o} \in SUBSET Ops
  BY <1>1, Zenon
<1>4. v \in Worker
  BY <1>2, <1>3, Zenon DEF Worker, Busy
<1>5. /\ v.status = "live" /\ v.slot = o /\ v.running = w.running \cup {o}
      /\ v.idle = FALSE /\ v.hydrated = TRUE /\ v.state = IF w.hydrated THEN w.state ELSE state
  BY Zenon DEF Busy
<1>6. QED
  BY <1>4, <1>5, Zenon DEF BusyWith

\* A command is posted, to the Workers ws that are left when there is room.
LEMMA PostEffect ==
  ASSUME ExecutorInv, NEW o \in Ops, NEW state \in ActorState, NEW ws \in [Actors -> Worker],
         ws[ActorOf[o]] = worker[ActorOf[o]],
         \A b \in Actors \ {ActorOf[o]} :
            ws[b] = worker[b] \/ (worker[b].idle /\ ws[b] = NoWorker),
         NEW E, E = {b \in Actors : ws[b].status # "absent"},
         IsFiniteSet(E \cup {ActorOf[o]}), Cardinality(E \cup {ActorOf[o]}) <= MaxResident,
         Post(o, state, ws), conn = "open", conn' = conn, residents' \subseteq Actors
  PROVE  CommandEffect(o) /\ PostedTo(o, state)
<1> DEFINE a == ActorOf[o]
<1>0. a \in Actors /\ ws[a] \in Worker
  BY OpsAssumption, Zenon
<1>1. PICK w \in Worker : w = ws[a]
  BY <1>0, Zenon
<1> DEFINE v == Busy(w, o, state)
<1>2. /\ worker' = [ws EXCEPT ![a] = v] /\ pending' = pending \cup {o}
      /\ outcome' = [outcome EXCEPT ![o] = Result("none", {})]
  BY <1>1, Zenon DEF Post, Busy
<1>3. BusyWith(v, o, w, state)
  BY BusyWorker, Zenon
<1> HIDE DEF v
<1>30. v \in Worker /\ v.status = "live"
  BY <1>3, Zenon DEF BusyWith
<1>4. /\ worker' \in [Actors -> Worker] /\ worker'[a] = v
      /\ \A b \in Actors : b # a => worker'[b] = ws[b]
  BY <1>0, <1>2, <1>30, Zenon
<1>5. Entries' = E \cup {a}
  <2>1. \A b \in Actors : worker'[b].status # "absent" <=> b \in E \/ b = a
    <3> SUFFICES ASSUME NEW b \in Actors PROVE worker'[b].status # "absent" <=> b \in E \/ b = a
      BY Zenon
    <3>1. CASE b = a
      <4>1. worker'[b].status = "live"
        BY <1>4, <1>30, <3>1, Zenon
      <4>2. QED
        BY <3>1, <4>1, Zenon
    <3>2. CASE b # a
      BY <1>4, <3>2, Zenon
    <3>3. QED
      BY <3>1, <3>2, Zenon
  <2>2. QED
    BY <1>0, <2>1, Zenon DEF Entries
<1>6. Result("none", {}) \in Outcome /\ Result("none", {}).type = "none"
  BY Zenon DEF Result, Outcome, ActorState
<1>7. outcome \in [Ops -> Outcome] /\ pending \subseteq Ops
  BY Zenon DEF ExecutorInv, ExecutorTypeOK
<1>8. /\ outcome' \in [Ops -> Outcome] /\ outcome'[o].type = "none"
      /\ \A p \in Ops \ {o} : outcome'[p] = outcome[p]
  BY <1>2, <1>6, <1>7, Zenon
<1>9. pending' \subseteq Ops /\ o \in pending' /\ \A p \in Ops \ {o} : p \in pending' <=> p \in pending
  BY <1>2, <1>7, Zenon
<1>100. \A b \in Actors : Listed(worker'[b])
  <2>1. Listed(v) /\ Listed(NoWorker)
    BY <1>30, EntryFields, Zenon DEF Listed
  <2>2. \A b \in Actors : b # a => Listed(ws[b])
    BY <2>1, Zenon DEF ExecutorInv
  <2>3. QED
    BY <1>4, <2>1, <2>2, Zenon
<1>10. ExecutorInv'
  BY <1>4, <1>5, <1>8, <1>9, <1>100, Zenon DEF ExecutorInv, ExecutorTypeOK
<1>11. CommandEffect(o)
  BY <1>4, <1>8, <1>9, <1>10, Zenon DEF CommandEffect
<1>12. PostedTo(o, state)
  BY <1>1, <1>3, <1>4, <1>8, <1>9, Zenon DEF PostedTo
<1>13. QED
  BY <1>11, <1>12, Zenon

\* A new entry, in a free place or in that of an idle actor (makeRoomForActor).
LEMMA MakeRoomEffect ==
  ASSUME ExecutorInv, NEW o \in Ops, NEW state \in ActorState, MakeRoom(o, state),
         worker[ActorOf[o]].status = "absent",
         conn = "open", conn' = conn, residents' \subseteq Actors
  PROVE  CommandEffect(o) /\ (Refused(o) \/ PostedTo(o, state))
<1> DEFINE a == ActorOf[o]
<1>1. a \in Actors /\ worker \in [Actors -> Worker] /\ IsFiniteSet(Entries)
      /\ Cardinality(Entries) \in Nat
  BY OpsAssumption, FS_CardinalityType, Zenon DEF ExecutorInv, ExecutorTypeOK
<1>2. a \notin Entries
  BY Zenon DEF Entries
<1>3. CASE Cardinality(Entries) < MaxResident /\ Post(o, state, worker)
  <2>1. /\ IsFiniteSet(Entries \cup {a})
        /\ Cardinality(Entries \cup {a}) = Cardinality(Entries) + 1
    BY <1>1, <1>2, FS_AddElement, Zenon
  <2>2. Cardinality(Entries) + 1 <= MaxResident
    BY <1>1, <1>3, LimitsAssumption
  <2>3. Cardinality(Entries \cup {a}) <= MaxResident
    BY <2>1, <2>2, Zenon
  <2>4. Entries = {b \in Actors : worker[b].status # "absent"}
    BY Zenon DEF Entries
  <2>5. QED
    BY <1>1, <1>3, <2>1, <2>3, <2>4, PostEffect, Zenon
<1>4. CASE \E b \in Entries : worker[b].idle /\ Post(o, state, [worker EXCEPT ![b] = NoWorker])
  <2>1. PICK b \in Entries : worker[b].idle /\ Post(o, state, [worker EXCEPT ![b] = NoWorker])
    BY <1>4, Zenon
  <2> DEFINE ws == [worker EXCEPT ![b] = NoWorker]
  <2>2. b \in Actors /\ b # a
    BY <1>2, Zenon DEF Entries
  <2>3. /\ ws \in [Actors -> Worker] /\ ws[b] = NoWorker
        /\ \A d \in Actors : d # b => ws[d] = worker[d]
    BY <1>1, <2>2, EntryFields, Zenon
  <2>4. Post(o, state, ws)
    BY <2>1, Zenon
  <2> HIDE DEF ws
  <2>5. Entries \ {b} = {d \in Actors : ws[d].status # "absent"}
    <3>1. \A d \in Actors : ws[d].status # "absent" <=> d \in Entries /\ d # b
      BY <2>2, <2>3, EntryFields, Zenon DEF Entries
    <3>2. QED
      BY <3>1, Zenon DEF Entries
  <2>6. /\ IsFiniteSet(Entries \ {b})
        /\ Cardinality(Entries \ {b}) = Cardinality(Entries) - 1
    BY <1>1, <2>1, FS_RemoveElement, Zenon
  <2>7. /\ IsFiniteSet((Entries \ {b}) \cup {a})
        /\ Cardinality((Entries \ {b}) \cup {a}) = Cardinality(Entries \ {b}) + 1
    BY <1>2, <2>6, FS_AddElement, Zenon
  <2>8. Cardinality((Entries \ {b}) \cup {a}) <= MaxResident
    BY <1>1, <2>6, <2>7 DEF ExecutorInv
  <2>9. ws[a] = worker[a]
    BY <1>1, <2>2, <2>3, Zenon
  <2>10. \A d \in Actors \ {a} : ws[d] = worker[d] \/ (worker[d].idle /\ ws[d] = NoWorker)
    BY <2>1, <2>3, Zenon
  <2>11. QED
    BY <2>3, <2>4, <2>5, <2>7, <2>8, <2>9, <2>10, PostEffect, Zenon
<1>5. CASE Answer(o, "failed") /\ UNCHANGED worker
  BY <1>5, AnsweredOnly, Zenon
<1>6. QED
  BY <1>3, <1>4, <1>5, Zenon DEF MakeRoom

\* exchange: a command is refused or posted.
LEMMA ExchangeEffect ==
  ASSUME ExecutorInv, NEW o \in Ops, NEW only, NEW state \in ActorState,
         Exchange(o, only, state), conn' = conn, residents' \subseteq Actors
  PROVE  CommandEffect(o) /\ (Refused(o) \/ PostedTo(o, state))
<1> DEFINE a == ActorOf[o]
           w == worker[a]
<1>1. a \in Actors /\ w \in Worker /\ worker \in [Actors -> Worker] /\ IsFiniteSet(Entries)
      /\ Cardinality(Entries) <= MaxResident
  BY OpsAssumption, Zenon DEF ExecutorInv, ExecutorTypeOK
<1>2. ASSUME UNCHANGED worker, Answer(o, "failed") \/ Answer(o, "state_required") \/ Answer(o, "error")
      PROVE  CommandEffect(o) /\ Refused(o)
  BY <1>2, AnsweredOnly, Zenon
<1>3. CASE conn = "open" /\ SupervisorExecute(o, only, state)
  <2>1. CASE w.status = "absent" /\ MakeRoom(o, state)
    BY <1>3, <2>1, MakeRoomEffect, Zenon
  <2>2. CASE /\ w.status = "live" /\ ~w.hydrated
             /\ Answer(o, "state_required") /\ SetWorker(a, [w EXCEPT !.slot = NoOp, !.idle = TRUE])
    <3> DEFINE v == [w EXCEPT !.slot = NoOp, !.idle = TRUE]
    <3>1. /\ v \in Worker /\ v.slot = NoOp /\ v.running = w.running /\ v.hydrated = w.hydrated
          /\ v.status = w.status
      BY <1>1, StateAsked, Zenon
    <3>2. worker' = [worker EXCEPT ![a] = v]
      BY <2>2, Zenon DEF SetWorker
    <3> HIDE DEF v
    <3>3. w.status # "absent"
      BY <2>2, Zenon
    <3>4. ~v.hydrated /\ v.running \in {w.running, {}} /\ Listed(v)
      BY <2>2, <3>1, <3>3, Zenon DEF Listed
    <3>5. QED
      BY <2>2, <3>1, <3>2, <3>3, <3>4, AnsweredWorker, Zenon
  <2>3. CASE w.status = "dead" /\ Answer(o, "failed") /\ SetWorker(a, EmptyEntry)
    <3>1. worker' = [worker EXCEPT ![a] = EmptyEntry] /\ w.status # "absent"
      BY <2>3, Zenon DEF SetWorker
    <3>2. Listed(EmptyEntry)
      BY EntryFields, Zenon DEF Listed
    <3>3. QED
      BY <2>3, <3>1, <3>2, EntryFields, AnsweredWorker, Zenon
  <2>4. CASE w.status \in {"empty", "live"} /\ Post(o, state, worker)
    <3>1. a \in Entries
      BY <1>1, <2>4, Zenon DEF Entries
    <3>2. Entries \cup {a} = Entries
      BY <3>1, Zenon
    <3>3. Entries = {b \in Actors : worker[b].status # "absent"}
      BY Zenon DEF Entries
    <3>4. QED
      BY <1>1, <1>3, <2>4, <3>2, <3>3, PostEffect, Zenon
  <2>5. QED
    BY <1>2, <1>3, <2>1, <2>2, <2>3, <2>4, Zenon DEF SupervisorExecute
<1>4. QED
  BY <1>2, <1>3, Zenon DEF Exchange

-----------------------------------------------------------------------------
(* An actor: who waits for its Worker, and what state the Worker has.        *)

\* The code of o has returned and the host still works on it.
Returned(o) == Working(o) /\ o \notin pending /\ outcome[o].type = "ok"

\* Whoever waits for the Worker of actor a is the one its next message settles,
\* and nobody waits for one whose idle timer runs.  Unless an event of the actor
\* was dropped under way, or another snapshot loaded, an operation in the Worker runs
\* alone and on the state the host holds, and an instance without one has that state,
\* or the new state of the operation that has returned.
ActorInv(a) ==
    LET w == worker[a]
        mine == {o \in pending : ActorOf[o] = a}
        back == {o \in Ops : ActorOf[o] = a /\ Returned(o)}
    IN  /\ w.idle => w.slot = NoOp
        /\ w.slot # NoOp => ActorOf[w.slot] = a
        /\ \A o \in mine : w.slot = o /\ w.running # {}
        /\ a \notin diverged =>
              /\ \A o \in back : outcome[o].state \in {cache[a], cache[a] \cup {o}}
              /\ \A o \in mine : w.running = {o} /\ w.hydrated /\ w.state = cache[a]
              /\ conn = "open" /\ mine = {} => w.running = {}
              /\ conn = "open" /\ w.hydrated =>
                    /\ \A o \in back : w.state = outcome[o].state
                    /\ back = {} => w.state = cache[a]

\* Only waiting operations are in the Worker, and only successful ones publish.
ReplyInv ==
    /\ conn # "open" => pending = {}
    /\ \A o \in pending : phase[o] \in {"hinted", "hydrating"}
    /\ \A o \in Ops : phase[o] = "publish" => outcome[o].type = "ok"
    /\ host = "starting" => (\A a \in Actors : worker[a] = NoWorker) /\ (\A o \in Ops : phase[o] = "new")

\* All of it, with the types.
StateInv ==
    /\ QueueInv /\ ExecutorInv /\ ReplyInv
    /\ cache \in [Actors -> ActorState] /\ diverged \subseteq Actors
    /\ \A a \in Actors : ActorInv(a)

\* A step that means nothing to actor b, but may cost its idle Worker its entry.
Same(b) ==
    /\ worker'[b] = worker[b] \/ (worker[b].idle /\ worker'[b] = NoWorker)
    /\ cache'[b] = cache[b] /\ conn' = conn /\ (b \in diverged => b \in diverged')
    /\ \A o \in Ops : ActorOf[o] = b =>
          /\ o \in pending' <=> o \in pending
          /\ Returned(o)' <=> Returned(o)
          /\ Returned(o) => outcome'[o] = outcome[o]

\* Such a step keeps its invariant.
LEMMA Untouched ==
  ASSUME NEW b \in Actors, ActorInv(b), Same(b), pending \subseteq Ops, pending' \subseteq Ops
  PROVE  ActorInv(b)'
<1> DEFINE mine == {o \in pending : ActorOf[o] = b}
           back == {o \in Ops : ActorOf[o] = b /\ Returned(o)}
<1>1. mine' = mine
  BY Zenon DEF Same
<1>2. back' = back
  BY Zenon DEF Same
<1>3. \A o \in back : outcome'[o] = outcome[o]
  BY Zenon DEF Same
<1>4. cache'[b] = cache[b] /\ conn' = conn /\ (b \notin diverged' => b \notin diverged)
  BY Zenon DEF Same
<1>5. CASE worker'[b] = worker[b]
  BY <1>1, <1>2, <1>3, <1>4, <1>5, Zenon DEF ActorInv
<1>6. CASE worker[b].idle /\ worker'[b] = NoWorker
  <2>1. worker[b].slot = NoOp /\ \A o \in mine : worker[b].slot = o
    BY <1>6, Zenon DEF ActorInv
  <2>2. mine = {}
    BY <2>1, OpsAssumption, Zenon
  <2>3. b \notin diverged => \A o \in back : outcome[o].state \in {cache[b], cache[b] \cup {o}}
    BY Zenon DEF ActorInv
  <2>4. QED
    BY <1>1, <1>2, <1>3, <1>4, <1>6, <2>2, <2>3, EntryFields, Zenon DEF ActorInv
<1>7. QED
  BY <1>5, <1>6, Zenon DEF Same

\* The host holds a state for the actor of o that it has held already, or that it
\* has loaded (take_or_load_state).
Holds(o, state) ==
    LET a == ActorOf[o]
    IN  /\ cache' = [cache EXCEPT ![a] = state]
        /\ diverged' = IF worker[a].hydrated /\ state # cache[a]
                       THEN diverged \cup {a} ELSE diverged

\* A command to the actor's Worker, by the operation that has its lock, on the
\* state the host holds (exchange_with_state).
LEMMA CommandKeeps ==
  ASSUME StateInv, NEW o \in Ops, o \notin pending, ~Returned(o),
         \A p \in Ops : p # o /\ ActorOf[p] = ActorOf[o] => ~Working(p),
         \A p \in Ops : p # o => phase'[p] = phase[p],
         NEW state, CommandEffect(o), Refused(o) \/ PostedTo(o, state),
         conn' = conn, Holds(o, state)
  PROVE  \A b \in Actors : ActorInv(b)'
<1> DEFINE a == ActorOf[o]
           w == worker[a]
           v == worker'[a]
<1> SUFFICES ASSUME NEW b \in Actors PROVE ActorInv(b)'
  BY Zenon
<1>1. /\ pending \subseteq Ops /\ pending' \subseteq Ops /\ ActorInv(b) /\ ReplyInv
      /\ \A p \in Ops \ {o} : outcome'[p] = outcome[p] /\ (p \in pending' <=> p \in pending)
  BY Zenon DEF StateInv, CommandEffect, ExecutorInv, ExecutorTypeOK
<1>2. \A p \in Ops : p # o => (Returned(p)' <=> Returned(p))
  BY <1>1, Zenon DEF Returned, Working
<1>a. a \in Actors /\ cache'[a] = state /\ (b # a => cache'[b] = cache[b])
      /\ (b \in diverged => b \in diverged')
      /\ (a \notin diverged' => a \notin diverged /\ (w.hydrated => state = cache[a]))
  BY OpsAssumption, Zenon DEF StateInv, Holds
<1>3. CASE b # a
  <2>1. worker'[b] = worker[b] \/ (worker[b].idle /\ worker'[b] = NoWorker)
    BY <1>3, Zenon DEF CommandEffect
  <2>2. Same(b)
    BY <1>1, <1>2, <1>3, <1>a, <2>1, Zenon DEF Same
  <2>3. QED
    BY <1>1, <2>2, Untouched, Zenon
<1>4. CASE b = a
  <2>1. \A p \in pending : ActorOf[p] # a
    <3>1. \A p \in pending : Working(p)
      BY <1>1, Zenon DEF ReplyInv, Working, Executing
    <3>2. QED
      BY <1>1, <3>1, Zenon
  <2>2. \A p \in Ops : ActorOf[p] = a => ~Returned(p)
    BY Zenon DEF Returned
  <2>3. {p \in pending : ActorOf[p] = a} = {} /\ {p \in Ops : ActorOf[p] = a /\ Returned(p)} = {}
    BY <2>1, <2>2, Zenon
  <2>4. /\ w.slot # NoOp => ActorOf[w.slot] = a
        /\ w.idle => w.slot = NoOp
        /\ a \notin diverged' /\ conn = "open" => w.running = {} /\ (w.hydrated => w.state = state)
    BY <1>1, <1>4, <1>a, <2>3, Zenon DEF ActorInv
  <2>5. ~Returned(o)'
    <3>1. CASE Refused(o)
      BY <3>1, Zenon DEF Refused, Returned
    <3>2. CASE PostedTo(o, state)
      BY <3>2, Zenon DEF PostedTo, Returned
    <3>3. QED
      BY <3>1, <3>2, Zenon
  <2>6. {p \in Ops : ActorOf[p] = a /\ Returned(p)}' = {}
    BY <1>2, <2>2, <2>5, Zenon
  <2>7. CASE Refused(o)
    <3>1. {p \in pending : ActorOf[p] = a}' = {}
      BY <1>1, <2>1, <2>7, Zenon DEF Refused
    <3>2. CASE v = w
      BY <1>4, <1>a, <2>4, <2>6, <3>1, <3>2, Zenon DEF ActorInv
    <3>3. CASE v.slot = NoOp /\ ~v.hydrated /\ v.running \in {w.running, {}}
      BY <1>4, <1>a, <2>4, <2>6, <3>1, <3>3, Zenon DEF ActorInv
    <3>4. QED
      BY <2>7, <3>2, <3>3, Zenon DEF Refused
  <2>8. CASE PostedTo(o, state)
    <3>1. {p \in pending : ActorOf[p] = a}' = {o}
      BY <1>1, <2>1, <2>8, Zenon DEF PostedTo
    <3>2. /\ v.slot = o /\ v.running = w.running \cup {o} /\ v.idle = FALSE /\ v.hydrated = TRUE
          /\ v.state = (IF w.hydrated THEN w.state ELSE state) /\ conn = "open"
      BY <2>8, Zenon DEF PostedTo, BusyWith
    <3>3. a \notin diverged' => v.running = {o} /\ v.state = state
      BY <2>4, <3>2, Zenon
    <3>4. v.running # {}
      BY <3>2, Zenon
    <3>5. {o} # {}
      BY Zenon
    <3>6. QED
      BY <1>4, <1>a, <2>6, <3>1, <3>2, <3>3, <3>4, <3>5, Zenon DEF ActorInv
  <2>9. QED
    BY <2>7, <2>8, Zenon
<1>5. QED
  BY <1>3, <1>4, Zenon

\* Operations that execute for an actor: none besides o.
LEMMA Alone ==
  ASSUME StateInv, NEW o \in Ops, Working(o)
  PROVE  \A p \in Ops : p # o /\ ActorOf[p] = ActorOf[o] => ~Working(p)
  BY OnlyOne, Zenon DEF StateInv

\* An operation ends, alone or with its actor's Worker.  Where it was executing,
\* the instance that is left, if any, has the state the host holds from now on.
Ends(o) ==
    /\ Finish(o) /\ conn' = conn /\ pending' = pending \ {o} /\ residents' \subseteq Actors
    /\ worker' \in {worker, [worker EXCEPT ![ActorOf[o]] = NoWorker]}
    /\ cache' \in [Actors -> ActorState] /\ diverged' \subseteq Actors
    /\ \A b \in Actors : b # ActorOf[o] => cache'[b] = cache[b]
    /\ diverged \subseteq diverged'
    /\ ~Working(o) => worker' = worker /\ cache' = cache
    /\ Working(o) /\ ActorOf[o] \notin diverged' =>
          /\ o \notin pending
          /\ conn = "open" /\ worker'[ActorOf[o]].hydrated
                => worker'[ActorOf[o]].state = cache'[ActorOf[o]]

\* What that leaves alone.
LEMMA EndFrame ==
  ASSUME StateInv, NEW o \in Active, Ends(o)
  PROVE  /\ o \in Ops /\ ActorOf[o] \in Actors /\ phase'[o] = "done" /\ outcome'[o].type = "none"
         /\ \A p \in Ops : p # o => phase'[p] = phase[p] /\ outcome'[p] = outcome[p]
         /\ worker'[ActorOf[o]] \in {worker[ActorOf[o]], NoWorker}
         /\ \A b \in Actors : b # ActorOf[o] => worker'[b] = worker[b]
         /\ ExecutorInv'
<1>1. o \in Ops
  BY Zenon DEF Active
<1>2. ActorOf[o] \in Actors
  BY <1>1, OpsAssumption, Zenon
<1>3. /\ phase \in [Ops -> OpPhases] /\ outcome \in [Ops -> Outcome] /\ worker \in [Actors -> Worker]
      /\ pending \subseteq Ops /\ conn \in {"none", "open", "closed"} /\ ExecutorInv
  BY Zenon DEF StateInv, QueueInv, ExecutorInv, ExecutorTypeOK
<1>4. /\ phase' = [phase EXCEPT ![o] = "done"]
      /\ outcome' = [outcome EXCEPT ![o] = Result("none", {})]
  BY Zenon DEF Ends, Finish, SetPhase, Forget
<1>5. Result("none", {}) \in Outcome /\ Result("none", {}).type = "none"
  BY Zenon DEF Result, Outcome, ActorState
<1>6. phase'[o] = "done" /\ \A p \in Ops : p # o => phase'[p] = phase[p]
  BY <1>1, <1>3, <1>4, Zenon
<1>7. /\ outcome' \in [Ops -> Outcome] /\ outcome'[o] = Result("none", {})
      /\ \A p \in Ops : p # o => outcome'[p] = outcome[p]
  BY <1>1, <1>3, <1>4, <1>5, Zenon
<1>8. /\ worker' \in [Actors -> Worker] /\ worker'[ActorOf[o]] \in {worker[ActorOf[o]], NoWorker}
      /\ \A b \in Actors : b # ActorOf[o] => worker'[b] = worker[b]
      /\ \A b \in Actors : Listed(worker'[b])
      /\ IsFiniteSet(Entries') /\ Cardinality(Entries') <= MaxResident
  <2>1. CASE worker' = worker
    <3>1. Entries' = Entries
      BY <2>1, Zenon DEF Entries
    <3>2. QED
      BY <1>3, <2>1, <3>1, Zenon DEF ExecutorInv
  <2>2. CASE worker' = [worker EXCEPT ![ActorOf[o]] = NoWorker]
    <3>1. Listed(NoWorker)
      BY EntryFields, Zenon DEF Listed
    <3>2. QED
      BY <1>2, <1>3, <2>2, <3>1, EntryFields, WorkerChanges, Zenon
  <2>3. QED
    BY <2>1, <2>2, Zenon DEF Ends
<1>9. ExecutorInv'
  BY <1>3, <1>7, <1>8, Zenon DEF ExecutorInv, ExecutorTypeOK, Ends
<1>10. QED
  BY <1>1, <1>2, <1>5, <1>6, <1>7, <1>8, <1>9, Zenon

\* An operation that ends keeps the invariant.
LEMMA EndKeeps ==
  ASSUME StateInv, QueueInv', NEW o \in Active, Ends(o)
  PROVE  StateInv'
<1> DEFINE a == ActorOf[o]
<1>1. /\ o \in Ops /\ a \in Actors /\ phase'[o] = "done" /\ outcome'[o].type = "none"
      /\ \A p \in Ops : p # o => phase'[p] = phase[p] /\ outcome'[p] = outcome[p]
      /\ worker'[a] \in {worker[a], NoWorker}
      /\ \A b \in Actors : b # a => worker'[b] = worker[b]
      /\ ExecutorInv'
  BY EndFrame, Zenon
<1>2. pending \subseteq Ops /\ pending' = pending \ {o} /\ conn' = conn /\ ReplyInv
  BY Zenon DEF StateInv, ExecutorInv, ExecutorTypeOK, Ends
<1>3. \A p \in Ops : p # o => (Returned(p)' <=> Returned(p))
  BY <1>1, <1>2, Zenon DEF Returned, Working
<1>4. ~Returned(o)'
  BY <1>1, Zenon DEF Returned
<1>5. phase[o] # "new"
  BY Zenon DEF Active, Executing
<1>6. ReplyInv'
  <2>1. host # "starting"
    BY <1>1, <1>2, <1>5, Zenon DEF ReplyInv
  <2>2. host' # "starting"
    BY <2>1, Zenon DEF Ends, Finish
  <2>3. phase'[o] # "publish"
    BY <1>1, Zenon
  <2>4. QED
    BY <1>1, <1>2, <2>2, <2>3, Zenon DEF ReplyInv
<1>7. ASSUME NEW b \in Actors PROVE ActorInv(b)'
  <2>1. ActorInv(b)
    BY Zenon DEF StateInv
  <2>2. CASE b # a \/ ~Working(o)
    <3>1. worker'[b] = worker[b] /\ cache'[b] = cache[b]
      BY <1>1, <2>2, Zenon DEF Ends
    <3>2. ActorOf[o] # b \/ ~Working(o)
      BY <2>2, Zenon
    <3>3. ~Working(o) => ~Returned(o) /\ o \notin pending
      BY <1>2, Zenon DEF Returned, ReplyInv, Working, Executing
    <3>4. Same(b)
      BY <1>1, <1>2, <1>3, <1>4, <3>1, <3>2, <3>3, Zenon DEF Same, Ends
    <3>5. QED
      BY <1>2, <2>1, <3>4, Untouched, Zenon
  <2>3. CASE b = a /\ Working(o)
    <3>1. \A p \in Ops : p # o /\ ActorOf[p] = a => ~Working(p)
      BY <1>1, <2>3, Alone, Zenon
    <3>2. \A p \in pending : Working(p)
      BY <1>2, Zenon DEF ReplyInv, Working, Executing
    <3>3. {p \in pending : ActorOf[p] = a}' = {}
      BY <1>2, <3>1, <3>2, Zenon
    <3>4. {p \in Ops : ActorOf[p] = a /\ Returned(p)}' = {}
      BY <1>3, <1>4, <3>1, Zenon DEF Returned
    <3>5. a \notin diverged' => a \notin diverged /\ {p \in pending : ActorOf[p] = a} = {}
      BY <1>2, <2>3, <3>1, <3>2, Zenon DEF Ends
    <3>6. CASE worker'[a] = worker[a]
      BY <1>2, <2>1, <2>3, <3>3, <3>4, <3>5, <3>6, Zenon DEF ActorInv, Ends
    <3>7. CASE worker'[a] = NoWorker
      BY <2>3, <3>3, <3>4, <3>7, EntryFields, Zenon DEF ActorInv
    <3>8. QED
      BY <1>1, <3>6, <3>7, Zenon
  <2>4. QED
    BY <2>2, <2>3, Zenon
<1>8. QED
  BY <1>1, <1>6, <1>7, Zenon DEF StateInv, Ends

\* Nor does any execute when o has the lock.
LEMMA LockAlone ==
  ASSUME QueueInv, NEW o \in Ops, phase[o] = "queued", HasLock(o),
         NEW p \in Ops, p # o, ActorOf[p] = ActorOf[o]
  PROVE  ~Working(p)
<1> SUFFICES ASSUME Working(p) PROVE FALSE
  BY Zenon
<1>1. o \in Active /\ p \in Active
  BY Zenon DEF Active, Working
<1>2. PICK i \in DOMAIN queue : queue[i] = o
  BY <1>1, Place, Zenon
<1>3. PICK j \in DOMAIN queue : queue[j] = p
  BY <1>1, Place, Zenon
<1>4. DOMAIN queue \subseteq Nat \ {0}
  BY DEF QueueInv
<1>5. i < j \/ j \in 1 .. i - 1
  BY <1>2, <1>3, <1>4
<1>6. CASE i < j
  <2>1. phase[p] = "queued"
    BY <1>2, <1>3, <1>6, Zenon DEF QueueInv
  <2>2. QED
    BY <2>1, Zenon DEF Working, Executing
<1>7. CASE j \in 1 .. i - 1
  <2>1. gate[p] # gate[o]
    BY <1>2, <1>3, <1>7, Zenon DEF HasLock
  <2>2. QED
    BY <1>1, <2>1, Zenon DEF QueueInv
<1>8. QED
  BY <1>5, <1>6, <1>7, Zenon

\* An operation that was waiting for its turn, or has been asked for the state,
\* sends its command (Enter, StateRequired).
LEMMA CommandStep ==
  ASSUME StateInv, QueueInv', NEW o \in Ops, NEW p \in {"hinted", "hydrating"}, SetPhase(o, p),
         \/ phase[o] = "queued" /\ HasLock(o)
         \/ phase[o] = "hinted" /\ o \notin pending /\ outcome[o].type = "state_required",
         NEW only, NEW state \in ActorState, Exchange(o, only, state), residents' \subseteq Actors,
         conn' = conn, host' = host, Holds(o, state)
  PROVE  StateInv'
<1>1. /\ ActorOf[o] \in Actors /\ phase \in [Ops -> OpPhases] /\ ExecutorInv /\ ReplyInv
      /\ cache \in [Actors -> ActorState] /\ pending \subseteq Ops
  BY OpsAssumption, Zenon DEF StateInv, QueueInv, ExecutorInv, ExecutorTypeOK
<1>2. cache' \in [Actors -> ActorState] /\ diverged' \subseteq Actors
  BY <1>1, Zenon DEF Holds, StateInv
<1>3. phase'[o] = p /\ \A q \in Ops : q # o => phase'[q] = phase[q]
  BY <1>1, Zenon DEF SetPhase
<1>4. o \notin pending /\ ~Returned(o)
  BY <1>1, Zenon DEF Returned, Working, Executing, ReplyInv
<1>5. \A q \in Ops : q # o /\ ActorOf[q] = ActorOf[o] => ~Working(q)
  <2>1. CASE phase[o] = "queued" /\ HasLock(o)
    BY <2>1, LockAlone, Zenon DEF StateInv
  <2>2. CASE phase[o] = "hinted"
    BY <2>2, Alone, Zenon DEF Working, Executing
  <2>3. QED
    BY <2>1, <2>2, Zenon
<1>6. CommandEffect(o) /\ (Refused(o) \/ PostedTo(o, state))
  BY <1>1, ExchangeEffect, Zenon
<1>7. \A b \in Actors : ActorInv(b)'
  BY <1>3, <1>4, <1>5, <1>6, CommandKeeps, Zenon
<1>8. ReplyInv'
  <2>1. /\ pending' \subseteq Ops
        /\ \A q \in Ops \ {o} : outcome'[q] = outcome[q] /\ (q \in pending' <=> q \in pending)
    BY <1>6, Zenon DEF CommandEffect, ExecutorInv, ExecutorTypeOK
  <2>2. conn # "open" => o \notin pending'
    BY <1>6, Zenon DEF Refused, PostedTo
  <2>3. phase[o] # "new" /\ p # "publish"
    BY Zenon
  <2>4. host # "starting"
    BY <1>1, <2>3, Zenon DEF ReplyInv
  <2>5. QED
    BY <1>1, <1>3, <2>1, <2>2, <2>3, <2>4, Zenon DEF ReplyInv
<1>9. QED
  BY <1>2, <1>6, <1>7, <1>8, Zenon DEF StateInv, CommandEffect

\* Steps that leave Workers, replies and states alone.
LEMMA QuietKeeps ==
  ASSUME StateInv, QueueInv', conn' = conn, pending' = pending, outcome' = outcome, worker' = worker,
         residents' \subseteq Actors, cache' = cache, diverged' = diverged,
         \A p \in Ops : Working(p)' <=> Working(p),
         \A p \in pending : phase'[p] = phase[p],
         \A p \in Ops : phase'[p] = "publish" => phase[p] = "publish" \/ outcome[p].type = "ok",
         host' = "starting" => host = "starting" /\ phase' = phase
  PROVE  StateInv'
<1>1. ReplyInv'
  BY Zenon DEF StateInv, ReplyInv
<1>2. Entries' = Entries
  BY Zenon DEF Entries
<1>3. ExecutorInv'
  BY <1>2, Zenon DEF StateInv, ExecutorInv, ExecutorTypeOK
<1>4. ASSUME NEW b \in Actors PROVE ActorInv(b)'
  <2>1. Same(b)
    BY Zenon DEF Same, Returned
  <2>2. ActorInv(b) /\ pending \subseteq Ops
    BY Zenon DEF StateInv, ExecutorInv, ExecutorTypeOK
  <2>3. QED
    BY <2>1, <2>2, Untouched, Zenon
<1>5. QED
  BY <1>1, <1>3, <1>4, Zenon DEF StateInv

\* Every step of an operation keeps the invariant.
LEMMA OpKeeps ==
  ASSUME StateInv, QueueInv', NEW o \in Ops, Check(o) \/ OpStep(o) \/ Cancel(o)
  PROVE  StateInv'
<1> DEFINE a == ActorOf[o]
<1>1. /\ a \in Actors /\ phase \in [Ops -> OpPhases] /\ ReplyInv /\ residents \subseteq Actors
      /\ cache \in [Actors -> ActorState] /\ pending \subseteq Ops /\ outcome \in [Ops -> Outcome]
      /\ worker \in [Actors -> Worker] /\ diverged \subseteq Actors /\ ActorInv(a)
  BY OpsAssumption, Zenon DEF StateInv, QueueInv, ExecutorInv, ExecutorTypeOK
<1>2. outcome[o].state \in ActorState
  BY <1>1, Zenon DEF Outcome
<1>3. ASSUME NEW p \in OpPhases, SetPhase(o, p), p \in Executing <=> Working(o), o \notin pending,
             p = "publish" => outcome[o].type = "ok", phase[o] # p,
             conn' = conn, pending' = pending, outcome' = outcome,
             worker' = worker, residents' \subseteq Actors, cache' = cache, diverged' = diverged,
             host' = host, host # "starting"
      PROVE  StateInv'
  <2>1. phase'[o] = p /\ \A q \in Ops : q # o => phase'[q] = phase[q]
    BY <1>1, <1>3, Zenon DEF SetPhase
  <2>2. \A q \in Ops : Working(q)' <=> Working(q)
    BY <1>3, <2>1, Zenon DEF Working
  <2>3. \A q \in pending : phase'[q] = phase[q]
    BY <1>1, <1>3, <2>1, Zenon
  <2>4. \A q \in Ops : phase'[q] = "publish" => phase[q] = "publish" \/ outcome[q].type = "ok"
    BY <1>3, <2>1, Zenon
  <2>5. QED
    BY <1>3, <2>2, <2>3, <2>4, QuietKeeps, Zenon
<1>4. ASSUME o \in Active, Ends(o) PROVE StateInv'
  BY <1>4, EndKeeps, Zenon
<1>5. Evict(a) => /\ residents' \subseteq Actors
                  /\ worker' \in {worker, [worker EXCEPT ![a] = NoWorker]}
                  /\ conn = "open" => ~worker'[a].hydrated
  <2>1. [worker EXCEPT ![a] = NoWorker][a] = NoWorker
    BY <1>1, Zenon
  <2>2. QED
    BY <1>1, <2>1, EntryFields, Zenon DEF Evict, Terminate, SetWorker
<1>6. o \in pending => phase[o] \in {"hinted", "hydrating"}
  BY <1>1, Zenon DEF ReplyInv
<1>7. phase[o] # "new" => host # "starting"
  BY <1>1, Zenon DEF ReplyInv
<1>8. Working(o) => o \in Active
  BY Zenon DEF Active, Working
<1>9. Working(o) /\ a \notin diverged /\ conn = "open" /\ worker[a].hydrated =>
         /\ Returned(o) => worker[a].state = outcome[o].state
         /\ o \notin pending /\ ~Returned(o) => worker[a].state = cache[a]
  <2>1. Working(o) => \A p \in Ops : p # o /\ ActorOf[p] = a => ~Returned(p)
    BY Alone, Zenon DEF Returned
  <2>2. Working(o) /\ ~Returned(o) => {p \in Ops : ActorOf[p] = a /\ Returned(p)} = {}
    BY <2>1, Zenon
  <2>3. QED
    BY <1>1, <2>2, Zenon DEF ActorInv
<1>10. CASE Check(o)
  <2>1. PICK p \in {"checked", "done"} : SetPhase(o, p)
    BY <1>10, Zenon DEF Check
  <2>2. /\ p \in OpPhases /\ ~(p \in Executing) /\ ~Working(o) /\ o \notin pending /\ p # "publish"
        /\ phase[o] # p /\ host # "starting"
    BY <1>6, <1>10, Zenon DEF Check, OpPhases, Executing, Working, Draining
  <2>3. QED
    BY <1>1, <1>3, <1>10, <2>1, <2>2, Zenon DEF Check, executor, lifecycle
<1>11. CASE Admit(o)
  <2>1. PICK p \in {"queued", "done"} : SetPhase(o, p)
    BY <1>11, Zenon DEF Admit
  <2>2. /\ p \in OpPhases /\ ~(p \in Executing) /\ ~Working(o) /\ o \notin pending /\ p # "publish"
        /\ phase[o] # p /\ host # "starting"
    BY <1>6, <1>7, <1>11, Zenon DEF Admit, OpPhases, Executing, Working
  <2>3. QED
    BY <1>1, <1>3, <1>11, <2>1, <2>2, Zenon DEF Admit, executor, lifecycle
<1>12. CASE Enter(o)
  <2>1. PICK p \in {"hinted", "hydrating"} : SetPhase(o, p)
    BY <1>12, Zenon DEF Enter
  <2>a. \A state \in Snapshots(a) : state \in ActorState
    BY <1>1, Zenon DEF Snapshots, ActorState
  <2>2. PICK state \in ActorState :
           /\ Exchange(o, a \in residents, state) /\ residents' \subseteq Actors
           /\ phase[o] = "queued" /\ HasLock(o) /\ conn' = conn /\ host' = host /\ Holds(o, state)
    BY <1>1, <1>12, <2>a, Zenon DEF Enter, StartFrom, Hydrate, Holds, lifecycle
  <2>3. QED
    BY <2>1, <2>2, CommandStep, Zenon
<1>13. CASE StateRequired(o)
  <2>1. /\ Exchange(o, FALSE, cache[a]) /\ residents' \subseteq Actors /\ SetPhase(o, "hydrating")
        /\ phase[o] = "hinted" /\ o \notin pending /\ outcome[o].type = "state_required"
        /\ conn' = conn /\ host' = host /\ cache' = cache /\ diverged' = diverged
    BY <1>1, <1>13, Zenon DEF StateRequired, HydrateExplicitly, lifecycle, Replied
  <2>2. Holds(o, cache[a]) /\ cache[a] \in ActorState
    BY <1>1, <2>1, Zenon DEF Holds
  <2>3. QED
    BY <2>1, <2>2, CommandStep, Zenon
<1>14. CASE NotEntered(o)
  <2>1. o \in Active /\ ~Working(o) /\ o \notin pending
    BY <1>6, <1>14, Zenon DEF NotEntered, Active, Working, Executing
  <2>2. pending = pending \ {o}
    BY <2>1, Zenon
  <2>3. Ends(o)
    BY <1>1, <1>14, <2>1, <2>2, Zenon DEF Ends, NotEntered
  <2>4. QED
    BY <1>4, <2>1, <2>3, Zenon
<1>15. CASE Executed(o)
  <2>1. /\ Working(o) /\ Returned(o) /\ o \notin pending /\ pending = pending \ {o}
        /\ residents' \subseteq Actors
    <3>1. Working(o) /\ Returned(o) /\ o \notin pending
      BY <1>15, Zenon DEF Executed, Replied, Returned
    <3>2. residents' \subseteq Actors
      BY <1>1, <1>15, Zenon DEF Executed, Remember
    <3>3. QED
      BY <3>1, <3>2, Zenon
  <2>2. CASE outcome[o].state = cache[a] /\ Finish(o)
    <3>1. Ends(o)
      BY <1>1, <1>9, <1>15, <2>1, <2>2, Zenon DEF Ends, Executed
    <3>2. QED
      BY <1>4, <1>8, <2>1, <3>1, Zenon
  <2>3. CASE SetPhase(o, "publish") /\ UNCHANGED <<outcome, lifecycle, gate, queue>>
    <3>1. /\ "publish" \in OpPhases /\ "publish" \in Executing /\ outcome[o].type = "ok"
          /\ phase[o] # "publish" /\ phase[o] # "new"
      BY <1>15, <2>1, Zenon DEF OpPhases, Executing, Executed, Returned
    <3>2. QED
      BY <1>1, <1>3, <1>7, <1>15, <2>1, <2>3, <3>1, Zenon DEF Executed, lifecycle
  <2>4. QED
    BY <1>15, <2>2, <2>3, Zenon DEF Executed
<1>16. CASE InvalidEffects(o)
  <2>1. Working(o) /\ o \notin pending
    BY <1>16, Zenon DEF InvalidEffects, Replied
  <2>2. pending = pending \ {o}
    BY <2>1, Zenon
  <2>3. Ends(o)
    BY <1>1, <1>5, <1>16, <2>1, <2>2, Zenon DEF Ends, InvalidEffects
  <2>4. QED
    BY <1>4, <1>8, <2>1, <2>3, Zenon
<1>17. CASE ExecutionFailed(o)
  <2>1. Working(o) /\ o \notin pending /\ ~Returned(o)
    BY <1>17, Zenon DEF ExecutionFailed, Replied, Returned
  <2>2. pending = pending \ {o}
    BY <2>1, Zenon
  <2>3. CASE Kind[o] = "method"
    <3>1. Ends(o)
      BY <1>1, <1>5, <1>17, <2>1, <2>2, <2>3, Zenon DEF Ends, ExecutionFailed
    <3>2. QED
      BY <1>4, <1>8, <2>1, <3>1, Zenon
  <2>4. CASE Kind[o] # "method"
    <3>1. Ends(o)
      BY <1>1, <1>9, <1>17, <2>1, <2>2, <2>4, Zenon DEF Ends, ExecutionFailed
    <3>2. QED
      BY <1>4, <1>8, <2>1, <3>1, Zenon
  <2>5. QED
    BY <2>3, <2>4, Zenon
<1>18. CASE Published(o) \/ PublishFails(o)
  <2>1. Working(o) /\ o \notin pending /\ phase[o] = "publish"
    BY <1>6, <1>18, Zenon DEF Published, PublishFails, Working, Executing
  <2>2. Returned(o) /\ pending = pending \ {o}
    BY <1>1, <2>1, Zenon DEF Returned, ReplyInv
  <2> DEFINE new == [cache EXCEPT ![a] = outcome[o].state]
  <2>3. /\ new \in [Actors -> ActorState] /\ new[a] = outcome[o].state
        /\ \A b \in Actors : b # a => new[b] = cache[b]
    BY <1>1, <1>2, Zenon
  <2>4. CASE Published(o)
    <3>1. cache' = new
      BY <2>4, Zenon DEF Published
    <3> HIDE DEF new
    <3>2. Ends(o)
      BY <1>1, <1>9, <2>1, <2>2, <2>3, <2>4, <3>1, Zenon DEF Ends, Published
    <3>3. QED
      BY <1>4, <1>8, <2>1, <3>2, Zenon
  <2>5. CASE PublishFails(o)
    <3>1. cache' \in {cache, new}
      BY <2>5, Zenon DEF PublishFails
    <3> HIDE DEF new
    <3>2. cache' \in [Actors -> ActorState] /\ \A b \in Actors : b # a => cache'[b] = cache[b]
      BY <1>1, <2>3, <3>1, Zenon
    <3>3. Ends(o)
      BY <1>1, <1>5, <2>1, <2>2, <2>5, <3>2, Zenon DEF Ends, PublishFails
    <3>4. QED
      BY <1>4, <1>8, <2>1, <3>3, Zenon
  <2>6. QED
    BY <1>18, <2>4, <2>5, Zenon
<1>19. CASE Cancel(o)
  <2>1. cache' \in [Actors -> ActorState] /\ \A b \in Actors : b # a => cache'[b] = cache[b]
    <3>1. CASE UNCHANGED cache
      BY <1>1, <3>1, Zenon
    <3>2. CASE cache' = [cache EXCEPT ![a] = outcome[o].state]
      BY <1>1, <1>2, <3>2, Zenon
    <3>3. QED
      BY <1>19, <3>1, <3>2, Zenon DEF Cancel
  <2>2. ~Working(o) => cache' = cache
    BY <1>19, Zenon DEF Cancel, Working, Executing
  <2>3. diverged \subseteq diverged' /\ diverged' \subseteq Actors /\ (Working(o) => a \in diverged')
    BY <1>1, <1>19, Zenon DEF Cancel
  <2>4. Ends(o)
    BY <1>1, <1>19, <2>1, <2>2, <2>3, Zenon DEF Ends, Cancel
  <2>5. QED
    BY <1>4, <1>19, <2>4, Zenon DEF Cancel
<1>20. QED
  BY <1>10, <1>11, <1>12, <1>13, <1>14, <1>15, <1>16, <1>17, <1>18, <1>19, Zenon DEF OpStep

\* deliver: the reply goes to whoever the slot names, if that still waits.
LEMMA Delivered ==
  ASSUME ExecutorInv, NEW slot \in Ops \cup {NoOp}, NEW type \in {"ok", "failed"},
         NEW state \in ActorState, Deliver(slot, type, state)
  PROVE  /\ outcome' \in [Ops -> Outcome] /\ pending' = pending \ {slot}
         /\ \A p \in Ops : p # slot \/ p \notin pending => outcome'[p] = outcome[p]
         /\ slot \in pending => outcome'[slot].type = type /\ outcome'[slot].state = state
<1>1. outcome \in [Ops -> Outcome] /\ pending \subseteq Ops
  BY Zenon DEF ExecutorInv, ExecutorTypeOK
<1>2. CASE slot \in pending
  <2>1. Result(type, state) \in Outcome /\ Result(type, state).type = type /\ Result(type, state).state = state
    BY Zenon DEF Result, Outcome
  <2>2. outcome' = [outcome EXCEPT ![slot] = Result(type, state)] /\ pending' = pending \ {slot}
    BY <1>2, Zenon DEF Deliver
  <2>3. /\ outcome' \in [Ops -> Outcome] /\ outcome'[slot] = Result(type, state)
        /\ \A p \in Ops : p # slot => outcome'[p] = outcome[p]
    BY <1>1, <1>2, <2>1, <2>2, Zenon
  <2>4. QED
    BY <1>2, <2>1, <2>2, <2>3, Zenon
<1>3. CASE slot \notin pending
  <2>1. outcome' = outcome /\ pending' = pending
    BY <1>3, Zenon DEF Deliver
  <2>2. pending = pending \ {slot}
    BY <1>3, Zenon
  <2>3. QED
    BY <1>1, <1>3, <2>1, <2>2, Zenon
<1>4. QED
  BY <1>2, <1>3, Zenon

\* A Worker settles what its slot names: with the state it has from now on, which
\* is the old one or that with an operation it was running, or with a failure
\* that leaves it without an instance.
Settles(a) ==
    LET w == worker[a]
        v == worker'[a]
    IN  /\ v \in Worker /\ v.slot = NoOp /\ Listed(v) /\ worker' = [worker EXCEPT ![a] = v]
        /\ w.status # "absent"
        /\ \/ \E o \in w.running :
                 /\ v.state \in {w.state, w.state \cup {o}} /\ v.hydrated = w.hydrated
                 /\ v.running = w.running \ {o}
                 /\ Deliver(w.slot, "ok", v.state)
           \/ /\ ~v.hydrated
              /\ v.running = {} \/ (w.slot = NoOp /\ w.running # {})
              /\ Deliver(w.slot, "failed", {})

\* The fields of a Worker after a return ...
AfterReturn(v, w, o, next) ==
    /\ v \in Worker /\ v.slot = NoOp /\ v.status = w.status /\ v.state = next
    /\ v.hydrated = w.hydrated /\ v.running = w.running \ {o}

\* ... and after a failure nobody is told of.
AfterReset(v, w) == v \in Worker /\ v.slot = NoOp /\ v.status = w.status /\ ~v.hydrated

\* A return (RunReturns).
LEMMA ReturnedWorker ==
  ASSUME NEW w \in Worker, NEW o \in Ops, NEW next \in ActorState
  PROVE  AfterReturn([w EXCEPT !.running = @ \ {o}, !.state = next, !.slot = NoOp,
                               !.idle = @ \/ w.slot # NoOp], w, o, next)
<1> DEFINE v == [w EXCEPT !.running = @ \ {o}, !.state = next, !.slot = NoOp,
                          !.idle = @ \/ w.slot # NoOp]
<1>1. v \in Worker
  BY Zenon DEF Worker
<1>2. /\ v.slot = NoOp /\ v.status = w.status /\ v.state = next
      /\ v.hydrated = w.hydrated /\ v.running = w.running \ {o}
  BY Zenon DEF Worker
<1>3. QED
  BY <1>1, <1>2, Zenon DEF AfterReturn

\* Such a failure (RunThrows).
LEMMA ResetWorker ==
  ASSUME NEW w \in Worker, NEW o \in Ops, w.slot = NoOp
  PROVE  AfterReset([w EXCEPT !.running = @ \ {o}, !.hydrated = FALSE, !.state = {}], w)
<1> DEFINE v == [w EXCEPT !.running = @ \ {o}, !.hydrated = FALSE, !.state = {}]
<1>1. v \in Worker
  BY Zenon DEF Worker, ActorState
<1>2. v.slot = NoOp /\ v.status = w.status /\ ~v.hydrated
  BY Zenon DEF Worker
<1>3. QED
  BY <1>1, <1>2, Zenon DEF AfterReset

\* The end of a Worker that was not running anything the host waits for (WorkerDies).
LEMMA DeadWorker ==
  ASSUME NEW w \in Worker, NEW v, v = [NoWorker EXCEPT !.status = "dead", !.idle = w.idle]
  PROVE  v \in Worker /\ v.slot = NoOp /\ v.status = "dead" /\ ~v.hydrated /\ v.running = {}
<1>1. w.idle \in BOOLEAN
  BY Zenon DEF Worker
<1>2. v \in Worker
  BY <1>1, Zenon DEF Worker, NoWorker, ActorState
<1>3. v.slot = NoOp /\ v.status = "dead" /\ ~v.hydrated /\ v.running = {}
  BY Zenon DEF NoWorker
<1>4. QED
  BY <1>2, <1>3, Zenon

\* Steps of a Worker settle its slot.
LEMMA NodeSettles ==
  ASSUME StateInv, NEW a \in Actors, RunStep(a) \/ WorkerDies(a)
  PROVE  Settles(a) /\ conn' = conn /\ residents' = residents
<1> DEFINE w == worker[a]
<1>1. worker \in [Actors -> Worker] /\ w \in Worker /\ Listed(w)
  BY Zenon DEF StateInv, ExecutorInv, ExecutorTypeOK
<1>2. w.state \in ActorState /\ w.running \subseteq Ops
  BY <1>1, Zenon DEF Worker
<1>3. conn' = conn /\ residents' = residents
  BY Zenon DEF RunStep, WorkerDies
<1>4. Listed(NoWorker) /\ Listed(EmptyEntry)
  BY EntryFields, Zenon DEF Listed
<1>5. ASSUME NEW v \in Worker, worker' = [worker EXCEPT ![a] = v] PROVE worker'[a] = v
  BY <1>1, <1>5, Zenon
<1>6. ASSUME NEW v \in {NoWorker, EmptyEntry}, SetWorker(a, v), Deliver(w.slot, "failed", {}),
             w.status # "absent"
      PROVE  Settles(a)
  <2>1. v \in Worker /\ v.slot = NoOp /\ ~v.hydrated /\ v.running = {} /\ Listed(v)
    BY <1>4, EntryFields, Zenon
  <2>2. worker' = [worker EXCEPT ![a] = v] /\ worker'[a] = v
    BY <1>5, <1>6, <2>1, Zenon DEF SetWorker
  <2>3. QED
    BY <1>6, <2>1, <2>2, Zenon DEF Settles
<1>7. ASSUME NEW o \in w.running, RunReturns(a, o) PROVE Settles(a)
  <2>1. PICK next \in {w.state, w.state \cup {o}} :
           /\ SetWorker(a, [w EXCEPT !.running = @ \ {o}, !.state = next, !.slot = NoOp,
                                      !.idle = @ \/ w.slot # NoOp])
           /\ Deliver(w.slot, "ok", next)
    BY <1>7, Zenon DEF RunReturns
  <2> DEFINE v == [w EXCEPT !.running = @ \ {o}, !.state = next, !.slot = NoOp,
                            !.idle = @ \/ w.slot # NoOp]
  <2>2. o \in Ops
    BY <1>2, Zenon
  <2>3. next \in ActorState
    BY <1>2, <2>2, Zenon DEF ActorState
  <2>4. /\ v \in Worker /\ v.slot = NoOp /\ v.status = w.status /\ v.state = next
        /\ v.hydrated = w.hydrated /\ v.running = w.running \ {o}
    <3>1. AfterReturn(v, w, o, next)
      BY <1>1, <2>2, <2>3, ReturnedWorker, Zenon
    <3> HIDE DEF v
    <3>2. QED
      BY <3>1, Zenon DEF AfterReturn
  <2>5. worker' = [worker EXCEPT ![a] = v]
    BY <2>1, Zenon DEF SetWorker
  <2> HIDE DEF v
  <2>6. worker'[a] = v /\ w.status # "absent" /\ Listed(v)
    BY <1>1, <1>5, <1>7, <2>4, <2>5, Zenon DEF Listed
  <2>7. QED
    BY <1>7, <2>1, <2>4, <2>5, <2>6, Zenon DEF Settles
<1>8. ASSUME NEW o \in w.running, RunThrows(a, o) PROVE Settles(a)
  <2>1. w.status # "absent" /\ o \in Ops
    BY <1>1, <1>2, <1>8, Zenon DEF Listed
  <2>2. CASE w.slot = NoOp
    <3> DEFINE v == [w EXCEPT !.running = @ \ {o}, !.hydrated = FALSE, !.state = {}]
    <3>1. v \in Worker /\ v.slot = NoOp /\ v.status = w.status /\ ~v.hydrated
      <4>1. AfterReset(v, w)
        BY <1>1, <2>1, <2>2, ResetWorker, Zenon
      <4> HIDE DEF v
      <4>2. QED
        BY <4>1, Zenon DEF AfterReset
    <3>2. worker' = [worker EXCEPT ![a] = v] /\ Deliver(w.slot, "failed", {})
      BY <1>8, <2>2, Zenon DEF RunThrows, SetWorker
    <3> HIDE DEF v
    <3>3. worker'[a] = v /\ Listed(v)
      BY <1>5, <2>1, <3>1, <3>2, Zenon DEF Listed
    <3>4. QED
      BY <1>8, <2>1, <2>2, <3>1, <3>2, <3>3, Zenon DEF Settles
  <2>3. CASE w.slot # NoOp
    BY <1>6, <1>8, <2>1, <2>3, Zenon DEF RunThrows
  <2>4. QED
    BY <2>2, <2>3, Zenon
<1>9. ASSUME NEW o \in w.running, ReplyTooLarge(a, o) PROVE Settles(a)
  BY <1>1, <1>6, <1>9, Zenon DEF ReplyTooLarge, Terminate, Listed
<1>10. CASE WorkerDies(a)
  <2>1. w.status # "absent"
    BY <1>10, Zenon DEF WorkerDies
  <2>2. CASE w.slot = NoOp
    <3> DEFINE v == [NoWorker EXCEPT !.status = "dead", !.idle = w.idle]
    <3>1. v \in Worker /\ v.slot = NoOp /\ v.status = "dead" /\ ~v.hydrated /\ v.running = {}
      BY <1>1, DeadWorker, Zenon
    <3>2. worker' = [worker EXCEPT ![a] = v] /\ Deliver(w.slot, "failed", {})
      BY <1>10, <2>2, Zenon DEF WorkerDies, SetWorker
    <3> HIDE DEF v
    <3>3. worker'[a] = v /\ Listed(v)
      BY <1>5, <3>1, <3>2, Zenon DEF Listed
    <3>4. v \in Worker /\ v.slot = NoOp /\ ~v.hydrated /\ v.running = {}
      BY <3>1, Zenon
    <3>5. QED
      BY <1>3, <2>1, <3>2, <3>3, <3>4, Zenon DEF Settles
  <2>3. CASE w.slot # NoOp
    BY <1>6, <1>10, <2>1, <2>3, Zenon DEF WorkerDies
  <2>4. QED
    BY <2>2, <2>3, Zenon
<1>11. QED
  BY <1>3, <1>7, <1>8, <1>9, <1>10, Zenon DEF RunStep

\* What a Worker's message changes.
LEMMA SettleFrame ==
  ASSUME StateInv, NEW a \in Actors, Settles(a), conn' = conn, residents' = residents
  PROVE  /\ ExecutorInv' /\ worker[a].slot \in Ops \cup {NoOp} /\ pending' = pending \ {worker[a].slot}
         /\ \A b \in Actors : b # a => worker'[b] = worker[b]
         /\ \A p \in Ops : p # worker[a].slot \/ p \notin pending => outcome'[p] = outcome[p]
<1> DEFINE w == worker[a]
<1>1. ExecutorInv /\ worker \in [Actors -> Worker] /\ w \in Worker /\ pending \subseteq Ops
  BY Zenon DEF StateInv, ExecutorInv, ExecutorTypeOK
<1>2. w.slot \in Ops \cup {NoOp} /\ w.state \in ActorState /\ w.running \subseteq Ops
  BY <1>1, Zenon DEF Worker
<1>3. PICK v \in Worker : v = worker'[a] /\ Listed(v) /\ worker' = [worker EXCEPT ![a] = v]
  BY Zenon DEF Settles
<1>4. w.status # "absent"
  BY Zenon DEF Settles
<1>5. /\ worker' \in [Actors -> Worker] /\ \A b \in Actors : Listed(worker'[b])
      /\ \A b \in Actors : b # a => worker'[b] = worker[b]
      /\ IsFiniteSet(Entries') /\ Cardinality(Entries') <= MaxResident
  BY <1>1, <1>3, <1>4, WorkerChanges, Zenon
<1>6. v.state \in ActorState /\ {} \in ActorState
  BY <1>3, Zenon DEF Worker, ActorState
<1>7. PICK type \in {"ok", "failed"}, state \in ActorState : Deliver(w.slot, type, state)
  BY <1>3, <1>6, Zenon DEF Settles
<1>8. /\ outcome' \in [Ops -> Outcome] /\ pending' = pending \ {w.slot}
      /\ \A p \in Ops : p # w.slot \/ p \notin pending => outcome'[p] = outcome[p]
  BY <1>1, <1>2, <1>7, Delivered, Zenon
<1>9. pending' \subseteq Ops
  BY <1>1, <1>8, Zenon
<1>10. ExecutorInv'
  BY <1>1, <1>5, <1>8, <1>9, Zenon DEF ExecutorInv, ExecutorTypeOK
<1>11. QED
  BY <1>2, <1>5, <1>8, <1>10, Zenon

\* A Worker's message keeps the invariant of its actor.
LEMMA SettleActor ==
  ASSUME StateInv, NEW a \in Actors, Settles(a), conn' = conn, residents' = residents,
         phase' = phase, cache' = cache, diverged' = diverged
  PROVE  ActorInv(a)'
<1> DEFINE w == worker[a]
           v == worker'[a]
<1>1. /\ ExecutorInv /\ ReplyInv /\ ActorInv(a) /\ pending \subseteq Ops /\ w \in Worker
  BY Zenon DEF StateInv, ExecutorInv, ExecutorTypeOK
<1>2. /\ w.slot \in Ops \cup {NoOp} /\ pending' = pending \ {w.slot}
      /\ \A p \in Ops : p # w.slot \/ p \notin pending => outcome'[p] = outcome[p]
  BY SettleFrame, Zenon
<1>3. v.slot = NoOp /\ v \in Worker
  BY Zenon DEF Settles
<1>4. {p \in pending : ActorOf[p] = a}' = {}
  BY <1>1, <1>2, Zenon DEF ActorInv
<1>5. \A p \in pending : Working(p)
  BY <1>1, Zenon DEF ReplyInv, Working, Executing
<1>6. \A p \in Ops : p # w.slot \/ p \notin pending => (Returned(p)' <=> Returned(p))
  BY <1>2, Zenon DEF Returned, Working
<1>7. SUFFICES ASSUME a \notin diverged
      PROVE  LET back == {p \in Ops : ActorOf[p] = a /\ Returned(p)}'
             IN  /\ \A p \in back : outcome'[p].state \in {cache[a], cache[a] \cup {p}}
                 /\ conn = "open" =>
                       /\ v.running = {}
                       /\ v.hydrated => /\ \A p \in back : v.state = outcome'[p].state
                                        /\ back = {} => v.state = cache[a]
  BY <1>3, <1>4, Zenon DEF ActorInv
<1>8. \A p \in Ops : ActorOf[p] = a /\ Returned(p) => outcome[p].state \in {cache[a], cache[a] \cup {p}}
  BY <1>1, <1>7, Zenon DEF ActorInv
<1>9. CASE \E o \in w.running :
              /\ v.state \in {w.state, w.state \cup {o}} /\ v.hydrated = w.hydrated
              /\ v.running = w.running \ {o}
              /\ Deliver(w.slot, "ok", v.state)
  <2>1. PICK o \in w.running :
              /\ v.state \in {w.state, w.state \cup {o}} /\ v.hydrated = w.hydrated
              /\ v.running = w.running \ {o}
              /\ Deliver(w.slot, "ok", v.state)
    BY <1>9, Zenon
  <2>2. CASE conn # "open"
    <3>1. pending = {}
      BY <1>1, <2>2, Zenon DEF ReplyInv
    <3>2. \A p \in Ops : (Returned(p)' <=> Returned(p)) /\ outcome'[p] = outcome[p]
      BY <1>2, <1>6, <3>1, Zenon
    <3>3. QED
      BY <1>8, <2>2, <3>2, Zenon
  <2>3. CASE conn = "open"
    <3>1. {p \in pending : ActorOf[p] = a} # {}
      BY <1>1, <1>7, <2>1, <2>3, Zenon DEF ActorInv
    <3>2. PICK p \in pending : ActorOf[p] = a
      BY <3>1, Zenon
    <3>3. w.slot = p /\ w.running = {p} /\ w.hydrated /\ w.state = cache[a]
      BY <1>1, <1>7, <3>2, Zenon DEF ActorInv
    <3>4. v.running = {} /\ o = p /\ v.state \in {cache[a], cache[a] \cup {p}}
      BY <2>1, <3>3, Zenon
    <3>5. v.state \in ActorState
      BY <1>3, Zenon DEF Worker
    <3>6. outcome'[p].type = "ok" /\ outcome'[p].state = v.state
      <4>1. w.slot \in pending => outcome'[w.slot].type = "ok" /\ outcome'[w.slot].state = v.state
        BY <1>1, <1>2, <2>1, <3>5, Delivered, Zenon
      <4>2. QED
        BY <3>2, <3>3, <4>1, Zenon
    <3>7. p \in Ops /\ Working(p)
      BY <1>1, <1>5, <3>2, Zenon
    <3>8. Returned(p)'
      BY <1>2, <3>3, <3>6, <3>7, Zenon DEF Returned, Working
    <3>9. \A q \in Ops : q # p /\ ActorOf[q] = a => ~Working(q)
      BY <3>2, <3>7, Alone, Zenon
    <3>10. \A q \in Ops : ActorOf[q] = a /\ Returned(q)' => q = p
      BY <3>9, Zenon DEF Returned, Working
    <3>11. {q \in Ops : ActorOf[q] = a /\ Returned(q)}' = {p}
      BY <3>2, <3>7, <3>8, <3>10, Zenon
    <3>12. {p} # {}
      BY Zenon
    <3>13. QED
      BY <3>4, <3>6, <3>11, <3>12, Zenon
  <2>4. QED
    BY <2>2, <2>3, Zenon
<1>10. CASE /\ ~v.hydrated
            /\ v.running = {} \/ (w.slot = NoOp /\ w.running # {})
            /\ Deliver(w.slot, "failed", {})
  <2>1. {} \in ActorState
    BY Zenon DEF ActorState
  <2>2. w.slot \in pending => outcome'[w.slot].type = "failed"
    BY <1>1, <1>2, <1>10, <2>1, Delivered, Zenon
  <2>3. \A p \in Ops : p = w.slot /\ p \in pending => ~Returned(p)'
    BY <2>2, Zenon DEF Returned
  <2>4. \A p \in Ops : Returned(p)' => Returned(p) /\ outcome'[p] = outcome[p]
    BY <1>2, <1>6, <2>3, Zenon
  <2>5. conn = "open" => v.running = {}
    <3> SUFFICES ASSUME conn = "open", w.slot = NoOp, w.running # {} PROVE FALSE
      BY <1>10, Zenon
    <3>1. PICK p \in pending : ActorOf[p] = a
      BY <1>1, <1>7, Zenon DEF ActorInv
    <3>2. w.slot = p
      BY <1>1, <3>1, Zenon DEF ActorInv
    <3>3. QED
      BY <1>1, <3>2, OpsAssumption, Zenon
  <2>6. QED
    BY <1>8, <1>10, <2>4, <2>5, Zenon
<1>11. QED
  BY <1>9, <1>10, Zenon DEF Settles

\* A Worker's step keeps the invariant (RunStep, WorkerDies, IdleExpires).
LEMMA NodeKeeps ==
  ASSUME StateInv, QueueInv', NEW a \in Actors, NodeStep(a)
  PROVE  StateInv'
<1>1. /\ phase' = phase /\ cache' = cache /\ diverged' = diverged /\ host' = host
      /\ conn' = conn /\ residents' = residents
  BY Zenon DEF NodeStep, Quiet, lifecycle, RunStep, WorkerDies, IdleExpires
<1>2. /\ ExecutorInv /\ ReplyInv /\ pending \subseteq Ops /\ \A b \in Actors : ActorInv(b)
      /\ worker \in [Actors -> Worker]
  BY Zenon DEF StateInv, ExecutorInv, ExecutorTypeOK
<1>3. host = "starting" => worker[a] = NoWorker
  BY <1>2, Zenon DEF ReplyInv
<1>4. CASE RunStep(a) \/ WorkerDies(a)
  <2>1. Settles(a)
    BY <1>4, NodeSettles, Zenon
  <2>2. /\ ExecutorInv' /\ worker[a].slot \in Ops \cup {NoOp} /\ pending' = pending \ {worker[a].slot}
        /\ \A b \in Actors : b # a => worker'[b] = worker[b]
        /\ \A p \in Ops : p # worker[a].slot \/ p \notin pending => outcome'[p] = outcome[p]
    BY <1>1, <2>1, SettleFrame, Zenon
  <2>3. host # "starting"
    BY <1>3, <2>1, EntryFields, Zenon DEF Settles
  <2>4. ReplyInv'
    <3>1. \A p \in Ops : phase[p] = "publish" => p \notin pending
      BY <1>2, Zenon DEF ReplyInv
    <3>2. QED
      BY <1>1, <1>2, <2>2, <2>3, <3>1, Zenon DEF ReplyInv
  <2>5. ASSUME NEW b \in Actors, b # a PROVE ActorInv(b)'
    <3>1. worker[a].slot \in pending => ActorOf[worker[a].slot] = a
      <4>1. worker[a].slot \in pending => worker[a].slot # NoOp
        BY <1>2, OpsAssumption, Zenon
      <4>2. QED
        BY <1>2, <4>1, Zenon DEF ActorInv
    <3>2. Same(b)
      BY <1>1, <2>2, <2>5, <3>1, Zenon DEF Same, Returned, Working
    <3>3. pending' \subseteq Ops
      BY <1>2, <2>2, Zenon
    <3>4. QED
      BY <1>2, <3>2, <3>3, Untouched, Zenon
  <2>6. ActorInv(a)'
    BY <1>1, <2>1, SettleActor, Zenon
  <2>7. QED
    BY <1>1, <2>2, <2>4, <2>5, <2>6, Zenon DEF StateInv
<1>5. CASE IdleExpires(a)
  <2>1. /\ worker[a].idle /\ worker' = [worker EXCEPT ![a] = NoWorker]
        /\ pending' = pending /\ outcome' = outcome
    BY <1>5, Zenon DEF IdleExpires, Terminate, SetWorker
  <2>2. Listed(NoWorker)
    BY EntryFields, Zenon DEF Listed
  <2>3. /\ worker' \in [Actors -> Worker] /\ worker'[a] = NoWorker
        /\ \A b \in Actors : Listed(worker'[b])
        /\ \A b \in Actors : b # a => worker'[b] = worker[b]
        /\ IsFiniteSet(Entries') /\ Cardinality(Entries') <= MaxResident
    BY <1>2, <2>1, <2>2, EntryFields, WorkerChanges, Zenon
  <2>4. ExecutorInv'
    BY <1>1, <1>2, <2>1, <2>3, Zenon DEF ExecutorInv, ExecutorTypeOK
  <2>5. ReplyInv'
    BY <1>1, <1>2, <2>1, <2>3, Zenon DEF ReplyInv
  <2>6. ASSUME NEW b \in Actors PROVE ActorInv(b)'
    <3>1. Same(b)
      BY <1>1, <2>1, <2>3, Zenon DEF Same, Returned, Working
    <3>2. QED
      BY <1>2, <2>1, <3>1, Untouched, Zenon
  <2>7. QED
    BY <1>1, <2>4, <2>5, <2>6, Zenon DEF StateInv
<1>6. QED
  BY <1>4, <1>5, Zenon DEF NodeStep

\* The connection to Node ends, with or without the Workers (disconnect).
LEMMA DisconnectKeeps ==
  ASSUME StateInv, QueueInv', NodeExits \/ CloseExecutor
  PROVE  StateInv'
<1>1. /\ ExecutorInv /\ ReplyInv /\ pending \subseteq Ops /\ \A b \in Actors : ActorInv(b)
      /\ worker \in [Actors -> Worker] /\ outcome \in [Ops -> Outcome] /\ IsFiniteSet(Entries)
      /\ Cardinality(Entries) <= MaxResident /\ \A b \in Actors : Listed(worker[b])
  BY Zenon DEF StateInv, ExecutorInv, ExecutorTypeOK
<1>2. /\ conn' = "closed" /\ pending' = {} /\ residents' = residents
      /\ outcome' = [o \in Ops |-> IF o \in pending THEN Result("error", {}) ELSE outcome[o]]
      /\ phase' = phase /\ cache' = cache /\ diverged' = diverged
  BY Zenon DEF NodeExits, CloseExecutor, Disconnect, Quiet
<1>3. Result("error", {}) \in Outcome /\ Result("error", {}).type = "error"
  BY Zenon DEF Result, Outcome, ActorState
<1>4. /\ outcome' \in [Ops -> Outcome]
      /\ \A o \in Ops : outcome'[o] = IF o \in pending THEN Result("error", {}) ELSE outcome[o]
  BY <1>1, <1>2, <1>3, Zenon
<1>5. \A b \in Actors : worker'[b] \in {worker[b], NoWorker}
  BY Zenon DEF NodeExits, CloseExecutor
<1>6. worker' \in [Actors -> Worker]
  BY <1>1, EntryFields, Zenon DEF NodeExits, CloseExecutor
<1>7. Entries' \subseteq Entries
  BY <1>5, EntryFields, Zenon DEF Entries
<1>8. /\ IsFiniteSet(Entries') /\ Cardinality(Entries') <= MaxResident
      /\ \A b \in Actors : Listed(worker'[b])
  BY <1>1, <1>5, <1>7, FewerEntries, EntryFields, Zenon DEF Listed
<1>9. ExecutorInv'
  BY <1>1, <1>2, <1>4, <1>6, <1>8, Zenon DEF ExecutorInv, ExecutorTypeOK
<1>10. \A o \in Ops : Returned(o)' => Returned(o) /\ outcome'[o] = outcome[o]
  <2>1. \A o \in Ops : o \in pending => outcome'[o].type # "ok"
    BY <1>3, <1>4, Zenon
  <2>2. QED
    BY <1>2, <1>4, <2>1, Zenon DEF Returned, Working
<1>11. ReplyInv'
  <2>1. host' = "starting" => host = "starting"
    BY Zenon DEF NodeExits, CloseExecutor, HostStep, lifecycle
  <2>2. \A o \in Ops : phase[o] = "publish" => o \notin pending
    BY <1>1, Zenon DEF ReplyInv
  <2>3. QED
    BY <1>1, <1>2, <1>4, <1>5, <2>1, <2>2, Zenon DEF ReplyInv
<1>12. ASSUME NEW b \in Actors PROVE ActorInv(b)'
  <2>1. conn' # "open"
    BY <1>2, Zenon
  <2>2. /\ worker'[b].idle => worker'[b].slot = NoOp
        /\ worker'[b].slot # NoOp => ActorOf[worker'[b].slot] = b
    BY <1>1, <1>5, EntryFields, Zenon DEF ActorInv
  <2>3. b \notin diverged =>
           \A o \in Ops : ActorOf[o] = b /\ Returned(o)' =>
              outcome'[o].state \in {cache[b], cache[b] \cup {o}}
    BY <1>1, <1>10, Zenon DEF ActorInv
  <2>4. QED
    BY <1>2, <2>1, <2>2, <2>3, Zenon DEF ActorInv
<1>13. QED
  BY <1>2, <1>9, <1>11, <1>12, Zenon DEF StateInv

\* Without Workers, replies and admitted operations all is well.
LEMMA FreshActors ==
  ASSUME pending = {}, \A o \in Ops : ~Working(o), \A a \in Actors : worker[a] = NoWorker
  PROVE  \A a \in Actors : ActorInv(a)
<1>1. \A o \in Ops : ~Returned(o)
  BY Zenon DEF Returned
<1>2. QED
  BY <1>1, EntryFields, Zenon DEF ActorInv

\* The same after a step.
LEMMA FreshActorsNext ==
  ASSUME pending' = {}, \A o \in Ops : ~Working(o)', \A a \in Actors : worker'[a] = NoWorker
  PROVE  \A a \in Actors : ActorInv(a)'
<1>1. \A o \in Ops : ~Returned(o)'
  BY Zenon DEF Returned
<1>2. QED
  BY <1>1, EntryFields, Zenon DEF ActorInv

\* Nothing is left of a process that has ended (ProcessEnds).
LEMMA EndsKeep ==
  ASSUME StateInv, QueueInv', ProcessEnds, host' # "starting"
  PROVE  StateInv'
<1>1. /\ cache' = [a \in Actors |-> {}] /\ diverged' = {} /\ conn' = "closed" /\ residents' = {}
      /\ pending' = {} /\ outcome' = [o \in Ops |-> Result("none", {})]
      /\ worker' = [a \in Actors |-> NoWorker]
  BY Zenon DEF ProcessEnds
<1>2. {} \in ActorState /\ Result("none", {}) \in Outcome
  BY Zenon DEF ActorState, Result, Outcome
<1>3. cache' \in [Actors -> ActorState] /\ outcome' \in [Ops -> Outcome] /\ worker' \in [Actors -> Worker]
  BY <1>1, <1>2, EntryFields, Zenon
<1>4. \A a \in Actors : worker'[a] = NoWorker
  BY <1>1, Zenon
<1>5. Entries' = {} /\ \A a \in Actors : Listed(worker'[a])
  BY <1>4, EntryFields, Zenon DEF Entries, Listed
<1>6. IsFiniteSet(Entries') /\ Cardinality(Entries') <= MaxResident
  BY <1>5, FS_EmptySet, LimitsAssumption
<1>7. ExecutorInv'
  BY <1>1, <1>3, <1>5, <1>6, Zenon DEF ExecutorInv, ExecutorTypeOK
<1>8. Active' = {}
  BY QueueEnds, Zenon DEF StateInv
<1>9. \A o \in Ops : ~Working(o)'
  BY <1>8, Zenon DEF Active, Working
<1>10. \A a \in Actors : ActorInv(a)'
  BY <1>1, <1>4, <1>9, FreshActorsNext, Zenon
<1>11. ReplyInv'
  <2>1. \A o \in Ops : phase'[o] # "publish"
    BY <1>9, Zenon DEF Working, Executing
  <2>2. QED
    BY <1>1, <2>1, Zenon DEF ReplyInv
<1>12. QED
  BY <1>1, <1>3, <1>7, <1>10, <1>11, Zenon DEF StateInv

\* The Node process attaches while there are neither Workers nor operations.
LEMMA AttachKeeps ==
  ASSUME StateInv, QueueInv', Attach
  PROVE  StateInv'
<1>1. /\ conn' = "open" /\ host = "starting" /\ host' = "attached" /\ residents' = residents
      /\ pending' = pending /\ outcome' = outcome /\ worker' = worker /\ phase' = phase
      /\ cache' = cache /\ diverged' = diverged
  BY Zenon DEF Attach, Start
<1>2. (\A a \in Actors : worker[a] = NoWorker) /\ (\A o \in Ops : phase[o] = "new") /\ ReplyInv
  BY <1>1, Zenon DEF StateInv, ReplyInv
<1>3. \A o \in Ops : ~Working(o)'
  BY <1>1, <1>2, Zenon DEF Working, Executing
<1>4. pending = {}
  <2>1. pending \subseteq Ops
    BY Zenon DEF StateInv, ExecutorInv, ExecutorTypeOK
  <2>2. \A o \in Ops : o \notin pending
    BY <1>2, Zenon DEF ReplyInv
  <2>3. QED
    BY <2>1, <2>2, Zenon
<1>5. \A a \in Actors : ActorInv(a)'
  BY <1>1, <1>2, <1>3, <1>4, FreshActorsNext, Zenon
<1>6. host' # "starting"
  BY <1>1, Zenon
<1>7. ReplyInv'
  BY <1>1, <1>2, <1>4, <1>6, Zenon DEF ReplyInv
<1>8. Entries' = Entries
  BY <1>1, Zenon DEF Entries
<1>9. ExecutorInv'
  BY <1>1, <1>8, Zenon DEF StateInv, ExecutorInv, ExecutorTypeOK
<1>10. QED
  BY <1>1, <1>5, <1>7, <1>9, Zenon DEF StateInv

\* Every step keeps the invariant.
LEMMA StateStep ==
  ASSUME StateInv, [Next]_vars
  PROVE  StateInv'
<1>1. QueueInv' /\ residents \subseteq Actors
  BY QueueStep, Zenon DEF StateInv, ExecutorInv, ExecutorTypeOK
<1>2. ASSUME executor' = executor, phase' = phase, cache' = cache, diverged' = diverged,
             host' = "starting" => host = "starting"
      PROVE  StateInv'
  BY <1>1, <1>2, QuietKeeps, Zenon DEF executor, Working
<1>3. CASE \E o \in Ops : Check(o) \/ OpStep(o) \/ Cancel(o)
  BY <1>1, <1>3, OpKeeps, Zenon
<1>4. CASE \E a \in Actors : NodeStep(a)
  BY <1>1, <1>4, NodeKeeps, Zenon
<1>5. CASE NodeExits \/ CloseExecutor
  BY <1>1, <1>5, DisconnectKeeps, Zenon
<1>6. CASE JoinPanics \/ Unregister
  <2>1. host' # "starting" /\ ProcessEnds
    BY <1>6, Zenon DEF JoinPanics, Unregister, HostStep
  <2>2. QED
    BY <1>1, <2>1, EndsKeep, Zenon
<1>7. CASE Attach
  BY <1>1, <1>7, AttachKeeps, Zenon
<1>8. CASE RegisterLease \/ MarkReady \/ StartFails
  <2>1. host' # "starting"
    BY <1>8, Zenon DEF RegisterLease, MarkReady, StartFails, Start
  <2>2. QED
    BY <1>2, <1>8, <2>1, Zenon DEF RegisterLease, MarkReady, StartFails, Start, executor
<1>9. CASE Stop \/ DrainLoad \/ DrainWait \/ DrainTimeout
  <2>1. host' # "starting"
    BY <1>9, Zenon DEF Stop, DrainLoad, DrainWait, DrainTimeout, HostStep
  <2>2. QED
    BY <1>2, <1>9, <2>1, Zenon DEF Stop, DrainLoad, DrainWait, DrainTimeout, Quiet
<1>10. CASE UNCHANGED vars
  BY <1>2, <1>10, Zenon DEF vars, executor, lifecycle
<1>11. QED
  BY <1>3, <1>4, <1>5, <1>6, <1>7, <1>8, <1>9, <1>10, Zenon DEF Next, StopStep

-----------------------------------------------------------------------------
(* The host's life, and everything together.                                 *)

\* A host that drains has stopped accepting, and once it has drained in time it
\* executes nothing but disconnects.
LifeInv ==
    /\ host \in HostPhases /\ {ended, timedOut, accepting} \subseteq BOOLEAN
    /\ host \in Draining \cup {"drained", "closed"} => ~accepting
    /\ DrainedQuiet

\* The inductive invariant.
HostInv == StateInv /\ LifeInv

\* Operations go on: whatever begins to execute does so while the host accepts, or
\* is a disconnect.
LEMMA LifeGoesOn ==
  ASSUME LifeInv, ended' = ended, timedOut' = timedOut, accepting' = accepting,
         host' = host \/ (host' = "load" /\ host = "waiting"),
         \A p \in Ops : Working(p)' => Working(p) \/ accepting \/ Kind[p] = "disconnect"
  PROVE  LifeInv'
<1>1. host' \in HostPhases /\ {ended', timedOut', accepting'} \subseteq BOOLEAN
  BY Zenon DEF LifeInv, HostPhases
<1>2. host' \in Draining \cup {"drained", "closed"} => ~accepting'
  BY Zenon DEF LifeInv, Draining
<1>3. host' \in {"drained", "closed"} => host' = host
  BY Zenon
<1>4. DrainedQuiet'
  BY <1>3, Zenon DEF LifeInv, DrainedQuiet
<1>5. QED
  BY <1>1, <1>2, <1>4, Zenon DEF LifeInv

\* Operations do (the second look at accepting, after admission).
LEMMA LifeOp ==
  ASSUME StateInv, LifeInv, NEW o \in Ops, Check(o) \/ OpStep(o) \/ Cancel(o)
  PROVE  LifeInv'
<1>1. phase \in [Ops -> OpPhases]
  BY Zenon DEF StateInv, QueueInv
<1>2. ASSUME NEW p, SetPhase(o, p),
             p \in Executing => Working(o) \/ accepting \/ Kind[o] = "disconnect"
      PROVE  \A q \in Ops : Working(q)' => Working(q) \/ accepting \/ Kind[q] = "disconnect"
  <2>1. phase'[o] = p /\ \A q \in Ops : q # o => phase'[q] = phase[q]
    BY <1>1, <1>2, Zenon DEF SetPhase
  <2>2. QED
    BY <1>2, <2>1, Zenon DEF Working
<1>3. {"done", "checked", "queued"} \cap Executing = {}
  BY Zenon DEF Executing
<1>4. ASSUME lifecycle' = lifecycle, NEW p, SetPhase(o, p),
             p \in Executing => Working(o) \/ accepting \/ Kind[o] = "disconnect"
      PROVE  LifeInv'
  BY <1>2, <1>4, LifeGoesOn, Zenon DEF lifecycle
<1>5. ASSUME Finish(o) PROVE LifeInv'
  <2>1. /\ SetPhase(o, "done") /\ ended' = ended /\ timedOut' = timedOut /\ accepting' = accepting
        /\ host' = host \/ (host' = "load" /\ host = "waiting")
    BY <1>5, Zenon DEF Finish
  <2>2. QED
    BY <1>2, <1>3, <2>1, LifeGoesOn, Zenon
<1>6. CASE Check(o)
  BY <1>3, <1>4, <1>6, Zenon DEF Check
<1>7. CASE Admit(o)
  BY <1>3, <1>4, <1>7, Zenon DEF Admit
<1>8. CASE Enter(o)
  BY <1>4, <1>8, Zenon DEF Enter
<1>9. CASE StateRequired(o)
  BY <1>4, <1>9, Zenon DEF StateRequired, Replied
<1>10. CASE Executed(o)
  BY <1>4, <1>5, <1>10, Zenon DEF Executed, Replied, lifecycle
<1>11. CASE NotEntered(o) \/ InvalidEffects(o) \/ ExecutionFailed(o) \/ Published(o) \/ PublishFails(o)
            \/ Cancel(o)
  BY <1>5, <1>11, Zenon DEF NotEntered, InvalidEffects, ExecutionFailed, Published, PublishFails, Cancel
<1>12. QED
  BY <1>6, <1>7, <1>8, <1>9, <1>10, <1>11, Zenon DEF OpStep

\* Every step of the host's life keeps its invariant.
LEMMA LifeStep ==
  ASSUME StateInv, LifeInv, [Next]_vars
  PROVE  LifeInv'
<1>1. ASSUME lifecycle' = lifecycle, phase' = phase PROVE LifeInv'
  BY <1>1, LifeGoesOn, Zenon DEF lifecycle, Working
<1>2. ASSUME host' \in HostPhases \ (Draining \cup {"drained", "closed"}),
             ended' = ended, timedOut' = timedOut, accepting' = accepting
      PROVE  LifeInv'
  BY <1>2, Zenon DEF LifeInv, DrainedQuiet
<1>3. CASE \E o \in Ops : Check(o) \/ OpStep(o) \/ Cancel(o)
  BY <1>3, LifeOp, Zenon
<1>4. CASE (\E a \in Actors : NodeStep(a)) \/ NodeExits
  BY <1>1, <1>4, Zenon DEF NodeStep, NodeExits, Quiet
<1>5. CASE Attach \/ RegisterLease \/ MarkReady \/ StartFails
  <2>1. host' \in {"attached", "leased", "serving", "failed"}
    BY <1>5, Zenon DEF Attach, RegisterLease, MarkReady, StartFails, Start
  <2>2. host' \in HostPhases \ (Draining \cup {"drained", "closed"})
    BY <2>1, Zenon DEF HostPhases, Draining
  <2>3. QED
    BY <1>2, <1>5, <2>2, Zenon DEF Attach, RegisterLease, MarkReady, StartFails, Start
<1>6. CASE JoinPanics \/ Unregister
  <2>1. host' \in HostPhases \ (Draining \cup {"drained", "closed"})
    BY <1>6, Zenon DEF HostPhases, Draining, JoinPanics, Unregister, HostStep
  <2>2. QED
    BY <1>2, <1>6, <2>1, Zenon DEF JoinPanics, Unregister, ProcessEnds
<1>7. CASE Stop
  <2>1. host' = "load" /\ accepting' = FALSE /\ ended' \in {FALSE, conn = "closed"} /\ timedOut' = timedOut
    BY <1>7, Zenon DEF Stop, HostStep
  <2>2. ended' \in BOOLEAN /\ timedOut' \in BOOLEAN /\ accepting' \in BOOLEAN
    BY <2>1, Zenon DEF LifeInv
  <2>3. host' \in HostPhases /\ host' \notin {"drained", "closed"}
    BY <2>1, Zenon DEF HostPhases
  <2>4. QED
    BY <2>1, <2>2, <2>3, Zenon DEF LifeInv, DrainedQuiet
<1>8. CASE DrainLoad \/ DrainWait \/ DrainTimeout \/ CloseExecutor
  <2>1. host \in Draining \cup {"drained", "closed"} /\ ended' = ended /\ accepting' = accepting /\ phase' = phase
    BY <1>8, Zenon DEF DrainLoad, DrainWait, DrainTimeout, CloseExecutor, HostStep, Draining, Quiet
  <2>2. host' \in HostPhases /\ timedOut' \in BOOLEAN
    BY <1>8, Zenon DEF LifeInv, HostPhases, DrainLoad, DrainWait, DrainTimeout, CloseExecutor, HostStep
  <2>3. DrainedQuiet'
    <3>1. CASE DrainLoad \/ DrainWait
      <4>1. host' \in {"drained", "closed"} => Active = {}
        BY <3>1, Zenon DEF DrainLoad, DrainWait, HostStep
      <4>2. Active = {} => \A o \in Ops : ~Working(o)'
        BY <2>1, Zenon DEF Active, Working
      <4>3. QED
        BY <4>1, <4>2, Zenon DEF DrainedQuiet
    <3>2. CASE DrainTimeout
      BY <3>2, Zenon DEF DrainTimeout, DrainedQuiet
    <3>3. CASE CloseExecutor
      BY <2>1, <3>3, Zenon DEF CloseExecutor, HostStep, LifeInv, DrainedQuiet, Working
    <3>4. QED
      BY <1>8, <3>1, <3>2, <3>3, Zenon
  <2>4. QED
    BY <2>1, <2>2, <2>3, Zenon DEF LifeInv
<1>9. CASE UNCHANGED vars
  BY <1>1, <1>9, Zenon DEF vars
<1>10. QED
  BY <1>3, <1>4, <1>5, <1>6, <1>7, <1>8, <1>9, Zenon DEF Next, StopStep

\* A process starts with nothing.
LEMMA Initially ==
  ASSUME Init
  PROVE  HostInv
<1>1. /\ conn = "none" /\ residents = {} /\ pending = {} /\ outcome = [o \in Ops |-> Result("none", {})]
      /\ worker = [a \in Actors |-> NoWorker]
      /\ phase = [o \in Ops |-> "new"] /\ gate = [o \in Ops |-> 0] /\ queue = << >>
      /\ cache = [a \in Actors |-> {}] /\ diverged = {} /\ host = "starting"
      /\ ended = FALSE /\ timedOut = FALSE /\ accepting = TRUE
  BY Zenon DEF Init, ExecutorInit
<1>2. {} \in ActorState /\ Result("none", {}) \in Outcome
  BY Zenon DEF ActorState, Result, Outcome
<1>3. cache \in [Actors -> ActorState] /\ outcome \in [Ops -> Outcome] /\ worker \in [Actors -> Worker]
  BY <1>1, <1>2, EntryFields, Zenon
<1>4. \A a \in Actors : worker[a] = NoWorker
  BY <1>1, Zenon
<1>5. Entries = {} /\ \A a \in Actors : Listed(worker[a])
  BY <1>4, EntryFields, Zenon DEF Entries, Listed
<1>6. IsFiniteSet(Entries) /\ Cardinality(Entries) <= MaxResident
  BY <1>5, FS_EmptySet, LimitsAssumption
<1>7. ExecutorInv
  BY <1>1, <1>3, <1>5, <1>6, Zenon DEF ExecutorInv, ExecutorTypeOK
<1>8. \A o \in Ops : phase[o] = "new" /\ ~Working(o) /\ o \notin Active
  BY <1>1, Zenon DEF Active, Working, Executing
<1>9. Active = {} /\ \A a \in Actors : Holders(a) = {}
  BY <1>1, <1>8, Zenon DEF Active, Holders
<1>10. AdmissionBound
  BY <1>9, FS_EmptySet, AdmittedAssumption DEF AdmissionBound
<1>11. /\ phase \in [Ops -> OpPhases] /\ gate \in [Ops -> Nat] /\ queue \in Seq(Ops) /\ DOMAIN queue = {}
  BY <1>1 DEF OpPhases
<1>12. Range(queue) = {}
  BY <1>11, Zenon DEF Range
<1>13. QueueInv
  BY <1>1, <1>8, <1>9, <1>10, <1>11, <1>12, FS_EmptySet, Zenon DEF QueueInv
<1>14. \A a \in Actors : ActorInv(a)
  BY <1>1, <1>4, <1>8, FreshActors, Zenon
<1>15. ReplyInv
  BY <1>1, <1>4, <1>8, Zenon DEF ReplyInv
<1>16. StateInv
  BY <1>1, <1>3, <1>7, <1>13, <1>14, <1>15, Zenon DEF StateInv
<1>17. LifeInv
  BY <1>1, Zenon DEF LifeInv, HostPhases, Draining, DrainedQuiet
<1>18. QED
  BY <1>16, <1>17, Zenon DEF HostInv

\* The invariant holds at all times.
THEOREM HostSafety == Spec => []HostInv
<1>1. Init => HostInv
  BY Initially, Zenon
<1>2. HostInv /\ [Next]_vars => HostInv'
  BY StateStep, LifeStep, Zenon DEF HostInv
<1>3. QED
  BY <1>1, <1>2, PTL DEF Spec

\* Type correctness: operations and queue agree, and the supervisor never has more
\* entries than it may.
THEOREM TypeCorrect == Spec => []TypeOK
<1>1. HostInv => TypeOK
  BY Zenon DEF HostInv, StateInv, QueueInv, ExecutorInv, LifeInv, TypeOK
<1>2. QED
  BY <1>1, HostSafety, PTL

\* An actor's operations execute one at a time (ActorExecutionLocks).
THEOREM OnePerActor == Spec => []OneAtATime
<1>1. HostInv => OneAtATime
  BY OnlyOne, Zenon DEF HostInv, StateInv, OneAtATime
<1>2. QED
  BY <1>1, HostSafety, PTL

\* No actor has more operations admitted than the limit (admit).
THEOREM AdmissionLimited == Spec => []AdmissionBound
<1>1. HostInv => AdmissionBound
  BY Zenon DEF HostInv, StateInv, QueueInv
<1>2. QED
  BY <1>1, HostSafety, PTL

\* Code that has returned ran on the state the host holds, as long as no event of
\* the actor was dropped under way and no snapshot loaded over a resident instance
\* (exchange_with_state).
THEOREM RanOnCached == Spec => []ExecutesOnCached
<1>1. HostInv => ExecutesOnCached
  <2> SUFFICES ASSUME HostInv, NEW o \in Ops, Returned(o), ActorOf[o] \notin diverged
               PROVE  outcome[o].state \in {cache[ActorOf[o]], cache[ActorOf[o]] \cup {o}}
    BY Zenon DEF ExecutesOnCached, Returned
  <2>1. ActorOf[o] \in Actors
    BY OpsAssumption, Zenon
  <2>2. ActorInv(ActorOf[o])
    BY <2>1, Zenon DEF HostInv, StateInv
  <2>3. QED
    BY <2>2, Zenon DEF ActorInv
<1>2. QED
  BY <1>1, HostSafety, PTL

\* Whoever waits will be answered by the Worker of its actor (makeRoomForActor,
\* removeIfCurrent).
THEOREM WaitersServed == Spec => []WaitsForWorker
<1>1. HostInv => WaitsForWorker
  <2> SUFFICES ASSUME HostInv, NEW o \in pending
               PROVE  worker[ActorOf[o]].slot = o /\ worker[ActorOf[o]].running # {}
    BY Zenon DEF WaitsForWorker
  <2>1. pending \subseteq Ops
    BY Zenon DEF HostInv, StateInv, ExecutorInv, ExecutorTypeOK
  <2>2. ActorOf[o] \in Actors
    BY <2>1, OpsAssumption, Zenon
  <2>3. ActorInv(ActorOf[o])
    BY <2>2, Zenon DEF HostInv, StateInv
  <2>4. QED
    BY <2>3, Zenon DEF ActorInv
<1>2. QED
  BY <1>1, HostSafety, PTL

\* A host that has drained in time executes nothing but disconnects (drain).
THEOREM QuietOnceDrained == Spec => []DrainedQuiet
<1>1. HostInv => DrainedQuiet
  BY Zenon DEF HostInv, LifeInv
<1>2. QED
  BY <1>1, HostSafety, PTL

=============================================================================
