------------------------- MODULE Routing_proofs -------------------------
(***************************************************************************)
(* Proofs about Routing, for any number of requests, registrations, hosts,  *)
(* revisions and provider processes.                                        *)
(***************************************************************************)
EXTENDS Routing, TLAPS

USE DEF Looked

Born(h) == sandbox[h] # "unborn"
Known(h) == h \in Hosts /\ Born(h)

\* A host gets a lease when it is ready, and the name of a revision is never used
\* by two sandboxes that run (modal.ts).
HostsInv ==
    /\ \A h \in Hosts : sandbox[h] \in {"unborn", "booting"} => lease[h] = "none"
    /\ \A g, h \in Hosts : Running(g) /\ Running(h) /\ revision[g] = revision[h] => g = h

\* A task leases one process at a time.
HoldersInv ==
    \A p, q \in Processes : holder[p] # NoCaller /\ holder[p] = holder[q] => p = q

\* The command that task c has written, and the reply it may get.
CommandOf(c) ==
    IF c \in Admins THEN "terminate_hosts"
    ELSE IF at[c] = "exchange" THEN "ensure_host" ELSE "public_host_route"
Asked(c, command) ==
    command.by = c /\ command.revision = spec[c] /\ command.operation = CommandOf(c)
Replies(c, reply) ==
    /\ reply.by = c
    /\ c \in Routes /\ reply.host # NoHost => Known(reply.host) /\ revision[reply.host] = spec[c]
    /\ c \in Routes /\ reply.host # NoHost /\ at[c] = "asking" /\ Running(found[c])
         /\ revision[found[c]] = spec[c] => reply.host = found[c]

\* The sandbox a process is at belongs to the command.
Progressing(progress, command) ==
    progress.step \notin {"look", "create"} =>
        Known(progress.host) /\ revision[progress.host] = command.revision

\* A process that is free is as good as new; one that is leased has either the
\* holder's command or the reply to it.
ProcessInv(p) ==
    /\ holder[p] = NoCaller => process[p] = NewProcess
    /\ holder[p] # NoCaller =>
         /\ process[p].busy = TRUE
         /\ \/ \E command \in Command :
                  /\ process[p].input = <<command>> /\ process[p].output = <<>>
                  /\ Asked(holder[p], command) /\ Progressing(process[p].at, command)
            \/ \E reply \in Reply :
                  /\ process[p].input = <<>> /\ process[p].output = <<reply>>
                  /\ process[p].at = NewProcess.at /\ Replies(holder[p], reply)

\* A row names a host that has had a lease.
RowKnown(row) ==
    /\ row.owner # NoHost => Known(row.owner) /\ lease[row.owner] # "none"
    /\ row.epoch = 0 => row = NoPlacement

\* The cached routes; revision names that are not nested in each other.
CacheInv ==
    Prefixes = {} => \A h \in Hosts : publicRoutes[h] # NoHost =>
                         Born(h) /\ (Running(h) => publicRoutes[h] = h)

Serves(h, r) == HostMatchesRevision(h, r) /\ lease[h] = "active"

\* A task knows a row that was current once; it is at work on it because its
\* owner does not serve, or did not until its lease came back; and what it has found
\* is a host of its deployment.
TaskInv(c) ==
    /\ c \in Admins => at[c] \in {"new", "upsert", "provide", "exchange", "ended"}
    /\ at[c] \notin {"new", "upsert", "ended"} => spec[c] # NoRevision
    /\ RowKnown(current[c])
    /\ current[c].epoch <= placement.epoch
    /\ current[c].epoch = placement.epoch => current[c] = placement
    /\ at[c] \in {"validate", "claim", "reread"} => Known(found[c]) /\ revision[found[c]] = spec[c]
    /\ at[c] \in {"claim", "reread"} => lease[found[c]] # "none"
    /\ Routed(c) => Known(found[c]) /\ current[c].owner = found[c]
    /\ c \in Routes /\ Looked(c) => c \in regained \/ ~Serves(current[c].owner, spec[c])
    /\ at[c] = "reread" => current[c].owner = found[c] \/ current[c].epoch < placement.epoch
    /\ Prefixes = {} /\ Routed(c) => revision[found[c]] = spec[c]
    /\ Prefixes = {} /\ at[c] = "resolved" /\ Running(found[c]) => route[c] = found[c]

EpochInv ==
    \A c, d \in Callers : current[c].epoch = current[d].epoch => current[c].owner = current[d].owner

RoutingInv ==
    /\ TypeOK /\ HostsInv /\ HoldersInv /\ CacheInv /\ EpochInv /\ RowKnown(placement)
    /\ \A p \in Processes : ProcessInv(p)
    /\ \A c \in Callers : TaskInv(c)

-----------------------------------------------------------------------------
(* Hosts.                                                                   *)

\* The requests that have found h without a lease know of its return.
Noticed(h) == \A c \in Routes : Looked(c) /\ current[c].owner = h => c \in regained'

\* What becomes of hosts that exist already, whoever takes a step: they keep their
\* revision, do not come back, and no lease comes back unnoticed.
Grows ==
    \A h \in Hosts : Born(h) =>
        /\ Born(h)' /\ revision'[h] = revision[h] /\ (Running(h)' => Running(h))
        /\ lease[h] # "none" => lease'[h] # "none"
        /\ lease[h] # "none" /\ lease'[h] = "active" => lease[h] = "active" \/ Noticed(h)

\* A step that leaves the hosts alone.
LEMMA HostsStay == UNCHANGED hosts => Grows
BY Zenon DEF Grows, hosts, Born, Running

\* Terminating sandboxes that exist (Terminate in modal.ts).
LEMMA TerminateGrows ==
  ASSUME TypeOK, HostsInv, NEW H \in SUBSET Hosts, \A h \in H : Born(h),
         Terminate(H), UNCHANGED <<revision, lease>>
  PROVE  Grows /\ HostsInv' /\ sandbox' \in [Hosts -> {"unborn", "booting", "ready", "gone"}]
         /\ metadata' \subseteq Hosts
<1>1. sandbox' = [h \in Hosts |-> IF h \in H THEN "gone" ELSE sandbox[h]]
      /\ sandbox \in [Hosts -> {"unborn", "booting", "ready", "gone"}] /\ metadata \subseteq Hosts
  BY Zenon DEF Terminate, TypeOK, ProviderTypeOK
<1>2. Grows
  BY <1>1, Zenon DEF Grows, Born, Running
<1>3. HostsInv'
  BY <1>1, Zenon DEF HostsInv, Running
<1>4. QED
  BY <1>1, <1>2, <1>3, Zenon DEF Terminate

\* The steps of a host itself, and of its lease (HostReady, HostExits, HostDies,
\* LeaseExpires, LeaseReturns).
LEMMA HostGrows ==
  ASSUME TypeOK, HostsInv, NEW h \in Hosts, HostStep(h)
  PROVE  /\ Grows /\ HostsInv' /\ ProviderTypeOK' /\ UNCHANGED pool
         /\ regained \subseteq regained' /\ regained' \subseteq Routes
<1> USE DEF TypeOK, ProviderTypeOK
<1>1. CASE HostReady(h) /\ UNCHANGED regained
  BY <1>1 DEF HostReady, Grows, HostsInv, Born, Running, pool
<1>2. CASE HostExits(h) /\ UNCHANGED regained
  BY <1>2, Zenon DEF HostExits, Terminate, Grows, HostsInv, Born, Running, pool
<1>3. CASE HostDies(h) /\ UNCHANGED regained
  BY <1>3, Zenon DEF HostDies, Terminate, Grows, HostsInv, Born, Running, pool
<1>4. CASE LeaseExpires(h) /\ UNCHANGED regained
  BY <1>4, Zenon DEF LeaseExpires, Grows, HostsInv, Born, Running, pool
<1>5. CASE Regain(h)
  <2>1. lease' = [lease EXCEPT ![h] = "active"] /\ UNCHANGED <<sandbox, revision, metadata, pool>>
        /\ lease[h] = "ended"
    BY <1>5, Zenon DEF Regain, LeaseReturns
  <2>2. Noticed(h) /\ regained \subseteq regained' /\ regained' \subseteq Routes
    BY <1>5, Zenon DEF Regain, Noticed
  <2>3. QED
    BY <2>1, <2>2, Zenon DEF Grows, HostsInv, Born, Running, pool
<1>6. QED
  BY <1>1, <1>2, <1>3, <1>4, <1>5, Zenon DEF HostStep

\* A row goes on naming a host that has had a lease.
LEMMA RowStaysKnown ==
  ASSUME Grows, NEW row, RowKnown(row)
  PROVE  RowKnown(row)'
BY Zenon DEF Grows, RowKnown, Known

\* A process whose task waits, and that does nothing, keeps its place.
LEMMA ProcessStays ==
  ASSUME Grows, NEW p \in Processes, ProcessInv(p), holder'[p] = holder[p],
         process'[p] = process[p],
         holder[p] # NoCaller => /\ at'[holder[p]] = at[holder[p]]
                                 /\ spec'[holder[p]] = spec[holder[p]]
                                 /\ found'[holder[p]] = found[holder[p]],
         holder[p] # NoCaller /\ at[holder[p]] = "asking" => Known(found[holder[p]])
  PROVE  ProcessInv(p)'
<1>1. CASE holder[p] = NoCaller
  BY <1>1, Zenon DEF ProcessInv
<1>2. ASSUME holder[p] # NoCaller, NEW command \in Command,
             process[p].input = <<command>>, process[p].output = <<>>,
             Asked(holder[p], command), Progressing(process[p].at, command)
      PROVE  Asked(holder[p], command)' /\ Progressing(process[p].at, command)'
  BY <1>2, Zenon DEF Asked, CommandOf, Progressing, Known, Grows
<1>3. ASSUME holder[p] # NoCaller, NEW reply \in Reply, Replies(holder[p], reply)
      PROVE  Replies(holder[p], reply)'
  BY <1>3, Zenon DEF Replies, Known, Grows
<1>4. QED
  BY <1>1, <1>2, <1>3, Zenon DEF ProcessInv

\* A task that does nothing goes on knowing what it knew, whatever the hosts do
\* and whoever claims the actor.
LEMMA TaskStays ==
  ASSUME Grows, TypeOK, NEW c \in Callers, TaskInv(c),
         at'[c] = at[c], spec'[c] = spec[c], current'[c] = current[c], found'[c] = found[c],
         route'[c] = route[c], c \in regained => c \in regained',
         placement' = placement \/ (placement'.epoch \in Nat /\ placement'.epoch > placement.epoch)
  PROVE  TaskInv(c)'
<1>1. RowKnown(current[c])'
  BY RowStaysKnown, Zenon DEF TaskInv
<1>2. placement.epoch \in Nat /\ current[c].epoch \in Nat
  BY Zenon DEF TypeOK, ObjectPlacement
<1>3. /\ current[c].epoch <= placement'.epoch
      /\ current[c].epoch = placement'.epoch => current[c] = placement'
      /\ at[c] = "reread" => current[c].owner = found[c] \/ current[c].epoch < placement'.epoch
  BY <1>2 DEF TaskInv
<1>4. Routed(c)' <=> Routed(c)
  BY Zenon DEF Routed
<1>5. /\ Known(found[c]) => /\ Known(found[c])' /\ revision'[found[c]] = revision[found[c]]
                            /\ Running(found[c])' => Running(found[c])
                            /\ lease[found[c]] # "none" => lease'[found[c]] # "none"
  BY Zenon DEF Grows, Known
<1>6. c \in Routes /\ Looked(c) => c \in regained' \/ ~Serves(current[c].owner, spec[c])'
  BY Zenon DEF TaskInv, RowKnown, Serves, HostMatchesRevision, Grows, Noticed, Known
<1>7. at[c] = "resolved" => Routed(c)
  BY Zenon DEF Routed
<1>8. QED
  BY <1>1, <1>3, <1>4, <1>5, <1>6, <1>7, Zenon DEF TaskInv

\* Everything about the tasks, when only hosts and processes change.
LEMMA RestStays ==
  ASSUME Grows, RoutingInv, RestIdle, regained \subseteq regained'
  PROVE  CacheInv' /\ EpochInv' /\ RowKnown(placement)' /\ \A c \in Callers : TaskInv(c)'
<1>1. \A c \in Callers : TaskInv(c)'
  BY TaskStays, Zenon DEF RoutingInv, RestIdle, tasks
<1>2. CacheInv'
  BY Zenon DEF CacheInv, Grows, RoutingInv, RestIdle
<1>3. RowKnown(placement)'
  BY RowStaysKnown, Zenon DEF RoutingInv, RestIdle
<1>4. EpochInv'
  BY Zenon DEF EpochInv, RoutingInv, RestIdle, tasks
<1>5. QED
  BY <1>1, <1>2, <1>3, <1>4, Zenon

-----------------------------------------------------------------------------
(* Provider processes.                                                      *)

\* A process that has a command has been leased by the task that wrote it.
LEMMA Commanding ==
  ASSUME RoutingInv, NEW p \in Processes, process[p].input # <<>>
  PROVE  /\ holder[p] \in Callers /\ holder[p] # NoCaller
         /\ AtCommand(p) \in Command /\ process[p].input = <<AtCommand(p)>>
         /\ process[p].output = <<>> /\ process[p].busy = TRUE
         /\ Asked(holder[p], AtCommand(p)) /\ Progressing(process[p].at, AtCommand(p))
<1>1. holder[p] \in Callers \cup {NoCaller} /\ ProcessInv(p)
  BY Zenon DEF RoutingInv, TypeOK, ProviderTypeOK
<1>2. holder[p] # NoCaller
  BY <1>1 DEF ProcessInv, NewProcess
<1>3. PICK command \in Command :
         /\ process[p].input = <<command>> /\ process[p].output = <<>> /\ process[p].busy = TRUE
         /\ Asked(holder[p], command) /\ Progressing(process[p].at, command)
  BY <1>1, <1>2, Zenon DEF ProcessInv
<1>4. AtCommand(p) = command
  BY <1>3 DEF AtCommand
<1>5. QED
  BY <1>1, <1>2, <1>3, <1>4, Zenon

\* The process answers its command (Answer).
LEMMA Answering ==
  ASSUME RoutingInv, NEW p \in Processes, process[p].input # <<>>, Grows, UNCHANGED tasks,
         NEW h \in Hosts \cup {NoHost}, Answer(p, h),
         holder[p] \in Routes /\ h # NoHost =>
             /\ Known(h)' /\ revision'[h] = AtCommand(p).revision
             /\ (at[holder[p]] = "asking" /\ Running(found[holder[p]])'
                   /\ revision'[found[holder[p]]] = AtCommand(p).revision) => h = found[holder[p]]
  PROVE  ProcessInv(p)' /\ process' \in [Processes -> ProviderProcess]
<1>1. PICK command \in Command : command = AtCommand(p)
  BY Commanding, Zenon
<1> DEFINE reply == [by |-> command.by, host |-> h]
           next == [busy |-> TRUE, input |-> <<>>, output |-> <<reply>>, at |-> NewProcess.at]
<1>2. /\ holder[p] \in Callers /\ holder[p] # NoCaller
      /\ process[p].input = <<command>> /\ process[p].output = <<>> /\ process[p].busy = TRUE
      /\ Asked(holder[p], command)
  BY <1>1, Commanding, Zenon
<1>3. process \in [Processes -> ProviderProcess] /\ holder' = holder
  BY Zenon DEF RoutingInv, TypeOK, ProviderTypeOK, Answer
<1>4. reply \in Reply
  BY <1>2, Zenon DEF Reply, Command
<1>5. next \in ProviderProcess
  BY <1>4 DEF ProviderProcess, NewProcess, Progress, AtStep, Steps
<1>6. process' = [process EXCEPT ![p] = next]
  <2>1. Append(process[p].output, reply) = <<reply>> /\ Tail(process[p].input) = <<>>
    BY <1>2
  <2>2. QED
    BY <1>1, <1>2, <1>3, <2>1, Zenon DEF Answer
<1>7. process' \in [Processes -> ProviderProcess] /\ process'[p] = next
  BY <1>3, <1>5, <1>6, Zenon
<1>8. Replies(holder[p], reply)'
  BY <1>1, <1>2, <1>3, Zenon DEF Replies, Asked, tasks
<1>9. QED
  BY <1>2, <1>3, <1>4, <1>7, <1>8 DEF ProcessInv

\* The process goes on with its command (Goes).
LEMMA GoingOn ==
  ASSUME RoutingInv, NEW p \in Processes, process[p].input # <<>>, Grows, UNCHANGED tasks,
         NEW step \in Steps, NEW h \in Hosts \cup {NoHost}, NEW raced \in BOOLEAN,
         Goes(p, step, h, raced),
         step \notin {"look", "create"} => Known(h)' /\ revision'[h] = AtCommand(p).revision
  PROVE  ProcessInv(p)' /\ process' \in [Processes -> ProviderProcess]
<1>1. PICK command \in Command : command = AtCommand(p)
  BY Commanding, Zenon
<1> DEFINE next == [busy |-> TRUE, input |-> <<command>>, output |-> <<>>,
                    at |-> AtStep(step, h, raced)]
<1>2. /\ holder[p] \in Callers /\ holder[p] # NoCaller
      /\ process[p].input = <<command>> /\ process[p].output = <<>> /\ process[p].busy = TRUE
      /\ Asked(holder[p], command)
  BY <1>1, Commanding, Zenon
<1>3. process \in [Processes -> ProviderProcess] /\ holder' = holder
  BY Zenon DEF RoutingInv, TypeOK, ProviderTypeOK, Goes
<1>4. next \in ProviderProcess
  BY DEF ProviderProcess, AtStep, Progress
<1>5. process' = [process EXCEPT ![p] = next]
  <2>1. process' = [process EXCEPT ![p] = [process[p] EXCEPT !.at = AtStep(step, h, raced)]]
    BY <1>3, Zenon DEF Goes
  <2>2. \A z : [process[p] EXCEPT !.at = z]
                  = [busy |-> process[p].busy, input |-> process[p].input,
                     output |-> process[p].output, at |-> z]
    BY <1>3 DEF ProviderProcess
  <2>3. QED
    BY <1>2, <2>1, <2>2, Zenon
<1>6. process' \in [Processes -> ProviderProcess] /\ process'[p] = next
  BY <1>3, <1>4, <1>5, Zenon
<1>7. Asked(holder[p], command)'
  BY <1>2, <1>3, Zenon DEF Asked, CommandOf, tasks
<1>8. Progressing(next.at, command)'
  BY <1>1, Zenon DEF Progressing, AtStep
<1>9. QED
  BY <1>2, <1>3, <1>6, <1>7, <1>8 DEF ProcessInv

\* What a process that is at its command knows of it.
LEMMA AtWork ==
  ASSUME RoutingInv, NEW p \in Processes, process[p].input # <<>>
  PROVE  /\ AtCommand(p).revision \in Revisions
         /\ Commanded(p, "ensure_host") => at[holder[p]] # "asking"
         /\ process[p].at \in Progress
         /\ process[p].at.step \notin {"look", "create"} =>
                Known(process[p].at.host) /\ revision[process[p].at.host] = AtCommand(p).revision
         /\ at[holder[p]] = "asking" => Known(found[holder[p]])
<1>1. /\ holder[p] \in Callers /\ AtCommand(p) \in Command /\ Asked(holder[p], AtCommand(p))
      /\ Progressing(process[p].at, AtCommand(p))
  BY Commanding, Zenon
<1>2. process[p] \in ProviderProcess /\ TaskInv(holder[p])
  BY <1>1, Zenon DEF RoutingInv, TypeOK, ProviderTypeOK
<1>3. Commanded(p, "ensure_host") => at[holder[p]] # "asking"
  BY <1>1, Zenon DEF Asked, CommandOf, Commanded
<1>4. process[p].at \in Progress /\ AtCommand(p).revision \in Revisions
  BY <1>1, <1>2, Zenon DEF ProviderProcess, Command
<1>5. at[holder[p]] = "asking" => Known(found[holder[p]])
  BY <1>2, Zenon DEF TaskInv, Routed
<1>6. QED
  BY <1>1, <1>3, <1>4, <1>5, Zenon DEF Progressing

\* A sandbox found by its name.
LEMMA Found ==
  ASSUME NEW r, Named(r) # {}
  PROVE  LET h == CHOOSE g \in Named(r) : TRUE
         IN  Known(h) /\ Running(h) /\ revision[h] = r
BY Zenon DEF Named, Known, Born, Running

\* A step of a provider process keeps what is known of hosts, and of itself.
LEMMA ProviderGoes ==
  ASSUME RoutingInv, NEW p \in Processes, ProviderStep(p), RestIdle
  PROVE  /\ Grows /\ HostsInv' /\ ProviderTypeOK' /\ holder' = holder /\ ProcessInv(p)'
         /\ \A q \in Processes : q # p => process'[q] = process[q]
<1> DEFINE r == AtCommand(p).revision
           progress == process[p].at
<1>1. process[p].input # <<>>
  BY Zenon DEF ProviderStep, Look, Reuse, Discard, Create, Activate, WriteMetadata, PublicHostRoute,
         TerminateHosts, ModalFails, Working, Commanded
<1>2. /\ r \in Revisions /\ progress \in Progress
      /\ Commanded(p, "ensure_host") => at[holder[p]] # "asking"
      /\ progress.step \notin {"look", "create"} => Known(progress.host) /\ revision[progress.host] = r
      /\ at[holder[p]] = "asking" => Known(found[holder[p]])
  BY <1>1, AtWork, Zenon
<1>3. UNCHANGED tasks /\ TypeOK /\ HostsInv /\ ProviderTypeOK
  BY Zenon DEF RestIdle, RoutingInv, TypeOK
<1>4. holder' = holder /\ \A q \in Processes : q # p => process'[q] = process[q]
  BY <1>3, Zenon DEF ProviderStep, Look, Reuse, Discard, Create, Activate, WriteMetadata, PublicHostRoute,
         TerminateHosts, ModalFails, Answer, Goes, ProviderTypeOK
<1>5. ASSUME Grows, HostsInv', ProcessInv(p)' /\ process' \in [Processes -> ProviderProcess],
             sandbox' \in [Hosts -> {"unborn", "booting", "ready", "gone"}],
             revision' \in [Hosts -> Revisions], metadata' \subseteq Hosts, lease' = lease
      PROVE  /\ Grows /\ HostsInv' /\ ProviderTypeOK' /\ holder' = holder /\ ProcessInv(p)'
             /\ \A q \in Processes : q # p => process'[q] = process[q]
  BY <1>3, <1>4, <1>5, Zenon DEF ProviderTypeOK
<1>6. ASSUME UNCHANGED hosts, ProcessInv(p)' /\ process' \in [Processes -> ProviderProcess]
      PROVE  /\ Grows /\ HostsInv' /\ ProviderTypeOK' /\ holder' = holder /\ ProcessInv(p)'
             /\ \A q \in Processes : q # p => process'[q] = process[q]
  <2>1. Grows
    BY <1>6, HostsStay, Zenon
  <2>2. HostsInv'
    BY <1>3, <1>6, Zenon DEF HostsInv, hosts, Running
  <2>3. QED
    BY <1>3, <1>5, <1>6, <2>1, <2>2, Zenon DEF hosts, ProviderTypeOK
<1>7. ASSUME UNCHANGED hosts, NEW h \in Hosts \cup {NoHost}, Answer(p, h),
             h # NoHost => /\ Known(h) /\ revision[h] = r
                           /\ (at[holder[p]] = "asking" /\ Running(found[holder[p]])
                                 /\ revision[found[holder[p]]] = r) => h = found[holder[p]]
      PROVE  ProcessInv(p)' /\ process' \in [Processes -> ProviderProcess]
  <2>1. Grows
    BY <1>7, HostsStay, Zenon
  <2>2. /\ \A g : Known(g)' <=> Known(g)
        /\ \A g : Running(g)' <=> Running(g)
        /\ revision' = revision
    BY <1>7, Zenon DEF hosts, Known, Born, Running
  <2>3. Running(found[holder[p]])' <=> Running(found[holder[p]])
    BY <1>3, <1>4, <2>2, Zenon DEF tasks
  <2>4. QED
    BY <1>1, <1>3, <1>4, <1>7, <2>1, <2>2, <2>3, Answering, Zenon
<1>8. ASSUME UNCHANGED hosts, NEW step \in Steps, NEW h \in Hosts \cup {NoHost}, NEW raced \in BOOLEAN,
             Goes(p, step, h, raced),
             step \notin {"look", "create"} => Known(h) /\ revision[h] = r
      PROVE  ProcessInv(p)' /\ process' \in [Processes -> ProviderProcess]
  <2>1. Grows
    BY <1>8, HostsStay, Zenon
  <2>2. revision' = revision /\ \A g : Known(g)' <=> Known(g)
    BY <1>8, Zenon DEF hosts, Known, Born
  <2>3. QED
    BY <1>1, <1>3, <1>8, <2>1, <2>2, GoingOn, Zenon
<1>9. CASE Look(p)
  <2>1. CASE Named(r) = {}
    BY <1>6, <1>8, <1>9, <2>1, Zenon DEF Look, Steps
  <2>2. CASE Named(r) # {}
    <3>1. PICK h \in Hosts : h = (CHOOSE g \in Named(r) : TRUE) /\ Known(h) /\ revision[h] = r
      BY <2>2, Found, Zenon DEF Known
    <3>2. QED
      BY <1>6, <1>8, <1>9, <2>2, <3>1, Zenon DEF Look, Steps
  <2>3. QED
    BY <2>1, <2>2, Zenon
<1>10. CASE Reuse(p)
  <2>1. Known(progress.host) /\ revision[progress.host] = r /\ progress.raced \in BOOLEAN
    BY <1>2, <1>10, Zenon DEF Reuse, Working, Progress
  <2>2. UNCHANGED hosts /\ (Answer(p, progress.host) \/ Goes(p, "discard", progress.host, progress.raced))
    BY <1>10, Zenon DEF Reuse
  <2>3. QED
    BY <1>2, <1>6, <1>7, <1>8, <1>10, <2>1, <2>2, Zenon DEF Reuse, Working, Known, Steps
<1>11. CASE Discard(p)
  <2>1. Known(progress.host) /\ revision[progress.host] = r
    BY <1>2, <1>11, Zenon DEF Discard, Working
  <2>2. Terminate({progress.host}) /\ UNCHANGED <<revision, lease>>
        /\ (Answer(p, NoHost) \/ Goes(p, "create", NoHost, FALSE))
    BY <1>11, Zenon DEF Discard
  <2>3. Grows /\ HostsInv' /\ sandbox' \in [Hosts -> {"unborn", "booting", "ready", "gone"}]
        /\ metadata' \subseteq Hosts
    BY <1>3, <2>1, <2>2, TerminateGrows, Zenon DEF Known
  <2>4. CASE Answer(p, NoHost)
    BY <1>1, <1>3, <1>5, <2>2, <2>3, <2>4, Answering, Zenon DEF ProviderTypeOK
  <2>5. CASE Goes(p, "create", NoHost, FALSE)
    BY <1>1, <1>3, <1>5, <2>2, <2>3, <2>5, GoingOn, Zenon DEF ProviderTypeOK, Steps
  <2>6. QED
    BY <2>2, <2>4, <2>5, Zenon
<1>12. CASE Create(p)
  <2>1. CASE Named(r) # {}
    <3>1. PICK h \in Hosts : h = (CHOOSE g \in Named(r) : TRUE) /\ Known(h) /\ revision[h] = r
      BY <2>1, Found, Zenon DEF Known
    <3>2. QED
      BY <1>6, <1>8, <1>12, <2>1, <3>1, Zenon DEF Create, Steps
  <2>2. CASE Named(r) = {}
    <3>1. PICK h \in Hosts : /\ sandbox[h] = "unborn"
                             /\ sandbox' = [sandbox EXCEPT ![h] = "booting"]
                             /\ revision' = [revision EXCEPT ![h] = r]
                             /\ Goes(p, "activate", h, FALSE)
                             /\ UNCHANGED <<lease, metadata>>
      BY <1>12, <2>2, Zenon DEF Create
    <3>2. Grows
      BY <1>3, <3>1, Zenon DEF Grows, Born, Running, ProviderTypeOK
    <3>3. HostsInv'
      BY <1>3, <2>2, <3>1, Zenon DEF HostsInv, Running, Named, ProviderTypeOK
    <3>4. Known(h)' /\ revision'[h] = r
      BY <1>3, <3>1, Zenon DEF Known, Born, ProviderTypeOK
    <3>5. ProcessInv(p)' /\ process' \in [Processes -> ProviderProcess]
      BY <1>1, <1>3, <3>1, <3>2, <3>4, GoingOn, Zenon DEF Steps
    <3>6. QED
      BY <1>2, <1>3, <1>5, <3>1, <3>2, <3>3, <3>5, Zenon DEF ProviderTypeOK
  <2>3. QED
    BY <2>1, <2>2, Zenon
<1>13. CASE Activate(p)
  <2>1. Known(progress.host) /\ revision[progress.host] = r
    BY <1>2, <1>13, Zenon DEF Activate, Working
  <2>2. CASE sandbox[progress.host] = "ready"
    BY <1>3, <1>6, <1>8, <1>13, <2>1, <2>2, Zenon DEF Activate, hosts, Steps, Known
  <2>3. CASE sandbox[progress.host] # "ready"
    <3>1. Terminate({progress.host}) /\ UNCHANGED <<revision, lease>> /\ Answer(p, NoHost)
      BY <1>13, <2>3, Zenon DEF Activate
    <3>2. Grows /\ HostsInv' /\ sandbox' \in [Hosts -> {"unborn", "booting", "ready", "gone"}]
          /\ metadata' \subseteq Hosts
      BY <1>3, <2>1, <3>1, TerminateGrows, Zenon DEF Known
    <3>3. QED
      BY <1>1, <1>3, <1>5, <3>1, <3>2, Answering, Zenon DEF ProviderTypeOK
  <2>4. QED
    BY <2>2, <2>3, Zenon
<1>14. CASE WriteMetadata(p)
  <2>1. PICK h \in Hosts : h = progress.host /\ Known(h) /\ revision[h] = r
    BY <1>2, <1>14, Zenon DEF WriteMetadata, Working, Known
  <2>2. at[holder[p]] # "asking"
    BY <1>2, <1>14, Zenon DEF WriteMetadata, Working
  <2>3. UNCHANGED <<sandbox, revision, lease>> /\ metadata' \subseteq Hosts
        /\ (Answer(p, h) \/ Answer(p, NoHost))
    BY <1>3, <1>14, <2>1, Zenon DEF WriteMetadata, ProviderTypeOK
  <2>4. Grows /\ HostsInv' /\ Known(h)'
    BY <1>3, <2>1, <2>3, Zenon DEF Grows, HostsInv, Known, Born, Running
  <2>5. ProcessInv(p)' /\ process' \in [Processes -> ProviderProcess]
    BY <1>1, <1>3, <2>1, <2>2, <2>3, <2>4, Answering, Zenon
  <2>6. QED
    BY <1>3, <1>5, <2>3, <2>4, <2>5, Zenon DEF ProviderTypeOK
<1>15. CASE PublicHostRoute(p)
  <2>1. CASE Named(r) = {}
    BY <1>6, <1>7, <1>15, <2>1, Zenon DEF PublicHostRoute
  <2>2. CASE Named(r) # {}
    <3>1. PICK h \in Hosts : h = (CHOOSE g \in Named(r) : TRUE) /\ Known(h) /\ Running(h) /\ revision[h] = r
      BY <2>2, Found, Zenon DEF Known
    <3>2. (at[holder[p]] = "asking" /\ Running(found[holder[p]])
              /\ revision[found[holder[p]]] = r) => h = found[holder[p]]
      BY <1>2, <1>3, <3>1, Zenon DEF HostsInv, Known
    <3>3. QED
      BY <1>6, <1>7, <1>15, <2>2, <3>1, <3>2, Zenon DEF PublicHostRoute
  <2>3. QED
    BY <2>1, <2>2, Zenon
<1>16. CASE TerminateHosts(p)
  <2>1. Terminate(Named(r)) /\ UNCHANGED <<revision, lease>> /\ Answer(p, NoHost)
    BY <1>16, Zenon DEF TerminateHosts
  <2>2. Grows /\ HostsInv' /\ sandbox' \in [Hosts -> {"unborn", "booting", "ready", "gone"}]
        /\ metadata' \subseteq Hosts
    BY <1>3, <2>1, TerminateGrows, Zenon DEF Named, Born, Running
  <2>3. QED
    BY <1>1, <1>3, <1>5, <2>1, <2>2, Answering, Zenon DEF ProviderTypeOK
<1>17. CASE ModalFails(p)
  BY <1>6, <1>7, <1>17, Zenon DEF ModalFails
<1>18. QED
  BY <1>9, <1>10, <1>11, <1>12, <1>13, <1>14, <1>15, <1>16, <1>17, Zenon DEF ProviderStep

\* Steps of hosts and of provider processes keep the invariant.
LEMMA OutsideSafe ==
  ASSUME RoutingInv, RestIdle,
         (\E h \in Hosts : HostStep(h)) \/ (\E p \in Processes : ProviderStep(p) /\ UNCHANGED regained)
  PROVE  RoutingInv'
<1>1. ASSUME Grows, HostsInv', ProviderTypeOK', holder' = holder,
             \A p \in Processes : process'[p] = process[p] \/ ProcessInv(p)',
             regained \subseteq regained', regained' \subseteq Routes
      PROVE  RoutingInv'
  <2>1. CacheInv' /\ EpochInv' /\ RowKnown(placement)' /\ \A c \in Callers : TaskInv(c)'
    BY <1>1, RestStays, Zenon
  <2>2. TypeOK'
    BY <1>1, Zenon DEF RoutingInv, TypeOK, RestIdle, tasks
  <2>3. HoldersInv'
    BY <1>1, Zenon DEF RoutingInv, HoldersInv
  <2>4. ASSUME NEW p \in Processes PROVE ProcessInv(p)'
    <3>1. holder[p] # NoCaller /\ at[holder[p]] = "asking" => Known(found[holder[p]])
      BY DEF RoutingInv, TypeOK, ProviderTypeOK, TaskInv, Routed
    <3>2. CASE process'[p] = process[p]
      BY <1>1, <3>1, <3>2, ProcessStays, Zenon DEF RoutingInv, RestIdle, tasks
    <3>3. QED
      BY <1>1, <3>2, Zenon
  <2>5. QED
    BY <1>1, <2>1, <2>2, <2>3, <2>4, Zenon DEF RoutingInv
<1>2. CASE \E h \in Hosts : HostStep(h)
  BY <1>1, <1>2, HostGrows, Zenon DEF RoutingInv, pool
<1>3. CASE \E p \in Processes : ProviderStep(p) /\ UNCHANGED regained
  BY <1>1, <1>3, ProviderGoes, Zenon DEF RoutingInv, TypeOK
<1>4. QED
  BY <1>2, <1>3, Zenon
-----------------------------------------------------------------------------
(* Tasks of the control plane.                                              *)

\* A step of task c is none of the others.
OthersIdle(c) ==
    \A d \in Callers \ {c} :
        /\ at'[d] = at[d] /\ spec'[d] = spec[d] /\ current'[d] = current[d]
        /\ found'[d] = found[d] /\ route'[d] = route[d]
        /\ d \in regained => d \in regained'

Advances ==
    placement' = placement \/ (placement'.epoch \in Nat /\ placement'.epoch > placement.epoch)

\* What a step of one task leaves as it was.
LEMMA OthersStay ==
  ASSUME RoutingInv, NEW c \in Callers, UNCHANGED hosts, OthersIdle(c), Advances
  PROVE  /\ \A d \in Callers : d # c => TaskInv(d)'
         /\ \A p \in Processes : holder[p] # c /\ holder'[p] = holder[p] /\ process'[p] = process[p]
                => ProcessInv(p)'
<1>1. Grows
  BY HostsStay, Zenon
<1>2. ASSUME NEW d \in Callers, d # c PROVE TaskInv(d)'
  BY <1>1, <1>2, TaskStays, Zenon DEF RoutingInv, OthersIdle, Advances
<1>3. ASSUME NEW p \in Processes, holder[p] # c, holder'[p] = holder[p], process'[p] = process[p]
      PROVE  ProcessInv(p)'
  <2>1. holder[p] # NoCaller => holder[p] \in Callers \ {c}
    BY <1>3, Zenon DEF RoutingInv, TypeOK, ProviderTypeOK
  <2>2. holder[p] # NoCaller /\ at[holder[p]] = "asking" => Known(found[holder[p]])
    BY <2>1, Zenon DEF RoutingInv, TaskInv, Routed
  <2>3. QED
    BY <1>1, <1>3, <2>1, <2>2, ProcessStays, Zenon DEF RoutingInv, OthersIdle
<1>4. QED
  BY <1>2, <1>3, Zenon

\* Rows with the same epoch have the same owner.
LEMMA EpochKept ==
  ASSUME RoutingInv, NEW c \in Callers, OthersIdle(c), \A d \in Callers : TaskInv(d)',
         current'[c] \in {current[c], placement', NoPlacement}
  PROVE  EpochInv'
<1>1. ASSUME NEW d \in Callers, d # c, current'[c].epoch = current'[d].epoch
      PROVE  current'[c].owner = current'[d].owner
  <2>1. CASE current'[c] = current[c]
    BY <1>1, <2>1 DEF RoutingInv, EpochInv, OthersIdle
  <2>2. CASE current'[c] = placement'
    BY <1>1, <2>2, Zenon DEF TaskInv
  <2>3. CASE current'[c] = NoPlacement
    BY <1>1, <2>3 DEF TaskInv, RowKnown, NoPlacement
  <2>4. QED
    BY <2>1, <2>2, <2>3, Zenon
<1>2. QED
  BY <1>1 DEF RoutingInv, EpochInv, OthersIdle

\* Task c goes to a place, with what it knows then.
Moves(c, place, s, row, h, end) ==
    /\ at' = [at EXCEPT ![c] = place] /\ spec' = [spec EXCEPT ![c] = s]
    /\ current' = [current EXCEPT ![c] = row] /\ found' = [found EXCEPT ![c] = h]
    /\ route' = [route EXCEPT ![c] = end] /\ regained' \in {regained, regained \ {c}}

\* The effect of a move on the variables of the tasks.
LEMMA Moved ==
  ASSUME TypeOK, NEW c \in Callers, NEW place \in Places,
         NEW s \in Revisions \cup {NoRevision}, NEW row \in ObjectPlacement,
         NEW h \in Hosts \cup {NoHost}, NEW end \in Hosts \cup {NoHost},
         Moves(c, place, s, row, h, end)
  PROVE  /\ at' \in [Callers -> Places] /\ spec' \in [Callers -> Revisions \cup {NoRevision}]
         /\ current' \in [Callers -> ObjectPlacement] /\ found' \in [Callers -> Hosts \cup {NoHost}]
         /\ route' \in [Callers -> Hosts \cup {NoHost}] /\ OthersIdle(c) /\ regained' \subseteq Routes
         /\ at'[c] = place /\ spec'[c] = s /\ current'[c] = row /\ found'[c] = h /\ route'[c] = end
BY Zenon DEF TypeOK, Moves, OthersIdle

\* The same, without the types.
LEMMA MovedTo ==
  ASSUME TypeOK, NEW c \in Callers, NEW place, NEW s, NEW row, NEW h, NEW end,
         Moves(c, place, s, row, h, end)
  PROVE  at'[c] = place /\ spec'[c] = s /\ current'[c] = row /\ found'[c] = h /\ route'[c] = end
BY Zenon DEF TypeOK, Moves

\* What a task knew it goes on knowing.
LEMMA Kept ==
  ASSUME TypeOK, NEW c \in Callers
  PROVE  /\ spec = [spec EXCEPT ![c] = spec[c]] /\ current = [current EXCEPT ![c] = current[c]]
         /\ found = [found EXCEPT ![c] = found[c]] /\ route = [route EXCEPT ![c] = route[c]]
BY Zenon DEF TypeOK

\* What a task knows that ends.
LEMMA EndMoves ==
  ASSUME TypeOK, NEW c \in Callers, Ends(c), UNCHANGED route
  PROVE  /\ Moves(c, "ended", NoRevision, NoPlacement, NoHost, route[c])
         /\ NoPlacement \in ObjectPlacement /\ route[c] \in Hosts \cup {NoHost}
BY Zenon DEF TypeOK, Moves, Ends, Goto, NoPlacement, ObjectPlacement

\* Nothing is asked of it.
LEMMA EndedKnows ==
  ASSUME RoutingInv, NEW c \in Callers, UNCHANGED placement,
         at'[c] = "ended", current'[c] = NoPlacement
  PROVE  TaskInv(c)'
<1>1. RowKnown(NoPlacement)'
  BY Zenon DEF RowKnown, NoPlacement
<1>2. NoPlacement.epoch <= placement'.epoch /\ (NoPlacement.epoch = placement'.epoch => NoPlacement = placement')
  BY DEF RoutingInv, RowKnown, NoPlacement, TypeOK, ObjectPlacement
<1>3. ~Routed(c)'
  BY Zenon DEF Routed
<1>4. QED
  BY <1>1, <1>2, <1>3, Zenon DEF TaskInv

\* A step of a task that has no process, before or after.
LEMMA TaskAlone ==
  ASSUME RoutingInv, NEW c \in Callers, UNCHANGED <<hosts, pool, publicRoutes>>,
         deployment' \in Revisions \cup {NoRevision}, placement' \in ObjectPlacement,
         Advances, RowKnown(placement)', at[c] \notin Exchanging,
         NEW place \in Places \ Exchanging, NEW s \in Revisions \cup {NoRevision},
         NEW row \in ObjectPlacement, NEW h \in Hosts \cup {NoHost},
         NEW end \in Hosts \cup {NoHost}, Moves(c, place, s, row, h, end),
         row \in {current[c], placement', NoPlacement}, TaskInv(c)'
  PROVE  RoutingInv'
<1>1. /\ at' \in [Callers -> Places] /\ spec' \in [Callers -> Revisions \cup {NoRevision}]
      /\ current' \in [Callers -> ObjectPlacement] /\ found' \in [Callers -> Hosts \cup {NoHost}]
      /\ route' \in [Callers -> Hosts \cup {NoHost}] /\ OthersIdle(c) /\ regained' \subseteq Routes
      /\ at'[c] = place /\ current'[c] = row
  BY Moved, Zenon DEF RoutingInv
<1>2. \A p \in Processes : holder[p] # c
  BY Zenon DEF RoutingInv, TypeOK
<1>3. /\ \A d \in Callers : TaskInv(d)'
      /\ \A p \in Processes : ProcessInv(p)'
  BY <1>1, <1>2, OthersStay, Zenon DEF pool
<1>4. EpochInv'
  BY <1>1, <1>3, EpochKept, Zenon
<1>5. HostsInv' /\ HoldersInv' /\ CacheInv'
  BY Zenon DEF RoutingInv, HostsInv, HoldersInv, CacheInv, Born, Running, hosts, pool
<1>6. \A d \in Callers : at'[d] \in Exchanging <=> \E p \in Processes : holder'[p] = d
  BY <1>1, <1>2, Zenon DEF RoutingInv, TypeOK, OthersIdle, pool
<1>7. ProviderTypeOK' /\ publicRoutes' \in [Hosts -> Hosts \cup {NoHost}]
  BY Zenon DEF RoutingInv, TypeOK, ProviderTypeOK, hosts, pool
<1>8. TypeOK'
  BY <1>1, <1>6, <1>7, Zenon DEF TypeOK
<1>9. QED
  BY <1>3, <1>4, <1>5, <1>8, Zenon DEF RoutingInv

\* A step that leaves hosts and rows alone.
LEMMA RowsStay ==
  ASSUME RoutingInv, UNCHANGED hosts, UNCHANGED placement
  PROVE  /\ Advances /\ RowKnown(placement)' /\ placement' \in ObjectPlacement
         /\ \A row : RowKnown(row) => RowKnown(row)'
<1>1. \A row : RowKnown(row) => RowKnown(row)'
  BY HostsStay, RowStaysKnown, Zenon
<1>2. QED
  BY <1>1, Zenon DEF Advances, RoutingInv, TypeOK

\* A registration: the previous deployment is read, and the new one stored.
LEMMA RegistrationSafe ==
  ASSUME RoutingInv, NEW a \in Admins, ReadPrevious(a) \/ Upsert(a)
  PROVE  RoutingInv'
<1>0. a \in Callers /\ a \notin Routes /\ TypeOK /\ TaskInv(a)
  BY TasksAssumption, Zenon DEF RoutingInv
<1>1. UNCHANGED <<hosts, pool, publicRoutes, placement, route>> /\ UNCHANGED hosts /\ UNCHANGED placement
  BY Zenon DEF ReadPrevious, Upsert, Quiet
<1>2. /\ Advances /\ RowKnown(placement)' /\ placement' \in ObjectPlacement
      /\ \A row : RowKnown(row) => RowKnown(row)'
  BY <1>0, <1>1, RowsStay, Zenon
<1>3. /\ current[a] \in ObjectPlacement /\ found[a] \in Hosts \cup {NoHost}
      /\ route[a] \in Hosts \cup {NoHost} /\ spec[a] \in Revisions \cup {NoRevision}
      /\ deployment \in Revisions \cup {NoRevision}
  BY <1>0, Zenon DEF TypeOK
<1>4. ASSUME NEW place \in {"upsert", "provide"}, NEW s \in Revisions \cup {NoRevision},
             place = "upsert" \/ s # NoRevision, at[a] \notin Exchanging,
             Moves(a, place, s, current[a], found[a], route[a]),
             deployment' \in Revisions \cup {NoRevision}
      PROVE  RoutingInv'
  <2>1. place \in Places \ Exchanging
    BY Zenon DEF Places, Exchanging
  <2>2. at'[a] = place /\ spec'[a] = s /\ current'[a] = current[a]
    BY <1>0, <1>4, MovedTo, Zenon
  <2>3. ~Routed(a)'
    BY <2>2, Zenon DEF Routed
  <2>4. TaskInv(a)'
    BY <1>0, <1>1, <1>2, <1>4, <2>2, <2>3, Zenon DEF TaskInv
  <2>5. QED
    BY <1>0, <1>1, <1>2, <1>3, <1>4, <2>1, <2>4, TaskAlone, Zenon
<1>5. CASE ReadPrevious(a)
  <2>1. Moves(a, "upsert", deployment, current[a], found[a], route[a])
    BY <1>0, <1>1, <1>5, Kept, Zenon DEF ReadPrevious, Goto, Quiet, Moves
  <2>2. QED
    BY <1>3, <1>4, <1>5, <2>1, Zenon DEF ReadPrevious, Exchanging
<1>6. CASE Upsert(a)
  <2>1. at[a] = "upsert" /\ at[a] \notin Exchanging /\ deployment' \in Revisions
    BY <1>6, DeploysAssumption, Zenon DEF Upsert, Exchanging
  <2>2. CASE Goto(a, "provide") /\ UNCHANGED <<spec, current, found, regained>> /\ spec[a] # NoRevision
    <3>1. Moves(a, "provide", spec[a], current[a], found[a], route[a])
      BY <1>0, <1>1, <2>2, Kept, Zenon DEF Goto, Moves
    <3>2. QED
      BY <1>3, <1>4, <2>1, <2>2, <3>1, Zenon
  <2>3. CASE Ends(a)
    <3>1. /\ Moves(a, "ended", NoRevision, NoPlacement, NoHost, route[a])
          /\ NoPlacement \in ObjectPlacement
      BY <1>0, <1>1, <2>3, EndMoves, Zenon
    <3>2. "ended" \in Places \ Exchanging
      BY Zenon DEF Places, Exchanging
    <3>3. at'[a] = "ended" /\ current'[a] = NoPlacement
      BY <1>0, <1>3, <3>1, <3>2, Moved, Zenon
    <3>4. TaskInv(a)'
      BY <1>0, <1>1, <3>3, EndedKnows, Zenon
    <3>5. QED
      BY <1>0, <1>1, <1>2, <1>3, <2>1, <3>1, <3>2, <3>4, TaskAlone, Zenon
  <2>4. QED
    BY <1>6, <2>2, <2>3, Zenon DEF Upsert
<1>7. QED
  BY <1>5, <1>6, Zenon

\* The loop of route_actor, and the route of the host it finds.
LEMMA RouteActorSafe ==
  ASSUME RoutingInv, NEW r \in Routes,
         LoadSpec(r) \/ Get(r) \/ Check(r) \/ Validate(r) \/ Claim(r) \/ Reread(r) \/ SelectRoute(r)
  PROVE  RoutingInv'
<1>0. r \in Callers /\ r \notin Admins /\ TypeOK /\ TaskInv(r) /\ RowKnown(placement)
  BY TasksAssumption, Zenon DEF RoutingInv
<1>1. UNCHANGED <<hosts, pool, publicRoutes>> /\ UNCHANGED hosts /\ UNCHANGED deployment
      /\ UNCHANGED <<revision, lease>>
  BY Zenon DEF LoadSpec, Get, Check, Validate, Claim, Reread, SelectRoute, Quiet, hosts
<1>2. /\ \A row : RowKnown(row) => RowKnown(row)'
      /\ \A h : Known(h)' <=> Known(h)
      /\ \A h : Running(h)' <=> Running(h)
      /\ \A h, v : Serves(h, v)' <=> Serves(h, v)
  <2>1. \A row : RowKnown(row) => RowKnown(row)'
    BY <1>1, HostsStay, RowStaysKnown, Zenon
  <2>2. QED
    BY <1>1, <2>1, Zenon DEF Known, Born, Running, Serves, HostMatchesRevision, hosts
<1>3. /\ current[r] \in ObjectPlacement /\ found[r] \in Hosts \cup {NoHost}
      /\ route[r] \in Hosts \cup {NoHost} /\ spec[r] \in Revisions \cup {NoRevision}
      /\ deployment' \in Revisions \cup {NoRevision} /\ placement \in ObjectPlacement
      /\ deployment \in Revisions \cup {NoRevision}
  BY <1>0, <1>1, Zenon DEF TypeOK
<1>4. at[r] \notin Exchanging
  BY Zenon DEF LoadSpec, Get, Check, Validate, Claim, Reread, SelectRoute, Exchanging
<1>5. ASSUME NEW place \in Places \ Exchanging, NEW s \in Revisions \cup {NoRevision},
             NEW row \in ObjectPlacement, NEW h \in Hosts \cup {NoHost},
             NEW end \in Hosts \cup {NoHost}, Moves(r, place, s, row, h, end),
             UNCHANGED placement, row \in {current[r], placement, NoPlacement}, TaskInv(r)'
      PROVE  RoutingInv'
  <2>1. Advances /\ RowKnown(placement)' /\ placement' \in ObjectPlacement
    BY <1>1, <1>5, RowsStay, Zenon
  <2>2. QED
    BY <1>0, <1>1, <1>3, <1>4, <1>5, <2>1, TaskAlone, Zenon
<1>6. /\ NoPlacement \in ObjectPlacement
      /\ {"ended", "get", "check", "routed", "provide", "claim", "reread", "lookup", "resolved"}
           \subseteq Places \ Exchanging
  BY Zenon DEF NoPlacement, ObjectPlacement, Places, Exchanging
<1>7. CASE LoadSpec(r)
  <2>1. PICK place \in {"ended", "get"} :
           /\ Moves(r, place, deployment, current[r], found[r], route[r])
           /\ place = "get" => deployment # NoRevision
    BY <1>0, <1>7, Kept, Zenon DEF LoadSpec, Goto, Quiet, Moves
  <2>2. UNCHANGED placement
    BY <1>7, Zenon DEF LoadSpec, Quiet
  <2>3. at'[r] = place /\ spec'[r] = deployment /\ current'[r] = current[r] /\ ~Routed(r)'
    BY <1>0, <2>1, MovedTo DEF Routed
  <2>4. TaskInv(r)'
    BY <1>0, <1>2, <2>1, <2>2, <2>3, Zenon DEF TaskInv
  <2>5. QED
    BY <1>3, <1>5, <1>6, <2>1, <2>2, <2>4, Zenon
<1>8. CASE Get(r)
  <2>1. Moves(r, "check", spec[r], placement, found[r], route[r]) /\ UNCHANGED placement /\ at[r] = "get"
    BY <1>0, <1>8, Kept, Zenon DEF Get, Goto, Moves
  <2>2. at'[r] = "check" /\ spec'[r] = spec[r] /\ current'[r] = placement /\ ~Routed(r)'
    BY <1>0, <2>1, MovedTo DEF Routed
  <2>3. TaskInv(r)'
    BY <1>0, <1>2, <1>3, <2>1, <2>2 DEF TaskInv, ObjectPlacement
  <2>4. QED
    BY <1>3, <1>5, <1>6, <2>1, <2>3, Zenon
<1>9. CASE Check(r)
  <2>0. UNCHANGED placement /\ at[r] = "check" /\ current[r].owner \in Hosts \cup {NoHost}
    BY <1>3, <1>9, Zenon DEF Check, ObjectPlacement
  <2>1. CASE Serves(current[r].owner, spec[r])
    <3>1. Moves(r, "routed", spec[r], current[r], current[r].owner, route[r])
      BY <1>0, <1>9, <2>1, Kept, Zenon DEF Check, Goto, Moves, Serves
    <3>2. /\ at'[r] = "routed" /\ spec'[r] = spec[r] /\ current'[r] = current[r]
          /\ found'[r] = current[r].owner
      BY <1>0, <3>1, MovedTo, Zenon
    <3>3. Known(current[r].owner) /\ (Prefixes = {} => revision[current[r].owner] = spec[r])
      BY <1>0, <2>1, Zenon DEF TaskInv, RowKnown, Serves, HostMatchesRevision
    <3>4. TaskInv(r)'
      BY <1>0, <1>1, <1>2, <2>0, <3>2, <3>3, Zenon DEF TaskInv, Routed
    <3>5. QED
      BY <1>3, <1>5, <1>6, <2>0, <3>1, <3>4, Zenon
  <2>2. CASE ~Serves(current[r].owner, spec[r])
    <3>1. Moves(r, "provide", spec[r], current[r], found[r], route[r])
      BY <1>0, <1>9, <2>2, Kept, Zenon DEF Check, Goto, Moves, Serves
    <3>2. at'[r] = "provide" /\ spec'[r] = spec[r] /\ current'[r] = current[r] /\ ~Routed(r)'
      BY <1>0, <3>1, MovedTo DEF Routed
    <3>3. TaskInv(r)'
      BY <1>0, <1>2, <2>0, <2>2, <3>2, Zenon DEF TaskInv
    <3>4. QED
      BY <1>3, <1>5, <1>6, <2>0, <3>1, <3>3, Zenon
  <2>3. QED
    BY <2>1, <2>2, Zenon
<1>10. CASE Validate(r)
  <2>0. UNCHANGED placement /\ at[r] = "validate" /\ UNCHANGED route
    BY <1>10, Zenon DEF Validate
  <2>1. CASE lease[found[r]] = "active"
    <3>1. Moves(r, "claim", spec[r], current[r], found[r], route[r])
      BY <1>0, <1>10, <2>1, Kept, Zenon DEF Validate, Goto, Moves
    <3>2. /\ at'[r] = "claim" /\ spec'[r] = spec[r] /\ current'[r] = current[r]
          /\ found'[r] = found[r] /\ ~Routed(r)'
      BY <1>0, <3>1, MovedTo DEF Routed
    <3>a. r \in regained => r \in regained'
      BY <1>10, <2>1, Zenon DEF Validate
    <3>3. TaskInv(r)'
      BY <1>0, <1>1, <1>2, <2>0, <2>1, <3>2, <3>a, Zenon DEF TaskInv
    <3>4. QED
      BY <1>3, <1>5, <1>6, <2>0, <3>1, <3>3, Zenon
  <2>2. CASE Ends(r)
    <3>1. Moves(r, "ended", NoRevision, NoPlacement, NoHost, route[r])
      BY <1>0, <2>0, <2>2, EndMoves, Zenon
    <3>2. at'[r] = "ended" /\ current'[r] = NoPlacement
      BY <1>0, <3>1, MovedTo, Zenon
    <3>3. TaskInv(r)'
      BY <1>0, <2>0, <3>2, EndedKnows, Zenon
    <3>4. QED
      BY <1>3, <1>5, <1>6, <2>0, <3>1, <3>3, Zenon
  <2>3. QED
    BY <1>10, <2>1, <2>2, Zenon DEF Validate
<1>11. CASE Claim(r)
  <2>0. at[r] = "claim" /\ Known(found[r]) /\ found[r] \in Hosts /\ lease[found[r]] # "none"
    BY <1>0, <1>11, Zenon DEF Claim, TaskInv, Known
  <2>1. CASE current[r].owner # found[r] /\ ClaimMatches(placement, current[r])
    <3>1. /\ Moves(r, "routed", spec[r], placement', found[r], route[r])
          /\ placement' = Claimed(placement, found[r])
      BY <1>0, <1>11, <2>1, Kept, Zenon DEF Claim, Goto, Moves
    <3>2. placement' \in ObjectPlacement /\ placement'.epoch = placement.epoch + 1
          /\ placement'.owner = found[r]
      BY <1>3, <2>0, <3>1 DEF Claimed, ObjectPlacement
    <3>3. placement.epoch \in Nat /\ placement'.epoch \in Nat /\ Advances
      BY <1>3, <3>2 DEF Advances, ObjectPlacement
    <3>4. /\ at'[r] = "routed" /\ spec'[r] = spec[r] /\ current'[r] = placement' /\ found'[r] = found[r]
      BY <1>0, <3>1, MovedTo, Zenon
    <3>5. RowKnown(placement)'
      BY <1>1, <1>2, <2>0, <3>2, <3>3 DEF RowKnown
    <3>6. TaskInv(r)'
      <4>1. placement'.epoch <= placement'.epoch
        BY <3>3
      <4>2. QED
        BY <1>0, <1>1, <1>2, <2>0, <3>2, <3>4, <3>5, <4>1, Zenon DEF TaskInv, Routed
    <3>7. QED
      BY <1>0, <1>1, <1>3, <1>4, <1>6, <3>1, <3>2, <3>3, <3>5, <3>6, TaskAlone, Zenon
  <2>2. CASE ~(current[r].owner # found[r] /\ ClaimMatches(placement, current[r]))
    <3>1. Moves(r, "reread", spec[r], current[r], found[r], route[r]) /\ UNCHANGED placement
      BY <1>0, <1>11, <2>2, Kept, Zenon DEF Claim, Goto, Moves
    <3>2. /\ at'[r] = "reread" /\ spec'[r] = spec[r] /\ current'[r] = current[r]
          /\ found'[r] = found[r] /\ ~Routed(r)'
      BY <1>0, <3>1, MovedTo DEF Routed
    <3>3. current[r].owner = found[r] \/ current[r].epoch < placement.epoch
      <4>1. current[r].epoch \in Nat /\ placement.epoch \in Nat /\ current[r].epoch <= placement.epoch
        BY <1>0, <1>3 DEF TaskInv, ObjectPlacement
      <4>2. current[r].owner = found[r] \/ current[r].epoch # placement.epoch
        BY <1>0, <2>2, Zenon DEF ClaimMatches, TaskInv
      <4>3. QED
        BY <4>1, <4>2
    <3>4. TaskInv(r)'
      BY <1>0, <1>1, <1>2, <2>0, <3>1, <3>2, <3>3, Zenon DEF TaskInv
    <3>5. QED
      BY <1>3, <1>5, <1>6, <3>1, <3>4, Zenon
  <2>3. QED
    BY <2>1, <2>2, Zenon
<1>12. CASE Reread(r)
  <2>0. UNCHANGED placement /\ at[r] = "reread" /\ Known(found[r])
    BY <1>0, <1>12, Zenon DEF Reread, TaskInv
  <2>1. CASE placement.owner = found[r]
    <3>1. Moves(r, "routed", spec[r], placement, found[r], route[r])
      BY <1>0, <1>12, <2>1, Kept, Zenon DEF Reread, Goto, Moves
    <3>2. /\ at'[r] = "routed" /\ spec'[r] = spec[r] /\ current'[r] = placement /\ found'[r] = found[r]
      BY <1>0, <3>1, MovedTo, Zenon
    <3>a. placement.epoch <= placement.epoch
      BY <1>3 DEF ObjectPlacement
    <3>3. TaskInv(r)'
      BY <1>0, <1>1, <1>2, <2>0, <2>1, <3>2, <3>a, Zenon DEF TaskInv, Routed
    <3>4. QED
      BY <1>3, <1>5, <1>6, <2>0, <3>1, <3>3, Zenon
  <2>2. CASE placement.owner # found[r]
    <3>1. Moves(r, "get", spec[r], current[r], found[r], route[r])
      BY <1>0, <1>12, <2>2, Kept, Zenon DEF Reread, Goto, Moves
    <3>2. at'[r] = "get" /\ spec'[r] = spec[r] /\ current'[r] = current[r] /\ ~Routed(r)'
      BY <1>0, <3>1, MovedTo DEF Routed
    <3>3. TaskInv(r)'
      BY <1>0, <1>2, <2>0, <3>2, Zenon DEF TaskInv
    <3>4. QED
      BY <1>3, <1>5, <1>6, <2>0, <3>1, <3>3, Zenon
  <2>3. QED
    BY <2>1, <2>2, Zenon
<1>13. CASE SelectRoute(r)
  <2>0. /\ UNCHANGED placement /\ at[r] = "routed" /\ Known(found[r]) /\ current[r].owner = found[r]
        /\ Prefixes = {} => revision[found[r]] = spec[r]
    BY <1>0, <1>13, Zenon DEF SelectRoute, TaskInv, Routed
  <2>1. PICK place \in {"resolved", "lookup"}, end \in Hosts \cup {NoHost} :
           /\ Moves(r, place, spec[r], current[r], found[r], end)
           /\ Prefixes = {} /\ place = "resolved" /\ Running(found[r]) => end = found[r]
    <3>1. CASE Resolved(r, found[r])
      BY <1>0, <1>3, <1>13, <3>1, Kept, Zenon DEF SelectRoute, Resolved, Goto, Moves
    <3>2. CASE Resolved(r, CachedRoute(found[r])) /\ CachedRoute(found[r]) # NoHost
      <4>1. CachedRoute(found[r]) \in Hosts \cup {NoHost}
            /\ (Prefixes = {} /\ Running(found[r]) => CachedRoute(found[r]) = found[r])
        BY <1>0, <2>0, <3>2, Zenon DEF CachedRoute, RoutingInv, CacheInv, Known, TypeOK
      <4>2. QED
        BY <1>0, <1>3, <1>13, <3>2, <4>1, Kept, Zenon DEF SelectRoute, Resolved, Goto, Moves
    <3>3. CASE Goto(r, "lookup") /\ UNCHANGED route
      BY <1>0, <1>3, <1>13, <3>3, Kept, Zenon DEF SelectRoute, Goto, Moves
    <3>4. QED
      BY <1>13, <3>1, <3>2, <3>3, Zenon DEF SelectRoute
  <2>2. /\ at'[r] = place /\ spec'[r] = spec[r] /\ current'[r] = current[r] /\ found'[r] = found[r]
        /\ route'[r] = end
    BY <1>0, <2>1, MovedTo, Zenon
  <2>3. TaskInv(r)'
    BY <1>0, <1>1, <1>2, <2>0, <2>1, <2>2, Zenon DEF TaskInv, Routed
  <2>4. QED
    BY <1>3, <1>5, <1>6, <2>0, <2>1, <2>3, Zenon
<1>14. QED
  BY <1>7, <1>8, <1>9, <1>10, <1>11, <1>12, <1>13, Zenon

\* On its way to a place, task c leases process p, or leaves it.
LeaseMoves(c, p, task, place) ==
    \/ holder[p] = NoCaller /\ task = c /\ place \in Exchanging /\ at[c] \notin Exchanging
    \/ holder[p] = c /\ task = NoCaller /\ place \notin Exchanging

\* A step of a task that leases a process, or leaves the one it has.
LEMMA TaskLeases ==
  ASSUME RoutingInv, NEW c \in Callers, UNCHANGED <<hosts, deployment, placement>>,
         publicRoutes' \in [Hosts -> Hosts \cup {NoHost}], CacheInv',
         NEW place \in Places, NEW s \in Revisions \cup {NoRevision},
         NEW row \in {current[c], NoPlacement}, NEW h \in Hosts \cup {NoHost},
         NEW end \in Hosts \cup {NoHost}, Moves(c, place, s, row, h, end), TaskInv(c)',
         NEW p \in Processes, NEW task, NEW z \in ProviderProcess,
         holder' = [holder EXCEPT ![p] = task], process' = [process EXCEPT ![p] = z],
         LeaseMoves(c, p, task, place), ProcessInv(p)'
  PROVE  RoutingInv'
<1>0. TypeOK /\ ProviderTypeOK /\ HoldersInv /\ UNCHANGED hosts /\ UNCHANGED placement
  BY Zenon DEF RoutingInv, TypeOK
<1>1. row \in ObjectPlacement
  BY <1>0 DEF TypeOK, NoPlacement, ObjectPlacement
<1>2. /\ at' \in [Callers -> Places] /\ spec' \in [Callers -> Revisions \cup {NoRevision}]
      /\ current' \in [Callers -> ObjectPlacement] /\ found' \in [Callers -> Hosts \cup {NoHost}]
      /\ route' \in [Callers -> Hosts \cup {NoHost}] /\ OthersIdle(c) /\ regained' \subseteq Routes
      /\ at'[c] = place /\ current'[c] = row
  BY <1>0, <1>1, Moved, Zenon
<1>3. Advances /\ RowKnown(placement)' /\ placement' \in ObjectPlacement
  BY <1>0, RowsStay, Zenon
<1>4. /\ holder' \in [Processes -> Callers \cup {NoCaller}] /\ holder'[p] = task
      /\ process' \in [Processes -> ProviderProcess]
      /\ \A q \in Processes : q # p => /\ holder'[q] = holder[q] /\ process'[q] = process[q]
                                       /\ holder[q] # c
  <2>1. task \in Callers \cup {NoCaller}
    BY Zenon DEF LeaseMoves
  <2>2. \A q \in Processes : q # p => holder[q] # c
    BY <1>0, CallersAssumption, Zenon DEF TypeOK, HoldersInv, LeaseMoves
  <2>3. QED
    BY <1>0, <2>1, <2>2, Zenon DEF ProviderTypeOK
<1>5. \A d \in Callers : at'[d] \in Exchanging <=> \E q \in Processes : holder'[q] = d
  <2>1. ASSUME NEW d \in Callers, d # c
        PROVE  at'[d] \in Exchanging <=> \E q \in Processes : holder'[q] = d
    <3>1. (\E q \in Processes : holder'[q] = d) <=> (\E q \in Processes : holder[q] = d)
      BY <1>4, <2>1, CallersAssumption, Zenon DEF LeaseMoves
    <3>2. QED
      BY <1>0, <1>2, <2>1, <3>1, Zenon DEF TypeOK, OthersIdle
  <2>2. at'[c] \in Exchanging <=> \E q \in Processes : holder'[q] = c
    BY <1>2, <1>4, CallersAssumption, Zenon DEF LeaseMoves
  <2>3. QED
    BY <2>1, <2>2, Zenon
<1>6. ProviderTypeOK'
  BY <1>0, <1>4, Zenon DEF ProviderTypeOK, hosts
<1>7. TypeOK'
  BY <1>0, <1>2, <1>3, <1>5, <1>6, Zenon DEF TypeOK
<1>8. /\ \A d \in Callers : TaskInv(d)'
      /\ \A q \in Processes : ProcessInv(q)'
  BY <1>0, <1>2, <1>3, <1>4, OthersStay, Zenon
<1>9. EpochInv'
  BY <1>2, <1>8, EpochKept, Zenon
<1>10. HostsInv'
  BY <1>0, Zenon DEF RoutingInv, HostsInv, Running, hosts
<1>11. HoldersInv'
  BY <1>0, <1>4, Zenon DEF HoldersInv, LeaseMoves
<1>12. QED
  BY <1>3, <1>7, <1>8, <1>9, <1>10, <1>11, Zenon DEF RoutingInv

\* A task leases a process and writes its command (Provide).
LEMMA ProvideSafe ==
  ASSUME RoutingInv, NEW c \in Callers, Provide(c)
  PROVE  RoutingInv'
<1>0. /\ TypeOK /\ TaskInv(c) /\ UNCHANGED hosts /\ UNCHANGED placement
      /\ UNCHANGED <<hosts, deployment, placement>>
  BY Zenon DEF RoutingInv, Provide, Exchange
<1>1. PICK p \in Processes :
         /\ holder[p] = NoCaller /\ holder' = [holder EXCEPT ![p] = c]
         /\ process' = [process EXCEPT ![p] = Written(process[p],
                           [by |-> c, revision |-> spec[c], operation |-> Operation(c)])]
  BY Zenon DEF Provide, Exchange
<1>c. PICK command : command = [by |-> c, revision |-> spec[c], operation |-> Operation(c)]
  BY Zenon
<1> DEFINE place == IF at[c] = "provide" THEN "exchange" ELSE "asking"
           next == [busy |-> TRUE, input |-> <<command>>, output |-> <<>>, at |-> NewProcess.at]
<1>2. at[c] \in {"provide", "lookup"} /\ at[c] \notin Exchanging /\ place \in Exchanging /\ place \in Places
  BY Zenon DEF Provide, Exchanging, Places
<1>3. Moves(c, place, spec[c], current[c], found[c], route[c])
  BY <1>0, Kept, Zenon DEF Provide, Goto, Moves
<1>4. /\ at'[c] = place /\ spec'[c] = spec[c] /\ current'[c] = current[c] /\ found'[c] = found[c]
      /\ route'[c] = route[c]
  BY <1>0, <1>3, MovedTo
<1>5. /\ spec[c] \in Revisions \cup {NoRevision} /\ found[c] \in Hosts \cup {NoHost}
      /\ route[c] \in Hosts \cup {NoHost} /\ spec[c] \in Revisions
  BY <1>0, <1>2, Zenon DEF TypeOK, TaskInv
<1>6. command \in Command
  BY <1>5, <1>c, Zenon DEF Command, Operation, Operations
<1>7. Written(process[p], command) = next
  <2>1. process[p] = NewProcess
    BY <1>1, Zenon DEF RoutingInv, ProcessInv
  <2>2. Recycled(process[p]) = NewProcess
    BY <2>1, Zenon DEF Recycled
  <2>3. Append(NewProcess.input, command) = <<command>>
    BY DEF NewProcess
  <2>4. QED
    BY <2>2, <2>3 DEF Written, NewProcess
<1>8. next \in ProviderProcess
  BY <1>6 DEF ProviderProcess, NewProcess, AtStep, Progress, Steps
<1>9. ProcessInv(p)'
  <2>1. process'[p] = next /\ holder'[p] = c
    BY <1>0, <1>1, <1>7, <1>c, Zenon DEF TypeOK, ProviderTypeOK
  <2>2. Asked(c, command)'
    BY <1>0, <1>2, <1>4, <1>c, TasksAssumption, Zenon DEF Asked, CommandOf, Operation, TaskInv
  <2>3. Progressing(next.at, command)'
    BY Zenon DEF Progressing, NewProcess, AtStep
  <2>4. QED
    BY <1>6, <2>1, <2>2, <2>3, CallersAssumption DEF ProcessInv
<1>10. TaskInv(c)'
  <2>1. /\ \A row : RowKnown(row) => RowKnown(row)'
        /\ \A h : Known(h)' <=> Known(h)
        /\ \A h, v : Serves(h, v)' <=> Serves(h, v)
        /\ UNCHANGED <<revision, lease>>
    <3>1. \A row : RowKnown(row) => RowKnown(row)'
      BY <1>0, HostsStay, RowStaysKnown, Zenon
    <3>2. QED
      BY <1>0, <3>1, Zenon DEF Known, Born, Serves, HostMatchesRevision, hosts
  <2>a. regained' = regained
    BY Zenon DEF Provide
  <2>2. CASE at[c] = "provide"
    BY <1>0, <1>4, <2>1, <2>2, <2>a, Zenon DEF TaskInv, Routed
  <2>3. CASE at[c] = "lookup"
    BY <1>0, <1>4, <2>1, <2>3, Zenon DEF TaskInv, Routed
  <2>4. QED
    BY <1>2, <2>2, <2>3, Zenon
<1>11. publicRoutes' \in [Hosts -> Hosts \cup {NoHost}] /\ CacheInv'
  BY <1>0, Zenon DEF Provide, TypeOK, RoutingInv, CacheInv, hosts, Born, Running
<1>12. QED
  <2> HIDE DEF place, next
  <2>1. process' = [process EXCEPT ![p] = next]
    BY <1>1, <1>7, <1>c, Zenon
  <2>2. LeaseMoves(c, p, c, place)
    BY <1>1, <1>2, Zenon DEF LeaseMoves
  <2>3. QED
    BY <1>0, <1>1, <1>2, <1>3, <1>5, <1>8, <1>9, <1>10, <1>11, <2>1, <2>2, TaskLeases, Zenon

\* A reply that is there is to the command of the task, and its last one.
LEMMA ReplyRead ==
  ASSUME RoutingInv, NEW c \in Callers, NEW p \in Processes, holder[p] = c, TakeReply(p)
  PROVE  /\ holder' = [holder EXCEPT ![p] = NoCaller]
         /\ process' = [process EXCEPT ![p] = NewProcess] /\ UNCHANGED hosts
         /\ \E reply \in Reply : reply = Head(process[p].output) /\ Replies(c, reply)
<1>1. PICK reply \in Reply :
         /\ process[p].input = <<>> /\ process[p].output = <<reply>> /\ process[p].busy = TRUE
         /\ process[p].at = NewProcess.at /\ Replies(c, reply)
  BY CallersAssumption, Zenon DEF RoutingInv, ProcessInv, TakeReply
<1>3. Tail(process[p].output) = <<>> /\ Head(process[p].output) = reply
  BY <1>1
<1>4. [busy |-> FALSE, input |-> process[p].input, output |-> Tail(process[p].output),
       at |-> process[p].at] = NewProcess
  BY <1>1, <1>3, Zenon DEF NewProcess
<1>5. QED
  BY <1>1, <1>3, <1>4, Zenon DEF TakeReply, Release

\* A process that is left while its exchange is under way is replaced.
LEMMA LeaseDropped ==
  ASSUME RoutingInv, NEW c \in Callers, NEW p \in Processes, holder[p] = c, DropLease(p)
  PROVE  /\ holder' = [holder EXCEPT ![p] = NoCaller]
         /\ process' = [process EXCEPT ![p] = NewProcess] /\ UNCHANGED hosts
<1>1. process[p].busy = TRUE
  BY CallersAssumption, Zenon DEF RoutingInv, ProcessInv
<1>2. Recycled(process[p]) = NewProcess
  BY <1>1, Zenon DEF Recycled
<1>3. QED
  BY <1>2, Zenon DEF DropLease, Release

\* A task leaves its process, which is free then.
LEMMA TaskReleases ==
  ASSUME RoutingInv, NEW c \in Callers, NEW p \in Processes, holder[p] = c,
         UNCHANGED <<hosts, deployment, placement>>,
         publicRoutes' \in [Hosts -> Hosts \cup {NoHost}], CacheInv',
         NEW place \in Places \ Exchanging, NEW s \in Revisions \cup {NoRevision},
         NEW row \in {current[c], NoPlacement}, NEW h \in Hosts \cup {NoHost},
         NEW end \in Hosts \cup {NoHost}, Moves(c, place, s, row, h, end), TaskInv(c)',
         holder' = [holder EXCEPT ![p] = NoCaller], process' = [process EXCEPT ![p] = NewProcess]
  PROVE  RoutingInv'
<1>1. NewProcess \in ProviderProcess
  BY DEF NewProcess, ProviderProcess, AtStep, Progress, Steps
<1>2. holder'[p] = NoCaller /\ process'[p] = NewProcess
  BY Zenon DEF RoutingInv, TypeOK, ProviderTypeOK
<1>3. ProcessInv(p)'
  BY <1>2, Zenon DEF ProcessInv
<1>4. place \in Places /\ place \notin Exchanging
  BY Zenon
<1>5. LeaseMoves(c, p, NoCaller, place)
  BY <1>4, Zenon DEF LeaseMoves
<1>6. QED
  BY <1>1, <1>3, <1>4, <1>5, TaskLeases, Zenon

\* A task that has a process and ends.
LEMMA EndReleases ==
  ASSUME RoutingInv, NEW c \in Callers, NEW p \in Processes, holder[p] = c, Ends(c),
         UNCHANGED hosts, UNCHANGED <<deployment, placement, publicRoutes, route>>,
         holder' = [holder EXCEPT ![p] = NoCaller], process' = [process EXCEPT ![p] = NewProcess]
  PROVE  RoutingInv'
<1>0. TypeOK
  BY Zenon DEF RoutingInv
<1>1. /\ Moves(c, "ended", NoRevision, NoPlacement, NoHost, route[c])
      /\ route[c] \in Hosts \cup {NoHost}
  BY <1>0, EndMoves, Zenon
<1>2. at'[c] = "ended" /\ current'[c] = NoPlacement
  BY <1>0, <1>1, MovedTo, Zenon
<1>3. TaskInv(c)'
  BY <1>2, EndedKnows, Zenon
<1>4. publicRoutes' \in [Hosts -> Hosts \cup {NoHost}] /\ CacheInv'
  BY <1>0, Zenon DEF TypeOK, RoutingInv, CacheInv, hosts, Born, Running
<1>5. "ended" \in Places \ Exchanging
  BY Zenon DEF Places, Exchanging
<1>6. QED
  BY <1>1, <1>3, <1>4, <1>5, TaskReleases, Zenon

\* The reply to a task, or none (Provided, PublicRoute, TimesOut).
LEMMA ReplySafe ==
  ASSUME RoutingInv, NEW c \in Callers,
         Provided(c) \/ TimesOut(c) \/ (c \in Routes /\ PublicRoute(c))
  PROVE  RoutingInv'
<1>0. TypeOK /\ TaskInv(c)
  BY Zenon DEF RoutingInv
<1>1. UNCHANGED hosts /\ UNCHANGED <<deployment, placement>> /\ UNCHANGED placement
  BY Zenon DEF Provided, TimesOut, PublicRoute, TakeReply, DropLease, Release
<1>2. /\ \A row : RowKnown(row) => RowKnown(row)'
      /\ \A h : Known(h)' <=> Known(h)
      /\ \A h : Running(h)' <=> Running(h)
      /\ \A h, v : Serves(h, v)' <=> Serves(h, v)
      /\ UNCHANGED <<revision, lease>>
  <2>1. \A row : RowKnown(row) => RowKnown(row)'
    BY <1>1, HostsStay, RowStaysKnown, Zenon
  <2>2. QED
    BY <1>1, <2>1, Zenon DEF Known, Born, Running, Serves, HostMatchesRevision, hosts
<1>3. /\ current[c] \in ObjectPlacement /\ found[c] \in Hosts \cup {NoHost}
      /\ route[c] \in Hosts \cup {NoHost} /\ spec[c] \in Revisions \cup {NoRevision}
  BY <1>0, Zenon DEF TypeOK
<1>4. "validate" \in Places \ Exchanging /\ "resolved" \in Places \ Exchanging
      /\ "ended" \in Places \ Exchanging
  BY Zenon DEF Places, Exchanging
<1>5. CASE Provided(c)
  <2>1. PICK p \in Processes, reply \in Reply :
           /\ at[c] = "exchange" /\ holder[p] = c /\ Replies(c, reply)
           /\ holder' = [holder EXCEPT ![p] = NoCaller]
           /\ process' = [process EXCEPT ![p] = NewProcess]
           /\ \/ /\ c \in Routes /\ reply.host # NoHost /\ Goto(c, "validate")
                 /\ found' = [found EXCEPT ![c] = reply.host] /\ UNCHANGED <<spec, current, regained>>
              \/ Ends(c)
           /\ UNCHANGED <<deployment, placement, publicRoutes, route>>
    BY <1>5, ReplyRead, Zenon DEF Provided
  <2>2. CASE Ends(c)
    BY <1>1, <2>1, <2>2, EndReleases, Zenon
  <2>3. CASE /\ c \in Routes /\ reply.host # NoHost /\ Goto(c, "validate")
             /\ found' = [found EXCEPT ![c] = reply.host] /\ UNCHANGED <<spec, current, regained>>
    <3>1. Known(reply.host) /\ revision[reply.host] = spec[c] /\ reply.host \in Hosts \cup {NoHost}
      BY <2>1, <2>3, Zenon DEF Replies, Known
    <3>2. Moves(c, "validate", spec[c], current[c], reply.host, route[c])
      BY <1>0, <2>1, <2>3, Kept, Zenon DEF Goto, Moves
    <3>3. /\ at'[c] = "validate" /\ spec'[c] = spec[c] /\ current'[c] = current[c]
          /\ found'[c] = reply.host /\ ~Routed(c)'
      BY <1>0, <3>2, MovedTo DEF Routed
    <3>4. c \notin Admins
      BY <2>3, TasksAssumption, Zenon
    <3>5. TaskInv(c)'
      BY <1>0, <1>1, <1>2, <2>1, <2>3, <3>1, <3>3, <3>4, Zenon DEF TaskInv
    <3>6. publicRoutes' \in [Hosts -> Hosts \cup {NoHost}] /\ CacheInv'
      BY <1>0, <1>1, <2>1, Zenon DEF TypeOK, RoutingInv, CacheInv, hosts, Born, Running
    <3>7. QED
      BY <1>1, <1>3, <1>4, <2>1, <3>1, <3>2, <3>5, <3>6, TaskReleases, Zenon
  <2>4. QED
    BY <2>1, <2>2, <2>3, Zenon
<1>6. CASE c \in Routes /\ PublicRoute(c)
  <2>1. PICK p \in Processes, reply \in Reply :
           /\ at[c] = "asking" /\ holder[p] = c /\ Replies(c, reply)
           /\ holder' = [holder EXCEPT ![p] = NoCaller]
           /\ process' = [process EXCEPT ![p] = NewProcess]
           /\ \/ Ends(c) /\ UNCHANGED <<route, publicRoutes>>
              \/ /\ reply.host # NoHost /\ Resolved(c, reply.host)
                 /\ publicRoutes' = [publicRoutes EXCEPT ![found[c]] = reply.host]
                 /\ UNCHANGED <<spec, current, found, regained>>
    BY <1>6, ReplyRead DEF PublicRoute
  <2>2. CASE Ends(c) /\ UNCHANGED <<route, publicRoutes>>
    BY <1>1, <2>1, <2>2, EndReleases, Zenon
  <2>3. CASE /\ reply.host # NoHost /\ Resolved(c, reply.host)
             /\ publicRoutes' = [publicRoutes EXCEPT ![found[c]] = reply.host]
             /\ UNCHANGED <<spec, current, found, regained>>
    <3>1. reply.host \in Hosts /\ (Running(found[c]) /\ revision[found[c]] = spec[c] => reply.host = found[c])
      BY <1>6, <2>1, <2>3, Zenon DEF Replies, Known
    <3>2. Moves(c, "resolved", spec[c], current[c], found[c], reply.host)
      BY <1>0, <2>3, Kept, Zenon DEF Resolved, Goto, Moves
    <3>3. /\ at'[c] = "resolved" /\ spec'[c] = spec[c] /\ current'[c] = current[c]
          /\ found'[c] = found[c] /\ route'[c] = reply.host
      BY <1>0, <3>2, MovedTo, Zenon
    <3>4. /\ c \notin Admins /\ Routed(c) /\ Routed(c)'
          /\ Known(found[c]) /\ current[c].owner = found[c]
          /\ (Prefixes = {} => revision[found[c]] = spec[c])
      BY <1>0, <1>6, <2>1, <3>3, TasksAssumption, Zenon DEF TaskInv, Routed
    <3>5. TaskInv(c)'
      BY <1>0, <1>1, <1>2, <2>1, <3>1, <3>3, <3>4, Zenon DEF TaskInv
    <3>6. publicRoutes' \in [Hosts -> Hosts \cup {NoHost}]
      BY <1>0, <2>3, <3>1, Zenon DEF TypeOK
    <3>7. CacheInv'
      <4>1. ASSUME Prefixes = {}, NEW h \in Hosts, publicRoutes'[h] # NoHost
            PROVE  Born(h)' /\ (Running(h)' => publicRoutes'[h] = h)
        <5>1. CASE h = found[c]
          BY <1>0, <1>2, <2>3, <3>1, <3>4, <4>1, <5>1, Zenon DEF TypeOK, Known
        <5>2. CASE h # found[c]
          BY <1>0, <1>1, <2>3, <4>1, <5>2, Zenon DEF TypeOK, RoutingInv, CacheInv, hosts, Born, Running
        <5>3. QED
          BY <5>1, <5>2, Zenon
      <4>2. QED
        BY <4>1, Zenon DEF CacheInv
    <3>8. QED
      BY <1>1, <1>3, <1>4, <2>1, <3>1, <3>2, <3>5, <3>6, <3>7, TaskReleases, Zenon
  <2>4. QED
    BY <2>1, <2>2, <2>3, Zenon
<1>7. CASE TimesOut(c)
  <2>1. Ends(c) /\ UNCHANGED <<deployment, placement, publicRoutes, route>>
    BY <1>7, Zenon DEF TimesOut
  <2>2. CASE \E p \in Processes : holder[p] = c /\ DropLease(p)
    BY <1>1, <2>1, <2>2, LeaseDropped, EndReleases, Zenon
  <2>3. CASE at[c] \in {"provide", "lookup"} /\ UNCHANGED <<pool, hosts>>
    <3>1. /\ Moves(c, "ended", NoRevision, NoPlacement, NoHost, route[c])
          /\ NoPlacement \in ObjectPlacement
      BY <1>0, <2>1, EndMoves, Zenon
    <3>2. at'[c] = "ended" /\ current'[c] = NoPlacement
      BY <1>0, <3>1, MovedTo, Zenon
    <3>3. TaskInv(c)'
      BY <1>1, <3>2, EndedKnows, Zenon
    <3>4. Advances /\ RowKnown(placement)' /\ placement' \in ObjectPlacement
      BY <1>1, RowsStay, Zenon
    <3>5. deployment' \in Revisions \cup {NoRevision} /\ at[c] \notin Exchanging
      BY <1>0, <1>1, <2>3, Zenon DEF TypeOK, Exchanging
    <3>6. QED
      BY <1>1, <1>3, <1>4, <2>1, <2>3, <3>1, <3>3, <3>4, <3>5, TaskAlone, Zenon
  <2>4. QED
    BY <1>7, <2>2, <2>3, Zenon DEF TimesOut
<1>8. QED
  BY <1>5, <1>6, <1>7, Zenon

-----------------------------------------------------------------------------
(* The invariant, and what it says.                                         *)

\* The invariant holds before the first step.
LEMMA InitSafe == Init => RoutingInv
<1> SUFFICES ASSUME Init PROVE RoutingInv
  BY Zenon
<1> USE DEF Init, ProviderInit
<1>1. (CHOOSE r \in Revisions : TRUE) \in Revisions
  BY RevisionsAssumption, Zenon
<1>2. NewProcess \in ProviderProcess /\ NoPlacement \in ObjectPlacement /\ "new" \in Places \ Exchanging
  BY DEF NewProcess, ProviderProcess, AtStep, Progress, Steps, NoPlacement, ObjectPlacement, Places, Exchanging
<1>3. ProviderTypeOK
  BY <1>1, <1>2, Zenon DEF ProviderTypeOK
<1>4. TypeOK
  BY <1>2, <1>3, CallersAssumption, Zenon DEF TypeOK
<1>5. RowKnown(NoPlacement)
  BY Zenon DEF RowKnown, NoPlacement
<1>6. HostsInv /\ HoldersInv /\ CacheInv /\ EpochInv
  BY Zenon DEF HostsInv, HoldersInv, CacheInv, EpochInv, Running
<1>7. \A p \in Processes : ProcessInv(p)
  BY Zenon DEF ProcessInv
<1>8. \A c \in Callers : TaskInv(c)
  BY <1>5 DEF TaskInv, Routed, NoPlacement
<1>9. QED
  BY <1>4, <1>5, <1>6, <1>7, <1>8, Zenon DEF RoutingInv

\* Every step keeps it.
LEMMA NextSafe == RoutingInv /\ [Next]_vars => RoutingInv'
<1>1. ASSUME RoutingInv, NEW c \in Callers, TaskStep(c) PROVE RoutingInv'
  BY <1>1, ProvideSafe, ReplySafe, RegistrationSafe, RouteActorSafe, Zenon DEF TaskStep
<1>2. ASSUME RoutingInv, Next PROVE RoutingInv'
  BY <1>1, <1>2, OutsideSafe, Zenon DEF Next
<1>3. ASSUME RoutingInv, UNCHANGED vars PROVE RoutingInv'
  <2>1. RestIdle /\ UNCHANGED hosts /\ UNCHANGED pool /\ UNCHANGED regained
    BY <1>3, Zenon DEF vars, RestIdle
  <2>2. Grows
    BY <2>1, HostsStay, Zenon
  <2>3. CacheInv' /\ EpochInv' /\ RowKnown(placement)' /\ \A c \in Callers : TaskInv(c)'
    BY <1>3, <2>1, <2>2, RestStays, Zenon
  <2>4. TypeOK' /\ HostsInv' /\ HoldersInv'
    BY <1>3, <2>1, Zenon DEF RoutingInv, TypeOK, ProviderTypeOK, HostsInv, HoldersInv, Running, RestIdle, tasks, hosts, pool
  <2>5. ASSUME NEW p \in Processes PROVE ProcessInv(p)'
    <3>1. holder[p] # NoCaller /\ at[holder[p]] = "asking" => Known(found[holder[p]])
      BY <1>3 DEF RoutingInv, TypeOK, ProviderTypeOK, TaskInv, Routed
    <3>2. QED
      BY <1>3, <2>1, <2>2, <3>1, ProcessStays, Zenon DEF RoutingInv, RestIdle, tasks, pool
  <2>6. QED
    BY <2>3, <2>4, <2>5, Zenon DEF RoutingInv
<1>4. QED
  BY <1>2, <1>3, Zenon

\* The invariant of routing holds in every behaviour.
THEOREM RoutingSafe == Spec => []RoutingInv
<1>1. QED
  BY InitSafe, NextSafe, PTL DEF Spec

\* The variables of the control plane and of its provider processes keep their types;
\* a task is in the middle of an exchange exactly when it leases a process
\* (ProcessLease, command_process.rs).
THEOREM Types == Spec => []TypeOK
<1>1. RoutingInv => TypeOK
  BY Zenon DEF RoutingInv
<1>2. QED
  BY <1>1, RoutingSafe, PTL

\* The reply a task is about to read is the one to its own command
\* (command_process.rs, exchange).
THEOREM Replied == Spec => []OwnReply
<1>1. ASSUME RoutingInv, NEW p \in Processes, holder[p] # NoCaller, process[p].output # <<>>
      PROVE  Head(process[p].output).by = holder[p]
  <2>1. PICK reply \in Reply : process[p].output = <<reply>> /\ Replies(holder[p], reply)
    BY <1>1, Zenon DEF RoutingInv, ProcessInv
  <2>2. reply.by = holder[p]
    BY <2>1, Zenon DEF Replies
  <2>3. QED
    BY <2>1, <2>2
<1>2. RoutingInv => OwnReply
  BY <1>1, Zenon DEF OwnReply
<1>3. QED
  BY <1>2, RoutingSafe, PTL

\* Calls that were given the actor with the same owner epoch were given the same
\* host (placement.rs, claim).
THEOREM EpochNamesHost == Spec => []EpochOneHost
<1>1. RoutingInv => EpochOneHost
  BY TasksAssumption DEF RoutingInv, EpochInv, TaskInv, EpochOneHost
<1>2. QED
  BY <1>1, RoutingSafe, PTL

\* When no revision name is nested in another, a call is routed to a host that was
\* created for the deployment it loaded (host_matches_revision).
THEOREM RoutedToRevision == Prefixes = {} => (Spec => []RoutedRevision)
<1> SUFFICES ASSUME Prefixes = {} PROVE Spec => []RoutedRevision
  BY Zenon
<1>1. RoutingInv => RoutedRevision
  BY TasksAssumption, Zenon DEF RoutingInv, TaskInv, RoutedRevision
<1>2. QED
  BY <1>1, RoutingSafe, PTL

\* When no revision name is nested in another, the route that a request is given
\* leads to the host its capability is for, as long as that host runs (public_route).
THEOREM RouteLeadsToHost == Prefixes = {} => (Spec => []RouteOfHost)
<1> SUFFICES ASSUME Prefixes = {} PROVE Spec => []RouteOfHost
  BY Zenon
<1>1. RoutingInv => RouteOfHost
  BY TasksAssumption, Zenon DEF RoutingInv, TaskInv, RouteOfHost
<1>2. QED
  BY <1>1, RoutingSafe, PTL

\* A task goes from one place to another by a step of its own.
LEMMA OwnStep ==
  ASSUME TypeOK, Next, NEW r \in Callers, at'[r] # at[r]
  PROVE  TaskStep(r)
<1>1. PICK c \in Callers : TaskStep(c)
  BY Zenon DEF Next, RestIdle, tasks
<1>2. PICK place \in Places : at' = [at EXCEPT ![c] = place]
  BY <1>1, Zenon DEF TaskStep, Provide, Provided, TimesOut, ReadPrevious, Upsert, LoadSpec, Get, Check,
         Validate, Claim, Reread, SelectRoute, PublicRoute, Ends, Resolved, Goto, Places
<1>3. c = r
  BY <1>2, Zenon DEF TypeOK
<1>4. QED
  BY <1>1, <1>3, Zenon

\* A claim takes the actor from a host that serves the claimer's own deployment under
\* an active lease only if that lease has come back since the claimer looked
\* (route_actor, active_target).
THEOREM ClaimsNoneServed == Spec => NoSteal
<1>1. ASSUME RoutingInv, Next, NEW r \in Routes, at[r] = "claim", at'[r] = "routed", r \notin regained
      PROVE  ~Serves(placement.owner, spec[r])
  <2>1. r \in Callers /\ TaskInv(r) /\ TypeOK
    BY <1>1, TasksAssumption, Zenon DEF RoutingInv
  <2>2. TaskStep(r)
    BY <1>1, <2>1, OwnStep, Zenon
  <2>3. Claim(r) \/ TimesOut(r)
    BY <1>1, <2>2, Zenon DEF TaskStep, Provide, Provided, ReadPrevious, Upsert, LoadSpec, Get, Check,
           Validate, Reread, SelectRoute, PublicRoute
  <2>4. ~TimesOut(r)
    BY <1>1, <2>1, Zenon DEF TimesOut, Ends, Goto, TypeOK
  <2>5. ClaimMatches(placement, current[r])
    BY <1>1, <2>1, <2>3, <2>4, Zenon DEF Claim, Goto, TypeOK
  <2>6. ~Serves(current[r].owner, spec[r])
    BY <1>1, <2>1, Zenon DEF TaskInv
  <2>7. QED
    BY <2>5, <2>6, Zenon DEF ClaimMatches
<1>2. RoutingInv /\ [Next]_vars =>
        [\A r \in Routes :
           (at[r] = "claim" /\ at'[r] = "routed" /\ r \notin regained)
               => ~(/\ HostMatchesRevision(placement.owner, spec[r])
                    /\ lease[placement.owner] = "active")]_vars
  BY <1>1, Zenon DEF Serves
<1>3. QED
  BY <1>2, RoutingSafe, PTL DEF Spec, NoSteal

\* A request goes round the loop of route_actor again only when another request has
\* moved the actor since it looked.
THEOREM RetriesMeanProgress == Spec => RetriesForOthers
<1>1. ASSUME RoutingInv, Next, NEW r \in Routes, at[r] = "reread", at'[r] = "get"
      PROVE  placement.epoch > current[r].epoch
  <2>1. r \in Callers /\ TaskInv(r) /\ TypeOK
    BY <1>1, TasksAssumption, Zenon DEF RoutingInv
  <2>2. placement.owner # found[r]
    <3>1. TaskStep(r)
      BY <1>1, <2>1, OwnStep, Zenon
    <3>2. Reread(r) \/ TimesOut(r)
      BY <1>1, <3>1, Zenon DEF TaskStep, Provide, Provided, ReadPrevious, Upsert, LoadSpec, Get, Check,
             Validate, Claim, SelectRoute, PublicRoute
    <3>3. ~TimesOut(r)
      BY <1>1, <2>1, Zenon DEF TimesOut, Ends, Goto, TypeOK
    <3>4. QED
      BY <1>1, <2>1, <3>2, <3>3, Zenon DEF Reread, Goto, TypeOK
  <2>3. placement.epoch \in Nat /\ current[r].epoch \in Nat
    BY <2>1, Zenon DEF TypeOK, ObjectPlacement
  <2>4. QED
    BY <1>1, <2>1, <2>2, <2>3 DEF TaskInv
<1>2. RoutingInv /\ [Next]_vars =>
        [\A r \in Routes :
           (at[r] = "reread" /\ at'[r] = "get") => placement.epoch > current[r].epoch]_vars
  BY <1>1, Zenon
<1>3. QED
  BY <1>2, RoutingSafe, PTL DEF Spec, RetriesForOthers

=============================================================================
