---------------------------- MODULE Provider ----------------------------
(***************************************************************************)
(* How the control plane gets hosts: the pool of provider processes it      *)
(* talks to (src/sandbox/command_process.rs), and what such a process does  *)
(* at Modal on its behalf (npm/providers/modal.ts): find, reuse, create and *)
(* terminate the sandbox that bears the name of a revision.                 *)
(*                                                                          *)
(* One namespace and one region, so a name is a revision.  A sandbox is      *)
(* known by the host id it was created with; NoHost in a reply is a failure. *)
(***************************************************************************)
EXTENDS Placement, Sequences

CONSTANTS Revisions,
          Callers,     \* tasks of the control plane that send commands
          NoCaller,
          Processes    \* the slots of the pool

ASSUME CallersAssumption == NoCaller \notin Callers
ASSUME RevisionsAssumption == Revisions # {}

VARIABLES sandbox,    \* per host id: its sandbox
          revision,   \* per host id: the revision it was created for
          lease,      \* per host id: its lease
          metadata,   \* host ids whose sandbox holds the file with its handle
          holder,     \* per slot of the pool: the task that leases its process
          process     \* per slot: the process

hosts == <<sandbox, revision, lease, metadata>>
pool == <<holder, process>>

Operations == {"ensure_host", "public_host_route", "terminate_hosts"}
Command == [by: Callers, operation: Operations, revision: Revisions]
Reply == [by: Callers, host: Hosts \cup {NoHost}]

\* reuse waits for the metadata of a sandbox that exists, discard gives it up;
\* raced: the sandbox was found when the creation was refused.
Steps == {"look", "reuse", "discard", "create", "activate", "metadata"}
Progress == [step: Steps, host: Hosts \cup {NoHost}, raced: BOOLEAN]
AtStep(step, h, raced) == [step |-> step, host |-> h, raced |-> raced]

\* input, output: lines on stdin and stdout that have not been read; the first
\* line of input is the command the process is at.
ProviderProcess ==
    [busy: BOOLEAN, input: Seq(Command), output: Seq(Reply), at: Progress]
NewProcess ==
    [busy |-> FALSE, input |-> <<>>, output |-> <<>>, at |-> AtStep("look", NoHost, FALSE)]

ProviderTypeOK ==
    /\ sandbox \in [Hosts -> {"unborn", "booting", "ready", "gone"}]
    /\ revision \in [Hosts -> Revisions]
    /\ lease \in [Hosts -> {"none", "active", "ended"}]
    /\ metadata \subseteq Hosts
    /\ holder \in [Processes -> Callers \cup {NoCaller}]
    /\ process \in [Processes -> ProviderProcess]

ProviderInit ==
    /\ sandbox = [h \in Hosts |-> "unborn"]
    /\ revision = [h \in Hosts |-> CHOOSE r \in Revisions : TRUE]
    /\ lease = [h \in Hosts |-> "none"]
    /\ metadata = {}
    /\ holder = [p \in Processes |-> NoCaller]
    /\ process = [p \in Processes |-> NewProcess]

-----------------------------------------------------------------------------
(* Hosts and their sandboxes.                                               *)

Running(h) == sandbox[h] \in {"booting", "ready"}
Named(r) == {h \in Hosts : revision[h] = r /\ Running(h)}

\* The lease of a host that is killed stays until it expires.
Terminate(H) ==
    /\ sandbox' = [h \in Hosts |-> IF h \in H THEN "gone" ELSE sandbox[h]]
    /\ metadata' = metadata \ H

\* The host has registered its lease and written the ready file.
HostReady(h) ==
    /\ sandbox[h] = "booting"
    /\ sandbox' = [sandbox EXCEPT ![h] = "ready"]
    /\ lease' = [lease EXCEPT ![h] = "active"]
    /\ UNCHANGED <<revision, metadata, pool>>

\* An idle host unregisters and exits.
HostExits(h) ==
    /\ sandbox[h] = "ready"
    /\ Terminate({h})
    /\ lease' = [lease EXCEPT ![h] = "ended"]
    /\ UNCHANGED <<revision, pool>>

HostDies(h) ==
    /\ Running(h) /\ Terminate({h})
    /\ UNCHANGED <<revision, lease, pool>>

\* No registration has arrived in time: the host is gone, or cannot renew.
LeaseExpires(h) ==
    /\ lease[h] = "active"
    /\ lease' = [lease EXCEPT ![h] = "ended"]
    /\ UNCHANGED <<sandbox, revision, metadata, pool>>

\* A registration arrives late, after the lease has expired or has been given back;
\* the host may have abandoned it, and may be gone.
LeaseReturns(h) ==
    /\ lease[h] = "ended"
    /\ lease' = [lease EXCEPT ![h] = "active"]
    /\ UNCHANGED <<sandbox, revision, metadata, pool>>

-----------------------------------------------------------------------------
(* The pool, as a task of the control plane uses it.                        *)

\* recycle, and ProcessLease::drop: a process in the middle of an exchange is
\* killed, wherever it is with its command, and a new one takes its place.
Recycled(s) == IF s.busy THEN NewProcess ELSE s

\* Mutant of Written: the exchange under way is not marked.
WrittenUnmarked(s, command) == [Recycled(s) EXCEPT !.input = Append(@, command)]

Written(s, command) ==
    LET fresh == Recycled(s)
    IN  [busy |-> TRUE, input |-> Append(fresh.input, command),
         output |-> fresh.output, at |-> fresh.at]

\* exchange: the task leases a process and writes its command.
Exchange(command) ==
    \E p \in Processes :
        /\ holder[p] = NoCaller
        /\ p = CHOOSE q \in Processes : holder[q] = NoCaller
        /\ holder' = [holder EXCEPT ![p] = command.by]
        /\ process' = [process EXCEPT ![p] = Written(@, command)]
        /\ UNCHANGED hosts

Release(p, s) ==
    /\ holder' = [holder EXCEPT ![p] = NoCaller]
    /\ process' = [process EXCEPT ![p] = s]
    /\ UNCHANGED hosts

\* The task has read a whole reply.
TakeReply(p) ==
    /\ process[p].output # <<>>
    /\ Release(p, [busy |-> FALSE, input |-> process[p].input,
                   output |-> Tail(process[p].output), at |-> process[p].at])

\* Mutant of DropLease: the process is killed and its slot stays taken.
DropLeaseKept(p) ==
    /\ process' = [process EXCEPT ![p] = Recycled(@)]
    /\ UNCHANGED <<holder, hosts>>

\* The exchange ends before: the timeout has expired, the task is cancelled, or
\* the process has exited.
DropLease(p) == Release(p, Recycled(process[p]))

-----------------------------------------------------------------------------
(* A provider process carries out its commands one after the other.          *)

AtCommand(p) == Head(process[p].input)

Commanded(p, operation) ==
    process[p].input # <<>> /\ AtCommand(p).operation = operation
Working(p, step) == Commanded(p, "ensure_host") /\ process[p].at.step = step

Answer(p, h) ==
    /\ process' = [process EXCEPT ![p] =
           [busy |-> @.busy, input |-> Tail(@.input),
            output |-> Append(@.output, [by |-> AtCommand(p).by, host |-> h]),
            at |-> NewProcess.at]]
    /\ UNCHANGED holder

Goes(p, step, h, raced) ==
    /\ process' = [process EXCEPT ![p].at = AtStep(step, h, raced)]
    /\ UNCHANGED holder

\* ensureHostOnce: is there a sandbox of that name?
Look(p) ==
    /\ Working(p, "look")
    /\ LET named == Named(AtCommand(p).revision)
       IN  IF named = {}
           THEN Goes(p, "create", NoHost, FALSE)
           ELSE Goes(p, "reuse", CHOOSE h \in named : TRUE, FALSE)
    /\ UNCHANGED hosts

\* readHandle: the metadata is there, or the wait for it ends without.
Reuse(p) ==
    LET at == process[p].at
    IN  /\ Working(p, "reuse")
        /\ IF at.host \in metadata
           THEN Answer(p, at.host)
           ELSE Goes(p, "discard", at.host, at.raced)
        /\ UNCHANGED hosts

\* The sandbox that could not be reused is terminated, whatever it is by now.
Discard(p) ==
    LET at == process[p].at
    IN  /\ Working(p, "discard")
        /\ Terminate({at.host})
        /\ IF at.raced THEN Answer(p, NoHost) ELSE Goes(p, "create", NoHost, FALSE)
        /\ UNCHANGED <<revision, lease>>

\* createSandbox: the name is free, or the sandbox that has it is to be reused.
Create(p) ==
    LET r == AtCommand(p).revision
        unborn == {h \in Hosts : sandbox[h] = "unborn"}
        h == CHOOSE g \in unborn : TRUE
    IN  /\ Working(p, "create")
        /\ IF Named(r) # {}
           THEN Goes(p, "reuse", CHOOSE g \in Named(r) : TRUE, TRUE) /\ UNCHANGED hosts
           ELSE /\ unborn # {}
                /\ sandbox' = [sandbox EXCEPT ![h] = "booting"]
                /\ revision' = [revision EXCEPT ![h] = r]
                /\ Goes(p, "activate", h, FALSE)
                /\ UNCHANGED <<lease, metadata>>

\* waitForReady: a host that does not get ready in time is terminated.
Activate(p) ==
    LET h == process[p].at.host
    IN  /\ Working(p, "activate")
        /\ IF sandbox[h] = "ready"
           THEN Goes(p, "metadata", h, FALSE) /\ UNCHANGED <<sandbox, metadata>>
           ELSE Terminate({h}) /\ Answer(p, NoHost)
        /\ UNCHANGED <<revision, lease>>

WriteMetadata(p) ==
    LET h == process[p].at.host
    IN  /\ Working(p, "metadata")
        /\ IF Running(h)
           THEN metadata' = metadata \cup {h} /\ Answer(p, h)
           ELSE Answer(p, NoHost) /\ UNCHANGED metadata
        /\ UNCHANGED <<sandbox, revision, lease>>

\* publicRoute: the tunnel of the sandbox that has the name now.
PublicHostRoute(p) ==
    LET named == Named(AtCommand(p).revision)
    IN  /\ Commanded(p, "public_host_route")
        /\ Answer(p, IF named = {} THEN NoHost ELSE CHOOSE h \in named : TRUE)
        /\ UNCHANGED hosts

TerminateHosts(p) ==
    /\ Commanded(p, "terminate_hosts")
    /\ Terminate(Named(AtCommand(p).revision))
    /\ Answer(p, NoHost)
    /\ UNCHANGED <<revision, lease>>

\* A call to Modal fails, and so does the command.
ModalFails(p) ==
    /\ process[p].input # <<>>
    /\ Answer(p, NoHost)
    /\ UNCHANGED hosts

ProviderStep(p) ==
    \/ Look(p) \/ Reuse(p) \/ Discard(p) \/ Create(p) \/ Activate(p) \/ WriteMetadata(p)
    \/ PublicHostRoute(p) \/ TerminateHosts(p) \/ ModalFails(p)
=============================================================================
