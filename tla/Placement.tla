---------------------------- MODULE Placement ----------------------------
(***************************************************************************)
(* The placement row of one actor, as the PostgreSQL placement store keeps  *)
(* it (src/placement.rs), and the two conditional updates made to it:       *)
(* `claim`, which moves the actor to another host and starts a new owner    *)
(* epoch, and `commit_state`, which advances the state head by one version. *)
(* The operators are pure: the modules that use them say when a statement   *)
(* runs, and what else the transaction reads.                               *)
(*                                                                          *)
(* A snapshot object is the number of the upload that wrote it; 0 is SQL's  *)
(* NULL.  A row with epoch 0 is a row that has not been inserted.           *)
(***************************************************************************)
EXTENDS Naturals

CONSTANTS Hosts,      \* host ids; every host process has one of its own
          Requests,   \* ids of actor invocations
          NoHost,     \* owner of a row that does not exist
          NoRequest   \* NULL last_request_id

ASSUME NoHostAssumption == NoHost \notin Hosts
ASSUME NoRequestAssumption == NoRequest \notin Requests

ObjectPlacement == [owner: Hosts \cup {NoHost}, epoch: Nat, version: Nat,
                    object: Nat, request: Requests \cup {NoRequest}]

NoPlacement == [owner |-> NoHost, epoch |-> 0, version |-> 0,
                object |-> 0, request |-> NoRequest]

StateCommitRequest == [owner: Hosts, epoch: Nat, version: Nat,
                       object: Nat, request: Requests]

-----------------------------------------------------------------------------
\* Mutant of Claimed: the update changes the owner without a new epoch.
ClaimedSameEpoch(current, owner) ==
    [owner |-> owner, epoch |-> IF current.epoch = 0 THEN 1 ELSE current.epoch,
     version |-> current.version, object |-> current.object, request |-> current.request]

\* The row after a successful `claim`.  The insert starts epoch 1 at version 0,
\* the update increments the epoch and leaves the state head alone.
Claimed(current, owner) ==
    [owner |-> owner, epoch |-> current.epoch + 1, version |-> current.version,
     object |-> current.object, request |-> current.request]

\* Mutant of CommitMatches: the update does not compare the state version.
CommitMatchesAnyVersion(current, commit) ==
    /\ current.owner = commit.owner
    /\ current.epoch = commit.epoch

\* The columns of the placement row that the WHERE of `commit_state` compares.
\* The same statement joins the owner's lease (session and expiry).
CommitMatches(current, commit) ==
    /\ current.owner = commit.owner
    /\ current.epoch = commit.epoch
    /\ current.version = commit.version

\* The row after a successful `commit_state`.
Committed(current, commit) ==
    [owner |-> current.owner, epoch |-> current.epoch, version |-> current.version + 1,
     object |-> commit.object, request |-> commit.request]

\* Mutant of IsReplayedCommit: any commit of the version counts.
IsReplayedVersion(current, commit) == current.version = commit.version + 1

\* A commit whose update matched no row is taken for a success when the row is
\* what that very commit would have produced.  Neither owner nor epoch count.
IsReplayedCommit(current, commit) ==
    /\ current.version = commit.version + 1
    /\ current.object = commit.object
    /\ current.request = commit.request
=============================================================================
