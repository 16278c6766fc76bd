----------------------- MODULE DurableActor_proofs -----------------------
(***************************************************************************)
(* Theorems about DurableActor, for any sets of hosts and requests and any   *)
(* bounds.                                                                   *)
(***************************************************************************)
EXTENDS DurableActorTypes_proofs

-----------------------------------------------------------------------------
(* SafeInv is inductive.                                                     *)

\* A step of one host that leaves row, snapshots and the other hosts alone
\* keeps the invariant when it keeps the parts about that host.
LEMMA OneHostSteps ==
  ASSUME SafeInv, TypeOK', NEW h \in Hosts,
         UNCHANGED <<row, heads, store>>,
         \A g \in Hosts \ {h} : /\ cache'[g] = cache[g] /\ inv'[g] = inv[g]
                                /\ rpc'[g] = rpc[g],
         HostInv(h)', LateUploaded', RepliesCommitted'
  PROVE  SafeInv'
<1>1. RowHistory' /\ HeadReadable' /\ LinearHistory' /\ StoreFollowsHeads'
  BY DEF SafeInv, RowHistory, HeadReadable, SnapshotFits, LinearHistory, StoreFollowsHeads
<1>2. ASSUME NEW g \in Hosts \ {h} PROVE HostInv(g)'
  <2>1. HostInv(g) /\ cache'[g] = cache[g] /\ inv'[g] = inv[g] /\ rpc'[g] = rpc[g]
    BY Zenon DEF SafeInv
  <2>2. CacheFromHeads(g)' /\ PendingUploaded(g)'
    BY <2>1 DEF HostInv, CacheFromHeads, PendingUploaded, StateAt
  <2>3. PhaseInv(g)'
    BY <2>1, Zenon DEF HostInv, PhaseInv, IsReplay
  <2>4. QED
    BY <2>2, <2>3, Zenon DEF HostInv
<1>3. QED
  BY <1>1, <1>2, Zenon DEF SafeInv

\* A host that gives up its commit call leaves a commit for its own snapshot.
LEMMA AbandonedUploaded ==
  ASSUME SafeInv, NEW h \in Hosts, late' = Abandoned(h), store' = store
  PROVE  LateUploaded'
<1>1. CASE rpc[h] = "sent"
  <2>1. PendingUploaded(h) /\ cache[h].pending # 0
    BY <1>1, Zenon DEF SafeInv, HostInv, PhaseInv
  <2>2. QED
    BY <1>1, <2>1 DEF SafeInv, Abandoned, LateUploaded, CommitOf, PendingUploaded
<1>2. CASE rpc[h] # "sent"
  BY <1>2, Zenon DEF SafeInv, Abandoned, LateUploaded
<1>3. QED
  BY <1>1, <1>2, Zenon

\* The cache entry an invocation works on comes from a committed head, too.
LEMMA LoadedFromHeads ==
  ASSUME SafeInv, NEW h \in Hosts, NEW target \in heads, target.owner = h
  PROVE  LET entry == Loaded(h, target)
         IN  /\ entry.epoch # 0
             /\ \E t \in heads : t.owner = h /\ t.epoch = entry.epoch
             /\ \E t \in heads : /\ t.version = entry.version
                                 /\ t.request = entry.request
                                 /\ StateAt(t) = entry.state
             /\ entry.pending # 0 => entry = cache[h]
<1>1. target.epoch \in Nat /\ target.epoch # 0 /\ target.version \in Nat
  BY DEF SafeInv, TypeOK, ObjectPlacement, RowHistory
<1>2. CASE cache[h].epoch = target.epoch
  BY <1>1, <1>2, Zenon DEF SafeInv, HostInv, CacheFromHeads, Loaded
<1>3. CASE cache[h].epoch # target.epoch /\ target.version = 0
  <2>1. target.request = NoRequest
    BY <1>3, Zenon DEF SafeInv, RowHistory
  <2>2. QED
    BY <1>1, <1>3, <2>1, Zenon DEF Loaded, NoCache, StateAt
<1>4. CASE cache[h].epoch # target.epoch /\ target.version # 0
  <2>1. store[target.object].request = target.request
    BY <1>4, Zenon DEF SafeInv, HeadReadable
  <2>2. QED
    BY <1>1, <1>4, <2>1, Zenon DEF Loaded, StateAt
<1>5. QED
  BY <1>2, <1>3, <1>4, Zenon

\* When host h hears of its commit's success, a head is that very commit.
LEMMA CommitHeard ==
  ASSUME SafeInv, NEW h \in Hosts, rpc[h] = "ok"
  PROVE  LET snapshot == store[cache[h].pending]
         IN  /\ cache[h].epoch # 0
             /\ snapshot \in Snapshot
             /\ \E t \in heads : /\ t.version = snapshot.version
                                 /\ t.request = snapshot.request
                                 /\ StateAt(t) = snapshot.state
<1>1. PICK t \in heads : t.version = cache[h].version + 1 /\ t.object = cache[h].pending
  BY Zenon DEF SafeInv, HostInv, PhaseInv
<1>2. /\ cache[h].pending # 0 /\ cache[h].epoch # 0
      /\ store[cache[h].pending].version = cache[h].version + 1
  BY Zenon DEF SafeInv, HostInv, PhaseInv, PendingUploaded
<1>3. t.version # 0 /\ cache[h].version \in Nat
  BY <1>1, CacheType DEF SafeInv
<1>4. store[t.object].request = t.request
  BY <1>3, Zenon DEF SafeInv, HeadReadable
<1>5. store[cache[h].pending] \in Snapshot
  BY <1>2, CommitOfType, Zenon DEF SafeInv, HostInv
<1>6. QED
  BY <1>1, <1>2, <1>3, <1>4, <1>5, Zenon DEF StateAt

\* Every step of a host keeps the invariant.
LEMMA HostStepSafe ==
  ASSUME SafeInv, NEW h \in Hosts, HostStep(h)
  PROVE  SafeInv'
<1>1. TypeOK /\ HostInv(h) /\ LateUploaded /\ TypeOK'
  BY HostTypes, Zenon DEF SafeInv
<1>2. ASSUME UNCHANGED <<row, heads, store>>, HostInv(h)', LateUploaded', RepliesCommitted',
             \A g \in Hosts \ {h} : /\ cache'[g] = cache[g] /\ inv'[g] = inv[g]
                                    /\ rpc'[g] = rpc[g]
      PROVE  SafeInv'
  BY <1>1, <1>2, OneHostSteps, Zenon
<1>3. ASSUME reply' = NoReply PROVE RepliesCommitted'
  BY <1>3, Zenon DEF RepliesCommitted
<1>4. ASSUME UNCHANGED <<store, late>> PROVE LateUploaded'
  BY <1>1, <1>4, Zenon DEF LateUploaded
<1>5. ASSUME UNCHANGED <<heads, store>>, cache'[h] = NoCache, inv'[h] = Idle, rpc'[h] = "none"
      PROVE  HostInv(h)'
  BY <1>5 DEF HostInv, CacheFromHeads, PendingUploaded, PhaseInv, NoCache, Idle
<1>6. ASSUME UNCHANGED <<heads, store, cache>>, inv'[h] = Idle, rpc'[h] = "none"
      PROVE  HostInv(h)'
  BY <1>1, <1>6 DEF HostInv, CacheFromHeads, PendingUploaded, PhaseInv, Idle, StateAt
<1>7. ASSUME NEW target \in heads, LoadFails(h, target) PROVE SafeInv'
  <2>1. cache'[h] = NoCache
    BY <1>1, <1>7, Zenon DEF LoadFails, SetCache, TypeOK
  <2>2. inv[h].phase = "idle" /\ rpc[h] = "none" /\ UNCHANGED <<heads, store, inv, rpc>>
    BY <1>1, <1>7, Zenon DEF LoadFails, HostInv, PhaseInv
  <2>3. HostInv(h)'
    BY <2>1, <2>2 DEF HostInv, CacheFromHeads, PendingUploaded, PhaseInv, NoCache
  <2>4. QED
    BY <1>1, <1>2, <1>3, <1>4, <1>7, <2>3, Zenon DEF LoadFails, SetCache, TypeOK
<1>8. ASSUME NEW target \in heads, NEW r \in Requests, Invoke(h, r, target) PROVE SafeInv'
  <2> DEFINE entry == Loaded(h, target)
  <2>1. /\ UNCHANGED <<row, heads, store, late>> /\ reply' = NoReply
        /\ cache' = [cache EXCEPT ![h] = entry]
        /\ inv' = [inv EXCEPT ![h] =
                     [phase |-> IF entry.pending # 0 THEN "resolve" ELSE "ready",
                      request |-> r, next |-> << >>]]
        /\ rpc' = [rpc EXCEPT ![h] = IF entry.pending # 0 THEN "sent" ELSE "none"]
        /\ target.owner = h
    BY <1>8, Zenon DEF Invoke, SetCache, SetInv
  <2>2. /\ cache'[h] = entry /\ inv'[h].request = r
        /\ inv'[h].phase = IF entry.pending # 0 THEN "resolve" ELSE "ready"
        /\ rpc'[h] = IF entry.pending # 0 THEN "sent" ELSE "none"
    BY <1>1, <2>1, Zenon DEF TypeOK
  <2> HIDE DEF entry
  <2>3. /\ entry.epoch # 0
        /\ \E t \in heads : t.owner = h /\ t.epoch = entry.epoch
        /\ \E t \in heads : /\ t.version = entry.version
                            /\ t.request = entry.request
                            /\ StateAt(t) = entry.state
        /\ entry.pending # 0 => entry = cache[h]
    BY <2>1, LoadedFromHeads, Zenon DEF entry
  <2>4. CacheFromHeads(h)'
    BY <2>1, <2>2, <2>3, Zenon DEF CacheFromHeads, StateAt
  <2>5. PendingUploaded(h)'
    BY <1>1, <2>1, <2>2, <2>3, Zenon DEF HostInv, PendingUploaded
  <2>6. PhaseInv(h)'
    BY <2>1, <2>2, <2>3 DEF PhaseInv
  <2>7. \A g \in Hosts \ {h} : cache'[g] = cache[g] /\ inv'[g] = inv[g] /\ rpc'[g] = rpc[g]
    BY <1>1, <2>1, Zenon DEF TypeOK
  <2>8. QED
    BY <1>2, <1>3, <1>4, <2>1, <2>4, <2>5, <2>6, <2>7, Zenon DEF HostInv
<1>9. ASSUME CommitMisses(h) \/ RereadRow(h) PROVE SafeInv'
  <2>1. /\ UNCHANGED <<row, heads, store, cache, inv, late>> /\ reply' = NoReply
        /\ rpc[h] # "none" /\ rpc'[h] # "none"
        /\ rpc'[h] = "ok" => row.version = cache[h].version + 1 /\ row.object = cache[h].pending
        /\ \A g \in Hosts \ {h} : rpc'[g] = rpc[g]
    BY <1>1, <1>9, Zenon DEF CommitMisses, RereadRow, IsReplayedCommit, CommitOf, TypeOK
  <2>2. rpc'[h] = "ok" => row \in heads
    BY <1>1, <2>1, CacheType DEF SafeInv, RowHistory, NoPlacement
  <2>3. PhaseInv(h)'
    BY <1>1, <2>1, <2>2, Zenon DEF HostInv, PhaseInv, IsReplay
  <2>4. CacheFromHeads(h)' /\ PendingUploaded(h)'
    BY <1>1, <2>1, Zenon DEF HostInv, CacheFromHeads, PendingUploaded, StateAt
  <2>5. QED
    BY <1>2, <1>3, <1>4, <2>1, <2>3, <2>4, Zenon DEF HostInv
<1>10. ASSUME CommitFails(h) PROVE SafeInv'
  BY <1>1, <1>2, <1>3, <1>6, <1>10, AbandonedUploaded, Zenon DEF CommitFails, SetInv, TypeOK
<1>11. ASSUME Replay(h) PROVE SafeInv'
  <2>1. RepliesCommitted'
    <3>1. PICK t \in heads : t.version = cache[h].version /\ StateAt(t) = cache[h].state
      BY <1>1, <1>11, Zenon DEF Replay, HostInv, PhaseInv, CacheFromHeads
    <3>2. UNCHANGED <<heads, store>> /\ reply'.version = cache[h].version
          /\ reply'.state = cache[h].state
      BY <1>11, Zenon DEF Replay, Complete
    <3>3. QED
      BY <3>1, <3>2, Zenon DEF RepliesCommitted, StateAt
  <2>2. QED
    BY <1>1, <1>2, <1>4, <1>6, <1>11, <2>1, Zenon DEF Replay, SetInv, TypeOK, HostInv, PhaseInv
<1>12. ASSUME NEW ticket \in BOOLEAN, CommitSucceeds(h, ticket) PROVE SafeInv'
  <2> DEFINE snapshot == store[cache[h].pending]
  <2>1. /\ UNCHANGED <<row, heads, store, late>> /\ rpc[h] = "ok"
        /\ cache'[h].epoch = cache[h].epoch /\ cache'[h].version = snapshot.version
        /\ cache'[h].state = snapshot.state /\ cache'[h].request = snapshot.request
        /\ cache'[h].pending = 0 /\ rpc'[h] = "none"
        /\ \A g \in Hosts \ {h} : cache'[g] = cache[g] /\ inv'[g] = inv[g] /\ rpc'[g] = rpc[g]
    BY <1>1, <1>12, Zenon DEF CommitSucceeds, SetCache, SetInv, TypeOK
  <2>2. \/ inv'[h] = Idle /\ reply'.version = snapshot.version /\ reply'.state = snapshot.state
        \/ inv'[h] = [inv[h] EXCEPT !.phase = "ready"] /\ reply' = NoReply
    BY <1>1, <1>12 DEF CommitSucceeds, SetInv, Complete, TypeOK
  <2>3. /\ inv'[h].phase = "idle" \/ inv'[h].phase = "ready"
        /\ inv'[h].phase = "ready" => inv'[h].request = inv[h].request
    BY <1>1, <2>2, InvType DEF Idle, Invocation
  <2>4. inv[h].request \in Requests
    BY <1>1, <2>1, Zenon DEF HostInv, PhaseInv
  <2>5. PICK t \in heads : /\ t.version = snapshot.version /\ t.request = snapshot.request
                           /\ StateAt(t) = snapshot.state
    BY <2>1, CommitHeard, Zenon
  <2>6. cache[h].epoch # 0
    BY <2>1, CommitHeard, Zenon
  <2>7. CacheFromHeads(h)' /\ PendingUploaded(h)'
    BY <1>1, <2>1, <2>5, <2>6 DEF HostInv, CacheFromHeads, PendingUploaded, StateAt
  <2>8. PhaseInv(h)'
    BY <2>1, <2>3, <2>4, <2>6, Zenon DEF PhaseInv
  <2>9. RepliesCommitted'
    BY <2>1, <2>2, <2>5, Zenon DEF RepliesCommitted, StateAt
  <2>10. QED
    BY <1>2, <1>4, <2>1, <2>7, <2>8, <2>9, Zenon DEF HostInv
<1>13. ASSUME NEW next \in Outcomes(h), Execute(h, next) PROVE SafeInv'
  <2>1. /\ UNCHANGED <<row, heads, store, cache, rpc, late>>
        /\ inv[h].phase = "ready" /\ ~IsReplay(h)
        /\ \A g \in Hosts \ {h} : inv'[g] = inv[g]
    BY <1>1, <1>13, Zenon DEF Execute, SetInv, TypeOK
  <2>2. \/ inv'[h] = Idle /\ reply'.version = cache[h].version /\ reply'.state = cache[h].state
        \/ /\ inv'[h].phase = "publish" /\ inv'[h].request = inv[h].request
           /\ reply' = NoReply
    BY <1>1, <1>13 DEF Execute, SetInv, Complete, TypeOK
  <2>3. CacheFromHeads(h)' /\ PendingUploaded(h)'
    BY <1>1, <2>1, Zenon DEF HostInv, CacheFromHeads, PendingUploaded, StateAt
  <2>4. PhaseInv(h)'
    <3>1. /\ rpc[h] = "none" /\ cache[h].pending = 0 /\ cache[h].epoch # 0
          /\ inv[h].request \in Requests
      BY <1>1, <2>1, Zenon DEF HostInv, PhaseInv
    <3>2. CASE inv'[h] = Idle
      <4>1. inv'[h].phase = "idle" /\ rpc'[h] = "none" /\ cache'[h].pending = 0
        BY <2>1, <3>1, <3>2 DEF Idle
      <4>2. QED
        BY <4>1, Zenon DEF PhaseInv
    <3>3. CASE inv'[h].phase = "publish" /\ inv'[h].request = inv[h].request
      BY <2>1, <3>1, <3>3, Zenon DEF PhaseInv, IsReplay
    <3>4. QED
      BY <2>2, <3>2, <3>3, Zenon
  <2>5. PICK t \in heads : t.version = cache[h].version /\ StateAt(t) = cache[h].state
    BY <1>1, <2>1, Zenon DEF HostInv, PhaseInv, CacheFromHeads
  <2>6. RepliesCommitted'
    BY <2>1, <2>2, <2>5, Zenon DEF RepliesCommitted, StateAt
  <2>7. QED
    BY <1>2, <1>4, <2>1, <2>3, <2>4, <2>6, Zenon DEF HostInv
<1>14. ASSUME ExecuteFails(h) \/ SendFails(h) PROVE SafeInv'
  <2>1. rpc[h] = "none"
    BY <1>1, <1>14, Zenon DEF ExecuteFails, SendFails, HostInv, PhaseInv
  <2>2. QED
    BY <1>1, <1>2, <1>3, <1>4, <1>6, <1>14, <2>1, Zenon DEF ExecuteFails, SendFails, SetInv, TypeOK
<1>15. ASSUME DropInstance(h) PROVE SafeInv'
  <2>1. HostInv(h)'
    BY <1>1, <1>15, Zenon
    DEF DropInstance, HostInv, CacheFromHeads, PendingUploaded, PhaseInv, IsReplay, StateAt
  <2>2. QED
    BY <1>2, <1>3, <1>4, <1>15, <2>1, Zenon DEF DropInstance
<1>16. ASSUME UseTicket(h) \/ PrepareStateWrite(h) PROVE SafeInv'
  <2>1. /\ UNCHANGED <<row, heads, store, rpc, late>> /\ reply' = NoReply
        /\ inv[h].phase = "publish"
        /\ cache' = [cache EXCEPT ![h] = [cache[h] EXCEPT !.next_write = 0]]
        /\ inv' = [inv EXCEPT ![h] = [inv[h] EXCEPT !.phase = "upload"]]
    BY <1>16, Zenon DEF UseTicket, PrepareStateWrite, SetCache, SetInv
  <2>2. /\ inv'[h].phase = "upload" /\ inv'[h].request = inv[h].request
        /\ \A g \in Hosts \ {h} : inv'[g] = inv[g]
    BY <1>1, <2>1, InvType, Zenon DEF TypeOK, Invocation
  <2>3. /\ cache'[h].epoch = cache[h].epoch /\ cache'[h].version = cache[h].version
        /\ cache'[h].state = cache[h].state /\ cache'[h].request = cache[h].request
        /\ cache'[h].pending = cache[h].pending
        /\ \A g \in Hosts \ {h} : cache'[g] = cache[g]
    BY <1>1, <2>1, CacheType, Zenon DEF TypeOK, CachedActorState
  <2>4. CacheFromHeads(h)' /\ PendingUploaded(h)'
    BY <1>1, <2>1, <2>3, Zenon DEF HostInv, CacheFromHeads, PendingUploaded, StateAt
  <2>5. PhaseInv(h)'
    BY <1>1, <2>1, <2>2, <2>3, Zenon DEF HostInv, PhaseInv, IsReplay
  <2>6. QED
    BY <1>2, <1>3, <1>4, <2>1, <2>2, <2>3, <2>4, <2>5, Zenon DEF HostInv
<1>17. ASSUME PrepareFails(h) \/ UploadFails(h) PROVE SafeInv'
  <2>1. /\ UNCHANGED <<row, heads, store, rpc, late>> /\ reply' = NoReply
        /\ rpc[h] = "none"
        /\ cache' = [cache EXCEPT ![h] = [cache[h] EXCEPT !.next_write = 0]]
        /\ inv' = [inv EXCEPT ![h] = Idle]
    BY <1>1, <1>17, Zenon
    DEF PrepareFails, UploadFails, PublishFails, SetCache, SetInv, HostInv, PhaseInv
  <2>2. inv'[h] = Idle /\ \A g \in Hosts \ {h} : inv'[g] = inv[g]
    BY <1>1, <2>1, Zenon DEF TypeOK
  <2>3. /\ cache'[h].epoch = cache[h].epoch /\ cache'[h].version = cache[h].version
        /\ cache'[h].state = cache[h].state /\ cache'[h].request = cache[h].request
        /\ cache'[h].pending = cache[h].pending
        /\ \A g \in Hosts \ {h} : cache'[g] = cache[g]
    BY <1>1, <2>1, CacheType, Zenon DEF TypeOK, CachedActorState
  <2>4. CacheFromHeads(h)' /\ PendingUploaded(h)'
    BY <1>1, <2>1, <2>3, Zenon DEF HostInv, CacheFromHeads, PendingUploaded, StateAt
  <2>5. PhaseInv(h)'
    BY <1>1, <2>1, <2>2 DEF PhaseInv, Idle
  <2>6. QED
    BY <1>2, <1>3, <1>4, <2>1, <2>2, <2>3, <2>4, <2>5, Zenon DEF HostInv
<1>18. ASSUME Cancel(h) \/ Crash(h) PROVE SafeInv'
  <2>1. /\ UNCHANGED <<row, heads, store>> /\ reply' = NoReply /\ late' = Abandoned(h)
        /\ cache'[h] = NoCache /\ inv'[h] = Idle /\ rpc'[h] = "none"
        /\ \A g \in Hosts \ {h} : cache'[g] = cache[g] /\ inv'[g] = inv[g] /\ rpc'[g] = rpc[g]
    BY <1>1, <1>18, Zenon DEF Cancel, Crash, SetCache, SetInv, TypeOK
  <2>2. QED
    BY <1>2, <1>3, <1>5, <2>1, AbandonedUploaded, Zenon
<1>19. QED
  BY <1>7, <1>8, <1>9, <1>10, <1>11, <1>12, <1>13, <1>14, <1>15, <1>16, <1>17, <1>18, Zenon
  DEF HostStep

\* Heads that are there stay there, so what hosts and replies rely on stays true
\* when the row gets a new value.
LEMMA HeadsGrow ==
  ASSUME SafeInv, TypeOK', heads \subseteq heads', UNCHANGED <<store, cache, inv>>,
         NEW h \in Hosts,
         \/ rpc'[h] = rpc[h]
         \/ rpc[h] = "sent" /\ rpc'[h] = "ok"
            /\ \E t \in heads' : t.version = cache[h].version + 1 /\ t.object = cache[h].pending
  PROVE  HostInv(h)'
<1>1. HostInv(h)
  BY Zenon DEF SafeInv
<1>2. CacheFromHeads(h)'
  <2>1. SUFFICES ASSUME cache[h].epoch # 0
                 PROVE  /\ \E t \in heads' : t.owner = h /\ t.epoch = cache[h].epoch
                        /\ \E t \in heads' : /\ t.version = cache[h].version
                                             /\ t.request = cache[h].request
                                             /\ StateAt(t) = cache[h].state
    BY Zenon DEF CacheFromHeads, StateAt
  <2>2. QED
    BY <1>1, <2>1, Zenon DEF HostInv, CacheFromHeads
<1>3. PendingUploaded(h)'
  BY <1>1, Zenon DEF HostInv, PendingUploaded
<1>4. PhaseInv(h)'
  BY <1>1, Zenon DEF HostInv, PhaseInv, IsReplay
<1>5. QED
  BY <1>2, <1>3, <1>4, Zenon DEF HostInv

\* A claim keeps the invariant.
LEMMA ClaimSafe ==
  ASSUME SafeInv, NEW h \in Hosts, Claim(h)
  PROVE  SafeInv'
<1>1. TypeOK /\ TypeOK'
  BY TypesPreserved, Zenon DEF SafeInv, Next
<1>2. /\ row'.owner = h /\ row'.epoch = row.epoch + 1 /\ row'.version = row.version
      /\ row'.object = row.object /\ row'.request = row.request
      /\ heads' = heads \cup {row'} /\ reply' = NoReply
      /\ UNCHANGED <<store, cache, inv, rpc, late>>
  BY Zenon DEF Claim, Claimed
<1>3. row.epoch \in Nat /\ row.version \in Nat
      /\ \A t \in heads : t.epoch \in Nat /\ t.version \in Nat
  BY <1>1, Zenon DEF TypeOK, ObjectPlacement
<1>4. RowHistory'
  BY <1>2, <1>3 DEF SafeInv, RowHistory, NoPlacement
<1>5. HeadReadable'
  <2>1. CASE row.epoch = 0
    BY <1>2, <2>1 DEF SafeInv, RowHistory, NoPlacement, HeadReadable
  <2>2. CASE row.epoch # 0
    <3>1. row \in heads
      BY <2>2, Zenon DEF SafeInv, RowHistory
    <3>2. ASSUME NEW t \in heads, t.version # 0
          PROVE  t.object \in 1..Len(store) /\ SnapshotFits(t) /\ store[t.object].request = t.request
      BY <3>2, Zenon DEF SafeInv, HeadReadable
    <3>3. row.version # 0 => /\ row'.object \in 1..Len(store) /\ store[row'.object].request = row'.request
                             /\ store[row'.object].version = row'.version
                             /\ store[row'.object].epoch <= row'.epoch
      BY <1>1, <1>2, <1>3, <3>1, <3>2, StoreType DEF SnapshotFits
    <3>4. QED
      BY <1>2, <3>2, <3>3, Zenon DEF HeadReadable, SnapshotFits
  <2>3. QED
    BY <2>1, <2>2, Zenon
<1>6. LinearHistory'
  <2>1. ASSUME NEW t \in heads
        PROVE  /\ t.epoch < row'.epoch /\ t.version <= row'.version
               /\ t.version = row'.version => t.object = row'.object
    BY <1>2, <1>3 DEF SafeInv, RowHistory, LinearHistory
  <2>2. QED
    BY <1>2, <1>3, <2>1 DEF SafeInv, LinearHistory
<1>7. \A g \in Hosts : HostInv(g)'
  BY <1>1, <1>2, HeadsGrow, Zenon
<1>8. StoreFollowsHeads'
  <2>1. row'.request \in Calls => row \in heads
    BY <1>2, NoRequestAssumption, RequestsAssumption DEF SafeInv, RowHistory, NoPlacement
  <2>2. QED
    BY <1>2, <2>1 DEF SafeInv, StoreFollowsHeads
<1>9. LateUploaded' /\ RepliesCommitted'
  BY <1>2, Zenon DEF SafeInv, LateUploaded, RepliesCommitted
<1>10. QED
  BY <1>1, <1>4, <1>5, <1>6, <1>7, <1>8, <1>9, Zenon DEF SafeInv

\* So does a commit of an uploaded snapshot, whoever sent it and whenever.
LEMMA CommitSafe ==
  ASSUME SafeInv, TypeOK', NEW commit \in StateCommitRequest, CommitMatches(row, commit),
         row' = Committed(row, commit), heads' = heads \cup {row'},
         reply' = NoReply, UNCHANGED <<store, cache, inv>>, late' \subseteq late,
         commit.object \in 1..Len(store),
         store[commit.object].version = commit.version + 1,
         store[commit.object].epoch = commit.epoch,
         store[commit.object].request = commit.request,
         \A h \in Hosts : HostInv(h)'
  PROVE  SafeInv'
<1>1. TypeOK
  BY Zenon DEF SafeInv
<1>2. /\ row'.owner = row.owner /\ row'.epoch = row.epoch /\ row'.version = row.version + 1
      /\ row'.object = commit.object /\ row'.request = commit.request
      /\ commit.epoch = row.epoch /\ commit.version = row.version
  BY Zenon DEF Committed, CommitMatches
<1>3. row.epoch \in Nat /\ row.version \in Nat
      /\ \A t \in heads : t.epoch \in Nat /\ t.version \in Nat
  BY <1>1, Zenon DEF TypeOK, ObjectPlacement
<1>4. row \in heads
  BY NoHostAssumption DEF SafeInv, RowHistory, NoPlacement, CommitMatches, StateCommitRequest
<1>5. ASSUME NEW t \in heads
      PROVE  t.owner \in Hosts /\ t.epoch >= 1 /\ t.epoch <= row.epoch /\ t.version <= row.version
  BY Zenon DEF SafeInv, RowHistory
<1>6. RowHistory'
  BY <1>2, <1>3, <1>4, <1>5 DEF SafeInv, RowHistory
<1>7. HeadReadable'
  BY <1>2, <1>3 DEF SafeInv, HeadReadable, SnapshotFits
<1>8. LinearHistory'
  <2>1. ASSUME NEW t \in heads
        PROVE  /\ row'.epoch = t.epoch => row'.owner = t.owner
               /\ row'.version # t.version
               /\ t.epoch < row'.epoch => t.version <= row'.version
               /\ ~(row'.epoch < t.epoch)
    BY <1>2, <1>3, <1>4, <1>5 DEF SafeInv, LinearHistory
  <2>2. QED
    BY <1>2, <1>3, <2>1 DEF SafeInv, LinearHistory
<1>9. StoreFollowsHeads'
  <2>1. ASSUME NEW o \in 1..Len(store)
        PROVE  /\ store[o].version >= 1 /\ store[o].version <= row.version + 1
               /\ \A t \in heads : t.version + 1 = store[o].version /\ t.request \in Calls =>
                                       store[o].request # t.request
               /\ store[o].version \in Nat
    BY <1>1, StoreType, Zenon DEF SafeInv, StoreFollowsHeads
  <2>2. QED
    BY <1>2, <1>3, <2>1 DEF StoreFollowsHeads
<1>10. LateUploaded' /\ RepliesCommitted'
  BY Zenon DEF SafeInv, LateUploaded, RepliesCommitted
<1>11. QED
  BY <1>6, <1>7, <1>8, <1>9, <1>10, Zenon DEF SafeInv

\* A version has one request, as it has one snapshot.
LEMMA OneRequestPerVersion ==
  ASSUME SafeInv, NEW s \in heads, NEW t \in heads, s.version = t.version
  PROVE  s.request = t.request /\ StateAt(s) = StateAt(t)
<1>1. s.object = t.object
  BY Zenon DEF SafeInv, LinearHistory
<1>2. CASE s.version = 0
  BY <1>2, Zenon DEF SafeInv, RowHistory, StateAt
<1>3. CASE s.version # 0
  BY <1>1, <1>3, Zenon DEF SafeInv, HeadReadable, StateAt
<1>4. QED
  BY <1>2, <1>3, Zenon

\* What an upload changes, field by field.
UploadChanges(h) ==
    /\ UNCHANGED <<row, heads, late>> /\ reply' = NoReply
    /\ inv[h].phase = "upload" /\ inv'[h].phase = "commit"
    /\ inv'[h].request = inv[h].request
    /\ rpc'[h] = "sent"
    /\ cache'[h].epoch = cache[h].epoch /\ cache'[h].version = cache[h].version
    /\ cache'[h].state = cache[h].state /\ cache'[h].request = cache[h].request
    /\ cache'[h].pending = Len(store) + 1
    /\ \A g \in Hosts \ {h} : cache'[g] = cache[g] /\ inv'[g] = inv[g] /\ rpc'[g] = rpc[g]
    /\ Len(store) \in Nat /\ Len(store') = Len(store) + 1
    /\ store'[Len(store) + 1] = NewSnapshot(h)
    /\ \A o \in 1..Len(store) : store'[o] = store[o]

\* The action Upload makes these changes.
LEMMA UploadEffect ==
  ASSUME SafeInv, NEW h \in Hosts, Upload(h)
  PROVE  UploadChanges(h)
<1>1. TypeOK /\ HostInv(h)
  BY Zenon DEF SafeInv
<1>2. NewSnapshot(h) \in Snapshot
  BY <1>1, CacheType, InvType DEF Upload, NewSnapshot, Snapshot, HostInv, PhaseInv
<1>3. /\ UNCHANGED <<row, heads, late>> /\ reply' = NoReply
      /\ inv[h].phase = "upload" /\ rpc'[h] = "sent"
      /\ store' = Append(store, NewSnapshot(h))
      /\ cache' = [cache EXCEPT ![h] = [cache[h] EXCEPT !.pending = Len(store) + 1]]
      /\ inv' = [inv EXCEPT ![h] = [inv[h] EXCEPT !.phase = "commit"]]
      /\ \A g \in Hosts \ {h} : rpc'[g] = rpc[g]
  BY <1>1, Zenon DEF Upload, SetCache, SetInv, TypeOK
<1>4. /\ inv'[h].phase = "commit" /\ inv'[h].request = inv[h].request
      /\ \A g \in Hosts \ {h} : inv'[g] = inv[g]
  BY <1>1, <1>3, InvType, Zenon DEF TypeOK, Invocation
<1>5. /\ cache'[h].epoch = cache[h].epoch /\ cache'[h].version = cache[h].version
      /\ cache'[h].state = cache[h].state /\ cache'[h].request = cache[h].request
      /\ cache'[h].pending = Len(store) + 1
      /\ \A g \in Hosts \ {h} : cache'[g] = cache[g]
  BY <1>1, <1>3, CacheType, Zenon DEF TypeOK, CachedActorState
<1>6. /\ Len(store) \in Nat /\ Len(store') = Len(store) + 1
      /\ store'[Len(store) + 1] = NewSnapshot(h)
      /\ \A o \in 1..Len(store) : store'[o] = store[o]
  BY <1>1, <1>2, <1>3, StoreGrows DEF TypeOK
<1>7. QED
  BY <1>3, <1>4, <1>5, <1>6, Zenon DEF UploadChanges

\* An upload keeps the invariant.
LEMMA UploadSafe ==
  ASSUME SafeInv, NEW h \in Hosts, Upload(h)
  PROVE  SafeInv'
<1>0. UploadChanges(h)
  BY UploadEffect, Zenon
<1>s. /\ heads' = heads /\ row' = row /\ Len(store) \in Nat /\ Len(store') = Len(store) + 1
      /\ store'[Len(store) + 1] = NewSnapshot(h)
      /\ \A o \in 1..Len(store) : store'[o] = store[o]
  BY <1>0, Zenon DEF UploadChanges
<1>1. TypeOK /\ TypeOK' /\ HostInv(h)
  BY TypesPreserved, Zenon DEF SafeInv, Next
<1>2. ASSUME NEW t \in heads
      PROVE  StateAt(t)' = StateAt(t) /\ t.version \in Nat
  <2>1. t.version \in Nat /\ (t.version # 0 => t.object \in 1..Len(store))
    BY <1>1, Zenon DEF SafeInv, HeadReadable, TypeOK, ObjectPlacement
  <2>2. t.version # 0 => store'[t.object] = store[t.object]
    BY <1>s, <2>1, Zenon
  <2>3. QED
    BY <2>1, <2>2, Zenon DEF StateAt
<1>3. RowHistory' /\ LinearHistory'
  BY <1>0, Zenon DEF UploadChanges, SafeInv, RowHistory, LinearHistory
<1>4. HeadReadable'
  BY <1>s DEF SafeInv, HeadReadable, SnapshotFits
<1>5. ASSUME NEW g \in Hosts PROVE CacheFromHeads(g)'
  <2>1. cache'[g].epoch = cache[g].epoch /\ cache'[g].version = cache[g].version
        /\ cache'[g].state = cache[g].state /\ cache'[g].request = cache[g].request
        /\ heads' = heads
    BY <1>0, Zenon DEF UploadChanges
  <2>2. QED
    BY <1>2, <2>1 DEF SafeInv, HostInv, CacheFromHeads
<1>6. ASSUME NEW g \in Hosts \ {h} PROVE PendingUploaded(g)' /\ PhaseInv(g)'
  <2>1. /\ cache'[g] = cache[g] /\ inv'[g] = inv[g] /\ rpc'[g] = rpc[g]
        /\ PendingUploaded(g) /\ PhaseInv(g)
    BY <1>0, Zenon DEF UploadChanges, SafeInv, HostInv
  <2>2. PendingUploaded(g)'
    BY <1>s, <2>1 DEF PendingUploaded
  <2>3. QED
    BY <1>s, <2>1, <2>2, Zenon DEF PhaseInv, IsReplay
<1>7. PendingUploaded(h)'
  <2>1. /\ NewSnapshot(h).version = cache[h].version + 1
        /\ NewSnapshot(h).epoch = cache[h].epoch
    BY Zenon DEF NewSnapshot
  <2>2. cache[h].epoch # 0
    BY <1>1, <1>0, Zenon DEF UploadChanges, HostInv, PhaseInv
  <2>3. Len(store) + 1 \in 1..Len(store')
    BY <1>s
  <2>4. /\ cache'[h].epoch = cache[h].epoch /\ cache'[h].version = cache[h].version
        /\ cache'[h].pending = Len(store) + 1
    BY <1>0, Zenon DEF UploadChanges
  <2>5. QED
    BY <1>s, <2>1, <2>2, <2>3, <2>4, Zenon DEF PendingUploaded
<1>8. PhaseInv(h)'
  <2>1. /\ inv'[h].phase = "commit" /\ inv'[h].request = inv[h].request
        /\ rpc'[h] = "sent" /\ cache'[h].epoch = cache[h].epoch
        /\ cache'[h].pending = Len(store) + 1 /\ inv[h].phase = "upload"
    BY <1>0, Zenon DEF UploadChanges
  <2>2. inv[h].request \in Requests /\ cache[h].epoch # 0
    BY <1>1, <2>1, Zenon DEF HostInv, PhaseInv
  <2>3. QED
    BY <1>s, <2>1, <2>2 DEF PhaseInv
<1>9. LateUploaded'
  <2>1. late' = late
    BY <1>0, Zenon DEF UploadChanges
  <2>2. QED
    BY <1>s, <2>1 DEF SafeInv, LateUploaded
<1>10. StoreFollowsHeads'
  <2>1. PICK s \in heads : s.version = cache[h].version /\ s.request = cache[h].request
    BY <1>1, <1>0, Zenon DEF UploadChanges, HostInv, PhaseInv, CacheFromHeads
  <2>2. ASSUME NEW t \in heads, t.version = cache[h].version, t.request \in Calls
        PROVE  inv[h].request # t.request
    BY <1>1, <2>1, <2>2, <1>0, OneRequestPerVersion DEF UploadChanges, HostInv, PhaseInv, IsReplay
  <2>3. cache[h].version <= row.version /\ cache[h].version \in Nat /\ row.version \in Nat
    BY <1>1, <2>1, CacheType, Zenon DEF SafeInv, RowHistory, TypeOK, ObjectPlacement
  <2>4. NewSnapshot(h).version = cache[h].version + 1 /\ NewSnapshot(h).request = inv[h].request
    BY Zenon DEF NewSnapshot
  <2>5. ASSUME NEW o \in 1..Len(store')
        PROVE  /\ store'[o].version >= 1 /\ store'[o].version <= row.version + 1
               /\ \A t \in heads : t.version + 1 = store'[o].version /\ t.request \in Calls =>
                                       store'[o].request # t.request
    <3>1. CASE o \in 1..Len(store)
      <4>1. store'[o] = store[o]
        BY <1>s, <3>1, Zenon
      <4>2. QED
        BY <3>1, <4>1, Zenon DEF SafeInv, StoreFollowsHeads
    <3>2. CASE o = Len(store) + 1
      <4>1. store'[o] = NewSnapshot(h)
        BY <1>s, <3>2, Zenon
      <4>2. QED
        BY <1>2, <2>2, <2>3, <2>4, <4>1
    <3>3. QED
      BY <1>s, <3>1, <3>2
  <2>6. QED
    BY <1>s, <2>5, Zenon DEF StoreFollowsHeads
<1>11. RepliesCommitted'
  BY <1>0, Zenon DEF UploadChanges, RepliesCommitted
<1>12. QED
  BY <1>1, <1>3, <1>4, <1>5, <1>6, <1>7, <1>8, <1>9, <1>10, <1>11, Zenon DEF SafeInv, HostInv

\* SafeInv is inductive.
LEMMA NextSafe == SafeInv /\ [Next]_vars => SafeInv'
<1> SUFFICES ASSUME SafeInv, [Next]_vars PROVE SafeInv'
  BY Zenon
<1>1. ASSUME NEW h \in Hosts, CommitState(h) PROVE SafeInv'
  <2>1. HostInv(h) /\ TypeOK /\ cache[h].pending # 0 /\ TypeOK'
    BY <1>1, TypesPreserved, Zenon DEF SafeInv, CommitState, HostInv, PhaseInv, Next
  <2>2. CommitOf(h) \in StateCommitRequest
    BY <2>1, CommitOfType, Zenon DEF HostInv
  <2>3. /\ CommitMatches(row, CommitOf(h)) /\ row' = Committed(row, CommitOf(h))
        /\ heads' = heads \cup {row'} /\ reply' = NoReply
        /\ UNCHANGED <<store, cache, inv, late>>
        /\ rpc[h] = "sent" /\ rpc'[h] = "ok" /\ \A g \in Hosts \ {h} : rpc'[g] = rpc[g]
    BY <1>1, <2>1, Zenon DEF CommitState, TypeOK
  <2>4. CommitOf(h).version = cache[h].version /\ CommitOf(h).object = cache[h].pending
        /\ CommitOf(h).epoch = cache[h].epoch
        /\ CommitOf(h).request = store[cache[h].pending].request
    BY Zenon DEF CommitOf
  <2>5. row'.version = cache[h].version + 1 /\ row'.object = cache[h].pending
    BY <2>3, <2>4, Zenon DEF Committed, CommitMatches
  <2>6. \A g \in Hosts : HostInv(g)'
    BY <2>1, <2>3, <2>5, HeadsGrow, Zenon
  <2>7. QED
    BY <2>1, <2>2, <2>3, <2>4, <2>6, CommitSafe, Zenon DEF HostInv, PendingUploaded
<1>2. ASSUME NEW commit \in late, CommitLate(commit) PROVE SafeInv'
  <2>1. TypeOK /\ TypeOK' /\ commit \in StateCommitRequest
    BY <1>2, TypesPreserved, Zenon DEF SafeInv, TypeOK, Next
  <2>2. \A g \in Hosts : HostInv(g)'
    BY <1>2, <2>1, HeadsGrow, Zenon DEF CommitLate
  <2>3. QED
    BY <1>2, <2>1, <2>2, CommitSafe, Zenon DEF CommitLate, SafeInv, LateUploaded
<1>3. CASE UNCHANGED vars
  <2>1. TypeOK' /\ RowHistory' /\ HeadReadable' /\ LinearHistory'
    BY <1>3, Zenon DEF vars, SafeInv, TypeOK, RowHistory, HeadReadable, SnapshotFits, LinearHistory
  <2>2. LateUploaded' /\ StoreFollowsHeads' /\ RepliesCommitted'
    BY <1>3, Zenon DEF vars, SafeInv, LateUploaded, StoreFollowsHeads, RepliesCommitted, StateAt
  <2>3. \A h \in Hosts : HostInv(h)'
    BY <1>3, <2>1, HeadsGrow, Zenon DEF vars
  <2>4. QED
    BY <2>1, <2>2, <2>3, Zenon DEF SafeInv
<1>4. QED
  BY <1>1, <1>2, <1>3, ClaimSafe, UploadSafe, HostStepSafe, Zenon DEF Next

\* The placement row's history is linear and readable, and completed replies
\* report committed states, whatever fails and however stale a caller's target.
THEOREM Safety == Spec => []SafeInv
  BY InitSafe, NextSafe, PTL DEF Spec

\* Variables keep their types.
THEOREM TypeCorrect == Spec => []TypeOK
<1>1. SafeInv => TypeOK
  BY Zenon DEF SafeInv
<1>2. QED
  BY <1>1, Safety, PTL

\* from_loaded accepts the snapshot of every capability ever issued.
THEOREM HeadsReadable == Spec => []HeadReadable
<1>1. SafeInv => HeadReadable
  BY Zenon DEF SafeInv
<1>2. QED
  BY <1>1, Safety, PTL

\* Fencing by owner epoch and state version (claim, commit_state).
THEOREM HistoryLinear == Spec => []LinearHistory
<1>1. SafeInv => LinearHistory
  BY Zenon DEF SafeInv
<1>2. QED
  BY <1>1, Safety, PTL

\* A completed reply reports a committed state (invoke_actor_once).
THEOREM CompletedCommitted == Spec => []RepliesCommitted
<1>1. SafeInv => RepliesCommitted
  BY Zenon DEF SafeInv
<1>2. QED
  BY <1>1, Safety, PTL

\* The call committed last is not applied again (CachedActorState::replay).
THEOREM CallsOnce == Spec => []CallNotReapplied
<1>1. ASSUME SafeInv PROVE CallNotReapplied
  <2>1. SUFFICES ASSUME NEW s \in heads, NEW t \in heads, t.version = s.version + 1,
                        s.request \in Calls
                 PROVE  s.request # t.request
    BY Zenon DEF CallNotReapplied
  <2>2. s.version \in Nat /\ t.version \in Nat /\ t.version # 0
    BY <1>1, <2>1 DEF SafeInv, TypeOK, ObjectPlacement
  <2>3. t.object \in 1..Len(store) /\ store[t.object].version = t.version
        /\ store[t.object].request = t.request
    BY <1>1, <2>2, Zenon DEF SafeInv, HeadReadable, SnapshotFits
  <2>4. QED
    BY <1>1, <2>1, <2>3, Zenon DEF SafeInv, StoreFollowsHeads
<1>2. QED
  BY <1>1, Safety, PTL

=============================================================================
