-------------------- MODULE DurableActorExact_proofs --------------------
(***************************************************************************)
(* The theorems about DurableActor that need two things of the environment:  *)
(* a host that lost the actor does not get it back, and no handler is        *)
(* dropped while it runs.  The invariant SafeInv is proved without them.     *)
(***************************************************************************)
EXTENDS DurableActor_proofs

-----------------------------------------------------------------------------
(* What SafeInv gives about a host's cache.                                  *)

\* The owner of the epoch of a host's cache entry is that host.
LEMMA CacheEpochOwned ==
  ASSUME SafeInv, NEW h \in Hosts, cache[h].epoch # 0, NEW t \in heads,
         t.epoch = cache[h].epoch
  PROVE  t.owner = h
  BY DEF SafeInv, HostInv, CacheFromHeads, LinearHistory

\* The cached state is the state of every head with the cached version.
LEMMA CachedStateAt ==
  ASSUME SafeInv, NEW h \in Hosts, cache[h].epoch # 0, NEW t \in heads,
         t.version = cache[h].version
  PROVE  StateAt(t) = cache[h].state
<1>1. PICK s \in heads : s.version = cache[h].version /\ StateAt(s) = cache[h].state
  BY Zenon DEF SafeInv, HostInv, CacheFromHeads
<1>2. QED
  BY <1>1, OneRequestPerVersion, Zenon

\* A cache at version 0 holds the state of an actor that was never committed.
LEMMA FreshCacheEmpty ==
  ASSUME SafeInv, NEW h \in Hosts, cache[h].epoch # 0, cache[h].version = 0
  PROVE  cache[h].state = << >>
  BY Zenon DEF SafeInv, HostInv, CacheFromHeads, StateAt

-----------------------------------------------------------------------------
(* ExactInv is inductive relative to SafeInv.                                *)

\* ExactInv holds before the actor is first placed.
LEMMA InitExact == Init => ExactInv
<1> SUFFICES ASSUME Init PROVE ExactInv
  BY Zenon
<1> USE DEF Init
<1>1. StoreExtendsHeads /\ OneEpochPerHost /\ LateFromHeads
  BY Zenon DEF StoreExtendsHeads, OneEpochPerHost, LateFromHeads
<1>2. ASSUME NEW h \in Hosts PROVE HostExact(h)
  BY Zenon DEF HostExact, NextExtendsCache, InstanceFresh, EmptyCacheUnused, LateBehindCache,
         CacheAtHead, Idle, NoInstance
<1>3. QED
  BY <1>1, <1>2, Zenon DEF ExactInv

\* A step of one host that leaves row, snapshots and the other hosts alone, and
\* abandons at most a commit of its own.
LEMMA OneHostExact ==
  ASSUME SafeInv, ExactInv, NEW h \in Hosts,
         UNCHANGED <<row, heads, store>>,
         \A g \in Hosts \ {h} : /\ cache'[g] = cache[g] /\ inv'[g] = inv[g]
                                /\ node'[g] = node[g] /\ (g \in up' <=> g \in up),
         late' = late \/ late' = Abandoned(h),
         HostExact(h)'
  PROVE  ExactInv'
<1>1. StoreExtendsHeads' /\ OneEpochPerHost'
  BY Zenon DEF ExactInv, StoreExtendsHeads, Extends, StateAt, OneEpochPerHost
<1>2. ASSUME NEW commit \in late'
      PROVE  \/ commit \in late
             \/ /\ commit = CommitOf(h) /\ commit.owner = h
                /\ commit.epoch = cache[h].epoch /\ cache[h].epoch # 0
  BY DEF Abandoned, CommitOf, SafeInv, HostInv, PhaseInv, PendingUploaded
<1>3. LateFromHeads'
  BY <1>2 DEF SafeInv, HostInv, CacheFromHeads, ExactInv, LateFromHeads
<1>4. ASSUME NEW g \in Hosts \ {h} PROVE HostExact(g)'
  <2>1. /\ HostExact(g) /\ cache'[g] = cache[g] /\ inv'[g] = inv[g] /\ node'[g] = node[g]
        /\ (g \in up' <=> g \in up)
    BY Zenon DEF ExactInv
  <2>2. NextExtendsCache(g)' /\ InstanceFresh(g)' /\ CacheAtHead(g)'
    BY <2>1 DEF HostExact, NextExtendsCache, InstanceFresh, CacheAtHead, CommitOf, IsReplayedCommit
  <2>3. EmptyCacheUnused(g)' /\ LateBehindCache(g)'
    BY <1>2, <2>1 DEF HostExact, EmptyCacheUnused, LateBehindCache, CommitOf
  <2>4. QED
    BY <2>2, <2>3, Zenon DEF HostExact
<1>5. QED
  BY <1>1, <1>3, <1>4, Zenon DEF ExactInv

\* What a host's cache says about heads and abandoned commits stays true while
\* the entry keeps its place.
LEMMA CacheKept ==
  ASSUME SafeInv, ExactInv, NEW h \in Hosts, UNCHANGED <<heads, store, up>>,
         cache'[h].epoch = cache[h].epoch, cache'[h].version = cache[h].version,
         cache'[h].pending = cache[h].pending,
         late' = late \/ late' = Abandoned(h)
  PROVE  EmptyCacheUnused(h)' /\ LateBehindCache(h)' /\ CacheAtHead(h)'
<1>1. HostExact(h) /\ CommitOf(h)' = CommitOf(h)
  BY Zenon DEF ExactInv, CommitOf
<1>2. ASSUME NEW commit \in late'
      PROVE  \/ commit \in late
             \/ commit = CommitOf(h) /\ cache[h].epoch # 0 /\ cache[h].pending # 0
  BY Zenon DEF Abandoned, SafeInv, HostInv, PhaseInv, PendingUploaded
<1>3. EmptyCacheUnused(h)'
  BY <1>1, <1>2, Zenon DEF HostExact, EmptyCacheUnused
<1>4. LateBehindCache(h)'
  BY <1>1, <1>2, Zenon DEF HostExact, LateBehindCache
<1>5. CacheAtHead(h)'
  BY <1>1, Zenon DEF HostExact, CacheAtHead
<1>6. QED
  BY <1>3, <1>4, <1>5, Zenon

\* A host that does not find its cache entry at the target's epoch has none,
\* has not been used in its epoch, and has no instance of the actor.
LEMMA LoadsOnce ==
  ASSUME SafeInv, ExactInv, NEW h \in Hosts, NEW target \in heads, target.owner = h,
         h \in up, inv[h].phase = "idle", cache[h].epoch # target.epoch
  PROVE  /\ cache[h].epoch = 0 /\ ~node[h].live
         /\ \A t \in heads : t.owner = h => t = target
         /\ \A commit \in late : commit.owner # h
<1>1. cache[h].epoch = 0
  BY DEF SafeInv, HostInv, CacheFromHeads, ExactInv, OneEpochPerHost
<1>2. QED
  BY <1>1, Zenon DEF ExactInv, HostExact, InstanceFresh, EmptyCacheUnused

\* Every step of a host keeps ExactInv.
LEMMA HostStepExact ==
  ASSUME SafeInv, ExactInv, ~Cancels, NEW h \in Hosts, HostStep(h)
  PROVE  ExactInv'
<1>1. TypeOK /\ HostInv(h) /\ HostExact(h)
  BY Zenon DEF SafeInv, ExactInv
<1>2. ASSUME UNCHANGED <<row, heads, store>>, HostExact(h)', late' = late \/ late' = Abandoned(h),
             \A g \in Hosts \ {h} : /\ cache'[g] = cache[g] /\ inv'[g] = inv[g]
                                    /\ node'[g] = node[g] /\ (g \in up' <=> g \in up)
      PROVE  ExactInv'
  BY <1>2, OneHostExact, Zenon
<1>3. ASSUME NEW target \in heads, LoadFails(h, target) PROVE ExactInv'
  <2>1. /\ UNCHANGED <<row, heads, store, up, node, inv, rpc, late>>
        /\ h \in up /\ inv[h].phase = "idle" /\ target.owner = h
        /\ cache[h].epoch # target.epoch /\ cache' = [cache EXCEPT ![h] = NoCache]
    BY <1>3, Zenon DEF LoadFails, NeedsSnapshot, SetCache
  <2>2. cache'[h] = NoCache /\ \A g \in Hosts \ {h} : cache'[g] = cache[g]
    BY <1>1, <2>1, Zenon DEF TypeOK
  <2>3. /\ cache[h].epoch = 0 /\ ~node[h].live
        /\ \A t \in heads : t.owner = h => t = target
        /\ \A commit \in late : commit.owner # h
    BY <2>1, LoadsOnce, Zenon
  <2>4. \A t \in heads : t.epoch # 0
    BY <2>1 DEF SafeInv, RowHistory
  <2>5. HostExact(h)'
    BY <2>1, <2>2, <2>3, <2>4
    DEF HostExact, NextExtendsCache, InstanceFresh, EmptyCacheUnused, LateBehindCache,
        CacheAtHead, NoCache
  <2>6. QED
    BY <1>2, <2>1, <2>2, <2>5, Zenon
<1>4. ASSUME NEW target \in heads, NEW r \in Requests, Invoke(h, r, target) PROVE ExactInv'
  <2> DEFINE entry == Loaded(h, target)
  <2>1. /\ UNCHANGED <<row, heads, store, up, node, late>>
        /\ cache' = [cache EXCEPT ![h] = entry]
        /\ inv' = [inv EXCEPT ![h] =
                     [phase |-> IF entry.pending # 0 THEN "resolve" ELSE "ready",
                      request |-> r, next |-> << >>]]
        /\ h \in up /\ inv[h].phase = "idle" /\ target.owner = h
    BY <1>4, Zenon DEF Invoke, SetCache, SetInv
  <2>2. /\ cache'[h] = entry
        /\ inv'[h].phase = IF entry.pending # 0 THEN "resolve" ELSE "ready"
        /\ \A g \in Hosts \ {h} : cache'[g] = cache[g] /\ inv'[g] = inv[g]
    BY <1>1, <2>1, Zenon DEF TypeOK
  <2>3. NextExtendsCache(h)'
    BY <2>2, Zenon DEF NextExtendsCache
  <2>4. CASE cache[h].epoch = target.epoch
    <3>1. entry = cache[h]
      BY <2>4, Zenon DEF Loaded
    <3>2. InstanceFresh(h)'
      BY <1>1, <2>1, <2>2, <3>1 DEF HostExact, InstanceFresh
    <3>3. EmptyCacheUnused(h)' /\ LateBehindCache(h)' /\ CacheAtHead(h)'
      BY <2>1, <2>2, <3>1, CacheKept, Zenon
    <3>4. QED
      BY <1>2, <2>1, <2>2, <2>3, <3>2, <3>3, Zenon DEF HostExact
  <2>5. CASE cache[h].epoch # target.epoch
    <3>1. /\ ~node[h].live
          /\ \A t \in heads : t.owner = h => t = target
          /\ \A commit \in late : commit.owner # h
      BY <2>1, <2>5, LoadsOnce, Zenon
    <3>2. entry.epoch = target.epoch /\ entry.version = target.version
      BY <2>5, Zenon DEF Loaded, NoCache
    <3>3. target.epoch # 0 /\ target.epoch \in Nat /\ target.version \in Nat
      BY <1>1 DEF SafeInv, RowHistory, TypeOK, ObjectPlacement
    <3>4. ASSUME NEW t \in heads, t.epoch = target.epoch PROVE t = target
      BY <2>1, <3>1, <3>4, Zenon DEF SafeInv, LinearHistory
    <3>5. InstanceFresh(h)'
      BY <2>1, <2>2, <3>1 DEF InstanceFresh
    <3> HIDE DEF entry
    <3>6. EmptyCacheUnused(h)' /\ LateBehindCache(h)' /\ CacheAtHead(h)'
      BY <2>1, <2>2, <3>1, <3>2, <3>3, <3>4 DEF EmptyCacheUnused, LateBehindCache, CacheAtHead
    <3>7. QED
      BY <1>2, <2>1, <2>2, <2>3, <3>5, <3>6, Zenon DEF HostExact
  <2>6. QED
    BY <2>4, <2>5, Zenon
<1>5. ASSUME UNCHANGED <<heads, store, cache, up>>, late' = late \/ late' = Abandoned(h),
             inv'[h] = Idle,
             node'[h].live => inv[h].phase = "ready" /\ node'[h].state = cache[h].state
      PROVE  HostExact(h)'
  <2>1. EmptyCacheUnused(h)' /\ LateBehindCache(h)' /\ CacheAtHead(h)'
    BY <1>5, CacheKept, Zenon
  <2>2. NextExtendsCache(h)'
    BY <1>5 DEF NextExtendsCache, Idle
  <2>3. InstanceFresh(h)'
    BY <1>1, <1>5 DEF HostInv, PhaseInv, InstanceFresh, Idle
  <2>4. QED
    BY <2>1, <2>2, <2>3, Zenon DEF HostExact
<1>6. ASSUME CommitMisses(h) \/ RereadRow(h) PROVE ExactInv'
  <2>1. UNCHANGED <<row, heads, store, up, cache, node, inv, late>>
    BY <1>6, Zenon DEF CommitMisses, RereadRow
  <2>2. HostExact(h)'
    BY <1>1, <2>1, CacheKept, Zenon DEF HostExact, NextExtendsCache, InstanceFresh
  <2>3. QED
    BY <1>2, <2>1, <2>2, Zenon
<1>7. ASSUME NEW ticket \in BOOLEAN, CommitSucceeds(h, ticket) PROVE ExactInv'
  <2> DEFINE snapshot == store[cache[h].pending]
  <2>1. /\ UNCHANGED <<row, heads, store, up, node, late>> /\ rpc[h] = "ok"
        /\ cache'[h].epoch = cache[h].epoch /\ cache'[h].version = snapshot.version
        /\ cache'[h].state = snapshot.state /\ cache'[h].pending = 0
        /\ \A g \in Hosts \ {h} : cache'[g] = cache[g] /\ inv'[g] = inv[g]
    BY <1>1, <1>7, Zenon DEF CommitSucceeds, SetCache, SetInv, TypeOK
  <2>2. \/ inv[h].phase = "commit" /\ inv'[h] = Idle
        \/ inv[h].phase # "commit" /\ inv'[h] = [inv[h] EXCEPT !.phase = "ready"]
    BY <1>1, <1>7, Zenon DEF CommitSucceeds, SetInv, TypeOK
  <2>3. \/ inv[h].phase = "commit" /\ inv'[h].phase = "idle"
        \/ inv[h].phase = "resolve" /\ inv'[h].phase = "ready"
    BY <1>1, <2>1, <2>2, InvType DEF Idle, Invocation, HostInv, PhaseInv
  <2>4. /\ cache[h].epoch # 0 /\ cache[h].pending # 0
        /\ snapshot.version = cache[h].version + 1 /\ cache[h].version \in Nat
    BY <1>1, <2>1, CacheType, Zenon DEF HostInv, PhaseInv, PendingUploaded
  <2>5. InstanceFresh(h)'
    BY <1>1, <2>1, <2>3, <2>4, Zenon DEF HostExact, InstanceFresh
  <2>6. NextExtendsCache(h)' /\ EmptyCacheUnused(h)'
    BY <2>1, <2>3, <2>4, Zenon DEF NextExtendsCache, EmptyCacheUnused
  <2>7. \A commit \in late : commit.version \in Nat
    BY <1>1, Zenon DEF TypeOK, StateCommitRequest
  <2>8. LateBehindCache(h)'
    BY <1>1, <2>1, <2>4, <2>7 DEF HostExact, LateBehindCache, CommitOf
  <2>9. \A t \in heads : t.version \in Nat
    BY <1>1, Zenon DEF TypeOK, ObjectPlacement
  <2>10. CacheAtHead(h)'
    <3>1. \A t \in heads :
              t.epoch = cache[h].epoch => t.version <= cache[h].version + 1
      BY <1>1, <2>4, <2>9 DEF HostExact, CacheAtHead, IsReplayedCommit, CommitOf
    <3>2. QED
      BY <2>1, <2>4, <3>1, Zenon DEF CacheAtHead
  <2>11. QED
    BY <1>2, <2>1, <2>5, <2>6, <2>8, <2>10, Zenon DEF HostExact
<1>8. ASSUME CommitFails(h) PROVE ExactInv'
  <2>1. /\ UNCHANGED <<row, heads, store, up, cache>> /\ late' = Abandoned(h)
        /\ inv'[h] = Idle /\ rpc[h] # "none"
        /\ node' = IF inv[h].phase = "commit" THEN [node EXCEPT ![h] = NoInstance] ELSE node
        /\ \A g \in Hosts \ {h} : inv'[g] = inv[g] /\ node'[g] = node[g]
    BY <1>1, <1>8, Zenon DEF CommitFails, SetInv, TypeOK
  <2>2. ~node'[h].live
    BY <1>1, <2>1, Zenon DEF HostInv, PhaseInv, HostExact, InstanceFresh, NoInstance, TypeOK
  <2>3. QED
    BY <1>2, <1>5, <2>1, <2>2, Zenon
<1>9. ASSUME Replay(h) \/ SendFails(h) PROVE ExactInv'
  <2>1. /\ UNCHANGED <<row, heads, store, up, cache, node, late>>
        /\ inv'[h] = Idle /\ inv[h].phase = "ready"
        /\ \A g \in Hosts \ {h} : inv'[g] = inv[g]
    BY <1>1, <1>9, Zenon DEF Replay, SendFails, SetInv, TypeOK
  <2>2. node[h].live => node[h].state = cache[h].state
    BY <1>1, <2>1, Zenon DEF HostExact, InstanceFresh
  <2>3. QED
    BY <1>2, <1>5, <2>1, <2>2, Zenon
<1>10. ASSUME NEW next \in Outcomes(h), Execute(h, next) PROVE ExactInv'
  <2>1. /\ UNCHANGED <<row, heads, store, up, cache, late>> /\ inv[h].phase = "ready"
        /\ node'[h].live /\ node'[h].state = next
        /\ \A g \in Hosts \ {h} : inv'[g] = inv[g] /\ node'[g] = node[g]
    BY <1>1, <1>10, Zenon DEF Execute, SetInv, TypeOK
  <2>2. \/ inv'[h] = Idle /\ next = cache[h].state
        \/ /\ inv'[h].phase = "publish" /\ inv'[h].request = inv[h].request
           /\ inv'[h].next = next
           /\ cache[h].version = 0 \/ next # cache[h].state
    BY <1>1, <1>10 DEF Execute, SetInv, TypeOK
  <2>3. CASE inv'[h] = Idle /\ next = cache[h].state
    BY <1>2, <1>5, <2>1, <2>3, Zenon
  <2>4. CASE /\ inv'[h].phase = "publish" /\ inv'[h].request = inv[h].request
             /\ inv'[h].next = next
             /\ cache[h].version = 0 \/ next # cache[h].state
    <3>1. Base(h) = cache[h].state
      BY <1>1, <2>1, Zenon DEF HostExact, InstanceFresh, Base
    <3>2. cache[h].version = 0 => cache[h].state = << >>
      BY <1>1, <2>1, FreshCacheEmpty, Zenon DEF HostInv, PhaseInv
    <3>3. \/ next = Append(cache[h].state, inv[h].request)
          \/ cache[h].version = 0 /\ next = << >>
      BY <2>4, <3>1, <3>2, Zenon DEF Outcomes
    <3>4. NextExtendsCache(h)'
      BY <2>1, <2>4, <3>3, Zenon DEF NextExtendsCache
    <3>5. InstanceFresh(h)'
      BY <2>1, <2>4, Zenon DEF InstanceFresh
    <3>6. QED
      BY <1>2, <2>1, <3>4, <3>5, CacheKept, Zenon DEF HostExact
  <2>5. QED
    BY <2>2, <2>3, <2>4, Zenon
<1>11. ASSUME ExecuteFails(h) PROVE ExactInv'
  <2>1. /\ UNCHANGED <<row, heads, store, up, cache, late>>
        /\ inv'[h] = Idle /\ ~node'[h].live
        /\ \A g \in Hosts \ {h} : inv'[g] = inv[g] /\ node'[g] = node[g]
    BY <1>1, <1>11, Zenon DEF ExecuteFails, SetInv, TypeOK, NoInstance
  <2>2. QED
    BY <1>2, <1>5, <2>1, Zenon
<1>12. ASSUME DropInstance(h) PROVE ExactInv'
  <2>1. /\ UNCHANGED <<row, heads, store, up, cache, inv, late>> /\ ~node'[h].live
        /\ \A g \in Hosts \ {h} : node'[g] = node[g]
    BY <1>1, <1>12, Zenon DEF DropInstance, TypeOK, NoInstance
  <2>2. NextExtendsCache(h)' /\ InstanceFresh(h)'
    BY <1>1, <2>1, Zenon DEF HostExact, NextExtendsCache, InstanceFresh
  <2>3. QED
    BY <1>2, <2>1, <2>2, CacheKept, Zenon DEF HostExact
<1>13. ASSUME UseTicket(h) \/ PrepareStateWrite(h) PROVE ExactInv'
  <2>1. /\ UNCHANGED <<row, heads, store, up, node, late>> /\ inv[h].phase = "publish"
        /\ cache' = [cache EXCEPT ![h] = [cache[h] EXCEPT !.next_write = 0]]
        /\ inv' = [inv EXCEPT ![h] = [inv[h] EXCEPT !.phase = "upload"]]
    BY <1>13, Zenon DEF UseTicket, PrepareStateWrite, SetCache, SetInv
  <2>2. /\ inv'[h].phase = "upload" /\ inv'[h].request = inv[h].request
        /\ inv'[h].next = inv[h].next
        /\ \A g \in Hosts \ {h} : inv'[g] = inv[g]
    BY <1>1, <2>1, InvType, Zenon DEF TypeOK, Invocation
  <2>3. /\ cache'[h].epoch = cache[h].epoch /\ cache'[h].version = cache[h].version
        /\ cache'[h].state = cache[h].state /\ cache'[h].pending = cache[h].pending
        /\ \A g \in Hosts \ {h} : cache'[g] = cache[g]
    BY <1>1, <2>1, CacheType, Zenon DEF TypeOK, CachedActorState
  <2>4. NextExtendsCache(h)' /\ InstanceFresh(h)'
    BY <1>1, <2>1, <2>2, <2>3, Zenon DEF HostExact, NextExtendsCache, InstanceFresh
  <2>5. QED
    BY <1>2, <2>1, <2>2, <2>3, <2>4, CacheKept, Zenon DEF HostExact
<1>14. ASSUME PrepareFails(h) \/ UploadFails(h) PROVE ExactInv'
  <2>1. /\ UNCHANGED <<row, heads, store, up, late>>
        /\ node' = [node EXCEPT ![h] = NoInstance]
        /\ cache' = [cache EXCEPT ![h] = [cache[h] EXCEPT !.next_write = 0]]
        /\ inv' = [inv EXCEPT ![h] = Idle]
    BY <1>14, Zenon DEF PrepareFails, UploadFails, PublishFails, SetCache, SetInv
  <2>2. /\ inv'[h] = Idle /\ ~node'[h].live
        /\ \A g \in Hosts \ {h} : inv'[g] = inv[g] /\ node'[g] = node[g]
    BY <1>1, <2>1, Zenon DEF TypeOK, NoInstance
  <2>3. /\ cache'[h].epoch = cache[h].epoch /\ cache'[h].version = cache[h].version
        /\ cache'[h].pending = cache[h].pending
        /\ \A g \in Hosts \ {h} : cache'[g] = cache[g]
    BY <1>1, <2>1, CacheType, Zenon DEF TypeOK, CachedActorState
  <2>4. NextExtendsCache(h)' /\ InstanceFresh(h)'
    BY <2>2 DEF NextExtendsCache, InstanceFresh, Idle
  <2>5. QED
    BY <1>2, <2>1, <2>2, <2>3, <2>4, CacheKept, Zenon DEF HostExact
<1>15. ASSUME Crash(h) PROVE ExactInv'
  <2>1. /\ UNCHANGED <<row, heads, store>> /\ late' = Abandoned(h) /\ up' = up \ {h}
        /\ cache'[h] = NoCache /\ inv'[h] = Idle /\ ~node'[h].live
        /\ \A g \in Hosts \ {h} : cache'[g] = cache[g] /\ inv'[g] = inv[g] /\ node'[g] = node[g]
    BY <1>1, <1>15, Zenon DEF Crash, SetCache, SetInv, TypeOK, NoInstance
  <2>2. \A t \in heads : t.epoch # 0
    BY <2>1 DEF SafeInv, RowHistory
  <2>3. HostExact(h)'
    BY <2>1, <2>2
    DEF HostExact, NextExtendsCache, InstanceFresh, EmptyCacheUnused, LateBehindCache,
        CacheAtHead, NoCache, Idle
  <2>4. QED
    BY <1>2, <2>1, <2>3, Zenon
<1>16. QED
  BY <1>3, <1>4, <1>6, <1>7, <1>8, <1>9, <1>10, <1>11, <1>12, <1>13, <1>14, <1>15, Zenon
  DEF HostStep, Cancel

\* A claim for a host that never owned the actor keeps ExactInv.
LEMMA ClaimExact ==
  ASSUME SafeInv, ExactInv, ~HostsReturn, NEW h \in Hosts, Claim(h)
  PROVE  ExactInv'
<1>1. /\ row'.owner = h /\ row'.epoch = row.epoch + 1 /\ row'.version = row.version
      /\ row'.object = row.object /\ row'.request = row.request
      /\ heads' = heads \cup {row'}
      /\ UNCHANGED <<store, up, cache, node, inv, late>>
      /\ \A t \in heads : t.owner # h
  BY Zenon DEF Claim, Claimed
<1>2. /\ row.epoch \in Nat
      /\ \A t \in heads : t.epoch \in Nat /\ t.epoch <= row.epoch
  BY Zenon DEF SafeInv, TypeOK, ObjectPlacement, RowHistory
<1>3. StoreExtendsHeads'
  <2>1. CASE row.epoch = 0
    BY <1>1, <2>1 DEF SafeInv, RowHistory, ExactInv, StoreExtendsHeads
  <2>2. CASE row.epoch # 0
    <3>1. row \in heads /\ StateAt(row') = StateAt(row)
      BY <1>1, <2>2, Zenon DEF SafeInv, RowHistory, StateAt
    <3>2. \A t : StateAt(t)' = StateAt(t)
      BY <1>1, Zenon DEF StateAt
    <3>3. ASSUME NEW o \in 1..Len(store), NEW t \in heads', t.version + 1 = store[o].version
          PROVE  Extends(store[o].state, store[o].request, t)
      BY <1>1, <3>1, <3>3, Zenon DEF ExactInv, StoreExtendsHeads, Extends
    <3>4. QED
      BY <1>1, <3>2, <3>3, Zenon DEF StoreExtendsHeads, Extends
  <2>3. QED
    BY <2>1, <2>2, Zenon
<1>4. OneEpochPerHost' /\ LateFromHeads'
  BY <1>1, Zenon DEF ExactInv, OneEpochPerHost, LateFromHeads
<1>5. ASSUME NEW g \in Hosts PROVE HostExact(g)'
  <2>1. HostExact(g) /\ CommitOf(g)' = CommitOf(g)
    BY <1>1, Zenon DEF ExactInv, CommitOf
  <2>2. NextExtendsCache(g)' /\ InstanceFresh(g)' /\ LateBehindCache(g)'
    BY <1>1, <2>1, Zenon DEF HostExact, NextExtendsCache, InstanceFresh, LateBehindCache
  <2>3. EmptyCacheUnused(g)'
    BY <1>1, <2>1, Zenon DEF HostExact, EmptyCacheUnused, ExactInv, LateFromHeads
  <2>4. row'.epoch # cache[g].epoch
    BY <1>1, <1>2 DEF SafeInv, HostInv, CacheFromHeads
  <2>5. CacheAtHead(g)'
    BY <1>1, <2>1, <2>4, Zenon DEF HostExact, CacheAtHead
  <2>6. QED
    BY <2>2, <2>3, <2>5, Zenon DEF HostExact
<1>6. QED
  BY <1>3, <1>4, <1>5, Zenon DEF ExactInv

\* A commit keeps ExactInv when it is its host's pending commit or is behind
\* its host's cache.
LEMMA CommitExact ==
  ASSUME SafeInv, ExactInv, NEW commit \in StateCommitRequest, CommitMatches(row, commit),
         row' = Committed(row, commit), heads' = heads \cup {row'},
         UNCHANGED <<store, up, cache, node, inv>>, late' \subseteq late,
         LET h == commit.owner
         IN  \/ /\ cache[h].epoch = commit.epoch /\ cache[h].pending # 0
                /\ commit = CommitOf(h)
             \/ commit \in late
  PROVE  ExactInv'
<1>1. TypeOK
  BY Zenon DEF SafeInv
<1>2. /\ row'.owner = row.owner /\ row'.epoch = row.epoch /\ row'.version = row.version + 1
      /\ row'.object = commit.object /\ row'.request = commit.request
      /\ commit.owner = row.owner /\ commit.epoch = row.epoch /\ commit.version = row.version
  BY Zenon DEF Committed, CommitMatches
<1>3. row.epoch \in Nat /\ row.version \in Nat
      /\ \A t \in heads : t.epoch \in Nat /\ t.version \in Nat
  BY <1>1, Zenon DEF TypeOK, ObjectPlacement
<1>4. row \in heads /\ row.epoch # 0 /\ row.owner \in Hosts
  BY <1>3, NoHostAssumption
  DEF SafeInv, RowHistory, NoPlacement, CommitMatches, StateCommitRequest
<1>5. StoreExtendsHeads'
  <2>1. ASSUME NEW o \in 1..Len(store)
        PROVE  store[o].version <= row.version + 1 /\ store[o].version \in Nat
    BY <1>1, StoreType, Zenon DEF SafeInv, StoreFollowsHeads
  <2>2. \A t : StateAt(t)' = StateAt(t)
    BY Zenon DEF StateAt
  <2>3. ASSUME NEW o \in 1..Len(store), NEW t \in heads', t.version + 1 = store[o].version
        PROVE  Extends(store[o].state, store[o].request, t)
    BY <1>2, <1>3, <2>1, <2>3 DEF ExactInv, StoreExtendsHeads
  <2>4. QED
    BY <1>4, <2>2, <2>3, Zenon DEF StoreExtendsHeads, Extends
<1>6. OneEpochPerHost' /\ LateFromHeads'
  BY <1>2, <1>4 DEF ExactInv, OneEpochPerHost, LateFromHeads
<1>7. ASSUME NEW g \in Hosts PROVE HostExact(g)'
  <2>1. HostExact(g) /\ CommitOf(g)' = CommitOf(g)
    BY Zenon DEF ExactInv, CommitOf
  <2>2. NextExtendsCache(g)' /\ InstanceFresh(g)' /\ LateBehindCache(g)'
    BY <2>1, Zenon DEF HostExact, NextExtendsCache, InstanceFresh, LateBehindCache
  <2>3. EmptyCacheUnused(g)'
    <3>1. CASE g = row.owner
      BY <1>2, <1>4, <2>1, <3>1, Zenon DEF HostExact, EmptyCacheUnused
    <3>2. CASE g # row.owner
      BY <1>2, <2>1, <3>2 DEF HostExact, EmptyCacheUnused
    <3>3. QED
      BY <3>1, <3>2, Zenon
  <2>4. CacheAtHead(g)'
    <3>1. CASE cache[g].epoch # row.epoch
      BY <1>2, <2>1, <3>1, Zenon DEF HostExact, CacheAtHead
    <3>2. CASE cache[g].epoch = row.epoch
      <4>1. g = commit.owner
        BY <1>2, <1>4, <3>2, CacheEpochOwned, Zenon
      <4>2. cache[g].version \in Nat
        BY <1>1, CacheType, Zenon
      <4>3. \/ cache[g].pending # 0 /\ commit = CommitOf(g)
            \/ commit.version < cache[g].version
        BY <1>2, <1>4, <2>1, <3>2, <4>1, Zenon DEF HostExact, LateBehindCache
      <4>4. \/ row'.version <= cache[g].version
            \/ cache[g].pending # 0 /\ IsReplayedCommit(row', CommitOf(g))
        BY <1>2, <1>3, <4>2, <4>3 DEF IsReplayedCommit
      <4>5. QED
        BY <2>1, <4>4, Zenon DEF HostExact, CacheAtHead
    <3>3. QED
      BY <3>1, <3>2, Zenon
  <2>5. QED
    BY <2>2, <2>3, <2>4, Zenon DEF HostExact
<1>8. QED
  BY <1>5, <1>6, <1>7, Zenon DEF ExactInv

\* An upload keeps ExactInv.
LEMMA UploadExact ==
  ASSUME SafeInv, ExactInv, NEW h \in Hosts, Upload(h)
  PROVE  ExactInv'
<1>0. UploadChanges(h)
  BY UploadEffect, Zenon
<1>1. TypeOK /\ HostInv(h) /\ HostExact(h) /\ UNCHANGED <<up, node>>
  BY Zenon DEF SafeInv, ExactInv, Upload
<1>2. ASSUME NEW t \in heads
      PROVE  StateAt(t)' = StateAt(t) /\ t.version \in Nat
  BY <1>1, <1>0, Zenon DEF UploadChanges, SafeInv, HeadReadable, StateAt, TypeOK, ObjectPlacement
<1>3. /\ NewSnapshot(h).version = cache[h].version + 1
      /\ NewSnapshot(h).request = inv[h].request /\ NewSnapshot(h).state = inv[h].next
      /\ cache[h].version \in Nat
  BY <1>1, CacheType, Zenon DEF NewSnapshot
<1>4. /\ cache[h].epoch # 0 /\ cache[h].pending = 0
      /\ \/ inv[h].next = Append(cache[h].state, inv[h].request)
         \/ cache[h].version = 0 /\ inv[h].next = << >>
  BY <1>1, <1>0, Zenon DEF UploadChanges, HostInv, PhaseInv, HostExact, NextExtendsCache
<1>5. StoreExtendsHeads'
  <2>1. heads # {}
    BY <1>1, <1>4, Zenon DEF HostInv, CacheFromHeads
  <2>2. ASSUME NEW o \in 1..Len(store'), NEW t \in heads, t.version + 1 = store'[o].version
        PROVE  \/ store'[o].state = Append(StateAt(t), store'[o].request)
               \/ t.version = 0 /\ store'[o].state = << >>
    <3>1. CASE o \in 1..Len(store)
      BY <2>2, <3>1, <1>0, Zenon DEF UploadChanges, ExactInv, StoreExtendsHeads, Extends
    <3>2. CASE o = Len(store) + 1
      <4>1. t.version = cache[h].version
        BY <1>2, <1>3, <2>2, <3>2, <1>0 DEF UploadChanges
      <4>2. StateAt(t) = cache[h].state
        BY <1>4, <4>1, CachedStateAt, Zenon
      <4>3. QED
        BY <1>3, <1>4, <3>2, <4>1, <4>2, <1>0, Zenon DEF UploadChanges
    <3>3. QED
      BY <3>1, <3>2, <1>0 DEF UploadChanges
  <2>3. heads' = heads
    BY <1>0, Zenon DEF UploadChanges
  <2>4. QED
    BY <1>2, <2>1, <2>2, <2>3, Zenon DEF StoreExtendsHeads, Extends
<1>6. OneEpochPerHost' /\ LateFromHeads'
  BY <1>0, Zenon DEF UploadChanges, ExactInv, OneEpochPerHost, LateFromHeads
<1>7. ASSUME NEW g \in Hosts \ {h} PROVE HostExact(g)'
  <2>1. /\ HostExact(g) /\ HostInv(g)
        /\ cache'[g] = cache[g] /\ inv'[g] = inv[g] /\ UNCHANGED <<heads, late>>
    BY <1>0, Zenon DEF UploadChanges, SafeInv, ExactInv
  <2>2. cache[g].pending # 0 =>
            /\ store'[cache[g].pending] = store[cache[g].pending]
            /\ CommitOf(g)' = CommitOf(g)
    BY <2>1, <1>0, Zenon DEF UploadChanges, HostInv, PendingUploaded, CommitOf
  <2>3. NextExtendsCache(g)' /\ EmptyCacheUnused(g)'
    BY <1>1, <2>1, Zenon DEF HostExact, NextExtendsCache, EmptyCacheUnused
  <2>4. inv[g].phase = "commit" => cache[g].pending # 0
    BY <2>1, Zenon DEF HostInv, PhaseInv
  <2>5. InstanceFresh(g)'
    BY <1>1, <2>1, <2>2, <2>4, Zenon DEF HostExact, InstanceFresh
  <2>6. LateBehindCache(g)' /\ CacheAtHead(g)'
    BY <2>1, <2>2, Zenon DEF HostExact, LateBehindCache, CacheAtHead
  <2>7. QED
    BY <2>3, <2>5, <2>6, Zenon DEF HostExact
<1>8. HostExact(h)'
  <2>1. NextExtendsCache(h)' /\ EmptyCacheUnused(h)'
    BY <1>4, <1>0, Zenon DEF UploadChanges, NextExtendsCache, EmptyCacheUnused
  <2>2. inv'[h].next = inv[h].next
    BY <1>1, InvType, Zenon DEF Upload, SetInv, TypeOK, Invocation
  <2>3. InstanceFresh(h)'
    BY <1>1, <1>3, <2>2, <1>0, Zenon DEF UploadChanges, HostExact, InstanceFresh
  <2>4. LateBehindCache(h)' /\ CacheAtHead(h)'
    BY <1>1, <1>4, <1>0, Zenon DEF UploadChanges, HostExact, LateBehindCache, CacheAtHead
  <2>5. QED
    BY <2>1, <2>3, <2>4, Zenon DEF HostExact
<1>9. QED
  BY <1>5, <1>6, <1>7, <1>8, Zenon DEF ExactInv

\* ExactInv is inductive, given SafeInv.
LEMMA NextExact ==
  ASSUME ~HostsReturn, ~Cancels
  PROVE  SafeInv /\ ExactInv /\ [Next]_vars => ExactInv'
<1> SUFFICES ASSUME SafeInv, ExactInv, [Next]_vars PROVE ExactInv'
  BY Zenon
<1>1. ASSUME NEW h \in Hosts, CommitState(h) PROVE ExactInv'
  <2>1. HostInv(h) /\ TypeOK /\ cache[h].pending # 0
    BY <1>1, Zenon DEF SafeInv, CommitState, HostInv, PhaseInv
  <2>2. CommitOf(h) \in StateCommitRequest
    BY <2>1, CommitOfType, Zenon DEF HostInv
  <2>3. CommitOf(h).owner = h /\ CommitOf(h).epoch = cache[h].epoch
    BY Zenon DEF CommitOf
  <2>4. QED
    BY <1>1, <2>1, <2>2, <2>3, CommitExact, Zenon DEF CommitState
<1>2. ASSUME NEW commit \in late, CommitLate(commit) PROVE ExactInv'
  <2>1. commit \in StateCommitRequest
    BY <1>2, Zenon DEF SafeInv, TypeOK
  <2>2. QED
    BY <1>2, <2>1, CommitExact, Zenon DEF CommitLate
<1>3. CASE UNCHANGED vars
  <2>1. StoreExtendsHeads' /\ OneEpochPerHost' /\ LateFromHeads'
    BY <1>3, Zenon DEF vars, ExactInv, StoreExtendsHeads, Extends, StateAt, OneEpochPerHost, LateFromHeads
  <2>2. ASSUME NEW h \in Hosts PROVE HostExact(h)'
    <3>1. EmptyCacheUnused(h)' /\ LateBehindCache(h)' /\ CacheAtHead(h)'
      BY <1>3, CacheKept, Zenon DEF vars
    <3>2. NextExtendsCache(h)' /\ InstanceFresh(h)'
      BY <1>3, Zenon DEF vars, ExactInv, HostExact, NextExtendsCache, InstanceFresh
    <3>3. QED
      BY <3>1, <3>2, Zenon DEF HostExact
  <2>3. QED
    BY <2>1, <2>2, Zenon DEF ExactInv
<1>4. QED
  BY <1>1, <1>2, <1>3, ClaimExact, UploadExact, HostStepExact, Zenon DEF Next

\* With hosts that do not return and handlers that run to their end, snapshots
\* extend one another and caches keep up with the row.
THEOREM Exactness ==
  ASSUME ~HostsReturn, ~Cancels
  PROVE  Spec => []ExactInv
  BY InitSafe, NextSafe, InitExact, NextExact, PTL DEF Spec

\* No committed update is lost or applied to an older state.
THEOREM NothingLost ==
  ASSUME ~HostsReturn, ~Cancels
  PROVE  Spec => []NoLostUpdate
<1>1. ASSUME SafeInv, ExactInv PROVE NoLostUpdate
  <2>1. SUFFICES ASSUME NEW s \in heads, NEW t \in heads, t.version = s.version + 1
                 PROVE  \/ StateAt(t) = Append(StateAt(s), t.request)
                        \/ s.version = 0 /\ StateAt(t) = << >>
    BY Zenon DEF NoLostUpdate
  <2>2. t.version # 0
    BY <1>1, <2>1 DEF SafeInv, TypeOK, ObjectPlacement
  <2>3. /\ t.object \in 1..Len(store) /\ store[t.object].version = t.version
        /\ store[t.object].request = t.request /\ StateAt(t) = store[t.object].state
    BY <1>1, <2>2, Zenon DEF SafeInv, HeadReadable, SnapshotFits, StateAt
  <2>4. QED
    BY <1>1, <2>1, <2>3, Zenon DEF ExactInv, StoreExtendsHeads, Extends
<1>2. QED
  BY <1>1, Safety, Exactness, PTL

\* A host's cache keeps up with the versions of its own epoch.
THEOREM CachesCurrent ==
  ASSUME ~HostsReturn, ~Cancels
  PROVE  Spec => []CacheCurrent
<1>1. ExactInv => CacheCurrent
  BY Zenon DEF ExactInv, HostExact, CacheCurrent
<1>2. QED
  BY <1>1, Exactness, PTL

\* The actor's code never runs while a commit of the same host could still
\* create the version it is going to write.
THEOREM PendingFirst ==
  ASSUME ~HostsReturn, ~Cancels
  PROVE  Spec => []PendingResolvedFirst
<1>1. ASSUME SafeInv, ExactInv PROVE PendingResolvedFirst
  <2>1. SUFFICES ASSUME NEW h \in Hosts, NEW commit \in late, inv[h].phase = "ready",
                        commit.owner = h, commit.epoch = cache[h].epoch,
                        commit.version = cache[h].version
                 PROVE  FALSE
    BY Zenon DEF PendingResolvedFirst
  <2>2. cache[h].epoch # 0 /\ cache[h].pending = 0 /\ cache[h].version \in Nat
    BY <1>1, <2>1, CacheType, Zenon DEF SafeInv, HostInv, PhaseInv
  <2>3. QED
    BY <1>1, <2>1, <2>2 DEF ExactInv, HostExact, LateBehindCache
<1>2. QED
  BY <1>1, Safety, Exactness, PTL

-----------------------------------------------------------------------------
(* DurableActor implements AtomicActor.  The versions up to the row's form a *)
(* history because none is skipped and each has one snapshot.                *)

\* Every version up to the row's was the row's at some time.
Contiguous == \A v \in 1..row.version : \E t \in heads : t.version = v

\* In the history of the row a version has one object (LinearHistory).
LEMMA ObjectOfVersion ==
  ASSUME NEW H, NEW t \in H,
         \A s, u \in H : s.version = u.version => s.object = u.object
  PROVE  (CHOOSE s \in H : s.version = t.version).object = t.object
  BY Zenon

\* What a step does to the row, its history and the snapshots: a commit adds a
\* version (commit_state), all others leave the head alone.
LEMMA StepEffect ==
  ASSUME SafeInv, [Next]_vars
  PROVE  /\ heads \subseteq heads' /\ Len(store) <= Len(store')
         /\ \A o \in 1..Len(store) : store'[o] = store[o]
         /\ \/ row'.version = row.version
            \/ /\ row'.version = row.version + 1 /\ row' \in heads' /\ row \in heads
               /\ row'.object \in 1..Len(store) /\ store' = store
               /\ store[row'.object].version = row'.version
               /\ store[row'.object].request = row'.request
               /\ row'.request \in Requests /\ reply' = NoReply
<1> DEFINE Quiet == UNCHANGED <<row, heads, store>>
<1>0. TypeOK /\ Len(store) \in Nat /\ store \in Seq(Snapshot)
  BY DEF SafeInv, TypeOK
<1>1. ASSUME NEW h \in Hosts, HostStep(h) PROVE Quiet
  <2>1. ASSUME NEW target \in heads, LoadFails(h, target) \/ \E r \in Requests : Invoke(h, r, target)
        PROVE  Quiet
    BY <2>1, Zenon DEF LoadFails, Invoke
  <2>2. CASE CommitMisses(h) \/ RereadRow(h) \/ CommitFails(h) \/ Replay(h)
    BY <2>2, Zenon DEF CommitMisses, RereadRow, CommitFails, Replay
  <2>3. ASSUME NEW ticket \in BOOLEAN, CommitSucceeds(h, ticket) PROVE Quiet
    BY <2>3, Zenon DEF CommitSucceeds
  <2>4. ASSUME NEW next \in Outcomes(h), Execute(h, next) PROVE Quiet
    BY <2>4, Zenon DEF Execute
  <2>5. CASE ExecuteFails(h) \/ SendFails(h) \/ DropInstance(h)
    BY <2>5, Zenon DEF ExecuteFails, SendFails, DropInstance
  <2>6. CASE UseTicket(h) \/ PrepareStateWrite(h) \/ PrepareFails(h) \/ UploadFails(h)
    BY <2>6, Zenon DEF UseTicket, PrepareStateWrite, PrepareFails, UploadFails, PublishFails
  <2>7. CASE Cancel(h) \/ Crash(h)
    BY <2>7, Zenon DEF Cancel, Crash
  <2>8. QED
    BY <1>1, <2>1, <2>2, <2>3, <2>4, <2>5, <2>6, <2>7, Zenon DEF HostStep
<1>2. ASSUME NEW h \in Hosts, Claim(h)
      PROVE  heads \subseteq heads' /\ store' = store /\ row'.version = row.version
  BY <1>2, Zenon DEF Claim, Claimed
<1>3. ASSUME NEW h \in Hosts, Upload(h)
      PROVE  /\ heads' = heads /\ row' = row /\ Len(store) <= Len(store')
             /\ \A o \in 1..Len(store) : store'[o] = store[o]
  <2>1. UploadChanges(h)
    BY <1>3, UploadEffect, Zenon
  <2>2. QED
    BY <1>0, <2>1 DEF UploadChanges
<1>4. ASSUME NEW commit \in StateCommitRequest, CommitMatches(row, commit),
             row' = Committed(row, commit), heads' = heads \cup {row'}, store' = store,
             reply' = NoReply, commit.object \in 1..Len(store),
             store[commit.object].version = commit.version + 1,
             store[commit.object].request = commit.request
      PROVE  /\ heads \subseteq heads' /\ row' \in heads' /\ row \in heads
             /\ row'.version = row.version + 1
             /\ row'.object \in 1..Len(store) /\ store' = store
             /\ store[row'.object].version = row'.version
             /\ store[row'.object].request = row'.request
             /\ row'.request \in Requests /\ reply' = NoReply
  <2>1. row \in heads
    BY <1>4, NoHostAssumption DEF CommitMatches, StateCommitRequest, SafeInv, RowHistory, NoPlacement
  <2>2. QED
    BY <1>4, <2>1, Zenon DEF CommitMatches, Committed, StateCommitRequest
<1>5. ASSUME NEW h \in Hosts, CommitState(h)
      PROVE  /\ CommitOf(h) \in StateCommitRequest
             /\ CommitOf(h).object \in 1..Len(store)
             /\ store[CommitOf(h).object].version = CommitOf(h).version + 1
             /\ store[CommitOf(h).object].request = CommitOf(h).request
  <2>1. PendingUploaded(h) /\ cache[h].pending # 0
    BY <1>5, Zenon DEF SafeInv, CommitState, HostInv, PhaseInv
  <2>2. QED
    BY <1>0, <2>1, CommitOfType, Zenon DEF PendingUploaded, CommitOf
<1>6. ASSUME NEW commit \in late, CommitLate(commit)
      PROVE  /\ commit \in StateCommitRequest
             /\ commit.object \in 1..Len(store)
             /\ store[commit.object].version = commit.version + 1
             /\ store[commit.object].request = commit.request
  BY <1>0, <1>6, Zenon DEF SafeInv, TypeOK, LateUploaded
<1>7. CASE \E h \in Hosts : CommitState(h)
  <2>1. PICK h \in Hosts : CommitState(h)
    BY <1>7, Zenon
  <2>2. /\ CommitMatches(row, CommitOf(h)) /\ row' = Committed(row, CommitOf(h))
        /\ heads' = heads \cup {row'} /\ store' = store /\ reply' = NoReply
    BY <2>1, Zenon DEF CommitState
  <2>3. /\ CommitOf(h) \in StateCommitRequest
        /\ CommitOf(h).object \in 1..Len(store)
        /\ store[CommitOf(h).object].version = CommitOf(h).version + 1
        /\ store[CommitOf(h).object].request = CommitOf(h).request
    BY <1>5, <2>1, Zenon
  <2>4. /\ heads \subseteq heads' /\ row' \in heads' /\ row \in heads
        /\ row'.version = row.version + 1
        /\ row'.object \in 1..Len(store) /\ store' = store
        /\ store[row'.object].version = row'.version
        /\ store[row'.object].request = row'.request
        /\ row'.request \in Requests /\ reply' = NoReply
    BY <1>4, <2>2, <2>3, Zenon
  <2>5. QED
    BY <1>0, <2>4
<1>8. CASE \E commit \in late : CommitLate(commit)
  <2>1. PICK commit \in late : CommitLate(commit)
    BY <1>8, Zenon
  <2>2. /\ CommitMatches(row, commit) /\ row' = Committed(row, commit)
        /\ heads' = heads \cup {row'} /\ store' = store /\ reply' = NoReply
    BY <2>1, Zenon DEF CommitLate
  <2>3. /\ commit \in StateCommitRequest
        /\ commit.object \in 1..Len(store)
        /\ store[commit.object].version = commit.version + 1
        /\ store[commit.object].request = commit.request
    BY <1>6, <2>1, Zenon
  <2>4. /\ heads \subseteq heads' /\ row' \in heads' /\ row \in heads
        /\ row'.version = row.version + 1
        /\ row'.object \in 1..Len(store) /\ store' = store
        /\ store[row'.object].version = row'.version
        /\ store[row'.object].request = row'.request
        /\ row'.request \in Requests /\ reply' = NoReply
    BY <1>4, <2>2, <2>3, Zenon
  <2>5. QED
    BY <1>0, <2>4
<1>9. CASE UNCHANGED vars
  BY <1>0, <1>9 DEF vars
<1>10. QED
  BY <1>0, <1>1, <1>2, <1>3, <1>7, <1>8, <1>9 DEF Next

\* No version is skipped (commit_state adds one to the version it finds).
LEMMA NextContiguous ==
  ASSUME SafeInv, Contiguous, [Next]_vars
  PROVE  Contiguous'
<1>1. row.version \in Nat
  BY Zenon DEF SafeInv, TypeOK, ObjectPlacement
<1>2. QED
  BY <1>1, StepEffect DEF Contiguous

\* What the history holds at a version is the snapshot of any head that had it.
LEMMA HistoryEntry ==
  ASSUME SafeInv, NEW v \in 1..row.version, NEW t \in heads, t.version = v
  PROVE  /\ t.object \in 1..Len(store) /\ ObjectAt(v) = t.object
         /\ History[v] = [request |-> store[t.object].request, state |-> store[t.object].state]
<1>1. ObjectAt(v) = t.object
  BY ObjectOfVersion DEF ObjectAt, SafeInv, LinearHistory
<1>2. v # 0
  BY DEF SafeInv, TypeOK, ObjectPlacement
<1>3. t.object \in 1..Len(store)
  BY <1>2, Zenon DEF SafeInv, HeadReadable
<1>4. QED
  BY <1>1, <1>3, Zenon DEF History

\* Steps leave the versions there are alone.
LEMMA HistoryKept ==
  ASSUME SafeInv, SafeInv', Contiguous, [Next]_vars, NEW v \in 1..row.version
  PROVE  v \in 1..row'.version /\ History'[v] = History[v]
<1>1. PICK t \in heads : t.version = v
  BY Zenon DEF Contiguous
<1>2. /\ t \in heads' /\ \A o \in 1..Len(store) : store'[o] = store[o]
      /\ row'.version = row.version \/ row'.version = row.version + 1
  BY StepEffect, Zenon
<1>3. v \in 1..row'.version
  BY <1>2 DEF SafeInv, TypeOK, ObjectPlacement
<1>4. (CHOOSE s \in heads' : s.version = v).object = t.object
  BY <1>1, <1>2, ObjectOfVersion DEF SafeInv, LinearHistory
<1>5. History'[v] = [request |-> store'[t.object].request, state |-> store'[t.object].state]
  BY <1>3, <1>4, Zenon DEF History, ObjectAt
<1>6. t.object \in 1..Len(store)
      /\ History[v] = [request |-> store[t.object].request, state |-> store[t.object].state]
  BY <1>1, HistoryEntry, Zenon
<1>7. QED
  BY <1>2, <1>3, <1>5, <1>6, Zenon

\* The history is a sequence as long as the row's version says.
LEMMA HistoryLength ==
  ASSUME SafeInv
  PROVE  /\ row.version \in Nat /\ Len(History) = row.version
         /\ History = << >> <=> row.version = 0
         /\ DOMAIN History = 1..row.version
<1>1. row.version \in Nat
  BY Zenon DEF SafeInv, TypeOK, ObjectPlacement
<1>2. QED
  BY <1>1 DEF History

\* The last version of the history is the row's head.
LEMMA LastVersion ==
  ASSUME SafeInv, row \in heads
  PROVE  /\ Atomic!State(History) = StateAt(row)
         /\ row.version # 0 => History[row.version].request = row.request
<1>1. CASE row.version = 0
  BY <1>1, HistoryLength, Zenon DEF Atomic!State, StateAt
<1>2. CASE row.version # 0
  <2>1. row.version \in 1..row.version
    BY <1>2, HistoryLength
  <2>2. History[row.version] = [request |-> store[row.object].request, state |-> store[row.object].state]
    BY <2>1, HistoryEntry, Zenon
  <2>3. store[row.object].request = row.request
    BY <1>2, Zenon DEF SafeInv, HeadReadable
  <2>4. QED
    BY <1>2, <2>2, <2>3, HistoryLength DEF Atomic!State, StateAt
<1>3. QED
  BY <1>1, <1>2, Zenon

\* A function on the first n numbers is a sequence.
LEMMA FunctionIsSeq ==
  ASSUME NEW S, NEW n \in Nat, NEW f \in [1..n -> S]
  PROVE  f \in Seq(S)
  OBVIOUS

\* A commit extends the history by the snapshot it names (commit_state).
LEMMA CommitRefines ==
  ASSUME SafeInv, SafeInv', ExactInv, Contiguous, [Next]_vars, row'.version = row.version + 1
  PROVE  Atomic!Next
<1> DEFINE request == row'.request
           state == store[row'.object].state
           entry == [request |-> request, state |-> state]
<1>1. /\ row' \in heads' /\ row \in heads /\ row'.object \in 1..Len(store) /\ store' = store
      /\ store[row'.object].version = row'.version /\ store[row'.object].request = request
      /\ request \in Requests /\ reply' = NoReply /\ row.version \in Nat
  BY StepEffect, HistoryLength
<1>2. History' = Append(History, entry)
  <2>1. row'.version \in 1..row'.version
    BY <1>1
  <2>2. (CHOOSE s \in heads' : s.version = row'.version).object = row'.object
    BY <1>1, ObjectOfVersion DEF SafeInv, LinearHistory
  <2>3. History'[row'.version] = entry
    BY <1>1, <2>1, <2>2, Zenon DEF History, ObjectAt
  <2>4. \A v \in 1..row.version : History'[v] = History[v]
    BY HistoryKept, Zenon
  <2>5. History' = [v \in 1..row.version + 1 |-> IF v <= row.version THEN History[v] ELSE entry]
    <3>1. ASSUME NEW v \in 1..row.version + 1
          PROVE  History'[v] = IF v <= row.version THEN History[v] ELSE entry
      BY <1>1, <2>3, <2>4
    <3>2. History' = [v \in 1..row.version + 1 |-> History'[v]]
      BY Zenon DEF History
    <3>3. QED
      BY <3>1, <3>2, Zenon
  <2>6. History \in Seq({History[v] : v \in 1..row.version})
    <3>1. History \in [1..row.version -> {History[v] : v \in 1..row.version}]
      BY Zenon DEF History
    <3>2. QED
      BY <1>1, <3>1, FunctionIsSeq, Zenon
  <2>7. Append(History, entry) = [v \in 1..Len(History) + 1 |-> IF v <= Len(History) THEN History[v] ELSE entry]
    BY <1>1, <2>6, HistoryLength
  <2>8. QED
    BY <2>5, <2>7, HistoryLength, Zenon
<1>3. Atomic!State(History) = StateAt(row)
      /\ (row.version # 0 => History[row.version].request = row.request)
  BY <1>1, LastVersion, Zenon
<1>4. \/ state = Append(StateAt(row), request)
      \/ row.version = 0 /\ state = << >>
  <2>1. row'.object \in 1..Len(store) /\ row.version + 1 = store[row'.object].version
    BY <1>1, Zenon
  <2>2. Extends(store[row'.object].state, store[row'.object].request, row)
    BY <1>1, <2>1, Zenon DEF ExactInv, StoreExtendsHeads
  <2>3. store[row'.object].request = request
    BY <1>1, Zenon
  <2>4. QED
    BY <2>2, <2>3, Zenon DEF Extends
<1>5. request \in Calls /\ row.version # 0 => row.request # request
  BY <1>1, Zenon DEF SafeInv, StoreFollowsHeads
<1>6. Atomic!Apply(request, state)
  BY <1>1, <1>2, <1>3, <1>4, <1>5, HistoryLength, Zenon DEF Atomic!Apply
<1>7. state \in {<< >>, Append(Atomic!State(History), request)}
  BY <1>3, <1>4, Zenon
<1>8. QED
  BY <1>1, <1>6, <1>7, Zenon DEF Atomic!Next

\* A host answers only with versions that were committed: version 0 of an actor
\* has no result, and is no replay (invoke_actor_once).
LEMMA AnswersVersion ==
  ASSUME SafeInv, [Next]_vars
  PROVE  \/ reply' = NoReply \/ UNCHANGED vars
         \/ reply'.version # 0
<1>0. TypeOK
  BY Zenon DEF SafeInv
<1>1. ASSUME NEW h \in Hosts, Replay(h) PROVE reply'.version # 0
  <2>1. cache[h].epoch # 0 /\ cache[h].request \in Calls
    BY <1>1, Zenon DEF Replay, IsReplay, SafeInv, HostInv, PhaseInv
  <2>2. PICK t \in heads : t.version = cache[h].version /\ t.request = cache[h].request
    BY <2>1, Zenon DEF SafeInv, HostInv, CacheFromHeads
  <2>3. t.version # 0
    BY <2>1, <2>2, RequestsAssumption, NoRequestAssumption, Zenon DEF SafeInv, RowHistory
  <2>4. QED
    BY <1>1, <2>2, <2>3, Zenon DEF Replay, Complete
<1>2. ASSUME NEW h \in Hosts, NEW next \in Outcomes(h), Execute(h, next)
      PROVE  reply' = NoReply \/ reply'.version # 0
  BY <1>2 DEF Execute, Complete
<1>3. ASSUME NEW h \in Hosts, NEW ticket \in BOOLEAN, CommitSucceeds(h, ticket)
      PROVE  reply' = NoReply \/ reply'.version # 0
  <2>1. store[cache[h].pending].version = cache[h].version + 1 /\ cache[h].version \in Nat
    BY <1>0, <1>3, CacheType, Zenon DEF CommitSucceeds, SafeInv, HostInv, PhaseInv, PendingUploaded
  <2>2. QED
    BY <1>3, <2>1 DEF CommitSucceeds, Complete
<1>4. ASSUME NEW h \in Hosts, HostStep(h) PROVE reply' = NoReply \/ reply'.version # 0
  <2>1. ASSUME NEW target \in heads, LoadFails(h, target) \/ \E r \in Requests : Invoke(h, r, target)
        PROVE  reply' = NoReply
    BY <2>1, Zenon DEF LoadFails, Invoke
  <2>2. CASE CommitMisses(h) \/ RereadRow(h) \/ CommitFails(h) \/ Cancel(h) \/ Crash(h)
    BY <2>2, Zenon DEF CommitMisses, RereadRow, CommitFails, Cancel, Crash
  <2>3. CASE ExecuteFails(h) \/ SendFails(h) \/ DropInstance(h)
    BY <2>3, Zenon DEF ExecuteFails, SendFails, DropInstance
  <2>4. CASE UseTicket(h) \/ PrepareStateWrite(h) \/ PrepareFails(h) \/ UploadFails(h)
    BY <2>4, Zenon DEF UseTicket, PrepareStateWrite, PrepareFails, UploadFails, PublishFails
  <2>5. QED
    BY <1>1, <1>2, <1>3, <1>4, <2>1, <2>2, <2>3, <2>4, Zenon DEF HostStep
<1>5. ASSUME NEW h \in Hosts, Claim(h) \/ CommitState(h) \/ Upload(h) PROVE reply' = NoReply
  BY <1>5, Zenon DEF Claim, CommitState, Upload
<1>6. ASSUME NEW commit \in late, CommitLate(commit) PROVE reply' = NoReply
  BY <1>6, Zenon DEF CommitLate
<1>7. QED
  BY <1>4, <1>5, <1>6, Zenon DEF Next

\* Every step is a step of AtomicActor, or leaves history and answer alone.
LEMMA NextRefines ==
  ASSUME SafeInv, SafeInv', ExactInv, Contiguous, [Next]_vars
  PROVE  [Atomic!Next]_<<History, reply>>
<1>1. CASE row'.version = row.version + 1
  BY <1>1, CommitRefines, Zenon
<1>2. CASE row'.version = row.version
  <2>1. History' = History
    <3>1. \A v \in 1..row.version : History'[v] = History[v]
      BY HistoryKept, Zenon
    <3>2. History' = [v \in 1..row.version |-> History'[v]] /\ History = [v \in 1..row.version |-> History[v]]
      BY <1>2, Zenon DEF History
    <3>3. QED
      BY <3>1, <3>2, Zenon
  <2>2. CASE reply' = NoReply
    BY <2>1, <2>2, Zenon DEF Atomic!Next, Atomic!Internal
  <2>3. CASE UNCHANGED vars
    BY <2>1, <2>3, Zenon DEF vars
  <2>4. CASE reply' # NoReply /\ reply'.version # 0
    <3>1. reply' \in Reply /\ reply'.request \in Requests /\ reply'.version \in Nat
          /\ reply' = [request |-> reply'.request, version |-> reply'.version, state |-> reply'.state]
      BY <2>4, Zenon DEF SafeInv, TypeOK, Reply
    <3>2. PICK t \in heads' : t.version = reply'.version /\ reply'.state = StateAt(t)'
      BY <2>4, Zenon DEF SafeInv, RepliesCommitted
    <3>3. t.version \in 1..row'.version
      BY <2>4, <3>1, <3>2 DEF SafeInv, RowHistory, TypeOK, ObjectPlacement
    <3>4. (CHOOSE s \in heads' : s.version = t.version).object = t.object
      BY ObjectOfVersion, Zenon DEF SafeInv, LinearHistory
    <3>5. History'[t.version].state = store'[t.object].state
      BY <3>3, <3>4, Zenon DEF History, ObjectAt
    <3>6. reply'.state = History[reply'.version].state
      BY <2>1, <2>4, <3>2, <3>5, Zenon DEF StateAt
    <3>7. reply'.version \in 1..Len(History)
      BY <1>2, <3>2, <3>3, HistoryLength, Zenon
    <3>8. Atomic!Answer(reply'.request, reply'.version)
      BY <2>1, <3>1, <3>6, <3>7, Zenon DEF Atomic!Answer
    <3>9. QED
      BY <3>1, <3>7, <3>8, Zenon DEF Atomic!Next
  <2>5. QED
    BY <2>2, <2>3, <2>4, AnswersVersion, Zenon
<1>3. QED
  BY <1>1, <1>2, StepEffect, Zenon

\* Hosts, epochs, snapshots and retries together implement one atomic actor:
\* every behaviour of DurableActor is one of AtomicActor.
THEOREM Refinement ==
  ASSUME ~HostsReturn, ~Cancels
  PROVE  Spec => ImplementsAtomic
<1>1. ASSUME Init PROVE Contiguous /\ Atomic!Init
  <2>1. row.version = 0 /\ reply = NoReply
    BY <1>1, Zenon DEF Init, NoPlacement
  <2>2. History = << >>
    BY <2>1 DEF History
  <2>3. QED
    BY <2>1, <2>2 DEF Contiguous, Atomic!Init
<1>2. SafeInv /\ Contiguous /\ [Next]_vars => Contiguous'
  BY NextContiguous, Zenon
<1>3. SafeInv /\ SafeInv' /\ ExactInv /\ Contiguous /\ [Next]_vars => [Atomic!Next]_<<History, reply>>
  BY NextRefines, Zenon
<1>4. QED
  BY <1>1, <1>2, <1>3, Safety, Exactness, PTL DEF Spec, ImplementsAtomic, Atomic!Spec

=============================================================================
