--------------------------- MODULE FreeBlocksProofs ---------------------------
(***************************************************************************)
(* The safety properties of FreeBlocks, for any number of blocks, mutators *)
(* and workers.                                                            *)
(*                                                                         *)
(* The inductive invariant is FreeInv: who holds each block's lock         *)
(* (LockInv), what is in the rows of each block (RowsInv), what a scan may *)
(* have missed (SkipInv), which blocks mZeroListQueue counts (QueueCounts) *)
(* and how far the claims have gone (ClaimInv).  A step changes few of     *)
(* them: the lemmas of the first part carry the others over it, and one    *)
(* lemma per action follows, with one step per part.                       *)
(***************************************************************************)
EXTENDS FreeBlocks, FiniteSetTheorems, TLAPS

USE BlocksAssumption, WorkersAssumption
USE DEF Blocks, At, Move, Goto, WorkerGoto, CollectorGoto, PoolTypeOK,
        poolVars, sleepVars, blockVars, scanVars, threadVars, zeroVars

-----------------------------------------------------------------------------
(* Parts of the invariant that a step leaves alone.                        *)

\* The locks, if nobody takes or releases one.
LEMMA SameLocks ==
  ASSUME LockInv, mZeroLock' = mZeroLock,
         \A b \in Blocks : WorkerHolds(b)' <=> WorkerHolds(b),
         \A t \in Threads, b \in Blocks : ThreadHolds(t, b)' <=> ThreadHolds(t, b)
  PROVE  LockInv'
  BY DEF LockInv

\* The locks, if thread t takes the one of block c ...
LEMMA TakeLock ==
  ASSUME LockInv, NEW t \in Threads, NEW c \in Blocks, ~mZeroLock[c],
         \A b \in Blocks : mZeroLock'[b] <=> mZeroLock[b] \/ b = c,
         \A b \in Blocks : WorkerHolds(b)' <=> WorkerHolds(b),
         \A u \in Threads, b \in Blocks : ThreadHolds(u, b)' <=> ThreadHolds(u, b) \/ (u = t /\ b = c)
  PROVE  LockInv'
  <1>1. ASSUME NEW b \in Blocks
        PROVE  mZeroLock'[b] <=> WorkerHolds(b)' \/ \E u \in Threads : ThreadHolds(u, b)'
    <2>1. CASE b = c
      BY <2>1
    <2>2. CASE b # c
      <3>1. mZeroLock[b] <=> WorkerHolds(b) \/ \E u \in Threads : ThreadHolds(u, b)
        BY DEF LockInv
      <3>2. \A u \in Threads : ThreadHolds(u, b)' <=> ThreadHolds(u, b)
        BY <2>2
      <3>3. mZeroLock'[b] <=> mZeroLock[b]
        BY <2>2
      <3> QED BY <3>1, <3>2, <3>3
    <2> QED BY <2>1, <2>2
  <1>2. \A b \in Blocks, u \in Threads : ThreadHolds(u, b)' => ~WorkerHolds(b)'
    BY DEF LockInv
  <1>3. \A b \in Blocks, u, s \in Threads : ThreadHolds(u, b)' /\ ThreadHolds(s, b)' => s = u
    BY DEF LockInv
  <1> QED BY <1>1, <1>2, <1>3 DEF LockInv

\* ... or releases it.
LEMMA ReleaseLock ==
  ASSUME LockInv, NEW t \in Threads, NEW c \in Blocks, ThreadHolds(t, c),
         \A b \in Blocks : mZeroLock'[b] <=> mZeroLock[b] /\ b # c,
         \A b \in Blocks : WorkerHolds(b)' <=> WorkerHolds(b),
         \A u \in Threads, b \in Blocks : ThreadHolds(u, b)' <=> ThreadHolds(u, b) /\ ~(u = t /\ b = c)
  PROVE  LockInv'
  BY DEF LockInv

\* The same for the worker.
LEMMA WorkerTakesLock ==
  ASSUME LockInv, NEW c \in Blocks, ~mZeroLock[c],
         \A b \in Blocks : mZeroLock'[b] <=> mZeroLock[b] \/ b = c,
         \A b \in Blocks : ~WorkerHolds(b),
         \A b \in Blocks : WorkerHolds(b)' <=> b = c,
         \A u \in Threads, b \in Blocks : ThreadHolds(u, b)' <=> ThreadHolds(u, b)
  PROVE  LockInv'
  BY DEF LockInv

\* ... which releases only what it has.
LEMMA WorkerReleasesLock ==
  ASSUME LockInv, NEW c \in Blocks,
         \A b \in Blocks : mZeroLock'[b] <=> mZeroLock[b] /\ b # c,
         \A b \in Blocks : WorkerHolds(b) <=> b = c,
         \A b \in Blocks : ~WorkerHolds(b)',
         \A u \in Threads, b \in Blocks : ThreadHolds(u, b)' <=> ThreadHolds(u, b)
  PROVE  LockInv'
  BY DEF LockInv

\* The rows, if they, their owners and what the owners are sure of stay.
LEMMA SameRows ==
  ASSUME RowsInv, UNCHANGED <<mOwned, zeroed, rows>>,
         \A t \in Threads : tpc[t] \in Taking => tpc'[t] \in Taking /\ block'[t] = block[t],
         \A t \in Threads : block'[t] # NoBlock =>
           /\ block'[t] = block[t]
           /\ tpc'[t] \in Taking \cup {"unlock", "got"} => tpc[t] \in Taking \cup {"unlock", "got"}
           /\ tpc'[t] \in {"unlock", "got", "run"} => tpc[t] \in {"unlock", "got", "run"}
           /\ tpc'[t] = "run" => tpc[t] = "run"
  PROVE  RowsInv'
  <1>1. \A b \in Blocks : zeroed'[b] /\ ~mOwned'[b] => rows'[b] = "zeros"
    BY DEF RowsInv
  <1>2. \A b \in Blocks : mOwned'[b] /\ ~zeroed'[b] => \E t \in Threads : tpc'[t] \in Taking /\ block'[t] = b
    BY DEF RowsInv
  <1>3. \A t \in Threads : block'[t] # NoBlock =>
       /\ tpc'[t] \in Taking \cup {"unlock", "got"} /\ zeroed'[block'[t]] => rows'[block'[t]] = "zeros"
       /\ tpc'[t] \in {"unlock", "got", "run"} => zeroed'[block'[t]]
       /\ tpc'[t] = "run" => rows'[block'[t]] = "objects"
    BY DEF RowsInv
  <1> QED BY <1>1, <1>2, <1>3 DEF RowsInv

\* The pool, while a worker that has its bit goes on with its job.
LEMMA WorkerGoesOn ==
  ASSUME NoLostWake, JobInv, cpc # "start", NEW w \in Workers,
         wpc[w] \notin {"loop", "asleep"}, wpc'[w] \notin {"loop", "asleep"},
         \A v \in Workers \ {w} : wpc'[v] = wpc[v],
         UNCHANGED <<poolVars, sleepVars, cpc, tpc>>
  PROVE  NoLostWake' /\ JobInv'
  <1>1. NoLostWake'
    BY DEF NoLostWake
  <1>2. \A v \in Workers : wpc'[v] = "asleep" <=> wpc[v] = "asleep"
    OBVIOUS
  <1>3. JobInv'
    BY <1>2 DEF JobInv
  <1> QED BY <1>1, <1>3

-----------------------------------------------------------------------------
(* Counting.                                                               *)

\* The sets that are counted are finite.
LEMMA CountsAreInt ==
  /\ IsFiniteSet(Zeroed) /\ IsFiniteSet(OnWayOut) /\ IsFiniteSet(OnWayIn) /\ IsFiniteSet(Waking)
  /\ Cardinality(Zeroed) \in Nat /\ Cardinality(OnWayOut) \in Nat
  /\ Cardinality(OnWayIn) \in Nat /\ Cardinality(Waking) \in Nat
  /\ Cardinality(Waking) <= Cardinality(Threads) /\ Cardinality(Threads) \in Nat
  <1>1. IsFiniteSet(0..(BlockCount - 1))
    BY FS_Interval
  <1>2. IsFiniteSet(Zeroed)
    BY <1>1, FS_Subset DEF Zeroed
  <1>3. IsFiniteSet(OnWayOut) /\ IsFiniteSet(Waking) /\ Cardinality(Waking) <= Cardinality(Threads)
    BY FS_Subset DEF OnWayOut, Waking
  <1>4. IsFiniteSet(OnWayIn)
    BY FS_Subset DEF OnWayIn
  <1> QED BY <1>2, <1>3, <1>4, FS_CardinalityType

\* The number of claims, if none is made and no more are to come, ...
LEMMA FewerClaims ==
  ASSUME ClaimInv, mThreadJobId' = mThreadJobId, mThreadJobId \in Nat, Cardinality(Waking') \in Nat,
         Cardinality(Waking') + MayClaim' <= Cardinality(Waking) + MayClaim
  PROVE  ClaimInv'
  <1>1. MayClaim \in {0, 1} /\ MayClaim' \in {0, 1}
    BY DEF MayClaim
  <1> QED BY <1>1, CountsAreInt DEF ClaimInv

\* ... and if the worker goes on or stops.
LEMMA SameClaims ==
  ASSUME ClaimInv, mThreadJobId' = mThreadJobId, mThreadJobId \in Nat,
         Waking' = Waking, MayClaim' = 1 => MayClaim = 1
  PROVE  ClaimInv'
  <1>1. MayClaim \in {0, 1} /\ MayClaim' \in {0, 1}
    BY DEF MayClaim
  <1>2. MayClaim' <= MayClaim
    BY <1>1
  <1> QED BY <1>1, <1>2, CountsAreInt DEF ClaimInv


-----------------------------------------------------------------------------
(* The mutators.                                                          *)

\* The scan starts where every block below is taken.
LEMMA GetNextFreeInv ==
  ASSUME FreeInv, NEW t \in Threads, GetNextFree(t)
  PROVE  FreeInv'
  <1> USE DEF FreeInv, TypeOK, GetNextFree
  <1>1. TypeOK' BY DEF ThreadInv, ThreadPCs
  <1>2. NoLostWake' BY DEF NoLostWake
  <1>3. JobInv' BY DEF JobInv
  <1>4. LockInv'
    <2>1. \A b \in Blocks : WorkerHolds(b)' <=> WorkerHolds(b)
      BY DEF WorkerHolds, Claimed
    <2>2. \A u \in Threads, b \in Blocks : ThreadHolds(u, b)' <=> ThreadHolds(u, b)
      BY DEF ThreadHolds, Taking
    <2>3. LockInv /\ mZeroLock' = mZeroLock
      OBVIOUS
    <2> HIDE DEF FreeInv, TypeOK, GetNextFree
    <2> QED BY <2>1, <2>2, <2>3, SameLocks
  <1>5. ThreadInv' BY DEF ThreadInv, Scanning, Taking
  <1>6. WorkerInv' BY DEF WorkerInv, Claimed
  <1>7. OneOwner' BY DEF OneOwner, ThreadInv
  <1>8. RowsInv'
    <2>1. \A u \in Threads : tpc[u] \in Taking => tpc'[u] \in Taking /\ block'[u] = block[u]
      BY DEF Taking
    <2>2. \A u \in Threads : block'[u] # NoBlock =>
            /\ block'[u] = block[u]
            /\ tpc'[u] \in Taking \cup {"unlock", "got"} => tpc[u] \in Taking \cup {"unlock", "got"}
            /\ tpc'[u] \in {"unlock", "got", "run"} => tpc[u] \in {"unlock", "got", "run"}
            /\ tpc'[u] = "run" => tpc[u] = "run"
      BY DEF Taking
    <2>3. RowsInv /\ UNCHANGED <<mOwned, zeroed, rows>>
      OBVIOUS
    <2> HIDE DEF FreeInv, TypeOK, GetNextFree
    <2> QED BY <2>1, <2>2, <2>3, SameRows
  <1>9. QueueCounts'
    <2>1. Zeroed' = Zeroed /\ OnWayOut' = OnWayOut /\ OnWayIn' = OnWayIn
      BY DEF Zeroed, OnWayOut, OnWayIn
    <2> QED BY <2>1 DEF QueueCounts
  <1>10. ClaimInv'
    <2>1. Waking' = Waking /\ MayClaim' = MayClaim
      BY DEF Waking, MayClaim
    <2> QED BY <2>1 DEF ClaimInv
  <1>11. ~LazyReclaim => SkipInv' BY DEF SkipInv, AllTaken, Scanning, ThreadInv
  <1> HIDE DEF TypeOK, PoolTypeOK, GetNextFree
  <1> QED BY <1>1, <1>2, <1>3, <1>4, <1>5, <1>6, <1>7, <1>8, <1>9, <1>10, <1>11

\* It passes taken blocks and those that do not fit.
LEMMA LookAtInv ==
  ASSUME FreeInv, NEW t \in Threads, LookAt(t)
  PROVE  FreeInv'
  <1> USE DEF FreeInv, TypeOK, LookAt
  <1>1. TypeOK'
    <2>1. tpc' = [tpc EXCEPT ![t] = "cas"] \/ tpc' = tpc
      OBVIOUS
    <2>2. tpc' \in [Threads -> ThreadPCs]
      <3>1. tpc \in [Threads -> ThreadPCs]
        OBVIOUS
      <3> HIDE DEF FreeInv, TypeOK, LookAt
      <3> QED BY <2>1, <3>1 DEF ThreadPCs
    <2>3. i' \in [Threads -> 0..BlockCount]
      <3>1. i[t] + 1 \in 0..BlockCount
        OBVIOUS
      <3>2. i' = i \/ i' = [i EXCEPT ![t] = i[t] + 1]
        BY DEF Advance
      <3> QED BY <3>1, <3>2
    <2> QED BY <2>2, <2>3
  <1>2. NoLostWake' BY DEF NoLostWake
  <1>3. JobInv' BY DEF JobInv
  <1>4. LockInv'
    <2>1. \A b \in Blocks : WorkerHolds(b)' <=> WorkerHolds(b)
      BY DEF WorkerHolds, Claimed, Advance
    <2>2. \A u \in Threads, b \in Blocks : ThreadHolds(u, b)' <=> ThreadHolds(u, b)
      BY DEF ThreadHolds, Taking, Advance
    <2>3. LockInv /\ mZeroLock' = mZeroLock
      OBVIOUS
    <2> HIDE DEF FreeInv, TypeOK, LookAt
    <2> QED BY <2>1, <2>2, <2>3, SameLocks
  <1>5. ThreadInv'
    <2>1. /\ tpc[t] = "scan" /\ i[t] < BlockCount /\ mOwned' = mOwned /\ block' = block
          /\ ThreadInv /\ tpc \in [Threads -> ThreadPCs] /\ i \in [Threads -> 0..BlockCount]
      OBVIOUS
    <2>2. \/ tpc' = [tpc EXCEPT ![t] = "cas"] /\ i' = i
          \/ tpc' = tpc /\ i' = [i EXCEPT ![t] = i[t] + 1]
      BY DEF Advance
    <2> HIDE DEF FreeInv, TypeOK, LookAt
    <2>3. CASE tpc' = [tpc EXCEPT ![t] = "cas"] /\ i' = i
      BY <2>1, <2>3 DEF ThreadInv, Scanning, Taking
    <2>4. CASE tpc' = tpc /\ i' = [i EXCEPT ![t] = i[t] + 1]
      BY <2>1, <2>4 DEF ThreadInv, Scanning, Taking
    <2> QED BY <2>2, <2>3, <2>4
  <1>6. WorkerInv' BY DEF WorkerInv, Claimed
  <1>7. OneOwner' BY DEF OneOwner, ThreadInv
  <1>8. RowsInv'
    <2>1. \A u \in Threads : tpc[u] \in Taking => tpc'[u] \in Taking /\ block'[u] = block[u]
      BY DEF Taking
    <2>2. \A u \in Threads : block'[u] # NoBlock =>
            /\ block'[u] = block[u]
            /\ tpc'[u] \in Taking \cup {"unlock", "got"} => tpc[u] \in Taking \cup {"unlock", "got"}
            /\ tpc'[u] \in {"unlock", "got", "run"} => tpc[u] \in {"unlock", "got", "run"}
            /\ tpc'[u] = "run" => tpc[u] = "run"
      BY DEF Taking
    <2>3. RowsInv /\ UNCHANGED <<mOwned, zeroed, rows>>
      OBVIOUS
    <2> HIDE DEF FreeInv, TypeOK, LookAt
    <2> QED BY <2>1, <2>2, <2>3, SameRows
  <1>9. QueueCounts'
    <2>1. Zeroed' = Zeroed /\ OnWayOut' = OnWayOut /\ OnWayIn' = OnWayIn
      BY DEF Zeroed, OnWayOut, OnWayIn
    <2> QED BY <2>1 DEF QueueCounts
  <1>10. ClaimInv'
    <2>1. Waking' = Waking /\ MayClaim' = MayClaim
      BY DEF Waking, MayClaim
    <2> QED BY <2>1 DEF ClaimInv
  <1>11. ~LazyReclaim => SkipInv'
    <2> SUFFICES ASSUME ~LazyReclaim PROVE SkipInv'
      OBVIOUS
    <2>1. (\A b \in Blocks : mReclaimed'[b]) /\ AllTaken(mNextFreeBlockOfSize)'
      BY DEF SkipInv, AllTaken, Advance
    <2>2. ASSUME NEW u \in Threads, tpc'[u] \in Scanning, NEW b \in Blocks, fits'[b]
          PROVE  /\ b < nextFree'[u] => mOwned'[b]
                 /\ failedLock'[u] \/ (b < i'[u] => mOwned'[b])
      <3>1. CASE u = t
        BY <2>2, <3>1 DEF SkipInv, AllTaken, Scanning, Advance
      <3>2. CASE u # t
        BY <2>2, <3>2 DEF SkipInv, AllTaken, Scanning, Advance
      <3> QED BY <3>1, <3>2
    <2>3. ASSUME NEW u \in Threads, tpc'[u] = "none", NEW b \in Blocks, fits'[b]
          PROVE  mOwned'[b]
      <3>1. tpc[u] = "none" /\ mOwned' = mOwned /\ fits' = fits
        BY <2>3
      <3> QED BY <2>3, <3>1 DEF SkipInv, AllTaken
    <2> QED BY <2>1, <2>2, <2>3 DEF SkipInv, AllTaken
  <1> HIDE DEF TypeOK, PoolTypeOK, LookAt
  <1> QED BY <1>1, <1>2, <1>3, <1>4, <1>5, <1>6, <1>7, <1>8, <1>9, <1>10, <1>11

\* It takes a lock that is free, or misses it.
LEMMA AcquireZeroLockInv ==
  ASSUME FreeInv, NEW t \in Threads, AcquireZeroLock(t)
  PROVE  FreeInv'
  <1> USE DEF FreeInv, TypeOK, AcquireZeroLock
  <1>1. TypeOK' BY DEF ThreadInv, ThreadPCs
  <1>2. NoLostWake' BY DEF NoLostWake
  <1>3. JobInv' BY DEF JobInv
  <1>4. LockInv'
    <2>1. \A b \in Blocks : WorkerHolds(b)' <=> WorkerHolds(b)
      BY DEF WorkerHolds, Claimed
    <2>2. i[t] \in Blocks /\ \A b \in Blocks : ~ThreadHolds(t, b)
      BY DEF ThreadInv, ThreadHolds, Taking
    <2>3. CASE mZeroLock[i[t]]
      <3>1. \A u \in Threads, b \in Blocks : ThreadHolds(u, b)' <=> ThreadHolds(u, b)
        BY <2>3 DEF ThreadHolds, Taking
      <3>2. mZeroLock' = mZeroLock
        BY <2>2, <2>3
      <3> QED BY <2>1, <3>1, <3>2, SameLocks
    <2>4. CASE ~mZeroLock[i[t]]
      <3>1. \A u \in Threads, b \in Blocks :
              ThreadHolds(u, b)' <=> ThreadHolds(u, b) \/ (u = t /\ b = i[t])
        <4>1. tpc[t] = "cas" /\ tpc'[t] = "locked" /\ i' = i /\ block' = block
          BY <2>4
        <4>2. \A u \in Threads \ {t} : tpc'[u] = tpc[u]
          OBVIOUS
        <4>3. ASSUME NEW b \in Blocks
              PROVE  ThreadHolds(t, b)' <=> b = i[t]
          BY <4>1 DEF ThreadHolds, Taking
        <4>4. ASSUME NEW u \in Threads, u # t, NEW b \in Blocks
              PROVE  ThreadHolds(u, b)' <=> ThreadHolds(u, b)
          BY <4>1, <4>2, <4>4 DEF ThreadHolds
        <4> QED BY <2>2, <4>3, <4>4
      <3>2. \A b \in Blocks : mZeroLock'[b] <=> mZeroLock[b] \/ b = i[t]
        BY <2>2
      <3>3. LockInv
        OBVIOUS
      <3> HIDE DEF FreeInv, TypeOK, AcquireZeroLock
      <3> QED BY <2>1, <2>2, <2>4, <3>1, <3>2, <3>3, TakeLock
    <2> QED BY <2>3, <2>4
  <1>5. ThreadInv' BY DEF ThreadInv, Scanning, Taking
  <1>6. WorkerInv' BY DEF WorkerInv, Claimed
  <1>7. OneOwner' BY DEF OneOwner, ThreadInv
  <1>8. RowsInv'
    <2>1. \A u \in Threads : tpc[u] \in Taking => tpc'[u] \in Taking /\ block'[u] = block[u]
      BY DEF Taking
    <2>2. \A u \in Threads : block'[u] # NoBlock =>
            /\ block'[u] = block[u]
            /\ tpc'[u] \in Taking \cup {"unlock", "got"} => tpc[u] \in Taking \cup {"unlock", "got"}
            /\ tpc'[u] \in {"unlock", "got", "run"} => tpc[u] \in {"unlock", "got", "run"}
            /\ tpc'[u] = "run" => tpc[u] = "run"
      BY DEF Taking
    <2>3. RowsInv /\ UNCHANGED <<mOwned, zeroed, rows>>
      OBVIOUS
    <2> HIDE DEF FreeInv, TypeOK, AcquireZeroLock
    <2> QED BY <2>1, <2>2, <2>3, SameRows
  <1>9. QueueCounts'
    <2>1. Zeroed' = Zeroed /\ OnWayOut' = OnWayOut /\ OnWayIn' = OnWayIn
      BY DEF Zeroed, OnWayOut, OnWayIn
    <2> QED BY <2>1 DEF QueueCounts
  <1>10. ClaimInv'
    <2>1. Waking' = Waking /\ MayClaim' = MayClaim
      BY DEF Waking, MayClaim
    <2> QED BY <2>1 DEF ClaimInv
  <1>11. ~LazyReclaim => SkipInv' BY DEF SkipInv, AllTaken, Scanning, ThreadInv
  <1> HIDE DEF TypeOK, PoolTypeOK, AcquireZeroLock
  <1> QED BY <1>1, <1>2, <1>3, <1>4, <1>5, <1>6, <1>7, <1>8, <1>9, <1>10, <1>11

\* A missed block is passed with failedLock set, unless it is taken.
LEMMA SpinAroundInv ==
  ASSUME FreeInv, NEW t \in Threads, SpinAround(t)
  PROVE  FreeInv'
  <1> USE DEF FreeInv, TypeOK, SpinAround
  <1>1. TypeOK'
    <2>1. i[t] \in 0..BlockCount /\ i[t] # BlockCount
      BY DEF ThreadInv
    <2>2. i[t] + 1 \in 0..BlockCount
      BY <2>1
    <2>3. i' \in [Threads -> 0..BlockCount]
      BY <2>2 DEF Advance
    <2>4. tpc' \in [Threads -> ThreadPCs]
      BY DEF ThreadPCs
    <2> QED BY <2>1, <2>3, <2>4
  <1>2. NoLostWake' BY DEF NoLostWake
  <1>3. JobInv' BY DEF JobInv
  <1>4. LockInv'
    <2>1. \A b \in Blocks : WorkerHolds(b)' <=> WorkerHolds(b)
      BY DEF WorkerHolds, Claimed, Advance
    <2>2. \A u \in Threads, b \in Blocks : ThreadHolds(u, b)' <=> ThreadHolds(u, b)
      BY DEF ThreadHolds, Taking, Advance
    <2>3. LockInv /\ mZeroLock' = mZeroLock
      OBVIOUS
    <2> HIDE DEF FreeInv, TypeOK, SpinAround
    <2> QED BY <2>1, <2>2, <2>3, SameLocks
  <1>5. ThreadInv' BY DEF ThreadInv, Scanning, Taking, Advance
  <1>6. WorkerInv' BY DEF WorkerInv, Claimed
  <1>7. OneOwner' BY DEF OneOwner, ThreadInv
  <1>8. RowsInv'
    <2>1. \A u \in Threads : tpc[u] \in Taking => tpc'[u] \in Taking /\ block'[u] = block[u]
      BY DEF Taking
    <2>2. \A u \in Threads : block'[u] # NoBlock =>
            /\ block'[u] = block[u]
            /\ tpc'[u] \in Taking \cup {"unlock", "got"} => tpc[u] \in Taking \cup {"unlock", "got"}
            /\ tpc'[u] \in {"unlock", "got", "run"} => tpc[u] \in {"unlock", "got", "run"}
            /\ tpc'[u] = "run" => tpc[u] = "run"
      BY DEF Taking
    <2>3. RowsInv /\ UNCHANGED <<mOwned, zeroed, rows>>
      OBVIOUS
    <2> HIDE DEF FreeInv, TypeOK, SpinAround
    <2> QED BY <2>1, <2>2, <2>3, SameRows
  <1>9. QueueCounts'
    <2>1. Zeroed' = Zeroed /\ OnWayOut' = OnWayOut /\ OnWayIn' = OnWayIn
      BY DEF Zeroed, OnWayOut, OnWayIn
    <2> QED BY <2>1 DEF QueueCounts
  <1>10. ClaimInv'
    <2>1. Waking' = Waking /\ MayClaim' = MayClaim
      BY DEF Waking, MayClaim
    <2> QED BY <2>1 DEF ClaimInv
  <1>11. ~LazyReclaim => SkipInv' BY DEF SkipInv, AllTaken, Scanning, ThreadInv, Advance
  <1> HIDE DEF TypeOK, PoolTypeOK, SpinAround
  <1> QED BY <1>1, <1>2, <1>3, <1>4, <1>5, <1>6, <1>7, <1>8, <1>9, <1>10, <1>11

\* A taken block is passed, and its lock released.
LEMMA SomeoneElseGotItInv ==
  ASSUME FreeInv, NEW t \in Threads, SomeoneElseGotIt(t)
  PROVE  FreeInv'
  <1> USE DEF FreeInv, TypeOK, SomeoneElseGotIt
  <1>1. TypeOK'
    <2>1. i[t] \in 0..BlockCount /\ i[t] # BlockCount
      BY DEF ThreadInv
    <2>2. i[t] + 1 \in 0..BlockCount
      BY <2>1
    <2>3. i' \in [Threads -> 0..BlockCount]
      BY <2>2 DEF Advance
    <2>4. tpc' \in [Threads -> ThreadPCs]
      BY DEF ThreadPCs
    <2> QED BY <2>1, <2>3, <2>4
  <1>2. NoLostWake' BY DEF NoLostWake
  <1>3. JobInv' BY DEF JobInv
  <1>4. LockInv'
    <2>1. \A b \in Blocks : WorkerHolds(b)' <=> WorkerHolds(b)
      BY DEF WorkerHolds, Claimed
    <2>2. i[t] \in Blocks /\ ThreadHolds(t, i[t])
      BY DEF ThreadInv, ThreadHolds
    <2>3. \A u \in Threads, b \in Blocks :
            ThreadHolds(u, b)' <=> ThreadHolds(u, b) /\ ~(u = t /\ b = i[t])
      BY DEF ThreadHolds, Taking, Advance
    <2>4. \A b \in Blocks : mZeroLock'[b] <=> mZeroLock[b] /\ b # i[t]
      BY <2>2
    <2>5. LockInv
      OBVIOUS
    <2> HIDE DEF FreeInv, TypeOK, SomeoneElseGotIt
    <2> QED BY <2>1, <2>2, <2>3, <2>4, <2>5, ReleaseLock
  <1>5. ThreadInv' BY DEF ThreadInv, Scanning, Taking, Advance
  <1>6. WorkerInv' BY DEF WorkerInv, Claimed
  <1>7. OneOwner' BY DEF OneOwner, ThreadInv
  <1>8. RowsInv'
    <2>1. \A u \in Threads : tpc[u] \in Taking => tpc'[u] \in Taking /\ block'[u] = block[u]
      BY DEF Taking
    <2>2. \A u \in Threads : block'[u] # NoBlock =>
            /\ block'[u] = block[u]
            /\ tpc'[u] \in Taking \cup {"unlock", "got"} => tpc[u] \in Taking \cup {"unlock", "got"}
            /\ tpc'[u] \in {"unlock", "got", "run"} => tpc[u] \in {"unlock", "got", "run"}
            /\ tpc'[u] = "run" => tpc[u] = "run"
      BY DEF Taking
    <2>3. RowsInv /\ UNCHANGED <<mOwned, zeroed, rows>>
      OBVIOUS
    <2> HIDE DEF FreeInv, TypeOK, SomeoneElseGotIt
    <2> QED BY <2>1, <2>2, <2>3, SameRows
  <1>9. QueueCounts'
    <2>1. Zeroed' = Zeroed /\ OnWayOut' = OnWayOut /\ OnWayIn' = OnWayIn
      BY DEF Zeroed, OnWayOut, OnWayIn
    <2> QED BY <2>1 DEF QueueCounts
  <1>10. ClaimInv'
    <2>1. Waking' = Waking /\ MayClaim' = MayClaim
      BY DEF Waking, MayClaim
    <2> QED BY <2>1 DEF ClaimInv
  <1>11. ~LazyReclaim => SkipInv' BY DEF SkipInv, AllTaken, Scanning, ThreadInv, Advance
  <1> HIDE DEF TypeOK, PoolTypeOK, SomeoneElseGotIt
  <1> QED BY <1>1, <1>2, <1>3, <1>4, <1>5, <1>6, <1>7, <1>8, <1>9, <1>10, <1>11

\* The lock goes with the block, which is in the count of nobody else.
LEMMA OwnInv ==
  ASSUME FreeInv, NEW t \in Threads, Own(t)
  PROVE  FreeInv'
  <1> USE DEF FreeInv, TypeOK, Own
  <1>1. TypeOK' BY DEF ThreadInv, ThreadPCs
  <1>2. NoLostWake' BY DEF NoLostWake
  <1>3. JobInv' BY DEF JobInv
  <1>4. LockInv'
    <2>1. \A b \in Blocks : WorkerHolds(b)' <=> WorkerHolds(b)
      BY DEF WorkerHolds, Claimed
    <2>2. \A u \in Threads, b \in Blocks : ThreadHolds(u, b)' <=> ThreadHolds(u, b)
      BY DEF ThreadHolds, Taking
    <2>3. LockInv /\ mZeroLock' = mZeroLock
      OBVIOUS
    <2> HIDE DEF FreeInv, TypeOK, Own
    <2> QED BY <2>1, <2>2, <2>3, SameLocks
  <1>5. ThreadInv' BY DEF ThreadInv, Scanning, Taking
  <1>6. WorkerInv' BY DEF WorkerInv, Claimed
  <1>7. OneOwner' BY DEF OneOwner, ThreadInv
  <1>8. RowsInv'
    <2>1. i[t] \in Blocks /\ ~mOwned[i[t]] /\ mOwned' = [mOwned EXCEPT ![i[t]] = TRUE]
      BY DEF ThreadInv
    <2>2. /\ tpc'[t] = "advance" /\ block'[t] = i[t]
          /\ \A u \in Threads \ {t} : tpc'[u] = tpc[u] /\ block'[u] = block[u]
      OBVIOUS
    <2>3. block[t] = NoBlock
      BY DEF ThreadInv, Scanning
    <2>4. \A b \in Blocks : mOwned'[b] /\ ~zeroed[b] => \E u \in Threads : tpc'[u] \in Taking /\ block'[u] = b
      <3> SUFFICES ASSUME NEW b \in Blocks, mOwned'[b], ~zeroed[b]
                   PROVE  \E u \in Threads : tpc'[u] \in Taking /\ block'[u] = b
        OBVIOUS
      <3>1. CASE b = i[t]
        BY <2>2, <3>1 DEF Taking
      <3>2. CASE b # i[t]
        <4>1. PICK u \in Threads : tpc[u] \in Taking /\ block[u] = b
          BY <2>1, <3>2 DEF RowsInv
        <4> QED BY <2>2, <2>3, <4>1
      <3> QED BY <3>1, <3>2
    <2>5. \A b \in Blocks : zeroed[b] /\ ~mOwned'[b] => rows[b] = "zeros"
      BY <2>1 DEF RowsInv
    <2>6. zeroed[i[t]] => rows[i[t]] = "zeros"
      BY <2>1 DEF RowsInv
    <2>7. UNCHANGED <<zeroed, rows>>
      OBVIOUS
    <2> QED BY <2>2, <2>4, <2>5, <2>6, <2>7 DEF RowsInv, Taking
  <1>9. QueueCounts'
    <2>1. i[t] \in Blocks /\ ~mOwned[i[t]]
      BY DEF ThreadInv
    <2>2. OnWayIn' = OnWayIn /\ Zeroed' = Zeroed \ {i[t]}
      BY <2>1 DEF OnWayIn, Zeroed
    <2>3. t \notin OnWayOut
      BY DEF OnWayOut
    <2>4. CASE zeroed[i[t]]
      <3>1. i[t] \in Zeroed
        BY <2>1, <2>4 DEF Zeroed
      <3>2. OnWayOut' = OnWayOut \cup {t}
        BY <2>4 DEF OnWayOut
      <3>3. Cardinality(Zeroed') = Cardinality(Zeroed) - 1
        <4>1. Cardinality(Zeroed \ {i[t]}) = Cardinality(Zeroed) - 1
          BY <3>1, CountsAreInt, FS_RemoveElement
        <4> QED BY <2>2, <4>1
      <3>4. Cardinality(OnWayOut') = Cardinality(OnWayOut) + 1
        BY <2>3, <3>2, CountsAreInt, FS_AddElement
      <3> QED BY <2>2, <3>3, <3>4, CountsAreInt DEF QueueCounts
    <2>5. CASE ~zeroed[i[t]]
      <3>1. Zeroed' = Zeroed
        BY <2>2, <2>5 DEF Zeroed
      <3>2. OnWayOut' = OnWayOut
        BY <2>5 DEF OnWayOut
      <3> QED BY <2>2, <3>1, <3>2 DEF QueueCounts
    <2> QED BY <2>4, <2>5
  <1>10. ClaimInv'
    <2>1. Waking' = Waking /\ MayClaim' = MayClaim
      BY DEF Waking, MayClaim
    <2> QED BY <2>1 DEF ClaimInv
  <1>11. ~LazyReclaim => SkipInv' BY DEF SkipInv, AllTaken, Scanning, ThreadInv
  <1> HIDE DEF TypeOK, PoolTypeOK, Own
  <1> QED BY <1>1, <1>2, <1>3, <1>4, <1>5, <1>6, <1>7, <1>8, <1>9, <1>10, <1>11

\* mNextFreeBlockOfSize only moves past a taken block.
LEMMA IncreaseNextFreeInv ==
  ASSUME FreeInv, NEW t \in Threads, IncreaseNextFree(t)
  PROVE  FreeInv'
  <1> USE DEF FreeInv, TypeOK, IncreaseNextFree
  <1>1. TypeOK'
    <2>1. i[t] \in 0..BlockCount /\ i[t] # BlockCount
      BY DEF ThreadInv
    <2>2. i[t] + 1 \in 0..BlockCount
      BY <2>1
    <2>3. i' \in [Threads -> 0..BlockCount]
      BY <2>2 DEF Advance
    <2>4. tpc' \in [Threads -> ThreadPCs]
      BY DEF ThreadPCs
    <2> QED BY <2>2, <2>3
  <1>2. NoLostWake' BY DEF NoLostWake
  <1>3. JobInv' BY DEF JobInv
  <1>4. LockInv'
    <2>1. \A b \in Blocks : WorkerHolds(b)' <=> WorkerHolds(b)
      BY DEF WorkerHolds, Claimed, Advance
    <2>2. \A u \in Threads, b \in Blocks : ThreadHolds(u, b)' <=> ThreadHolds(u, b)
      BY DEF ThreadHolds, Taking, Advance
    <2>3. LockInv /\ mZeroLock' = mZeroLock
      OBVIOUS
    <2> HIDE DEF FreeInv, TypeOK, IncreaseNextFree
    <2> QED BY <2>1, <2>2, <2>3, SameLocks
  <1>5. ThreadInv' BY DEF ThreadInv, Scanning, Taking, Advance
  <1>6. WorkerInv' BY DEF WorkerInv, Claimed
  <1>7. OneOwner' BY DEF OneOwner, ThreadInv
  <1>8. RowsInv'
    <2>1. \A u \in Threads : tpc[u] \in Taking => tpc'[u] \in Taking /\ block'[u] = block[u]
      BY DEF Taking
    <2>2. \A u \in Threads : block'[u] # NoBlock =>
            /\ block'[u] = block[u]
            /\ tpc'[u] \in Taking \cup {"unlock", "got"} => tpc[u] \in Taking \cup {"unlock", "got"}
            /\ tpc'[u] \in {"unlock", "got", "run"} => tpc[u] \in {"unlock", "got", "run"}
            /\ tpc'[u] = "run" => tpc[u] = "run"
      BY DEF Taking
    <2>3. RowsInv /\ UNCHANGED <<mOwned, zeroed, rows>>
      OBVIOUS
    <2> HIDE DEF FreeInv, TypeOK, IncreaseNextFree
    <2> QED BY <2>1, <2>2, <2>3, SameRows
  <1>9. QueueCounts'
    <2>1. Zeroed' = Zeroed /\ OnWayOut' = OnWayOut /\ OnWayIn' = OnWayIn
      BY DEF Zeroed, OnWayOut, OnWayIn
    <2> QED BY <2>1 DEF QueueCounts
  <1>10. ClaimInv'
    <2>1. Waking' = Waking /\ MayClaim' = MayClaim
      BY DEF Waking, MayClaim
    <2> QED BY <2>1 DEF ClaimInv
  <1>11. ~LazyReclaim => SkipInv'
    <2>1. ASSUME ~LazyReclaim PROVE SkipInv
      BY <2>1
    <2>2. i[t] \in 0..BlockCount /\ i[t] # BlockCount
      BY DEF ThreadInv
    <2> HIDE DEF FreeInv, TypeOK
    <2> QED BY <2>1, <2>2 DEF SkipInv, AllTaken, Scanning, Advance
  <1> HIDE DEF TypeOK, PoolTypeOK, IncreaseNextFree
  <1> QED BY <1>1, <1>2, <1>3, <1>4, <1>5, <1>6, <1>7, <1>8, <1>9, <1>10, <1>11

\* The variables of the scan are gone; its block stays locked.
LEMMA IncreasedNextFreeInv ==
  ASSUME FreeInv, NEW t \in Threads, IncreasedNextFree(t)
  PROVE  FreeInv'
  <1> USE DEF FreeInv, TypeOK, IncreasedNextFree
  <1>1. TypeOK' BY DEF ThreadInv, ThreadPCs, Return
  <1>2. NoLostWake' BY DEF NoLostWake
  <1>3. JobInv' BY DEF JobInv
  <1>4. LockInv'
    <2>1. \A b \in Blocks : WorkerHolds(b)' <=> WorkerHolds(b)
      BY DEF WorkerHolds, Claimed, Return
    <2>2. \A u \in Threads, b \in Blocks : ThreadHolds(u, b)' <=> ThreadHolds(u, b)
      BY DEF ThreadHolds, Taking, Return
    <2>3. LockInv /\ mZeroLock' = mZeroLock
      OBVIOUS
    <2> HIDE DEF FreeInv, TypeOK, IncreasedNextFree
    <2> QED BY <2>1, <2>2, <2>3, SameLocks
  <1>5. ThreadInv' BY DEF ThreadInv, Scanning, Taking, Return
  <1>6. WorkerInv' BY DEF WorkerInv, Claimed
  <1>7. OneOwner' BY DEF OneOwner, ThreadInv
  <1>8. RowsInv'
    <2>1. \A u \in Threads : tpc[u] \in Taking => tpc'[u] \in Taking /\ block'[u] = block[u]
      BY DEF Taking
    <2>2. \A u \in Threads : block'[u] # NoBlock =>
            /\ block'[u] = block[u]
            /\ tpc'[u] \in Taking \cup {"unlock", "got"} => tpc[u] \in Taking \cup {"unlock", "got"}
            /\ tpc'[u] \in {"unlock", "got", "run"} => tpc[u] \in {"unlock", "got", "run"}
            /\ tpc'[u] = "run" => tpc[u] = "run"
      BY DEF Taking
    <2>3. RowsInv /\ UNCHANGED <<mOwned, zeroed, rows>>
      OBVIOUS
    <2> HIDE DEF FreeInv, TypeOK, IncreasedNextFree
    <2> QED BY <2>1, <2>2, <2>3, SameRows
  <1>9. QueueCounts'
    <2>1. Zeroed' = Zeroed /\ OnWayOut' = OnWayOut /\ OnWayIn' = OnWayIn
      BY DEF Zeroed, OnWayOut, OnWayIn
    <2> QED BY <2>1 DEF QueueCounts
  <1>10. ClaimInv'
    <2>1. Waking' = Waking /\ MayClaim' = MayClaim
      BY DEF Waking, MayClaim
    <2> QED BY <2>1 DEF ClaimInv
  <1>11. ~LazyReclaim => SkipInv' BY DEF SkipInv, AllTaken, Scanning, ThreadInv, Return
  <1> HIDE DEF TypeOK, PoolTypeOK, IncreasedNextFree
  <1> QED BY <1>1, <1>2, <1>3, <1>4, <1>5, <1>6, <1>7, <1>8, <1>9, <1>10, <1>11

\* A zeroed block leaves the count with its owner.
LEMMA OnZeroedBlockDequeuedInv ==
  ASSUME FreeInv, NEW t \in Threads, OnZeroedBlockDequeued(t)
  PROVE  FreeInv'
  <1> USE DEF FreeInv, TypeOK, OnZeroedBlockDequeued
  <1>1. TypeOK'
    <2>1. tpc' \in [Threads -> ThreadPCs]
      <3>1. tpc' = [tpc EXCEPT ![t] = "poke"] \/ tpc' = [tpc EXCEPT ![t] = "zero"]
        OBVIOUS
      <3>2. tpc \in [Threads -> ThreadPCs]
        OBVIOUS
      <3> HIDE DEF FreeInv, TypeOK, OnZeroedBlockDequeued
      <3> QED BY <3>1, <3>2 DEF ThreadPCs
    <2>2. mZeroListQueue' \in Int
      OBVIOUS
    <2> QED BY <2>1, <2>2
  <1>2. NoLostWake' BY DEF NoLostWake
  <1>3. JobInv' BY DEF JobInv
  <1>4. LockInv'
    <2>1. \A b \in Blocks : WorkerHolds(b)' <=> WorkerHolds(b)
      BY DEF WorkerHolds, Claimed
    <2>2. \A u \in Threads, b \in Blocks : ThreadHolds(u, b)' <=> ThreadHolds(u, b)
      BY DEF ThreadHolds, Taking
    <2>3. LockInv /\ mZeroLock' = mZeroLock
      OBVIOUS
    <2> HIDE DEF FreeInv, TypeOK, OnZeroedBlockDequeued
    <2> QED BY <2>1, <2>2, <2>3, SameLocks
  <1>5. ThreadInv' BY DEF ThreadInv, Scanning, Taking
  <1>6. WorkerInv' BY DEF WorkerInv, Claimed
  <1>7. OneOwner' BY DEF OneOwner, ThreadInv
  <1>8. RowsInv'
    <2>1. \A u \in Threads : tpc[u] \in Taking => tpc'[u] \in Taking /\ block'[u] = block[u]
      BY DEF Taking
    <2>2. \A u \in Threads : block'[u] # NoBlock =>
            /\ block'[u] = block[u]
            /\ tpc'[u] \in Taking \cup {"unlock", "got"} => tpc[u] \in Taking \cup {"unlock", "got"}
            /\ tpc'[u] \in {"unlock", "got", "run"} => tpc[u] \in {"unlock", "got", "run"}
            /\ tpc'[u] = "run" => tpc[u] = "run"
      BY DEF Taking
    <2>3. RowsInv /\ UNCHANGED <<mOwned, zeroed, rows>>
      OBVIOUS
    <2> HIDE DEF FreeInv, TypeOK, OnZeroedBlockDequeued
    <2> QED BY <2>1, <2>2, <2>3, SameRows
  <1>9. QueueCounts'
    <2>1. Zeroed' = Zeroed /\ OnWayIn' = OnWayIn
      BY DEF Zeroed, OnWayIn
    <2>2. sgThreadPoolJob = "zero"
      BY DEF JobInv
    <2>3. OnWayOut' = OnWayOut \ {t}
      BY DEF OnWayOut
    <2>4. IsFiniteSet(OnWayOut)
      BY FS_Subset DEF OnWayOut
    <2>5. CASE zeroed[block[t]]
      <3>1. t \in OnWayOut /\ mZeroListQueue' = mZeroListQueue - 1
        BY <2>2, <2>5 DEF OnWayOut
      <3>2. Cardinality(OnWayOut') = Cardinality(OnWayOut) - 1
        BY <2>3, <2>4, <3>1, FS_RemoveElement
      <3>3. /\ mZeroListQueue = Cardinality(Zeroed) + Cardinality(OnWayOut) - Cardinality(OnWayIn)
            /\ cpc' \notin {"collect", "start"}
        BY DEF QueueCounts
      <3>4. mZeroListQueue' = Cardinality(Zeroed) + (Cardinality(OnWayOut) - 1) - Cardinality(OnWayIn)
        <4> HIDE DEF FreeInv, TypeOK, OnZeroedBlockDequeued
        <4> QED BY <3>1, <3>3, CountsAreInt
      <3> QED BY <2>1, <3>2, <3>3, <3>4 DEF QueueCounts
    <2>6. CASE ~zeroed[block[t]]
      <3>1. t \notin OnWayOut /\ mZeroListQueue' = mZeroListQueue
        BY <2>6 DEF OnWayOut
      <3>2. OnWayOut' = OnWayOut
        BY <2>3, <3>1
      <3> QED BY <2>1, <3>1, <3>2 DEF QueueCounts
    <2> QED BY <2>5, <2>6
  <1>10. ClaimInv'
    <2>1. Waking' = Waking /\ MayClaim' = MayClaim
      BY DEF Waking, MayClaim
    <2> QED BY <2>1 DEF ClaimInv
  <1>11. ~LazyReclaim => SkipInv'
    <2> SUFFICES ASSUME ~LazyReclaim PROVE SkipInv'
      OBVIOUS
    <2>1. (\A b \in Blocks : mReclaimed'[b]) /\ AllTaken(mNextFreeBlockOfSize)'
      BY DEF SkipInv, AllTaken
    <2>2. ASSUME NEW u \in Threads, tpc'[u] \in Scanning, NEW b \in Blocks, fits'[b]
          PROVE  /\ b < nextFree'[u] => mOwned'[b]
                 /\ failedLock'[u] \/ (b < i'[u] => mOwned'[b])
      <3>1. CASE u = t
        BY <2>2, <3>1 DEF SkipInv, AllTaken, Scanning
      <3>2. CASE u # t
        BY <2>2, <3>2 DEF SkipInv, AllTaken, Scanning
      <3> QED BY <3>1, <3>2
    <2>3. ASSUME NEW u \in Threads, tpc'[u] = "none", NEW b \in Blocks, fits'[b]
          PROVE  mOwned'[b]
      <3>1. tpc[u] = "none" /\ mOwned' = mOwned /\ fits' = fits
        BY <2>3
      <3> QED BY <2>3, <3>1 DEF SkipInv, AllTaken
    <2> QED BY <2>1, <2>2, <2>3 DEF SkipInv, AllTaken
  <1> HIDE DEF TypeOK, PoolTypeOK, OnZeroedBlockDequeued
  <1> QED BY <1>1, <1>2, <1>3, <1>4, <1>5, <1>6, <1>7, <1>8, <1>9, <1>10, <1>11

\* On its way to waking the worker a thread keeps its block, and everything
\* else is as it was.
LEMMA PokeInv ==
  ASSUME FreeInv, NEW t \in Threads, NEW to \in {"queue", "left", "wake", "zero"},
         tpc[t] \in {"poke", "queue", "left"}, cpc = "mutate", tpc' = [tpc EXCEPT ![t] = to],
         queued' \in [Threads -> Nat \cup {-1}],
         to = "wake" => mThreadJobId <= BlockCount,
         UNCHANGED <<poolVars, sleepVars, wpc, cpc, blockVars, block, scanVars, mZeroListQueue,
                     mThreadJobId, mNextFreeBlockOfSize>>
  PROVE  FreeInv'
  <1> USE DEF FreeInv, TypeOK
  <1>1. TypeOK' BY DEF ThreadPCs
  <1>2. NoLostWake' BY DEF NoLostWake
  <1>3. JobInv' BY DEF JobInv
  <1>4. LockInv'
    <2>1. \A b \in Blocks : WorkerHolds(b)' <=> WorkerHolds(b)
      BY DEF WorkerHolds, Claimed
    <2>2. \A u \in Threads, b \in Blocks : ThreadHolds(u, b)' <=> ThreadHolds(u, b)
      BY DEF ThreadHolds, Taking
    <2>3. LockInv /\ mZeroLock' = mZeroLock
      OBVIOUS
    <2> HIDE DEF FreeInv, TypeOK
    <2> QED BY <2>1, <2>2, <2>3, SameLocks
  <1>5. ThreadInv' BY DEF ThreadInv, Scanning, Taking
  <1>6. WorkerInv' BY DEF WorkerInv, Claimed
  <1>7. OneOwner' BY DEF OneOwner, ThreadInv
  <1>8. RowsInv'
    <2>1. \A u \in Threads : tpc[u] \in Taking => tpc'[u] \in Taking /\ block'[u] = block[u]
      BY DEF Taking
    <2>2. \A u \in Threads : block'[u] # NoBlock =>
            /\ block'[u] = block[u]
            /\ tpc'[u] \in Taking \cup {"unlock", "got"} => tpc[u] \in Taking \cup {"unlock", "got"}
            /\ tpc'[u] \in {"unlock", "got", "run"} => tpc[u] \in {"unlock", "got", "run"}
            /\ tpc'[u] = "run" => tpc[u] = "run"
      BY DEF Taking
    <2>3. RowsInv /\ UNCHANGED <<mOwned, zeroed, rows>>
      OBVIOUS
    <2> HIDE DEF FreeInv, TypeOK
    <2> QED BY <2>1, <2>2, <2>3, SameRows
  <1>9. QueueCounts'
    <2>1. Zeroed' = Zeroed /\ OnWayOut' = OnWayOut /\ OnWayIn' = OnWayIn
      BY DEF Zeroed, OnWayOut, OnWayIn
    <2> QED BY <2>1 DEF QueueCounts
  <1>10. ClaimInv'
    <2>1. CASE to = "wake"
      BY <2>1 DEF ClaimInv
    <2>2. CASE to # "wake"
      <3>1. Waking' = Waking /\ MayClaim' = MayClaim
        BY <2>2 DEF Waking, MayClaim
      <3> QED BY <3>1 DEF ClaimInv
    <2> QED BY <2>1, <2>2
  <1>11. ~LazyReclaim => SkipInv' BY DEF SkipInv, AllTaken, Scanning, ThreadInv
  <1> HIDE DEF TypeOK, PoolTypeOK
  <1> QED BY <1>1, <1>2, <1>3, <1>4, <1>5, <1>6, <1>7, <1>8, <1>9, <1>10, <1>11

\* The look at the bits.
LEMMA WakeTheThreadInv ==
  ASSUME FreeInv, NEW t \in Threads, WakeTheThread(t)
  PROVE  FreeInv'
  <1>1. PICK to \in {"queue", "zero"} : tpc' = [tpc EXCEPT ![t] = to]
    BY DEF WakeTheThread
  <1>2. queued' \in [Threads -> Nat \cup {-1}]
    BY DEF WakeTheThread, FreeInv, TypeOK
  <1> QED BY <1>1, <1>2, PokeInv DEF WakeTheThread

\* The queue is short of what it counts by the one block that the worker has
\* not counted yet.
LEMMA QueueIsNearlyNat ==
  ASSUME FreeInv, cpc = "mutate"
  PROVE  mZeroListQueue \in Nat \cup {-1}
  <1>1. OnWayIn \subseteq {0}
    BY DEF OnWayIn, FreeInv, NoLostWake, JobInv
  <1>2. IsFiniteSet({0}) /\ Cardinality({0}) = 1
    BY FS_Singleton
  <1>3. Cardinality(OnWayIn) <= 1
    BY <1>1, <1>2, FS_Subset
  <1>4. mZeroListQueue = Cardinality(Zeroed) + Cardinality(OnWayOut) - Cardinality(OnWayIn)
    BY DEF FreeInv, QueueCounts
  <1>5. mZeroListQueue \in Int /\ mZeroListQueue >= -1
    BY <1>3, <1>4, CountsAreInt
  <1> QED BY <1>5

\* The look at the queue.
LEMMA ReadQueueInv ==
  ASSUME FreeInv, NEW t \in Threads, ReadQueue(t)
  PROVE  FreeInv'
  <1>1. cpc = "mutate" /\ tpc[t] = "queue" /\ tpc' = [tpc EXCEPT ![t] = "left"]
    BY DEF ReadQueue
  <1>2. mZeroListQueue \in Nat \cup {-1}
    BY <1>1, QueueIsNearlyNat
  <1>3. queued' \in [Threads -> Nat \cup {-1}]
    BY <1>2 DEF ReadQueue, FreeInv, TypeOK
  <1> QED BY <1>1, <1>3, PokeInv DEF ReadQueue

\* The worker is worth waking only while there is a block to claim: at most
\* one less than the thread had seen queued.
LEMMA LookForWorkInv ==
  ASSUME FreeInv, NEW t \in Threads, LookForWork(t)
  PROVE  FreeInv'
  <1>1. cpc = "mutate" /\ tpc[t] = "left"
    BY DEF LookForWork
  <1>2. PICK to \in {"wake", "zero"} :
          /\ tpc' = [tpc EXCEPT ![t] = to]
          /\ to = "wake" => queued[t] + mThreadJobId < BlockCount
    BY DEF LookForWork
  <1>3. queued[t] \in Nat \cup {-1} /\ mThreadJobId \in Nat /\ BlockCount \in Nat
    BY BlocksAssumption DEF FreeInv, TypeOK
  <1>4. to = "wake" => mThreadJobId <= BlockCount
    BY <1>2, <1>3
  <1>5. queued' \in [Threads -> Nat \cup {-1}]
    BY DEF LookForWork, FreeInv, TypeOK
  <1> QED BY <1>1, <1>2, <1>4, <1>5, PokeInv DEF LookForWork

\* A bit that is set now is signalled to a worker that sleeps.
LEMMA WakeZeroingThreadInv ==
  ASSUME FreeInv, NEW t \in Threads, WakeZeroingThread(t)
  PROVE  FreeInv'
  <1> USE DEF FreeInv, TypeOK, WakeZeroingThread
  <1>1. TypeOK'
    <2>1. tpc' \in [Threads -> ThreadPCs]
      BY DEF ThreadPCs
    <2>2. /\ sRunningThreads' \subseteq Workers /\ sAllThreads' \subseteq Workers
          /\ sLazyThreads' \in BOOLEAN /\ signalled' \subseteq Workers
      BY DEF WakeThreadLocked, SetRunning, Signal
    <2> QED BY <2>1, <2>2
  <1>2. NoLostWake' BY DEF NoLostWake, JobInv, WakeThreadLocked, SetRunning, Signal
  <1>3. JobInv' BY DEF JobInv, WakeThreadLocked, SetRunning, Signal
  <1>4. LockInv'
    <2>1. \A b \in Blocks : WorkerHolds(b)' <=> WorkerHolds(b)
      BY DEF WorkerHolds, Claimed
    <2>2. \A u \in Threads, b \in Blocks : ThreadHolds(u, b)' <=> ThreadHolds(u, b)
      BY DEF ThreadHolds, Taking
    <2>3. LockInv /\ mZeroLock' = mZeroLock
      OBVIOUS
    <2> HIDE DEF FreeInv, TypeOK, WakeZeroingThread
    <2> QED BY <2>1, <2>2, <2>3, SameLocks
  <1>5. ThreadInv' BY DEF ThreadInv, Scanning, Taking
  <1>6. WorkerInv' BY DEF WorkerInv, Claimed
  <1>7. OneOwner' BY DEF OneOwner, ThreadInv
  <1>8. RowsInv'
    <2>1. \A u \in Threads : tpc[u] \in Taking => tpc'[u] \in Taking /\ block'[u] = block[u]
      BY DEF Taking
    <2>2. \A u \in Threads : block'[u] # NoBlock =>
            /\ block'[u] = block[u]
            /\ tpc'[u] \in Taking \cup {"unlock", "got"} => tpc[u] \in Taking \cup {"unlock", "got"}
            /\ tpc'[u] \in {"unlock", "got", "run"} => tpc[u] \in {"unlock", "got", "run"}
            /\ tpc'[u] = "run" => tpc[u] = "run"
      BY DEF Taking
    <2>3. RowsInv /\ UNCHANGED <<mOwned, zeroed, rows>>
      OBVIOUS
    <2> HIDE DEF FreeInv, TypeOK, WakeZeroingThread
    <2> QED BY <2>1, <2>2, <2>3, SameRows
  <1>9. QueueCounts'
    <2>1. Zeroed' = Zeroed /\ OnWayOut' = OnWayOut /\ OnWayIn' = OnWayIn
      BY DEF Zeroed, OnWayOut, OnWayIn
    <2> QED BY <2>1 DEF QueueCounts
  <1>10. ClaimInv'
    <2>1. Waking' = Waking \ {t} /\ t \in Waking
      BY DEF Waking
    <2>2. Cardinality(Waking') = Cardinality(Waking) - 1 /\ Cardinality(Waking') \in Nat
      <3>1. IsFiniteSet(Waking \ {t}) /\ Cardinality(Waking \ {t}) = Cardinality(Waking) - 1
        BY <2>1, CountsAreInt, FS_RemoveElement
      <3> QED BY <2>1, <3>1, FS_CardinalityType
    <2>3. MayClaim' \in {MayClaim, 1} /\ MayClaim \in {0, 1}
      BY DEF MayClaim, WakeThreadLocked, SetRunning
    <2>4. Cardinality(Waking') + MayClaim' <= Cardinality(Waking) + MayClaim
      <3> DEFINE n == Cardinality(Waking)
                 m == MayClaim
                 m1 == MayClaim'
      <3>1. n \in Int /\ Cardinality(Waking') = n - 1 /\ m \in {0, 1} /\ m1 \in {m, 1}
        BY <2>2, <2>3, CountsAreInt
      <3> HIDE DEF n, m, m1
      <3>2. (n - 1) + m1 <= n + m
        BY <3>1
      <3> QED BY <3>1, <3>2 DEF n, m, m1
    <2>5. mThreadJobId' = mThreadJobId
      OBVIOUS
    <2> QED BY <2>2, <2>4, <2>5, FewerClaims
  <1>11. ~LazyReclaim => SkipInv' BY DEF SkipInv, AllTaken, Scanning, ThreadInv
  <1> HIDE DEF TypeOK, PoolTypeOK, WakeZeroingThread
  <1> QED BY <1>1, <1>2, <1>3, <1>4, <1>5, <1>6, <1>7, <1>8, <1>9, <1>10, <1>11

\* A scan that missed a lock goes round; else every block that fits is taken.
LEMMA EndOfListInv ==
  ASSUME FreeInv, NEW t \in Threads, EndOfList(t)
  PROVE  FreeInv'
  <1> USE DEF FreeInv, TypeOK, EndOfList
  <1>1. TypeOK'
    <2>1. CASE failedLock[t]
      BY <2>1
    <2>2. CASE ~failedLock[t]
      <3>1. tpc' = [tpc EXCEPT ![t] = "none"] /\ i' = [i EXCEPT ![t] = 0]
        BY <2>2 DEF Return
      <3>2. nextFree' = [nextFree EXCEPT ![t] = 0] /\ failedLock' = [failedLock EXCEPT ![t] = FALSE]
        BY <2>2 DEF Return
      <3> QED BY <3>1, <3>2 DEF ThreadPCs
    <2> QED BY <2>1, <2>2
  <1>2. NoLostWake' BY DEF NoLostWake
  <1>3. JobInv' BY DEF JobInv
  <1>4. LockInv'
    <2>1. \A b \in Blocks : WorkerHolds(b)' <=> WorkerHolds(b)
      BY DEF WorkerHolds, Claimed, Return
    <2>2. \A u \in Threads, b \in Blocks : ThreadHolds(u, b)' <=> ThreadHolds(u, b)
      BY DEF ThreadHolds, Taking, Return
    <2>3. LockInv /\ mZeroLock' = mZeroLock
      OBVIOUS
    <2> HIDE DEF FreeInv, TypeOK, EndOfList
    <2> QED BY <2>1, <2>2, <2>3, SameLocks
  <1>5. ThreadInv'
    <2>1. \A u \in Threads : tpc'[u] # tpc[u] => tpc'[u] = "none" /\ tpc[u] = "scan"
      BY DEF Return
    <2>2. \A u \in Threads : tpc'[u] \in {"cas", "missed", "locked"} => i'[u] = i[u]
      BY DEF Return
    <2> QED BY <2>1, <2>2 DEF ThreadInv, Scanning, Taking
  <1>6. WorkerInv' BY DEF WorkerInv, Claimed
  <1>7. OneOwner' BY DEF OneOwner, ThreadInv
  <1>8. RowsInv'
    <2>1. \A u \in Threads : tpc[u] \in Taking => tpc'[u] \in Taking /\ block'[u] = block[u]
      BY DEF Taking
    <2>2. \A u \in Threads : block'[u] # NoBlock =>
            /\ block'[u] = block[u]
            /\ tpc'[u] \in Taking \cup {"unlock", "got"} => tpc[u] \in Taking \cup {"unlock", "got"}
            /\ tpc'[u] \in {"unlock", "got", "run"} => tpc[u] \in {"unlock", "got", "run"}
            /\ tpc'[u] = "run" => tpc[u] = "run"
      BY DEF Taking
    <2>3. RowsInv /\ UNCHANGED <<mOwned, zeroed, rows>>
      OBVIOUS
    <2> HIDE DEF FreeInv, TypeOK, EndOfList
    <2> QED BY <2>1, <2>2, <2>3, SameRows
  <1>9. QueueCounts'
    <2>1. Zeroed' = Zeroed /\ OnWayOut' = OnWayOut /\ OnWayIn' = OnWayIn
      BY DEF Zeroed, OnWayOut, OnWayIn
    <2> QED BY <2>1 DEF QueueCounts
  <1>10. ClaimInv'
    <2>1. Waking' = Waking /\ MayClaim' = MayClaim
      BY DEF Waking, MayClaim
    <2> QED BY <2>1 DEF ClaimInv
  <1>11. ~LazyReclaim => SkipInv'
    <2> SUFFICES ASSUME ~LazyReclaim PROVE SkipInv'
      OBVIOUS
    <2>1. (\A b \in Blocks : mReclaimed'[b]) /\ AllTaken(mNextFreeBlockOfSize)'
      BY DEF SkipInv, AllTaken, Return
    <2>2. ASSUME NEW u \in Threads, tpc'[u] \in Scanning, NEW b \in Blocks, fits'[b]
          PROVE  /\ b < nextFree'[u] => mOwned'[b]
                 /\ failedLock'[u] \/ (b < i'[u] => mOwned'[b])
      <3>1. CASE u = t
        BY <2>2, <3>1 DEF SkipInv, AllTaken, Scanning, Return
      <3>2. CASE u # t
        BY <2>2, <3>2 DEF SkipInv, AllTaken, Scanning, Return
      <3> QED BY <3>1, <3>2
    <2>3. ASSUME NEW u \in Threads, tpc'[u] = "none", NEW b \in Blocks, fits'[b]
          PROVE  mOwned'[b]
      BY <2>3 DEF SkipInv, AllTaken, Scanning, Return
    <2> QED BY <2>1, <2>2, <2>3 DEF SkipInv, AllTaken
  <1> HIDE DEF TypeOK, PoolTypeOK, EndOfList
  <1> QED BY <1>1, <1>2, <1>3, <1>4, <1>5, <1>6, <1>7, <1>8, <1>9, <1>10, <1>11

-----------------------------------------------------------------------------
(* zeroAndUnlock in GetFreeBlock, and CallAlloc.                          *)

\* A block is zeroed by its owner, who has its lock: the worker has another one.
LEMMA ZeroOwnBlockInv ==
  ASSUME FreeInv, NEW t \in Threads, ZeroOwnBlock(t)
  PROVE  FreeInv'
  <1> USE DEF FreeInv, TypeOK, ZeroOwnBlock
  <1>a. /\ block[t] \in Blocks /\ mOwned[block[t]] /\ ThreadHolds(t, block[t])
        /\ tpc[t] = "zero" /\ tpc' = [tpc EXCEPT ![t] = "unlock"]
    BY DEF ThreadInv, ThreadHolds, Taking
  <1>b. zeroed' = [zeroed EXCEPT ![block[t]] = TRUE] /\ rows' = [rows EXCEPT ![block[t]] = "zeros"]
    <2>1. CASE zeroed[block[t]]
      BY <1>a, <2>1 DEF ZeroBlock, RowsInv, Taking
    <2>2. CASE ~zeroed[block[t]]
      BY <1>a, <2>2 DEF ZeroBlock
    <2> QED BY <2>1, <2>2
  <1>c. /\ mReclaimed' \in [Blocks -> BOOLEAN]
        /\ \A b \in Blocks : mReclaimed[b] => mReclaimed'[b]
        /\ \A b \in Blocks \ {block[t]} : mReclaimed'[b] = mReclaimed[b]
    <2>1. mReclaimed' = mReclaimed \/ mReclaimed' = [mReclaimed EXCEPT ![block[t]] = TRUE]
      BY DEF ZeroBlock
    <2>2. mReclaimed \in [Blocks -> BOOLEAN]
      OBVIOUS
    <2> HIDE DEF FreeInv, TypeOK, ZeroOwnBlock
    <2> QED BY <1>a, <2>1, <2>2
  <1>d. fits' \in [Blocks -> BOOLEAN] /\ \A b \in Blocks : fits'[b] => fits[b]
    <2>1. PICK f \in BOOLEAN : (f => fits[block[t]]) /\ fits' = [fits EXCEPT ![block[t]] = f]
      BY DEF MayShrink
    <2>2. fits \in [Blocks -> BOOLEAN]
      OBVIOUS
    <2> HIDE DEF FreeInv, TypeOK, ZeroOwnBlock
    <2> QED BY <1>a, <2>1, <2>2
  <1>e. \A u \in Threads \ {t} : tpc'[u] = tpc[u] /\ block[u] # block[t]
    BY <1>a DEF OneOwner
  <1>1. TypeOK' BY <1>a, <1>b, <1>c, <1>d DEF ThreadPCs
  <1>2. NoLostWake' BY DEF NoLostWake
  <1>3. JobInv' BY DEF JobInv, ZeroBlock
  <1>4. LockInv'
    <2>1. \A b \in Blocks : WorkerHolds(b)' <=> WorkerHolds(b)
      BY DEF WorkerHolds, Claimed
    <2>2. \A u \in Threads, b \in Blocks : ThreadHolds(u, b)' <=> ThreadHolds(u, b)
      BY <1>a DEF ThreadHolds, Taking
    <2>3. LockInv /\ mZeroLock' = mZeroLock
      OBVIOUS
    <2> HIDE DEF FreeInv, TypeOK, ZeroOwnBlock
    <2> QED BY <2>1, <2>2, <2>3, SameLocks
  <1>5. ThreadInv' BY DEF ThreadInv, Scanning, Taking, ZeroBlock, MayShrink
  <1>6. WorkerInv'
    <2>1. wpc[0] = "reclaim" => Claimed # block[t]
      BY <1>a DEF LockInv, WorkerHolds
    <2>2. wpc[0] = "reclaim" => Claimed \in Blocks
      BY DEF WorkerInv, Claimed
    <2> QED BY <1>a, <1>b, <1>c, <2>1, <2>2 DEF WorkerInv, Claimed
  <1>7. OneOwner' BY DEF OneOwner, ThreadInv
  <1>8. RowsInv'
    <2>1. \A b \in Blocks : zeroed'[b] /\ ~mOwned'[b] => rows'[b] = "zeros"
      BY <1>a, <1>b DEF RowsInv
    <2>2. \A b \in Blocks : mOwned'[b] /\ ~zeroed'[b] => \E u \in Threads : tpc'[u] \in Taking /\ block'[u] = b
      BY <1>a, <1>b DEF RowsInv
    <2>3. \A u \in Threads \ {t} : block[u] # NoBlock =>
            zeroed'[block[u]] = zeroed[block[u]] /\ rows'[block[u]] = rows[block[u]]
      BY <1>a, <1>b, <1>e
    <2>4. zeroed'[block[t]] /\ rows'[block[t]] = "zeros" /\ tpc'[t] = "unlock"
      BY <1>a, <1>b
    <2> QED BY <1>e, <2>1, <2>2, <2>3, <2>4 DEF RowsInv
  <1>9. QueueCounts'
    <2>1. Zeroed' = Zeroed /\ OnWayIn' = OnWayIn
      BY <1>a, <1>b DEF Zeroed, OnWayIn
    <2>2. OnWayOut' = OnWayOut
      <3>1. \A u \in Threads : tpc[u] \in {"advance", "dequeue"} => block[u] \in Blocks
        BY DEF ThreadInv, Taking
      <3> QED BY <1>a, <1>b, <1>e, <3>1 DEF OnWayOut
    <2> QED BY <2>1, <2>2 DEF QueueCounts
  <1>10. ClaimInv'
    <2>1. Waking' = Waking /\ MayClaim' = MayClaim
      BY DEF Waking, MayClaim
    <2> QED BY <2>1 DEF ClaimInv
  <1>11. ~LazyReclaim => SkipInv'
    <2>1. \A u \in Threads : tpc'[u] \in Scanning \cup {"none"} => tpc[u] = tpc'[u]
      BY <1>a DEF Scanning
    <2> QED BY <1>c, <1>d, <2>1 DEF SkipInv, AllTaken, Scanning
  <1> HIDE DEF TypeOK, PoolTypeOK, ZeroOwnBlock
  <1> QED BY <1>1, <1>2, <1>3, <1>4, <1>5, <1>6, <1>7, <1>8, <1>9, <1>10, <1>11

\* The lock is released by who has it.
LEMMA UnlockOwnBlockInv ==
  ASSUME FreeInv, NEW t \in Threads, UnlockOwnBlock(t)
  PROVE  FreeInv'
  <1> USE DEF FreeInv, TypeOK, UnlockOwnBlock
  <1>1. TypeOK'
    <2>1. tpc' \in [Threads -> ThreadPCs]
      BY DEF ThreadPCs
    <2>2. block[t] \in Blocks
      BY DEF ThreadInv
    <2> QED BY <2>1, <2>2
  <1>2. NoLostWake' BY DEF NoLostWake
  <1>3. JobInv' BY DEF JobInv
  <1>4. LockInv'
    <2>1. \A b \in Blocks : WorkerHolds(b)' <=> WorkerHolds(b)
      BY DEF WorkerHolds, Claimed
    <2>2. block[t] \in Blocks /\ ThreadHolds(t, block[t])
      BY DEF ThreadInv, ThreadHolds
    <2>3. \A u \in Threads, b \in Blocks :
            ThreadHolds(u, b)' <=> ThreadHolds(u, b) /\ ~(u = t /\ b = block[t])
      BY DEF ThreadHolds, Taking
    <2>4. \A b \in Blocks : mZeroLock'[b] <=> mZeroLock[b] /\ b # block[t]
      BY <2>2
    <2>5. LockInv
      OBVIOUS
    <2> HIDE DEF FreeInv, TypeOK, UnlockOwnBlock
    <2> QED BY <2>1, <2>2, <2>3, <2>4, <2>5, ReleaseLock
  <1>5. ThreadInv' BY DEF ThreadInv, Scanning, Taking
  <1>6. WorkerInv' BY DEF WorkerInv, Claimed
  <1>7. OneOwner' BY DEF OneOwner, ThreadInv
  <1>8. RowsInv' BY DEF RowsInv, Taking, ThreadInv, OneOwner
  <1>9. QueueCounts'
    <2>1. Zeroed' = Zeroed /\ OnWayOut' = OnWayOut /\ OnWayIn' = OnWayIn
      BY DEF Zeroed, OnWayOut, OnWayIn
    <2> QED BY <2>1 DEF QueueCounts
  <1>10. ClaimInv'
    <2>1. Waking' = Waking /\ MayClaim' = MayClaim
      BY DEF Waking, MayClaim
    <2> QED BY <2>1 DEF ClaimInv
  <1>11. ~LazyReclaim => SkipInv' BY DEF SkipInv, AllTaken, Scanning, ThreadInv
  <1> HIDE DEF TypeOK, PoolTypeOK, UnlockOwnBlock
  <1> QED BY <1>1, <1>2, <1>3, <1>4, <1>5, <1>6, <1>7, <1>8, <1>9, <1>10, <1>11

\* Objects are made in rows that belong to one thread.
LEMMA AllocateInv ==
  ASSUME FreeInv, NEW t \in Threads, Allocate(t)
  PROVE  FreeInv'
  <1> USE DEF FreeInv, TypeOK, Allocate
  <1>1. TypeOK' BY DEF ThreadInv, ThreadPCs
  <1>2. NoLostWake' BY DEF NoLostWake
  <1>3. JobInv' BY DEF JobInv
  <1>4. LockInv'
    <2>1. \A b \in Blocks : WorkerHolds(b)' <=> WorkerHolds(b)
      BY DEF WorkerHolds, Claimed
    <2>2. \A u \in Threads, b \in Blocks : ThreadHolds(u, b)' <=> ThreadHolds(u, b)
      BY DEF ThreadHolds, Taking
    <2>3. LockInv /\ mZeroLock' = mZeroLock
      OBVIOUS
    <2> HIDE DEF FreeInv, TypeOK, Allocate
    <2> QED BY <2>1, <2>2, <2>3, SameLocks
  <1>5. ThreadInv' BY DEF ThreadInv, Scanning, Taking
  <1>6. WorkerInv' BY DEF WorkerInv, Claimed
  <1>7. OneOwner' BY DEF OneOwner, ThreadInv
  <1>8. RowsInv' BY DEF RowsInv, Taking, ThreadInv, OneOwner
  <1>9. QueueCounts'
    <2>1. Zeroed' = Zeroed /\ OnWayOut' = OnWayOut /\ OnWayIn' = OnWayIn
      BY DEF Zeroed, OnWayOut, OnWayIn
    <2> QED BY <2>1 DEF QueueCounts
  <1>10. ClaimInv'
    <2>1. Waking' = Waking /\ MayClaim' = MayClaim
      BY DEF Waking, MayClaim
    <2> QED BY <2>1 DEF ClaimInv
  <1>11. ~LazyReclaim => SkipInv' BY DEF SkipInv, AllTaken, Scanning, ThreadInv
  <1> HIDE DEF TypeOK, PoolTypeOK, Allocate
  <1> QED BY <1>1, <1>2, <1>3, <1>4, <1>5, <1>6, <1>7, <1>8, <1>9, <1>10, <1>11

-----------------------------------------------------------------------------
(* The worker.                                                            *)

\* A worker that is in the job is worker 0, and its bit is set.
LEMMA TakeJobInv ==
  ASSUME FreeInv, NEW w \in Workers, TakeJob(w)
  PROVE  FreeInv'
  <1> USE DEF FreeInv, TypeOK, TakeJob
  <1>a. w = 0 /\ 0 \in sRunningThreads /\ wpc[0] = "job" /\ cpc \notin {"collect", "start"}
    BY DEF NoLostWake, JobInv
  <1>1. TypeOK' BY DEF WorkerInv, WorkerPCs
  <1>2. NoLostWake' BY DEF NoLostWake, JobInv
  <1>3. JobInv' BY DEF JobInv, NoLostWake
  <1>4. LockInv' BY DEF LockInv, ThreadHolds, WorkerHolds, Taking, Claimed, ThreadInv, WorkerInv
  <1>5. ThreadInv' BY DEF ThreadInv, Scanning, Taking
  <1>6. WorkerInv' BY DEF WorkerInv, Claimed
  <1>7. OneOwner' BY DEF OneOwner, ThreadInv
  <1>8. RowsInv' BY DEF RowsInv, Taking, ThreadInv, OneOwner
  <1>9. QueueCounts'
    <2>1. Zeroed' = Zeroed /\ OnWayOut' = OnWayOut /\ OnWayIn' = OnWayIn
      BY DEF Zeroed, OnWayOut, OnWayIn
    <2> QED BY <2>1 DEF QueueCounts
  <1>10. ClaimInv'
    <2>1. Waking' = Waking
      BY DEF Waking
    <2>2. MayClaim' = 1 => MayClaim = 1
      BY <1>a DEF MayClaim
    <2> QED BY <2>1, <2>2, SameClaims
  <1>11. ~LazyReclaim => SkipInv' BY DEF SkipInv, AllTaken, Scanning, ThreadInv
  <1> HIDE DEF TypeOK, PoolTypeOK, TakeJob
  <1> QED BY <1>1, <1>2, <1>3, <1>4, <1>5, <1>6, <1>7, <1>8, <1>9, <1>10, <1>11

\* The worker goes on or stops.
LEMMA TopInv ==
  ASSUME FreeInv, NEW w \in Workers, Top(w)
  PROVE  FreeInv'
  <1> USE DEF FreeInv, TypeOK, Top
  <1>a. w = 0 /\ 0 \in sRunningThreads /\ wpc[0] = "top" /\ cpc \notin {"collect", "start"}
    BY DEF NoLostWake, JobInv
  <1>1. TypeOK' BY DEF WorkerInv, WorkerPCs
  <1>2. NoLostWake' /\ JobInv'
    <2>1. /\ wpc[w] \notin {"loop", "asleep"} /\ wpc'[w] \notin {"loop", "asleep"}
          /\ \A v \in Workers \ {w} : wpc'[v] = wpc[v]
      OBVIOUS
    <2>2. NoLostWake /\ JobInv /\ cpc # "start" /\ UNCHANGED <<poolVars, sleepVars, cpc, tpc>>
      BY <1>a
    <2> HIDE DEF FreeInv, TypeOK, Top
    <2> QED BY <2>1, <2>2, WorkerGoesOn
  <1>3. LockInv' BY DEF LockInv, ThreadHolds, WorkerHolds, Taking, Claimed, ThreadInv, WorkerInv
  <1>4. ThreadInv' BY DEF ThreadInv, Scanning, Taking
  <1>5. WorkerInv' BY DEF WorkerInv, Claimed
  <1>6. OneOwner' BY DEF OneOwner, ThreadInv
  <1>7. RowsInv' BY DEF RowsInv, Taking, ThreadInv, OneOwner
  <1>8. QueueCounts'
    <2>1. Zeroed' = Zeroed /\ OnWayOut' = OnWayOut /\ OnWayIn' = OnWayIn
      BY DEF Zeroed, OnWayOut, OnWayIn
    <2> QED BY <2>1 DEF QueueCounts
  <1>9. ClaimInv'
    <2>1. Waking' = Waking
      BY DEF Waking
    <2>2. MayClaim' = 1 => MayClaim = 1
      BY <1>a DEF MayClaim
    <2> QED BY <2>1, <2>2, SameClaims
  <1>10. ~LazyReclaim => SkipInv' BY DEF SkipInv, AllTaken, Scanning, ThreadInv
  <1> HIDE DEF TypeOK, PoolTypeOK, Top
  <1> QED BY <1>1, <1>2, <1>3, <1>4, <1>5, <1>6, <1>7, <1>8, <1>9, <1>10

\* A claim past the end of the list is the last one.
LEMMA ClaimNextInv ==
  ASSUME FreeInv, NEW w \in Workers, Claim(w)
  PROVE  FreeInv'
  <1> USE DEF FreeInv, TypeOK, Claim
  <1>a. w = 0 /\ 0 \in sRunningThreads /\ wpc[0] = "claim" /\ cpc \notin {"collect", "start"}
    BY DEF NoLostWake, JobInv
  <1>1. TypeOK'
    <2>1. wpc' \in [Workers -> WorkerPCs]
      <3>1. wpc' = [wpc EXCEPT ![w] = "try"] \/ wpc' = [wpc EXCEPT ![w] = "finish"]
        OBVIOUS
      <3>2. wpc \in [Workers -> WorkerPCs]
        OBVIOUS
      <3> HIDE DEF FreeInv, TypeOK, Claim
      <3> QED BY <3>1, <3>2 DEF WorkerPCs
    <2> QED BY <2>1
  <1>2. NoLostWake' /\ JobInv'
    <2>1. /\ wpc[w] \notin {"loop", "asleep"} /\ wpc'[w] \notin {"loop", "asleep"}
          /\ \A v \in Workers \ {w} : wpc'[v] = wpc[v]
      OBVIOUS
    <2>2. NoLostWake /\ JobInv /\ cpc # "start" /\ UNCHANGED <<poolVars, sleepVars, cpc, tpc>>
      BY <1>a
    <2> HIDE DEF FreeInv, TypeOK, Claim
    <2> QED BY <2>1, <2>2, WorkerGoesOn
  <1>3. LockInv'
    <2>1. \A b \in Blocks : ~WorkerHolds(b) /\ ~WorkerHolds(b)'
      BY <1>a DEF WorkerHolds
    <2>2. \A u \in Threads, b \in Blocks : ThreadHolds(u, b)' <=> ThreadHolds(u, b)
      BY DEF ThreadHolds
    <2>3. LockInv /\ mZeroLock' = mZeroLock
      OBVIOUS
    <2> HIDE DEF FreeInv, TypeOK, Claim
    <2> QED BY <2>1, <2>2, <2>3, SameLocks
  <1>4. ThreadInv' BY DEF ThreadInv, Scanning, Taking
  <1>5. WorkerInv'
    <2>1. wpc'[0] \in {"try", "finish"} /\ (wpc'[0] = "try" => mThreadJobId < BlockCount)
      BY <1>a
    <2> QED BY <2>1 DEF WorkerInv
  <1>6. OneOwner' BY DEF OneOwner, ThreadInv
  <1>7. RowsInv'
    <2>1. RowsInv /\ UNCHANGED <<mOwned, zeroed, rows, tpc, block>>
      OBVIOUS
    <2> HIDE DEF FreeInv, TypeOK, Claim
    <2> QED BY <2>1 DEF RowsInv
  <1>8. QueueCounts'
    <2>1. Zeroed' = Zeroed /\ OnWayOut' = OnWayOut /\ OnWayIn' = OnWayIn
      BY DEF Zeroed, OnWayOut, OnWayIn
    <2> QED BY <2>1 DEF QueueCounts
  <1>9. ClaimInv'
    <2>1. Waking' = Waking
      BY DEF Waking
    <2>2. MayClaim = 1
      BY <1>a DEF MayClaim
    <2>3. CASE mThreadJobId < BlockCount
      BY <2>3 DEF ClaimInv
    <2>4. CASE mThreadJobId = BlockCount
      <3>1. MayClaim' = 0 /\ mThreadJobId' = BlockCount + 1
        BY <1>a, <2>4 DEF MayClaim
      <3> QED BY <2>1, <3>1, CountsAreInt DEF ClaimInv
    <2>5. CASE mThreadJobId > BlockCount
      <3>1. MayClaim' = 0 /\ mThreadJobId' = mThreadJobId + 1
        BY <1>a, <2>5 DEF MayClaim
      <3> QED BY <2>1, <2>2, <2>5, <3>1, CountsAreInt DEF ClaimInv
    <2> QED BY <2>3, <2>4, <2>5
  <1>10. ~LazyReclaim => SkipInv' BY DEF SkipInv, AllTaken, Scanning, ThreadInv
  <1> HIDE DEF TypeOK, PoolTypeOK, Claim
  <1> QED BY <1>1, <1>2, <1>3, <1>4, <1>5, <1>6, <1>7, <1>8, <1>9, <1>10

\* The look without the lock.
LEMMA TryZeroInv ==
  ASSUME FreeInv, NEW w \in Workers, TryZero(w)
  PROVE  FreeInv'
  <1> USE DEF FreeInv, TypeOK, TryZero
  <1>1. TypeOK' BY DEF WorkerInv, WorkerPCs, Claimed
  <1>2. NoLostWake' /\ JobInv'
    <2>1. /\ wpc[w] \notin {"loop", "asleep"} /\ wpc'[w] \notin {"loop", "asleep"}
          /\ \A v \in Workers \ {w} : wpc'[v] = wpc[v]
      OBVIOUS
    <2>2. NoLostWake /\ JobInv /\ cpc # "start" /\ UNCHANGED <<poolVars, sleepVars, cpc, tpc>>
      BY DEF NoLostWake, JobInv
    <2> HIDE DEF FreeInv, TypeOK, TryZero
    <2> QED BY <2>1, <2>2, WorkerGoesOn
  <1>3. LockInv' BY DEF LockInv, ThreadHolds, WorkerHolds, Taking, Claimed, ThreadInv, WorkerInv
  <1>4. ThreadInv' BY DEF ThreadInv, Scanning, Taking, Claimed
  <1>5. WorkerInv' BY DEF WorkerInv, Claimed
  <1>6. OneOwner' BY DEF OneOwner, ThreadInv
  <1>7. RowsInv' BY DEF RowsInv, Taking, ThreadInv, OneOwner, Claimed
  <1>8. QueueCounts'
    <2>1. Zeroed' = Zeroed /\ OnWayOut' = OnWayOut /\ OnWayIn' = OnWayIn
      BY DEF Zeroed, OnWayOut, OnWayIn
    <2> QED BY <2>1 DEF QueueCounts
  <1>9. ClaimInv'
    <2>1. Waking' = Waking /\ MayClaim' = MayClaim
      BY DEF Waking, MayClaim
    <2> QED BY <2>1 DEF ClaimInv
  <1>10. ~LazyReclaim => SkipInv' BY DEF SkipInv, AllTaken, Scanning, ThreadInv, Claimed
  <1> HIDE DEF TypeOK, PoolTypeOK, TryZero
  <1> QED BY <1>1, <1>2, <1>3, <1>4, <1>5, <1>6, <1>7, <1>8, <1>9, <1>10

\* The worker takes a lock that is free, or passes the block.
LEMMA TryLockInv ==
  ASSUME FreeInv, NEW w \in Workers, TryLock(w)
  PROVE  FreeInv'
  <1> USE DEF FreeInv, TypeOK, TryLock
  <1>a. w = 0 /\ 0 \in sRunningThreads /\ wpc[0] = "cas" /\ cpc \notin {"collect", "start"}
    BY DEF NoLostWake, JobInv
  <1>b. Claimed \in Blocks /\ Claimed' = Claimed
    BY <1>a DEF WorkerInv, Claimed
  <1>1. TypeOK'
    <2>1. wpc' \in [Workers -> WorkerPCs]
      BY <1>a DEF WorkerPCs
    <2>2. mZeroLock' \in [Blocks -> BOOLEAN]
      BY <1>b
    <2> QED BY <2>1, <2>2
  <1>2. NoLostWake' /\ JobInv'
    <2>1. /\ wpc[w] \notin {"loop", "asleep"} /\ wpc'[w] \notin {"loop", "asleep"}
          /\ \A v \in Workers \ {w} : wpc'[v] = wpc[v]
      OBVIOUS
    <2>2. NoLostWake /\ JobInv /\ cpc # "start" /\ UNCHANGED <<poolVars, sleepVars, cpc, tpc>>
      BY <1>a
    <2> HIDE DEF FreeInv, TypeOK, TryLock
    <2> QED BY <2>1, <2>2, WorkerGoesOn
  <1>3. LockInv'
    <2>1. \A u \in Threads, b \in Blocks : ThreadHolds(u, b)' <=> ThreadHolds(u, b)
      BY DEF ThreadHolds
    <2>2. \A b \in Blocks : ~WorkerHolds(b)
      BY <1>a DEF WorkerHolds
    <2>3. CASE mZeroLock[Claimed]
      <3>1. mZeroLock' = mZeroLock
        BY <1>b, <2>3
      <3>2. \A b \in Blocks : ~WorkerHolds(b)'
        BY <1>a, <2>3 DEF WorkerHolds
      <3> QED BY <2>1, <2>2, <3>1, <3>2, SameLocks
    <2>4. CASE ~mZeroLock[Claimed]
      <3>1. \A b \in Blocks : mZeroLock'[b] <=> mZeroLock[b] \/ b = Claimed
        BY <1>b
      <3>2. \A b \in Blocks : WorkerHolds(b)' <=> b = Claimed
        BY <1>a, <1>b, <2>4 DEF WorkerHolds
      <3> QED BY <1>b, <2>1, <2>2, <2>4, <3>1, <3>2, WorkerTakesLock
    <2> QED BY <2>3, <2>4
  <1>4. ThreadInv' BY DEF ThreadInv, Scanning, Taking, Claimed
  <1>5. WorkerInv' BY DEF WorkerInv, Claimed
  <1>6. OneOwner' BY DEF OneOwner, ThreadInv
  <1>7. RowsInv' BY DEF RowsInv, Taking, ThreadInv, OneOwner, Claimed
  <1>8. QueueCounts'
    <2>1. Zeroed' = Zeroed /\ OnWayOut' = OnWayOut /\ OnWayIn' = OnWayIn
      BY DEF Zeroed, OnWayOut, OnWayIn
    <2> QED BY <2>1 DEF QueueCounts
  <1>9. ClaimInv'
    <2>1. Waking' = Waking /\ MayClaim' = MayClaim
      BY DEF Waking, MayClaim
    <2> QED BY <2>1 DEF ClaimInv
  <1>10. ~LazyReclaim => SkipInv' BY DEF SkipInv, AllTaken, Scanning, ThreadInv, Claimed
  <1> HIDE DEF TypeOK, PoolTypeOK, TryLock
  <1> QED BY <1>1, <1>2, <1>3, <1>4, <1>5, <1>6, <1>7, <1>8, <1>9, <1>10

\* The block that is reclaimed late is locked and not zeroed.
LEMMA LateReclaimInv ==
  ASSUME FreeInv, NEW w \in Workers, LateReclaim(w)
  PROVE  FreeInv'
  <1> USE DEF FreeInv, TypeOK, LateReclaim
  <1>a. w = 0 /\ 0 \in sRunningThreads /\ wpc[0] = "zero" /\ cpc \notin {"collect", "start"}
    BY DEF NoLostWake, JobInv
  <1>b. Claimed \in Blocks /\ Claimed' = Claimed
    BY <1>a DEF WorkerInv, Claimed
  <1>1. TypeOK' BY <1>a, <1>b DEF WorkerPCs
  <1>2. NoLostWake' BY DEF NoLostWake, JobInv
  <1>3. JobInv' BY DEF JobInv, NoLostWake
  <1>4. LockInv'
    <2>1. \A b \in Blocks : WorkerHolds(b)' <=> WorkerHolds(b)
      BY <1>a DEF WorkerHolds, Claimed
    <2>2. \A t \in Threads, b \in Blocks : ThreadHolds(t, b)' <=> ThreadHolds(t, b)
      BY DEF ThreadHolds, Taking
    <2>3. LockInv /\ mZeroLock' = mZeroLock
      OBVIOUS
    <2> HIDE DEF FreeInv, TypeOK, LateReclaim
    <2> QED BY <2>1, <2>2, <2>3, SameLocks
  <1>5. ThreadInv' BY DEF ThreadInv, Scanning, Taking, Claimed
  <1>6. WorkerInv' BY <1>a, <1>b DEF WorkerInv
  <1>7. OneOwner' BY DEF OneOwner, ThreadInv
  <1>8. RowsInv' BY DEF RowsInv, Taking, ThreadInv, OneOwner, Claimed
  <1>9. QueueCounts'
    <2>1. Zeroed' = Zeroed /\ OnWayOut' = OnWayOut /\ OnWayIn' = OnWayIn
      BY DEF Zeroed, OnWayOut, OnWayIn
    <2> QED BY <2>1 DEF QueueCounts
  <1>10. ClaimInv'
    <2>1. Waking' = Waking /\ MayClaim' = MayClaim
      BY DEF Waking, MayClaim
    <2> QED BY <2>1 DEF ClaimInv
  <1>11. ~LazyReclaim => SkipInv' BY DEF SkipInv, AllTaken, Scanning, ThreadInv, Claimed
  <1> HIDE DEF TypeOK, PoolTypeOK, LateReclaim
  <1> QED BY <1>1, <1>2, <1>3, <1>4, <1>5, <1>6, <1>7, <1>8, <1>9, <1>10, <1>11

\* It is nobody's: the worker has its lock, and an owner who could still hope
\* for zeros would have it.
LEMMA LateReclaimedInv ==
  ASSUME FreeInv, NEW w \in Workers, LateReclaimed(w)
  PROVE  FreeInv'
  <1> USE DEF FreeInv, TypeOK, LateReclaimed
  <1>a. w = 0 /\ 0 \in sRunningThreads /\ wpc[0] = "reclaim" /\ cpc \notin {"collect", "start"}
    BY DEF NoLostWake, JobInv
  <1>b. Claimed \in Blocks /\ Claimed' = Claimed
    BY <1>a DEF WorkerInv, Claimed
  <1>c. ~mOwned[Claimed] /\ \A t \in Threads : block[t] # Claimed
    <2>1. WorkerHolds(Claimed)
      BY <1>a DEF WorkerHolds
    <2>2. \A t \in Threads : tpc[t] \in Taking => block[t] # Claimed
      BY <1>b, <2>1 DEF LockInv, ThreadHolds
    <2> QED BY <1>a, <1>b, <2>2 DEF RowsInv, ThreadInv, WorkerInv
  <1>d. /\ ~zeroed[Claimed] /\ ~mReclaimed[Claimed]
        /\ zeroed' = [zeroed EXCEPT ![Claimed] = TRUE] /\ rows' = [rows EXCEPT ![Claimed] = "zeros"]
        /\ mReclaimed' = [mReclaimed EXCEPT ![Claimed] = TRUE]
    BY <1>a DEF WorkerInv, ZeroBlock
  <1>1. TypeOK' BY <1>a, <1>b, <1>d DEF WorkerPCs
  <1>2. NoLostWake' BY DEF NoLostWake, JobInv
  <1>3. JobInv' BY DEF JobInv, NoLostWake, ZeroBlock
  <1>4. LockInv'
    BY DEF LockInv, ThreadHolds, WorkerHolds, Taking, Claimed, ThreadInv, WorkerInv, ZeroBlock
  <1>5. ThreadInv' BY DEF ThreadInv, Scanning, Taking, Claimed, ZeroBlock
  <1>6. WorkerInv' BY <1>a, <1>b DEF WorkerInv
  <1>7. OneOwner' BY DEF OneOwner, ThreadInv
  <1>8. RowsInv'
    <2>1. \A b \in Blocks : zeroed'[b] /\ ~mOwned'[b] => rows'[b] = "zeros"
      BY <1>b, <1>c, <1>d DEF RowsInv
    <2>2. \A b \in Blocks : mOwned'[b] /\ ~zeroed'[b] => \E t \in Threads : tpc'[t] \in Taking /\ block'[t] = b
      BY <1>b, <1>c, <1>d DEF RowsInv
    <2>3. \A t \in Threads : block[t] # NoBlock =>
            zeroed'[block[t]] = zeroed[block[t]] /\ rows'[block[t]] = rows[block[t]]
      BY <1>b, <1>c, <1>d
    <2> QED BY <1>b, <1>c, <1>d, <2>1, <2>2, <2>3 DEF RowsInv
  <1>9. QueueCounts'
    <2>1. Zeroed' = Zeroed \cup {Claimed} /\ Claimed \notin Zeroed
      BY <1>a, <1>b, <1>c, <1>d DEF Zeroed
    <2>2. OnWayIn' = OnWayIn \cup {0} /\ 0 \notin OnWayIn
      BY <1>a, <1>b, <1>c, <1>d DEF OnWayIn
    <2>3. OnWayOut' = OnWayOut
      <3>1. \A t \in Threads : tpc[t] \in {"advance", "dequeue"} => block[t] \in Blocks
        BY DEF ThreadInv, Taking
      <3> QED BY <1>a, <1>b, <1>c, <1>d, <3>1 DEF OnWayOut
    <2>4. Cardinality(Zeroed') = Cardinality(Zeroed) + 1
      BY <2>1, CountsAreInt, FS_AddElement
    <2>5. Cardinality(OnWayIn') = Cardinality(OnWayIn) + 1
      BY <2>2, CountsAreInt, FS_AddElement
    <2>6. /\ mZeroListQueue = Cardinality(Zeroed) + Cardinality(OnWayOut) - Cardinality(OnWayIn)
          /\ mZeroListQueue' = mZeroListQueue
      BY <1>a DEF QueueCounts
    <2> QED BY <2>3, <2>4, <2>5, <2>6, CountsAreInt DEF QueueCounts
  <1>10. ClaimInv'
    <2>1. Waking' = Waking /\ MayClaim' = MayClaim
      BY DEF Waking, MayClaim
    <2> QED BY <2>1 DEF ClaimInv
  <1>11. ~LazyReclaim => SkipInv' BY <1>b, <1>d DEF SkipInv
  <1> HIDE DEF TypeOK, PoolTypeOK, LateReclaimed
  <1> QED BY <1>1, <1>2, <1>3, <1>4, <1>5, <1>6, <1>7, <1>8, <1>9, <1>10, <1>11

\* Likewise if the worker only zeroes it; and if it is zeroed, nothing is done.
LEMMA ZeroAndUnlockInv ==
  ASSUME FreeInv, NEW w \in Workers, ZeroAndUnlock(w)
  PROVE  FreeInv'
  <1> USE DEF FreeInv, TypeOK, ZeroAndUnlock
  <1>a. w = 0 /\ 0 \in sRunningThreads /\ wpc[0] = "zero" /\ cpc \notin {"collect", "start"}
    BY DEF NoLostWake, JobInv
  <1>b. Claimed \in Blocks /\ Claimed' = Claimed
    BY <1>a DEF WorkerInv, Claimed
  <1>c. ~zeroed[Claimed] => ~mOwned[Claimed] /\ \A t \in Threads : block[t] # Claimed
    <2>1. WorkerHolds(Claimed)
      BY <1>a DEF WorkerHolds
    <2>2. \A t \in Threads : tpc[t] \in Taking => block[t] # Claimed
      BY <1>b, <2>1 DEF LockInv, ThreadHolds
    <2>3. ~zeroed[Claimed] => ~mOwned[Claimed]
      BY <1>b, <2>2 DEF RowsInv
    <2>4. \A t \in Threads : block[t] # NoBlock => mOwned[block[t]]
      BY DEF ThreadInv
    <2>5. Claimed # NoBlock
      BY <1>b
    <2> HIDE DEF FreeInv, TypeOK, ZeroAndUnlock
    <2> QED BY <2>3, <2>4, <2>5
  <1>d. /\ zeroed' = [zeroed EXCEPT ![Claimed] = TRUE]
        /\ rows' = IF zeroed[Claimed] THEN rows ELSE [rows EXCEPT ![Claimed] = "zeros"]
    <2>1. CASE zeroed[Claimed]
      BY <1>b, <2>1 DEF ZeroBlock
    <2>2. CASE ~zeroed[Claimed]
      <3>1. zeroed' = [zeroed EXCEPT ![Claimed] = TRUE] /\ rows' = [rows EXCEPT ![Claimed] = "zeros"]
        BY <2>2 DEF ZeroBlock
      <3> QED BY <2>2, <3>1
    <2> QED BY <2>1, <2>2
  <1>e. mReclaimed' \in [Blocks -> BOOLEAN] /\ \A b \in Blocks : mReclaimed[b] => mReclaimed'[b]
    <2>1. mReclaimed' = mReclaimed \/ mReclaimed' = [mReclaimed EXCEPT ![Claimed] = TRUE]
      BY DEF ZeroBlock
    <2>2. mReclaimed \in [Blocks -> BOOLEAN]
      OBVIOUS
    <2> HIDE DEF FreeInv, TypeOK, ZeroAndUnlock
    <2> QED BY <1>b, <2>1, <2>2
  <1>1. TypeOK'
    <2>1. zeroed' \in [Blocks -> BOOLEAN] /\ rows' \in [Blocks -> {"garbage", "zeros", "objects"}]
      BY <1>b, <1>d
    <2>2. wpc' \in [Workers -> WorkerPCs]
      <3>1. wpc' = [wpc EXCEPT ![w] = "unlock"] \/ wpc' = [wpc EXCEPT ![w] = "unlockzeroed"]
        OBVIOUS
      <3>2. wpc \in [Workers -> WorkerPCs]
        OBVIOUS
      <3> HIDE DEF FreeInv, TypeOK, ZeroAndUnlock
      <3> QED BY <3>1, <3>2 DEF WorkerPCs
    <2> QED BY <1>e, <2>1, <2>2
  <1>2. NoLostWake' /\ JobInv'
    <2>1. /\ wpc[w] \notin {"loop", "asleep"} /\ wpc'[w] \notin {"loop", "asleep"}
          /\ \A v \in Workers \ {w} : wpc'[v] = wpc[v]
      OBVIOUS
    <2>2. NoLostWake /\ JobInv /\ cpc # "start" /\ UNCHANGED <<poolVars, sleepVars, cpc, tpc>>
      BY <1>a
    <2> HIDE DEF FreeInv, TypeOK, ZeroAndUnlock
    <2> QED BY <2>1, <2>2, WorkerGoesOn
  <1>3. LockInv'
    <2>1. \A b \in Blocks : WorkerHolds(b)' <=> WorkerHolds(b)
      BY <1>a DEF WorkerHolds, Claimed
    <2>2. \A t \in Threads, b \in Blocks : ThreadHolds(t, b)' <=> ThreadHolds(t, b)
      BY DEF ThreadHolds, Taking
    <2>3. LockInv /\ mZeroLock' = mZeroLock
      OBVIOUS
    <2> HIDE DEF FreeInv, TypeOK, ZeroAndUnlock
    <2> QED BY <2>1, <2>2, <2>3, SameLocks
  <1>4. ThreadInv' BY DEF ThreadInv, Scanning, Taking, Claimed, ZeroBlock
  <1>5. WorkerInv' BY <1>a, <1>b DEF WorkerInv
  <1>6. OneOwner' BY DEF OneOwner, ThreadInv
  <1>7. RowsInv'
    <2>1. CASE zeroed[Claimed]
      <3>1. UNCHANGED <<zeroed, rows>>
        BY <1>b, <1>d, <2>1
      <3> QED BY <3>1 DEF RowsInv
    <2>2. CASE ~zeroed[Claimed]
      <3>1. \A b \in Blocks : zeroed'[b] /\ ~mOwned'[b] => rows'[b] = "zeros"
        BY <1>b, <1>c, <1>d, <2>2 DEF RowsInv
      <3>2. \A b \in Blocks : mOwned'[b] /\ ~zeroed'[b] => \E t \in Threads : tpc'[t] \in Taking /\ block'[t] = b
        BY <1>b, <1>c, <1>d, <2>2 DEF RowsInv
      <3>3. \A t \in Threads : block[t] # NoBlock =>
              zeroed'[block[t]] = zeroed[block[t]] /\ rows'[block[t]] = rows[block[t]]
        BY <1>b, <1>c, <1>d, <2>2
      <3> QED BY <1>b, <1>c, <1>d, <2>2, <3>1, <3>2, <3>3 DEF RowsInv
    <2> QED BY <2>1, <2>2
  <1>8. QueueCounts'
    <2>1. CASE zeroed[Claimed]
      <3>1. UNCHANGED <<zeroed, rows>>
        BY <1>b, <1>d, <2>1
      <3>2. Zeroed' = Zeroed /\ OnWayOut' = OnWayOut /\ OnWayIn' = OnWayIn
        BY <1>a, <2>1, <3>1 DEF Zeroed, OnWayOut, OnWayIn
      <3> QED BY <3>2 DEF QueueCounts
    <2>2. CASE ~zeroed[Claimed]
      <3>1. Zeroed' = Zeroed \cup {Claimed} /\ Claimed \notin Zeroed
        BY <1>a, <1>b, <1>c, <1>d, <2>2 DEF Zeroed
      <3>2. OnWayIn' = OnWayIn \cup {0} /\ 0 \notin OnWayIn
        <4>1. wpc' = [wpc EXCEPT ![0] = "unlock"]
          BY <1>a, <2>2
        <4> QED BY <1>a, <4>1 DEF OnWayIn
      <3>3. OnWayOut' = OnWayOut
        <4>1. \A t \in Threads : tpc[t] \in {"advance", "dequeue"} => block[t] \in Blocks
          BY DEF ThreadInv, Taking
        <4> QED BY <1>a, <1>b, <1>c, <1>d, <2>2, <4>1 DEF OnWayOut
      <3>4. Cardinality(Zeroed') = Cardinality(Zeroed) + 1
        BY <3>1, CountsAreInt, FS_AddElement
      <3>5. Cardinality(OnWayIn') = Cardinality(OnWayIn) + 1
        BY <3>2, CountsAreInt, FS_AddElement
      <3>6. /\ mZeroListQueue = Cardinality(Zeroed) + Cardinality(OnWayOut) - Cardinality(OnWayIn)
            /\ mZeroListQueue' = mZeroListQueue
        BY <1>a DEF QueueCounts
      <3> QED BY <3>3, <3>4, <3>5, <3>6, CountsAreInt DEF QueueCounts
    <2> QED BY <2>1, <2>2
  <1>9. ClaimInv'
    <2>1. Waking' = Waking /\ MayClaim' = MayClaim
      BY DEF Waking, MayClaim
    <2> QED BY <2>1 DEF ClaimInv
  <1>10. ~LazyReclaim => SkipInv' BY <1>e DEF SkipInv, AllTaken
  <1> HIDE DEF TypeOK, PoolTypeOK, ZeroAndUnlock
  <1> QED BY <1>1, <1>2, <1>3, <1>4, <1>5, <1>6, <1>7, <1>8, <1>9, <1>10

\* The worker releases its lock.
LEMMA UnlockInv ==
  ASSUME FreeInv, NEW w \in Workers, Unlock(w)
  PROVE  FreeInv'
  <1> USE DEF FreeInv, TypeOK, Unlock
  <1>a. w = 0 /\ 0 \in sRunningThreads /\ wpc[0] \in {"unlock", "unlockzeroed"} /\ cpc \notin {"collect", "start"}
    BY DEF NoLostWake, JobInv
  <1>b. Claimed \in Blocks /\ Claimed' = Claimed
    BY <1>a DEF WorkerInv, Claimed
  <1>1. TypeOK'
    <2>1. wpc' \in [Workers -> WorkerPCs]
      BY <1>a DEF WorkerPCs
    <2>2. mZeroLock' \in [Blocks -> BOOLEAN]
      BY <1>b
    <2> QED BY <2>1, <2>2
  <1>2. NoLostWake' /\ JobInv'
    <2>1. /\ wpc[w] \notin {"loop", "asleep"} /\ wpc'[w] \notin {"loop", "asleep"}
          /\ \A v \in Workers \ {w} : wpc'[v] = wpc[v]
      OBVIOUS
    <2>2. NoLostWake /\ JobInv /\ cpc # "start" /\ UNCHANGED <<poolVars, sleepVars, cpc, tpc>>
      BY <1>a
    <2> HIDE DEF FreeInv, TypeOK, Unlock
    <2> QED BY <2>1, <2>2, WorkerGoesOn
  <1>3. LockInv'
    <2>1. \A u \in Threads, b \in Blocks : ThreadHolds(u, b)' <=> ThreadHolds(u, b)
      BY DEF ThreadHolds
    <2>2. \A b \in Blocks : WorkerHolds(b) <=> b = Claimed
      BY <1>a DEF WorkerHolds
    <2>3. \A b \in Blocks : ~WorkerHolds(b)'
      BY <1>a DEF WorkerHolds
    <2>4. \A b \in Blocks : mZeroLock'[b] <=> mZeroLock[b] /\ b # Claimed
      BY <1>b
    <2>5. LockInv
      OBVIOUS
    <2> HIDE DEF FreeInv, TypeOK, Unlock
    <2> QED BY <1>b, <2>1, <2>2, <2>3, <2>4, <2>5, WorkerReleasesLock
  <1>4. ThreadInv' BY DEF ThreadInv, Scanning, Taking, Claimed
  <1>5. WorkerInv' BY DEF WorkerInv, Claimed
  <1>6. OneOwner' BY DEF OneOwner, ThreadInv
  <1>7. RowsInv' BY DEF RowsInv, Taking, ThreadInv, OneOwner, Claimed
  <1>8. QueueCounts'
    <2>1. Zeroed' = Zeroed
      BY DEF Zeroed
    <2>2. OnWayOut' = OnWayOut
      BY DEF OnWayOut
    <2>3. OnWayIn' = OnWayIn
      BY <1>a DEF OnWayIn
    <2> QED BY <2>1, <2>2, <2>3 DEF QueueCounts
  <1>9. ClaimInv'
    <2>1. Waking' = Waking /\ MayClaim' = MayClaim
      BY DEF Waking, MayClaim
    <2> QED BY <2>1 DEF ClaimInv
  <1>10. ~LazyReclaim => SkipInv' BY DEF SkipInv, AllTaken, Scanning, ThreadInv, Claimed
  <1> HIDE DEF TypeOK, PoolTypeOK, Unlock
  <1> QED BY <1>1, <1>2, <1>3, <1>4, <1>5, <1>6, <1>7, <1>8, <1>9, <1>10

\* The block is counted after it can be taken.
LEMMA CountInv ==
  ASSUME FreeInv, NEW w \in Workers, Count(w)
  PROVE  FreeInv'
  <1> USE DEF FreeInv, TypeOK, Count
  <1>a. w = 0 /\ 0 \in sRunningThreads /\ wpc[0] = "count" /\ cpc \notin {"collect", "start"}
    BY DEF NoLostWake, JobInv
  <1>b. Claimed \in Blocks /\ Claimed' = Claimed
    BY <1>a DEF WorkerInv, Claimed
  <1>1. TypeOK' BY DEF WorkerInv, WorkerPCs
  <1>2. NoLostWake' BY DEF NoLostWake, JobInv
  <1>3. JobInv' BY DEF JobInv, NoLostWake
  <1>4. LockInv'
    <2>1. \A b \in Blocks : WorkerHolds(b)' <=> WorkerHolds(b)
      BY <1>a DEF WorkerHolds, Claimed
    <2>2. \A t \in Threads, b \in Blocks : ThreadHolds(t, b)' <=> ThreadHolds(t, b)
      BY DEF ThreadHolds, Taking
    <2>3. LockInv /\ mZeroLock' = mZeroLock
      OBVIOUS
    <2> HIDE DEF FreeInv, TypeOK, Count
    <2> QED BY <2>1, <2>2, <2>3, SameLocks
  <1>5. ThreadInv' BY DEF ThreadInv, Scanning, Taking
  <1>6. WorkerInv' BY DEF WorkerInv, Claimed
  <1>7. OneOwner' BY DEF OneOwner, ThreadInv
  <1>8. RowsInv' BY DEF RowsInv, Taking, ThreadInv, OneOwner
  <1>9. QueueCounts'
    <2>1. Zeroed' = Zeroed /\ OnWayOut' = OnWayOut
      BY DEF Zeroed, OnWayOut
    <2>2. OnWayIn' = OnWayIn \ {0} /\ 0 \in OnWayIn
      BY <1>a DEF OnWayIn
    <2>3. Cardinality(OnWayIn') = Cardinality(OnWayIn) - 1
      BY <2>2, CountsAreInt, FS_RemoveElement
    <2>4. mZeroListQueue = Cardinality(Zeroed) + Cardinality(OnWayOut) - Cardinality(OnWayIn)
      BY <1>a DEF QueueCounts
    <2>5. mZeroListQueue' = Cardinality(Zeroed) + Cardinality(OnWayOut) - (Cardinality(OnWayIn) - 1)
      <3>1. mZeroListQueue' = mZeroListQueue + 1
        OBVIOUS
      <3> QED BY <2>4, <3>1, CountsAreInt, SMTT(20)
    <2> QED BY <1>a, <2>1, <2>3, <2>5 DEF QueueCounts
  <1>10. ClaimInv'
    <2>1. Waking' = Waking /\ MayClaim' = MayClaim
      BY DEF Waking, MayClaim
    <2> QED BY <2>1 DEF ClaimInv
  <1>11. ~LazyReclaim => SkipInv' BY DEF SkipInv, AllTaken, Scanning, ThreadInv
  <1> HIDE DEF TypeOK, PoolTypeOK, Count
  <1> QED BY <1>1, <1>2, <1>3, <1>4, <1>5, <1>6, <1>7, <1>8, <1>9, <1>10, <1>11

\* The worker leaves the job without a lock.
LEMMA FinishInv ==
  ASSUME FreeInv, NEW w \in Workers, Finish(w)
  PROVE  FreeInv'
  <1> USE DEF FreeInv, TypeOK, Finish
  <1>a. w = 0 /\ 0 \in sRunningThreads /\ wpc[0] = "finish" /\ cpc \notin {"collect", "start"}
    BY DEF NoLostWake, JobInv, FinishThreadJob
  <1>1. TypeOK' BY DEF WorkerInv, WorkerPCs, FinishThreadJob, SetRunning, Jobs
  <1>2. NoLostWake' BY DEF NoLostWake, JobInv, FinishThreadJob, SetRunning
  <1>3. JobInv' BY DEF JobInv, NoLostWake, FinishThreadJob, SetRunning
  <1>4. LockInv'
    <2>1. \A b \in Blocks : WorkerHolds(b)' <=> WorkerHolds(b)
      BY <1>a DEF WorkerHolds, Claimed, FinishThreadJob, SetRunning
    <2>2. \A u \in Threads, b \in Blocks : ThreadHolds(u, b)' <=> ThreadHolds(u, b)
      BY DEF ThreadHolds
    <2>3. LockInv /\ mZeroLock' = mZeroLock
      OBVIOUS
    <2> HIDE DEF FreeInv, TypeOK, Finish
    <2> QED BY <2>1, <2>2, <2>3, SameLocks
  <1>5. ThreadInv' BY DEF ThreadInv, Scanning, Taking
  <1>6. WorkerInv' BY <1>a DEF WorkerInv, FinishThreadJob, SetRunning
  <1>7. OneOwner' BY DEF OneOwner, ThreadInv
  <1>8. RowsInv' BY DEF RowsInv, Taking, ThreadInv, OneOwner
  <1>9. QueueCounts'
    <2>1. Zeroed' = Zeroed /\ OnWayOut' = OnWayOut
      BY DEF Zeroed, OnWayOut
    <2>2. OnWayIn' = OnWayIn
      BY <1>a DEF OnWayIn, FinishThreadJob, SetRunning
    <2>3. cpc' = cpc /\ mZeroListQueue' = mZeroListQueue
      BY DEF FinishThreadJob, SetRunning
    <2> QED BY <2>1, <2>2, <2>3 DEF QueueCounts
  <1>10. ClaimInv'
    <2>1. Waking' = Waking
      BY DEF Waking
    <2>2. MayClaim' = 1 => MayClaim = 1
      BY <1>a DEF MayClaim, FinishThreadJob, SetRunning
    <2> QED BY <2>1, <2>2, SameClaims
  <1>11. ~LazyReclaim => SkipInv' BY DEF SkipInv, AllTaken, Scanning, ThreadInv
  <1> HIDE DEF TypeOK, PoolTypeOK, Finish
  <1> QED BY <1>1, <1>2, <1>3, <1>4, <1>5, <1>6, <1>7, <1>8, <1>9, <1>10, <1>11

-----------------------------------------------------------------------------
(* The collector.                                                         *)

\* A mutator stops with a block or without, but never in the middle of a scan.
LEMMA StopMutatorsInv ==
  ASSUME FreeInv, StopMutators
  PROVE  FreeInv'
  <1> USE DEF FreeInv, TypeOK, StopMutators
  <1>1. TypeOK' BY DEF CollectorPCs
  <1>2. NoLostWake' BY DEF NoLostWake
  <1>3. JobInv' BY DEF JobInv, NoLostWake
  <1>4. LockInv' BY DEF LockInv, ThreadHolds, WorkerHolds, Taking, Claimed, ThreadInv
  <1>5. ThreadInv' BY DEF ThreadInv, Scanning, Taking
  <1>6. WorkerInv' BY DEF WorkerInv, Claimed
  <1>7. OneOwner' BY DEF OneOwner, ThreadInv
  <1>8. RowsInv' BY DEF RowsInv, Taking, ThreadInv, OneOwner
  <1>9. QueueCounts'
    <2>1. Zeroed' = Zeroed /\ OnWayOut' = OnWayOut /\ OnWayIn' = OnWayIn
      BY DEF Zeroed, OnWayOut, OnWayIn
    <2> QED BY <2>1 DEF QueueCounts
  <1>10. ClaimInv'
    <2>1. Waking' = Waking /\ MayClaim' = MayClaim
      BY DEF Waking, MayClaim
    <2> QED BY <2>1 DEF ClaimInv
  <1>11. ~LazyReclaim => SkipInv' BY DEF SkipInv, AllTaken, Scanning, ThreadInv
  <1> HIDE DEF TypeOK, PoolTypeOK, StopMutators
  <1> QED BY <1>1, <1>2, <1>3, <1>4, <1>5, <1>6, <1>7, <1>8, <1>9, <1>10, <1>11

\* Without a job there is no worker to wait for.
LEMMA NoJobsInv ==
  ASSUME FreeInv, NoJobs
  PROVE  FreeInv'
  <1> USE DEF FreeInv, TypeOK, NoJobs
  <1>1. TypeOK' BY DEF CollectorPCs
  <1>2. NoLostWake' BY DEF NoLostWake
  <1>3. JobInv' BY DEF JobInv, NoLostWake
  <1>4. LockInv' BY DEF LockInv, ThreadHolds, WorkerHolds, Taking, Claimed, ThreadInv
  <1>5. ThreadInv' BY DEF ThreadInv, Scanning, Taking
  <1>6. WorkerInv' BY DEF WorkerInv, Claimed
  <1>7. OneOwner' BY DEF OneOwner, ThreadInv
  <1>8. RowsInv' BY DEF RowsInv, Taking, ThreadInv, OneOwner
  <1>9. QueueCounts'
    <2>1. Zeroed' = Zeroed /\ OnWayOut' = OnWayOut /\ OnWayIn' = OnWayIn
      BY DEF Zeroed, OnWayOut, OnWayIn
    <2> QED BY <2>1 DEF QueueCounts
  <1>10. ClaimInv'
    <2>1. Waking' = Waking /\ MayClaim' = MayClaim
      BY DEF Waking, MayClaim
    <2> QED BY <2>1 DEF ClaimInv
  <1>11. ~LazyReclaim => SkipInv' BY DEF SkipInv, AllTaken, Scanning, ThreadInv
  <1> HIDE DEF TypeOK, PoolTypeOK, NoJobs
  <1> QED BY <1>1, <1>2, <1>3, <1>4, <1>5, <1>6, <1>7, <1>8, <1>9, <1>10, <1>11

\* The flag alone changes nothing.
LEMMA AbortJobsInv ==
  ASSUME FreeInv, AbortJobs
  PROVE  FreeInv'
  <1> USE DEF FreeInv, TypeOK, AbortJobs
  <1>1. TypeOK' BY DEF CollectorPCs
  <1>2. NoLostWake' BY DEF NoLostWake
  <1>3. JobInv' BY DEF JobInv, NoLostWake
  <1>4. LockInv' BY DEF LockInv, ThreadHolds, WorkerHolds, Taking, Claimed, ThreadInv
  <1>5. ThreadInv' BY DEF ThreadInv, Scanning, Taking
  <1>6. WorkerInv' BY DEF WorkerInv, Claimed
  <1>7. OneOwner' BY DEF OneOwner, ThreadInv
  <1>8. RowsInv' BY DEF RowsInv, Taking, ThreadInv, OneOwner
  <1>9. QueueCounts'
    <2>1. Zeroed' = Zeroed /\ OnWayOut' = OnWayOut /\ OnWayIn' = OnWayIn
      BY DEF Zeroed, OnWayOut, OnWayIn
    <2> QED BY <2>1 DEF QueueCounts
  <1>10. ClaimInv'
    <2>1. Waking' = Waking /\ MayClaim' = MayClaim
      BY DEF Waking, MayClaim
    <2> QED BY <2>1 DEF ClaimInv
  <1>11. ~LazyReclaim => SkipInv' BY DEF SkipInv, AllTaken, Scanning, ThreadInv
  <1> HIDE DEF TypeOK, PoolTypeOK, AbortJobs
  <1> QED BY <1>1, <1>2, <1>3, <1>4, <1>5, <1>6, <1>7, <1>8, <1>9, <1>10, <1>11

\* The job is cancelled; the worker has its bit already.
LEMMA CancelZeroingInv ==
  ASSUME FreeInv, CancelZeroing
  PROVE  FreeInv'
  <1> USE DEF FreeInv, TypeOK, CancelZeroing
  <1>a. sRunningThreads' = sRunningThreads /\ sAllThreads' = sAllThreads
    <2>1. CASE 0 \in sRunningThreads
      <3>1. sRunningThreads' = sRunningThreads \cup {0} /\ sAllThreads' = sAllThreads
        BY <2>1 DEF WakeThreadLocked, SetRunning
      <3> QED BY <2>1, <3>1
    <2>2. CASE 0 \notin sRunningThreads
      BY <2>2
    <2> QED BY <2>1, <2>2
  <1>1. TypeOK' BY <1>a DEF CollectorPCs, Jobs, WakeThreadLocked, SetRunning, Signal
  <1>2. NoLostWake' BY DEF NoLostWake, JobInv, WakeThreadLocked, SetRunning, Signal
  <1>3. JobInv' BY <1>a DEF JobInv
  <1>4. LockInv'
    <2>1. \A b \in Blocks : WorkerHolds(b)' <=> WorkerHolds(b)
      BY DEF WorkerHolds, Claimed
    <2>2. \A t \in Threads, b \in Blocks : ThreadHolds(t, b)' <=> ThreadHolds(t, b)
      BY DEF ThreadHolds, Taking
    <2>3. LockInv /\ mZeroLock' = mZeroLock
      OBVIOUS
    <2> HIDE DEF FreeInv, TypeOK, CancelZeroing
    <2> QED BY <2>1, <2>2, <2>3, SameLocks
  <1>5. ThreadInv' BY DEF ThreadInv, Scanning, Taking
  <1>6. WorkerInv' BY DEF WorkerInv, Claimed
  <1>7. OneOwner' BY DEF OneOwner, ThreadInv
  <1>8. RowsInv' BY DEF RowsInv, Taking, ThreadInv, OneOwner
  <1>9. QueueCounts'
    <2>1. Zeroed' = Zeroed /\ OnWayOut' = OnWayOut /\ OnWayIn' = OnWayIn
      BY DEF Zeroed, OnWayOut, OnWayIn
    <2> QED BY <2>1 DEF QueueCounts
  <1>10. ClaimInv'
    <2>1. Waking' = Waking
      BY DEF Waking
    <2>2. MayClaim' = 1 => MayClaim = 1
      BY <1>a DEF MayClaim
    <2> QED BY <2>1, <2>2, SameClaims
  <1>11. ~LazyReclaim => SkipInv' BY DEF SkipInv, AllTaken, Scanning, ThreadInv
  <1> HIDE DEF TypeOK, PoolTypeOK, CancelZeroing
  <1> QED BY <1>1, <1>2, <1>3, <1>4, <1>5, <1>6, <1>7, <1>8, <1>9, <1>10, <1>11

\* The collector waits if a bit is set.
LEMMA SleepForJobsInv ==
  ASSUME FreeInv, SleepForJobs
  PROVE  FreeInv'
  <1> USE DEF FreeInv, TypeOK, SleepForJobs
  <1>1. TypeOK' BY DEF CollectorPCs
  <1>2. NoLostWake' BY DEF NoLostWake
  <1>3. JobInv' BY DEF JobInv, NoLostWake
  <1>4. LockInv' BY DEF LockInv, ThreadHolds, WorkerHolds, Taking, Claimed, ThreadInv
  <1>5. ThreadInv' BY DEF ThreadInv, Scanning, Taking
  <1>6. WorkerInv' BY DEF WorkerInv, Claimed
  <1>7. OneOwner' BY DEF OneOwner, ThreadInv
  <1>8. RowsInv' BY DEF RowsInv, Taking, ThreadInv, OneOwner
  <1>9. QueueCounts'
    <2>1. Zeroed' = Zeroed /\ OnWayOut' = OnWayOut /\ OnWayIn' = OnWayIn
      BY DEF Zeroed, OnWayOut, OnWayIn
    <2> QED BY <2>1 DEF QueueCounts
  <1>10. ClaimInv'
    <2>1. Waking' = Waking /\ MayClaim' = MayClaim
      BY DEF Waking, MayClaim
    <2> QED BY <2>1 DEF ClaimInv
  <1>11. ~LazyReclaim => SkipInv' BY DEF SkipInv, AllTaken, Scanning, ThreadInv
  <1> HIDE DEF TypeOK, PoolTypeOK, SleepForJobs
  <1> QED BY <1>1, <1>2, <1>3, <1>4, <1>5, <1>6, <1>7, <1>8, <1>9, <1>10, <1>11

\* No bit is set, so nobody is in a block.
LEMMA JobsStoppedInv ==
  ASSUME FreeInv, JobsStopped
  PROVE  FreeInv'
  <1> USE DEF FreeInv, TypeOK, JobsStopped
  <1>1. TypeOK' BY DEF CollectorPCs, JobDone, Jobs
  <1>2. NoLostWake' BY DEF NoLostWake, JobInv, JobDone
  <1>3. JobInv' BY DEF JobInv, NoLostWake, JobDone
  <1>4. LockInv'
    <2>1. \A b \in Blocks : WorkerHolds(b)' <=> WorkerHolds(b)
      BY DEF WorkerHolds, Claimed, JobDone
    <2>2. \A u \in Threads, b \in Blocks : ThreadHolds(u, b)' <=> ThreadHolds(u, b)
      BY DEF ThreadHolds, Taking
    <2>3. LockInv /\ mZeroLock' = mZeroLock
      OBVIOUS
    <2> HIDE DEF FreeInv, TypeOK, JobsStopped
    <2> QED BY <2>1, <2>2, <2>3, SameLocks
  <1>5. ThreadInv' BY DEF ThreadInv, Scanning, Taking
  <1>6. WorkerInv' BY DEF WorkerInv, Claimed, JobDone
  <1>7. OneOwner' BY DEF OneOwner, ThreadInv
  <1>8. RowsInv' BY DEF RowsInv, Taking, ThreadInv, OneOwner
  <1>9. QueueCounts' BY DEF QueueCounts, JobDone
  <1>10. ClaimInv'
    <2>1. Waking' = Waking
      BY DEF Waking
    <2>2. MayClaim' = 1 => MayClaim = 1
      BY DEF MayClaim, JobDone
    <2> QED BY <2>1, <2>2, SameClaims
  <1>11. ~LazyReclaim => SkipInv' BY DEF SkipInv, AllTaken, Scanning, ThreadInv
  <1> HIDE DEF TypeOK, PoolTypeOK, JobsStopped
  <1> QED BY <1>1, <1>2, <1>3, <1>4, <1>5, <1>6, <1>7, <1>8, <1>9, <1>10, <1>11

\* Everything starts anew while nobody has a lock.
LEMMA CollectInv ==
  ASSUME FreeInv, Collect
  PROVE  FreeInv'
  <1> USE DEF FreeInv, TypeOK, Collect
  <1>a. wpc[0] \in {"loop", "asleep"} /\ \A t \in Threads : tpc[t] \in {"run", "none", "retry"}
    BY DEF NoLostWake, JobInv
  <1>b. /\ tpc' \in [Threads -> {"run", "retry"}] /\ block' = [t \in Threads |-> NoBlock]
        /\ UNCHANGED <<wpc, mThreadJobId>>
    BY <1>a
  <1>1. TypeOK'
    <2>1. fits' \in [Blocks -> BOOLEAN] /\ mNextFreeBlockOfSize' \in 0..BlockCount
      OBVIOUS
    <2>2. mReclaimed' \in [Blocks -> BOOLEAN]
      OBVIOUS
    <2>3. tpc' \in [Threads -> ThreadPCs]
      BY <1>b DEF ThreadPCs
    <2>4. cpc' \in CollectorPCs
      BY DEF CollectorPCs
    <2> QED BY <1>b, <2>1, <2>2, <2>3, <2>4
  <1>2. NoLostWake' BY DEF NoLostWake
  <1>3. JobInv' BY DEF JobInv, NoLostWake
  <1>4. LockInv'
    <2>1. \A b \in Blocks : WorkerHolds(b)' <=> WorkerHolds(b)
      BY <1>a DEF WorkerHolds
    <2>2. \A u \in Threads, b \in Blocks : ThreadHolds(u, b)' <=> ThreadHolds(u, b)
      BY <1>a, <1>b DEF ThreadHolds, Taking
    <2>3. LockInv /\ mZeroLock' = mZeroLock
      OBVIOUS
    <2> HIDE DEF FreeInv, TypeOK, Collect
    <2> QED BY <2>1, <2>2, <2>3, SameLocks
  <1>5. ThreadInv' BY <1>b DEF ThreadInv, Scanning, Taking
  <1>6. WorkerInv' BY <1>a DEF WorkerInv
  <1>7. OneOwner' BY DEF OneOwner, ThreadInv
  <1>8. RowsInv' BY <1>b DEF RowsInv
  <1>9. QueueCounts' BY DEF QueueCounts
  <1>10. ClaimInv'
    <2>1. Waking' = Waking /\ MayClaim' = MayClaim
      BY DEF Waking, MayClaim
    <2> QED BY <2>1 DEF ClaimInv
  <1>11. ~LazyReclaim => SkipInv'
    <2>1. \A u \in Threads : tpc'[u] \notin Scanning \cup {"none"}
      BY <1>b DEF Scanning
    <2>2. AllTaken(mNextFreeBlockOfSize)'
      <3>1. PICK first \in Blocks : fits' = [b \in Blocks |-> b >= first] /\ mNextFreeBlockOfSize' = first
        OBVIOUS
      <3>2. ASSUME NEW b \in Blocks, fits'[b]
            PROVE  ~(b < first)
        <4>1. b >= first
          BY <3>1, <3>2
        <4> QED BY <4>1
      <3> QED BY <3>1, <3>2 DEF AllTaken
    <2>3. ~LazyReclaim => \A b \in Blocks : mReclaimed'[b]
      OBVIOUS
    <2> QED BY <2>1, <2>2, <2>3 DEF SkipInv
  <1> HIDE DEF TypeOK, PoolTypeOK, Collect
  <1> QED BY <1>1, <1>2, <1>3, <1>4, <1>5, <1>6, <1>7, <1>8, <1>9, <1>10, <1>11

\* The queue is empty, and so is its count.
LEMMA BackgroundProcessFreeListInv ==
  ASSUME FreeInv, BackgroundProcessFreeList
  PROVE  FreeInv'
  <1> USE DEF FreeInv, TypeOK, BackgroundProcessFreeList
  <1>a. wpc[0] \in {"loop", "asleep"} /\ \A t \in Threads : tpc[t] \in {"run", "none", "retry"}
    BY DEF NoLostWake, JobInv, StartThreadJobs, SetRunning, Signal
  <1>b. UNCHANGED <<wpc, blockVars, threadVars, mNextFreeBlockOfSize>> /\ cpc = "start" /\ cpc' = "mutate"
    BY DEF StartThreadJobs, SetRunning, Signal
  <1>1. TypeOK'
    <2>1. /\ sRunningThreads' \subseteq Workers /\ sAllThreads' \subseteq Workers
          /\ sLazyThreads' \in BOOLEAN /\ signalled' \subseteq Workers
      BY DEF StartThreadJobs, SetRunning, Signal
    <2>2. /\ sgThreadPoolJob' \in Jobs /\ sThreadJobDoneSleeping' \in BOOLEAN /\ doneSignalled' \in BOOLEAN
          /\ sgThreadPoolAbort' \in BOOLEAN /\ sThreadSleeping' \subseteq Workers /\ cpc' \in CollectorPCs
      BY DEF StartThreadJobs, SetRunning, Signal, Jobs, CollectorPCs
    <2> QED BY <1>b, <2>1, <2>2
  <1>2. NoLostWake' BY DEF NoLostWake, JobInv, StartThreadJobs, SetRunning, Signal
  <1>3. JobInv' BY DEF JobInv, NoLostWake, StartThreadJobs, SetRunning, Signal
  <1>4. LockInv'
    <2>1. \A b \in Blocks : WorkerHolds(b)' <=> WorkerHolds(b)
      BY <1>a, <1>b DEF WorkerHolds
    <2>2. \A u \in Threads, b \in Blocks : ThreadHolds(u, b)' <=> ThreadHolds(u, b)
      BY <1>b DEF ThreadHolds
    <2>3. LockInv /\ mZeroLock' = mZeroLock
      OBVIOUS
    <2> HIDE DEF FreeInv, TypeOK, BackgroundProcessFreeList
    <2> QED BY <1>b, <2>1, <2>2, <2>3, SameLocks
  <1>5. ThreadInv' BY DEF ThreadInv, Scanning, Taking
  <1>6. WorkerInv' BY <1>a, <1>b DEF WorkerInv
  <1>7. OneOwner' BY DEF OneOwner, ThreadInv
  <1>8. RowsInv' BY DEF RowsInv, Taking, ThreadInv, OneOwner
  <1>9. QueueCounts'
    <2>1. Zeroed' = {}
      BY <1>b DEF Zeroed, JobInv
    <2>2. OnWayOut' = {}
      BY <1>a, <1>b DEF OnWayOut
    <2>3. OnWayIn' = {}
      BY <1>b DEF OnWayIn, NoLostWake, JobInv
    <2> QED BY <2>1, <2>2, <2>3, FS_EmptySet DEF QueueCounts
  <1>10. ClaimInv' BY DEF ClaimInv
  <1>11. ~LazyReclaim => SkipInv' BY DEF SkipInv, AllTaken, Scanning, ThreadInv
  <1> HIDE DEF TypeOK, PoolTypeOK, BackgroundProcessFreeList
  <1> QED BY <1>1, <1>2, <1>3, <1>4, <1>5, <1>6, <1>7, <1>8, <1>9, <1>10, <1>11


\* A worker goes to sleep, or wakes.
LEMMA SleepInv ==
  ASSUME FreeInv, NEW w \in Workers, Sleep(w)
  PROVE  FreeInv'
  <1> USE DEF FreeInv, TypeOK, Sleep, WaitForThreadWake, ThreadWake
  <1>a. wpc' \in [Workers -> WorkerPCs]
    BY DEF WorkerPCs
  <1>b. \A v \in Workers : v # w => wpc'[v] = wpc[v]
    OBVIOUS
  <1>c. wpc[w] \in {"loop", "asleep"} /\ wpc'[w] \in {"loop", "asleep", "job"}
    OBVIOUS
  <1>d. sThreadSleeping' \subseteq Workers /\ signalled' \subseteq Workers
    OBVIOUS
  <1>e. /\ UNCHANGED <<poolVars, sThreadJobDoneSleeping, doneSignalled, cpc>>
        /\ UNCHANGED <<blockVars, threadVars, zeroVars, mNextFreeBlockOfSize>>
    OBVIOUS
  <1>1. TypeOK' BY <1>a, <1>d, <1>e
  <1>2. NoLostWake'
    <2>1. \A v \in Workers : wpc'[v] \notin {"loop", "asleep"} => v \in sRunningThreads
      BY <1>b, <1>c DEF NoLostWake
    <2>2. \A v \in Workers : wpc'[v] = "asleep" /\ v \in sRunningThreads => v \in signalled'
      BY <1>b, <1>c DEF NoLostWake
    <2> QED BY <1>e, <2>1, <2>2 DEF NoLostWake
  <1>3. JobInv'
    <2>1. sThreadSleeping = {v \in Workers : wpc[v] = "asleep"}
      BY DEF JobInv
    <2>2. CASE w \in sRunningThreads
      <3>1. sThreadSleeping' = sThreadSleeping \ {w} /\ wpc'[w] = "job"
        BY <2>1, <2>2
      <3>2. sThreadSleeping' = {v \in Workers : wpc'[v] = "asleep"}
        <4> HIDE DEF FreeInv, TypeOK, Sleep
        <4> QED BY <1>b, <2>1, <3>1
      <3> QED BY <1>e, <3>2 DEF JobInv
    <2>3. CASE w \notin sRunningThreads
      <3>1. sThreadSleeping' = sThreadSleeping \cup {w} /\ wpc'[w] = "asleep"
        BY <2>1, <2>3
      <3>2. sThreadSleeping' = {v \in Workers : wpc'[v] = "asleep"}
        <4> HIDE DEF FreeInv, TypeOK, Sleep
        <4> QED BY <1>b, <2>1, <3>1
      <3> QED BY <1>e, <3>2 DEF JobInv
    <2> QED BY <2>2, <2>3
  <1> HIDE DEF Sleep
  <1>4. LockInv'
    <2>1. \A b \in Blocks : WorkerHolds(b)' <=> WorkerHolds(b)
      BY <1>b, <1>c, <1>e DEF WorkerHolds, Claimed
    <2>2. \A u \in Threads, b \in Blocks : ThreadHolds(u, b)' <=> ThreadHolds(u, b)
      BY <1>e DEF ThreadHolds
    <2> QED BY <1>e, <2>1, <2>2, SameLocks
  <1>5. ThreadInv' BY <1>e DEF ThreadInv
  <1>6. WorkerInv' BY <1>b, <1>c, <1>e DEF WorkerInv, Claimed
  <1>7. OneOwner' BY <1>e DEF OneOwner
  <1>8. RowsInv' BY <1>e DEF RowsInv
  <1>9. QueueCounts'
    <2>1. OnWayIn' = OnWayIn
      BY <1>b, <1>c DEF OnWayIn
    <2>2. Zeroed' = Zeroed /\ OnWayOut' = OnWayOut
      BY <1>e DEF Zeroed, OnWayOut
    <2> QED BY <1>e, <2>1, <2>2 DEF QueueCounts
  <1>10. ClaimInv'
    <2>1. Waking' = Waking
      BY <1>e DEF Waking
    <2>2. MayClaim' = MayClaim
      BY <1>b, <1>c, <1>e DEF MayClaim
    <2> QED BY <1>e, <2>1, <2>2, SameClaims
  <1>11. ~LazyReclaim => SkipInv' BY <1>e DEF SkipInv, AllTaken
  <1> QED BY <1>1, <1>2, <1>3, <1>4, <1>5, <1>6, <1>7, <1>8, <1>9, <1>10, <1>11

-----------------------------------------------------------------------------
(* The invariant is inductive.                                             *)

\* Before the first collection every block is free, unlocked and reclaimed.
LEMMA InitFreeInv ==
  ASSUME Init
  PROVE  FreeInv
  <1> USE DEF Init, PoolInit
  <1>1. TypeOK
    <2>1. PoolTypeOK(WorkerPCs, CollectorPCs)
      BY DEF WorkerPCs, CollectorPCs, Jobs
    <2>2. /\ mOwned \in [Blocks -> BOOLEAN] /\ mZeroLock \in [Blocks -> BOOLEAN]
          /\ zeroed \in [Blocks -> BOOLEAN] /\ mReclaimed \in [Blocks -> BOOLEAN]
          /\ fits \in [Blocks -> BOOLEAN] /\ rows \in [Blocks -> {"garbage", "zeros", "objects"}]
      OBVIOUS
    <2>3. /\ tpc \in [Threads -> ThreadPCs] /\ block \in [Threads -> Blocks \cup {NoBlock}]
          /\ nextFree \in [Threads -> 0..BlockCount] /\ i \in [Threads -> 0..BlockCount]
          /\ failedLock \in [Threads -> BOOLEAN]
      BY DEF ThreadPCs
    <2> QED BY <2>1, <2>2, <2>3 DEF TypeOK
  <1>2. NoLostWake BY DEF NoLostWake
  <1>3. JobInv BY DEF JobInv
  <1>4. LockInv BY DEF LockInv, ThreadHolds, WorkerHolds, Taking
  <1>5. ThreadInv /\ WorkerInv /\ OneOwner BY DEF ThreadInv, WorkerInv, OneOwner, Scanning, Taking
  <1>6. RowsInv BY DEF RowsInv
  <1>7. QueueCounts
    <2>1. Zeroed = {} /\ OnWayOut = {} /\ OnWayIn = {}
      BY DEF Zeroed, OnWayOut, OnWayIn
    <2> QED BY <2>1, FS_EmptySet DEF QueueCounts
  <1>8. ClaimInv BY DEF ClaimInv
  <1>9. SkipInv BY DEF SkipInv, AllTaken, Scanning
  <1> QED BY <1>1, <1>2, <1>3, <1>4, <1>5, <1>6, <1>7, <1>8, <1>9 DEF FreeInv

\* Every step keeps it.
LEMMA NextFreeInv ==
  ASSUME FreeInv, [Next]_vars
  PROVE  FreeInv'
  <1>1. CASE UNCHANGED vars
    <2>1. UNCHANGED <<poolVars, sleepVars, wpc, cpc, blockVars, threadVars, zeroVars, mNextFreeBlockOfSize>>
      BY <1>1 DEF vars
    <2>2. TypeOK' /\ NoLostWake' /\ JobInv'
      BY <2>1 DEF FreeInv, TypeOK, NoLostWake, JobInv
    <2>3. LockInv' /\ ThreadInv' /\ WorkerInv' /\ OneOwner' /\ RowsInv'
      BY <2>1 DEF FreeInv, LockInv, ThreadHolds, WorkerHolds, Claimed, ThreadInv, WorkerInv,
         OneOwner, RowsInv
    <2>4. QueueCounts' /\ ClaimInv'
      BY <2>1 DEF FreeInv, QueueCounts, Zeroed, OnWayOut, OnWayIn, ClaimInv, Waking, MayClaim
    <2>5. ~LazyReclaim => SkipInv'
      BY <2>1 DEF FreeInv, SkipInv, AllTaken
    <2> QED BY <2>2, <2>3, <2>4, <2>5 DEF FreeInv
  <1>2. ASSUME NEW t \in Threads, Scan(t)
        PROVE  FreeInv'
    BY <1>2, GetNextFreeInv, LookAtInv, AcquireZeroLockInv, SpinAroundInv, SomeoneElseGotItInv,
       OwnInv, IncreaseNextFreeInv, IncreasedNextFreeInv, OnZeroedBlockDequeuedInv,
       WakeTheThreadInv, ReadQueueInv, LookForWorkInv, WakeZeroingThreadInv, EndOfListInv, ZeroOwnBlockInv, UnlockOwnBlockInv,
       AllocateInv DEF Scan
  <1>3. ASSUME NEW w \in Workers, WorkerStep(w)
        PROVE  FreeInv'
    BY <1>3, SleepInv, TakeJobInv, TopInv, ClaimNextInv, TryZeroInv, TryLockInv, LateReclaimInv,
       LateReclaimedInv, ZeroAndUnlockInv, UnlockInv, CountInv, FinishInv DEF WorkerStep,
       ZeroAsyncJit
  <1>4. CASE StopMutators \/ Collection
    BY <1>4, StopMutatorsInv, NoJobsInv, AbortJobsInv, CancelZeroingInv, SleepForJobsInv,
       JobsStoppedInv, CollectInv, BackgroundProcessFreeListInv DEF Collection
  <1> QED BY <1>1, <1>2, <1>3, <1>4 DEF Next

\* So it is an invariant.
THEOREM FreeInvariant == Spec => []FreeInv
  BY InitFreeInv, NextFreeInv, PTL DEF Spec

-----------------------------------------------------------------------------
(* What follows from it.                                                   *)

\* Every variable keeps to its values: no index leaves mFreeBlocks, whatever
\* the scan, the claims and a collection in between do.
THEOREM TypeCorrect == Spec => []TypeOK
  <1>1. FreeInv => TypeOK
    BY DEF FreeInv
  <1> QED BY <1>1, FreeInvariant, PTL

\* The zeroing worker never sleeps through a bit that has been set for it, and
\* the collector that waits for it is woken when it has stopped.
THEOREM NoWakeLost == Spec => []NoLostWake
  <1>1. FreeInv => NoLostWake
    BY DEF FreeInv
  <1> QED BY <1>1, FreeInvariant, PTL

\* No block is handed to two threads.
THEOREM OneOwnerOnly == Spec => []OneOwner
  <1>1. FreeInv => OneOwner
    BY DEF FreeInv
  <1> QED BY <1>1, FreeInvariant, PTL

\* A thread gets zeroed rows, and its objects are not zeroed away.
THEOREM ObjectsAreSafe == Spec => []ObjectsSurvive
  <1>1. FreeInv => ObjectsSurvive
    <2> SUFFICES ASSUME FreeInv, NEW t \in Threads, block[t] # NoBlock
                 PROVE  /\ tpc[t] = "got" => rows[block[t]] = "zeros"
                        /\ tpc[t] = "run" => rows[block[t]] = "objects"
      BY DEF ObjectsSurvive
    <2> QED BY DEF FreeInv, RowsInv
  <1> QED BY <1>1, FreeInvariant, PTL

\* mZeroListQueue is exact but for what is on its way in or out.
THEOREM QueueIsExact == Spec => []QueueCounts
  <1>1. FreeInv => QueueCounts
    BY DEF FreeInv
  <1> QED BY <1>1, FreeInvariant, PTL

\* The worker is out of the blocks while they are marked and reclaimed, and
\* no lock is left behind.
THEOREM QuietCollect == Spec => []QuietDuringCollect
  <1>1. FreeInv => QuietDuringCollect
    <2> SUFFICES ASSUME FreeInv, cpc \in {"collect", "start"}
                 PROVE  /\ \A w \in Workers : wpc[w] \in {"loop", "asleep"}
                        /\ \A b \in Blocks : ~mZeroLock[b]
      BY DEF QuietDuringCollect
    <2>1. \A w \in Workers : wpc[w] \in {"loop", "asleep"}
      BY DEF FreeInv, JobInv, NoLostWake
    <2>2. \A b \in Blocks : ~WorkerHolds(b)
      BY <2>1 DEF WorkerHolds
    <2>3. \A b \in Blocks, t \in Threads : ~ThreadHolds(t, b)
      BY DEF FreeInv, JobInv, ThreadHolds, Taking
    <2> QED BY <2>1, <2>2, <2>3 DEF FreeInv, LockInv
  <1> QED BY <1>1, FreeInvariant, PTL

\* If the last collection has reclaimed the blocks, GetNextFree only returns
\* null when every block that fits is taken.  (A late reclaim makes a block
\* look too small for a moment.)
THEOREM NullIsTrue == ASSUME ~LazyReclaim PROVE Spec => []NullMeansNone
  <1>1. FreeInv => NullMeansNone
    <2> SUFFICES ASSUME FreeInv, NEW t \in Threads, tpc[t] = "none", NEW b \in Blocks, fits[b]
                 PROVE  mOwned[b]
      BY DEF NullMeansNone
    <2> QED BY DEF FreeInv, SkipInv, AllTaken
  <1> QED BY <1>1, FreeInvariant, PTL

\* mThreadJobId, which every wake-up of the worker moves on, stays near the
\* end of the list: mutators that find the worker asleep at once may each wake
\* it for nothing, but none does once it has gone past the end.
THEOREM ClaimsEnd == Spec => [](mThreadJobId <= BlockCount + 1 + Cardinality(Threads))
  <1>1. FreeInv => mThreadJobId <= BlockCount + 1 + Cardinality(Threads)
    <2>1. MayClaim \in {0, 1}
      BY DEF MayClaim
    <2> QED BY <2>1, CountsAreInt DEF FreeInv, TypeOK, ClaimInv
  <1> QED BY <1>1, FreeInvariant, PTL

=============================================================================
