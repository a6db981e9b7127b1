------------------------- MODULE LargeObjectsProofs -------------------------
(***************************************************************************)
(* The safety of LargeObjects, for any finite sets of threads, blobs and   *)
(* sizes.                                                                  *)
(*                                                                         *)
(* SafeToUse is not inductive: it must also say that the list to recycle   *)
(* and mLargeList are disjoint and sized (HeapInv), that a blob in the     *)
(* hands of a thread is in neither or still listed (HandInv), and why a    *)
(* thread that goes on with the lock may trust the slot it has read        *)
(* (LockInv): only the thread with the lock, and a sweep, which finds all  *)
(* threads stopped (SweepInv), change the list.                            *)
(*                                                                         *)
(* On top of it the bytes listed are counted (CountInv), and those still   *)
(* to come are bounded (GrowthInv).                                        *)
(***************************************************************************)
EXTENDS LargeObjects, FiniteSetTheorems, TLAPS

USE DEF calls, heap, counts, enabling, sweep

\* In a call of AllocLarge, up to Push, `want` is the size.
CallInv ==
  \A t \in Threads :
    pc[t] \in PCs \ {"idle", "free", "report", "collectReport"} => want[t] \in Sizes

\* The slot a thread read with the lock is still what it was.
LockInv ==
  \A t \in Threads :
    /\ pc[t] = "compare" => blob[t] \in Blobs
    /\ pc[t] = "compare" /\ lock = t =>
         index[t] <= Len(recycle) /\ recycle[index[t]] = blob[t]

\* A sweep finds all threads stopped.
SweepInv ==
  /\ gc = "running" => \A t \in Threads : pc[t] \in Stopped
  /\ gc = "no" => unswept = {}

\* Both lists hold blobs with memory of the size they say; none is in both.
HeapInv ==
  /\ \A b \in largeList : room[b] # 0 /\ header[b] = room[b]
  /\ \A i \in 1..Len(recycle) :
       /\ recycle[i] \notin largeList
       /\ room[recycle[i]] # 0 /\ header[recycle[i]] = room[recycle[i]]
  /\ \A i, j \in 1..Len(recycle) : recycle[i] = recycle[j] => i = j

\* A blob on its way to mLargeList is in no list, one on its way out still is.
HandInv ==
  \A t \in Threads :
    /\ pc[t] = "push" =>
         /\ blob[t] \in Blobs \ largeList /\ room[blob[t]] = want[t]
         /\ \A i \in 1..Len(recycle) : recycle[i] # blob[t]
    /\ pc[t] = "free" => blob[t] \in largeList \ used[t]

\* What a thread uses is listed, ...
UsedInv == \A t \in Threads : used[t] \subseteq largeList

\* ... and with what is in its hands, its own.
ClaimInv ==
  \A t, u \in Threads : t # u =>
    /\ \A b \in used[t] : b \notin used[u]
    /\ pc[t] = "free" => blob[t] \notin used[u]
    /\ pc[t] \in {"push", "free"} /\ pc[u] = pc[t] => blob[t] # blob[u]

\* The inductive invariant.
LargeInv ==
  TypeOK /\ CallInv /\ LockInv /\ SweepInv /\ HeapInv /\ HandInv /\ UsedInv /\ ClaimInv

\* Sizes are positive numbers.
LEMMA SizesAreNat == Sizes \subseteq Nat /\ 0 \notin Sizes
  BY LargeAssumption

\* Reported changes are numbers.
LEMMA DeltasAreInt == \A d \in Deltas : \A sign \in {1, -1} : sign * d \in Int
  <1>1. \A d \in Deltas : d \in Int BY LargeAssumption
  <1> QED BY <1>1

\* QuickVec::push makes room for the element.
LEMMA Grown ==
  ASSUME NEW n \in Nat
  PROVE  Slack + (n * 3) \div 2 \in Nat /\ n + 1 <= Slack + (n * 3) \div 2
  <1>1. Slack \in Nat /\ Slack >= 1 BY LargeAssumption
  <1>2. (n * 3) \div 2 \in Nat /\ n <= (n * 3) \div 2 OBVIOUS
  <1> QED BY <1>1, <1>2

\* The flag and the history stay Boolean.
LEMMA PassType ==
  ASSUME LargeInv, NEW n, Pass(n)
  PROVE  sgInternalEnable' \in BOOLEAN /\ skipped' \in BOOLEAN
  BY DEF LargeInv, TypeOK, Pass

-----------------------------------------------------------------------------
(* AllocLarge.                                                             *)

\* The flag is the program's to change.
LEMMA EnableInv ==
  ASSUME LargeInv, NEW t \in Threads, InternalEnableGC(t)
  PROVE  LargeInv'
  <1> USE DEF LargeInv, InternalEnableGC
  <1>1. TypeOK' BY DEF TypeOK
  <1>2. CallInv' /\ LockInv' BY DEF CallInv, LockInv
  <1>3. SweepInv' /\ HeapInv' BY DEF SweepInv, HeapInv
  <1>4. HandInv' BY DEF HandInv
  <1>5. UsedInv' /\ ClaimInv' BY DEF UsedInv, ClaimInv
  <1> QED BY <1>1, <1>2, <1>3, <1>4, <1>5

\* The look at the target changes nothing but where the thread is.
LEMMA AllocLargeInv ==
  ASSUME LargeInv, NEW t \in Threads, AllocLarge(t)
  PROVE  LargeInv'
  <1> USE DEF LargeInv
  <1>1. PICK s \in Sizes, to \in {"collect", "look"} :
          /\ pc[t] = "idle" /\ pc' = [pc EXCEPT ![t] = to] /\ want' = [want EXCEPT ![t] = s]
          /\ gc = "no" /\ UNCHANGED <<index, blob, used, heap, lock, counts, sweep>>
    BY DEF AllocLarge, Goto, Here
  <1>2. TypeOK'
    <2>1. pc' \in [Threads -> PCs] BY <1>1 DEF TypeOK, PCs, Stopped
    <2>2. s \in Int BY SizesAreNat
    <2>3. want' \in [Threads -> Int] BY <1>1, <2>2 DEF TypeOK
    <2>4. sgInternalEnable' \in BOOLEAN /\ skipped' \in BOOLEAN
      BY PassType DEF AllocLarge
    <2> QED BY <1>1, <2>1, <2>3, <2>4 DEF TypeOK
  <1>3. CallInv' BY <1>1 DEF CallInv, TypeOK
  <1>4. LockInv' BY <1>1 DEF LockInv, TypeOK
  <1>5. SweepInv' BY <1>1 DEF SweepInv
  <1>6. HeapInv' BY <1>1 DEF HeapInv
  <1>7. HandInv' BY <1>1 DEF HandInv, TypeOK
  <1>8. UsedInv' /\ ClaimInv' BY <1>1 DEF UsedInv, ClaimInv, TypeOK
  <1> QED BY <1>2, <1>3, <1>4, <1>5, <1>6, <1>7, <1>8

\* A read of a slot keeps the invariant, and with the lock reads what is there.
LEMMA LookInv ==
  ASSUME LargeInv, NEW t \in Threads, Look(t)
  PROVE  LargeInv'
  <1> USE DEF LargeInv
  <1>1. /\ pc[t] = "look" /\ gc = "no"
        /\ UNCHANGED <<want, used, heap, lock, counts, enabling, sweep>>
    BY DEF Look, Goto, Here
  <1>2. \/ /\ index[t] <= Len(recycle) /\ index' = index
           /\ pc' = [pc EXCEPT ![t] = "compare"]
           /\ blob' = [blob EXCEPT ![t] = recycle[index[t]]]
        \/ /\ pc' = [pc EXCEPT ![t] = "alloc"]
           /\ blob' = [blob EXCEPT ![t] = NoBlob] /\ index' = [index EXCEPT ![t] = 1]
    BY DEF Look, Goto, Here
  <1>3. index[t] <= Len(recycle) => recycle[index[t]] \in Blobs
    BY DEF TypeOK
  <1>4. TypeOK'
    <2>1. pc' \in [Threads -> PCs] BY <1>2 DEF TypeOK, PCs, Stopped
    <2>2. blob' \in [Threads -> Blobs \union {NoBlob}] BY <1>2, <1>3 DEF TypeOK
    <2>3. index' \in [Threads -> Nat \ {0}] BY <1>2 DEF TypeOK
    <2> QED BY <1>1, <2>1, <2>2, <2>3 DEF TypeOK
  <1>5. CallInv' BY <1>1, <1>2 DEF CallInv, TypeOK, PCs
  <1>6. LockInv'
    <2>1. \A u \in Threads \ {t} : pc'[u] = pc[u] /\ blob'[u] = blob[u] /\ index'[u] = index[u]
      BY <1>2 DEF TypeOK
    <2>2. pc'[t] = "compare" =>
            /\ index[t] <= Len(recycle) /\ index'[t] = index[t] /\ blob'[t] = recycle[index[t]]
      BY <1>2 DEF TypeOK
    <2> QED BY <1>1, <1>3, <2>1, <2>2 DEF LockInv
  <1>7. SweepInv' BY <1>1 DEF SweepInv
  <1>8. HeapInv' BY <1>1 DEF HeapInv
  <1>9. HandInv'
    <2>1. \A u \in Threads : pc'[u] \in {"push", "free"} => pc'[u] = pc[u] /\ blob'[u] = blob[u]
      BY <1>2 DEF TypeOK
    <2> QED BY <1>1, <2>1 DEF HandInv
  <1>10. UsedInv' BY <1>1 DEF UsedInv
  <1>11. ClaimInv'
    <2>1. \A u \in Threads : pc'[u] \in {"push", "free"} => pc'[u] = pc[u] /\ blob'[u] = blob[u]
      BY <1>2 DEF TypeOK
    <2> QED BY <1>1, <2>1 DEF ClaimInv
  <1> QED BY <1>4, <1>5, <1>6, <1>7, <1>8, <1>9, <1>10, <1>11

\* What QErase leaves: the slots but the erased one, and the last one there.
LEMMA QEraseSlots ==
  ASSUME NEW s \in Seq(Blobs), NEW i \in 1..Len(s)
  PROVE  /\ QErase(s, i) \in Seq(Blobs)
         /\ Len(QErase(s, i)) = Len(s) - 1
         /\ \A j \in 1..Len(s) - 1 : QErase(s, i)[j] = IF j = i THEN s[Len(s)] ELSE s[j]
  <1> DEFINE r == [s EXCEPT ![i] = s[Len(s)]]
  <1>1. r \in Seq(Blobs) /\ Len(r) = Len(s)
    OBVIOUS
  <1>2. \A j \in 1..Len(s) : r[j] = IF j = i THEN s[Len(s)] ELSE s[j]
    OBVIOUS
  <1>3. QErase(s, i) = SubSeq(r, 1, Len(r) - 1)
    BY DEF QErase, Front, Last
  <1> HIDE DEF r
  <1> QED BY <1>1, <1>2, <1>3

\* A thread that takes a blob has the lock and has seen that the blob fits.
LEMMA TakeInv ==
  ASSUME LargeInv, NEW t \in Threads, TakeRecycled(t),
         pc[t] \in {"compare", "lock"}, gc = "no", lock \in {t, NoThread},
         index[t] <= Len(recycle), header[recycle[index[t]]] = want[t],
         UNCHANGED <<want, used, room, header, largeList, capacity, counts, enabling, sweep>>
  PROVE  LargeInv'
  <1> USE DEF LargeInv
  <1> DEFINE i == index[t]
  <1>1. /\ pc' = [pc EXCEPT ![t] = "push"] /\ blob' = [blob EXCEPT ![t] = recycle[i]]
        /\ index' = [index EXCEPT ![t] = 1] /\ recycle' = QErase(recycle, i) /\ lock' = t
    BY DEF TakeRecycled
  <1>2. /\ recycle \in Seq(Blobs) /\ i \in 1..Len(recycle) /\ recycle[i] \in Blobs
    BY DEF TypeOK
  <1>3. /\ recycle' \in Seq(Blobs) /\ Len(recycle') = Len(recycle) - 1
        /\ \A j \in 1..Len(recycle') : recycle'[j] = IF j = i THEN recycle[Len(recycle)] ELSE recycle[j]
    <2>1. /\ QErase(recycle, i) \in Seq(Blobs) /\ Len(QErase(recycle, i)) = Len(recycle) - 1
          /\ \A j \in 1..Len(recycle) - 1 :
               QErase(recycle, i)[j] = IF j = i THEN recycle[Len(recycle)] ELSE recycle[j]
      <3> HIDE DEF i
      <3> QED BY <1>2, QEraseSlots
    <2> QED BY <1>1, <2>1
  <1>4. \A j \in 1..Len(recycle') : \E k \in 1..Len(recycle) \ {i} : recycle'[j] = recycle[k]
    BY <1>2, <1>3
  <1>5. TypeOK'
    <2>1. pc' \in [Threads -> PCs] BY <1>1 DEF TypeOK, PCs
    <2>2. blob' \in [Threads -> Blobs \union {NoBlob}] BY <1>1, <1>2 DEF TypeOK
    <2>3. index' \in [Threads -> Nat \ {0}] BY <1>1 DEF TypeOK
    <2>4. Len(recycle') <= capacity BY <1>2, <1>3 DEF TypeOK
    <2> QED BY <1>1, <1>3, <2>1, <2>2, <2>3, <2>4 DEF TypeOK
  <1>6. CallInv' BY <1>1 DEF CallInv, TypeOK, PCs
  <1>7. LockInv' BY <1>1 DEF LockInv, TypeOK
  <1>8. SweepInv' BY DEF SweepInv
  <1>9. HeapInv'
    <2>1. \A j \in 1..Len(recycle') :
            /\ recycle'[j] \notin largeList'
            /\ room'[recycle'[j]] # 0 /\ header'[recycle'[j]] = room'[recycle'[j]]
      <3> TAKE j \in 1..Len(recycle')
      <3>1. PICK k \in 1..Len(recycle) : recycle'[j] = recycle[k] BY <1>4
      <3>2. /\ recycle[k] \notin largeList
            /\ room[recycle[k]] # 0 /\ header[recycle[k]] = room[recycle[k]]
        BY DEF HeapInv
      <3> QED BY <3>1, <3>2
    <2>2. \A j, k \in 1..Len(recycle') : recycle'[j] = recycle'[k] => j = k
      BY <1>2, <1>3 DEF HeapInv
    <2> QED BY <2>1, <2>2 DEF HeapInv
  <1>10. HandInv'
    <2>1. /\ recycle[i] \in Blobs \ largeList /\ room[recycle[i]] = want[t]
          /\ \A j \in 1..Len(recycle') : recycle'[j] # recycle[i]
      BY <1>2, <1>4 DEF HeapInv
    <2>2. \A u \in Threads \ {t} : pc[u] = "push" =>
            \A j \in 1..Len(recycle') : recycle'[j] # blob[u]
      BY <1>4 DEF HandInv
    <2> QED BY <1>1, <2>1, <2>2 DEF HandInv, TypeOK
  <1>11. UsedInv' BY DEF UsedInv
  <1>12. ClaimInv'
    <2>1. \A u \in Threads : pc[u] = "push" => blob[u] # recycle[i]
      BY <1>2 DEF HandInv
    <2> QED BY <1>1, <2>1 DEF ClaimInv, TypeOK
  <1> QED BY <1>5, <1>6, <1>7, <1>8, <1>9, <1>10, <1>11, <1>12

\* A thread that goes on to the next slot or waits for the lock.
LEMMA NextInv ==
  ASSUME LargeInv, NEW t \in Threads, pc[t] \in {"compare", "lock"}, gc = "no",
         \/ NextSlot(t)
         \/ /\ pc' = [pc EXCEPT ![t] = "lock"] /\ UNCHANGED <<index, blob, recycle>>,
         lock' \in {lock, t}, lock \in {lock', NoThread},
         UNCHANGED <<want, used, room, header, largeList, capacity, counts, enabling, sweep>>
  PROVE  LargeInv'
  <1> USE DEF LargeInv
  <1>1. PICK to \in {"look", "lock"} : pc' = [pc EXCEPT ![t] = to]
    BY DEF NextSlot
  <1>2. /\ recycle' = recycle
        /\ index' \in {index, [index EXCEPT ![t] = @ + 1]}
        /\ blob' \in {blob, [blob EXCEPT ![t] = NoBlob]}
    BY DEF NextSlot
  <1>3. TypeOK'
    <2>1. pc' \in [Threads -> PCs] BY <1>1 DEF TypeOK, PCs
    <2>2. blob' \in [Threads -> Blobs \union {NoBlob}] BY <1>2 DEF TypeOK
    <2>3. index \in [Threads -> Nat \ {0}] /\ index[t] + 1 \in Nat \ {0} BY DEF TypeOK
    <2>4. index' \in [Threads -> Nat \ {0}] BY <1>2, <2>3
    <2> QED BY <1>2, <2>1, <2>2, <2>4 DEF TypeOK
  <1>4. CallInv' BY <1>1 DEF CallInv, TypeOK, PCs
  <1>5. LockInv' BY <1>1, <1>2 DEF LockInv, TypeOK
  <1>6. SweepInv' BY DEF SweepInv
  <1>7. HeapInv' BY <1>2 DEF HeapInv
  <1>8. HandInv' BY <1>1, <1>2 DEF HandInv, TypeOK
  <1>9. UsedInv' /\ ClaimInv' BY <1>1, <1>2 DEF UsedInv, ClaimInv, TypeOK
  <1> QED BY <1>3, <1>4, <1>5, <1>6, <1>7, <1>8, <1>9

\* A match without the lock is not trusted, one with it is the slot itself.
LEMMA CompareInv ==
  ASSUME LargeInv, NEW t \in Threads, Compare(t)
  PROVE  LargeInv'
  <1>1. /\ pc[t] = "compare" /\ gc = "no"
        /\ UNCHANGED <<want, used, room, header, largeList, capacity, counts, enabling, sweep>>
    BY DEF Compare, Here
  <1>2. PICK word \in IF blob[t] \in ToSet(recycle) THEN {header[blob[t]]} ELSE Sizes :
          IF word # want[t] THEN NextSlot(t) /\ lock' = lock
          ELSE IF lock = t THEN TakeRecycled(t)
          ELSE Goto(t, "compare", "lock") /\ UNCHANGED <<index, blob, recycle, lock>>
    BY DEF Compare
  <1>3. CASE word = want[t] /\ lock = t
    <2>1. index[t] \in 1..Len(recycle) /\ recycle[index[t]] = blob[t]
      BY <1>1, <1>3 DEF LargeInv, LockInv, TypeOK
    <2>2. blob[t] \in ToSet(recycle)
      BY <2>1 DEF ToSet, LargeInv, TypeOK
    <2>3. header[recycle[index[t]]] = want[t]
      BY <1>2, <1>3, <2>1, <2>2
    <2> QED BY <1>1, <1>2, <1>3, <2>1, <2>3, TakeInv
  <1>4. CASE ~(word = want[t] /\ lock = t)
    BY <1>1, <1>2, <1>4, NextInv DEF Goto
  <1> QED BY <1>3, <1>4

\* The second look decides.
LEMMA LockListInv ==
  ASSUME LargeInv, NEW t \in Threads, LockList(t)
  PROVE  LargeInv'
  <1>1. /\ pc[t] = "lock" /\ gc = "no" /\ lock = NoThread
        /\ UNCHANGED <<want, used, room, header, largeList, capacity, counts, enabling, sweep>>
    BY DEF LockList, Here
  <1>2. CASE index[t] <= Len(recycle) /\ header[recycle[index[t]]] = want[t]
    BY <1>1, <1>2, TakeInv DEF LockList
  <1>3. CASE ~(index[t] <= Len(recycle) /\ header[recycle[index[t]]] = want[t])
    BY <1>1, <1>3, NextInv DEF LockList
  <1> QED BY <1>2, <1>3

\* HxAlloc hands out memory that nobody has.
LEMMA HxAllocInv ==
  ASSUME LargeInv, NEW t \in Threads, NEW from \in {"alloc", "retry"}, HxAlloc(t, from)
  PROVE  LargeInv'
  <1> USE DEF LargeInv
  <1>1. PICK b \in Blobs :
          /\ pc[t] = from /\ pc' = [pc EXCEPT ![t] = "push"] /\ gc = "no"
          /\ room[b] = 0 /\ room' = [room EXCEPT ![b] = want[t]]
          /\ blob' = [blob EXCEPT ![t] = b]
          /\ UNCHANGED <<want, index, used, header, largeList, recycle, capacity, lock, counts, enabling, sweep>>
    BY DEF HxAlloc, Goto, Here
  <1>2. want[t] \in Sizes BY <1>1 DEF CallInv, PCs
  <1>3. b \notin largeList /\ \A i \in 1..Len(recycle) : recycle[i] # b
    BY <1>1 DEF HeapInv
  <1>4. \A u \in Threads : pc[u] \in {"push", "free"} => blob[u] # b
    <2>1. \A u \in Threads : pc[u] = "push" => want[u] \in Sizes /\ room[blob[u]] = want[u]
      BY DEF CallInv, HandInv, PCs
    <2>2. \A u \in Threads : pc[u] = "free" => blob[u] \in largeList
      BY DEF HandInv
    <2> QED BY <1>1, <1>3, <2>1, <2>2, SizesAreNat
  <1>5. TypeOK'
    <2>1. pc' \in [Threads -> PCs] BY <1>1 DEF TypeOK, PCs
    <2>2. blob' \in [Threads -> Blobs \union {NoBlob}] BY <1>1 DEF TypeOK
    <2>3. room' \in [Blobs -> Sizes \union {0}] BY <1>1, <1>2 DEF TypeOK
    <2> QED BY <1>1, <2>1, <2>2, <2>3 DEF TypeOK
  <1>6. CallInv' BY <1>1, <1>2 DEF CallInv, TypeOK
  <1>7. LockInv' BY <1>1 DEF LockInv, TypeOK
  <1>8. SweepInv' BY <1>1 DEF SweepInv
  <1>9. HeapInv'
    <2>1. \A c \in Blobs \ {b} : room'[c] = room[c] BY <1>1 DEF TypeOK
    <2>2. largeList \subseteq Blobs /\ \A i \in 1..Len(recycle) : recycle[i] \in Blobs
      BY DEF TypeOK
    <2> QED BY <1>1, <1>3, <2>1, <2>2 DEF HeapInv
  <1>10. HandInv'
    <2>1. \A u \in Threads \ {t} :
            /\ pc'[u] = pc[u] /\ blob'[u] = blob[u]
            /\ pc[u] = "push" => room'[blob[u]] = room[blob[u]]
      BY <1>1, <1>4 DEF TypeOK, HandInv
    <2>2. pc'[t] = "push" /\ blob'[t] = b /\ room'[b] = want[t]
      BY <1>1 DEF TypeOK
    <2>3. \A u \in Threads \ {t} :
            /\ pc'[u] = "push" =>
                 /\ blob'[u] \in Blobs \ largeList' /\ room'[blob'[u]] = want'[u]
                 /\ \A i \in 1..Len(recycle') : recycle'[i] # blob'[u]
            /\ pc'[u] = "free" => blob'[u] \in largeList' \ used'[u]
      BY <1>1, <2>1 DEF HandInv
    <2> QED BY <1>1, <1>3, <2>2, <2>3 DEF HandInv
  <1>11. UsedInv' BY <1>1 DEF UsedInv
  <1>12. ClaimInv'
    <2>1. \A u \in Threads \ {t} : pc'[u] = pc[u] /\ blob'[u] = blob[u]
      BY <1>1 DEF TypeOK
    <2>2. pc'[t] = "push" /\ blob'[t] = b
      BY <1>1 DEF TypeOK
    <2> QED BY <1>1, <1>4, <2>1, <2>2 DEF ClaimInv
  <1> QED BY <1>5, <1>6, <1>7, <1>8, <1>9, <1>10, <1>11, <1>12

\* A thread without a blob gives the lock back before it asks for a collection.
LEMMA AllocFailsInv ==
  ASSUME LargeInv, NEW t \in Threads, AllocFailed(t) \/ MemoryExhausted(t)
  PROVE  LargeInv'
  <1> USE DEF LargeInv
  <1>1. PICK to \in {"exhausted", "trap"} :
          /\ pc[t] \in {"alloc", "retry"} /\ pc' = [pc EXCEPT ![t] = to] /\ gc = "no"
          /\ lock' \in {lock, NoThread}
          /\ UNCHANGED <<want, index, blob, used, heap, counts, enabling, sweep>>
    BY DEF AllocFailed, MemoryExhausted, Goto, Here
  <1>2. TypeOK'
    <2>1. pc' \in [Threads -> PCs] BY <1>1 DEF TypeOK, PCs, Stopped
    <2> QED BY <1>1, <2>1 DEF TypeOK
  <1>3. CallInv' BY <1>1 DEF CallInv, TypeOK, PCs
  <1>4. LockInv' BY <1>1, LargeAssumption DEF LockInv, TypeOK
  <1>5. SweepInv' BY <1>1 DEF SweepInv
  <1>6. HeapInv' BY <1>1 DEF HeapInv
  <1>7. HandInv' BY <1>1 DEF HandInv, TypeOK
  <1>8. UsedInv' /\ ClaimInv' BY <1>1 DEF UsedInv, ClaimInv, TypeOK
  <1> QED BY <1>2, <1>3, <1>4, <1>5, <1>6, <1>7, <1>8

\* The blob goes from the hands of the thread to mLargeList and its use.
LEMMA PushInv ==
  ASSUME LargeInv, NEW t \in Threads, Push(t)
  PROVE  LargeInv'
  <1> USE DEF LargeInv
  <1> DEFINE b == blob[t]
  <1>1. /\ pc[t] = "push" /\ pc' = [pc EXCEPT ![t] = "idle"] /\ gc = "no"
        /\ want' = [want EXCEPT ![t] = 0] /\ index' = [index EXCEPT ![t] = 1]
        /\ blob' = [blob EXCEPT ![t] = NoBlob]
        /\ lock \in {t, NoThread} /\ lock' = NoThread
        /\ header' = [header EXCEPT ![b] = want[t]]
        /\ largeList' = largeList \union {b}
        /\ used' = [used EXCEPT ![t] = @ \union {b}]
        /\ allocated' = allocated + want[t]
        /\ UNCHANGED <<room, recycle, capacity, refresh, external, enabling, sweep>>
    BY DEF Push, Return, Goto, Here
  <1>2. want[t] \in Sizes BY <1>1 DEF CallInv, PCs
  <1>3. /\ b \in Blobs \ largeList /\ room[b] = want[t]
        /\ \A i \in 1..Len(recycle) : recycle[i] # b
    BY <1>1 DEF HandInv
  <1>4. \A u \in Threads \ {t} :
          pc'[u] = pc[u] /\ blob'[u] = blob[u] /\ want'[u] = want[u] /\ used'[u] = used[u]
    BY <1>1 DEF TypeOK
  <1>5. pc'[t] = "idle" /\ used'[t] = used[t] \union {b}
    BY <1>1 DEF TypeOK
  <1>6. TypeOK'
    <2>1. pc' \in [Threads -> PCs] BY <1>1 DEF TypeOK, PCs, Stopped
    <2>2. /\ blob' \in [Threads -> Blobs \union {NoBlob}]
          /\ want' \in [Threads -> Int] /\ index' \in [Threads -> Nat \ {0}]
      BY <1>1 DEF TypeOK
    <2>3. header' \in [Blobs -> Sizes \union {0}] BY <1>1, <1>2 DEF TypeOK
    <2>4. used' \in [Threads -> SUBSET Blobs] BY <1>1, <1>3 DEF TypeOK
    <2>5. allocated' \in Int BY <1>1 DEF TypeOK
    <2>6. largeList' \subseteq Blobs /\ unswept' \subseteq largeList'
      BY <1>1, <1>3 DEF TypeOK
    <2> QED BY <1>1, <2>1, <2>2, <2>3, <2>4, <2>5, <2>6 DEF TypeOK
  <1>7. CallInv' BY <1>4, <1>5 DEF CallInv
  <1>8. LockInv' BY <1>1, <1>4, <1>5, LargeAssumption DEF LockInv
  <1>9. SweepInv' BY <1>1 DEF SweepInv
  <1>10. HeapInv'
    <2>1. header'[b] = want[t] /\ \A c \in Blobs \ {b} : header'[c] = header[c]
      BY <1>1, <1>3 DEF TypeOK
    <2>2. largeList \subseteq Blobs /\ \A i \in 1..Len(recycle) : recycle[i] \in Blobs
      BY DEF TypeOK
    <2>3. \A c \in largeList' : room'[c] # 0 /\ header'[c] = room'[c]
      BY <1>1, <1>2, <1>3, <2>1, <2>2, SizesAreNat DEF HeapInv
    <2>4. \A i \in 1..Len(recycle') :
            /\ recycle'[i] \notin largeList'
            /\ room'[recycle'[i]] # 0 /\ header'[recycle'[i]] = room'[recycle'[i]]
      BY <1>1, <1>3, <2>1, <2>2 DEF HeapInv
    <2> QED BY <1>1, <2>3, <2>4 DEF HeapInv
  <1>11. HandInv'
    <2>1. \A u \in Threads \ {t} : pc[u] = "push" => blob[u] # b
      BY <1>1 DEF ClaimInv
    <2> QED BY <1>1, <1>4, <1>5, <2>1 DEF HandInv
  <1>12. UsedInv' BY <1>1, <1>4, <1>5 DEF UsedInv
  <1>13. ClaimInv'
    <2>1. \A u \in Threads : b \notin used[u] /\ (pc[u] = "free" => blob[u] # b)
      BY <1>3 DEF UsedInv, HandInv
    <2> QED BY <1>4, <1>5, <2>1 DEF ClaimInv
  <1> QED BY <1>6, <1>7, <1>8, <1>9, <1>10, <1>11, <1>12, <1>13

-----------------------------------------------------------------------------
(* FreeLarge, and memory outside the heap.                                 *)

\* What a thread lets go of stays listed.
LEMMA DropInv ==
  ASSUME LargeInv, NEW t \in Threads, Drop(t)
  PROVE  LargeInv'
  <1> USE DEF LargeInv
  <1>1. PICK b \in used[t] :
          used' = [used EXCEPT ![t] = @ \ {b}] /\ UNCHANGED <<calls, heap, lock, counts, enabling, sweep>>
    BY DEF Drop
  <1>2. \A u \in Threads : used'[u] \subseteq used[u]
    BY <1>1 DEF TypeOK
  <1>3. TypeOK'
    <2>1. used' \in [Threads -> SUBSET Blobs] BY <1>1 DEF TypeOK
    <2> QED BY <1>1, <2>1 DEF TypeOK
  <1>4. CallInv' /\ LockInv' /\ SweepInv' /\ HeapInv'
    BY <1>1 DEF CallInv, LockInv, SweepInv, HeapInv
  <1>5. HandInv' BY <1>1, <1>2 DEF HandInv
  <1>6. UsedInv' /\ ClaimInv' BY <1>1, <1>2 DEF UsedInv, ClaimInv
  <1> QED BY <1>3, <1>4, <1>5, <1>6

\* A blob that is given back is still listed, and in one pair of hands.
LEMMA FreeLargeInv ==
  ASSUME LargeInv, NEW t \in Threads, FreeLarge(t)
  PROVE  LargeInv'
  <1> USE DEF LargeInv
  <1>1. PICK b \in used[t] :
          /\ pc[t] = "idle" /\ gc = "no"
          /\ \/ pc' = [pc EXCEPT ![t] = "free"] /\ blob' = [blob EXCEPT ![t] = b]
             \/ pc' = [pc EXCEPT ![t] = "idle"] /\ blob' = blob
          /\ used' = [used EXCEPT ![t] = @ \ {b}]
          /\ UNCHANGED <<want, index, heap, lock, counts, enabling, sweep>>
    BY DEF FreeLarge, Goto, Here
  <1>2. b \in Blobs /\ b \in largeList
    BY <1>1 DEF UsedInv, TypeOK
  <1>3. \A u \in Threads \ {t} : pc'[u] = pc[u] /\ blob'[u] = blob[u] /\ used'[u] = used[u]
    BY <1>1 DEF TypeOK
  <1>4. /\ used'[t] = used[t] \ {b} /\ pc'[t] \in {"free", "idle"}
        /\ pc'[t] = "free" => blob'[t] = b
    BY <1>1 DEF TypeOK
  <1>5. TypeOK'
    <2>1. pc' \in [Threads -> PCs]
      <3>1. pc \in [Threads -> PCs] /\ "free" \in PCs /\ "idle" \in PCs
        BY DEF TypeOK, PCs, Stopped
      <3> QED BY <1>1, <3>1
    <2>2. blob' \in [Threads -> Blobs \union {NoBlob}] BY <1>1, <1>2 DEF TypeOK
    <2>3. used' \in [Threads -> SUBSET Blobs] BY <1>1 DEF TypeOK
    <2> QED BY <1>1, <2>1, <2>2, <2>3 DEF TypeOK
  <1>6. CallInv' BY <1>1, <1>3, <1>4 DEF CallInv
  <1>7. LockInv' BY <1>1, <1>3, <1>4 DEF LockInv
  <1>8. SweepInv' /\ HeapInv' BY <1>1 DEF SweepInv, HeapInv
  <1>9. HandInv' BY <1>1, <1>2, <1>3, <1>4 DEF HandInv
  <1>10. UsedInv' BY <1>1, <1>3, <1>4 DEF UsedInv
  <1>11. ClaimInv' BY <1>1, <1>3, <1>4 DEF ClaimInv
  <1> QED BY <1>5, <1>6, <1>7, <1>8, <1>9, <1>10, <1>11

\* With the lock it leaves mLargeList for the list to recycle, or for good.
LEMMA FreeLockedInv ==
  ASSUME LargeInv, NEW t \in Threads, FreeLocked(t)
  PROVE  LargeInv'
  <1> USE DEF LargeInv
  <1> DEFINE b == blob[t]
  <1>1. /\ pc[t] = "free" /\ pc' = [pc EXCEPT ![t] = "idle"] /\ gc = "no"
        /\ want' = [want EXCEPT ![t] = 0] /\ index' = [index EXCEPT ![t] = 1]
        /\ blob' = [blob EXCEPT ![t] = NoBlob]
        /\ allocated' = allocated - header[b] /\ largeList' = largeList \ {b}
        /\ lock = NoThread
        /\ UNCHANGED <<used, capacity, lock, refresh, external, enabling, sweep>>
    BY DEF FreeLocked, Return, Goto, Here
  <1>2. \/ /\ Len(recycle) < capacity /\ recycle' = Append(recycle, b)
           /\ room' = room /\ header' = header
        \/ /\ recycle' = recycle
           /\ room' = [room EXCEPT ![b] = 0] /\ header' = [header EXCEPT ![b] = 0]
    BY DEF FreeLocked, HasExtraCapacity
  <1>3. /\ b \in Blobs /\ b \in largeList /\ \A i \in 1..Len(recycle) : recycle[i] # b
        /\ \A u \in Threads : b \notin used[u] /\ (pc[u] = "push" => blob[u] # b)
    <2>1. b \in largeList \ used[t] BY <1>1 DEF HandInv
    <2>2. b \in Blobs /\ \A i \in 1..Len(recycle) : recycle[i] # b
      BY <2>1 DEF HeapInv, TypeOK
    <2>3. \A u \in Threads : b \notin used[u]
      BY <1>1, <2>1 DEF ClaimInv
    <2>4. \A u \in Threads : pc[u] = "push" => blob[u] # b
      BY <2>1 DEF HandInv
    <2> QED BY <2>1, <2>2, <2>3, <2>4
  <1>4. \A u \in Threads \ {t} : pc'[u] = pc[u] /\ blob'[u] = blob[u] /\ want'[u] = want[u]
    BY <1>1 DEF TypeOK
  <1>5. pc'[t] = "idle" BY <1>1 DEF TypeOK
  <1>6. /\ recycle' \in Seq(Blobs) /\ Len(recycle') <= capacity
        /\ \A i \in 1..Len(recycle') : recycle'[i] = b \/ i <= Len(recycle)
        /\ \A i \in 1..Len(recycle) : recycle'[i] = recycle[i] /\ i <= Len(recycle')
        /\ Len(recycle') <= Len(recycle) + 1
    <2>1. recycle \in Seq(Blobs) /\ Len(recycle) \in Nat /\ capacity \in Nat /\ Len(recycle) <= capacity
      BY DEF TypeOK
    <2>2. CASE Len(recycle) < capacity /\ recycle' = Append(recycle, b)
      BY <1>3, <2>1, <2>2
    <2>3. CASE recycle' = recycle
      BY <2>1, <2>3
    <2> QED BY <1>2, <2>2, <2>3
  <1>7. \A c \in Blobs \ {b} : room'[c] = room[c] /\ header'[c] = header[c]
    BY <1>2, <1>3 DEF TypeOK
  <1>8. TypeOK'
    <2>1. pc' \in [Threads -> PCs] BY <1>1 DEF TypeOK, PCs, Stopped
    <2>2. /\ blob' \in [Threads -> Blobs \union {NoBlob}]
          /\ want' \in [Threads -> Int] /\ index' \in [Threads -> Nat \ {0}]
      BY <1>1 DEF TypeOK
    <2>3. room' \in [Blobs -> Sizes \union {0}] /\ header' \in [Blobs -> Sizes \union {0}]
      BY <1>2, <1>3 DEF TypeOK
    <2>4. allocated' \in Int
      <3>1. header[b] \in Sizes \union {0} BY <1>3 DEF TypeOK
      <3> QED BY <1>1, <3>1, SizesAreNat DEF TypeOK
    <2>5. largeList' \subseteq Blobs /\ unswept' \subseteq largeList'
      BY <1>1 DEF TypeOK, SweepInv
    <2> QED BY <1>1, <1>6, <2>1, <2>2, <2>3, <2>4, <2>5 DEF TypeOK
  <1>9. CallInv' BY <1>4, <1>5 DEF CallInv
  <1>10. LockInv' BY <1>1, <1>4, <1>5, LargeAssumption DEF LockInv
  <1>11. SweepInv' BY <1>1 DEF SweepInv
  <1>12. HeapInv'
    <2>1. \A c \in largeList' : room'[c] # 0 /\ header'[c] = room'[c]
      BY <1>1, <1>7 DEF HeapInv, TypeOK
    <2>2. \A i \in 1..Len(recycle') :
            /\ recycle'[i] \notin largeList'
            /\ room'[recycle'[i]] # 0 /\ header'[recycle'[i]] = room'[recycle'[i]]
      <3> TAKE i \in 1..Len(recycle')
      <3>1. CASE i <= Len(recycle)
        <4>1. i \in 1..Len(recycle) /\ recycle'[i] = recycle[i] /\ recycle[i] \in Blobs
          BY <1>6, <3>1 DEF TypeOK
        <4> QED BY <1>1, <1>3, <1>7, <4>1 DEF HeapInv
      <3>2. CASE ~(i <= Len(recycle))
        <4>1. recycle'[i] = b BY <1>6, <3>2
        <4>2. room' = room /\ header' = header BY <1>2, <3>2
        <4> QED BY <1>1, <1>3, <4>1, <4>2 DEF HeapInv
      <3> QED BY <3>1, <3>2
    <2>3. \A i, j \in 1..Len(recycle') : recycle'[i] = recycle'[j] => i = j
      <3>1. Len(recycle) \in Nat /\ Len(recycle') \in Nat BY <1>6 DEF TypeOK
      <3>2. \A i \in 1..Len(recycle') : i \in 1..Len(recycle) \/ i = Len(recycle) + 1
        BY <1>6, <3>1
      <3>3. \A i \in 1..Len(recycle') : i = Len(recycle) + 1 => recycle'[i] = b
        BY <1>6, <3>1
      <3> QED BY <1>3, <1>6, <3>2, <3>3 DEF HeapInv
    <2> QED BY <2>1, <2>2, <2>3 DEF HeapInv
  <1>13. HandInv'
    <2>1. \A u \in Threads \ {t} : pc[u] = "push" =>
            /\ blob[u] \in Blobs \ largeList' /\ room'[blob[u]] = want[u]
            /\ \A i \in 1..Len(recycle') : recycle'[i] # blob[u]
      <3> TAKE u \in Threads \ {t}
      <3> HAVE pc[u] = "push"
      <3>1. /\ blob[u] \in Blobs \ largeList /\ room[blob[u]] = want[u] /\ blob[u] # b
            /\ \A i \in 1..Len(recycle) : recycle[i] # blob[u]
        BY <1>3 DEF HandInv
      <3>2. \A i \in 1..Len(recycle') :
              recycle'[i] = b \/ \E j \in 1..Len(recycle) : recycle'[i] = recycle[j]
        BY <1>6 DEF TypeOK
      <3>3. \A i \in 1..Len(recycle') : recycle'[i] # blob[u]
        BY <3>1, <3>2
      <3> QED BY <1>1, <1>7, <3>1, <3>3
    <2>2. \A u \in Threads \ {t} : pc[u] = "free" => blob[u] \in largeList' \ used'[u]
      BY <1>1 DEF HandInv, ClaimInv
    <2> QED BY <1>4, <1>5, <2>1, <2>2 DEF HandInv
  <1>14. UsedInv' BY <1>1, <1>3 DEF UsedInv
  <1>15. ClaimInv' BY <1>1, <1>4, <1>5 DEF ClaimInv
  <1> QED BY <1>8, <1>9, <1>10, <1>11, <1>12, <1>13, <1>14, <1>15

\* Reports change the counts only.
LEMMA ReportInv ==
  ASSUME LargeInv, NEW t \in Threads, OnMemoryChange(t) \/ ReportLocked(t)
  PROVE  LargeInv'
  <1> USE DEF LargeInv
  <1>1. /\ gc = "no" /\ used' = used /\ lock' = lock /\ refresh' = refresh
        /\ room' = room /\ header' = header /\ largeList' = largeList
        /\ recycle' = recycle /\ capacity' = capacity
        /\ gc' = gc /\ unswept' = unswept /\ remaining' = remaining
    BY DEF OnMemoryChange, ReportLocked, Return, Goto, Here
  <1>2. /\ pc' \in [Threads -> PCs] /\ want' \in [Threads -> Int]
        /\ index' \in [Threads -> Nat \ {0}] /\ blob' \in [Threads -> Blobs \union {NoBlob}]
        /\ allocated' \in Int /\ external' \in Int
        /\ pc'[t] \in {"idle", "report", "collectReport"}
        /\ \A u \in Threads \ {t} :
             pc'[u] = pc[u] /\ want'[u] = want[u] /\ index'[u] = index[u] /\ blob'[u] = blob[u]
    <2>1. CASE OnMemoryChange(t)
      <3>1. PICK d \in Deltas, sign \in {1, -1}, to \in {"report", "collectReport"} :
              /\ pc' = [pc EXCEPT ![t] = to]
              /\ want' = [want EXCEPT ![t] = sign * d]
              /\ UNCHANGED <<index, blob, used, heap, lock, counts, sweep>>
        BY <2>1 DEF OnMemoryChange, Goto
      <3>2. sign * d \in Int BY DeltasAreInt
      <3>3. want' \in [Threads -> Int] BY <3>1, <3>2 DEF TypeOK
      <3> QED BY <3>1, <3>3 DEF TypeOK, PCs, Stopped
    <2>2. CASE ReportLocked(t)
      <3>1. /\ pc' = [pc EXCEPT ![t] = "idle"] /\ want' = [want EXCEPT ![t] = 0]
            /\ index' = [index EXCEPT ![t] = 1] /\ blob' = [blob EXCEPT ![t] = NoBlob]
            /\ allocated' = allocated + want[t] /\ external' = external + want[t]
        BY <2>2 DEF ReportLocked, Return, Goto
      <3>2. allocated' \in Int /\ external' \in Int BY <3>1 DEF TypeOK
      <3>3. pc' \in [Threads -> PCs] BY <3>1 DEF TypeOK, PCs, Stopped
      <3> QED BY <3>1, <3>2, <3>3 DEF TypeOK
    <2> QED BY <2>1, <2>2
  <1>3. TypeOK'
    <2>1. UNCHANGED enabling => sgInternalEnable' \in BOOLEAN /\ skipped' \in BOOLEAN
      BY DEF TypeOK
    <2>2. UNCHANGED enabling \/ \E d \in Deltas : Pass(d)
      BY DEF OnMemoryChange, ReportLocked
    <2>3. sgInternalEnable' \in BOOLEAN /\ skipped' \in BOOLEAN
      BY <2>1, <2>2, PassType
    <2> QED BY <1>1, <1>2, <2>3 DEF TypeOK
  <1>4. CallInv' BY <1>2 DEF CallInv
  <1>5. LockInv' BY <1>1, <1>2 DEF LockInv
  <1>6. SweepInv' /\ HeapInv' BY <1>1 DEF SweepInv, HeapInv
  <1>7. HandInv'
    <2>1. \A u \in Threads : pc'[u] \in {"push", "free"} =>
            pc'[u] = pc[u] /\ want'[u] = want[u] /\ blob'[u] = blob[u]
      BY <1>2
    <2> QED BY <1>1, <2>1 DEF HandInv
  <1>8. UsedInv' BY <1>1 DEF UsedInv
  <1>9. ClaimInv' BY <1>1, <1>2 DEF ClaimInv
  <1> QED BY <1>3, <1>4, <1>5, <1>6, <1>7, <1>8, <1>9

-----------------------------------------------------------------------------
(* The sweep.                                                              *)

\* The blobs to recycle go; no thread holds one of them.
LEMMA StartSweepInv ==
  ASSUME LargeInv, StartSweep
  PROVE  LargeInv'
  <1> USE DEF LargeInv
  <1>1. /\ gc' = "running" /\ \A t \in Threads : pc[t] \in Stopped
        /\ recycle' = << >> /\ unswept' = largeList
        /\ room' = [b \in Blobs |-> IF b \in ToSet(recycle) THEN 0 ELSE room[b]]
        /\ header' = [b \in Blobs |-> IF b \in ToSet(recycle) THEN 0 ELSE header[b]]
        /\ remaining' \in {0, refresh}
        /\ UNCHANGED <<calls, used, largeList, capacity, lock, counts, enabling>>
    BY DEF StartSweep
  <1>2. TypeOK'
    <2>1. room' \in [Blobs -> Sizes \union {0}] /\ header' \in [Blobs -> Sizes \union {0}]
      BY <1>1 DEF TypeOK
    <2>2. recycle' \in Seq(Blobs) /\ Len(recycle') <= capacity
      BY <1>1 DEF TypeOK
    <2> QED BY <1>1, <2>1, <2>2 DEF TypeOK
  <1>3. CallInv' BY <1>1 DEF CallInv
  <1>4. LockInv' BY <1>1 DEF LockInv, Stopped
  <1>5. SweepInv' BY <1>1 DEF SweepInv
  <1>6. HeapInv'
    <2>1. \A b \in largeList : b \in Blobs /\ b \notin ToSet(recycle)
      BY DEF HeapInv, TypeOK, ToSet
    <2> QED BY <1>1, <2>1 DEF HeapInv
  <1>7. HandInv' BY <1>1 DEF HandInv, Stopped
  <1>8. UsedInv' /\ ClaimInv' BY <1>1 DEF UsedInv, ClaimInv
  <1> QED BY <1>2, <1>3, <1>4, <1>5, <1>6, <1>7, <1>8

\* A blob that stays, stays as it was.
LEMMA KeepInv ==
  ASSUME LargeInv, NEW b \in Blobs, Keep(b)
  PROVE  LargeInv'
  <1> USE DEF LargeInv, Keep
  <1>1. TypeOK' BY DEF TypeOK
  <1>2. CallInv' /\ LockInv' /\ SweepInv' /\ HeapInv' /\ HandInv'
    BY DEF CallInv, LockInv, SweepInv, HeapInv, HandInv
  <1>3. UsedInv' /\ ClaimInv' BY DEF UsedInv, ClaimInv
  <1> QED BY <1>1, <1>2, <1>3

\* A dead blob changes lists, or goes.
LEMMA SweepDeadInv ==
  ASSUME LargeInv, NEW b \in Blobs, SweepDead(b)
  PROVE  LargeInv'
  <1> USE DEF LargeInv
  <1>1. /\ gc = "running" /\ b \in unswept /\ \A t \in Threads : b \notin used[t]
        /\ unswept' = unswept \ {b} /\ largeList' = largeList \ {b}
        /\ allocated' = allocated - header[b]
        /\ UNCHANGED <<calls, used, lock, refresh, external, enabling, gc>>
    BY DEF SweepDead
  <1>2. \/ /\ recycle' = Append(recycle, b) /\ room' = room /\ header' = header
           /\ capacity' = IF Len(recycle) < capacity THEN capacity
                          ELSE Slack + (Len(recycle) * 3) \div 2
           /\ remaining' = remaining - header[b]
        \/ /\ UNCHANGED <<recycle, capacity, remaining>>
           /\ room' = [room EXCEPT ![b] = 0] /\ header' = [header EXCEPT ![b] = 0]
    BY DEF SweepDead, HasExtraCapacity
  <1>3. /\ b \in largeList /\ \A i \in 1..Len(recycle) : recycle[i] # b
        /\ \A t \in Threads : pc[t] \in Stopped
    BY <1>1 DEF TypeOK, HeapInv, SweepInv
  <1>4. header[b] \in Int
    <2>1. header[b] \in Sizes \union {0} BY DEF TypeOK
    <2>2. Sizes \union {0} \subseteq Int BY SizesAreNat
    <2> QED BY <2>1, <2>2
  <1>5. \A c \in Blobs \ {b} : room'[c] = room[c] /\ header'[c] = header[c]
    BY <1>2 DEF TypeOK
  <1>6. TypeOK'
    <2>1. room' \in [Blobs -> Sizes \union {0}] /\ header' \in [Blobs -> Sizes \union {0}]
      BY <1>2 DEF TypeOK
    <2>2. recycle' \in Seq(Blobs) /\ capacity' \in Nat /\ Len(recycle') <= capacity'
      <3>1. recycle \in Seq(Blobs) /\ Len(recycle) \in Nat /\ capacity \in Nat /\ Len(recycle) <= capacity
        BY DEF TypeOK
      <3>2. /\ Slack + (Len(recycle) * 3) \div 2 \in Nat
            /\ Len(recycle) + 1 <= Slack + (Len(recycle) * 3) \div 2
        BY <3>1, Grown
      <3>3. Append(recycle, b) \in Seq(Blobs) /\ Len(Append(recycle, b)) = Len(recycle) + 1
        BY <3>1
      <3>4. CASE recycle' = recycle /\ capacity' = capacity
        BY <3>1, <3>4
      <3>5. CASE /\ recycle' = Append(recycle, b)
                 /\ capacity' = IF Len(recycle) < capacity THEN capacity
                                ELSE Slack + (Len(recycle) * 3) \div 2
        BY <3>1, <3>2, <3>3, <3>5
      <3> QED BY <1>2, <3>4, <3>5
    <2>3. allocated' \in Int /\ remaining' \in Int
      BY <1>1, <1>2, <1>4 DEF TypeOK
    <2> QED BY <1>1, <2>1, <2>2, <2>3 DEF TypeOK
  <1>7. CallInv' BY <1>1 DEF CallInv
  <1>8. LockInv' BY <1>1, <1>3 DEF LockInv, Stopped
  <1>9. SweepInv' BY <1>1 DEF SweepInv
  <1>10. HeapInv'
    <2>1. \A c \in largeList' : room'[c] # 0 /\ header'[c] = room'[c]
      BY <1>1, <1>5 DEF HeapInv, TypeOK
    <2>2. /\ \A i \in 1..Len(recycle) :
               /\ recycle[i] \notin largeList' /\ recycle[i] \in Blobs \ {b}
               /\ room'[recycle[i]] # 0 /\ header'[recycle[i]] = room'[recycle[i]]
      BY <1>1, <1>3, <1>5 DEF HeapInv, TypeOK
    <2>3. recycle' # recycle => room'[b] # 0 /\ header'[b] = room'[b] /\ b \notin largeList'
      BY <1>1, <1>2, <1>3 DEF HeapInv
    <2>4. CASE recycle' = Append(recycle, b)
      <3>1. /\ Len(recycle') = Len(recycle) + 1 /\ recycle'[Len(recycle) + 1] = b
            /\ \A i \in 1..Len(recycle) : recycle'[i] = recycle[i]
            /\ recycle' # recycle /\ Len(recycle) \in Nat
        BY <2>4 DEF TypeOK
      <3>2. \A i \in 1..Len(recycle') : i \in 1..Len(recycle) \/ i = Len(recycle) + 1
        BY <3>1
      <3>3. \A i \in 1..Len(recycle') :
              /\ recycle'[i] \notin largeList'
              /\ room'[recycle'[i]] # 0 /\ header'[recycle'[i]] = room'[recycle'[i]]
        BY <2>2, <2>3, <3>1, <3>2
      <3>4. \A i, j \in 1..Len(recycle') : recycle'[i] = recycle'[j] => i = j
        BY <2>2, <3>1, <3>2 DEF HeapInv
      <3> QED BY <2>1, <3>3, <3>4 DEF HeapInv
    <2>5. CASE recycle' = recycle
      BY <2>1, <2>2, <2>5 DEF HeapInv
    <2> QED BY <1>2, <2>4, <2>5
  <1>11. HandInv' BY <1>1, <1>3 DEF HandInv, Stopped
  <1>12. UsedInv' /\ ClaimInv' BY <1>1 DEF UsedInv, ClaimInv
  <1> QED BY <1>6, <1>7, <1>8, <1>9, <1>10, <1>11, <1>12

\* The threads go on from where they asked for the collection.
LEMMA EndSweepInv ==
  ASSUME LargeInv, EndSweep
  PROVE  LargeInv'
  <1> USE DEF LargeInv
  <1>1. /\ gc = "running" /\ gc' = "no" /\ unswept = {} /\ remaining' = 0
        /\ refresh' \in {allocated + space : space \in Spaces}
        /\ skipped' = FALSE
        /\ UNCHANGED <<want, index, blob, used, heap, lock, allocated, external, sgInternalEnable, unswept>>
    BY DEF EndSweep
  <1>2. \A t \in Threads : pc[t] \in Stopped
    BY <1>1 DEF SweepInv
  <1>3. /\ pc' \in [Threads -> {"idle", "look", "retry", "report"}]
        /\ \A t \in Threads : pc'[t] \in {"look", "retry"} => pc[t] \in {"collect", "exhausted"}
    BY <1>2 DEF EndSweep, Stopped
  <1>4. TypeOK'
    <2>1. pc' \in [Threads -> PCs] BY <1>3 DEF PCs, Stopped
    <2>2. refresh' \in Int BY <1>1, LargeAssumption DEF TypeOK
    <2>3. sgInternalEnable' \in BOOLEAN /\ skipped' \in BOOLEAN BY <1>1 DEF TypeOK
    <2> QED BY <1>1, <2>1, <2>2, <2>3 DEF TypeOK
  <1>5. CallInv'
    <2>1. \A t \in Threads : pc'[t] \in {"look", "retry"} => want[t] \in Sizes
      BY <1>3 DEF CallInv, PCs, Stopped
    <2> QED BY <1>1, <1>3, <2>1 DEF CallInv
  <1>6. LockInv' BY <1>1, <1>3 DEF LockInv
  <1>7. SweepInv' /\ HeapInv' BY <1>1 DEF SweepInv, HeapInv
  <1>8. HandInv' BY <1>1, <1>3 DEF HandInv
  <1>9. UsedInv' /\ ClaimInv' BY <1>1, <1>3 DEF UsedInv, ClaimInv
  <1> QED BY <1>4, <1>5, <1>6, <1>7, <1>8, <1>9

-----------------------------------------------------------------------------
(* The theorems.                                                           *)

\* The invariant holds at the start, ...
LEMMA LargeInit == Init => LargeInv
  <1> SUFFICES ASSUME Init PROVE LargeInv
    OBVIOUS
  <1>1. TypeOK
    <2>1. sgInternalEnable \in BOOLEAN /\ skipped \in BOOLEAN BY DEF Init
    <2>2. /\ pc \in [Threads -> PCs] /\ want \in [Threads -> Int]
          /\ index \in [Threads -> Nat \ {0}] /\ blob \in [Threads -> Blobs \union {NoBlob}]
          /\ used \in [Threads -> SUBSET Blobs]
      BY DEF Init, PCs, Stopped
    <2>3. /\ room \in [Blobs -> Sizes \union {0}] /\ header \in [Blobs -> Sizes \union {0}]
          /\ recycle \in Seq(Blobs) /\ capacity \in Nat /\ Len(recycle) <= capacity
      BY DEF Init
    <2>4. allocated \in Int /\ refresh \in Int /\ external \in Int /\ remaining \in Int
      BY LargeAssumption DEF Init
    <2> QED BY <2>1, <2>2, <2>3, <2>4 DEF Init, TypeOK
  <1>2. CallInv /\ LockInv /\ SweepInv /\ HeapInv /\ HandInv /\ UsedInv /\ ClaimInv
    BY DEF Init, CallInv, LockInv, SweepInv, HeapInv, HandInv, UsedInv, ClaimInv
  <1> QED BY <1>1, <1>2 DEF LargeInv

\* ... no step at all keeps it, ...
LEMMA LargeStutter == LargeInv /\ UNCHANGED vars => LargeInv'
  <1> SUFFICES ASSUME LargeInv, UNCHANGED vars PROVE LargeInv'
    OBVIOUS
  <1> USE DEF LargeInv, vars
  <1>1. TypeOK' BY DEF TypeOK
  <1>2. CallInv' /\ LockInv' BY DEF CallInv, LockInv
  <1>3. SweepInv' /\ HeapInv' BY DEF SweepInv, HeapInv
  <1>4. HandInv' BY DEF HandInv
  <1>5. UsedInv' /\ ClaimInv' BY DEF UsedInv, ClaimInv
  <1> QED BY <1>1, <1>2, <1>3, <1>4, <1>5

\* ... and every step keeps it.
LEMMA LargeNext == LargeInv /\ [Next]_vars => LargeInv'
  <1> SUFFICES ASSUME LargeInv, [Next]_vars PROVE LargeInv'
    OBVIOUS
  <1>1. ASSUME NEW t \in Threads, Alloc(t) PROVE LargeInv'
    BY <1>1, LargeStutter, AllocLargeInv, LookInv, CompareInv, LockListInv, HxAllocInv,
       AllocFailsInv, PushInv DEF Alloc, Trapped
  <1>2. ASSUME NEW t \in Threads, Free(t) PROVE LargeInv'
    BY <1>2, DropInv, FreeLargeInv, FreeLockedInv, ReportInv DEF Free
  <1> QED
    BY <1>1, <1>2, EnableInv, LargeStutter, StartSweepInv, EndSweepInv, KeepInv, SweepDeadInv DEF Next

\* The inductive invariant holds throughout (AllocLarge, FreeLarge and the
\* sweep of large objects).
THEOREM LargeInvariance == Spec => []LargeInv
  BY LargeInit, LargeNext, PTL DEF Spec

\* Every variable keeps its type.
THEOREM LargeTypeCorrect == Spec => []TypeOK
  <1>1. LargeInv => TypeOK BY DEF LargeInv
  <1> QED BY <1>1, LargeInvariance, PTL

\* A large object in use is nobody else's and has the room that was asked for,
\* though AllocLarge looks for one without the lock.
THEOREM LargeSafeToUse == Spec => []SafeToUse
  <1>1. ASSUME LargeInv PROVE SafeToUse
    <2> USE <1>1 DEF LargeInv
    <2>0. DOMAIN recycle = 1..Len(recycle) BY DEF TypeOK
    <2>1. IsInjective(recycle)
      BY <2>0 DEF IsInjective, HeapInv
    <2>2. ToSet(recycle) \intersect largeList = {}
      BY DEF ToSet, HeapInv, TypeOK
    <2>3. \A t \in Threads : \A b \in used[t] : room[b] # 0 /\ b \notin ToSet(recycle)
      BY <2>2 DEF UsedInv, HeapInv
    <2>4. \A t \in Threads : pc[t] = "push" =>
            /\ room[blob[t]] = want[t] /\ want[t] # 0
            /\ blob[t] \notin ToSet(recycle) /\ blob[t] \notin largeList
      <3>1. \A t \in Threads : pc[t] = "push" => want[t] \in Sizes
        BY DEF CallInv, PCs
      <3> QED BY <2>0, <3>1, SizesAreNat DEF HandInv, ToSet
    <2>5. \A t, u \in Threads : t # u =>
            (used[t] \union InHand(t)) \intersect (used[u] \union InHand(u)) = {}
      <3> SUFFICES ASSUME NEW t \in Threads, NEW u \in Threads, t # u,
                          NEW b \in used[t] \union InHand(t), b \in used[u] \union InHand(u)
                   PROVE  FALSE
        OBVIOUS
      <3>1. \A w \in Threads : b \in InHand(w) => pc[w] = "push" /\ b = blob[w] /\ b \notin largeList
        BY <2>4 DEF InHand
      <3>2. \A w \in Threads : b \in used[w] => b \in largeList
        BY DEF UsedInv
      <3> QED BY <3>1, <3>2 DEF ClaimInv
    <2>6. \A t \in Threads : \A b \in InHand(t) : room[b] # 0 /\ b \notin ToSet(recycle)
      BY <2>4 DEF InHand
    <2> QED BY <2>1, <2>3, <2>4, <2>5, <2>6 DEF SafeToUse
  <1> QED BY <1>1, LargeInvariance, PTL

-----------------------------------------------------------------------------
(* mLargeAllocated is what is listed and what was reported.                *)

\* A blob of n bytes has n of them.
LEMMA BytesOfOne ==
  ASSUME NEW b, NEW n \in Nat
  PROVE  IsFiniteSet({b} \X (1..n)) /\ Cardinality({b} \X (1..n)) = n
  <1> DEFINE f == [i \in 1..n |-> <<b, i>>]
  <1>1. IsFiniteSet(1..n) /\ Cardinality(1..n) = n
    BY FS_Interval
  <1>2. f \in [1..n -> {b} \X (1..n)] /\ \A i \in 1..n : f[i] = <<b, i>>
    OBVIOUS
  <1>3. \A i, j \in 1..n : f[i] = f[j] => i = j
    BY <1>2
  <1>4. \A x \in {b} \X (1..n) : \E i \in 1..n : f[i] = x
    BY <1>2
  <1> HIDE DEF f
  <1>5. f \in Bijection(1..n, {b} \X (1..n))
    BY <1>2, <1>3, <1>4 DEF Bijection, Injection, Surjection, IsInjective
  <1>6. ExistsBijection(1..n, {b} \X (1..n))
    BY <1>5 DEF ExistsBijection
  <1> QED BY <1>1, <1>6, FS_Bijection

\* The bytes depend on the sizes of these blobs only.
LEMMA SameBytes ==
  ASSUME NEW S, NEW f, NEW g, \A b \in S : f[b] = g[b]
  PROVE  Bytes(f, S) = Bytes(g, S)
  BY DEF Bytes

\* One blob more adds its bytes to the others.
LEMMA AddBlob ==
  ASSUME NEW size, NEW S, NEW b, b \notin S, size[b] \in Nat, IsFiniteSet(Bytes(size, S))
  PROVE  /\ IsFiniteSet(Bytes(size, S \union {b}))
         /\ Cardinality(Bytes(size, S \union {b})) = Cardinality(Bytes(size, S)) + size[b]
  <1> DEFINE one == {b} \X (1..size[b])
  <1>1. Bytes(size, S \union {b}) = Bytes(size, S) \union one
    BY DEF Bytes
  <1>2. Bytes(size, S) \intersect one = {}
    BY DEF Bytes
  <1>3. IsFiniteSet(one) /\ Cardinality(one) = size[b]
    BY BytesOfOne
  <1>4. Cardinality(Bytes(size, S)) \in Nat
    BY FS_CardinalityType
  <1> HIDE DEF one
  <1>5. /\ IsFiniteSet(Bytes(size, S) \union one)
        /\ Cardinality(Bytes(size, S) \union one) =
             Cardinality(Bytes(size, S)) + Cardinality(one) - Cardinality({})
    BY <1>2, <1>3, FS_Union
  <1>6. Cardinality({}) = 0
    BY FS_EmptySet
  <1>7. Cardinality(Bytes(size, S) \union one) = Cardinality(Bytes(size, S)) + size[b]
    BY <1>3, <1>4, <1>5, <1>6
  <1> QED BY <1>1, <1>5, <1>7

\* One blob less takes its bytes away.
LEMMA RemoveBlob ==
  ASSUME NEW size, NEW S, NEW b \in S, size[b] \in Nat, IsFiniteSet(Bytes(size, S))
  PROVE  /\ IsFiniteSet(Bytes(size, S \ {b}))
         /\ Cardinality(Bytes(size, S \ {b})) = Cardinality(Bytes(size, S)) - size[b]
  <1> DEFINE rest == S \ {b}
  <1>1. Bytes(size, rest) \subseteq Bytes(size, S)
    BY DEF Bytes
  <1>2. IsFiniteSet(Bytes(size, rest))
    BY <1>1, FS_Subset
  <1>3. S = rest \union {b} /\ b \notin rest
    OBVIOUS
  <1>4. Cardinality(Bytes(size, rest)) \in Nat
    BY <1>2, FS_CardinalityType
  <1> HIDE DEF rest
  <1>5. Cardinality(Bytes(size, rest \union {b})) = Cardinality(Bytes(size, rest)) + size[b]
    BY <1>2, <1>3, AddBlob
  <1>6. Cardinality(Bytes(size, rest)) = Cardinality(Bytes(size, S)) - size[b]
    BY <1>3, <1>4, <1>5
  <1> QED BY <1>2, <1>6 DEF rest

\* The size in the first word is a number.
LEMMA HeaderIsNat ==
  ASSUME LargeInv, NEW b \in Blobs
  PROVE  header[b] \in Nat
  <1>1. header[b] \in Sizes \union {0} BY DEF LargeInv, TypeOK
  <1>2. \A s \in Sizes : s \in Nat BY LargeAssumption
  <1> QED BY <1>1, <1>2

\* What is listed is finite, and counted.
CountInv == IsFiniteSet(Bytes(header, largeList)) /\ Accounted

\* Steps that keep the list, the sizes in it and the counts keep the sum.
LEMMA SameCount ==
  ASSUME CountInv, largeList' = largeList, \A b \in largeList : header'[b] = header[b],
         allocated' = allocated, external' = external
  PROVE  CountInv'
  <1>1. Bytes(header', largeList') = Bytes(header, largeList)
    BY SameBytes
  <1> QED BY <1>1 DEF CountInv, Accounted

\* A pushed blob is counted once, for it was not listed.
LEMMA PushCount ==
  ASSUME LargeInv, CountInv, NEW t \in Threads, Push(t)
  PROVE  CountInv'
  <1> DEFINE b == blob[t]
  <1>1. /\ pc[t] = "push" /\ header' = [header EXCEPT ![b] = want[t]]
        /\ largeList' = largeList \union {b} /\ allocated' = allocated + want[t]
        /\ external' = external
    BY DEF Push, Return, Goto, Here
  <1>2. b \in Blobs \ largeList
    BY <1>1 DEF LargeInv, HandInv
  <1>3. want[t] \in Nat
    BY <1>1, SizesAreNat DEF LargeInv, CallInv, PCs, Stopped
  <1>4. header'[b] = want[t] /\ \A c \in largeList : header'[c] = header[c]
    BY <1>1, <1>2 DEF LargeInv, TypeOK
  <1>5. Bytes(header', largeList) = Bytes(header, largeList)
    BY <1>4, SameBytes
  <1>6. header'[b] \in Nat /\ b \notin largeList /\ IsFiniteSet(Bytes(header', largeList))
    BY <1>2, <1>3, <1>4, <1>5 DEF CountInv
  <1> HIDE DEF b
  <1>7. /\ IsFiniteSet(Bytes(header', largeList \union {b}))
        /\ Cardinality(Bytes(header', largeList \union {b})) =
             Cardinality(Bytes(header, largeList)) + want[t]
    <2>1. /\ IsFiniteSet(Bytes(header', largeList \union {b}))
          /\ Cardinality(Bytes(header', largeList \union {b})) =
               Cardinality(Bytes(header', largeList)) + header'[b]
      BY <1>6, AddBlob
    <2> QED BY <1>4, <1>5, <2>1
  <1>8. Cardinality(Bytes(header, largeList)) \in Nat /\ external \in Int
    BY FS_CardinalityType DEF CountInv, LargeInv, TypeOK
  <1> QED BY <1>1, <1>3, <1>7, <1>8 DEF CountInv, Accounted

\* A blob that leaves the list is no longer counted, whatever becomes of it.
LEMMA UnlistCount ==
  ASSUME LargeInv, CountInv, NEW b \in largeList, largeList' = largeList \ {b},
         allocated' = allocated - header[b], external' = external,
         \A c \in largeList \ {b} : header'[c] = header[c]
  PROVE  CountInv'
  <1>1. header[b] \in Nat
    BY HeaderIsNat DEF LargeInv, TypeOK
  <1>2. Bytes(header', largeList \ {b}) = Bytes(header, largeList \ {b})
    BY SameBytes
  <1>3. /\ IsFiniteSet(Bytes(header, largeList \ {b}))
        /\ Cardinality(Bytes(header, largeList \ {b})) =
             Cardinality(Bytes(header, largeList)) - header[b]
    BY <1>1, RemoveBlob DEF CountInv
  <1>4. Cardinality(Bytes(header, largeList)) \in Nat /\ external \in Int
    BY FS_CardinalityType DEF CountInv, LargeInv, TypeOK
  <1> QED BY <1>1, <1>2, <1>3, <1>4 DEF CountInv, Accounted

\* FreeLarge with the lock.
LEMMA FreeLockedCount ==
  ASSUME LargeInv, CountInv, NEW t \in Threads, FreeLocked(t)
  PROVE  CountInv'
  <1> DEFINE b == blob[t]
  <1>1. /\ pc[t] = "free" /\ largeList' = largeList \ {b}
        /\ allocated' = allocated - header[b] /\ external' = external
        /\ header' \in {header, [header EXCEPT ![b] = 0]}
    BY DEF FreeLocked, Return, Goto, Here
  <1>2. b \in largeList
    BY <1>1 DEF LargeInv, HandInv
  <1>3. \A c \in largeList \ {b} : header'[c] = header[c]
    BY <1>1 DEF LargeInv, TypeOK
  <1> HIDE DEF b
  <1> QED BY <1>1, <1>2, <1>3, UnlistCount

\* The sweep of a dead blob.
LEMMA SweepDeadCount ==
  ASSUME LargeInv, CountInv, NEW b \in Blobs, SweepDead(b)
  PROVE  CountInv'
  <1>1. /\ b \in unswept /\ largeList' = largeList \ {b}
        /\ allocated' = allocated - header[b] /\ external' = external
        /\ header' \in {header, [header EXCEPT ![b] = 0]}
    BY DEF SweepDead
  <1>2. b \in largeList /\ \A c \in largeList \ {b} : header'[c] = header[c]
    BY <1>1 DEF LargeInv, TypeOK
  <1> QED BY <1>1, <1>2, UnlistCount

\* A report changes both sides.
LEMMA ReportCount ==
  ASSUME LargeInv, CountInv, NEW t \in Threads, ReportLocked(t)
  PROVE  CountInv'
  <1>1. /\ allocated' = allocated + want[t] /\ external' = external + want[t]
        /\ header' = header /\ largeList' = largeList
    BY DEF ReportLocked
  <1>2. Cardinality(Bytes(header, largeList)) \in Nat /\ external \in Int /\ want[t] \in Int
    BY FS_CardinalityType DEF CountInv, LargeInv, TypeOK
  <1> QED BY <1>1, <1>2 DEF CountInv, Accounted

\* The blobs the sweep frees at its start were not listed.
LEMMA StartSweepCount ==
  ASSUME LargeInv, CountInv, StartSweep
  PROVE  CountInv'
  <1>1. /\ header' = [b \in Blobs |-> IF b \in ToSet(recycle) THEN 0 ELSE header[b]]
        /\ largeList' = largeList /\ allocated' = allocated /\ external' = external
    BY DEF StartSweep
  <1>2. \A b \in largeList : b \in Blobs /\ b \notin ToSet(recycle)
    <2>1. largeList \subseteq Blobs /\ recycle \in Seq(Blobs) BY DEF LargeInv, TypeOK
    <2>2. DOMAIN recycle = 1..Len(recycle) BY <2>1
    <2>3. \A i \in 1..Len(recycle) : recycle[i] \notin largeList BY DEF LargeInv, HeapInv
    <2> QED BY <2>1, <2>2, <2>3 DEF ToSet
  <1> QED BY <1>1, <1>2, SameCount

\* Every step keeps the sum.
LEMMA CountNext == LargeInv /\ CountInv /\ [Next]_vars => CountInv'
  <1> SUFFICES ASSUME LargeInv, CountInv, [Next]_vars PROVE CountInv'
    OBVIOUS
  <1>1. ASSUME UNCHANGED <<header, largeList, allocated, external>> PROVE CountInv'
    BY <1>1, SameCount
  <1>2. ASSUME NEW t \in Threads, Alloc(t) PROVE CountInv'
    <2>1. CASE Push(t) BY <2>1, PushCount
    <2>2. CASE ~Push(t)
      <3>1. UNCHANGED <<header, largeList, allocated, external>>
        BY <1>2, <2>2 DEF Alloc, AllocLarge, Look, Compare, LockList, HxAlloc, AllocFailed,
           MemoryExhausted, Trapped, vars
      <3> QED BY <1>1, <3>1
    <2> QED BY <2>1, <2>2
  <1>3. ASSUME NEW t \in Threads, Free(t) PROVE CountInv'
    <2>1. CASE FreeLocked(t) BY <2>1, FreeLockedCount
    <2>2. CASE ReportLocked(t) BY <2>2, ReportCount
    <2>3. CASE Drop(t) \/ FreeLarge(t) \/ OnMemoryChange(t)
      <3>1. UNCHANGED <<header, largeList, allocated, external>>
        BY <2>3 DEF Drop, FreeLarge, OnMemoryChange
      <3> QED BY <1>1, <3>1
    <2> QED BY <1>3, <2>1, <2>2, <2>3 DEF Free
  <1>4. CASE StartSweep BY <1>4, StartSweepCount
  <1>5. CASE EndSweep
    <2>1. UNCHANGED <<header, largeList, allocated, external>> BY <1>5 DEF EndSweep
    <2> QED BY <1>1, <2>1
  <1>6. ASSUME NEW b \in Blobs, Keep(b) PROVE CountInv'
    <2>1. UNCHANGED <<header, largeList, allocated, external>> BY <1>6 DEF Keep
    <2> QED BY <1>1, <2>1
  <1>7. ASSUME NEW b \in Blobs, SweepDead(b) PROVE CountInv'
    BY <1>7, SweepDeadCount
  <1>8. CASE UNCHANGED vars
    <2>1. UNCHANGED <<header, largeList, allocated, external>> BY <1>8 DEF vars
    <2> QED BY <1>1, <2>1
  <1>9. ASSUME NEW t \in Threads, InternalEnableGC(t) PROVE CountInv'
    <2>1. UNCHANGED <<header, largeList, allocated, external>> BY <1>9 DEF InternalEnableGC
    <2> QED BY <1>1, <2>1
  <1> QED BY <1>2, <1>3, <1>4, <1>5, <1>6, <1>7, <1>8, <1>9 DEF Next

\* mLargeAllocated counts each listed blob once, with what was reported
\* (AllocLarge, FreeLarge, onMemoryChange and the sweep).
THEOREM LargeAccounted == Spec => []Accounted
  <1>1. Init => CountInv
    <2> SUFFICES ASSUME Init PROVE CountInv
      OBVIOUS
    <2>1. Bytes(header, largeList) = {} BY DEF Init, Bytes
    <2>2. allocated = 0 /\ external = 0 BY DEF Init
    <2> QED BY <2>1, <2>2, FS_EmptySet DEF CountInv, Accounted
  <1>2. CountInv => Accounted BY DEF CountInv
  <1> QED BY <1>1, <1>2, CountNext, LargeInvariance, PTL DEF Spec

-----------------------------------------------------------------------------
(* Large memory does not pile up.                                          *)
(*                                                                         *)
(* GrowthBounded is not inductive: the threads that are past the look at   *)
(* the target have yet to add what they asked for.  Their number bounds    *)
(* that: a thread gets past when what it asks for is below the target, or  *)
(* when a collection has just set the target anew.  One that gets past     *)
(* beyond the target, the GC being disabled, is what `skipped` is there to *)
(* say, and nothing is claimed until the next collection.                  *)

\* The thread is past the look at the target and may add to allocated.
IsPast(t) ==
  \/ pc[t] \in {"look", "compare", "lock", "alloc", "retry", "push"}
  \/ pc[t] = "report" /\ want[t] > 0

\* The threads past it.
Past == {t \in Threads : IsPast(t)}

\* No call asks for more than the biggest.
WantInv == \A t \in Threads : want[t] <= Biggest

\* What is there and what is to come are bounded.
RoomInv ==
  skipped \/ allocated + Cardinality(Past) * Biggest <= refresh + Cardinality(Threads) * Biggest

\* The inductive invariant of growth.
GrowthInv == WantInv /\ RoomInv

\* Biggest bounds the sizes and the deltas.
LEMMA BiggestFacts ==
  /\ Biggest \in Nat
  /\ \A s \in Sizes : s \in Nat /\ s <= Biggest
  /\ \A d \in Deltas : d \in Nat /\ d > 0 /\ d <= Biggest
  BY LargeAssumption

\* n requests take at most the space of m, when n is at most m.
LEMMA Products ==
  ASSUME NEW m \in Nat, NEW n \in Nat, n <= m
  PROVE  /\ n * Biggest \in Int /\ m * Biggest \in Int /\ n * Biggest <= m * Biggest
         /\ (n + 1) * Biggest = n * Biggest + Biggest
  BY BiggestFacts

\* The threads past the look are finitely many, as are all threads.
LEMMA PastFinite ==
  /\ IsFiniteSet(Past) /\ Cardinality(Past) \in Nat /\ Cardinality(Threads) \in Nat
  /\ Cardinality(Past) <= Cardinality(Threads)
  <1>1. IsFiniteSet(Threads) BY LargeAssumption
  <1>2. Past \subseteq Threads BY DEF Past
  <1> QED BY <1>1, <1>2, FS_Subset, FS_CardinalityType

\* Below the target there is space for one request of every thread.
LEMMA BelowTarget ==
  ASSUME LargeInv', allocated' <= refresh'
  PROVE  RoomInv'
  <1>1. /\ Cardinality(Past') \in Nat /\ Cardinality(Threads) \in Nat
        /\ Cardinality(Past') <= Cardinality(Threads)
    <2>1. IsFiniteSet(Threads) BY LargeAssumption
    <2>2. Past' \subseteq Threads BY DEF Past
    <2> QED BY <2>1, <2>2, FS_Subset, FS_CardinalityType
  <1>2. Cardinality(Past') * Biggest <= Cardinality(Threads) * Biggest
        /\ Cardinality(Past') * Biggest \in Int /\ Cardinality(Threads) * Biggest \in Int
    BY <1>1, Products
  <1>3. allocated' \in Int /\ refresh' \in Int BY DEF LargeInv, TypeOK
  <1> QED BY <1>2, <1>3 DEF RoomInv

\* A request let past beyond the target says so.
LEMMA AllSkipped ==
  ASSUME skipped'
  PROVE  RoomInv'
  BY DEF RoomInv

\* Steps that let no thread past and add nothing keep the bound.
LEMMA NoMore ==
  ASSUME LargeInv, RoomInv, Past' \subseteq Past, refresh' = refresh, skipped => skipped',
         allocated' \in Int, allocated' <= allocated
  PROVE  RoomInv'
  <1>1. Cardinality(Past') \in Nat /\ Cardinality(Past') <= Cardinality(Past)
    BY PastFinite, FS_Subset, FS_CardinalityType
  <1>2. /\ Cardinality(Past') * Biggest <= Cardinality(Past) * Biggest
        /\ Cardinality(Past') * Biggest \in Int /\ Cardinality(Past) * Biggest \in Int
    BY <1>1, PastFinite, Products
  <1>3. Cardinality(Threads) * Biggest \in Int
    BY PastFinite, Products
  <1>4. allocated \in Int /\ refresh \in Int BY DEF LargeInv, TypeOK
  <1> QED BY <1>2, <1>3, <1>4 DEF RoomInv

\* A thread that adds what it asked for is no longer past the look.
LEMMA AddOne ==
  ASSUME LargeInv, RoomInv, NEW t \in Past, Past' \subseteq Past \ {t}, refresh' = refresh,
         skipped => skipped', allocated' \in Int, allocated' <= allocated + Biggest
  PROVE  RoomInv'
  <1>1. /\ IsFiniteSet(Past \ {t}) /\ Cardinality(Past \ {t}) = Cardinality(Past) - 1
        /\ Cardinality(Past \ {t}) \in Nat
    BY PastFinite, FS_RemoveElement, FS_CardinalityType
  <1>2. Cardinality(Past') \in Nat /\ Cardinality(Past') <= Cardinality(Past) - 1
    BY <1>1, FS_Subset, FS_CardinalityType
  <1> DEFINE n == Cardinality(Past) - 1
  <1>3. n \in Nat /\ n + 1 = Cardinality(Past)
    BY <1>1, PastFinite
  <1> HIDE DEF n
  <1>4. /\ Cardinality(Past') * Biggest <= n * Biggest
        /\ Cardinality(Past') * Biggest \in Int /\ n * Biggest \in Int
        /\ (n + 1) * Biggest = n * Biggest + Biggest
    BY <1>2, <1>3, Products DEF n
  <1>5. Cardinality(Threads) * Biggest \in Int
    BY PastFinite, Products
  <1>6. /\ allocated \in Int /\ refresh \in Int /\ Biggest \in Int
    BY BiggestFacts DEF LargeInv, TypeOK
  <1>7. CASE skipped'
    BY <1>7, AllSkipped
  <1>8. CASE ~skipped'
    <2>1. allocated + (n + 1) * Biggest <= refresh + Cardinality(Threads) * Biggest
      BY <1>3, <1>8 DEF RoomInv
    <2> QED BY <1>4, <1>5, <1>6, <2>1 DEF RoomInv
  <1> QED BY <1>7, <1>8

-----------------------------------------------------------------------------
(* Each step keeps the bound.                                              *)

\* A call of AllocLarge gets past the look below the target only.
LEMMA AllocLargeRoom ==
  ASSUME LargeInv, LargeInv', GrowthInv, NEW t \in Threads, AllocLarge(t)
  PROVE  GrowthInv'
  <1>1. PICK s \in Sizes :
          /\ pc' = [pc EXCEPT ![t] = IF s + allocated > refresh /\ sgInternalEnable
                                       THEN "collect" ELSE "look"]
          /\ want' = [want EXCEPT ![t] = s]
          /\ allocated' = allocated /\ refresh' = refresh
          /\ skipped' = (skipped \/ (s + allocated > refresh /\ ~sgInternalEnable))
    BY DEF AllocLarge, Goto, Pass, Beyond
  <1>2. WantInv'
    BY <1>1, BiggestFacts DEF GrowthInv, WantInv, LargeInv, TypeOK
  <1>3. s \in Nat /\ allocated \in Int /\ refresh \in Int
    BY BiggestFacts DEF LargeInv, TypeOK
  <1>4. CASE s + allocated > refresh /\ sgInternalEnable
    <2>1. pc'[t] = "collect" /\ \A u \in Threads \ {t} : pc'[u] = pc[u] /\ want'[u] = want[u]
      BY <1>1, <1>4 DEF LargeInv, TypeOK
    <2>2. Past' \subseteq Past
      BY <2>1 DEF Past, IsPast
    <2>3. skipped => skipped'
      BY <1>1
    <2>4. RoomInv'
      BY <1>1, <1>3, <2>2, <2>3, NoMore DEF GrowthInv
    <2> QED BY <1>2, <2>4 DEF GrowthInv
  <1>5. CASE ~(s + allocated > refresh)
    <2>1. allocated' <= refresh'
      BY <1>1, <1>3, <1>5
    <2>2. RoomInv'
      BY <2>1, BelowTarget
    <2> QED BY <1>2, <2>2 DEF GrowthInv
  <1>6. CASE s + allocated > refresh /\ ~sgInternalEnable
    BY <1>1, <1>2, <1>6, AllSkipped DEF GrowthInv
  <1> QED BY <1>4, <1>5, <1>6

\* On the way to its blob a thread adds nothing.
LEMMA SearchRoom ==
  ASSUME LargeInv, GrowthInv, NEW t \in Threads,
         \/ Look(t) \/ Compare(t) \/ LockList(t) \/ HxAlloc(t, "alloc") \/ AllocFailed(t)
         \/ HxAlloc(t, "retry") \/ MemoryExhausted(t)
  PROVE  GrowthInv'
  <1>1. /\ want' = want /\ allocated' = allocated /\ refresh' = refresh
        /\ skipped' = skipped
        /\ \A u \in Threads \ {t} : pc'[u] = pc[u]
        /\ pc[t] \in {"look", "compare", "lock", "alloc", "retry"}
    BY DEF Look, Compare, LockList, HxAlloc, AllocFailed, MemoryExhausted, Goto, Here,
       TakeRecycled, NextSlot, LargeInv, TypeOK
  <1>2. Past' \subseteq Past
    BY <1>1 DEF Past, IsPast
  <1>3. allocated \in Int
    BY DEF LargeInv, TypeOK
  <1>4. RoomInv'
    BY <1>1, <1>2, <1>3, NoMore DEF GrowthInv
  <1>5. WantInv'
    BY <1>1 DEF GrowthInv, WantInv
  <1> QED BY <1>4, <1>5 DEF GrowthInv

\* Push adds what the thread asked for, and is over.
LEMMA PushRoom ==
  ASSUME LargeInv, GrowthInv, NEW t \in Threads, Push(t)
  PROVE  GrowthInv'
  <1>1. /\ pc[t] = "push" /\ pc' = [pc EXCEPT ![t] = "idle"] /\ want' = [want EXCEPT ![t] = 0]
        /\ allocated' = allocated + want[t] /\ refresh' = refresh
        /\ skipped' = skipped
    BY DEF Push, Return, Goto, Here
  <1>2. /\ pc'[t] = "idle" /\ want'[t] = 0
        /\ \A u \in Threads \ {t} : pc'[u] = pc[u] /\ want'[u] = want[u]
    BY <1>1 DEF LargeInv, TypeOK
  <1>3. t \in Past /\ Past' \subseteq Past \ {t}
    BY <1>1, <1>2 DEF Past, IsPast
  <1>4. want[t] \in Int /\ want[t] <= Biggest /\ allocated \in Int
    BY DEF LargeInv, TypeOK, GrowthInv, WantInv
  <1>5. allocated' \in Int /\ allocated' <= allocated + Biggest
    BY <1>1, <1>4, BiggestFacts
  <1>6. RoomInv'
    BY <1>1, <1>3, <1>5, AddOne DEF GrowthInv
  <1>7. WantInv'
    BY <1>2, BiggestFacts DEF GrowthInv, WantInv
  <1> QED BY <1>6, <1>7 DEF GrowthInv

\* FreeLarge, and a thread that drops a blob, add nothing.
LEMMA FreeRoom ==
  ASSUME LargeInv, GrowthInv, NEW t \in Threads, Drop(t) \/ FreeLarge(t)
  PROVE  GrowthInv'
  <1>1. /\ want' = want /\ allocated' = allocated /\ refresh' = refresh
        /\ skipped' = skipped
        /\ \A u \in Threads : pc'[u] = pc[u] \/ pc'[u] \in {"idle", "free"}
    BY DEF Drop, FreeLarge, Goto, LargeInv, TypeOK
  <1>2. Past' \subseteq Past
    BY <1>1 DEF Past, IsPast
  <1>3. allocated \in Int
    BY DEF LargeInv, TypeOK
  <1>4. RoomInv'
    BY <1>1, <1>2, <1>3, NoMore DEF GrowthInv
  <1>5. WantInv'
    BY <1>1 DEF GrowthInv, WantInv
  <1> QED BY <1>4, <1>5 DEF GrowthInv

\* A blob that is freed takes bytes away.
LEMMA FreeLockedRoom ==
  ASSUME LargeInv, GrowthInv, NEW t \in Threads, FreeLocked(t)
  PROVE  GrowthInv'
  <1>1. /\ pc[t] = "free" /\ pc' = [pc EXCEPT ![t] = "idle"] /\ want' = [want EXCEPT ![t] = 0]
        /\ allocated' = allocated - header[blob[t]] /\ refresh' = refresh
        /\ skipped' = skipped
    BY DEF FreeLocked, Return, Goto, Here
  <1>2. /\ pc'[t] = "idle" /\ want'[t] = 0
        /\ \A u \in Threads \ {t} : pc'[u] = pc[u] /\ want'[u] = want[u]
    BY <1>1 DEF LargeInv, TypeOK
  <1>3. Past' \subseteq Past
    BY <1>2 DEF Past, IsPast
  <1>4. header[blob[t]] \in Nat
    <2>1. blob[t] \in Blobs BY <1>1 DEF LargeInv, HandInv, TypeOK
    <2> QED BY <2>1, HeaderIsNat
  <1>5. allocated' \in Int /\ allocated' <= allocated
    BY <1>1, <1>4 DEF LargeInv, TypeOK
  <1>6. RoomInv'
    BY <1>1, <1>3, <1>5, NoMore DEF GrowthInv
  <1>7. WantInv'
    BY <1>2, BiggestFacts DEF GrowthInv, WantInv
  <1> QED BY <1>6, <1>7 DEF GrowthInv

\* A report of more memory gets past the look below the target only; one of
\* less memory adds nothing.
LEMMA OnMemoryChangeRoom ==
  ASSUME LargeInv, LargeInv', GrowthInv, NEW t \in Threads, OnMemoryChange(t)
  PROVE  GrowthInv'
  <1>1. PICK d \in Deltas, sign \in {1, -1} :
          /\ pc' = [pc EXCEPT ![t] = IF sign = 1 /\ d + allocated > refresh /\ sgInternalEnable
                                       THEN "collectReport" ELSE "report"]
          /\ want' = [want EXCEPT ![t] = sign * d]
          /\ skipped' = (skipped \/ (sign = 1 /\ d + allocated > refresh /\ ~sgInternalEnable))
    <2>1. PICK d \in Deltas, sign \in {1, -1} :
            /\ Goto(t, "idle", IF sign = 1 /\ Beyond(d) /\ sgInternalEnable
                                 THEN "collectReport" ELSE "report")
            /\ want' = [want EXCEPT ![t] = sign * d]
            /\ IF sign = 1 THEN Pass(d) ELSE UNCHANGED enabling
      BY DEF OnMemoryChange
    <2>2. CASE sign = 1 BY <2>1, <2>2 DEF Goto, Pass, Beyond
    <2>3. CASE sign = -1
      <3>1. /\ pc' = [pc EXCEPT ![t] = "report"]
            /\ want' = [want EXCEPT ![t] = sign * d] /\ skipped' = skipped
        BY <2>1, <2>3 DEF Goto
      <3>2. ~(sign = 1) BY <2>3
      <3>3. skipped' = (skipped \/ (sign = 1 /\ d + allocated > refresh /\ ~sgInternalEnable))
        BY <3>1, <3>2, Zenon DEF LargeInv, TypeOK
      <3> QED BY <3>1, <3>2, <3>3, Zenon
    <2> QED BY <2>2, <2>3
  <1>2. allocated' = allocated /\ refresh' = refresh
    BY DEF OnMemoryChange
  <1>3. d \in Nat /\ d > 0 /\ d <= Biggest /\ allocated \in Int /\ refresh \in Int
    BY BiggestFacts DEF LargeInv, TypeOK
  <1>4. /\ want'[t] = sign * d
        /\ \A u \in Threads \ {t} : pc'[u] = pc[u] /\ want'[u] = want[u]
        /\ pc'[t] = IF sign = 1 /\ d + allocated > refresh /\ sgInternalEnable
                      THEN "collectReport" ELSE "report"
    BY <1>1 DEF LargeInv, TypeOK
  <1>5. sign * d <= Biggest /\ (sign = -1 => ~(sign * d > 0))
    BY <1>3, BiggestFacts
  <1>6. WantInv'
    BY <1>4, <1>5 DEF GrowthInv, WantInv
  <1>7. CASE sign = 1 /\ ~(d + allocated > refresh)
    <2>1. allocated' <= refresh'
      BY <1>3, <1>7, <1>2
    <2>2. RoomInv'
      BY <2>1, BelowTarget
    <2> QED BY <1>6, <2>2 DEF GrowthInv
  <1>8. CASE sign = -1 \/ (d + allocated > refresh /\ sgInternalEnable)
    <2>1. Past' \subseteq Past
      BY <1>4, <1>5, <1>8 DEF Past, IsPast
    <2>2. /\ allocated' \in Int /\ allocated' <= allocated /\ refresh' = refresh
      BY <1>3, <1>2
    <2>3. skipped => skipped'
      BY <1>1
    <2>4. RoomInv'
      BY <2>1, <2>2, <2>3, NoMore DEF GrowthInv
    <2> QED BY <1>6, <2>4 DEF GrowthInv
  <1>9. CASE sign = 1 /\ d + allocated > refresh /\ ~sgInternalEnable
    BY <1>1, <1>6, <1>9, AllSkipped DEF GrowthInv
  <1> QED BY <1>7, <1>8, <1>9

\* The report itself adds what the thread had yet to add.
LEMMA ReportRoom ==
  ASSUME LargeInv, GrowthInv, NEW t \in Threads, ReportLocked(t)
  PROVE  GrowthInv'
  <1>1. /\ pc[t] = "report" /\ pc' = [pc EXCEPT ![t] = "idle"] /\ want' = [want EXCEPT ![t] = 0]
        /\ allocated' = allocated + want[t] /\ refresh' = refresh
        /\ skipped' = skipped
    BY DEF ReportLocked, Return, Goto, Here
  <1>2. /\ pc'[t] = "idle" /\ want'[t] = 0
        /\ \A u \in Threads \ {t} : pc'[u] = pc[u] /\ want'[u] = want[u]
    BY <1>1 DEF LargeInv, TypeOK
  <1>3. Past' \subseteq Past \ {t}
    BY <1>2 DEF Past, IsPast
  <1>4. want[t] \in Int /\ want[t] <= Biggest /\ allocated \in Int
    BY DEF LargeInv, TypeOK, GrowthInv, WantInv
  <1>5. allocated' \in Int /\ allocated' <= allocated + Biggest
    BY <1>1, <1>4, BiggestFacts
  <1>6. RoomInv'
    <2>1. CASE want[t] > 0
      <3>1. t \in Past BY <1>1, <2>1 DEF Past, IsPast
      <3> QED BY <1>1, <1>3, <1>5, <3>1, AddOne DEF GrowthInv
    <2>2. CASE ~(want[t] > 0)
      <3>1. allocated' <= allocated BY <1>1, <1>4, <2>2
      <3>2. Past' \subseteq Past BY <1>3
      <3> QED BY <1>1, <1>5, <3>1, <3>2, NoMore DEF GrowthInv
    <2> QED BY <2>1, <2>2
  <1>7. WantInv'
    BY <1>2, BiggestFacts DEF GrowthInv, WantInv
  <1> QED BY <1>6, <1>7 DEF GrowthInv

\* The sweep adds nothing, ...
LEMMA SweepRoom ==
  ASSUME LargeInv, GrowthInv,
         StartSweep \/ (\E b \in Blobs : Keep(b) \/ SweepDead(b))
  PROVE  GrowthInv'
  <1>1. pc' = pc /\ want' = want /\ refresh' = refresh /\ skipped' = skipped
    BY DEF StartSweep, Keep, SweepDead
  <1>2. Past' = Past
    BY <1>1 DEF Past, IsPast
  <1>3. allocated' \in Int /\ allocated' <= allocated
    <2>1. allocated \in Int BY DEF LargeInv, TypeOK
    <2>2. CASE allocated' = allocated BY <2>1, <2>2
    <2>3. ASSUME NEW b \in Blobs, SweepDead(b) PROVE allocated' \in Int /\ allocated' <= allocated
      <3>1. allocated' = allocated - header[b] BY <2>3 DEF SweepDead
      <3> QED BY <2>1, <3>1, HeaderIsNat
    <2>4. StartSweep \/ (\E b \in Blobs : Keep(b)) => allocated' = allocated
      BY DEF StartSweep, Keep
    <2> QED BY <2>2, <2>3, <2>4
  <1>4. RoomInv'
    BY <1>1, <1>2, <1>3, NoMore DEF GrowthInv
  <1>5. WantInv'
    BY <1>1 DEF GrowthInv, WantInv
  <1> QED BY <1>4, <1>5 DEF GrowthInv

\* ... and at its end all that is there is below the new target.
LEMMA EndSweepRoom ==
  ASSUME LargeInv, LargeInv', GrowthInv, EndSweep
  PROVE  GrowthInv'
  <1>1. PICK space \in Spaces :
          /\ refresh' = allocated + space /\ allocated' = allocated /\ want' = want
    BY DEF EndSweep
  <1>2. space \in Nat /\ allocated \in Int
    BY LargeAssumption DEF LargeInv, TypeOK
  <1>3. allocated' <= refresh'
    BY <1>1, <1>2
  <1>4. RoomInv'
    BY <1>3, BelowTarget
  <1>5. WantInv'
    BY <1>1 DEF GrowthInv, WantInv
  <1> QED BY <1>4, <1>5 DEF GrowthInv

\* What it speaks of has not changed.
LEMMA SameGrowth ==
  ASSUME GrowthInv, pc' = pc, want' = want, allocated' = allocated, refresh' = refresh,
         skipped' = skipped
  PROVE  GrowthInv'
  <1>1. Past' = Past BY DEF Past, IsPast
  <1> QED BY <1>1 DEF GrowthInv, WantInv, RoomInv

\* Every step keeps the bound.
LEMMA GrowthNext == LargeInv /\ LargeInv' /\ GrowthInv /\ [Next]_vars => GrowthInv'
  <1> SUFFICES ASSUME LargeInv, LargeInv', GrowthInv, [Next]_vars PROVE GrowthInv'
    OBVIOUS
  <1>1. CASE UNCHANGED vars
    <2>1. /\ pc' = pc /\ want' = want /\ allocated' = allocated /\ refresh' = refresh
          /\ skipped' = skipped
      BY <1>1 DEF vars
    <2> QED BY <2>1, SameGrowth
  <1>2. ASSUME NEW t \in Threads, Alloc(t) PROVE GrowthInv'
    BY <1>1, <1>2, AllocLargeRoom, SearchRoom, PushRoom DEF Alloc, Trapped
  <1>3. ASSUME NEW t \in Threads, Free(t) PROVE GrowthInv'
    BY <1>3, FreeRoom, FreeLockedRoom, OnMemoryChangeRoom, ReportRoom DEF Free
  <1>4. ASSUME NEW t \in Threads, InternalEnableGC(t) PROVE GrowthInv'
    BY <1>4, SameGrowth DEF InternalEnableGC
  <1> QED BY <1>1, <1>2, <1>3, <1>4, SweepRoom, EndSweepRoom DEF Next

\* Large memory stays below the target and one request of every thread, unless
\* a request has gone beyond the target with the GC disabled since a collection
\* last set it (AllocLarge and onMemoryChange ask for a collection first).
THEOREM LargeGrowthBounded == Spec => []GrowthBounded
  <1>1. Init => GrowthInv
    <2> SUFFICES ASSUME Init PROVE GrowthInv
      OBVIOUS
    <2>1. WantInv BY BiggestFacts DEF Init, WantInv
    <2>2. Past = {} BY DEF Init, Past, IsPast
    <2>3. Cardinality(Past) = 0 BY <2>2, FS_EmptySet
    <2>4. Cardinality(Threads) * Biggest \in Nat BY PastFinite, BiggestFacts
    <2>5. allocated = 0 /\ refresh \in Nat BY LargeAssumption DEF Init
    <2>6. RoomInv BY <2>3, <2>4, <2>5, BiggestFacts DEF RoomInv
    <2> QED BY <2>1, <2>6 DEF GrowthInv
  <1>2. LargeInv /\ GrowthInv => GrowthBounded
    <2> SUFFICES ASSUME LargeInv, GrowthInv PROVE GrowthBounded
      OBVIOUS
    <2>1. Cardinality(Past) * Biggest \in Nat /\ Cardinality(Threads) * Biggest \in Nat
      BY PastFinite, BiggestFacts
    <2>2. allocated \in Int /\ refresh \in Int BY DEF LargeInv, TypeOK
    <2> QED BY <2>1, <2>2 DEF GrowthInv, RoomInv, GrowthBounded
  <1> QED BY <1>1, <1>2, GrowthNext, LargeInvariance, PTL DEF Spec

=============================================================================
