--------------------------- MODULE UpsfSlotsProofs ---------------------------
(***************************************************************************)
(* Proofs about UpsfSlots, for any sets of threads, pthread_ts, slots and  *)
(* addresses.  RegistryInv is inductive: one lemma per action shows that   *)
(* the action preserves it.  The safety invariants follow from it.         *)
(***************************************************************************)
EXTENDS UpsfSlots, FiniteSetTheorems, TLAPS

Answers == [code : {"none", "failed", "done"}, server : Addrs \cup {None}]

(* Every answer a call can give is of the type of ret.                     *)
LEMMA AnswerTypes ==
    /\ NoAnswer \in Answers
    /\ Failed \in Answers
    /\ \A a \in Addrs \cup {None} : Done(a) \in Answers
BY DEF Answers, Done, Failed, NoAnswer

(* A new thread takes a pthread_t no running thread has.                   *)
LEMMA StartStep ==
    ASSUME RegistryInv, NEW t \in Threads, ThreadStart(t)
    PROVE  RegistryInv'
<1> USE DEF ThreadStart, Goto, lockVars, RegistryInv,
        PCs, WriteHeld, ReadHeld, InUse, SlotHeld, WriteWaiting, ReadWaiting
<1>1. TypeOK'
  BY DEF TypeOK
<1>2. DistinctTids' /\ RunningTids'
  BY NoneAssumption DEF TypeOK, DistinctTids, RunningTids
<1>3. WriterInside' /\ ReadersInside' /\ Exclusion'
  BY NoneAssumption DEF TypeOK, WriterInside, ReadersInside, Exclusion
<1>4. SlotPointer'
  BY NoneAssumption DEF TypeOK, SlotPointer, RunningTids
<1>5. MappedAllocated' /\ SlotsUnshared' /\ OpenArgument'
  BY NoneAssumption DEF TypeOK, MappedAllocated, SlotsUnshared, OpenArgument
<1>6. MutexHolder'
  BY NoneAssumption DEF TypeOK, MutexHolder
<1>7. SlotsMapped'
  BY DEF SlotsMapped
<1> QED
  BY <1>1, <1>2, <1>3, <1>4, <1>5, <1>6, <1>7

(* A thread exits between calls, when it holds no lock and no slot.        *)
LEMMA ExitStep ==
    ASSUME RegistryInv, NEW t \in Threads, ThreadExit(t)
    PROVE  RegistryInv'
<1> USE DEF ThreadExit, Goto, Answer, lockVars, RegistryInv,
        PCs, WriteHeld, ReadHeld, InUse, SlotHeld, WriteWaiting, ReadWaiting
<1>1. TypeOK'
  BY AnswerTypes DEF TypeOK, Answers
<1>2. DistinctTids' /\ RunningTids'
  BY NoneAssumption DEF TypeOK, DistinctTids, RunningTids
<1>3. WriterInside' /\ ReadersInside' /\ Exclusion'
  BY NoneAssumption DEF TypeOK, WriterInside, ReadersInside, Exclusion
<1>4. SlotPointer'
  BY NoneAssumption DEF TypeOK, SlotPointer, RunningTids
<1>5. MappedAllocated' /\ SlotsUnshared' /\ OpenArgument'
  BY NoneAssumption DEF TypeOK, MappedAllocated, SlotsUnshared, OpenArgument
<1>6. MutexHolder'
  BY NoneAssumption DEF TypeOK, MutexHolder
<1>7. SlotsMapped'
  BY DEF SlotsMapped
<1> QED
  BY <1>1, <1>2, <1>3, <1>4, <1>5, <1>6, <1>7

(* Entering a call touches no lock and no slot.                            *)
LEMMA BeginStep ==
    ASSUME RegistryInv, NEW t \in Threads, Begin(t)
    PROVE  RegistryInv'
<1> USE DEF Begin, Goto, Answer, mapVars, lockVars, RegistryInv,
        PCs, WriteHeld, ReadHeld, InUse, SlotHeld, WriteWaiting, ReadWaiting
<1>1. TypeOK'
  <2>1. pc' \in [Threads -> PCs]
    BY DEF TypeOK
  <2>2. arg' \in [Threads -> Addrs \cup {None}]
    BY DEF TypeOK
  <2>3. ret' \in [Threads -> Answers]
    BY AnswerTypes DEF TypeOK, Answers
  <2> QED
    BY <2>1, <2>2, <2>3 DEF TypeOK, Answers
<1>2. DistinctTids' /\ RunningTids'
  BY NoneAssumption DEF TypeOK, DistinctTids, RunningTids
<1>3. WriterInside' /\ ReadersInside' /\ Exclusion'
  BY NoneAssumption DEF TypeOK, WriterInside, ReadersInside, Exclusion
<1>4. SlotPointer'
  BY NoneAssumption DEF TypeOK, SlotPointer, RunningTids
<1>5. MappedAllocated' /\ SlotsUnshared' /\ OpenArgument'
  BY NoneAssumption DEF TypeOK, MappedAllocated, SlotsUnshared, OpenArgument
<1>6. MutexHolder'
  BY NoneAssumption DEF TypeOK, MutexHolder
<1>7. SlotsMapped'
  BY DEF SlotsMapped
<1> QED
  BY <1>1, <1>2, <1>3, <1>4, <1>5, <1>6, <1>7

(* upsf_open takes the lock when there is no reader and no writer.         *)
LEMMA OpenLockStep ==
    ASSUME RegistryInv, NEW t \in Threads, OpenLock(t)
    PROVE  RegistryInv'
<1> USE DEF OpenLock, LockExclusive, Goto, mapVars, RegistryInv,
        PCs, WriteHeld, ReadHeld, InUse, SlotHeld, WriteWaiting, ReadWaiting
<1>1. TypeOK'
  BY DEF TypeOK
<1>2. DistinctTids' /\ RunningTids'
  BY NoneAssumption DEF TypeOK, DistinctTids, RunningTids
<1>3. WriterInside' /\ ReadersInside' /\ Exclusion'
  BY NoneAssumption DEF TypeOK, WriterInside, ReadersInside, Exclusion
<1>4. SlotPointer'
  BY NoneAssumption DEF TypeOK, SlotPointer, RunningTids
<1>5. MappedAllocated' /\ SlotsUnshared' /\ OpenArgument'
  BY NoneAssumption DEF TypeOK, MappedAllocated, SlotsUnshared, OpenArgument
<1>6. MutexHolder'
  BY NoneAssumption DEF TypeOK, MutexHolder
<1>7. SlotsMapped'
  BY DEF SlotsMapped
<1> QED
  BY <1>1, <1>2, <1>3, <1>4, <1>5, <1>6, <1>7

(* upsf_open fills its own entry with a slot nobody has.                   *)
LEMMA OpenInsertStep ==
    ASSUME RegistryInv, NEW t \in Threads, OpenInsert(t)
    PROVE  RegistryInv'
<1> USE DEF OpenInsert, HasSlot, Goto, Answer, lockVars, RegistryInv,
        PCs, WriteHeld, ReadHeld, InUse, SlotHeld, WriteWaiting, ReadWaiting
<1>1. TypeOK'
  <2>1. arg[t] \in Addrs \cup {None} /\ tid[t] \in Tids
    BY DEF TypeOK, RunningTids
  <2>2. pc' \in [Threads -> PCs] /\ session' \in [Threads -> Addrs \cup {None}]
    BY <2>1 DEF TypeOK
  <2>3. /\ upsf_slots' \in [Tids -> Slots \cup {None}]
        /\ upsf_addr' \in [Slots -> Addrs \cup {None}]
    BY <2>1 DEF TypeOK
  <2>4. ret' \in [Threads -> Answers]
    BY AnswerTypes DEF TypeOK, Answers
  <2> QED
    BY <2>2, <2>3, <2>4 DEF TypeOK, Answers
<1>2. DistinctTids' /\ RunningTids'
  BY NoneAssumption DEF TypeOK, DistinctTids, RunningTids
<1>3. WriterInside' /\ ReadersInside' /\ Exclusion'
  BY NoneAssumption DEF TypeOK, WriterInside, ReadersInside, Exclusion
<1>4. SlotPointer'
  BY NoneAssumption DEF TypeOK, SlotPointer, RunningTids
<1>5. MappedAllocated' /\ SlotsUnshared' /\ OpenArgument'
  BY NoneAssumption DEF TypeOK, MappedAllocated, SlotsUnshared, OpenArgument
<1>6. MutexHolder'
  BY NoneAssumption DEF TypeOK, MutexHolder
<1>7. SlotsMapped'
  <2>1. tid[t] \in Tids
    BY DEF TypeOK, RunningTids
  <2>2. CASE HasSlot(t)
    BY <2>2 DEF SlotsMapped
  <2>3. CASE ~HasSlot(t)
    <3>1. PICK s \in Slots : /\ upsf_slots' = [upsf_slots EXCEPT ![tid[t]] = s]
                             /\ upsf_addr' = [upsf_addr EXCEPT ![s] = arg[t]]
      BY <2>3
    <3>2. upsf_slots'[tid[t]] = s /\ \A i \in Tids \ {tid[t]} : upsf_slots'[i] = upsf_slots[i]
      BY <2>1, <3>1 DEF TypeOK
    <3>3. \A x \in Slots \ {s} : upsf_addr'[x] = upsf_addr[x]
      BY <3>1 DEF TypeOK
    <3>4. upsf_slots[tid[t]] \notin Slots
      BY <2>3, NoneAssumption
    <3> QED
      BY <2>1, <3>2, <3>3, <3>4 DEF SlotsMapped
  <2> QED
    BY <2>2, <2>3
<1> QED
  BY <1>1, <1>2, <1>3, <1>4, <1>5, <1>6, <1>7

(* upsf_close takes the lock when there is no reader and no writer.        *)
LEMMA CloseLockStep ==
    ASSUME RegistryInv, NEW t \in Threads, CloseLock(t)
    PROVE  RegistryInv'
<1> USE DEF CloseLock, LockExclusive, Goto, mapVars, RegistryInv,
        PCs, WriteHeld, ReadHeld, InUse, SlotHeld, WriteWaiting, ReadWaiting
<1>1. TypeOK'
  BY DEF TypeOK
<1>2. DistinctTids' /\ RunningTids'
  BY NoneAssumption DEF TypeOK, DistinctTids, RunningTids
<1>3. WriterInside' /\ ReadersInside' /\ Exclusion'
  BY NoneAssumption DEF TypeOK, WriterInside, ReadersInside, Exclusion
<1>4. SlotPointer'
  BY NoneAssumption DEF TypeOK, SlotPointer, RunningTids
<1>5. MappedAllocated' /\ SlotsUnshared' /\ OpenArgument'
  BY NoneAssumption DEF TypeOK, MappedAllocated, SlotsUnshared, OpenArgument
<1>6. MutexHolder'
  BY NoneAssumption DEF TypeOK, MutexHolder
<1>7. SlotsMapped'
  BY DEF SlotsMapped
<1> QED
  BY <1>1, <1>2, <1>3, <1>4, <1>5, <1>6, <1>7

(* upsf_close frees a slot: as the lock's writer it excludes every reader, *)
(* and only readers use slots.                                             *)
LEMMA CloseEraseStep ==
    ASSUME RegistryInv, NEW t \in Threads, CloseErase(t)
    PROVE  RegistryInv'
<1> USE DEF CloseErase, HasSlot, Goto, Answer, lockVars, RegistryInv,
        PCs, WriteHeld, ReadHeld, InUse, SlotHeld, WriteWaiting, ReadWaiting
<1>a. tid[t] \in Tids
  BY DEF TypeOK, RunningTids
<1>b. \A u \in Threads : pc[u] \notin InUse
  BY NoneAssumption DEF TypeOK, WriterInside, ReadersInside, Exclusion
<1>c. ASSUME HasSlot(t)
      PROVE  /\ upsf_slots' \in [Tids -> Slots \cup {None}]
             /\ upsf_addr' \in [Slots -> Addrs \cup {None}]
             /\ MappedAllocated'
             /\ SlotsUnshared'
  <2> DEFINE s == upsf_slots[tid[t]]
  <2>1. /\ s \in Slots
        /\ upsf_addr' = [upsf_addr EXCEPT ![s] = None]
        /\ upsf_slots' = [upsf_slots EXCEPT ![tid[t]] = None]
    BY <1>a, <1>c DEF TypeOK
  <2> HIDE DEF s
  <2>2. /\ upsf_addr' \in [Slots -> Addrs \cup {None}]
        /\ upsf_slots' \in [Tids -> Slots \cup {None}]
    BY <2>1 DEF TypeOK
  <2>3. \A i \in Tids : upsf_slots'[i] # None => upsf_slots'[i] # s
    BY <1>a, <1>c, <2>1 DEF TypeOK, SlotsUnshared, s
  <2>4. MappedAllocated' /\ SlotsUnshared'
    BY <1>a, <2>1, <2>2, <2>3 DEF TypeOK, MappedAllocated, SlotsUnshared
  <2> QED
    BY <2>2, <2>4
<1>d. ASSUME ~HasSlot(t)
      PROVE  /\ upsf_slots' \in [Tids -> Slots \cup {None}]
             /\ upsf_addr' \in [Slots -> Addrs \cup {None}]
             /\ MappedAllocated'
             /\ SlotsUnshared'
  <2>1. UNCHANGED <<upsf_slots, upsf_addr>>
    BY <1>d
  <2> QED
    BY <2>1 DEF TypeOK, MappedAllocated, SlotsUnshared
<1>e. /\ upsf_slots' \in [Tids -> Slots \cup {None}]
      /\ upsf_addr' \in [Slots -> Addrs \cup {None}]
      /\ MappedAllocated'
      /\ SlotsUnshared'
  BY <1>c, <1>d
<1>1. TypeOK'
  <2>1. ret' \in [Threads -> Answers]
    <3>1. ret \in [Threads -> Answers]
      BY DEF TypeOK, Answers
    <3>2. \E a \in {Done(None), Failed} : ret' = [ret EXCEPT ![t] = a]
      OBVIOUS
    <3>3. Done(None) \in Answers /\ Failed \in Answers
      BY AnswerTypes
    <3> HIDE DEF RegistryInv, CloseErase
    <3> QED
      BY <3>1, <3>2, <3>3
  <2>2. pc' \in [Threads -> PCs] /\ session' \in [Threads -> Addrs \cup {None}]
    BY DEF TypeOK
  <2> QED
    BY <1>e, <2>1, <2>2 DEF TypeOK, Answers
<1>2. DistinctTids' /\ RunningTids'
  BY NoneAssumption DEF TypeOK, DistinctTids, RunningTids
<1>3. WriterInside' /\ ReadersInside' /\ Exclusion'
  BY NoneAssumption DEF TypeOK, WriterInside, ReadersInside, Exclusion
<1>4. SlotPointer'
  BY <1>b DEF TypeOK, SlotPointer
<1>5. MappedAllocated' /\ SlotsUnshared' /\ OpenArgument'
  BY <1>e DEF TypeOK, OpenArgument
<1>6. MutexHolder'
  BY NoneAssumption DEF TypeOK, MutexHolder
<1>7. SlotsMapped'
  <2>1. CASE ~HasSlot(t)
    BY <2>1 DEF SlotsMapped
  <2>2. CASE HasSlot(t)
    <3>1. /\ upsf_addr' = [upsf_addr EXCEPT ![upsf_slots[tid[t]]] = None]
          /\ upsf_slots' = [upsf_slots EXCEPT ![tid[t]] = None]
      BY <2>2
    <3>2. \A i \in Tids \ {tid[t]} : upsf_slots'[i] = upsf_slots[i]
      BY <3>1 DEF TypeOK
    <3>3. \A s \in Slots : /\ s = upsf_slots[tid[t]] => upsf_addr'[s] = None
                           /\ s # upsf_slots[tid[t]] => upsf_addr'[s] = upsf_addr[s]
      BY <3>1 DEF TypeOK
    <3> QED
      BY <3>2, <3>3 DEF SlotsMapped
  <2> QED
    BY <2>1, <2>2
<1> QED
  BY <1>1, <1>2, <1>3, <1>4, <1>5, <1>6, <1>7

(* upsf_exists joins the readers when there is no writer.                  *)
LEMMA ExistsLockStep ==
    ASSUME RegistryInv, NEW t \in Threads, ExistsLock(t)
    PROVE  RegistryInv'
<1> USE DEF ExistsLock, LockShared, Goto, mapVars, RegistryInv,
        PCs, WriteHeld, ReadHeld, InUse, SlotHeld, WriteWaiting, ReadWaiting
<1>1. TypeOK'
  BY DEF TypeOK
<1>2. DistinctTids' /\ RunningTids'
  BY NoneAssumption DEF TypeOK, DistinctTids, RunningTids
<1>3. WriterInside' /\ ReadersInside' /\ Exclusion'
  BY NoneAssumption DEF TypeOK, WriterInside, ReadersInside, Exclusion
<1>4. SlotPointer'
  BY NoneAssumption DEF TypeOK, SlotPointer, RunningTids
<1>5. MappedAllocated' /\ SlotsUnshared' /\ OpenArgument'
  BY NoneAssumption DEF TypeOK, MappedAllocated, SlotsUnshared, OpenArgument
<1>6. MutexHolder'
  BY NoneAssumption DEF TypeOK, MutexHolder
<1>7. SlotsMapped'
  BY DEF SlotsMapped
<1> QED
  BY <1>1, <1>2, <1>3, <1>4, <1>5, <1>6, <1>7

(* upsf_exists only looks.                                                 *)
LEMMA ExistsFindStep ==
    ASSUME RegistryInv, NEW t \in Threads, ExistsFind(t)
    PROVE  RegistryInv'
<1> USE DEF ExistsFind, HasSlot, Goto, Answer, mapVars, lockVars, RegistryInv,
        PCs, WriteHeld, ReadHeld, InUse, SlotHeld, WriteWaiting, ReadWaiting
<1>1. TypeOK'
  BY AnswerTypes DEF TypeOK, Answers
<1>2. DistinctTids' /\ RunningTids'
  BY NoneAssumption DEF TypeOK, DistinctTids, RunningTids
<1>3. WriterInside' /\ ReadersInside' /\ Exclusion'
  BY NoneAssumption DEF TypeOK, WriterInside, ReadersInside, Exclusion
<1>4. SlotPointer'
  BY NoneAssumption DEF TypeOK, SlotPointer, RunningTids
<1>5. MappedAllocated' /\ SlotsUnshared' /\ OpenArgument'
  BY NoneAssumption DEF TypeOK, MappedAllocated, SlotsUnshared, OpenArgument
<1>6. MutexHolder'
  BY NoneAssumption DEF TypeOK, MutexHolder
<1>7. SlotsMapped'
  BY DEF SlotsMapped
<1> QED
  BY <1>1, <1>2, <1>3, <1>4, <1>5, <1>6, <1>7

(* A null buffer is refused before any lock is taken.                      *)
LEMMA CallNullStep ==
    ASSUME RegistryInv, NEW t \in Threads, CallNull(t)
    PROVE  RegistryInv'
<1> USE DEF CallNull, Goto, Answer, mapVars, lockVars, RegistryInv,
        PCs, WriteHeld, ReadHeld, InUse, SlotHeld, WriteWaiting, ReadWaiting
<1>1. TypeOK'
  BY AnswerTypes DEF TypeOK, Answers
<1>2. DistinctTids' /\ RunningTids'
  BY NoneAssumption DEF TypeOK, DistinctTids, RunningTids
<1>3. WriterInside' /\ ReadersInside' /\ Exclusion'
  BY NoneAssumption DEF TypeOK, WriterInside, ReadersInside, Exclusion
<1>4. SlotPointer'
  BY NoneAssumption DEF TypeOK, SlotPointer, RunningTids
<1>5. MappedAllocated' /\ SlotsUnshared' /\ OpenArgument'
  BY NoneAssumption DEF TypeOK, MappedAllocated, SlotsUnshared, OpenArgument
<1>6. MutexHolder'
  BY NoneAssumption DEF TypeOK, MutexHolder
<1>7. SlotsMapped'
  BY DEF SlotsMapped
<1> QED
  BY <1>1, <1>2, <1>3, <1>4, <1>5, <1>6, <1>7

(* The refused call returns.                                               *)
LEMMA CallReturnStep ==
    ASSUME RegistryInv, NEW t \in Threads, CallReturn(t)
    PROVE  RegistryInv'
<1> USE DEF CallReturn, Goto, mapVars, lockVars, RegistryInv,
        PCs, WriteHeld, ReadHeld, InUse, SlotHeld, WriteWaiting, ReadWaiting
<1>1. TypeOK'
  BY DEF TypeOK
<1>2. DistinctTids' /\ RunningTids'
  BY NoneAssumption DEF TypeOK, DistinctTids, RunningTids
<1>3. WriterInside' /\ ReadersInside' /\ Exclusion'
  BY NoneAssumption DEF TypeOK, WriterInside, ReadersInside, Exclusion
<1>4. SlotPointer'
  BY NoneAssumption DEF TypeOK, SlotPointer, RunningTids
<1>5. MappedAllocated' /\ SlotsUnshared' /\ OpenArgument'
  BY NoneAssumption DEF TypeOK, MappedAllocated, SlotsUnshared, OpenArgument
<1>6. MutexHolder'
  BY NoneAssumption DEF TypeOK, MutexHolder
<1>7. SlotsMapped'
  BY DEF SlotsMapped
<1> QED
  BY <1>1, <1>2, <1>3, <1>4, <1>5, <1>6, <1>7

(* An item call joins the readers when there is no writer.                 *)
LEMMA CallLockStep ==
    ASSUME RegistryInv, NEW t \in Threads, CallLock(t)
    PROVE  RegistryInv'
<1> USE DEF CallLock, LockShared, Goto, mapVars, RegistryInv,
        PCs, WriteHeld, ReadHeld, InUse, SlotHeld, WriteWaiting, ReadWaiting
<1>1. TypeOK'
  BY DEF TypeOK
<1>2. DistinctTids' /\ RunningTids'
  BY NoneAssumption DEF TypeOK, DistinctTids, RunningTids
<1>3. WriterInside' /\ ReadersInside' /\ Exclusion'
  BY NoneAssumption DEF TypeOK, WriterInside, ReadersInside, Exclusion
<1>4. SlotPointer'
  BY NoneAssumption DEF TypeOK, SlotPointer, RunningTids
<1>5. MappedAllocated' /\ SlotsUnshared' /\ OpenArgument'
  BY NoneAssumption DEF TypeOK, MappedAllocated, SlotsUnshared, OpenArgument
<1>6. MutexHolder'
  BY NoneAssumption DEF TypeOK, MutexHolder
<1>7. SlotsMapped'
  BY DEF SlotsMapped
<1> QED
  BY <1>1, <1>2, <1>3, <1>4, <1>5, <1>6, <1>7

(* An item call takes the pointer the map has for its thread.              *)
LEMMA CallFindStep ==
    ASSUME RegistryInv, NEW t \in Threads, CallFind(t)
    PROVE  RegistryInv'
<1> USE DEF CallFind, HasSlot, Goto, Answer, mapVars, lockVars, RegistryInv,
        PCs, WriteHeld, ReadHeld, InUse, SlotHeld, WriteWaiting, ReadWaiting
<1>1. TypeOK'
  <2>1. tid[t] \in Tids
    BY DEF TypeOK, RunningTids
  <2>2. slot' \in [Threads -> Slots \cup {None}]
    BY <2>1 DEF TypeOK
  <2>3. ret' \in [Threads -> Answers]
    BY AnswerTypes DEF TypeOK, Answers
  <2>4. pc' \in [Threads -> PCs]
    BY DEF TypeOK
  <2> QED
    BY <2>2, <2>3, <2>4 DEF TypeOK, Answers
<1>2. DistinctTids' /\ RunningTids'
  BY NoneAssumption DEF TypeOK, DistinctTids, RunningTids
<1>3. WriterInside' /\ ReadersInside' /\ Exclusion'
  BY NoneAssumption DEF TypeOK, WriterInside, ReadersInside, Exclusion
<1>4. SlotPointer'
  BY NoneAssumption DEF TypeOK, SlotPointer, RunningTids
<1>5. MappedAllocated' /\ SlotsUnshared' /\ OpenArgument'
  BY NoneAssumption DEF TypeOK, MappedAllocated, SlotsUnshared, OpenArgument
<1>6. MutexHolder'
  BY NoneAssumption DEF TypeOK, MutexHolder
<1>7. SlotsMapped'
  BY DEF SlotsMapped
<1> QED
  BY <1>1, <1>2, <1>3, <1>4, <1>5, <1>6, <1>7

(* An item call locks its slot.                                            *)
LEMMA CallLockSlotStep ==
    ASSUME RegistryInv, NEW t \in Threads, CallLockSlot(t)
    PROVE  RegistryInv'
<1> USE DEF CallLockSlot, Goto, mapVars, RegistryInv,
        PCs, WriteHeld, ReadHeld, InUse, SlotHeld, WriteWaiting, ReadWaiting
<1>1. TypeOK'
  BY DEF TypeOK
<1>2. DistinctTids' /\ RunningTids'
  BY NoneAssumption DEF TypeOK, DistinctTids, RunningTids
<1>3. WriterInside' /\ ReadersInside' /\ Exclusion'
  BY NoneAssumption DEF TypeOK, WriterInside, ReadersInside, Exclusion
<1>4. SlotPointer'
  BY NoneAssumption DEF TypeOK, SlotPointer, RunningTids
<1>5. MappedAllocated' /\ SlotsUnshared' /\ OpenArgument'
  BY NoneAssumption DEF TypeOK, MappedAllocated, SlotsUnshared, OpenArgument
<1>6. MutexHolder'
  BY NoneAssumption DEF TypeOK, MutexHolder
<1>7. SlotsMapped'
  BY DEF SlotsMapped
<1> QED
  BY <1>1, <1>2, <1>3, <1>4, <1>5, <1>6, <1>7

(* The RPC ends; the answer names the server of the slot's channel.        *)
LEMMA CallRpcStep ==
    ASSUME RegistryInv, NEW t \in Threads, CallRpc(t)
    PROVE  RegistryInv'
<1> USE DEF CallRpc, Goto, Answer, mapVars, lockVars, RegistryInv,
        PCs, WriteHeld, ReadHeld, InUse, SlotHeld, WriteWaiting, ReadWaiting
<1>1. TypeOK'
  <2>1. upsf_addr[slot[t]] \in Addrs \cup {None}
    BY DEF TypeOK, SlotPointer
  <2>2. ret' \in [Threads -> Answers]
    BY <2>1, AnswerTypes DEF TypeOK, Answers
  <2>3. pc' \in [Threads -> PCs]
    BY DEF TypeOK
  <2> QED
    BY <2>2, <2>3 DEF TypeOK, Answers
<1>2. DistinctTids' /\ RunningTids'
  BY NoneAssumption DEF TypeOK, DistinctTids, RunningTids
<1>3. WriterInside' /\ ReadersInside' /\ Exclusion'
  BY NoneAssumption DEF TypeOK, WriterInside, ReadersInside, Exclusion
<1>4. SlotPointer'
  BY NoneAssumption DEF TypeOK, SlotPointer, RunningTids
<1>5. MappedAllocated' /\ SlotsUnshared' /\ OpenArgument'
  BY NoneAssumption DEF TypeOK, MappedAllocated, SlotsUnshared, OpenArgument
<1>6. MutexHolder'
  BY NoneAssumption DEF TypeOK, MutexHolder
<1>7. SlotsMapped'
  BY DEF SlotsMapped
<1> QED
  BY <1>1, <1>2, <1>3, <1>4, <1>5, <1>6, <1>7

(* The call gives its slot back.                                           *)
LEMMA CallUnlockSlotStep ==
    ASSUME RegistryInv, NEW t \in Threads, CallUnlockSlot(t)
    PROVE  RegistryInv'
<1> USE DEF CallUnlockSlot, Goto, mapVars, RegistryInv,
        PCs, WriteHeld, ReadHeld, InUse, SlotHeld, WriteWaiting, ReadWaiting
<1>1. TypeOK'
  BY DEF TypeOK
<1>2. DistinctTids' /\ RunningTids'
  BY NoneAssumption DEF TypeOK, DistinctTids, RunningTids
<1>3. WriterInside' /\ ReadersInside' /\ Exclusion'
  BY NoneAssumption DEF TypeOK, WriterInside, ReadersInside, Exclusion
<1>4. SlotPointer'
  BY NoneAssumption DEF TypeOK, SlotPointer, RunningTids
<1>5. MappedAllocated' /\ SlotsUnshared' /\ OpenArgument'
  BY NoneAssumption DEF TypeOK, MappedAllocated, SlotsUnshared, OpenArgument
<1>6. MutexHolder'
  BY NoneAssumption DEF TypeOK, MutexHolder
<1>7. SlotsMapped'
  BY DEF SlotsMapped
<1> QED
  BY <1>1, <1>2, <1>3, <1>4, <1>5, <1>6, <1>7

(* The writer leaves.                                                      *)
LEMMA UnlockExclusiveStep ==
    ASSUME RegistryInv, NEW t \in Threads, UnlockExclusive(t)
    PROVE  RegistryInv'
<1> USE DEF UnlockExclusive, Goto, mapVars, RegistryInv,
        PCs, WriteHeld, ReadHeld, InUse, SlotHeld, WriteWaiting, ReadWaiting
<1>1. TypeOK'
  BY DEF TypeOK
<1>2. DistinctTids' /\ RunningTids'
  BY NoneAssumption DEF TypeOK, DistinctTids, RunningTids
<1>3. WriterInside' /\ ReadersInside' /\ Exclusion'
  BY NoneAssumption DEF TypeOK, WriterInside, ReadersInside, Exclusion
<1>4. SlotPointer'
  BY NoneAssumption DEF TypeOK, SlotPointer, RunningTids
<1>5. MappedAllocated' /\ SlotsUnshared' /\ OpenArgument'
  BY NoneAssumption DEF TypeOK, MappedAllocated, SlotsUnshared, OpenArgument
<1>6. MutexHolder'
  BY NoneAssumption DEF TypeOK, MutexHolder
<1>7. SlotsMapped'
  BY DEF SlotsMapped
<1> QED
  BY <1>1, <1>2, <1>3, <1>4, <1>5, <1>6, <1>7

(* A reader leaves.                                                        *)
LEMMA UnlockSharedStep ==
    ASSUME RegistryInv, NEW t \in Threads, UnlockShared(t)
    PROVE  RegistryInv'
<1> USE DEF UnlockShared, Goto, mapVars, RegistryInv,
        PCs, WriteHeld, ReadHeld, InUse, SlotHeld, WriteWaiting, ReadWaiting
<1>1. TypeOK'
  BY DEF TypeOK
<1>2. DistinctTids' /\ RunningTids'
  BY NoneAssumption DEF TypeOK, DistinctTids, RunningTids
<1>3. WriterInside' /\ ReadersInside' /\ Exclusion'
  BY NoneAssumption DEF TypeOK, WriterInside, ReadersInside, Exclusion
<1>4. SlotPointer'
  BY NoneAssumption DEF TypeOK, SlotPointer, RunningTids
<1>5. MappedAllocated' /\ SlotsUnshared' /\ OpenArgument'
  BY NoneAssumption DEF TypeOK, MappedAllocated, SlotsUnshared, OpenArgument
<1>6. MutexHolder'
  BY NoneAssumption DEF TypeOK, MutexHolder
<1>7. SlotsMapped'
  BY DEF SlotsMapped
<1> QED
  BY <1>1, <1>2, <1>3, <1>4, <1>5, <1>6, <1>7

(* The registry starts with no thread, no slot and no lock held.           *)
LEMMA RegistryInit == Init => RegistryInv
<1> SUFFICES ASSUME Init PROVE RegistryInv
  OBVIOUS
<1> USE NoneAssumption DEF Init, PCs, WriteHeld, ReadHeld, InUse, SlotHeld, WriteWaiting,
        ReadWaiting
<1>1. TypeOK
  BY AnswerTypes DEF TypeOK, Answers
<1>2. DistinctTids /\ RunningTids /\ WriterInside /\ ReadersInside /\ Exclusion
  BY DEF DistinctTids, RunningTids, WriterInside, ReadersInside, Exclusion
<1>3. SlotPointer /\ MappedAllocated /\ SlotsUnshared /\ MutexHolder /\ OpenArgument
  BY DEF SlotPointer, MappedAllocated, SlotsUnshared, MutexHolder, OpenArgument
<1>4. SlotsMapped
  BY DEF SlotsMapped
<1> QED
  BY <1>1, <1>2, <1>3, <1>4 DEF RegistryInv

(* A step in which nothing changes keeps the invariant.                    *)
LEMMA RegistryStutter == RegistryInv /\ UNCHANGED vars => RegistryInv'
BY DEF vars, lockVars, mapVars, RegistryInv, TypeOK, DistinctTids, RunningTids, WriterInside,
       ReadersInside, Exclusion, SlotPointer, MappedAllocated, SlotsMapped, SlotsUnshared, MutexHolder,
       OpenArgument

(* Every step of every thread keeps the invariant.                         *)
LEMMA RegistryStep == RegistryInv /\ [Next]_vars => RegistryInv'
<1> SUFFICES ASSUME RegistryInv, [Next]_vars PROVE RegistryInv'
  OBVIOUS
<1>1. CASE UNCHANGED vars
  BY <1>1, RegistryStutter
<1>2. ASSUME NEW t \in Threads, Thread(t) PROVE RegistryInv'
  BY <1>2, StartStep, ExitStep, BeginStep DEF Thread
<1>3. ASSUME NEW t \in Threads, Open(t) \/ Close(t) \/ Exists(t) PROVE RegistryInv'
  BY <1>3, OpenLockStep, OpenInsertStep, CloseLockStep, CloseEraseStep, ExistsLockStep,
     ExistsFindStep DEF Open, Close, Exists
<1>4. ASSUME NEW t \in Threads, Call(t) PROVE RegistryInv'
  BY <1>4, CallNullStep, CallReturnStep, CallLockStep, CallFindStep, CallLockSlotStep,
     CallRpcStep, CallUnlockSlotStep DEF Call
<1>5. ASSUME NEW t \in Threads, Unlock(t) PROVE RegistryInv'
  BY <1>5, UnlockExclusiveStep, UnlockSharedStep DEF Unlock
<1> QED
  BY <1>1, <1>2, <1>3, <1>4, <1>5 DEF Next

(* RegistryInv holds in every state of every behaviour.                    *)
THEOREM RegistryInvariant == Spec => []RegistryInv
<1>1. Init => RegistryInv
  BY RegistryInit
<1>2. RegistryInv /\ [Next]_vars => RegistryInv'
  BY RegistryStep
<1> QED
  BY <1>1, <1>2, PTL DEF Spec

(* All variables keep the types of their declarations.                     *)
THEOREM TypeCorrect == Spec => []TypeOK
<1>1. RegistryInv => TypeOK
  BY DEF RegistryInv
<1> QED
  BY <1>1, RegistryInvariant, PTL

(* The raw slot pointer an item call keeps through its RPC always points   *)
(* to an allocated slot, the one the map holds for the calling thread.     *)
THEOREM SlotSafety == Spec => []SlotStaysWhileUsed
<1>1. RegistryInv => SlotStaysWhileUsed
  <2> SUFFICES ASSUME RegistryInv, NEW t \in Threads, pc[t] \in InUse
               PROVE  /\ slot[t] # None
                      /\ upsf_addr[slot[t]] # None
                      /\ upsf_slots[tid[t]] = slot[t]
    BY DEF SlotStaysWhileUsed
  <2>1. slot[t] # None /\ slot[t] = upsf_slots[tid[t]]
    BY DEF RegistryInv, SlotPointer
  <2>2. tid[t] \in Tids
    BY DEF RegistryInv, TypeOK, RunningTids, InUse
  <2> QED
    BY <2>1, <2>2 DEF RegistryInv, MappedAllocated
<1> QED
  BY <1>1, RegistryInvariant, PTL

(* No call returns to the application with a lock still held.              *)
THEOREM LocksAreReleased == Spec => []LocksReleased
<1>1. RegistryInv => LocksReleased
  BY DEF RegistryInv, LocksReleased, WriterInside, ReadersInside, MutexHolder, WriteHeld,
         ReadHeld, SlotHeld
<1> QED
  BY <1>1, RegistryInvariant, PTL

(* No call waits for a slot's mutex: its holder would be a thread with the *)
(* same slot, so with the same pthread_t, so the same thread.              *)
LEMMA Uncontended == RegistryInv => SlotMutexUncontended
<1> SUFFICES ASSUME RegistryInv, NEW t \in Threads, pc[t] = "slot",
                    upsf_slot_mutex[slot[t]] # None
             PROVE  FALSE
  BY DEF SlotMutexUncontended
<1>1. slot[t] \in Slots /\ slot[t] = upsf_slots[tid[t]] /\ tid[t] \in Tids
  BY DEF RegistryInv, TypeOK, SlotPointer, RunningTids, InUse
<1>2. PICK u \in Threads : upsf_slot_mutex[slot[t]] = u
  BY <1>1 DEF RegistryInv, TypeOK
<1>3. pc[u] \in SlotHeld /\ slot[u] = slot[t]
  BY <1>1, <1>2 DEF RegistryInv, MutexHolder
<1>4. slot[u] # None /\ slot[u] = upsf_slots[tid[u]] /\ tid[u] \in Tids
  BY <1>3 DEF RegistryInv, TypeOK, SlotPointer, RunningTids, InUse, SlotHeld
<1>5. tid[u] = tid[t]
  BY <1>1, <1>3, <1>4 DEF RegistryInv, SlotsUnshared
<1>6. u = t
  BY <1>1, <1>5, NoneAssumption DEF RegistryInv, DistinctTids
<1> QED
  BY <1>3, <1>6 DEF SlotHeld

(* In no state does a call wait for a slot's mutex.                        *)
THEOREM SlotMutexNeverWaits == Spec => []SlotMutexUncontended
BY Uncontended, RegistryInvariant, PTL

(* Every slot that is allocated is in the map, so upsf_close frees it.     *)
THEOREM NoSlotLeaks == Spec => []SlotsMapped
<1>1. RegistryInv => SlotsMapped
  BY DEF RegistryInv
<1> QED
  BY <1>1, RegistryInvariant, PTL

(* The registry grows with the values of pthread_t and not with the        *)
(* threads: however many threads have come and gone without upsf_close,    *)
(* there are never more slots than values their pthread_ts can have.       *)
THEOREM SlotsBounded ==
    ASSUME IsFiniteSet(Tids)
    PROVE  Spec => [](/\ IsFiniteSet(AllocatedSlots)
                      /\ Cardinality(AllocatedSlots) <= Cardinality(Tids))
<1>1. ASSUME RegistryInv
      PROVE  /\ IsFiniteSet(AllocatedSlots)
             /\ Cardinality(AllocatedSlots) <= Cardinality(Tids)
  <2> DEFINE f == [s \in AllocatedSlots |-> CHOOSE i \in Tids : upsf_slots[i] = s]
  <2>1. \A s \in AllocatedSlots : f[s] \in Tids /\ upsf_slots[f[s]] = s
    BY <1>1 DEF RegistryInv, SlotsMapped, AllocatedSlots
  <2>2. f \in Injection(AllocatedSlots, Tids)
    <3> DEFINE A == AllocatedSlots
    <3>1. f \in [A -> Tids]
      BY <2>1
    <3>2. \A r, s \in A : f[r] = f[s] => r = s
      BY <2>1
    <3> QED
      BY <3>1, <3>2 DEF Injection, IsInjective
  <2> HIDE DEF f
  <2> QED
    BY <2>2, FS_Injection
<1> QED
  BY <1>1, RegistryInvariant, PTL

(* No thread waits for a slot's mutex, and a thread that another one waits *)
(* for waits for nobody: there is never a chain of waiting threads, still  *)
(* less a ring.                                                            *)
THEOREM NoDeadlock == Spec => []NoWaitingInLine
<1>1. RegistryInv => NoWaitingInLine
  <2>1. SUFFICES ASSUME RegistryInv, NEW t \in Threads, NEW u \in Threads, WaitsFor(t, u)
                 PROVE  pc[t] # "slot" /\ \A v \in Threads : ~WaitsFor(u, v)
    BY DEF NoWaitingInLine
  <2>2. ASSUME NEW r \in Threads, NEW v \in Threads, pc[r] = "slot"
        PROVE  upsf_slot_mutex[slot[r]] # v
    BY <2>1, <2>2, Uncontended, NoneAssumption DEF SlotMutexUncontended
  <2>3. pc[t] # "slot"
    BY <2>1, <2>2 DEF WaitsFor, WriteWaiting, ReadWaiting
  <2>4. pc[u] \in WriteHeld \cup ReadHeld
    BY <2>1, <2>3, NoneAssumption DEF RegistryInv, TypeOK, WaitsFor, WriterInside, ReadersInside
  <2>5. ASSUME NEW v \in Threads, WaitsFor(u, v)
        PROVE  FALSE
    <3>1. pc[u] = "slot" /\ v = upsf_slot_mutex[slot[u]]
      BY <2>4, <2>5 DEF WaitsFor, WriteHeld, ReadHeld, WriteWaiting, ReadWaiting
    <3> QED
      BY <2>2, <3>1
  <2> QED
    BY <2>3, <2>5
<1> QED
  BY <1>1, RegistryInvariant, PTL
=============================================================================
