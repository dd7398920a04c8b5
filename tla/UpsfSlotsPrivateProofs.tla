----------------------- MODULE UpsfSlotsPrivateProofs -----------------------
(***************************************************************************)
(* If every thread closes before it exits, the connections of UpsfSlots    *)
(* are private: OwnConnection and NoOrphanSlot together are inductive      *)
(* relative to RegistryInv.  Only four actions can disturb them: a thread  *)
(* starts or exits, upsf_open inserts, upsf_close erases.                  *)
(***************************************************************************)
EXTENDS UpsfSlotsProofs

PrivateInv == OwnConnection /\ NoOrphanSlot

(* A running thread has a pthread_t, and no other thread has the same.     *)
LEMMA RunningTid ==
    ASSUME RegistryInv, NEW t \in Threads, pc[t] # "exited"
    PROVE  /\ tid[t] \in Tids
           /\ \A u \in Threads : tid[u] = tid[t] => u = t
BY NoneAssumption DEF RegistryInv, TypeOK, RunningTids, DistinctTids

(* What the connection of a running thread is.                             *)
LEMMA RunningConnection ==
    ASSUME RegistryInv, NEW t \in Threads, tid[t] # None
    PROVE  /\ HasSlot(t) => Connection(t) = upsf_addr[upsf_slots[tid[t]]]
           /\ HasSlot(t) => Connection(t) # None
           /\ ~HasSlot(t) => Connection(t) = None
<1>1. tid[t] \in Tids
  BY DEF RegistryInv, TypeOK
<1> QED
  BY <1>1 DEF RegistryInv, MappedAllocated, Connection, HasSlot

(* The pthread_t of a new thread has no entry in the map: it would be that *)
(* of a thread still running.                                              *)
LEMMA StartPrivate ==
    ASSUME RegistryInv, PrivateInv, NEW t \in Threads, ThreadStart(t)
    PROVE  PrivateInv'
<1>1. PICK i \in Tids : /\ \A u \in Threads : tid[u] # i
                        /\ tid' = [tid EXCEPT ![t] = i]
  BY DEF ThreadStart
<1>2. UNCHANGED <<upsf_slots, upsf_addr, session>>
  BY DEF ThreadStart
<1>3. tid[t] = None
  BY DEF ThreadStart, RegistryInv, RunningTids
<1>4. upsf_slots[i] = None
  BY <1>1 DEF PrivateInv, NoOrphanSlot
<1>5. session[t] = None
  BY <1>3 DEF PrivateInv, OwnConnection, Connection
<1>6. OwnConnection'
  BY <1>1, <1>2, <1>4, <1>5 DEF PrivateInv, OwnConnection, Connection, RegistryInv, TypeOK
<1>7. NoOrphanSlot'
  BY <1>1, <1>2, <1>3, NoneAssumption DEF PrivateInv, NoOrphanSlot, RegistryInv, TypeOK
<1> QED
  BY <1>6, <1>7 DEF PrivateInv

(* A thread that exits has closed: it leaves no entry behind.              *)
LEMMA ExitPrivate ==
    ASSUME RegistryInv, PrivateInv, ClosesBeforeExit, NEW t \in Threads, ThreadExit(t)
    PROVE  PrivateInv'
<1>1. /\ session[t] = None
      /\ tid' = [tid EXCEPT ![t] = None]
      /\ session' = [session EXCEPT ![t] = None]
      /\ UNCHANGED <<upsf_slots, upsf_addr>>
  BY DEF ThreadExit
<1>2. OwnConnection'
  BY <1>1 DEF PrivateInv, OwnConnection, Connection, RegistryInv, TypeOK
<1>3. NoOrphanSlot'
  <2> SUFFICES ASSUME NEW i \in Tids, upsf_slots'[i] # None
               PROVE  \E u \in Threads : tid'[u] = i /\ session'[u] # None
    BY DEF NoOrphanSlot
  <2>1. PICK u \in Threads : tid[u] = i /\ session[u] # None
    BY <1>1 DEF PrivateInv, NoOrphanSlot
  <2>2. u # t
    BY <1>1, <2>1
  <2> QED
    BY <1>1, <2>1, <2>2 DEF RegistryInv, TypeOK
<1> QED
  BY <1>2, <1>3 DEF PrivateInv

(* upsf_open gives a thread with no slot one for the address it asked for, *)
(* and leaves the others' entries and slots as they are.                   *)
LEMMA OpenPrivate ==
    ASSUME RegistryInv, PrivateInv, NEW t \in Threads, OpenInsert(t)
    PROVE  PrivateInv'
<1>1. /\ pc[t] = "opening"
      /\ tid' = tid
      /\ session' = [session EXCEPT ![t] = IF @ = None THEN arg[t] ELSE @]
  BY DEF OpenInsert
<1>2. tid[t] \in Tids /\ \A u \in Threads : tid[u] = tid[t] => u = t
  BY <1>1, RunningTid
<1>3. session[t] = Connection(t) /\ tid[t] # None
  BY <1>2, NoneAssumption DEF PrivateInv, OwnConnection
<1>4. CASE HasSlot(t)
  <2>1. UNCHANGED <<tid, upsf_slots, upsf_addr>>
    BY <1>1, <1>4 DEF OpenInsert
  <2>2. session[t] # None
    BY <1>3, <1>4, RunningConnection
  <2>3. session' = session
    BY <1>1, <2>2 DEF RegistryInv, TypeOK
  <2> QED
    BY <2>1, <2>3 DEF PrivateInv, OwnConnection, Connection, NoOrphanSlot
<1>5. CASE ~HasSlot(t)
  <2>1. PICK s \in Slots : /\ upsf_addr[s] = None
                           /\ upsf_slots' = [upsf_slots EXCEPT ![tid[t]] = s]
                           /\ upsf_addr' = [upsf_addr EXCEPT ![s] = arg[t]]
    BY <1>5 DEF OpenInsert
  <2>2. session[t] = None
    BY <1>3, <1>5, RunningConnection
  <2>3. session' = [session EXCEPT ![t] = arg[t]]
    BY <1>1, <2>2
  <2>4. arg[t] # None /\ s # None
    BY <1>1, NoneAssumption DEF RegistryInv, OpenArgument
  <2>5. OwnConnection'
    <3> SUFFICES ASSUME NEW u \in Threads PROVE Connection(u)' = session'[u]
      BY DEF OwnConnection
    <3>1. CASE u = t
      BY <1>1, <1>2, <1>3, <2>1, <2>3, <2>4, <3>1 DEF Connection, RegistryInv, TypeOK
    <3>2. CASE u # t
      <4>1. session'[u] = session[u] /\ session[u] = Connection(u)
        BY <2>3, <3>2 DEF PrivateInv, OwnConnection, RegistryInv, TypeOK
      <4>2. tid[u] # None => /\ tid[u] \in Tids
                             /\ upsf_slots'[tid[u]] = upsf_slots[tid[u]]
                             /\ upsf_slots[tid[u]] # s
        BY <1>2, <2>1, <2>4, <3>2 DEF RegistryInv, TypeOK, MappedAllocated
      <4>3. Connection(u)' = Connection(u)
        BY <1>1, <2>1, <4>2 DEF Connection, RegistryInv, TypeOK
      <4> QED
        BY <4>1, <4>3
    <3> QED
      BY <3>1, <3>2
  <2>6. NoOrphanSlot'
    <3> SUFFICES ASSUME NEW i \in Tids, upsf_slots'[i] # None
                 PROVE  \E u \in Threads : tid'[u] = i /\ session'[u] # None
      BY DEF NoOrphanSlot
    <3>1. CASE i = tid[t]
      BY <1>1, <2>3, <2>4, <3>1 DEF RegistryInv, TypeOK
    <3>2. CASE i # tid[t]
      <4>1. PICK u \in Threads : tid[u] = i /\ session[u] # None
        BY <2>1, <3>2 DEF PrivateInv, NoOrphanSlot, RegistryInv, TypeOK
      <4> QED
        BY <1>1, <2>3, <3>2, <4>1 DEF RegistryInv, TypeOK
    <3> QED
      BY <3>1, <3>2
  <2> QED
    BY <2>5, <2>6 DEF PrivateInv
<1> QED
  BY <1>4, <1>5

(* upsf_close erases its own entry; the others' slots are not the one it   *)
(* frees.                                                                  *)
LEMMA ClosePrivate ==
    ASSUME RegistryInv, PrivateInv, NEW t \in Threads, CloseErase(t)
    PROVE  PrivateInv'
<1>1. /\ pc[t] = "closing"
      /\ tid' = tid
      /\ session' = [session EXCEPT ![t] = None]
  BY DEF CloseErase
<1>2. tid[t] \in Tids /\ \A u \in Threads : tid[u] = tid[t] => u = t
  BY <1>1, RunningTid
<1>3. session[t] = Connection(t) /\ tid[t] # None
  BY <1>2, NoneAssumption DEF PrivateInv, OwnConnection
<1>4. CASE ~HasSlot(t)
  <2>1. UNCHANGED <<tid, upsf_slots, upsf_addr>>
    BY <1>1, <1>4 DEF CloseErase
  <2>2. session[t] = None
    BY <1>3, <1>4, RunningConnection
  <2>3. session' = session
    BY <1>1, <2>2 DEF RegistryInv, TypeOK
  <2> QED
    BY <2>1, <2>3 DEF PrivateInv, OwnConnection, Connection, NoOrphanSlot
<1>5. CASE HasSlot(t)
  <2> DEFINE s == upsf_slots[tid[t]]
  <2>1. /\ s \in Slots
        /\ s # None
        /\ upsf_addr' = [upsf_addr EXCEPT ![s] = None]
        /\ upsf_slots' = [upsf_slots EXCEPT ![tid[t]] = None]
    BY <1>2, <1>5 DEF CloseErase, HasSlot, RegistryInv, TypeOK
  <2>2. \A i \in Tids : i # tid[t] => upsf_slots[i] # s
    BY <1>2, <2>1 DEF RegistryInv, SlotsUnshared
  <2> HIDE DEF s
  <2>3. OwnConnection'
    <3> SUFFICES ASSUME NEW u \in Threads PROVE Connection(u)' = session'[u]
      BY DEF OwnConnection
    <3>1. CASE u = t
      BY <1>1, <1>2, <2>1, <3>1 DEF Connection, RegistryInv, TypeOK
    <3>2. CASE u # t
      <4>1. session'[u] = session[u] /\ session[u] = Connection(u)
        BY <1>1, <3>2 DEF PrivateInv, OwnConnection, RegistryInv, TypeOK
      <4>2. tid[u] # None => /\ tid[u] \in Tids
                             /\ upsf_slots'[tid[u]] = upsf_slots[tid[u]]
                             /\ upsf_slots[tid[u]] # s
        BY <1>2, <2>1, <2>2, <3>2 DEF RegistryInv, TypeOK
      <4>3. Connection(u)' = Connection(u)
        BY <1>1, <2>1, <4>2 DEF Connection, RegistryInv, TypeOK
      <4> QED
        BY <4>1, <4>3
    <3> QED
      BY <3>1, <3>2
  <2>4. NoOrphanSlot'
    <3> SUFFICES ASSUME NEW i \in Tids, upsf_slots'[i] # None
                 PROVE  \E u \in Threads : tid'[u] = i /\ session'[u] # None
      BY DEF NoOrphanSlot
    <3>1. i # tid[t] /\ upsf_slots[i] # None
      BY <1>2, <2>1 DEF RegistryInv, TypeOK
    <3>2. PICK u \in Threads : tid[u] = i /\ session[u] # None
      BY <3>1 DEF PrivateInv, NoOrphanSlot
    <3> QED
      BY <1>1, <3>1, <3>2 DEF RegistryInv, TypeOK
  <2> QED
    BY <2>3, <2>4 DEF PrivateInv
<1> QED
  BY <1>4, <1>5

(* Every other step leaves threads, map, slots and history as they are.    *)
LEMMA OtherPrivate ==
    ASSUME PrivateInv, UNCHANGED <<tid, upsf_slots, upsf_addr, session>>
    PROVE  PrivateInv'
BY DEF PrivateInv, OwnConnection, Connection, NoOrphanSlot

LEMMA PrivateInit == Init => PrivateInv
BY DEF Init, PrivateInv, OwnConnection, Connection, NoOrphanSlot

(* Every step keeps the connections private.                               *)
LEMMA PrivateStep ==
    ASSUME ClosesBeforeExit, RegistryInv, PrivateInv, [Next]_vars
    PROVE  PrivateInv'
<1>1. CASE UNCHANGED vars
  BY <1>1, OtherPrivate DEF vars
<1>2. ASSUME NEW t \in Threads, Thread(t) PROVE PrivateInv'
  <2>1. CASE Begin(t)
    BY <2>1, OtherPrivate DEF Begin, mapVars
  <2> QED
    BY <1>2, <2>1, StartPrivate, ExitPrivate DEF Thread
<1>3. ASSUME NEW t \in Threads, Open(t) \/ Close(t) PROVE PrivateInv'
  <2>1. CASE OpenLock(t) \/ CloseLock(t)
    BY <2>1, OtherPrivate DEF OpenLock, CloseLock, mapVars
  <2> QED
    BY <1>3, <2>1, OpenPrivate, ClosePrivate DEF Open, Close
<1>4. ASSUME NEW t \in Threads, Exists(t) \/ Call(t) \/ Unlock(t) PROVE PrivateInv'
  BY <1>4, OtherPrivate DEF Exists, ExistsLock, ExistsFind, Call, CallNull, CallReturn, CallLock,
     CallFind, CallLockSlot, CallRpc, CallUnlockSlot, Unlock, UnlockExclusive, UnlockShared, mapVars
<1> QED
  BY <1>1, <1>2, <1>3, <1>4 DEF Next

(* A thread's connection, the one upsf_exists reports and its calls use,   *)
(* is always the one this thread opened and has not closed since.          *)
THEOREM PrivateConnections ==
    ASSUME ClosesBeforeExit
    PROVE  Spec => []OwnConnection
<1>1. Init => PrivateInv
  BY PrivateInit
<1>2. RegistryInv /\ PrivateInv /\ [Next]_vars => PrivateInv'
  BY PrivateStep
<1>3. PrivateInv => OwnConnection
  BY DEF PrivateInv
<1> QED
  BY <1>1, <1>2, <1>3, RegistryInvariant, PTL DEF Spec

(* No entry of the map outlives the thread that made it.                   *)
THEOREM NoOrphans ==
    ASSUME ClosesBeforeExit
    PROVE  Spec => []NoOrphanSlot
<1>1. Init => PrivateInv
  BY PrivateInit
<1>2. RegistryInv /\ PrivateInv /\ [Next]_vars => PrivateInv'
  BY PrivateStep
<1>3. PrivateInv => NoOrphanSlot
  BY DEF PrivateInv
<1> QED
  BY <1>1, <1>2, <1>3, RegistryInvariant, PTL DEF Spec

=============================================================================
