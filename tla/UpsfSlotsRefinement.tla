------------------------ MODULE UpsfSlotsRefinement ------------------------
(***************************************************************************)
(* UpsfSlots implements ThreadConnections if every thread closes before it *)
(* exits.  The refinement mapping computes a thread's connection from the  *)
(* map; by OwnConnection it is the thread's session, so each step is shown *)
(* to be a step of ThreadConnections on session, or a stuttering step.     *)
(* The first theorem needs no such discipline.                             *)
(***************************************************************************)
EXTENDS UpsfSlotsPrivateProofs

connBar == [t \in Threads |-> Connection(t)]
stBar == [t \in Threads |-> Phase(pc[t])]

(* An entry leaves the map in upsf_close only, as the writer's own.        *)
LEMMA OwnerStep ==
    ASSUME RegistryInv, [Next]_vars, NEW i \in Tids,
           upsf_slots[i] # None, upsf_slots'[i] # upsf_slots[i]
    PROVE  writer # None /\ tid[writer] = i /\ upsf_slots'[i] = None
<1>1. ASSUME NEW t \in Threads, OpenInsert(t)
      PROVE  FALSE
  BY <1>1 DEF OpenInsert, HasSlot, RegistryInv, TypeOK
<1>2. ASSUME NEW t \in Threads, CloseErase(t)
      PROVE  writer # None /\ tid[writer] = i /\ upsf_slots'[i] = None
  <2>1. writer = t
    BY <1>2 DEF CloseErase, RegistryInv, WriterInside, WriteHeld
  <2>2. upsf_slots' = [upsf_slots EXCEPT ![tid[t]] = None]
    BY <1>2 DEF CloseErase
  <2> QED
    BY <2>1, <2>2, NoneAssumption DEF RegistryInv, TypeOK
<1>3. CASE UNCHANGED upsf_slots
  BY <1>3
<1>4. UNCHANGED upsf_slots \/ \E t \in Threads : OpenInsert(t) \/ CloseErase(t)
  BY DEF Next, vars, mapVars, Thread, ThreadStart, ThreadExit, Begin, Open, OpenLock, Close,
     CloseLock, Exists, ExistsLock, ExistsFind, Call, CallNull, CallReturn, CallLock, CallFind,
     CallLockSlot, CallRpc, CallUnlockSlot, Unlock, UnlockExclusive, UnlockShared
<1> QED
  BY <1>1, <1>2, <1>3, <1>4

(* No thread's upsf_open or upsf_close takes away or replaces the slot of  *)
(* another, and none does so but under the exclusive lock.                 *)
THEOREM OnlyOwners == Spec => OnlyOwnerCloses
<1>1. RegistryInv /\ [Next]_vars =>
         [\A i \in Tids : upsf_slots[i] # None /\ upsf_slots'[i] # upsf_slots[i] =>
             /\ writer # None
             /\ tid[writer] = i
             /\ upsf_slots'[i] = None]_vars
  BY OwnerStep
<1> QED
  BY <1>1, RegistryInvariant, PTL DEF Spec, OnlyOwnerCloses

-----------------------------------------------------------------------------
(* A private connection is the session.                                    *)
LEMMA ConnectionIsSession ==
    ASSUME RegistryInv, PrivateInv
    PROVE  connBar = session
BY DEF connBar, RegistryInv, TypeOK, PrivateInv, OwnConnection

LEMMA ConnectionIsSessionNext ==
    ASSUME RegistryInv', PrivateInv'
    PROVE  connBar' = session'
BY DEF connBar, RegistryInv, TypeOK, PrivateInv, OwnConnection

(* A thread has a slot iff it has a connection.                            *)
LEMMA SlotIsConnection ==
    ASSUME RegistryInv, PrivateInv, NEW t \in Threads, pc[t] # "exited"
    PROVE  HasSlot(t) <=> session[t] # None
<1>1. tid[t] # None
  BY RunningTid, NoneAssumption
<1> QED
  BY <1>1, RunningConnection DEF PrivateInv, OwnConnection

(* Moving pc moves the abstract state of that thread.                      *)
LEMMA PhaseMoves ==
    ASSUME RegistryInv, NEW t \in Threads, NEW l, Goto(t, l)
    PROVE  stBar' = [stBar EXCEPT ![t] = Phase(l)]
BY DEF Goto, stBar, RegistryInv, TypeOK

LEMMA PhaseIs ==
    ASSUME NEW t \in Threads
    PROVE  stBar[t] = Phase(pc[t])
BY DEF stBar

(* A move within a phase changes nothing in the abstract state.            *)
LEMMA PhaseStays ==
    ASSUME RegistryInv, NEW t \in Threads, NEW l, Goto(t, l), Phase(l) = Phase(pc[t])
    PROVE  stBar' = stBar
BY DEF Goto, stBar, RegistryInv, TypeOK

(* A step of ThreadConnections, in terms of the registry.                  *)
AbstractStep == TC!Next \/ UNCHANGED <<connBar, stBar, arg, ret>>

Context ==
    /\ RegistryInv
    /\ PrivateInv
    /\ connBar = session
    /\ connBar' = session'

(* Threads come and go.                                                    *)
LEMMA ThreadRefines ==
    ASSUME Context, ClosesBeforeExit, NEW t \in Threads, Thread(t)
    PROVE  AbstractStep
<1>1. CASE ThreadStart(t)
  <2>1. session[t] = None
    BY <1>1, NoneAssumption DEF ThreadStart, Context, PrivateInv, OwnConnection, Connection,
       RegistryInv, RunningTids
  <2>2. session' = session /\ session = [session EXCEPT ![t] = None]
    BY <1>1, <2>1 DEF ThreadStart, Context, RegistryInv, TypeOK
  <2>3. stBar' = [stBar EXCEPT ![t] = "idle"] /\ stBar[t] = "exited"
    BY <1>1, PhaseMoves, PhaseIs DEF ThreadStart, Context, Phase
  <2>4. TC!Start(t)
    BY <1>1, <2>2, <2>3 DEF TC!Start, connBar, stBar, Context, ThreadStart
  <2> QED
    BY <2>4 DEF AbstractStep, TC!Next
<1>2. CASE ThreadExit(t)
  <2>1. stBar' = [stBar EXCEPT ![t] = "exited"] /\ stBar[t] = "idle"
    BY <1>2, PhaseMoves, PhaseIs DEF ThreadExit, Context, Phase
  <2>2. TC!Exit(t)
    BY <1>2, <2>1 DEF TC!Exit, TC!NoAnswer, NoAnswer, Answer, connBar, stBar, Context, ThreadExit
  <2> QED
    BY <2>2 DEF AbstractStep, TC!Next
<1>3. CASE Begin(t)
  <2>1. stBar[t] = "idle" /\ session' = session
    BY <1>3, PhaseIs DEF Begin, Phase, mapVars
  <2>2. \/ /\ stBar' = [stBar EXCEPT ![t] = "open"]
           /\ \E a \in Addrs : arg' = [arg EXCEPT ![t] = a]
        \/ /\ \E op \in {"close", "exists", "call"} : stBar' = [stBar EXCEPT ![t] = op]
           /\ UNCHANGED arg
    <3>1. CASE Goto(t, "open") /\ \E a \in Addrs : arg' = [arg EXCEPT ![t] = a]
      BY <3>1, PhaseMoves DEF Context, Phase
    <3>2. ASSUME NEW l \in {"close", "exists", "call", "nullcall"}, Goto(t, l), UNCHANGED arg
          PROVE  \E op \in {"close", "exists", "call"} : stBar' = [stBar EXCEPT ![t] = op]
      <4>1. stBar' = [stBar EXCEPT ![t] = Phase(l)]
        BY <3>2, PhaseMoves DEF Context
      <4>2. Phase(l) \in {"close", "exists", "call"}
        BY <3>2 DEF Phase
      <4> QED
        BY <4>1, <4>2
    <3> QED
      BY <1>3, <3>1, <3>2 DEF Begin
  <2>3. TC!Invoke(t)
    BY <1>3, <2>1, <2>2 DEF TC!Invoke, TC!NoAnswer, NoAnswer, Answer, connBar, stBar, Context,
       Begin
  <2> QED
    BY <2>3 DEF AbstractStep, TC!Next
<1> QED
  BY <1>1, <1>2, <1>3 DEF Thread

(* upsf_open takes effect when it inserts.                                 *)
LEMMA OpenRefines ==
    ASSUME Context, NEW t \in Threads, Open(t)
    PROVE  AbstractStep
<1>1. CASE OpenLock(t)
  BY <1>1, PhaseStays DEF OpenLock, Phase, mapVars, Context, AbstractStep
<1>2. CASE OpenInsert(t)
  <2>1. stBar' = [stBar EXCEPT ![t] = "answered"] /\ stBar[t] = "open"
    BY <1>2, PhaseMoves, PhaseIs DEF OpenInsert, Context, Phase
  <2>2. TC!Open(t)
    BY <1>2, <2>1 DEF TC!Open, TC!Answer, TC!Done, Done, Answer, connBar, stBar, Context,
       OpenInsert
  <2> QED
    BY <2>2 DEF AbstractStep, TC!Next
<1> QED
  BY <1>1, <1>2 DEF Open

(* upsf_close takes effect when it erases.                                 *)
LEMMA CloseRefines ==
    ASSUME Context, NEW t \in Threads, Close(t)
    PROVE  AbstractStep
<1>1. CASE CloseLock(t)
  BY <1>1, PhaseStays DEF CloseLock, Phase, mapVars, Context, AbstractStep
<1>2. CASE CloseErase(t)
  <2>1. stBar' = [stBar EXCEPT ![t] = "answered"] /\ stBar[t] = "close"
    BY <1>2, PhaseMoves, PhaseIs DEF CloseErase, Context, Phase
  <2>2. HasSlot(t) <=> session[t] # None
    BY <1>2, SlotIsConnection DEF CloseErase, Context
  <2>3. ret' = [ret EXCEPT ![t] = IF session[t] = None THEN Failed ELSE Done(None)]
    BY <1>2, <2>2 DEF CloseErase, Answer
  <2>4. TC!Close(t)
    BY <1>2, <2>1, <2>3 DEF TC!Close, TC!Answer, TC!Done, TC!Failed, Done, Failed, connBar, stBar,
       Context, CloseErase
  <2> QED
    BY <2>4 DEF AbstractStep, TC!Next
<1> QED
  BY <1>1, <1>2 DEF Close

(* upsf_exists takes effect when it looks into the map.                    *)
LEMMA ExistsRefines ==
    ASSUME Context, NEW t \in Threads, Exists(t)
    PROVE  AbstractStep
<1>1. CASE ExistsLock(t)
  BY <1>1, PhaseStays DEF ExistsLock, Phase, mapVars, Context, AbstractStep
<1>2. CASE ExistsFind(t)
  <2>1. stBar' = [stBar EXCEPT ![t] = "answered"] /\ stBar[t] = "exists"
    BY <1>2, PhaseMoves, PhaseIs DEF ExistsFind, Context, Phase
  <2>2. HasSlot(t) <=> session[t] # None
    BY <1>2, SlotIsConnection DEF ExistsFind, Context
  <2>3. ret' = [ret EXCEPT ![t] = IF session[t] = None THEN Failed ELSE Done(None)]
    BY <1>2, <2>2 DEF ExistsFind, Answer
  <2>4. TC!Exists(t)
    BY <1>2, <2>1, <2>3 DEF TC!Exists, TC!Answer, TC!Done, TC!Failed, Done, Failed, connBar, stBar,
       Context, ExistsFind, mapVars
  <2> QED
    BY <2>4 DEF AbstractStep, TC!Next
<1> QED
  BY <1>1, <1>2 DEF Exists

(* An item call takes effect when its answer is fixed: at once for a null  *)
(* argument, in the lookup when there is no slot, else with the RPC, over  *)
(* the slot of this thread.                                                *)
LEMMA CallRefines ==
    ASSUME Context, NEW t \in Threads, Call(t)
    PROVE  AbstractStep
<1>f. ASSUME stBar[t] = "call", stBar' = [stBar EXCEPT ![t] = "answered"], Answer(t, Failed),
             UNCHANGED <<session, arg>>
      PROVE  AbstractStep
  <2>1. TC!Call(t)
    BY <1>f DEF TC!Call, TC!Answer, TC!Failed, Failed, Answer, connBar, stBar, Context
  <2> QED
    BY <2>1 DEF AbstractStep, TC!Next
<1>1. CASE CallNull(t)
  BY <1>1, <1>f, PhaseMoves, PhaseIs DEF CallNull, Context, Phase, mapVars
<1>2. CASE CallReturn(t)
  <2>1. stBar' = [stBar EXCEPT ![t] = "idle"] /\ stBar[t] = "answered"
    BY <1>2, PhaseMoves, PhaseIs DEF CallReturn, Context, Phase
  <2>2. TC!Return(t)
    BY <1>2, <2>1 DEF TC!Return, connBar, stBar, Context, CallReturn, mapVars
  <2> QED
    BY <2>2 DEF AbstractStep, TC!Next
<1>3. CASE CallLock(t) \/ CallLockSlot(t) \/ CallUnlockSlot(t)
  BY <1>3, PhaseStays DEF CallLock, CallLockSlot, CallUnlockSlot, Phase, mapVars, Context,
     AbstractStep
<1>4. CASE CallFind(t)
  <2>1. CASE Goto(t, "slot") /\ UNCHANGED ret
    BY <1>4, <2>1, PhaseStays DEF CallFind, Phase, mapVars, Context, AbstractStep
  <2>2. CASE Goto(t, "runlock") /\ Answer(t, Failed)
    BY <1>4, <1>f, <2>2, PhaseMoves, PhaseIs DEF CallFind, Phase, mapVars, Context
  <2> QED
    BY <1>4, <2>1, <2>2 DEF CallFind
<1>5. CASE CallRpc(t)
  <2>1. stBar' = [stBar EXCEPT ![t] = "answered"] /\ stBar[t] = "call"
    BY <1>5, PhaseMoves, PhaseIs DEF CallRpc, Context, Phase
  <2>2. CASE Answer(t, Failed)
    BY <1>5, <1>f, <2>1, <2>2 DEF CallRpc, mapVars
  <2>3. CASE Answer(t, Done(upsf_addr[slot[t]]))
    <3>1. slot[t] # None /\ slot[t] = upsf_slots[tid[t]]
      BY <1>5 DEF CallRpc, Context, RegistryInv, SlotPointer, InUse
    <3>2. tid[t] # None
      BY <1>5, RunningTid, NoneAssumption DEF CallRpc, Context
    <3>3. session[t] = upsf_addr[slot[t]] /\ session[t] # None
      BY <3>1, <3>2, RunningConnection DEF Context, PrivateInv, OwnConnection, HasSlot
    <3>4. TC!Call(t)
      BY <1>5, <2>1, <2>3, <3>3 DEF TC!Call, TC!Answer, TC!Done, Done, Answer, connBar, stBar,
         Context, CallRpc, mapVars
    <3> QED
      BY <3>4 DEF AbstractStep, TC!Next
  <2> QED
    BY <1>5, <2>2, <2>3 DEF CallRpc
<1> QED
  BY <1>1, <1>2, <1>3, <1>4, <1>5 DEF Call

(* A call returns with the release of upsf_slots_mutex.                    *)
LEMMA UnlockRefines ==
    ASSUME Context, NEW t \in Threads, Unlock(t)
    PROVE  AbstractStep
<1>1. stBar' = [stBar EXCEPT ![t] = "idle"] /\ stBar[t] = "answered"
  BY PhaseMoves, PhaseIs DEF Unlock, UnlockExclusive, UnlockShared, Context, Phase
<1>2. TC!Return(t)
  BY <1>1 DEF TC!Return, connBar, stBar, Context, Unlock, UnlockExclusive, UnlockShared, mapVars
<1> QED
  BY <1>2 DEF AbstractStep, TC!Next

LEMMA InitRefines == Init => TC!Init
BY DEF Init, TC!Init, TC!NoAnswer, NoAnswer, Connection, Phase

(* Every step of the registry is a step of ThreadConnections or stutters.  *)
LEMMA StepRefines ==
    ASSUME ClosesBeforeExit, RegistryInv, PrivateInv, [Next]_vars
    PROVE  [TC!Next]_(TC!vars)
<1>1. RegistryInv' /\ PrivateInv'
  BY RegistryStep, PrivateStep
<1>2. Context
  BY <1>1, ConnectionIsSession, ConnectionIsSessionNext DEF Context
<1>3. AbstractStep
  <2>1. CASE UNCHANGED vars
    BY <1>2, <2>1 DEF vars, AbstractStep, Context, stBar
  <2>2. CASE Next
    BY <1>2, <2>2, ThreadRefines, OpenRefines, CloseRefines, ExistsRefines, CallRefines,
       UnlockRefines DEF Next
  <2> QED
    BY <2>1, <2>2
<1> QED
  BY <1>3 DEF AbstractStep, TC!vars, connBar, stBar

(* Whatever the threads interleave, the registry behaves as if every       *)
(* thread had a private connection and every call took effect at once.     *)
THEOREM Refinement ==
    ASSUME ClosesBeforeExit
    PROVE  Spec => ThreadLocal
<1>1. Init => TC!Init
  BY InitRefines
<1>2. Init => PrivateInv
  BY PrivateInit
<1>3. RegistryInv /\ PrivateInv /\ [Next]_vars => PrivateInv'
  BY PrivateStep
<1>4. RegistryInv /\ PrivateInv /\ [Next]_vars => [TC!Next]_(TC!vars)
  BY StepRefines
<1> QED
  BY <1>1, <1>2, <1>3, <1>4, RegistryInvariant, PTL DEF Spec, ThreadLocal, TC!Spec
=============================================================================
