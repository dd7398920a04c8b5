------------------------------ MODULE UpsfSlots ------------------------------
(***************************************************************************)
(* The connection registry of the C API (upsf_c_wrapper.cpp): the map      *)
(* upsf_slots from pthread_t to UpsfSlot, the reader/writer lock           *)
(* upsf_slots_mutex around it, the mutex inside every slot, and the calls  *)
(* of application threads that go through them.                            *)
(*                                                                         *)
(* upsf_open and upsf_close take the lock exclusively; upsf_exists and all *)
(* upsf_create/update/get/delete/list calls share it, and the latter keep  *)
(* their share, and the slot's mutex, until the RPC has answered.          *)
(* A pthread_t may be given to a new thread once its owner has exited.     *)
(***************************************************************************)
EXTENDS Integers, FiniteSets

CONSTANTS
    Threads,          \* threads of the application; one may exit and start anew
    Tids,             \* values of pthread_t
    Slots,            \* UpsfSlot objects on the heap
    Addrs,            \* "host:port" strings given to upsf_open
    None,             \* no thread, no pthread_t, null pointer or no address
    ClosesBeforeExit  \* every thread calls upsf_close before it exits

ASSUME NoneAssumption ==
    None \notin Threads \cup Tids \cup Slots \cup Addrs

ASSUME DisciplineAssumption == ClosesBeforeExit \in BOOLEAN

VARIABLES
    tid,              \* pthread_self() of each running thread
    pc,               \* where each thread stands in its call
    arg,              \* the address a thread passed to upsf_open
    upsf_slots,       \* pthread_t -> slot, as the map keeps it
    upsf_addr,        \* slot -> the server its channel is for; None: not allocated
    upsf_slot_mutex,  \* slot -> holder of its mutex
    readers, writer,  \* holders of upsf_slots_mutex
    slot,             \* the raw pointer a call took from the map
    ret,              \* what the thread's last call returned, and who served it
    session           \* history: the address this very thread opened

lockVars == <<readers, writer, upsf_slot_mutex>>
mapVars  == <<upsf_slots, upsf_addr, session>>
vars == <<tid, pc, arg, upsf_slots, upsf_addr, upsf_slot_mutex,
          readers, writer, slot, ret, session>>

WriteWaiting == {"open", "close"}
WriteHeld    == {"opening", "closing", "wunlock"}
ReadWaiting  == {"exists", "call"}
ReadHeld     == {"checking", "lookup", "slot", "rpc", "sunlock", "runlock"}
SlotHeld     == {"rpc", "sunlock"}
InUse        == {"slot", "rpc", "sunlock"}
PCs == {"exited", "idle", "nullcall", "return"}
          \cup WriteWaiting \cup WriteHeld \cup ReadWaiting \cup ReadHeld

NoAnswer == [code |-> "none", server |-> None]
Failed   == [code |-> "failed", server |-> None]
Done(a)  == [code |-> "done", server |-> a]

Init ==
    /\ tid = [t \in Threads |-> None]
    /\ pc = [t \in Threads |-> "exited"]
    /\ arg = [t \in Threads |-> None]
    /\ upsf_slots = [i \in Tids |-> None]
    /\ upsf_addr = [s \in Slots |-> None]
    /\ upsf_slot_mutex = [s \in Slots |-> None]
    /\ readers = {}
    /\ writer = None
    /\ slot = [t \in Threads |-> None]
    /\ ret = [t \in Threads |-> NoAnswer]
    /\ session = [t \in Threads |-> None]

Goto(t, l) == pc' = [pc EXCEPT ![t] = l]
Answer(t, r) == ret' = [ret EXCEPT ![t] = r]
HasSlot(t) == upsf_slots[tid[t]] # None

-----------------------------------------------------------------------------
(* Slips that the properties below would catch; no part of the             *)
(* specification.                                                          *)

(* upsf_open on a thread that has a slot points it to the new address.     *)
OpenReplaces(t) ==
    /\ pc[t] = "opening"
    /\ \E s \in {x \in Slots : IF HasSlot(t) THEN x = upsf_slots[tid[t]]
                                               ELSE upsf_addr[x] = None} :
           /\ upsf_slots' = [upsf_slots EXCEPT ![tid[t]] = s]
           /\ upsf_addr' = [upsf_addr EXCEPT ![s] = arg[t]]
    /\ session' = [session EXCEPT ![t] = IF @ = None THEN arg[t] ELSE @]
    /\ Answer(t, Done(None))
    /\ Goto(t, "wunlock")
    /\ UNCHANGED <<tid, arg, lockVars, slot>>

(* upsf_close erases the wrong entries, or answers wrongly or keeps the    *)
(* lock when there is nothing to erase.                                    *)
CloseErasing(t, entries, missing, then) ==
    /\ pc[t] = "closing"
    /\ IF HasSlot(t)
       THEN /\ upsf_addr' = [s \in Slots |->
                    IF \E i \in entries : upsf_slots[i] = s THEN None ELSE upsf_addr[s]]
            /\ upsf_slots' = [i \in Tids |-> IF i \in entries THEN None ELSE upsf_slots[i]]
            /\ Answer(t, Done(None))
            /\ Goto(t, "wunlock")
       ELSE /\ UNCHANGED <<upsf_slots, upsf_addr>>
            /\ Answer(t, missing)
            /\ Goto(t, then)
    /\ session' = [session EXCEPT ![t] = None]
    /\ UNCHANGED <<tid, arg, lockVars, slot>>

CloseErasesNone(t)  == CloseErasing(t, {}, Failed, "wunlock")
CloseErasesAll(t)   == CloseErasing(t, Tids, Failed, "wunlock")
CloseAlwaysDone(t)  == CloseErasing(t, {tid[t]}, Done(None), "wunlock")
CloseKeepsLock(t)   == CloseErasing(t, {tid[t]}, Failed, "idle")

(* A share of upsf_slots_mutex is given while a writer has it.             *)
LockSharedAnytime(t) ==
    /\ readers' = readers \cup {t}
    /\ UNCHANGED <<writer, upsf_slot_mutex>>

(* A call takes some slot of the map, not its thread's; a call returns     *)
(* with its share of the lock when its thread has no slot.                 *)
CallFinding(t, found, then) ==
    /\ pc[t] = "lookup"
    /\ \/ /\ slot' \in {[slot EXCEPT ![t] = s] : s \in found}
          /\ Goto(t, "slot")
          /\ UNCHANGED ret
       \/ /\ found = {}
          /\ Answer(t, Failed)
          /\ Goto(t, then)
          /\ UNCHANGED slot
    /\ UNCHANGED <<tid, arg, mapVars, lockVars>>

CallFindsAny(t)      == CallFinding(t, {upsf_slots[i] : i \in Tids} \ {None}, "runlock")
CallFindKeepsLock(t) == CallFinding(t, {upsf_slots[tid[t]]} \ {None}, "idle")

(* The slot's mutex stays locked after the RPC.                            *)
CallKeepsSlotMutex(t) ==
    /\ pc[t] = "sunlock"
    /\ slot' = [slot EXCEPT ![t] = None]
    /\ Goto(t, "runlock")
    /\ UNCHANGED <<tid, arg, mapVars, lockVars, ret>>

-----------------------------------------------------------------------------
(* The application's threads.  The system may give a new thread the        *)
(* pthread_t of one that has exited, never that of one still running.      *)

ThreadStart(t) ==
    /\ pc[t] = "exited"
    /\ \E i \in {j \in Tids : \A u \in Threads : tid[u] # j} :
           tid' = [tid EXCEPT ![t] = i]
    /\ Goto(t, "idle")
    /\ UNCHANGED <<arg, upsf_slots, upsf_addr, lockVars, slot, ret, session>>

ThreadExit(t) ==
    /\ pc[t] = "idle"
    /\ ClosesBeforeExit => session[t] = None
    /\ tid' = [tid EXCEPT ![t] = None]
    /\ session' = [session EXCEPT ![t] = None]
    /\ Answer(t, NoAnswer)
    /\ Goto(t, "exited")
    /\ UNCHANGED <<arg, upsf_slots, upsf_addr, lockVars, slot>>

(* An idle thread enters one of the functions of upsf.h.                   *)
Begin(t) ==
    /\ pc[t] = "idle"
    /\ \/ /\ Goto(t, "open")
          /\ \E a \in Addrs : arg' = [arg EXCEPT ![t] = a]
       \/ /\ \E l \in {"close", "exists", "call", "nullcall"} : Goto(t, l)
          /\ UNCHANGED arg
    /\ Answer(t, NoAnswer)
    /\ UNCHANGED <<tid, mapVars, lockVars, slot>>

-----------------------------------------------------------------------------
(* upsf_slots_mutex, a std::shared_mutex: any number of readers or one     *)
(* writer.  The destructor of the guard releases it on every return.       *)

LockExclusive(t) ==
    /\ readers = {}
    /\ writer = None
    /\ writer' = t
    /\ UNCHANGED <<readers, upsf_slot_mutex>>

LockShared(t) ==
    /\ writer = None
    /\ readers' = readers \cup {t}
    /\ UNCHANGED <<writer, upsf_slot_mutex>>

UnlockExclusive(t) ==
    /\ pc[t] = "wunlock"
    /\ writer' = None
    /\ Goto(t, "idle")
    /\ UNCHANGED <<tid, arg, mapVars, readers, upsf_slot_mutex, slot, ret>>

UnlockShared(t) ==
    /\ pc[t] = "runlock"
    /\ readers' = readers \ {t}
    /\ Goto(t, "idle")
    /\ UNCHANGED <<tid, arg, mapVars, writer, upsf_slot_mutex, slot, ret>>

-----------------------------------------------------------------------------
(* upsf_open: a thread with no slot gets one for the given address; a      *)
(* thread that has one keeps it, whatever address it asks for.             *)

OpenLock(t) ==
    /\ pc[t] = "open"
    /\ LockExclusive(t)
    /\ Goto(t, "opening")
    /\ UNCHANGED <<tid, arg, mapVars, slot, ret>>

OpenInsert(t) ==
    /\ pc[t] = "opening"
    /\ IF HasSlot(t)
       THEN UNCHANGED <<upsf_slots, upsf_addr>>
       ELSE \E s \in {x \in Slots : upsf_addr[x] = None} :
                /\ upsf_slots' = [upsf_slots EXCEPT ![tid[t]] = s]
                /\ upsf_addr' = [upsf_addr EXCEPT ![s] = arg[t]]
    /\ session' = [session EXCEPT ![t] = IF @ = None THEN arg[t] ELSE @]
    /\ Answer(t, Done(None))
    /\ Goto(t, "wunlock")
    /\ UNCHANGED <<tid, arg, lockVars, slot>>

(* upsf_close: the map held the only shared_ptr, so erase frees the slot.  *)

CloseLock(t) ==
    /\ pc[t] = "close"
    /\ LockExclusive(t)
    /\ Goto(t, "closing")
    /\ UNCHANGED <<tid, arg, mapVars, slot, ret>>

CloseErase(t) ==
    /\ pc[t] = "closing"
    /\ IF HasSlot(t)
       THEN /\ upsf_addr' = [upsf_addr EXCEPT ![upsf_slots[tid[t]]] = None]
            /\ upsf_slots' = [upsf_slots EXCEPT ![tid[t]] = None]
            /\ Answer(t, Done(None))
       ELSE /\ UNCHANGED <<upsf_slots, upsf_addr>>
            /\ Answer(t, Failed)
    /\ session' = [session EXCEPT ![t] = None]
    /\ Goto(t, "wunlock")
    /\ UNCHANGED <<tid, arg, lockVars, slot>>

(* upsf_exists                                                             *)

ExistsLock(t) ==
    /\ pc[t] = "exists"
    /\ LockShared(t)
    /\ Goto(t, "checking")
    /\ UNCHANGED <<tid, arg, mapVars, slot, ret>>

ExistsFind(t) ==
    /\ pc[t] = "checking"
    /\ Answer(t, IF HasSlot(t) THEN Done(None) ELSE Failed)
    /\ Goto(t, "runlock")
    /\ UNCHANGED <<tid, arg, mapVars, lockVars, slot>>

-----------------------------------------------------------------------------
(* The item calls (create, update, get, delete, list, lookup), which all   *)
(* have one shape: argument check, shared lock, slot lookup, slot mutex,   *)
(* RPC through the slot's client, release of both locks.                   *)

CallNull(t) ==
    /\ pc[t] = "nullcall"
    /\ Answer(t, Failed)
    /\ Goto(t, "return")
    /\ UNCHANGED <<tid, arg, mapVars, lockVars, slot>>

CallReturn(t) ==
    /\ pc[t] = "return"
    /\ Goto(t, "idle")
    /\ UNCHANGED <<tid, arg, mapVars, lockVars, slot, ret>>

CallLock(t) ==
    /\ pc[t] = "call"
    /\ LockShared(t)
    /\ Goto(t, "lookup")
    /\ UNCHANGED <<tid, arg, mapVars, slot, ret>>

CallFind(t) ==
    /\ pc[t] = "lookup"
    /\ \/ /\ HasSlot(t)
          /\ slot' = [slot EXCEPT ![t] = upsf_slots[tid[t]]]
          /\ Goto(t, "slot")
          /\ UNCHANGED ret
       \/ /\ ~HasSlot(t)
          /\ Answer(t, Failed)
          /\ Goto(t, "runlock")
          /\ UNCHANGED slot
    /\ UNCHANGED <<tid, arg, mapVars, lockVars>>

CallLockSlot(t) ==
    /\ pc[t] = "slot"
    /\ upsf_slot_mutex[slot[t]] = None
    /\ upsf_slot_mutex' = [upsf_slot_mutex EXCEPT ![slot[t]] = t]
    /\ Goto(t, "rpc")
    /\ UNCHANGED <<tid, arg, mapVars, readers, writer, slot, ret>>

(* The RPC runs over the slot's channel and ends with either status.       *)
CallRpc(t) ==
    /\ pc[t] = "rpc"
    /\ \/ Answer(t, Done(upsf_addr[slot[t]]))
       \/ Answer(t, Failed)
    /\ Goto(t, "sunlock")
    /\ UNCHANGED <<tid, arg, mapVars, lockVars, slot>>

CallUnlockSlot(t) ==
    /\ pc[t] = "sunlock"
    /\ upsf_slot_mutex' = [upsf_slot_mutex EXCEPT ![slot[t]] = None]
    /\ slot' = [slot EXCEPT ![t] = None]
    /\ Goto(t, "runlock")
    /\ UNCHANGED <<tid, arg, mapVars, readers, writer, ret>>

-----------------------------------------------------------------------------

Thread(t) == ThreadStart(t) \/ ThreadExit(t) \/ Begin(t)
Open(t)   == OpenLock(t) \/ OpenInsert(t)
Close(t)  == CloseLock(t) \/ CloseErase(t)
Exists(t) == ExistsLock(t) \/ ExistsFind(t)
Call(t)   == \/ CallNull(t) \/ CallReturn(t) \/ CallLock(t) \/ CallFind(t)
             \/ CallLockSlot(t) \/ CallRpc(t) \/ CallUnlockSlot(t)
Unlock(t) == UnlockExclusive(t) \/ UnlockShared(t)

Next == \E t \in Threads :
            Thread(t) \/ Open(t) \/ Close(t) \/ Exists(t) \/ Call(t) \/ Unlock(t)

Spec == Init /\ [][Next]_vars

(* A call in progress is scheduled, and an RPC ends with some status (the  *)
(* one assumption on the server).  A waiter for upsf_slots_mutex gets it   *)
(* if the lock becomes free again and again; nothing obliges a thread to   *)
(* start, to exit or to call.                                              *)
Fairness ==
    \A t \in Threads :
        /\ WF_vars(OpenInsert(t) \/ CloseErase(t) \/ ExistsFind(t) \/ Unlock(t))
        /\ WF_vars(CallNull(t) \/ CallReturn(t) \/ CallFind(t) \/ CallLockSlot(t)
                     \/ CallRpc(t) \/ CallUnlockSlot(t))
        /\ SF_vars(OpenLock(t) \/ CloseLock(t))
        /\ SF_vars(ExistsLock(t) \/ CallLock(t))

FairSpec == Spec /\ Fairness

-----------------------------------------------------------------------------
(* The type of every variable, as the C++ declarations fix it.             *)
TypeOK ==
    /\ tid \in [Threads -> Tids \cup {None}]
    /\ pc \in [Threads -> PCs]
    /\ arg \in [Threads -> Addrs \cup {None}]
    /\ upsf_slots \in [Tids -> Slots \cup {None}]
    /\ upsf_addr \in [Slots -> Addrs \cup {None}]
    /\ upsf_slot_mutex \in [Slots -> Threads \cup {None}]
    /\ readers \in SUBSET Threads
    /\ writer \in Threads \cup {None}
    /\ slot \in [Threads -> Slots \cup {None}]
    /\ ret \in [Threads -> [code : {"none", "failed", "done"},
                            server : Addrs \cup {None}]]
    /\ session \in [Threads -> Addrs \cup {None}]

(* A call keeps a raw pointer to its slot, with no share of the shared_ptr,*)
(* through the whole RPC: until it lets go, the slot is allocated and is   *)
(* still the one the map holds for the calling thread.                     *)
SlotStaysWhileUsed ==
    \A t \in Threads : pc[t] \in InUse =>
        /\ slot[t] # None
        /\ upsf_addr[slot[t]] # None
        /\ upsf_slots[tid[t]] = slot[t]

(* No path through any call, early returns included, comes back to the     *)
(* application with upsf_slots_mutex or a slot's mutex still held.         *)
LocksReleased ==
    \A t \in Threads : pc[t] \in {"exited", "idle", "return"} =>
        /\ t \notin readers
        /\ writer # t
        /\ \A s \in Slots : upsf_slot_mutex[s] # t

(* Slots are keyed by the running thread, so no call ever waits for a      *)
(* slot's mutex: the only lock one thread can wait for another on is       *)
(* upsf_slots_mutex.                                                       *)
SlotMutexUncontended ==
    \A t \in Threads : pc[t] = "slot" => upsf_slot_mutex[slot[t]] = None

(* The locks a thread waits for, and the threads that hold them.           *)
WaitsFor(t, u) ==
    \/ pc[t] \in WriteWaiting /\ (u = writer \/ u \in readers)
    \/ pc[t] \in ReadWaiting /\ u = writer
    \/ pc[t] = "slot" /\ u = upsf_slot_mutex[slot[t]]

(* The two levels of locks cannot deadlock: a thread waits for nobody at   *)
(* the second level, and whoever it waits for at the first waits for       *)
(* nobody, so that no ring of waiting threads can form.                    *)
NoWaitingInLine ==
    \A t, u \in Threads : WaitsFor(t, u) =>
        /\ pc[t] # "slot"
        /\ \A v \in Threads : ~WaitsFor(u, v)

AllocatedSlots == {s \in Slots : upsf_addr[s] # None}

(* What every step of the registry keeps and the properties above follow   *)
(* from: running threads have distinct pthread_ts; the lock's holders are  *)
(* the threads inside a critical section and exclude each other; a call in *)
(* use of a slot has the one the map holds for it; no two pthread_ts share *)
(* a slot; a slot is allocated if and only if the map holds it; a slot's   *)
(* mutex has the call that is inside the RPC as its holder.                *)
DistinctTids ==
    \A t, u \in Threads : tid[t] # None /\ tid[t] = tid[u] => t = u

RunningTids == \A t \in Threads : tid[t] = None <=> pc[t] = "exited"

WriterInside == \A t \in Threads : writer = t <=> pc[t] \in WriteHeld

ReadersInside == \A t \in Threads : t \in readers <=> pc[t] \in ReadHeld

Exclusion == writer # None => readers = {}

SlotPointer ==
    \A t \in Threads :
        /\ pc[t] \in InUse => slot[t] # None /\ slot[t] = upsf_slots[tid[t]]
        /\ pc[t] \notin InUse => slot[t] = None

MappedAllocated ==
    \A i \in Tids : upsf_slots[i] # None => upsf_addr[upsf_slots[i]] # None

SlotsMapped ==
    \A s \in Slots : upsf_addr[s] # None => \E i \in Tids : upsf_slots[i] = s

SlotsUnshared ==
    \A i, j \in Tids : upsf_slots[i] # None /\ upsf_slots[i] = upsf_slots[j] => i = j

MutexHolder ==
    \A t \in Threads, s \in Slots :
        upsf_slot_mutex[s] = t <=> pc[t] \in SlotHeld /\ slot[t] = s

OpenArgument ==
    \A t \in Threads : pc[t] \in {"open", "opening"} => arg[t] # None

RegistryInv ==
    /\ TypeOK
    /\ DistinctTids
    /\ RunningTids
    /\ WriterInside
    /\ ReadersInside
    /\ Exclusion
    /\ SlotPointer
    /\ MappedAllocated
    /\ SlotsMapped
    /\ SlotsUnshared
    /\ MutexHolder
    /\ OpenArgument

(* The server the registry would use for a thread's next call.             *)
Connection(t) ==
    IF tid[t] = None \/ upsf_slots[tid[t]] = None
    THEN None
    ELSE upsf_addr[upsf_slots[tid[t]]]

(* README 126-133: the connection a thread uses, and the one upsf_exists   *)
(* reports, is the one this thread opened.                                 *)
OwnConnection == \A t \in Threads : Connection(t) = session[t]

(* Every slot in the map belongs to a running thread: nothing is left      *)
(* behind for a later thread with the same pthread_t.                      *)
NoOrphanSlot ==
    \A i \in Tids : upsf_slots[i] # None =>
        \E t \in Threads : tid[t] = i /\ session[t] # None

(* A thread's slot leaves the map, or gives way to another, only by a call *)
(* of that thread, made while it holds upsf_slots_mutex exclusively.       *)
OnlyOwnerCloses ==
    [][\A i \in Tids : upsf_slots[i] # None /\ upsf_slots'[i] # upsf_slots[i] =>
           /\ writer # None
           /\ tid[writer] = i
           /\ upsf_slots'[i] = None]_vars

(* A thread's item call or upsf_exists comes back however the other        *)
(* threads open, close and call.                                           *)
ReadersReturn ==
    \A t \in Threads :
        pc[t] \in ReadWaiting \cup ReadHeld ~> pc[t] = "idle"

(* An upsf_open or upsf_close comes back unless other threads' calls       *)
(* overlap forever, from some time on without a moment with no reader.     *)
WritersReturn ==
    []<>(readers = {}) =>
        \A t \in Threads :
            pc[t] \in WriteWaiting \cup WriteHeld ~> pc[t] = "idle"

-----------------------------------------------------------------------------
(* Refinement: a thread's connection is whatever the registry holds for    *)
(* its pthread_t; a call has taken effect once its answer is fixed.        *)
Phase(l) ==
    CASE l \in {"open", "opening"}    -> "open"
      [] l \in {"close", "closing"}   -> "close"
      [] l \in {"exists", "checking"} -> "exists"
      [] l \in {"call", "nullcall", "lookup", "slot", "rpc"} -> "call"
      [] l \in {"wunlock", "sunlock", "runlock", "return"}   -> "answered"
      [] OTHER -> l

TC == INSTANCE ThreadConnections WITH
          conn <- [t \in Threads |-> Connection(t)],
          st   <- [t \in Threads |-> Phase(pc[t])]

(* Whatever the threads interleave, the registry behaves as if every       *)
(* thread had a private connection (README 126-133).                       *)
ThreadLocal == TC!Spec
=============================================================================
