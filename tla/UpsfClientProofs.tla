--------------------------- MODULE UpsfClientProofs ---------------------------
(***************************************************************************)
(* Proofs about UpsfClient, for any sets of threads, types, names and      *)
(* values, any number of changes and a server that filters or does not.    *)
(* ClientInv is inductive.  A thread's call is disturbed in two ways only: *)
(* by a step of its own, and by a change of the server's items, which adds *)
(* to the states it has seen.  What others do leaves it as it is.          *)
(***************************************************************************)
EXTENDS UpsfClient, TLAPS

(* All that CallInv(t) speaks of, but for the server's items.              *)
SameCall(t) ==
    /\ filters' = filters
    /\ pc'[t] = pc[t] /\ call'[t] = call[t] /\ resp'[t] = resp[t] /\ status'[t] = status[t]
    /\ wire'[t] = wire[t] /\ visited'[t] = visited[t] /\ item'[t] = item[t]
    /\ out'[t] = out[t] /\ outs'[t] = outs[t] /\ result'[t] = result[t]
    /\ effects'[t] = effects[t]

(* A thread that does nothing, while the items stay, keeps what it knows.  *)
LEMMA CallStays ==
    ASSUME NEW t \in Threads, CallInv(t), SameCall(t), db' = db, seen'[t] = seen[t]
    PROVE  CallInv(t)'
<1> USE DEF CallInv, SameCall, Reading, Seen
<1>1. CallFits(t)' /\ Fresh(t)'
  BY DEF CallFits, Fresh
<1>2. UnaryCall(t)'
  BY DEF UnaryCall, Reply
<1>3. OnTheWire(t)'
  BY DEF OnTheWire
<1>4. GetCall(t)'
  BY DEF GetCall
<1>5. GetMissesNothing(t)'
  BY DEF GetMissesNothing
<1>6. ListCall(t)'
  BY DEF ListCall
<1>7. ListMissesNothing(t)'
  BY DEF ListMissesNothing
<1> QED
  BY <1>1, <1>2, <1>3, <1>4, <1>5, <1>6, <1>7

(* A thread whose call goes on while the items change keeps it too: more   *)
(* states make it easier to have seen an item, or seen it missing, and     *)
(* harder for one to have been there all the time.                         *)
LEMMA SeenGrows ==
    ASSUME NEW t \in Threads, CallInv(t), SameCall(t),
           seen'[t] = IF pc[t] = "idle" THEN {} ELSE seen[t] \cup {db'}
    PROVE  CallInv(t)'
<1> USE DEF CallInv, SameCall, Reading
<1>s. pc[t] # "idle" => Seen(t) \subseteq Seen(t)' /\ seen[t] \subseteq seen'[t]
  BY DEF Seen
<1>1. CallFits(t)' /\ Fresh(t)'
  BY DEF CallFits, Fresh
<1>2. UnaryCall(t)'
  BY <1>s DEF UnaryCall, Reply
<1>3. OnTheWire(t)'
  BY <1>s DEF OnTheWire
<1>4. GetCall(t)'
  BY <1>s DEF GetCall
<1>5. GetMissesNothing(t)'
  BY <1>s DEF GetMissesNothing
<1>6. ListCall(t)'
  BY <1>s DEF ListCall, Wanted
<1>7. ListMissesNothing(t)'
  BY <1>s DEF ListMissesNothing
<1> QED
  BY <1>1, <1>2, <1>3, <1>4, <1>5, <1>6, <1>7

-----------------------------------------------------------------------------
(* What a sequence holds, as it is filled and emptied.                     *)
LEMMA SetOfEmpty == ToSet(<<>>) = {}
BY DEF ToSet

LEMMA SetOfAppend ==
    ASSUME NEW S, NEW s \in Seq(S), NEW e
    PROVE  ToSet(Append(s, e)) = ToSet(s) \cup {e}
<1>1. /\ Len(Append(s, e)) = Len(s) + 1
      /\ \A i \in 1..Len(s) : Append(s, e)[i] = s[i]
      /\ Append(s, e)[Len(s) + 1] = e
  OBVIOUS
<1>2. DOMAIN s = 1..Len(s) /\ DOMAIN Append(s, e) = 1..(Len(s) + 1) /\ Len(s) \in Nat
  BY <1>1
<1> QED
  BY <1>1, <1>2 DEF ToSet

LEMMA SetOfTail ==
    ASSUME NEW S, NEW s \in Seq(S), s # <<>>
    PROVE  ToSet(s) = {Head(s)} \cup ToSet(Tail(s))
<1>1. /\ Head(s) = s[1] /\ Len(Tail(s)) = Len(s) - 1 /\ Len(s) \in Nat \ {0}
      /\ \A i \in 1..Len(Tail(s)) : Tail(s)[i] = s[i + 1]
  OBVIOUS
<1>2. DOMAIN s = 1..Len(s) /\ DOMAIN Tail(s) = 1..(Len(s) - 1)
  BY <1>1
<1>3. ASSUME NEW i \in 1..Len(s)
      PROVE  s[i] \in {Head(s)} \cup ToSet(Tail(s))
  <2>1. CASE i = 1
    BY <1>1, <2>1
  <2>2. CASE i # 1
    <3>1. i - 1 \in 1..(Len(s) - 1) /\ (i - 1) + 1 = i
      BY <1>1, <2>2
    <3>2. s[i] = Tail(s)[i - 1]
      BY <1>1, <3>1
    <3> QED
      BY <1>2, <3>1, <3>2 DEF ToSet
  <2> QED
    BY <2>1, <2>2
<1>4. ASSUME NEW i \in 1..(Len(s) - 1)
      PROVE  Tail(s)[i] \in ToSet(s)
  <2>1. i + 1 \in 1..Len(s) /\ Tail(s)[i] = s[i + 1]
    BY <1>1
  <2> QED
    BY <1>2, <2>1 DEF ToSet
<1>5. Head(s) \in ToSet(s)
  BY <1>1, <1>2 DEF ToSet
<1>6. ToSet(s) \subseteq {Head(s)} \cup ToSet(Tail(s))
  BY <1>2, <1>3 DEF ToSet
<1>7. ToSet(Tail(s)) \subseteq ToSet(s)
  BY <1>2, <1>4 DEF ToSet
<1> QED
  BY <1>5, <1>6, <1>7

LEMMA SetOfSeq ==
    ASSUME NEW S, NEW s \in Seq(S)
    PROVE  ToSet(s) \subseteq S
BY DEF ToSet

(* DefaultItem is no item.                                                 *)
LEMMA NoItem ==
    /\ DefaultItem \notin Items
    /\ DefaultItem.type = None /\ DefaultItem.name = EmptyName
BY NoneAssumption DEF DefaultItem, Items

LEMMA CallTypes ==
    ASSUME NEW c \in Calls
    PROVE  /\ c.op \in Unary \cup {"get", "list"}
           /\ c.op # "delete" => c.type \in ItemTypes
           /\ c.op \in {"create", "update"} => Requested(c) \in Items
           /\ c.op = "get" => c.name \in Names \cup {EmptyName}
BY DEF Calls, Unary, Requested, Items

-----------------------------------------------------------------------------
(* The first step of a call and the last.                                  *)

LEMMA InvokeStep ==
    ASSUME ClientInv, NEW t \in Threads, Invoke(t)
    PROVE  ClientInv'
<1> USE DEF ClientInv, Invoke, Goto, streamVars, outVars
<1>1. TypeOK'
  BY DEF TypeOK
<1>2. MutexHeld'
  BY DEF MutexHeld, TypeOK, InFlight
<1>3. CallInv(t)'
  BY DEF CallInv, CallFits, Fresh, UnaryCall, OnTheWire, GetCall, GetMissesNothing, ListCall,
     ListMissesNothing, Reading, TypeOK
<1>4. ASSUME NEW u \in Threads, u # t
      PROVE  CallInv(u)'
  <2>1. SameCall(u) /\ db' = db /\ seen'[u] = seen[u]
    BY <1>4 DEF SameCall, TypeOK
  <2> QED
    BY <2>1, CallStays
<1> QED
  BY <1>1, <1>2, <1>3, <1>4

LEMMA CollectStep ==
    ASSUME ClientInv, NEW t \in Threads, Collect(t)
    PROVE  ClientInv'
<1> USE DEF ClientInv, Collect, Goto
<1>1. TypeOK'
  BY DEF TypeOK
<1>2. MutexHeld'
  BY DEF MutexHeld, TypeOK, InFlight
<1>3. CallInv(t)'
  BY DEF CallInv, CallFits, Fresh, UnaryCall, OnTheWire, GetCall, GetMissesNothing, ListCall,
     ListMissesNothing, Reading, TypeOK
<1>4. ASSUME NEW u \in Threads, u # t
      PROVE  CallInv(u)'
  <2>1. SameCall(u) /\ db' = db /\ seen'[u] = seen[u]
    BY <1>4 DEF SameCall, TypeOK
  <2> QED
    BY <2>1, CallStays
<1> QED
  BY <1>1, <1>2, <1>3, <1>4

LEMMA LockStep ==
    ASSUME ClientInv, NEW t \in Threads, LockAndSend(t)
    PROVE  ClientInv'
<1> USE DEF ClientInv, LockAndSend, Goto, serverVars, streamVars, outVars
<1>1. TypeOK'
  BY DEF TypeOK, InFlight
<1>2. MutexHeld'
  BY NoneAssumption DEF MutexHeld, TypeOK, InFlight
<1>3. CallInv(t)'
  <2>1. CallFits(t)' /\ Fresh(t)' /\ UnaryCall(t)'
    BY DEF CallInv, CallFits, Fresh, UnaryCall, TypeOK
  <2>2. OnTheWire(t)' /\ GetMissesNothing(t)' /\ ListMissesNothing(t)'
    BY DEF CallInv, Fresh, OnTheWire, GetMissesNothing, ListMissesNothing, Reading, TypeOK
  <2>3. /\ resp[t] = DefaultItem /\ status[t] = "none" /\ wire[t] = <<>>
        /\ item[t] = DefaultItem /\ out[t] = DefaultItem /\ outs[t] = <<>> /\ result[t] = "none"
        /\ call[t] \in Calls
    BY DEF CallInv, CallFits, Fresh
  <2>4. pc'[t] \in {"sent", "reading"}
    BY DEF TypeOK
  <2>5. UNCHANGED <<call, resp, status, wire, item, out, outs, result>>
    OBVIOUS
  <2>6. call[t].op = "get" => DefaultItem.type # call[t].type
    BY <2>3, NoItem, CallTypes, NoneAssumption
  <2>7. GetCall(t)'
    BY <2>3, <2>4, <2>5, <2>6 DEF GetCall, Reading
  <2>8. ListCall(t)'
    BY <2>3, <2>4, <2>5, SetOfEmpty DEF ListCall, Reading
  <2> QED
    BY <2>1, <2>2, <2>7, <2>8 DEF CallInv
<1>4. ASSUME NEW u \in Threads, u # t
      PROVE  CallInv(u)'
  <2>1. SameCall(u) /\ db' = db /\ seen'[u] = seen[u]
    BY <1>4 DEF SameCall, TypeOK
  <2> QED
    BY <2>1, CallStays
<1> QED
  BY <1>1, <1>2, <1>3, <1>4

-----------------------------------------------------------------------------
(* The ends of unary calls.                                                *)

(* The reply of a create is what was read of the server's answer.          *)
LEMMA CreateStep ==
    ASSUME ClientInv, NEW t \in Threads, CreateV1(t)
    PROVE  ClientInv'
<1> USE DEF ClientInv, CreateV1, Return, Goto, serverVars, streamVars
<1>1. TypeOK'
  <2>1. ContentAs(resp[t], call[t].type) \in Items \cup {DefaultItem}
    BY DEF TypeOK, ContentAs
  <2>2. out' \in [Threads -> Items \cup {DefaultItem}]
    BY <2>1 DEF TypeOK
  <2> QED
    BY <2>2 DEF TypeOK
<1>2. MutexHeld'
  BY NoneAssumption DEF MutexHeld, TypeOK, InFlight
<1>3. CallInv(t)'
  <2>1. CallFits(t)' /\ Fresh(t)'
    BY DEF CallInv, CallFits, Fresh, TypeOK
  <2>2. UnaryCall(t)'
    BY NoItem, NoneAssumption, CallTypes
       DEF CallInv, CallFits, UnaryCall, Reply, Unary, TypeOK, ContentAs, Seen
  <2>3. ~Reading(t)'
    BY DEF Reading, Unary
  <2> QED
    BY <2>1, <2>2, <2>3 DEF CallInv, OnTheWire, GetCall, GetMissesNothing, ListCall,
       ListMissesNothing
<1>4. ASSUME NEW u \in Threads, u # t
      PROVE  CallInv(u)'
  <2>1. SameCall(u) /\ db' = db /\ seen'[u] = seen[u]
    BY <1>4 DEF SameCall, TypeOK
  <2> QED
    BY <2>1, CallStays
<1> QED
  BY <1>1, <1>2, <1>3, <1>4

(* So is that of an update, or it has not been touched if that failed.     *)
LEMMA UpdateStep ==
    ASSUME ClientInv, NEW t \in Threads, UpdateV1(t)
    PROVE  ClientInv'
<1> USE DEF ClientInv, UpdateV1, Return, Goto, serverVars, streamVars
<1>1. TypeOK'
  <2>1. ContentAs(resp[t], call[t].type) \in Items \cup {DefaultItem}
    BY DEF TypeOK, ContentAs
  <2>2. out' \in [Threads -> Items \cup {DefaultItem}]
    <3>1. CASE out' = [out EXCEPT ![t] = ContentAs(resp[t], call[t].type)]
      BY <2>1, <3>1 DEF TypeOK
    <3>2. CASE UNCHANGED out
      BY <3>2 DEF TypeOK
    <3> QED
      BY <3>1, <3>2
  <2> QED
    BY <2>2 DEF TypeOK
<1>2. MutexHeld'
  BY NoneAssumption DEF MutexHeld, TypeOK, InFlight
<1>3. CallInv(t)'
  <2>1. CallFits(t)' /\ Fresh(t)'
    BY DEF CallInv, CallFits, Fresh, TypeOK
  <2>2. UnaryCall(t)'
    BY NoItem, NoneAssumption, CallTypes
       DEF CallInv, CallFits, UnaryCall, Reply, Unary, TypeOK, ContentAs, Seen
  <2>3. ~Reading(t)'
    BY DEF Reading, Unary
  <2> QED
    BY <2>1, <2>2, <2>3 DEF CallInv, OnTheWire, GetCall, GetMissesNothing, ListCall,
       ListMissesNothing
<1>4. ASSUME NEW u \in Threads, u # t
      PROVE  CallInv(u)'
  <2>1. SameCall(u) /\ db' = db /\ seen'[u] = seen[u]
    BY <1>4 DEF SameCall, TypeOK
  <2> QED
    BY <2>1, CallStays
<1> QED
  BY <1>1, <1>2, <1>3, <1>4

(* A delete has no reply.                                                  *)
LEMMA DeleteStep ==
    ASSUME ClientInv, NEW t \in Threads, DeleteV1(t)
    PROVE  ClientInv'
<1> USE DEF ClientInv, DeleteV1, Return, Goto, serverVars, streamVars
<1>1. TypeOK'
  BY DEF TypeOK
<1>2. MutexHeld'
  BY NoneAssumption DEF MutexHeld, TypeOK, InFlight
<1>3. CallInv(t)'
  <2>1. CallFits(t)' /\ Fresh(t)'
    BY DEF CallInv, CallFits, Fresh, TypeOK
  <2>2. UnaryCall(t)'
    BY NoItem, NoneAssumption, CallTypes
       DEF CallInv, CallFits, UnaryCall, Reply, Unary, TypeOK, ContentAs, Seen
  <2>3. ~Reading(t)'
    BY DEF Reading, Unary
  <2> QED
    BY <2>1, <2>2, <2>3 DEF CallInv, OnTheWire, GetCall, GetMissesNothing, ListCall,
       ListMissesNothing
<1>4. ASSUME NEW u \in Threads, u # t
      PROVE  CallInv(u)'
  <2>1. SameCall(u) /\ db' = db /\ seen'[u] = seen[u]
    BY <1>4 DEF SameCall, TypeOK
  <2> QED
    BY <2>1, CallStays
<1> QED
  BY <1>1, <1>2, <1>3, <1>4

(* A lookup's reply is the whole answer.                                   *)
LEMMA LookupStep ==
    ASSUME ClientInv, NEW t \in Threads, LookupV1(t)
    PROVE  ClientInv'
<1> USE DEF ClientInv, LookupV1, Return, Goto, serverVars, streamVars
<1>1. TypeOK'
  BY DEF TypeOK
<1>2. MutexHeld'
  BY NoneAssumption DEF MutexHeld, TypeOK, InFlight
<1>3. CallInv(t)'
  <2>1. CallFits(t)' /\ Fresh(t)'
    BY DEF CallInv, CallFits, Fresh, TypeOK
  <2>2. UnaryCall(t)'
    BY NoItem, NoneAssumption, CallTypes
       DEF CallInv, CallFits, UnaryCall, Reply, Unary, TypeOK, ContentAs, Seen
  <2>3. ~Reading(t)'
    BY DEF Reading, Unary
  <2> QED
    BY <2>1, <2>2, <2>3 DEF CallInv, OnTheWire, GetCall, GetMissesNothing, ListCall,
       ListMissesNothing
<1>4. ASSUME NEW u \in Threads, u # t
      PROVE  CallInv(u)'
  <2>1. SameCall(u) /\ db' = db /\ seen'[u] = seen[u]
    BY <1>4 DEF SameCall, TypeOK
  <2> QED
    BY <2>1, CallStays
<1> QED
  BY <1>1, <1>2, <1>3, <1>4

-----------------------------------------------------------------------------
(* The reads.                                                              *)

(* One item is taken off the wire.                                         *)
Taken(t) ==
    /\ wire[t] # <<>>
    /\ item' = [item EXCEPT ![t] = Head(wire[t])]
    /\ wire' = [wire EXCEPT ![t] = Tail(@)]

LEMMA TakeOne ==
    ASSUME TypeOK, NEW t \in Threads, Taken(t)
    PROVE  /\ wire' \in [Threads -> Seq(Items)] /\ item' \in [Threads -> Items \cup {DefaultItem}]
           /\ item'[t] \in Items /\ item'[t] = wire[t][1] /\ 1 \in 1..Len(wire[t])
           /\ \A i \in 1..Len(wire'[t]) :
                  /\ i + 1 \in 1..Len(wire[t]) /\ i + 1 # 1
                  /\ wire'[t][i] = wire[t][i + 1]
           /\ ToSet(wire[t]) = {item'[t]} \cup ToSet(wire'[t])
<1> DEFINE w == wire[t]
<1>1. w \in Seq(Items) /\ w # <<>> /\ wire'[t] = Tail(w) /\ item'[t] = Head(w)
  BY DEF TypeOK, Taken
<1> HIDE DEF w
<1>2. /\ Head(w) \in Items /\ Tail(w) \in Seq(Items) /\ Head(w) = w[1]
      /\ Len(w) \in Nat \ {0} /\ Len(Tail(w)) = Len(w) - 1
      /\ \A i \in 1..Len(Tail(w)) : Tail(w)[i] = w[i + 1]
  BY <1>1
<1>3. \A i \in 1..Len(Tail(w)) :
         /\ i + 1 \in 1..Len(w) /\ i + 1 # 1
         /\ Tail(w)[i] = w[i + 1]
  BY <1>2
<1>4. 1 \in 1..Len(w)
  BY <1>2
<1>5. ToSet(w) = {Head(w)} \cup ToSet(Tail(w))
  BY <1>1, SetOfTail
<1>6. wire' \in [Threads -> Seq(Items)] /\ item' \in [Threads -> Items \cup {DefaultItem}]
  BY <1>1, <1>2 DEF w, TypeOK, Taken
<1> QED
  BY <1>1, <1>2, <1>3, <1>4, <1>5, <1>6 DEF w

(* What is left on the wire is as it was, and has not the name of the item *)
(* that was taken.                                                         *)
LEMMA WireAfterTaking ==
    ASSUME TypeOK, NEW t \in Threads, Taken(t), OnTheWire(t), Reading(t), Reading(t)',
           UNCHANGED <<filters, seen, call, resp, status, visited>>
    PROVE  /\ OnTheWire(t)'
           /\ item'[t] \in Seen(t) /\ item'[t].name \in visited[t]
           /\ filters => Matches(item'[t], call[t])
           /\ \A i \in 1..Len(wire'[t]) : wire'[t][i].name # item'[t].name
<1>1. \A i \in 1..Len(wire[t]) :
         /\ wire[t][i] \in Seen(t)
         /\ wire[t][i].name \in visited[t]
         /\ filters => Matches(wire[t][i], call[t])
         /\ \A j \in 1..Len(wire[t]) : wire[t][j].name = wire[t][i].name => i = j
  BY DEF OnTheWire
<1>2. ASSUME NEW i \in 1..Len(wire'[t])
      PROVE  /\ wire'[t][i] \in Seen(t)
             /\ wire'[t][i].name \in visited[t]
             /\ filters => Matches(wire'[t][i], call[t])
  <2>1. i + 1 \in 1..Len(wire[t]) /\ wire'[t][i] = wire[t][i + 1]
    BY TakeOne
  <2> QED
    BY <1>1, <2>1
<1>3. ASSUME NEW i \in 1..Len(wire'[t]), NEW j \in 1..Len(wire'[t]),
             wire'[t][j].name = wire'[t][i].name
      PROVE  i = j
  <2>1. /\ i + 1 \in 1..Len(wire[t]) /\ j + 1 \in 1..Len(wire[t])
        /\ wire[t][i + 1] = wire'[t][i] /\ wire[t][j + 1] = wire'[t][j]
    BY TakeOne
  <2>2. i + 1 = j + 1
    BY <1>1, <1>3, <2>1
  <2> QED
    BY <2>2
<1>4. item'[t] \in Seen(t) /\ item'[t].name \in visited[t]
      /\ (filters => Matches(item'[t], call[t]))
  BY <1>1, TakeOne
<1>5. \A i \in 1..Len(wire'[t]) : wire'[t][i].name # item'[t].name
  BY <1>1, TakeOne
<1> QED
  BY <1>2, <1>3, <1>4, <1>5 DEF OnTheWire, Seen

(* A read of a name takes an item: it is of its type, or it reads on.      *)
LEMMA ReadNamedStep ==
    ASSUME ClientInv, NEW t \in Threads, ReadNamed(t)
    PROVE  ClientInv'
<1> USE DEF ClientInv, ReadNamed, Goto, serverVars
<1>1. TypeOK'
  <2>1. wire' \in [Threads -> Seq(Items)] /\ item' \in [Threads -> Items \cup {DefaultItem}]
    BY TakeOne DEF Taken
  <2>2. out' \in [Threads -> Items \cup {DefaultItem}]
    BY <2>1 DEF TypeOK
  <2>3. pc' \in [Threads -> {"idle", "lock", "done"} \cup InFlight]
    <3>1. /\ pc \in [Threads -> {"idle", "lock", "done"} \cup InFlight]
          /\ "finish" \in InFlight
      BY DEF TypeOK, InFlight
    <3>2. pc' = [pc EXCEPT ![t] = "finish"] \/ pc' = pc
      OBVIOUS
    <3> HIDE DEF ClientInv, ReadNamed
    <3> QED
      BY <3>1, <3>2
  <2> QED
    BY <2>1, <2>2, <2>3 DEF TypeOK
<1>2. MutexHeld'
  BY NoneAssumption DEF MutexHeld, TypeOK, InFlight
<1>3. CallInv(t)'
  <2>1. CallFits(t)' /\ Fresh(t)' /\ UnaryCall(t)'
    BY DEF CallInv, CallFits, Fresh, UnaryCall, Unary, TypeOK
  <2>t. Taken(t) /\ TypeOK /\ Reading(t) /\ Reading(t)'
    BY DEF Taken, Reading, Unary, TypeOK
  <2>2. /\ OnTheWire(t)'
        /\ item'[t] \in Seen(t) /\ item'[t].name \in visited[t]
        /\ filters => Matches(item'[t], call[t])
        /\ \A i \in 1..Len(wire'[t]) : wire'[t][i].name # item'[t].name
    <3>1. OnTheWire(t) /\ UNCHANGED <<filters, seen, call, resp, status, visited>>
      BY DEF CallInv
    <3> QED
      BY <2>t, <3>1, WireAfterTaking
  <2>3. GetCall(t)'
    <3>1. CASE /\ item'[t].type = call[t].type /\ out'[t] = item'[t] /\ pc'[t] = "finish"
      BY <2>2, <3>1 DEF CallInv, GetCall, Reading, Unary, TypeOK, Seen
    <3>2. CASE /\ item'[t].type # call[t].type /\ UNCHANGED <<out, pc>>
      BY <3>2 DEF CallInv, GetCall, Reading, Unary, TypeOK
    <3> QED
      BY <3>1, <3>2 DEF TypeOK
  <2>4. GetMissesNothing(t)'
    <3>1. filters => out'[t] = item'[t]
      BY <2>2 DEF TypeOK, Matches
    <3>2. item'[t] # DefaultItem
      BY <2>t, TakeOne, NoItem
    <3> QED
      BY <3>1, <3>2 DEF GetMissesNothing
  <2>5. ListCall(t)' /\ ListMissesNothing(t)'
    BY DEF ListCall, ListMissesNothing
  <2> QED
    BY <2>1, <2>2, <2>3, <2>4, <2>5 DEF CallInv
<1>4. ASSUME NEW u \in Threads, u # t
      PROVE  CallInv(u)'
  <2>1. SameCall(u) /\ db' = db /\ seen'[u] = seen[u]
    BY <1>4 DEF SameCall, TypeOK
  <2> QED
    BY <2>1, CallStays
<1> QED
  BY <1>1, <1>2, <1>3, <1>4

(* A list takes an item and keeps it if it is of its type.                 *)
LEMMA ReadListStep ==
    ASSUME ClientInv, NEW t \in Threads, ReadList(t)
    PROVE  ClientInv'
<1> USE DEF ClientInv, ReadList, Goto, serverVars
<1>1. TypeOK'
  <2>1. /\ wire' \in [Threads -> Seq(Items)] /\ item' \in [Threads -> Items \cup {DefaultItem}]
        /\ item'[t] \in Items
    BY TakeOne DEF Taken
  <2>2. \A s \in Seq(Items) : Append(s, item'[t]) \in Seq(Items)
    BY <2>1
  <2>3. outs' \in [Threads -> Seq(Items)]
    <3>1. outs \in [Threads -> Seq(Items)]
      BY DEF TypeOK
    <3>2. Append(outs[t], item'[t]) \in Seq(Items)
      BY <2>2, <3>1
    <3>3. outs' = [outs EXCEPT ![t] = Append(outs[t], item'[t])] \/ outs' = outs
      OBVIOUS
    <3> HIDE DEF ClientInv, ReadList
    <3> QED
      BY <3>1, <3>2, <3>3
  <2> QED
    BY <2>1, <2>3 DEF TypeOK
<1>2. MutexHeld'
  BY NoneAssumption DEF MutexHeld, TypeOK, InFlight
<1>3. CallInv(t)'
  <2>1. CallFits(t)' /\ Fresh(t)' /\ UnaryCall(t)'
    BY DEF CallInv, CallFits, Fresh, UnaryCall, Unary, TypeOK
  <2>t. Taken(t) /\ TypeOK /\ Reading(t) /\ Reading(t)'
    BY DEF Taken, Reading, Unary, TypeOK
  <2>2. /\ OnTheWire(t)'
        /\ item'[t] \in Seen(t) /\ item'[t].name \in visited[t]
        /\ filters => Matches(item'[t], call[t])
        /\ \A i \in 1..Len(wire'[t]) : wire'[t][i].name # item'[t].name
    <3>1. OnTheWire(t) /\ UNCHANGED <<filters, seen, call, resp, status, visited>>
      BY DEF CallInv
    <3> QED
      BY <2>t, <3>1, WireAfterTaking
  <2>3. GetCall(t)' /\ GetMissesNothing(t)'
    BY DEF GetCall, GetMissesNothing
  <2>4. ToSet(wire[t]) = {item'[t]} \cup ToSet(wire'[t])
    BY <2>t, TakeOne
  <2>5. ToSet(outs'[t]) = IF item'[t].type = call[t].type
                          THEN ToSet(outs[t]) \cup {item'[t]} ELSE ToSet(outs[t])
    <3>1. outs[t] \in Seq(Items)
      BY DEF TypeOK
    <3>2. outs'[t] = IF item'[t].type = call[t].type THEN Append(outs[t], item'[t]) ELSE outs[t]
      BY DEF TypeOK
    <3>3. ToSet(Append(outs[t], item'[t])) = ToSet(outs[t]) \cup {item'[t]}
      BY <3>1, SetOfAppend, Zenon
    <3> HIDE DEF ClientInv, ReadList
    <3> QED
      BY <3>2, <3>3
  <2>6. ListCall(t)'
    BY <2>2, <2>5 DEF CallInv, ListCall, Reading, TypeOK, Seen, Wanted, Matches
  <2>7. ListMissesNothing(t)'
    <3>1. ASSUME NEW it \in Items, it.name \in visited[t], status[t] # "error",
                 \A d \in seen[t] : it \in Wanted(d, call[t])
          PROVE  it \in ToSet(wire'[t]) \cup ToSet(outs'[t])
      <4>1. it \in ToSet(wire[t]) \cup ToSet(outs[t])
        BY <2>t, <3>1 DEF CallInv, ListMissesNothing
      <4>2. it.type = call[t].type
        BY <3>1 DEF CallInv, CallFits, Wanted, Matches
      <4> QED
        BY <2>4, <2>5, <4>1, <4>2
    <3> QED
      BY <3>1 DEF ListMissesNothing
  <2> QED
    BY <2>1, <2>2, <2>3, <2>6, <2>7 DEF CallInv
<1>4. ASSUME NEW u \in Threads, u # t
      PROVE  CallInv(u)'
  <2>1. SameCall(u) /\ db' = db /\ seen'[u] = seen[u]
    BY <1>4 DEF SameCall, TypeOK
  <2> QED
    BY <2>1, CallStays
<1> QED
  BY <1>1, <1>2, <1>3, <1>4

(* A stream that has ended and is empty.                                   *)
LEMMA ReadEndStep ==
    ASSUME ClientInv, NEW t \in Threads, ReadEnd(t)
    PROVE  ClientInv'
<1> USE DEF ClientInv, ReadEnd, Goto, serverVars, streamVars, outVars
<1>1. TypeOK'
  BY DEF TypeOK, InFlight
<1>2. MutexHeld'
  BY NoneAssumption DEF MutexHeld, TypeOK, InFlight
<1>3. CallInv(t)'
  <2>1. CallFits(t)' /\ Fresh(t)' /\ UnaryCall(t)'
    BY DEF CallInv, CallFits, Fresh, UnaryCall, Unary, TypeOK
  <2>2. OnTheWire(t)'
    BY DEF CallInv, OnTheWire, Reading, TypeOK, Seen
  <2>3. GetCall(t)'
    BY NoItem DEF CallInv, GetCall, Reading, TypeOK, Seen
  <2>4. GetMissesNothing(t)' /\ ListMissesNothing(t)'
    BY DEF CallInv, GetMissesNothing, ListMissesNothing, Reading, TypeOK
  <2>5. ListCall(t)'
    BY DEF CallInv, ListCall, Reading, TypeOK, Seen
  <2> QED
    BY <2>1, <2>2, <2>3, <2>4, <2>5 DEF CallInv
<1>4. ASSUME NEW u \in Threads, u # t
      PROVE  CallInv(u)'
  <2>1. SameCall(u) /\ db' = db /\ seen'[u] = seen[u]
    BY <1>4 DEF SameCall, TypeOK
  <2> QED
    BY <2>1, CallStays
<1> QED
  BY <1>1, <1>2, <1>3, <1>4

(* A read of a name compares names when it ends.                           *)
LEMMA FinishNamedStep ==
    ASSUME ClientInv, NEW t \in Threads, FinishNamed(t)
    PROVE  ClientInv'
<1> USE DEF ClientInv, FinishNamed, Return, Goto, serverVars, streamVars
<1>1. TypeOK'
  BY DEF TypeOK
<1>2. MutexHeld'
  BY NoneAssumption DEF MutexHeld, TypeOK, InFlight
<1>3. CallInv(t)'
  <2>1. CallFits(t)' /\ Fresh(t)' /\ UnaryCall(t)'
    BY DEF CallInv, CallFits, Fresh, UnaryCall, Unary, TypeOK
  <2>2. OnTheWire(t)'
    BY DEF CallInv, OnTheWire, Reading, TypeOK, Seen
  <2>3. GetCall(t)'
    BY NoItem DEF CallInv, GetCall, Reading, TypeOK, Seen
  <2>4. GetMissesNothing(t)' /\ ListMissesNothing(t)'
    BY DEF CallInv, GetMissesNothing, ListMissesNothing, Reading, TypeOK
  <2>5. ListCall(t)'
    BY DEF CallInv, ListCall, Reading, TypeOK, Seen
  <2> QED
    BY <2>1, <2>2, <2>3, <2>4, <2>5 DEF CallInv
<1>4. ASSUME NEW u \in Threads, u # t
      PROVE  CallInv(u)'
  <2>1. SameCall(u) /\ db' = db /\ seen'[u] = seen[u]
    BY <1>4 DEF SameCall, TypeOK
  <2> QED
    BY <2>1, CallStays
<1> QED
  BY <1>1, <1>2, <1>3, <1>4

(* A list ends.                                                            *)
LEMMA FinishListStep ==
    ASSUME ClientInv, NEW t \in Threads, FinishList(t)
    PROVE  ClientInv'
<1> USE DEF ClientInv, FinishList, Return, Goto, serverVars, streamVars
<1>1. TypeOK'
  BY DEF TypeOK
<1>2. MutexHeld'
  BY NoneAssumption DEF MutexHeld, TypeOK, InFlight
<1>3. CallInv(t)'
  <2>1. CallFits(t)' /\ Fresh(t)' /\ UnaryCall(t)'
    BY DEF CallInv, CallFits, Fresh, UnaryCall, Unary, TypeOK
  <2>2. OnTheWire(t)'
    BY DEF CallInv, OnTheWire, Reading, TypeOK, Seen
  <2>3. GetCall(t)'
    BY NoItem DEF CallInv, GetCall, Reading, TypeOK, Seen
  <2>4. GetMissesNothing(t)' /\ ListMissesNothing(t)'
    BY DEF CallInv, GetMissesNothing, ListMissesNothing, Reading, TypeOK
  <2>5. ListCall(t)'
    BY DEF CallInv, ListCall, Reading, TypeOK, Seen
  <2> QED
    BY <2>1, <2>2, <2>3, <2>4, <2>5 DEF CallInv
<1>4. ASSUME NEW u \in Threads, u # t
      PROVE  CallInv(u)'
  <2>1. SameCall(u) /\ db' = db /\ seen'[u] = seen[u]
    BY <1>4 DEF SameCall, TypeOK
  <2> QED
    BY <2>1, CallStays
<1> QED
  BY <1>1, <1>2, <1>3, <1>4

-----------------------------------------------------------------------------
(* The server and the network.                                             *)

(* A change leaves a set of items with unique names.                       *)
LEMMA Replaced ==
    ASSUME NEW d \in Databases, NEW it \in Items, NEW gone \in SUBSET d,
           Named(d, it.name) \subseteq gone
    PROVE  (d \ gone) \cup {it} \in Databases
BY DEF Databases, UniqueNames, Named

LEMMA Removed ==
    ASSUME NEW d \in Databases, NEW gone
    PROVE  d \ gone \in Databases
BY DEF Databases, UniqueNames

LEMMA OneOfAName ==
    ASSUME NEW d \in Databases, NEW it \in d
    PROVE  it \in Items /\ Named(d, it.name) = {it}
BY DEF Databases, UniqueNames, Named

(* What the server answers to a call it carries out is there after it, but *)
(* for a delete, which has no answer.                                      *)
LEMMA CarriedOut ==
    ASSUME NEW c \in Calls, NEW d \in Databases, NEW e, NEW reply, Carries(c, d, e, reply)
    PROVE  /\ e \in Databases
           /\ IF c.op = "delete" THEN reply = DefaultItem
              ELSE /\ reply \in e /\ reply.type = c.type
                   /\ c.op # "lookup" => reply = Requested(c)
<1>1. CASE /\ c.op = "create" /\ Named(d, c.name) = {}
           /\ e = d \cup {Requested(c)} /\ reply = Requested(c)
  <2>1. Requested(c) \in Items /\ Requested(c).name = c.name /\ Requested(c).type = c.type
    BY <1>1, CallTypes DEF Requested
  <2>2. (d \ {}) \cup {Requested(c)} \in Databases
    BY <1>1, <2>1, Replaced
  <2> QED
    BY <1>1, <2>1, <2>2
<1>2. ASSUME c.op = "update", reply = Requested(c), NEW it \in Named(d, c.name),
             e = (d \ {it}) \cup {Requested(c)}
      PROVE  e \in Databases /\ reply \in e /\ reply.type = c.type
  <2>1. Requested(c) \in Items /\ Requested(c).name = c.name /\ Requested(c).type = c.type
    BY <1>2, CallTypes DEF Requested
  <2>2. it \in d /\ it.name = c.name /\ Named(d, c.name) = {it}
    BY OneOfAName DEF Named
  <2>3. e \in Databases
    BY <1>2, <2>1, <2>2, Replaced
  <2> QED
    BY <1>2, <2>1, <2>3
<1>3. CASE c.op = "delete" /\ e = d \ Named(d, c.name) /\ reply = DefaultItem
  BY <1>3, Removed
<1>4. CASE c.op = "lookup" /\ e = d /\ \E it \in d : it.type = c.type /\ reply = it
  BY <1>4
<1> QED
  BY <1>1, <1>2, <1>3, <1>4 DEF Carries

(* Other clients change the items under every call.                        *)
LEMMA OtherClientStep ==
    ASSUME ClientInv, OtherClient
    PROVE  ClientInv'
<1> USE DEF ClientInv, OtherClient, Record, streamVars, outVars
<1>1. db' \in Databases
  <2>1. ASSUME NEW it \in Items, db' = (db \ Named(db, it.name)) \cup {it}
        PROVE  db' \in Databases
    BY <2>1, Replaced DEF TypeOK, Named
  <2>2. ASSUME NEW it \in db, db' = db \ {it}
        PROVE  db' \in Databases
    BY <2>2, Removed DEF TypeOK
  <2> QED
    BY <2>1, <2>2
<1>2. changes' \in 0..MaxChanges
  BY BoundAssumption DEF TypeOK
<1>3. TypeOK'
  BY <1>1, <1>2 DEF TypeOK
<1>4. MutexHeld'
  BY DEF MutexHeld
<1>5. ASSUME NEW t \in Threads
      PROVE  CallInv(t)'
  <2>1. SameCall(t) /\ seen'[t] = IF pc[t] = "idle" THEN {} ELSE seen[t] \cup {db'}
    BY DEF SameCall
  <2> QED
    BY <2>1, SeenGrows
<1> QED
  BY <1>3, <1>4, <1>5

(* The server carries out a call: once, for the status is set with it.     *)
LEMMA ServerApplyStep ==
    ASSUME ClientInv, NEW t \in Threads, ServerApply(t)
    PROVE  ClientInv'
<1> USE DEF ClientInv, ServerApply, Record, streamVars, outVars
<1>1. call[t] \in Calls /\ call[t].op \in Unary /\ effects[t] = 0
  BY DEF CallInv, CallFits, UnaryCall
<1>2. PICK reply \in Items \cup {DefaultItem} :
           Carries(call[t], db, db', reply) /\ resp' = [resp EXCEPT ![t] = reply]
  OBVIOUS
<1>3. /\ db' \in Databases
      /\ IF call[t].op = "delete" THEN reply = DefaultItem
         ELSE /\ reply \in db' /\ reply.type = call[t].type
              /\ call[t].op # "lookup" => reply = Requested(call[t])
  BY <1>1, <1>2, CarriedOut DEF TypeOK
<1>4. TypeOK'
  <2>1. seen' \in [Threads -> SUBSET Databases]
    BY <1>3 DEF TypeOK
  <2>2. effects' \in [Threads -> 0..1]
    BY <1>1 DEF TypeOK
  <2>3. resp' \in [Threads -> Items \cup {DefaultItem}]
    BY <1>2 DEF TypeOK
  <2> QED
    BY <1>3, <2>1, <2>2, <2>3 DEF TypeOK
<1>5. MutexHeld'
  BY DEF MutexHeld
<1>6. CallInv(t)'
  <2>1. /\ resp'[t] = reply /\ status'[t] = "ok" /\ effects'[t] = 1
        /\ seen'[t] = seen[t] \cup {db'}
    BY <1>1, <1>2 DEF TypeOK
  <2>2. CallFits(t)' /\ Fresh(t)'
    BY <2>1 DEF CallInv, CallFits, Fresh
  <2>3. Reply(t)'
    BY <1>3, <2>1 DEF Reply, Seen
  <2>4. UnaryCall(t)'
    BY <2>1, <2>3 DEF CallInv, UnaryCall
  <2>5. ~Reading(t)'
    BY <1>1 DEF Reading
  <2> QED
    BY <2>2, <2>4, <2>5 DEF CallInv, OnTheWire, GetCall, GetMissesNothing, ListCall,
       ListMissesNothing
<1>7. ASSUME NEW u \in Threads, u # t
      PROVE  CallInv(u)'
  <2>1. SameCall(u) /\ seen'[u] = IF pc[u] = "idle" THEN {} ELSE seen[u] \cup {db'}
    BY <1>2, <1>7 DEF SameCall, TypeOK
  <2> QED
    BY <2>1, SeenGrows
<1> QED
  BY <1>4, <1>5, <1>6, <1>7

(* A broken stream keeps a prefix of what was on the wire.                 *)
LEMMA RpcErrorStep ==
    ASSUME ClientInv, NEW t \in Threads, RpcError(t)
    PROVE  ClientInv'
<1> USE DEF ClientInv, RpcError, serverVars, outVars
<1>1. PICK n \in 0..Len(wire[t]) : wire' = [wire EXCEPT ![t] = SubSeq(@, 1, n)]
  OBVIOUS
<1>2. /\ wire'[t] \in Seq(Items)
      /\ Len(wire'[t]) \in 0..Len(wire[t])
      /\ \A i \in 1..Len(wire'[t]) : i \in 1..Len(wire[t]) /\ wire'[t][i] = wire[t][i]
  <2> DEFINE w == wire[t]
             p == SubSeq(w, 1, n)
  <2>1. w \in Seq(Items) /\ n \in 0..Len(w) /\ wire'[t] = p
    BY <1>1 DEF TypeOK
  <2>2. p \in Seq(Items) /\ Len(p) = n /\ Len(w) \in Nat
        /\ \A i \in 1..n : p[i] = w[i]
    <3> HIDE DEF w
    <3> QED
      BY <2>1
  <2> HIDE DEF p
  <2> QED
    BY <2>1, <2>2
<1>3. TypeOK'
  <2>1. wire' \in [Threads -> Seq(Items)]
    BY <1>1, <1>2 DEF TypeOK
  <2> QED
    BY <2>1 DEF TypeOK
<1>4. MutexHeld'
  BY DEF MutexHeld
<1>5. CallInv(t)'
  <2>1. status'[t] = "error" /\ resp'[t] \in {resp[t], DefaultItem}
    BY DEF TypeOK
  <2>2. wire[t] = <<>> => wire'[t] = <<>>
    BY <1>2
  <2>3. CallFits(t)' /\ Fresh(t)'
    BY <2>1, <2>2 DEF CallInv, CallFits, Fresh
  <2>8. UnaryCall(t)'
    <3>1. SUFFICES ASSUME pc[t] = "sent", call[t].op \in Unary
                   PROVE  UnaryCall(t)'
      BY DEF UnaryCall
    <3>2. /\ UnaryCall(t) /\ pc' = pc /\ Seen(t)' = Seen(t) /\ status[t] # "error"
          /\ UNCHANGED <<call, out, outs, result, effects>>
      BY DEF CallInv, Seen
    <3>3. resp'[t] # DefaultItem => resp'[t] = resp[t] /\ effects[t] = 1 /\ Reply(t)
      BY <2>1, <3>1, <3>2 DEF UnaryCall
    <3>4. resp'[t] # DefaultItem => Reply(t)'
      BY <3>2, <3>3 DEF Reply
    <3> QED
      BY <2>1, <2>2, <3>1, <3>2, <3>3, <3>4 DEF UnaryCall
  <2>4. OnTheWire(t)'
    <3>1. /\ OnTheWire(t) /\ Reading(t)' = Reading(t) /\ Seen(t)' = Seen(t)
          /\ UNCHANGED <<filters, call, visited>>
      BY DEF CallInv, Reading, Seen
    <3> HIDE DEF ClientInv, RpcError
    <3> QED
      BY <1>2, <2>1, <3>1 DEF OnTheWire, Matches
  <2>5. GetCall(t)'
    <3>1. /\ GetCall(t) /\ pc' = pc /\ pc[t] # "done" /\ Seen(t)' = Seen(t)
          /\ UNCHANGED <<filters, call, visited, item, out, outs, result>>
      BY DEF CallInv, Seen
    <3> HIDE DEF ClientInv, RpcError
    <3> QED
      BY <1>2, <2>1, <2>2, <3>1 DEF GetCall, Reading
  <2>6. ListCall(t)'
    BY <2>1, <2>2 DEF CallInv, ListCall, Reading, Seen
  <2>7. GetMissesNothing(t)' /\ ListMissesNothing(t)'
    BY <2>1 DEF GetMissesNothing, ListMissesNothing
  <2> QED
    BY <2>3, <2>4, <2>5, <2>6, <2>7, <2>8 DEF CallInv
<1>6. ASSUME NEW u \in Threads, u # t
      PROVE  CallInv(u)'
  <2>1. SameCall(u) /\ db' = db /\ seen'[u] = seen[u]
    BY <1>1, <1>6 DEF SameCall, TypeOK
  <2> QED
    BY <2>1, CallStays
<1> QED
  BY <1>3, <1>4, <1>5, <1>6

(* The server comes by a name: it sends the item it has there now, which   *)
(* it has to do if the item was asked for.                                 *)
LEMMA ServerStreamStep ==
    ASSUME ClientInv, NEW t \in Threads, ServerStream(t)
    PROVE  ClientInv'
<1> USE DEF ClientInv, ServerStream, serverVars, outVars
<1>1. PICK n \in Names \ visited[t] :
          /\ visited' = [visited EXCEPT ![t] = @ \cup {n}]
          /\ \/ \E it \in Named(db, n) :
                    /\ filters => Matches(it, call[t])
                    /\ wire' = [wire EXCEPT ![t] = Append(@, it)]
             \/ /\ \A it \in Named(db, n) : ~Matches(it, call[t])
                /\ UNCHANGED wire
  OBVIOUS
<1>2. /\ visited'[t] = visited[t] \cup {n}
      /\ db \in seen[t] /\ db \in Databases
      /\ Reading(t) /\ Reading(t)'
      /\ pc[t] \in {"reading", "finish"} /\ status[t] = "none"
      /\ UNCHANGED <<filters, pc, call, resp, status, item, out, outs, result, seen, effects>>
      /\ wire[t] \in Seq(Items) /\ outs[t] \in Seq(Items)
  BY <1>1 DEF TypeOK, CallInv, CallFits, Reading
<1>3. visited' \in [Threads -> SUBSET Names]
  BY <1>1 DEF TypeOK
<1>4. MutexHeld'
  BY DEF MutexHeld
<1>5. CallFits(t)' /\ Fresh(t)' /\ UnaryCall(t)'
  BY <1>2 DEF CallInv, CallFits, Fresh, UnaryCall, Reading
<1>6. \A it \in Named(db, n) : it \in Items /\ it.name = n /\ it \in Seen(t) /\ Named(db, n) = {it}
  BY <1>2, OneOfAName DEF Named, Seen
<1>7. ASSUME \A it \in Named(db, n) : ~Matches(it, call[t]), UNCHANGED wire
      PROVE  TypeOK' /\ CallInv(t)'
  <2>1. TypeOK'
    BY <1>3, <1>7 DEF TypeOK
  <2>2. CallInv(t) /\ wire' = wire /\ Seen(t)' = Seen(t)
    BY <1>2, <1>7 DEF Seen
  <2>3. OnTheWire(t)' /\ GetCall(t)' /\ ListCall(t)'
    <3> HIDE DEF ClientInv, ServerStream
    <3>1. OnTheWire(t)'
      BY <1>2, <2>2 DEF CallInv, OnTheWire
    <3>2. GetCall(t)'
      BY <1>2, <2>2 DEF CallInv, GetCall
    <3>3. ListCall(t)'
      BY <1>2, <2>2 DEF CallInv, ListCall
    <3> QED
      BY <3>1, <3>2, <3>3
  <2>4. GetMissesNothing(t)'
    <3>1. call[t].op = "get" /\ call[t].name = n => Wanted(db, call[t]) = {}
      BY <1>7 DEF Wanted, Matches, Named
    <3> QED
      BY <1>2, <1>7, <3>1 DEF CallInv, GetMissesNothing
  <2>5. ListMissesNothing(t)'
    <3>1. ASSUME NEW it \in Items, it.name = n
          PROVE  it \notin Wanted(db, call[t])
      BY <1>7, <3>1 DEF Wanted, Named
    <3> QED
      BY <1>2, <1>7, <3>1 DEF CallInv, ListMissesNothing
  <2> QED
    BY <1>5, <2>1, <2>3, <2>4, <2>5 DEF CallInv
<1>8. ASSUME NEW it \in Named(db, n), filters => Matches(it, call[t]),
             wire' = [wire EXCEPT ![t] = Append(@, it)]
      PROVE  TypeOK' /\ CallInv(t)'
  <2>1. /\ it \in Items /\ it.name = n /\ it \in Seen(t) /\ Named(db, n) = {it}
        /\ it.name \notin visited[t]
    BY <1>6
  <2>2. wire'[t] = Append(wire[t], it) /\ wire \in [Threads -> Seq(Items)]
    BY <1>8 DEF TypeOK
  <2>3. /\ wire'[t] \in Seq(Items) /\ Len(wire[t]) \in Nat
        /\ Len(wire'[t]) = Len(wire[t]) + 1
        /\ \A i \in 1..Len(wire[t]) : wire'[t][i] = wire[t][i]
        /\ wire'[t][Len(wire[t]) + 1] = it
        /\ wire'[t] # <<>>
        /\ ToSet(wire'[t]) = ToSet(wire[t]) \cup {it}
    <3> DEFINE w == wire[t]
    <3>1. w \in Seq(Items) /\ wire'[t] = Append(w, it)
      BY <1>2, <2>2
    <3> HIDE DEF w
    <3>2. ToSet(Append(w, it)) = ToSet(w) \cup {it}
      BY <3>1, SetOfAppend
    <3>3. /\ Append(w, it) \in Seq(Items) /\ Len(w) \in Nat
          /\ Len(Append(w, it)) = Len(w) + 1
          /\ \A i \in 1..Len(w) : Append(w, it)[i] = w[i]
          /\ Append(w, it)[Len(w) + 1] = it
      BY <2>1, <3>1
    <3>4. Append(w, it) # <<>>
      BY <3>3
    <3> QED
      BY <3>1, <3>2, <3>3, <3>4 DEF w
  <2>4. TypeOK'
    <3>1. wire' \in [Threads -> Seq(Items)]
      BY <1>8, <2>2, <2>3
    <3> QED
      BY <1>3, <3>1 DEF TypeOK
  <2>5. OnTheWire(t)'
    <3>1. \A i \in 1..Len(wire[t]) :
              /\ wire[t][i] \in Seen(t)
              /\ wire[t][i].name \in visited[t]
              /\ filters => Matches(wire[t][i], call[t])
              /\ \A j \in 1..Len(wire[t]) : wire[t][j].name = wire[t][i].name => i = j
      BY <1>2 DEF CallInv, OnTheWire
    <3>7. resp[t] = DefaultItem
      BY <1>2 DEF CallInv, OnTheWire
    <3> HIDE DEF ClientInv, ServerStream
    <3>2. ASSUME NEW i \in 1..Len(wire'[t])
          PROVE  \/ i = Len(wire[t]) + 1 /\ wire'[t][i] = it
                 \/ i \in 1..Len(wire[t]) /\ wire'[t][i] = wire[t][i]
      BY <2>3
    <3>3. ASSUME NEW i \in 1..Len(wire'[t])
          PROVE  /\ wire'[t][i] \in Seen(t)
                 /\ wire'[t][i].name \in visited'[t]
                 /\ filters => Matches(wire'[t][i], call[t])
      BY <1>2, <1>8, <2>1, <3>1, <3>2
    <3>4. ASSUME NEW i \in 1..Len(wire'[t]), NEW j \in 1..Len(wire'[t]),
                 wire'[t][j].name = wire'[t][i].name
          PROVE  i = j
      <4>1. \A k \in 1..Len(wire[t]) : wire[t][k].name # it.name
        BY <2>1, <3>1
      <4> QED
        BY <3>1, <3>2, <3>4, <4>1
    <3>5. Seen(t)' = Seen(t)
      BY <1>2 DEF Seen
    <3> QED
      BY <1>2, <3>3, <3>4, <3>5, <3>7 DEF OnTheWire, Matches
  <2>6. GetCall(t)'
    <3>1. SUFFICES ASSUME call[t].op = "get"
                   PROVE  GetCall(t)'
      BY <1>2 DEF GetCall
    <3>2. CASE pc[t] = "reading"
      BY <1>2, <3>1, <3>2 DEF CallInv, GetCall
    <3>3. CASE pc[t] = "finish"
      <4>1. /\ outs[t] = <<>> /\ out[t] = item[t] /\ out[t].type = call[t].type
            /\ out[t] \in Seen(t) /\ out[t].name \in visited[t]
            /\ filters => Matches(out[t], call[t])
            /\ \A i \in 1..Len(wire[t]) : wire[t][i].name # out[t].name
            /\ result[t] = "none"
        BY <1>2, <3>1, <3>3 DEF CallInv, GetCall
      <4>2. \A i \in 1..Len(wire'[t]) : wire'[t][i].name # out[t].name
        <5>1. ASSUME NEW i \in 1..Len(wire'[t])
              PROVE  i = Len(wire[t]) + 1 \/ i \in 1..Len(wire[t])
          BY <2>3
        <5> QED
          BY <2>1, <2>3, <4>1, <5>1
      <4> QED
        BY <1>2, <3>3, <4>1, <4>2 DEF GetCall, Seen
    <3> QED
      BY <1>2, <3>2, <3>3
  <2>7. GetMissesNothing(t)'
    BY <2>3 DEF GetMissesNothing
  <2>8. ListCall(t)'
    BY <1>2 DEF CallInv, ListCall, Seen
  <2>9. ListMissesNothing(t)'
    <3>1. ASSUME NEW x \in Items, x.name = n, x \in Wanted(db, call[t])
          PROVE  x = it
      BY <2>1, <3>1 DEF Wanted, Named
    <3> QED
      BY <1>2, <2>3, <3>1 DEF CallInv, ListMissesNothing
  <2> QED
    BY <1>5, <2>4, <2>5, <2>6, <2>7, <2>8, <2>9 DEF CallInv
<1>9. ASSUME NEW u \in Threads, u # t
      PROVE  CallInv(u)'
  <2>1. SameCall(u) /\ db' = db /\ seen'[u] = seen[u]
    BY <1>1, <1>9 DEF SameCall, TypeOK
  <2> QED
    BY <2>1, CallStays
<1>10. TypeOK' /\ CallInv(t)'
  <2>1. CASE /\ \A it \in Named(db, n) : ~Matches(it, call[t])
             /\ UNCHANGED wire
    BY <1>7, <2>1
  <2> QED
    BY <1>1, <1>8, <2>1
<1> QED
  BY <1>4, <1>9, <1>10

(* A stream closes when the server has come by every name.                 *)
LEMMA ServerCloseStep ==
    ASSUME ClientInv, NEW t \in Threads, ServerClose(t)
    PROVE  ClientInv'
<1> USE DEF ClientInv, ServerClose, serverVars, streamVars, outVars
<1>1. TypeOK'
  BY DEF TypeOK
<1>2. MutexHeld'
  BY DEF MutexHeld
<1>3. CallInv(t)'
  <2>1. CallFits(t)' /\ Fresh(t)' /\ UnaryCall(t)'
    BY DEF CallInv, CallFits, Fresh, UnaryCall
  <2>2. OnTheWire(t)'
    BY DEF CallInv, OnTheWire, Reading, Seen
  <2>3. status[t] = "none" /\ status'[t] = "ok"
    BY DEF TypeOK
  <2>4. GetCall(t)'
    BY <2>3 DEF CallInv, GetCall, Reading, Seen
  <2>5. GetMissesNothing(t)' /\ ListMissesNothing(t)'
    BY <2>3 DEF CallInv, GetMissesNothing, ListMissesNothing, Reading
  <2>6. ListCall(t)'
    BY <2>3 DEF CallInv, ListCall, Reading, Seen
  <2> QED
    BY <2>1, <2>2, <2>4, <2>5, <2>6 DEF CallInv
<1>4. ASSUME NEW u \in Threads, u # t
      PROVE  CallInv(u)'
  <2>1. SameCall(u) /\ db' = db /\ seen'[u] = seen[u]
    BY <1>4 DEF SameCall, TypeOK
  <2> QED
    BY <2>1, CallStays
<1> QED
  BY <1>1, <1>2, <1>3, <1>4

-----------------------------------------------------------------------------
LEMMA InitClient ==
    ASSUME Init
    PROVE  ClientInv
<1>1. TypeOK
  BY BoundAssumption, NoItem DEF Init, TypeOK
<1>2. MutexHeld
  BY NoneAssumption DEF Init, MutexHeld, InFlight
<1>3. ASSUME NEW t \in Threads
      PROVE  CallInv(t)
  BY DEF Init, CallInv, CallFits, Fresh, UnaryCall, OnTheWire, GetCall, GetMissesNothing,
     ListCall, ListMissesNothing, Reading
<1> QED
  BY <1>1, <1>2, <1>3 DEF ClientInv

LEMMA ClientStep ==
    ASSUME ClientInv, [Next]_vars
    PROVE  ClientInv'
<1>1. ASSUME NEW t \in Threads, Client(t)
      PROVE  ClientInv'
  BY <1>1, LockStep, CreateStep, UpdateStep, DeleteStep, LookupStep, ReadNamedStep,
     ReadListStep, ReadEndStep, FinishNamedStep, FinishListStep
  DEF Client, ReadV1Name, ReadV1List
<1>2. ASSUME NEW t \in Threads, Server(t)
      PROVE  ClientInv'
  BY <1>2, ServerApplyStep, RpcErrorStep, ServerStreamStep, ServerCloseStep DEF Server
<1>3. CASE UNCHANGED vars
  <2>1. TypeOK' /\ MutexHeld'
    BY <1>3 DEF ClientInv, TypeOK, MutexHeld, vars
  <2>2. ASSUME NEW t \in Threads
        PROVE  CallInv(t)'
    <3>1. SameCall(t) /\ db' = db /\ seen'[t] = seen[t]
      BY <1>3 DEF SameCall, vars
    <3> QED
      BY <3>1, CallStays DEF ClientInv
  <2> QED
    BY <2>1, <2>2 DEF ClientInv
<1> QED
  BY <1>1, <1>2, <1>3, InvokeStep, CollectStep, OtherClientStep DEF Next

(* What a call knows holds at each of its steps, whatever other threads,   *)
(* other clients and the network do meanwhile.                             *)
THEOREM ClientInvariant == Spec => []ClientInv
<1>1. Init => ClientInv
  BY InitClient
<1>2. ClientInv /\ [Next]_vars => ClientInv'
  BY ClientStep
<1> QED
  BY <1>1, <1>2, PTL DEF Spec

-----------------------------------------------------------------------------
(* What follows from it.                                                   *)

(* Every variable keeps its type.                                          *)
THEOREM ClientTypes == Spec => []TypeOK
<1>1. ClientInv => TypeOK
  BY DEF ClientInv
<1> QED
  BY <1>1, ClientInvariant, PTL

(* Threads that share a client, however many, never have two RPCs under    *)
(* way on its stub.                                                        *)
THEOREM OneRpcAtATime == Spec => []OneRpcPerStub
<1>1. ClientInv => OneRpcPerStub
  BY DEF ClientInv, MutexHeld, OneRpcPerStub
<1> QED
  BY <1>1, ClientInvariant, PTL

(* A CreateV1, UpdateV1 or DeleteV1 that returns true was carried out by   *)
(* the server once, and its reply is what the server stored.               *)
THEOREM SuccessIsCertain == Spec => []OutcomeKnown
<1>1. ASSUME ClientInv, NEW t \in Threads, NEW op \in {"create", "update", "delete"},
             Finished(t, op, "true")
      PROVE  /\ effects[t] = 1
             /\ op # "delete" => \E d \in seen[t] : out[t] \in Named(d, call[t].name)
  <2>1. pc[t] = "done" /\ call[t].op = op /\ call[t].op \in Unary /\ result[t] = "true"
    BY <1>1 DEF Finished, Unary
  <2>2. effects[t] = 1 /\ Reply(t) /\ out[t] = resp[t]
    BY <1>1, <2>1 DEF ClientInv, CallInv, UnaryCall
  <2>3. ASSUME op # "delete"
        PROVE  out[t].name = call[t].name /\ out[t] \in Seen(t)
    BY <1>1, <2>1, <2>2, <2>3 DEF Reply, Requested
  <2> QED
    BY <2>2, <2>3 DEF Seen, Named
<1>2. ClientInv => OutcomeKnown
  BY <1>1 DEF OutcomeKnown
<1> QED
  BY <1>2, ClientInvariant, PTL

(* Whatever a call leaves in its caller's reply or vector, with true or    *)
(* false and by whatever path, is an item of the type asked for that the   *)
(* server held during the call; after a create or an update it is what was *)
(* sent, and the server has carried the request out.                       *)
THEOREM NothingMadeUp == Spec => []ShownWasStored
<1>1. ASSUME ClientInv, NEW t \in Threads, pc[t] = "done", call[t].op \in Unary
      PROVE  /\ Shown(t) \subseteq OfType(Seen(t), call[t])
             /\ call[t].op \in {"create", "update"} /\ Shown(t) # {} =>
                    effects[t] = 1 /\ Shown(t) = {Requested(call[t])}
  <2>1. UnaryCall(t)
    BY <1>1 DEF ClientInv, CallInv
  <2>2. Shown(t) = {out[t]} \ {DefaultItem}
    BY <1>1, <2>1, SetOfEmpty DEF UnaryCall, Shown
  <2>3. CASE out[t] = DefaultItem
    BY <2>2, <2>3
  <2>4. CASE out[t] # DefaultItem
    <3>1. out[t] = resp[t] /\ effects[t] = 1 /\ Reply(t)
      BY <1>1, <2>1, <2>4 DEF UnaryCall
    <3>2. Shown(t) = {out[t]}
      BY <2>2, <2>4
    <3>3. /\ out[t] \in Seen(t) /\ out[t].type = call[t].type
          /\ call[t].op # "lookup" => out[t] = Requested(call[t])
      BY <2>4, <3>1 DEF Reply
    <3> QED
      BY <3>1, <3>2, <3>3 DEF OfType
  <2> QED
    BY <2>3, <2>4
<1>2. ASSUME ClientInv, NEW t \in Threads, pc[t] = "done", call[t].op \notin Unary
      PROVE  Shown(t) \subseteq OfType(Seen(t), call[t])
  <2>1. Reading(t) /\ GetCall(t) /\ ListCall(t) /\ call[t] \in Calls
    BY <1>2 DEF Reading, ClientInv, CallInv, CallFits
  <2>2. CASE call[t].op = "get"
    BY <2>1, <2>2, SetOfEmpty DEF GetCall, Shown, OfType
  <2>3. CASE call[t].op = "list"
    BY <2>1, <2>3 DEF ListCall, Shown, OfType, Wanted, Matches
  <2> QED
    BY <1>2, <2>1, <2>2, <2>3, CallTypes
<1>3. ClientInv => ShownWasStored
  BY <1>1, <1>2 DEF ShownWasStored, Seen, Unary
<1> QED
  BY <1>3, ClientInvariant, PTL

(* A read of a name that returns true has put the item of that name and    *)
(* type into the reply, as the server held it during the call; that of the *)
(* empty name when the caller looks at the name in the reply.              *)
THEOREM FoundIsThere == Spec => []GetSound
<1>1. ASSUME ClientInv, NEW t \in Threads,
             Finished(t, "get", "true"), call[t].name # EmptyName \/ Found(t)
      PROVE  \E d \in seen[t] : out[t] \in Wanted(d, call[t])
  <2>1. Reading(t) /\ pc[t] = "done" /\ call[t].op = "get" /\ result[t] = "true"
    BY <1>1 DEF Finished, Reading, Unary
  <2>2. NameAs(item[t], call[t].type) = call[t].name
    BY <1>1, <2>1 DEF ClientInv, CallInv, GetCall
  <2>3. ASSUME out[t] = DefaultItem, item[t].type # call[t].type
        PROVE  FALSE
    <3>1. call[t].name = EmptyName
      BY <2>2, <2>3 DEF NameAs
    <3> QED
      BY <1>1, <2>1, <2>3, <3>1, NoItem DEF Found
  <2>4. out[t] = item[t] /\ out[t].type = call[t].type /\ out[t] \in Seen(t)
    BY <1>1, <2>1, <2>3 DEF ClientInv, CallInv, GetCall
  <2>5. Matches(out[t], call[t])
    BY <2>2, <2>4 DEF NameAs, Matches
  <2> QED
    BY <2>4, <2>5 DEF Seen, Wanted
<1>2. ClientInv => GetSound
  BY <1>1 DEF GetSound
<1> QED
  BY <1>2, ClientInvariant, PTL

(* A read of a name that returns false, with the RPC a success: at some    *)
(* moment of the call the server had no such item, if it sends no other.   *)
THEOREM NotFoundWasMissing == Spec => []GetComplete
<1>1. ASSUME ClientInv, filters, NEW t \in Threads,
             Finished(t, "get", "false"), status[t] = "ok"
      PROVE  \E d \in seen[t] : Wanted(d, call[t]) = {}
  <2>1. /\ Reading(t) /\ pc[t] = "done" /\ call[t].op = "get" /\ result[t] = "false"
        /\ call[t] \in Calls /\ db \in seen[t] /\ db \in Databases
        /\ visited[t] = Names
    BY <1>1 DEF Finished, Reading, Unary, ClientInv, TypeOK, CallInv, CallFits, OnTheWire
  <2>2. NameAs(item[t], call[t].type) # call[t].name
    BY <1>1, <2>1 DEF ClientInv, CallInv, GetCall
  <2>3. ~(out[t] = item[t] /\ out[t].type = call[t].type /\ Matches(out[t], call[t]))
    BY <2>1, <2>2 DEF NameAs, Matches
  <2>4. out[t] = DefaultItem /\ wire[t] = <<>>
    BY <1>1, <2>1, <2>3 DEF ClientInv, CallInv, GetCall
  <2>5. CASE call[t].name \in Names
    BY <1>1, <2>1, <2>4, <2>5 DEF ClientInv, CallInv, GetMissesNothing
  <2>6. CASE call[t].name = EmptyName
    <3>1. Wanted(db, call[t]) = {}
      BY <2>1, <2>6, NoneAssumption, OneOfAName DEF Wanted, Matches, Items
    <3> QED
      BY <2>1, <3>1
  <2> QED
    BY <2>1, <2>5, <2>6, CallTypes
<1>2. ClientInv => GetComplete
  BY <1>1 DEF GetComplete
<1> QED
  BY <1>2, ClientInvariant, PTL

(* A list that returns true holds every item of the type that was there    *)
(* all through the call, and nothing that never was or of another type,    *)
(* in whatever order the server sends and however the items change.        *)
THEOREM ListIsFaithful == Spec => []ListFaithful
<1>1. ASSUME ClientInv, NEW t \in Threads, Finished(t, "list", "true")
      PROVE  /\ ToSet(outs[t]) \subseteq UNION {Wanted(d, call[t]) : d \in seen[t]}
             /\ \A it \in Items :
                    (\A d \in seen[t] : it \in Wanted(d, call[t])) => it \in ToSet(outs[t])
  <2>1. Reading(t) /\ pc[t] = "done" /\ call[t].op = "list" /\ result[t] = "true"
    BY <1>1 DEF Finished, Reading, Unary
  <2>2. /\ ToSet(outs[t]) \subseteq Wanted(Seen(t), call[t])
        /\ wire[t] = <<>> /\ status[t] = "ok"
    BY <1>1, <2>1 DEF ClientInv, CallInv, ListCall
  <2>3. visited[t] = Names
    BY <1>1, <2>1, <2>2 DEF ClientInv, CallInv, OnTheWire
  <2>4. ASSUME NEW it \in Items, \A d \in seen[t] : it \in Wanted(d, call[t])
        PROVE  it \in ToSet(outs[t])
    <3>1. it.name \in visited[t]
      BY <2>3 DEF Items
    <3>2. it \in ToSet(wire[t]) \cup ToSet(outs[t])
      BY <1>1, <2>1, <2>2, <2>4, <3>1 DEF ClientInv, CallInv, ListMissesNothing
    <3> QED
      BY <2>2, <3>2, SetOfEmpty
  <2>5. Wanted(Seen(t), call[t]) \subseteq UNION {Wanted(d, call[t]) : d \in seen[t]}
    BY DEF Wanted, Seen
  <2> QED
    BY <2>2, <2>4, <2>5
<1>2. ClientInv => ListFaithful
  BY <1>1 DEF ListFaithful, ToSet
<1> QED
  BY <1>2, ClientInvariant, PTL
=============================================================================
