------------------------- MODULE UpsfClientRefinement -------------------------
(***************************************************************************)
(* UpsfClient implements UpsfStore, for any sets of threads, types, names  *)
(* and values.  A step of the client or of the network concerns one        *)
(* thread, and the refinement mapping is computed thread by thread; so it  *)
(* is enough to follow the four abstract values of that thread.            *)
(***************************************************************************)
EXTENDS UpsfClientProofs

phases == [t \in Threads |-> phaseBar(t)]
dones == [t \in Threads |-> doneBar(t)]
gots == [t \in Threads |-> gotBar(t)]
answers == [t \in Threads |-> ansBar(t)]

(* Both modules speak of the same items and calls.                         *)
LEMMA SameNotions ==
    /\ Store!NoCall = NoCall /\ Store!DefaultItem = DefaultItem /\ Store!Unary = Unary
    /\ Store!Items = Items /\ Store!Databases = Databases /\ Store!Calls = Calls
    /\ \A d, n : Store!Named(d, n) = Named(d, n)
    /\ \A d, c : Store!Wanted(d, c) = Wanted(d, c) /\ Store!OfType(d, c) = OfType(d, c)
    /\ \A c, d, e, r : Store!Carries(c, d, e, r) <=> Carries(c, d, e, r)
<1>1. /\ Store!NoCall = NoCall /\ Store!DefaultItem = DefaultItem /\ Store!Unary = Unary
      /\ Store!Items = Items /\ Store!Calls = Calls
  BY DEF Store!NoCall, NoCall, Store!DefaultItem, DefaultItem, Store!Unary, Unary, Store!Items,
     Items, Store!Calls, Calls
<1>2. Store!Databases = Databases
  BY <1>1 DEF Store!Databases, Databases, Store!UniqueNames, UniqueNames
<1>3. \A d, n : Store!Named(d, n) = Named(d, n)
  BY DEF Store!Named, Named
<1>4. \A d, c : Store!Wanted(d, c) = Wanted(d, c) /\ Store!OfType(d, c) = OfType(d, c)
  BY DEF Store!Wanted, Wanted, Store!Matches, Matches, Store!OfType, OfType
<1>5. \A c : Store!Requested(c) = Requested(c)
  BY DEF Store!Requested, Requested
<1>6. \A c, d, e, r : Store!Carries(c, d, e, r) <=> Carries(c, d, e, r)
  BY <1>1, <1>3, <1>5 DEF Store!Carries, Carries
<1> QED
  BY <1>1, <1>2, <1>3, <1>4, <1>6

(* A step of UpsfStore, in terms of the client.                            *)
AbstractStep == Store!Next \/ UNCHANGED <<db, filters, phases, call, dones, gots, answers>>

(* Only t's abstract values change.                                        *)
Moved(t) ==
    /\ phases' = [phases EXCEPT ![t] = phaseBar(t)']
    /\ dones' = [dones EXCEPT ![t] = doneBar(t)']
    /\ gots' = [gots EXCEPT ![t] = gotBar(t)']
    /\ answers' = [answers EXCEPT ![t] = ansBar(t)']

LEMMA SameBars ==
    ASSUME NEW u \in Threads, SameCall(u)
    PROVE  /\ phaseBar(u)' = phaseBar(u) /\ doneBar(u)' = doneBar(u)
           /\ gotBar(u)' = gotBar(u) /\ ansBar(u)' = ansBar(u)
<1>1. phaseBar(u)' = phaseBar(u)
  BY DEF SameCall, phaseBar
<1>2. doneBar(u)' = doneBar(u)
  BY <1>1 DEF SameCall, doneBar
<1>3. gotBar(u)' = gotBar(u)
  BY <1>1 DEF SameCall, gotBar
<1>4. ansBar(u)' = ansBar(u)
  BY DEF SameCall, ansBar, Found, Shown
<1> QED
  BY <1>1, <1>2, <1>3, <1>4

LEMMA MovesAlone ==
    ASSUME NEW t \in Threads, \A u \in Threads \ {t} : SameCall(u)
    PROVE  Moved(t)
<1>1. \A u \in Threads \ {t} :
          /\ phaseBar(u)' = phaseBar(u) /\ doneBar(u)' = doneBar(u)
          /\ gotBar(u)' = gotBar(u) /\ ansBar(u)' = ansBar(u)
  BY SameBars
<1> QED
  BY <1>1 DEF Moved, phases, dones, gots, answers

(* A step of one thread's call leaves those of the others alone.           *)
LEMMA StepsAlone ==
    ASSUME ClientInv, NEW t \in Threads, Invoke(t) \/ Collect(t) \/ Client(t) \/ Server(t),
           NEW u \in Threads \ {t}
    PROVE  SameCall(u)
<1> USE DEF SameCall, ClientInv, TypeOK, serverVars, streamVars, outVars, Goto, Return
<1>1. CASE Invoke(t) \/ Collect(t) \/ LockAndSend(t)
  BY <1>1 DEF Invoke, Collect, LockAndSend
<1>2. CASE CreateV1(t) \/ UpdateV1(t) \/ DeleteV1(t) \/ LookupV1(t)
  BY <1>2 DEF CreateV1, UpdateV1, DeleteV1, LookupV1
<1>3. CASE ReadNamed(t)
  BY <1>3 DEF ReadNamed
<1>4. CASE ReadList(t)
  BY <1>4 DEF ReadList
<1>5. CASE ReadEnd(t) \/ FinishNamed(t) \/ FinishList(t)
  BY <1>5 DEF ReadEnd, FinishNamed, FinishList
<1>6. CASE ServerApply(t)
  BY <1>6 DEF ServerApply
<1>7. CASE RpcError(t)
  BY <1>7 DEF RpcError
<1>8. CASE ServerStream(t) \/ ServerClose(t)
  BY <1>8 DEF ServerStream, ServerClose
<1> QED
  BY <1>1, <1>2, <1>3, <1>4, <1>5, <1>6, <1>7, <1>8
  DEF Client, ReadV1Name, ReadV1List, Server

(* The mapping of UpsfStore's variables, thread by thread.                 *)
LEMMA BarsOf ==
    ASSUME NEW t \in Threads
    PROVE  /\ phases[t] = phaseBar(t) /\ dones[t] = doneBar(t)
           /\ gots[t] = gotBar(t) /\ answers[t] = ansBar(t)
BY DEF phases, dones, gots, answers

LEMMA Keeps ==
    ASSUME NEW t \in Threads, Moved(t)
    PROVE  /\ phaseBar(t)' = phaseBar(t) => phases' = phases
           /\ doneBar(t)' = doneBar(t) => dones' = dones
           /\ gotBar(t)' = gotBar(t) => gots' = gots
           /\ ansBar(t)' = ansBar(t) => answers' = answers
BY DEF Moved, phases, dones, gots, answers

(* A step that keeps a thread's abstract values stutters.                  *)
LEMMA Stutters ==
    ASSUME NEW t \in Threads, Moved(t), UNCHANGED <<db, filters, call>>,
           phaseBar(t)' = phaseBar(t), doneBar(t)' = doneBar(t),
           gotBar(t)' = gotBar(t), ansBar(t)' = ansBar(t)
    PROVE  AbstractStep
BY Keeps DEF AbstractStep

-----------------------------------------------------------------------------
(* What a read has got holds no default message.                           *)
LEMMA DefaultUnwanted ==
    ASSUME NEW c \in Calls, c.op \notin Unary
    PROVE  /\ DefaultItem.type # c.type
           /\ \A S, T : OfType(S \cup {DefaultItem} \cup T, c) = OfType(S \cup T, c)
<1>1. c.type \in ItemTypes
  BY CallTypes DEF Unary
<1>2. DefaultItem.type # c.type
  BY <1>1, NoItem, NoneAssumption
<1> QED
  BY <1>2 DEF OfType

(* A prefix of a sequence holds no more than the sequence.                 *)
LEMMA SetOfPrefix ==
    ASSUME NEW S, NEW s \in Seq(S), NEW n \in 0..Len(s)
    PROVE  ToSet(SubSeq(s, 1, n)) \subseteq ToSet(s)
<1>1. /\ Len(SubSeq(s, 1, n)) = n /\ Len(s) \in Nat
      /\ \A i \in 1..n : SubSeq(s, 1, n)[i] = s[i]
  OBVIOUS
<1>2. DOMAIN s = 1..Len(s) /\ DOMAIN SubSeq(s, 1, n) = 1..n
  BY <1>1
<1> QED
  BY <1>1, <1>2 DEF ToSet

LEMMA InvokeRefines ==
    ASSUME ClientInv, NEW t \in Threads, Invoke(t), Moved(t)
    PROVE  AbstractStep
<1>1. PICK c \in Calls : call' = [call EXCEPT ![t] = c]
  BY DEF Invoke
<1>2. /\ pc[t] = "idle" /\ pc'[t] = "lock" /\ call'[t] = c
      /\ UNCHANGED <<db, filters, resp, status, wire, visited, out, outs, result>>
  BY <1>1 DEF Invoke, Goto, ClientInv, TypeOK, streamVars, outVars
<1>3. /\ resp[t] = DefaultItem /\ status[t] = "none" /\ wire[t] = <<>> /\ visited[t] = {}
      /\ out[t] = DefaultItem /\ outs[t] = <<>>
  BY <1>2 DEF ClientInv, CallInv, Fresh
<1>4. phaseBar(t) = "idle" /\ phaseBar(t)' = "called"
  BY <1>2, <1>3 DEF phaseBar
<1>5. doneBar(t) = {} /\ doneBar(t)' = {}
  BY <1>2, <1>3, <1>4 DEF doneBar
<1>6. gotBar(t) = {} /\ gotBar(t)' = {}
  <2>1. CASE c.op \in Unary
    BY <1>2, <1>3, <1>4, <2>1 DEF gotBar
  <2>2. CASE c.op \notin Unary
    <3>1. OfType({} \cup {DefaultItem} \cup {}, c) = {}
      BY <2>2, DefaultUnwanted DEF OfType
    <3> QED
      BY <1>2, <1>3, <1>4, <2>2, <3>1, SetOfEmpty DEF gotBar
  <2> QED
    BY <2>1, <2>2
<1>7. ansBar(t)' = ansBar(t)
  BY <1>2 DEF ansBar
<1>8. Store!Invoke(t)
  <2>1. /\ phases[t] = "idle" /\ phases' = [phases EXCEPT ![t] = "called"]
        /\ dones' = dones /\ gots' = gots /\ answers' = answers
    BY <1>4, <1>5, <1>6, <1>7, BarsOf, Keeps DEF Moved
  <2>2. (\E x \in Calls : call' = [call EXCEPT ![t] = x]) /\ UNCHANGED <<db, filters>>
    BY <1>1, <1>2
  <2> QED
    BY <2>1, <2>2, SameNotions DEF Store!Invoke, Store!Enter, phases, dones, gots, answers
<1> QED
  BY <1>8 DEF AbstractStep, Store!Next

LEMMA CollectRefines ==
    ASSUME ClientInv, NEW t \in Threads, Collect(t), Moved(t)
    PROVE  AbstractStep
<1>1. pc[t] = "done" /\ pc'[t] = "idle" /\ call' = [call EXCEPT ![t] = NoCall]
      /\ UNCHANGED <<db, filters>>
  BY DEF Collect, Goto, ClientInv, TypeOK
<1>2. phaseBar(t) = "answered" /\ phaseBar(t)' = "idle"
  BY <1>1 DEF phaseBar
<1>3. doneBar(t) = {} /\ doneBar(t)' = {} /\ gotBar(t) = {} /\ gotBar(t)' = {}
  BY <1>2 DEF doneBar, gotBar
<1>4. ansBar(t)' = Store!NoAnswer
  BY <1>1 DEF ansBar, Store!NoAnswer
<1>5. Store!Return(t)
  <2>1. /\ phases[t] = "answered" /\ phases' = [phases EXCEPT ![t] = "idle"]
        /\ dones' = dones /\ gots' = gots /\ answers' = [answers EXCEPT ![t] = Store!NoAnswer]
    BY <1>2, <1>3, <1>4, BarsOf, Keeps DEF Moved
  <2> QED
    BY <1>1, <2>1, SameNotions DEF Store!Return, Store!Enter, phases, dones, gots, answers
<1> QED
  BY <1>5 DEF AbstractStep, Store!Next

(* Nothing is seen of the mutex and of the request's way to the server.    *)
LEMMA LockRefines ==
    ASSUME ClientInv, NEW t \in Threads, LockAndSend(t), Moved(t)
    PROVE  AbstractStep
<1>1. /\ pc[t] = "lock" /\ pc'[t] \in {"sent", "reading"}
      /\ UNCHANGED <<db, filters, call, resp, status, wire, visited, out, outs, result>>
  BY DEF LockAndSend, Goto, ClientInv, TypeOK, serverVars, streamVars, outVars
<1>2. phaseBar(t)' = phaseBar(t)
  BY <1>1 DEF phaseBar
<1>3. doneBar(t)' = doneBar(t) /\ gotBar(t)' = gotBar(t) /\ ansBar(t)' = ansBar(t)
  BY <1>1, <1>2 DEF doneBar, gotBar, ansBar
<1> QED
  BY <1>1, <1>2, <1>3, Stutters

(* Neither is anything of a stream's end.                                  *)
LEMMA ReadEndRefines ==
    ASSUME ClientInv, NEW t \in Threads, ReadEnd(t), Moved(t)
    PROVE  AbstractStep
<1>1. /\ pc[t] = "reading" /\ pc'[t] = "finish"
      /\ UNCHANGED <<db, filters, call, resp, status, wire, visited, out, outs, result>>
  BY DEF ReadEnd, Goto, ClientInv, TypeOK, serverVars, streamVars, outVars
<1>2. phaseBar(t)' = phaseBar(t)
  BY <1>1 DEF phaseBar
<1>3. doneBar(t)' = doneBar(t) /\ gotBar(t)' = gotBar(t) /\ ansBar(t)' = ansBar(t)
  BY <1>1, <1>2 DEF doneBar, gotBar, ansBar
<1> QED
  BY <1>1, <1>2, <1>3, Stutters

LEMMA ServerCloseRefines ==
    ASSUME ClientInv, NEW t \in Threads, ServerClose(t), Moved(t)
    PROVE  AbstractStep
<1>1. /\ pc[t] \in {"reading", "finish"} /\ status[t] = "none" /\ status'[t] = "ok"
      /\ call[t].op \notin Unary
      /\ UNCHANGED <<db, filters, pc, call, resp, wire, visited, out, outs, result>>
  BY DEF ServerClose, ClientInv, TypeOK, CallInv, CallFits, serverVars, streamVars, outVars
<1>2. phaseBar(t)' = phaseBar(t)
  BY <1>1 DEF phaseBar
<1>3. doneBar(t)' = doneBar(t) /\ gotBar(t)' = gotBar(t) /\ ansBar(t)' = ansBar(t)
  BY <1>1, <1>2 DEF doneBar, gotBar, ansBar
<1> QED
  BY <1>1, <1>2, <1>3, Stutters

(* An item the client takes is what the read has got, as it was before, if *)
(* it was asked for.                                                       *)
LEMMA ReadNamedRefines ==
    ASSUME ClientInv, NEW t \in Threads, ReadNamed(t), Moved(t)
    PROVE  AbstractStep
<1>1. /\ pc[t] = "reading" /\ pc'[t] \in {"reading", "finish"} /\ call[t].op = "get"
      /\ call[t] \in Calls /\ call[t].op \notin Unary
      /\ UNCHANGED <<db, filters, call, resp, status, visited, outs, result>>
  BY DEF ReadNamed, Goto, ClientInv, TypeOK, CallInv, CallFits, serverVars, Unary
<1>2. /\ ToSet(wire[t]) = {item'[t]} \cup ToSet(wire'[t])
      /\ out[t] = DefaultItem
      /\ out'[t] = item'[t] \/ (item'[t].type # call[t].type /\ out'[t] = out[t])
  <2>1. TypeOK /\ Taken(t)
    BY DEF Taken, ReadNamed, ClientInv
  <2>2. Reading(t) /\ GetCall(t)
    BY <1>1 DEF Reading, ClientInv, CallInv
  <2> QED
    BY <1>1, <2>1, <2>2, TakeOne DEF GetCall, ReadNamed, TypeOK
<1>3. phaseBar(t)' = phaseBar(t)
  BY <1>1 DEF phaseBar
<1>4. doneBar(t)' = doneBar(t) /\ ansBar(t)' = ansBar(t)
  BY <1>1, <1>3 DEF doneBar, ansBar
<1>5. gotBar(t)' = gotBar(t)
  <2>1. DefaultItem.type # call[t].type
    BY <1>1, DefaultUnwanted
  <2>2. OfType(ToSet(wire[t]) \cup {out[t]} \cup ToSet(outs[t]), call[t])
          = OfType(ToSet(wire'[t]) \cup {out'[t]} \cup ToSet(outs[t]), call[t])
    BY <1>2, <2>1 DEF OfType
  <2> QED
    BY <1>1, <1>3, <2>2 DEF gotBar
<1> QED
  BY <1>1, <1>3, <1>4, <1>5, Stutters

LEMMA ReadListRefines ==
    ASSUME ClientInv, NEW t \in Threads, ReadList(t), Moved(t)
    PROVE  AbstractStep
<1>1. /\ pc[t] = "reading" /\ call[t] \in Calls /\ call[t].op \notin Unary
      /\ UNCHANGED <<db, filters, pc, call, resp, status, visited, out, result>>
  BY DEF ReadList, ClientInv, CallInv, CallFits, serverVars, Unary
<1>2. /\ ToSet(wire[t]) = {item'[t]} \cup ToSet(wire'[t])
      /\ \/ ToSet(outs'[t]) = ToSet(outs[t]) \cup {item'[t]}
         \/ item'[t].type # call[t].type /\ outs'[t] = outs[t]
  <2>1. TypeOK /\ Taken(t)
    BY DEF Taken, ReadList, ClientInv
  <2>2. outs[t] \in Seq(Items)
    BY <2>1 DEF TypeOK
  <2>3. \/ outs'[t] = Append(outs[t], item'[t])
        \/ item'[t].type # call[t].type /\ outs'[t] = outs[t]
    BY <2>1 DEF ReadList, TypeOK
  <2>4. ToSet(Append(outs[t], item'[t])) = ToSet(outs[t]) \cup {item'[t]}
    BY <2>2, SetOfAppend
  <2> QED
    BY <2>1, <2>3, <2>4, TakeOne
<1>3. phaseBar(t)' = phaseBar(t)
  BY <1>1 DEF phaseBar
<1>4. doneBar(t)' = doneBar(t) /\ ansBar(t)' = ansBar(t)
  BY <1>1, <1>3 DEF doneBar, ansBar
<1>5. gotBar(t)' = gotBar(t)
  <2>1. OfType(ToSet(wire[t]) \cup {out[t]} \cup ToSet(outs[t]), call[t])
          = OfType(ToSet(wire'[t]) \cup {out[t]} \cup ToSet(outs'[t]), call[t])
    BY <1>2 DEF OfType
  <2> QED
    BY <1>1, <1>3, <2>1 DEF gotBar
<1> QED
  BY <1>1, <1>3, <1>4, <1>5, Stutters

-----------------------------------------------------------------------------
(* The server and the network.                                             *)

LEMMA OtherClientRefines ==
    ASSUME ClientInv, OtherClient
    PROVE  AbstractStep
<1>1. db' \in Databases
  BY OtherClientStep DEF ClientInv, TypeOK
<1>2. \A t \in Threads : SameCall(t)
  BY DEF OtherClient, SameCall, streamVars, outVars
<1>3. phases' = phases /\ dones' = dones /\ gots' = gots /\ answers' = answers
  BY <1>2, SameBars DEF phases, dones, gots, answers
<1>4. UNCHANGED <<filters, call>>
  BY DEF OtherClient
<1>5. Store!Change
  BY <1>1, <1>3, <1>4, SameNotions DEF Store!Change, phases, dones, gots, answers
<1> QED
  BY <1>5 DEF AbstractStep, Store!Next

(* The moment a request is carried out.                                    *)
LEMMA ServerApplyRefines ==
    ASSUME ClientInv, NEW t \in Threads, ServerApply(t), Moved(t)
    PROVE  AbstractStep
<1>1. PICK reply \in Items \cup {DefaultItem} :
           Carries(call[t], db, db', reply) /\ resp' = [resp EXCEPT ![t] = reply]
  BY DEF ServerApply
<1>2. /\ pc[t] = "sent" /\ status[t] = "none" /\ status'[t] = "ok" /\ resp'[t] = reply
      /\ call[t].op \in Unary
      /\ UNCHANGED <<filters, pc, call, out, outs, result>>
  BY <1>1 DEF ServerApply, ClientInv, TypeOK, CallInv, CallFits, outVars
<1>3. phaseBar(t) = "called" /\ phaseBar(t)' = phaseBar(t)
  BY <1>2 DEF phaseBar
<1>4. doneBar(t) = {} /\ doneBar(t)' = Names /\ gotBar(t)' = {reply} \ {DefaultItem}
  BY <1>2, <1>3 DEF doneBar, gotBar
<1>5. ansBar(t)' = ansBar(t)
  BY <1>2 DEF ansBar
<1>6. /\ phases[t] = "called" /\ dones[t] = {} /\ phases' = phases /\ answers' = answers
      /\ dones' = [dones EXCEPT ![t] = Names]
      /\ gots' = [gots EXCEPT ![t] = {reply} \ {DefaultItem}]
  BY <1>3, <1>4, <1>5, BarsOf, Keeps DEF Moved
<1>7. Store!Apply(t)
  <2>1. \E x \in Store!Items \cup {Store!DefaultItem} :
            /\ Store!Carries(call[t], db, db', x)
            /\ gots' = [gots EXCEPT ![t] = {x} \ {Store!DefaultItem}]
    BY <1>1, <1>6, SameNotions
  <2> QED
    BY <1>2, <1>6, <2>1, SameNotions DEF Store!Apply, phases, dones, gots, answers
<1> QED
  BY <1>7 DEF AbstractStep, Store!Next

LEMMA RpcErrorRefines ==
    ASSUME ClientInv, NEW t \in Threads, RpcError(t), Moved(t)
    PROVE  AbstractStep
<1>1. /\ pc[t] \notin {"idle", "done"} /\ status[t] # "error" /\ status'[t] = "error"
      /\ UNCHANGED <<db, filters, pc, call, out, outs, result>>
  BY DEF RpcError, ClientInv, TypeOK, serverVars, outVars
<1>2. phaseBar(t) = "called" /\ phaseBar(t)' = "failed"
  BY <1>1 DEF phaseBar
<1>3. doneBar(t)' = {} /\ gotBar(t)' \in SUBSET gotBar(t)
  <2>1. PICK n \in 0..Len(wire[t]) : wire' = [wire EXCEPT ![t] = SubSeq(@, 1, n)]
    BY DEF RpcError
  <2>2. wire'[t] = SubSeq(wire[t], 1, n) /\ wire[t] \in Seq(Items)
    BY <2>1 DEF ClientInv, TypeOK
  <2>3. ToSet(wire'[t]) \subseteq ToSet(wire[t])
    BY <2>2, SetOfPrefix
  <2>4. resp'[t] \in {resp[t], DefaultItem}
    BY DEF RpcError, ClientInv, TypeOK
  <2>5. CASE call[t].op \in Unary
    BY <1>1, <1>2, <2>4, <2>5 DEF doneBar, gotBar
  <2>6. CASE call[t].op \notin Unary
    BY <1>1, <1>2, <2>3, <2>6 DEF doneBar, gotBar, OfType
  <2> QED
    BY <2>5, <2>6
<1>4. ansBar(t)' = ansBar(t)
  BY <1>1 DEF ansBar
<1>5. /\ phases[t] = "called" /\ phases' = [phases EXCEPT ![t] = "failed"] /\ answers' = answers
      /\ dones' = [dones EXCEPT ![t] = {}]
      /\ \E kept \in SUBSET gots[t] : gots' = [gots EXCEPT ![t] = kept]
  BY <1>2, <1>3, <1>4, BarsOf, Keeps DEF Moved
<1>6. Store!Fail(t)
  BY <1>1, <1>5 DEF Store!Fail, Store!Enter, phases, dones, gots, answers
<1> QED
  BY <1>6 DEF AbstractStep, Store!Next

(* The moment a read comes by a name.                                      *)
LEMMA ServerStreamRefines ==
    ASSUME ClientInv, NEW t \in Threads, ServerStream(t), Moved(t)
    PROVE  AbstractStep
<1>1. PICK n \in Names \ visited[t] :
          /\ visited' = [visited EXCEPT ![t] = @ \cup {n}]
          /\ \/ \E it \in Named(db, n) :
                    /\ filters => Matches(it, call[t])
                    /\ wire' = [wire EXCEPT ![t] = Append(@, it)]
             \/ /\ \A it \in Named(db, n) : ~Matches(it, call[t])
                /\ UNCHANGED wire
  BY DEF ServerStream
<1>2. /\ pc[t] \notin {"idle", "done"} /\ status[t] = "none" /\ call[t].op \notin Unary
      /\ db \in Databases /\ wire[t] \in Seq(Items)
      /\ visited'[t] = visited[t] \cup {n}
      /\ UNCHANGED <<db, filters, pc, call, resp, status, out, outs, result>>
  BY <1>1 DEF ServerStream, ClientInv, TypeOK, CallInv, CallFits, serverVars, outVars
<1>3. phaseBar(t) = "called" /\ phaseBar(t)' = phaseBar(t)
  BY <1>2 DEF phaseBar
<1>4. doneBar(t) = visited[t] /\ doneBar(t)' = visited[t] \cup {n}
  BY <1>2, <1>3 DEF doneBar
<1>5. ansBar(t)' = ansBar(t)
  BY <1>2 DEF ansBar
<1>6. PICK its \in {Wanted(Named(db, n), call[t])}
                      \cup (IF filters THEN {} ELSE {OfType(Named(db, n), call[t])}) :
          OfType(ToSet(wire'[t]), call[t]) = OfType(ToSet(wire[t]), call[t]) \cup its
  <2>1. ASSUME NEW it \in Named(db, n), filters => Matches(it, call[t]),
               wire' = [wire EXCEPT ![t] = Append(@, it)]
        PROVE  /\ OfType(ToSet(wire'[t]), call[t])
                    = OfType(ToSet(wire[t]), call[t]) \cup OfType(Named(db, n), call[t])
               /\ filters => OfType(Named(db, n), call[t]) = Wanted(Named(db, n), call[t])
    <3>1. Named(db, n) = {it}
      BY <1>2, <2>1, OneOfAName DEF Named
    <3>2. wire'[t] = Append(wire[t], it)
      BY <2>1 DEF ClientInv, TypeOK
    <3>3. ToSet(wire'[t]) = ToSet(wire[t]) \cup Named(db, n)
      BY <1>2, <3>1, <3>2, SetOfAppend
    <3> QED
      BY <2>1, <3>1, <3>3 DEF OfType, Wanted, Matches
  <2>2. ASSUME \A it \in Named(db, n) : ~Matches(it, call[t]), UNCHANGED wire
        PROVE  Wanted(Named(db, n), call[t]) = {} /\ wire'[t] = wire[t]
    BY <2>2 DEF Wanted
  <2> QED
    BY <1>1, <2>1, <2>2
<1>7. gotBar(t)' = gotBar(t) \cup its
  <2>1. \A S, T, U : OfType(S \cup T \cup U, call[t])
                       = OfType(S, call[t]) \cup OfType(T, call[t]) \cup OfType(U, call[t])
    BY DEF OfType
  <2>2. gotBar(t) = OfType(ToSet(wire[t]) \cup {out[t]} \cup ToSet(outs[t]), call[t])
    BY <1>2, <1>3 DEF gotBar
  <2>3. gotBar(t)' = OfType(ToSet(wire'[t]) \cup {out[t]} \cup ToSet(outs[t]), call[t])
    BY <1>2, <1>3 DEF gotBar
  <2>4. gotBar(t) = OfType(ToSet(wire[t]), call[t]) \cup OfType({out[t]}, call[t])
                      \cup OfType(ToSet(outs[t]), call[t])
    BY <2>1, <2>2
  <2>5. gotBar(t)' = OfType(ToSet(wire'[t]), call[t]) \cup OfType({out[t]}, call[t])
                       \cup OfType(ToSet(outs[t]), call[t])
    BY <2>1, <2>3
  <2> QED
    BY <1>6, <2>4, <2>5
<1>8. /\ phases[t] = "called" /\ dones[t] = visited[t] /\ phases' = phases /\ answers' = answers
      /\ dones' = [dones EXCEPT ![t] = @ \cup {n}]
      /\ gots' = [gots EXCEPT ![t] = @ \cup its]
  BY <1>3, <1>4, <1>5, <1>7, BarsOf, Keeps DEF Moved
<1>9. Store!Observe(t, n)
  BY <1>1, <1>2, <1>8, SameNotions DEF Store!Observe, phases, dones, gots, answers
<1> QED
  BY <1>9 DEF AbstractStep, Store!Next

-----------------------------------------------------------------------------
(* The answers.                                                            *)

(* A call that ends with its RPC broken gives up, and shows at most what   *)
(* it had got.                                                             *)
LEMMA FailedAnswer ==
    ASSUME NEW t \in Threads, Moved(t), UNCHANGED <<db, filters, call, status>>,
           pc[t] \notin {"idle", "done"}, pc'[t] = "done",
           status[t] = "error", result'[t] = "false", Shown(t)' \subseteq gotBar(t)
    PROVE  AbstractStep
<1>1. phaseBar(t) = "failed" /\ phaseBar(t)' = "answered"
  BY DEF phaseBar
<1>2. doneBar(t)' = {} /\ gotBar(t)' = {}
  BY <1>1 DEF doneBar, gotBar
<1>3. PICK shows \in SUBSET gotBar(t) : ansBar(t)' = [ok |-> FALSE, shows |-> shows]
  BY DEF ansBar, Found
<1>4. /\ phases[t] = "failed" /\ phases' = [phases EXCEPT ![t] = "answered"]
      /\ dones' = [dones EXCEPT ![t] = {}] /\ gots' = [gots EXCEPT ![t] = {}]
      /\ shows \in SUBSET gots[t]
      /\ answers' = [answers EXCEPT ![t] = [ok |-> FALSE, shows |-> shows]]
  BY <1>1, <1>2, <1>3, BarsOf DEF Moved
<1>5. Store!GiveUp(t)
  BY <1>4 DEF Store!GiveUp, Store!Answered, Store!Enter, Store!Forget, phases, dones, gots, answers
<1> QED
  BY <1>5 DEF AbstractStep, Store!Next

(* One that succeeds shows what it has got of what it was made for.        *)
AskedBar(t) == IF call[t].op = "get" THEN Wanted(gotBar(t), call[t]) ELSE gotBar(t)

LEMMA SameAsked ==
    ASSUME NEW t \in Threads
    PROVE  Store!Asked(t) = AskedBar(t)
BY SameNotions DEF Store!Asked, AskedBar

LEMMA GoodAnswer ==
    ASSUME NEW t \in Threads, Moved(t), UNCHANGED <<db, filters, call, status>>,
           pc[t] \notin {"idle", "done"}, pc'[t] = "done", status[t] = "ok",
           doneBar(t) = Names, call[t].op = "get" => AskedBar(t) # {},
           ansBar(t)' = [ok |-> TRUE, shows |-> AskedBar(t)]
    PROVE  AbstractStep
<1>1. phaseBar(t) = "called" /\ phaseBar(t)' = "answered"
  BY DEF phaseBar
<1>2. doneBar(t)' = {} /\ gotBar(t)' = {}
  BY <1>1 DEF doneBar, gotBar
<1>3. /\ phases[t] = "called" /\ phases' = [phases EXCEPT ![t] = "answered"]
      /\ dones[t] = Names /\ (call[t].op = "get" => AskedBar(t) # {})
      /\ dones' = [dones EXCEPT ![t] = {}] /\ gots' = [gots EXCEPT ![t] = {}]
      /\ answers' = [answers EXCEPT ![t] = [ok |-> TRUE, shows |-> AskedBar(t)]]
  BY <1>1, <1>2, BarsOf DEF Moved
<1>4. Store!Succeed(t)
  BY <1>3, SameAsked DEF Store!Succeed, Store!Answered, Store!Enter, Store!Forget, phases, dones, gots, answers
<1> QED
  BY <1>4 DEF AbstractStep, Store!Next

(* A unary call: the reply is what was read of the server's answer.        *)
LEMMA UnaryRefines ==
    ASSUME ClientInv, NEW t \in Threads, Moved(t),
           CreateV1(t) \/ UpdateV1(t) \/ DeleteV1(t) \/ LookupV1(t)
    PROVE  AbstractStep
<1>1. /\ pc[t] = "sent" /\ pc'[t] = "done" /\ status[t] \in {"ok", "error"}
      /\ call[t].op \in Unary
      /\ UNCHANGED <<db, filters, call, status, resp, outs>>
      /\ result'[t] = IF status[t] = "ok" THEN "true" ELSE "false"
  BY DEF CreateV1, UpdateV1, DeleteV1, LookupV1, Return, Goto, ClientInv, TypeOK, CallInv, CallFits,
     serverVars
<1>2. UnaryCall(t)'
  <2>1. ClientInv'
    BY CreateStep, UpdateStep, DeleteStep, LookupStep
  <2> QED
    BY <2>1 DEF ClientInv, CallInv
<1>3. /\ out'[t] # resp[t] => status[t] = "error" /\ out'[t] = DefaultItem
      /\ outs'[t] = <<>>
  <2>1. pc'[t] = "done" /\ call'[t].op \in Unary /\ resp'[t] = resp[t] /\ status'[t] = status[t]
    BY <1>1
  <2> QED
    BY <1>2, <2>1 DEF UnaryCall
<1>4. gotBar(t) = {resp[t]} \ {DefaultItem}
  BY <1>1 DEF gotBar, phaseBar
<1>5. CASE status[t] = "error"
  <2>1. Shown(t)' \subseteq gotBar(t)
    BY <1>3, <1>4, SetOfEmpty DEF Shown
  <2> QED
    BY <1>1, <1>5, <2>1, FailedAnswer
<1>6. CASE status[t] = "ok"
  <2>1. phaseBar(t) = "called"
    BY <1>1, <1>6 DEF phaseBar
  <2>2. doneBar(t) = Names
    BY <1>1, <1>6, <2>1 DEF doneBar
  <2>3. call[t].op # "get"
    BY <1>1 DEF Unary
  <2>4. Shown(t)' = gotBar(t)
    BY <1>6, <1>3, <1>4, SetOfEmpty DEF Shown
  <2>5. ansBar(t)' = [ok |-> TRUE, shows |-> AskedBar(t)]
    BY <1>1, <1>6, <2>3, <2>4 DEF ansBar, Found, AskedBar
  <2> QED
    BY <1>1, <1>6, <2>2, <2>3, <2>5, GoodAnswer
<1> QED
  BY <1>1, <1>5, <1>6

(* A list shows what it has got: all of it is in the caller's vector.      *)
LEMMA FinishListRefines ==
    ASSUME ClientInv, NEW t \in Threads, FinishList(t), Moved(t)
    PROVE  AbstractStep
<1>1. /\ pc[t] = "finish" /\ pc'[t] = "done" /\ status[t] \in {"ok", "error"}
      /\ call[t].op = "list" /\ call[t].op \notin Unary /\ call[t] \in Calls
      /\ UNCHANGED <<db, filters, call, status, out, outs>>
      /\ result'[t] = IF status[t] = "ok" THEN "true" ELSE "false"
  BY DEF FinishList, Return, Goto, ClientInv, TypeOK, CallInv, CallFits, serverVars, Unary
<1>2. /\ wire[t] = <<>> /\ out[t] = DefaultItem
      /\ ToSet(outs[t]) \subseteq Wanted(Seen(t), call[t])
  BY <1>1 DEF ClientInv, CallInv, ListCall, Reading
<1>3. gotBar(t) = ToSet(outs[t])
  <2>1. OfType({} \cup {DefaultItem} \cup ToSet(outs[t]), call[t])
          = OfType({} \cup ToSet(outs[t]), call[t])
    BY <1>1, DefaultUnwanted
  <2>2. OfType(ToSet(outs[t]), call[t]) = ToSet(outs[t])
    BY <1>2 DEF OfType, Wanted, Matches
  <2> QED
    BY <1>1, <1>2, <2>1, <2>2, SetOfEmpty DEF gotBar, phaseBar
<1>4. Shown(t)' = gotBar(t)
  BY <1>1, <1>2, <1>3 DEF Shown
<1>5. CASE status[t] = "error"
  BY <1>1, <1>5, <1>4, FailedAnswer
<1>6. CASE status[t] = "ok"
  <2>1. visited[t] = Names
    BY <1>1, <1>6 DEF ClientInv, CallInv, OnTheWire, Reading
  <2>2. doneBar(t) = Names
    BY <1>1, <1>6, <2>1 DEF phaseBar, doneBar
  <2>3. ansBar(t)' = [ok |-> TRUE, shows |-> AskedBar(t)]
    BY <1>1, <1>6, <1>4 DEF ansBar, Found, AskedBar
  <2> QED
    BY <1>1, <1>6, <2>2, <2>3, GoodAnswer
<1> QED
  BY <1>1, <1>5, <1>6

(* A read of a name shows the one item of that name it has got, or says    *)
(* that there is none; whoever looks at the name in the reply takes the    *)
(* empty answer to a read of the empty name for that, too.                 *)
LEMMA FinishNamedRefines ==
    ASSUME ClientInv, NEW t \in Threads, FinishNamed(t), Moved(t)
    PROVE  AbstractStep
<1> DEFINE same == NameAs(item[t], call[t].type) = call[t].name
<1>1. /\ pc[t] = "finish" /\ pc'[t] = "done" /\ status[t] \in {"ok", "error"}
      /\ call[t].op = "get" /\ call[t].op \notin Unary /\ call[t] \in Calls
      /\ UNCHANGED <<db, filters, call, status, out, outs>>
      /\ result'[t] = IF status[t] = "ok" /\ same THEN "true" ELSE "false"
  BY DEF FinishNamed, Return, Goto, ClientInv, TypeOK, CallInv, CallFits, serverVars, Unary
<1>2. /\ outs[t] = <<>>
      /\ \/ out[t] = DefaultItem /\ item[t].type # call[t].type /\ wire[t] = <<>>
         \/ /\ out[t] = item[t] /\ out[t].type = call[t].type
            /\ out[t] \in Seen(t)
            /\ filters => Matches(out[t], call[t])
            /\ \A i \in 1..Len(wire[t]) : wire[t][i].name # out[t].name
  BY <1>1 DEF ClientInv, CallInv, GetCall, Reading
<1>3. gotBar(t) = OfType(ToSet(wire[t]) \cup {out[t]}, call[t])
  BY <1>1, <1>2, SetOfEmpty DEF gotBar, phaseBar
<1>4. Shown(t)' = {out[t]} \ {DefaultItem} /\ Shown(t)' \subseteq gotBar(t)
  BY <1>1, <1>2, <1>3, SetOfEmpty DEF Shown, OfType
<1>5. CASE status[t] = "error"
  BY <1>1, <1>5, <1>4, FailedAnswer
<1>6. CASE status[t] = "ok"
  <2>1. visited[t] = Names
    BY <1>1, <1>6 DEF ClientInv, CallInv, OnTheWire, Reading
  <2>2. phaseBar(t) = "called" /\ phaseBar(t)' = "answered" /\ doneBar(t) = Names
    BY <1>1, <1>6, <2>1 DEF phaseBar, doneBar
  <2>3. out[t] # DefaultItem => out[t].name # EmptyName
    <3>1. out[t] \in Items \cup {DefaultItem}
      BY DEF ClientInv, TypeOK
    <3> QED
      BY <3>1, NoneAssumption DEF Items
  <2>4. CASE out[t] # DefaultItem /\ same
    <3>1. Matches(out[t], call[t]) /\ out[t].name = call[t].name
      BY <1>1, <1>2, <2>4 DEF NameAs, Matches
    <3>2. \A it \in ToSet(wire[t]) : it.name # out[t].name
      <4>1. DOMAIN wire[t] = 1..Len(wire[t])
        BY DEF ClientInv, TypeOK
      <4> QED
        BY <1>2, <2>4, <4>1 DEF ToSet
    <3>3. AskedBar(t) = {out[t]}
      BY <1>1, <1>3, <3>1, <3>2 DEF AskedBar, OfType, Wanted, Matches
    <3>4. ansBar(t)' = [ok |-> TRUE, shows |-> AskedBar(t)]
      <4>1. Found(t)'
        BY <1>1, <1>6, <2>3, <2>4 DEF Found
      <4> QED
        BY <1>1, <1>4, <2>4, <3>3, <4>1 DEF ansBar
    <3> QED
      BY <1>1, <1>6, <2>2, <3>3, <3>4, GoodAnswer
  <2>5. CASE out[t] = DefaultItem \/ ~same
    <3>1. Found(t)' = FALSE
      BY <1>1, <2>5, NoItem DEF Found
    <3>2. out[t] # DefaultItem => ~Matches(out[t], call[t])
      BY <1>1, <1>2, <2>5 DEF NameAs, Matches
    <3>3. filters => gotBar(t) = {}
      BY <1>1, <1>2, <1>3, <3>2, SetOfEmpty, DefaultUnwanted DEF OfType
    <3>4. Shown(t)' \in SUBSET (gotBar(t) \ AskedBar(t))
      BY <1>1, <1>4, <3>2 DEF AskedBar, Wanted
    <3>5. doneBar(t)' = {} /\ gotBar(t)' = {}
      BY <2>2 DEF doneBar, gotBar
    <3>6. ansBar(t)' = [ok |-> FALSE, shows |-> Shown(t)']
      BY <1>1, <3>1 DEF ansBar
    <3>7. /\ phases[t] = "called" /\ phases' = [phases EXCEPT ![t] = "answered"]
          /\ dones[t] = Names /\ (filters => gots[t] = {})
          /\ dones' = [dones EXCEPT ![t] = {}] /\ gots' = [gots EXCEPT ![t] = {}]
          /\ \E shows \in SUBSET (gots[t] \ AskedBar(t)) :
                 answers' = [answers EXCEPT ![t] = [ok |-> FALSE, shows |-> shows]]
      BY <2>2, <3>3, <3>4, <3>5, <3>6, BarsOf DEF Moved
    <3>8. Store!NotFound(t)
      BY <1>1, <3>7, SameAsked DEF Store!NotFound, Store!Answered, Store!Enter, Store!Forget,
         phases, dones, gots, answers
    <3> QED
      BY <3>8 DEF AbstractStep, Store!Next
  <2> QED
    BY <2>4, <2>5
<1> QED
  BY <1>1, <1>5, <1>6

-----------------------------------------------------------------------------
LEMMA InitRefines == Init => Store!Init
<1>1. SUFFICES ASSUME Init
               PROVE  Store!Init
  OBVIOUS
<1>2. ASSUME NEW t \in Threads
      PROVE  /\ phaseBar(t) = "idle" /\ doneBar(t) = {} /\ gotBar(t) = {}
             /\ ansBar(t) = Store!NoAnswer
  BY <1>1 DEF Init, phaseBar, doneBar, gotBar, ansBar, Store!NoAnswer
<1> QED
  BY <1>1, <1>2, SameNotions DEF Init, Store!Init

(* Every step of the client, the network and the server is a step of       *)
(* UpsfStore or stutters.                                                  *)
LEMMA StepRefines ==
    ASSUME ClientInv, [Next]_vars
    PROVE  [Store!Next]_(Store!vars)
<1>1. ASSUME NEW t \in Threads, Invoke(t) \/ Collect(t) \/ Client(t) \/ Server(t)
      PROVE  Moved(t)
  BY <1>1, StepsAlone, MovesAlone
<1>2. ASSUME NEW t \in Threads, Client(t)
      PROVE  AbstractStep
  BY <1>1, <1>2, LockRefines, UnaryRefines, ReadNamedRefines, ReadListRefines, ReadEndRefines,
     FinishNamedRefines, FinishListRefines DEF Client, ReadV1Name, ReadV1List
<1>3. ASSUME NEW t \in Threads, Server(t)
      PROVE  AbstractStep
  BY <1>1, <1>3, ServerApplyRefines, RpcErrorRefines, ServerStreamRefines, ServerCloseRefines
     DEF Server
<1>4. ASSUME UNCHANGED vars
      PROVE  AbstractStep
  <2>1. \A t \in Threads : SameCall(t)
    BY <1>4 DEF SameCall, vars
  <2>2. phases' = phases /\ dones' = dones /\ gots' = gots /\ answers' = answers
    BY <2>1, SameBars DEF phases, dones, gots, answers
  <2> QED
    BY <1>4, <2>2 DEF AbstractStep, vars
<1>5. AbstractStep
  BY <1>1, <1>2, <1>3, <1>4, InvokeRefines, CollectRefines, OtherClientRefines DEF Next
<1> QED
  BY <1>5 DEF AbstractStep, Store!vars, phases, dones, gots, answers

(* Whichever thread, stream and error path a call of class UpsfClient goes *)
(* through, its caller sees a request carried out at one moment and at     *)
(* most once, or a read that came by every name once; and what a failure   *)
(* leaves in its reply is part of what the call had got.                   *)
THEOREM ClientRefinement == Spec => StoreSpec
<1>1. Init => Store!Init
  BY InitRefines
<1>2. ClientInv /\ [Next]_vars => [Store!Next]_(Store!vars)
  BY StepRefines
<1> QED
  BY <1>1, <1>2, ClientInvariant, PTL DEF Spec, StoreSpec, Store!Spec
=============================================================================
