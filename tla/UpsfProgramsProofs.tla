-------------------------- MODULE UpsfProgramsProofs --------------------------
(***************************************************************************)
(* Proofs about UpsfPrograms, for any number of processes, items, runs and *)
(* faults.                                                                 *)
(***************************************************************************)
EXTENDS UpsfPrograms, TLAPS

(* Both modules speak of the same items and calls.                         *)
LEMMA SameNotions ==
    /\ Store!NoCall = NoCall /\ Store!DefaultItem = DefaultItem /\ Store!Unary = Unary
    /\ Store!Items = Items /\ Store!Databases = Databases /\ Store!Calls = Calls
    /\ \A d, n : Store!Named(d, n) = Named(d, n)
    /\ \A d, c : Store!Wanted(d, c) = Wanted(d, c)
    /\ \A c, d, e, r : Store!Carries(c, d, e, r) <=> Carries(c, d, e, r)
<1>1. /\ Store!NoCall = NoCall /\ Store!DefaultItem = DefaultItem /\ Store!Unary = Unary
      /\ Store!Items = Items
  BY DEF Store!NoCall, NoCall, Store!DefaultItem, DefaultItem, Store!Unary, Unary, Store!Items,
     Items
<1>2. Store!Databases = Databases
  BY <1>1 DEF Store!Databases, Databases, Store!UniqueNames, UniqueNames
<1>7. Store!Calls = Calls
  BY DEF Store!Calls, Calls
<1>3. \A d, n : Store!Named(d, n) = Named(d, n)
  BY DEF Store!Named, Named
<1>4. \A d, c : Store!Wanted(d, c) = Wanted(d, c)
  BY DEF Store!Wanted, Wanted, Store!Matches, Matches
<1>5. \A c : Store!Requested(c) = Requested(c)
  BY DEF Store!Requested, Requested
<1>6. \A c, d, e, r : Store!Carries(c, d, e, r) <=> Carries(c, d, e, r)
  BY <1>1, <1>3, <1>5 DEF Store!Carries, Carries
<1> QED
  BY <1>1, <1>2, <1>3, <1>4, <1>6, <1>7

(* The orders in which items are created and deleted name them all.        *)
LEMMA Orders ==
    /\ Len(CreateOrder) \in Nat \ {0}
    /\ DOMAIN CreateOrder = 1..Len(CreateOrder) /\ DOMAIN DeleteOrder = 1..Len(CreateOrder)
    /\ \A i \in DOMAIN CreateOrder : CreateOrder[i] \in Names /\ DeleteOrder[i] \in Names
    /\ \A i, j \in DOMAIN CreateOrder : CreateOrder[i] = CreateOrder[j] => i = j
    /\ \A n \in Names : \E i \in DOMAIN DeleteOrder : DeleteOrder[i] = n
<1>1. CreateOrder \in Seq(Names) /\ DeleteOrder \in Seq(Names) /\ CreateOrder # <<>>
      /\ Len(DeleteOrder) = Len(CreateOrder)
  BY ProgramsAssumption
<1>2. \A i, j \in DOMAIN CreateOrder : CreateOrder[i] = CreateOrder[j] => i = j
  BY ProgramsAssumption DEF IsInjective
<1>3. \A n \in Names : \E i \in DOMAIN DeleteOrder : DeleteOrder[i] = n
  BY ProgramsAssumption DEF ToSet
<1>4. Len(CreateOrder) \in Nat \ {0}
  BY <1>1
<1>5. DOMAIN CreateOrder = 1..Len(CreateOrder) /\ DOMAIN DeleteOrder = 1..Len(CreateOrder)
  BY <1>1
<1>6. \A i \in DOMAIN CreateOrder : CreateOrder[i] \in Names /\ DeleteOrder[i] \in Names
  BY <1>1, <1>5
<1> QED
  BY <1>2, <1>3, <1>4, <1>5, <1>6

(* A running process is at an item, and this is the call it makes.         *)
LEMMA TheCall ==
    ASSUME TypeOK, NEW p \in Threads, Running(p)
    PROVE  /\ ItemAt(p) \in Names
           /\ CallOf(p) \in Calls
           /\ CallOf(p).name = ItemAt(p)
           /\ CallOf(p).op = IF pc[p] \in {"exists", "read"} THEN "get" ELSE pc[p]
           /\ pc[p] \in {"create", "update", "read"} => CallOf(p).type = TypeOf[ItemAt(p)]
           /\ pc[p] = "exists" => CallOf(p).type = ExistsType(ItemAt(p))
           /\ pc[p] = "create" => CallOf(p).val = "bare"
           /\ pc[p] = "update" => CallOf(p).val = "described"
<1>1. at[p] \in DOMAIN CreateOrder
  BY DEF TypeOK
<1>2. ItemAt(p) \in Names
  BY <1>1, Orders DEF ItemAt
<1>3. TypeOf[ItemAt(p)] \in ItemTypes /\ ExistsType(ItemAt(p)) \in ItemTypes
      /\ "bare" \in Vals /\ "described" \in Vals
  BY <1>2, ProgramsAssumption DEF ExistsType
<1> DEFINE n == ItemAt(p)
<1> HIDE DEF n
<1>4. CASE pc[p] = "exists"
  <2>1. CallOf(p) = [op |-> "get", type |-> ExistsType(n), name |-> n, val |-> None]
    BY <1>4 DEF CallOf, n
  <2> QED
    BY <1>2, <1>3, <1>4, <2>1 DEF Calls, n
<1>5. CASE pc[p] = "create"
  <2>1. CallOf(p) = [op |-> "create", type |-> TypeOf[n], name |-> n, val |-> "bare"]
    BY <1>5 DEF CallOf, n
  <2> QED
    BY <1>2, <1>3, <1>5, <2>1 DEF Calls, n
<1>6. CASE pc[p] = "update"
  <2>1. CallOf(p) = [op |-> "update", type |-> TypeOf[n], name |-> n, val |-> "described"]
    BY <1>6 DEF CallOf, n
  <2> QED
    BY <1>2, <1>3, <1>6, <2>1 DEF Calls, n
<1>7. CASE pc[p] = "read"
  <2>1. CallOf(p) = [op |-> "get", type |-> TypeOf[n], name |-> n, val |-> None]
    BY <1>7 DEF CallOf, n
  <2> QED
    BY <1>2, <1>3, <1>7, <2>1 DEF Calls, n
<1>8. CASE pc[p] = "delete"
  <2>1. CallOf(p) = [op |-> "delete", type |-> None, name |-> n, val |-> None]
    BY <1>8 DEF CallOf, n
  <2> QED
    BY <1>2, <1>3, <1>8, <2>1 DEF Calls, n
<1> QED
  BY <1>4, <1>5, <1>6, <1>7, <1>8 DEF Running, Working

-----------------------------------------------------------------------------
(* What the server does to the items.                                      *)

LEMMA OneOfAName ==
    ASSUME NEW d \in Databases, NEW it \in d
    PROVE  it \in Items /\ it.name \in Names /\ Named(d, it.name) = {it}
BY DEF Databases, UniqueNames, Named, Items

(* A request changes no item but the one it names.                         *)
LEMMA CarriedOut ==
    ASSUME NEW c \in Calls, NEW d \in Databases, NEW e, NEW reply, Carries(c, d, e, reply)
    PROVE  /\ e \in Databases
           /\ \A n : n # c.name => Named(e, n) = Named(d, n)
           /\ c.op = "create" => Named(d, c.name) = {} /\ Named(e, c.name) = {Requested(c)}
           /\ c.op = "update" => Named(d, c.name) # {} /\ Named(e, c.name) = {Requested(c)}
           /\ c.op = "delete" => Named(d, c.name) # {} /\ Named(e, c.name) = {}
           /\ c.op \in {"create", "update"} => Requested(c).name = c.name
<1>1. c.op \in {"create", "update"} =>
          /\ Requested(c) \in Items
          /\ Requested(c).name = c.name
  BY DEF Calls, Requested, Items
<1>2. CASE /\ c.op = "create" /\ Named(d, c.name) = {} /\ e = d \cup {Requested(c)}
  BY <1>1, <1>2 DEF Databases, UniqueNames, Named
<1>3. ASSUME c.op = "update", NEW it \in Named(d, c.name),
             e = (d \ {it}) \cup {Requested(c)}
      PROVE  /\ e \in Databases
             /\ \A n : n # c.name => Named(e, n) = Named(d, n)
             /\ Named(d, c.name) # {} /\ Named(e, c.name) = {Requested(c)}
  <2>1. it \in d /\ it.name = c.name /\ Named(d, c.name) = {it}
    BY OneOfAName DEF Named
  <2> QED
    BY <1>1, <1>3, <2>1 DEF Databases, UniqueNames, Named
<1>4. CASE /\ c.op = "delete" /\ Named(d, c.name) # {} /\ e = d \ Named(d, c.name)
  BY <1>4 DEF Databases, UniqueNames, Named
<1>5. CASE c.op = "lookup" /\ e = d
  BY <1>5
<1> QED
  BY <1>1, <1>2, <1>3, <1>4, <1>5 DEF Carries

-----------------------------------------------------------------------------
(* A step of one process leaves what concerns the others as it is.         *)

SameProcess(q) ==
    /\ pc'[q] = pc[q] /\ at'[q] = at[q]
    /\ phase'[q] = phase[q] /\ call'[q] = call[q]
    /\ done'[q] = done[q] /\ got'[q] = got[q] /\ ans'[q] = ans[q]
    /\ hit'[q] = hit[q]

Only(p) == kind' = kind /\ \A q \in Threads \ {p} : SameProcess(q)

LEMMA SamePlace ==
    ASSUME NEW q \in Threads, kind' = kind, pc'[q] = pc[q], at'[q] = at[q]
    PROVE  ItemAt(q)' = ItemAt(q) /\ CallOf(q)' = CallOf(q) /\ (Running(q)' <=> Running(q))
<1>1. ItemAt(q)' = ItemAt(q)
  BY DEF ItemAt
<1> QED
  BY <1>1 DEF CallOf, Running

LEMMA SameView ==
    ASSUME NEW q \in Threads, kind' = kind, SameProcess(q)
    PROVE  /\ \A n : Holds(q, n)' <=> Holds(q, n)
           /\ \A n : WillDescribe(q, n)' <=> WillDescribe(q, n)
           /\ OwnCall(q) => OwnCall(q)'
           /\ Undisturbed(q) => Undisturbed(q)'
<1>1. ItemAt(q)' = ItemAt(q) /\ CallOf(q)' = CallOf(q) /\ (Running(q)' <=> Running(q))
  BY SamePlace DEF SameProcess
<1>2. Applied(q)' <=> Applied(q)
  BY DEF SameProcess, Applied
<1> QED
  BY <1>1, <1>2 DEF SameProcess, Holds, WillDescribe, OwnCall, Undisturbed

(* A process beside a running one is not alone.                            *)
LEMMA NotAlone ==
    ASSUME ProgramsInv, NEW p \in Threads, Running(p), alone' = alone,
           NEW q \in Threads \ {p}
    PROVE  NobodyElse(q)' /\ CalmRun(q)'
<1>1. ~alone[q]
  BY DEF ProgramsInv, NobodyElse
<1> QED
  BY <1>1 DEF NobodyElse, CalmRun, Calm

(* What is left to show of a step of a running process.                    *)
Kept(p) == OwnCall(p)' /\ Undisturbed(p)' /\ NobodyElse(p)' /\ CalmRun(p)'
Shared == TypedItems' /\ OneHolder' /\ LateWrites' /\ LeftAlone' /\ BareWillBeDescribed'

LEMMA ProcessStep ==
    ASSUME ProgramsInv, NEW p \in Threads, Running(p), Only(p), alone' = alone,
           TypeOK', Kept(p), Shared
    PROVE  ProgramsInv'
<1>1. ASSUME NEW q \in Threads
      PROVE  OwnCall(q)' /\ Undisturbed(q)' /\ NobodyElse(q)' /\ CalmRun(q)'
  <2>1. CASE q = p
    BY <2>1 DEF Kept
  <2>2. CASE q # p
    <3>1. OwnCall(q)' /\ Undisturbed(q)'
      BY <2>2, SameView DEF Only, ProgramsInv
    <3> QED
      BY <2>2, <3>1, NotAlone
  <2> QED
    BY <2>1, <2>2
<1> QED
  BY <1>1 DEF ProgramsInv, Shared

(* A process that is alone stays so, and no request is late, unless it is  *)
(* hit itself.                                                             *)
LEMMA StaysAlone ==
    ASSUME ProgramsInv, NEW p \in Threads, Only(p), alone' = alone,
           hit'[p] \/ (late' = late /\ hit'[p] = hit[p])
    PROVE  NobodyElse(p)'
<1>1. \A q \in Threads \ {p} : Running(q)' <=> Running(q)
  BY SamePlace DEF Only, SameProcess
<1> QED
  BY <1>1 DEF ProgramsInv, NobodyElse

(* Steps that change no item and send no late request.                     *)
LEMMA QuietStep ==
    ASSUME ProgramsInv, NEW p \in Threads, Only(p), UNCHANGED <<db, late, found>>,
           \A n : Holds(p, n)' => Holds(p, n),
           \A n \in Bare(db) \ abandoned' :
               n \notin abandoned /\ (WillDescribe(p, n) => WillDescribe(p, n)')
    PROVE  Shared
<1>1. \A q \in Threads : \A n : Holds(q, n)' => Holds(q, n)
  BY SameView DEF Only
<1>2. kind' = kind
  BY DEF Only
<1>3. TypedItems'
  BY DEF ProgramsInv, TypedItems
<1>4. OneHolder'
  BY <1>1 DEF ProgramsInv, OneHolder, Named
<1>5. LateWrites'
  BY <1>1, <1>2 DEF ProgramsInv, LateWrites, Named
<1>6. LeftAlone'
  BY <1>1, <1>2 DEF ProgramsInv, LeftAlone
<1>7. BareWillBeDescribed'
  <2>1. SUFFICES ASSUME NEW n \in Bare(db) \ abandoned'
                 PROVE  \E q \in Threads : WillDescribe(q, n)'
    BY DEF BareWillBeDescribed, Bare
  <2>2. PICK q \in Threads : WillDescribe(q, n)
    BY <2>1 DEF ProgramsInv, BareWillBeDescribed
  <2>3. WillDescribe(q, n)'
    BY <2>1, <2>2, SameView DEF Only
  <2> QED
    BY <2>3
<1> QED
  BY <1>3, <1>4, <1>5, <1>6, <1>7 DEF Shared

(* Between two calls only what it knows of its item changes.               *)
LEMMA CalmStep ==
    ASSUME ProgramsInv, NEW p \in Threads, Running(p),
           UNCHANGED <<db, found, kind, pc, at, alone, hit>>,
           Calm(p) /\ CalmAt(p, ItemAt(p)) => CalmAt(p, ItemAt(p))'
    PROVE  CalmRun(p)'
<1>1. SUFFICES ASSUME Calm(p)  PROVE CalmRun(p)'
  BY DEF Calm, CalmRun
<1>2. CalmAt(p, ItemAt(p))'
  BY <1>1 DEF ProgramsInv, CalmRun
<1> QED
  BY <1>1, <1>2 DEF ProgramsInv, CalmRun, Named, Working, Calm

-----------------------------------------------------------------------------
(* The calls of a process and their answers change no item.                *)

LEMMA RequestStep ==
    ASSUME ProgramsInv, NEW p \in Threads, Request(p)
    PROVE  ProgramsInv'
<1>1. /\ Running(p) /\ phase[p] = "idle"
      /\ phase' = [phase EXCEPT ![p] = "called"]
      /\ call' = [call EXCEPT ![p] = CallOf(p)]
      /\ UNCHANGED <<db, filters, done, got, ans>>
      /\ UNCHANGED <<kind, pc, at, runs, faults, late, hit, alone, found, abandoned>>
  BY DEF Request, Store!Enter, history
<1>2. TypeOK
  BY DEF ProgramsInv
<1>3. TypeOK'
  BY <1>1, <1>2, TheCall DEF TypeOK
<1>4. Only(p) /\ phase'[p] = "called" /\ call'[p] = CallOf(p)
  BY <1>1, <1>2 DEF TypeOK, Only, SameProcess
<1>5. ItemAt(p)' = ItemAt(p) /\ CallOf(p)' = CallOf(p) /\ Running(p)'
  BY <1>1, SamePlace
<1>6. done[p] = {} /\ got[p] = {}
  BY <1>1 DEF ProgramsInv, OwnCall
<1>7. ~Applied(p) /\ ~Applied(p)'
  BY <1>1, <1>4, <1>6 DEF Applied
<1>8. Shared
  <2>1. \A n : Holds(p, n)' => Holds(p, n)
    BY <1>1, <1>5, <1>6, <1>7 DEF Holds
  <2>2. \A n : WillDescribe(p, n) => WillDescribe(p, n)'
    BY <1>1, <1>4, <1>5, <1>6, <1>7 DEF WillDescribe
  <2> QED
    BY <1>1, <1>4, <2>1, <2>2, QuietStep
<1>9. Kept(p)
  <2>1. OwnCall(p)'
    BY <1>4, <1>5 DEF OwnCall
  <2>2. Undisturbed(p)'
    BY <1>1, <1>4 DEF ProgramsInv, Undisturbed
  <2>3. NobodyElse(p)'
    BY <1>1, <1>4, StaysAlone
  <2>4. CalmRun(p)'
    <3>1. CalmAt(p, ItemAt(p)) => CalmAt(p, ItemAt(p))'
      BY <1>1, <1>4, <1>5, <1>6, <1>7 DEF CalmAt, Missed, Described, Named, Bare
    <3> QED
      BY <1>1, <3>1, CalmStep
  <2> QED
    BY <2>1, <2>2, <2>3, <2>4 DEF Kept
<1> QED
  BY <1>1, <1>3, <1>4, <1>8, <1>9, ProcessStep

(* A name of a read is passed by.                                          *)
LEMMA ObserveStep ==
    ASSUME ProgramsInv, NEW p \in Threads, NEW m \in Names, Store!Observe(p, m), Forgive,
           UNCHANGED <<kind, pc, at, runs, faults, late, history>>
    PROVE  ProgramsInv'
<1>1. /\ phase[p] = "called" /\ call[p].op \notin Unary /\ m \notin done[p]
      /\ done' = [done EXCEPT ![p] = @ \cup {m}]
      /\ got' = [got EXCEPT ![p] = @ \cup Wanted(Named(db, m), call[p])]
      /\ UNCHANGED <<db, filters, phase, call, ans>>
      /\ UNCHANGED <<kind, pc, at, runs, faults, late, hit, alone, found>>
      /\ abandoned' = abandoned \cap Bare(db)
  <2>1. filters = TRUE
    BY DEF ProgramsInv, TypeOK
  <2> QED
    BY <2>1, SameNotions DEF Store!Observe, history, Forgive
<1>2. TypeOK
  BY DEF ProgramsInv
<1>3. Running(p) /\ call[p] = CallOf(p)
  BY <1>1 DEF ProgramsInv, OwnCall
<1>4. pc[p] \in {"exists", "read"} /\ call[p].op = "get" /\ call[p].name = ItemAt(p)
      /\ ItemAt(p) \in Names
  BY <1>1, <1>2, <1>3, TheCall DEF Running, Working, Unary
<1> DEFINE seen == Wanted(Named(db, m), call[p])
<1>5. seen \in SUBSET Items
  BY <1>2 DEF TypeOK, Databases, Wanted, Named
<1>6. TypeOK'
  BY <1>1, <1>2, <1>5 DEF TypeOK
<1>7. /\ Only(p)
      /\ done'[p] = done[p] \cup {m} /\ got'[p] = got[p] \cup seen
  BY <1>1, <1>2 DEF TypeOK, Only, SameProcess
<1>8. ItemAt(p)' = ItemAt(p) /\ CallOf(p)' = CallOf(p) /\ Running(p)'
  BY <1>1, <1>3, SamePlace
<1>9. Shared
  <2>1. \A n : Holds(p, n)' => Holds(p, n)
    BY <1>1, <1>3, <1>4, <1>8 DEF Holds
  <2>2. \A n : ~WillDescribe(p, n)
    BY <1>4 DEF WillDescribe
  <2> QED
    BY <1>1, <1>7, <2>1, <2>2, QuietStep
<1>10. Kept(p)
  <2>1. OwnCall(p)'
    BY <1>1, <1>3, <1>8 DEF OwnCall
  <2>2. Undisturbed(p)'
    BY <1>1 DEF ProgramsInv, Undisturbed
  <2>3. NobodyElse(p)'
    BY <1>1, <1>7, StaysAlone
  <2>4. CalmRun(p)'
    <3>1. SUFFICES ASSUME CalmAt(p, ItemAt(p))  PROVE CalmAt(p, ItemAt(p))'
      BY <1>1, <1>3, CalmStep
    <3> DEFINE n == ItemAt(p)
               wanted == Wanted(Named(db, n), CallOf(p))
    <3>3. seen = IF m = n THEN wanted ELSE {}
      BY <1>3, <1>4 DEF Wanted, Matches, Named
    <3>4. pc[p] = "exists" => /\ got[p] \subseteq wanted
                              /\ n \in done[p] => got[p] = wanted
      BY <1>1, <3>1 DEF CalmAt
    <3>5. pc[p] = "exists" => /\ got'[p] \subseteq wanted
                              /\ n \in done'[p] => got'[p] = wanted
      <4> HIDE DEF n, wanted, seen
      <4> QED
        BY <1>7, <3>3, <3>4
    <3>6. wanted' = wanted
      BY <1>1, <1>8 DEF Wanted, Named, Matches
    <3>7. CalmAt(p, n)'
      <4>1. CASE pc[p] = "exists"
        <5> HIDE DEF wanted
        <5>1. Named(db, n)' = Named(db, n) /\ Named(found, n)' = Named(found, n) /\ n' = n
          BY <1>1, <1>8 DEF Named
        <5>2. Named(db, n) = Named(found, n)
          BY <4>1, <3>1 DEF CalmAt
        <5> HIDE DEF n
        <5> QED
          BY <1>1, <1>8, <3>5, <3>6, <4>1, <5>1, <5>2 DEF CalmAt, wanted
      <4>2. CASE pc[p] = "read"
        BY <1>1, <1>8, <3>1, <4>2 DEF CalmAt, Missed, Described, Named, Bare
      <4> QED
        BY <1>4, <4>1, <4>2
    <3> QED
      BY <3>7
  <2> QED
    BY <2>1, <2>2, <2>3, <2>4 DEF Kept
<1> QED
  BY <1>1, <1>3, <1>6, <1>7, <1>9, <1>10, ProcessStep

(* The call has been dealt with and succeeds.                              *)
LEMMA SucceedStep ==
    ASSUME ProgramsInv, NEW p \in Threads, Store!Succeed(p), Forgive,
           UNCHANGED <<kind, pc, at, runs, faults, late, history>>
    PROVE  ProgramsInv'
<1>1. PICK shows \in SUBSET got[p] :
      /\ phase[p] = "called" /\ done[p] = Names /\ (call[p].op = "get" => got[p] # {})
      /\ phase' = [phase EXCEPT ![p] = "answered"]
      /\ ans' = [ans EXCEPT ![p] = [ok |-> TRUE, shows |-> shows]]
      /\ done' = [done EXCEPT ![p] = {}] /\ got' = [got EXCEPT ![p] = {}]
      /\ UNCHANGED <<db, filters, call>>
      /\ UNCHANGED <<kind, pc, at, runs, faults, late, hit, alone, found>>
      /\ abandoned' = abandoned \cap Bare(db)
  <2>1. Store!Asked(p) \in SUBSET got[p]
    BY SameNotions DEF Store!Asked, Wanted
  <2> QED
    BY <2>1, SameNotions
    DEF Store!Succeed, Store!Answered, Store!Enter, Store!Forget, history, Forgive
<1>2. TypeOK
  BY DEF ProgramsInv
<1>3. Running(p) /\ call[p] = CallOf(p)
  BY <1>1 DEF ProgramsInv, OwnCall
<1>4. ItemAt(p) \in Names
      /\ (pc[p] = "exists" => call[p].op = "get")
  BY <1>2, <1>3, TheCall
<1>5. TypeOK'
  BY <1>1, <1>2 DEF TypeOK
<1>6. /\ Only(p)
      /\ phase'[p] = "answered" /\ ans'[p].ok = TRUE
      /\ done'[p] = {} /\ got'[p] = {}
  BY <1>1, <1>2 DEF TypeOK, Only, SameProcess
<1>7. ItemAt(p)' = ItemAt(p) /\ CallOf(p)' = CallOf(p) /\ Running(p)'
  BY <1>1, <1>3, SamePlace
<1>8. done[p] # {} /\ Applied(p) /\ Applied(p)'
  BY <1>1, <1>4, <1>6 DEF Applied
<1>9. Shared
  <2>1. \A n : Holds(p, n)' => Holds(p, n)
    BY <1>1, <1>3, <1>6, <1>7, <1>8 DEF Holds
  <2>2. \A n : WillDescribe(p, n) => WillDescribe(p, n)'
    BY <1>1, <1>7, <1>8 DEF WillDescribe
  <2> QED
    BY <1>1, <1>6, <2>1, <2>2, QuietStep
<1>10. Kept(p)
  <2>1. OwnCall(p)'
    BY <1>1, <1>3, <1>6, <1>7 DEF OwnCall
  <2>2. Undisturbed(p)'
    BY <1>1, <1>6 DEF ProgramsInv, Undisturbed
  <2>3. NobodyElse(p)'
    BY <1>1, <1>6, StaysAlone
  <2>4. CalmRun(p)'
    <3>1. SUFFICES ASSUME CalmAt(p, ItemAt(p))  PROVE CalmAt(p, ItemAt(p))'
      BY <1>1, <1>3, CalmStep
    <3>2. CASE pc[p] = "exists"
      <4>1. got[p] = Wanted(Named(db, ItemAt(p)), CallOf(p)) /\ got[p] # {}
        BY <1>1, <1>4, <3>1, <3>2 DEF CalmAt
      <4>2. Wanted(Named(db, ItemAt(p)), CallOf(p))' = got[p]
        BY <1>1, <1>7, <4>1 DEF Wanted, Named, Matches
      <4>3. Named(db, ItemAt(p))' = Named(found, ItemAt(p))'
        BY <1>1, <1>7, <3>1, <3>2 DEF CalmAt, Named
      <4> QED
        BY <1>1, <1>6, <3>2, <4>1, <4>2, <4>3 DEF CalmAt
    <3>3. CASE pc[p] # "exists"
      BY <1>1, <1>6, <1>7, <1>8, <3>1, <3>3 DEF CalmAt, Missed, Described, Named, Bare
    <3> QED
      BY <3>2, <3>3
  <2> QED
    BY <2>1, <2>2, <2>3, <2>4 DEF Kept
<1> QED
  BY <1>1, <1>3, <1>5, <1>6, <1>9, <1>10, ProcessStep

(* A read of a name has not come by the item.                              *)
LEMMA NotFoundStep ==
    ASSUME ProgramsInv, NEW p \in Threads, Store!NotFound(p), Forgive,
           UNCHANGED <<kind, pc, at, runs, faults, late, history>>
    PROVE  ProgramsInv'
<1>1. PICK shows \in SUBSET got[p] :
      /\ phase[p] = "called" /\ done[p] = Names /\ call[p].op = "get" /\ (filters => got[p] = {})
      /\ phase' = [phase EXCEPT ![p] = "answered"]
      /\ ans' = [ans EXCEPT ![p] = [ok |-> FALSE, shows |-> shows]]
      /\ done' = [done EXCEPT ![p] = {}] /\ got' = [got EXCEPT ![p] = {}]
      /\ UNCHANGED <<db, filters, call>>
      /\ UNCHANGED <<kind, pc, at, runs, faults, late, hit, alone, found>>
      /\ abandoned' = abandoned \cap Bare(db)
  BY SameNotions DEF Store!NotFound, Store!Answered, Store!Enter, Store!Forget, history, Forgive
<1>2. TypeOK
  BY DEF ProgramsInv
<1>3. Running(p) /\ call[p] = CallOf(p)
  BY <1>1 DEF ProgramsInv, OwnCall
<1>4. ItemAt(p) \in Names /\ pc[p] \in {"exists", "read"} /\ got[p] = {}
  BY <1>1, <1>2, <1>3, TheCall DEF Running, Working, TypeOK
<1>5. TypeOK'
  BY <1>1, <1>2 DEF TypeOK
<1>6. /\ Only(p)
      /\ phase'[p] = "answered" /\ ans'[p].ok = FALSE
      /\ done'[p] = {} /\ got'[p] = {}
  BY <1>1, <1>2 DEF TypeOK, Only, SameProcess
<1>7. ItemAt(p)' = ItemAt(p) /\ CallOf(p)' = CallOf(p) /\ Running(p)'
  BY <1>1, <1>3, SamePlace
<1>8. Shared
  <2>1. \A n : Holds(p, n)' => Holds(p, n)
    BY <1>1, <1>3, <1>4, <1>7 DEF Holds
  <2>2. \A n : ~WillDescribe(p, n)
    BY <1>4 DEF WillDescribe
  <2> QED
    BY <1>1, <1>6, <2>1, <2>2, QuietStep
<1>9. Kept(p)
  <2>1. OwnCall(p)'
    BY <1>1, <1>3, <1>6, <1>7 DEF OwnCall
  <2>2. Undisturbed(p)'
    BY <1>1, <1>4 DEF ProgramsInv, Undisturbed
  <2>3. NobodyElse(p)'
    BY <1>1, <1>6, StaysAlone
  <2>4. CalmRun(p)'
    <3>1. SUFFICES ASSUME CalmAt(p, ItemAt(p))  PROVE CalmAt(p, ItemAt(p))'
      BY <1>1, <1>3, CalmStep
    <3>2. CASE pc[p] = "exists"
      <4>1. Wanted(Named(db, ItemAt(p)), CallOf(p)) = {}
        BY <1>1, <1>4, <3>1, <3>2 DEF CalmAt
      <4>2. Wanted(Named(db, ItemAt(p)), CallOf(p))' = {}
        BY <1>1, <1>7, <4>1 DEF Wanted, Named, Matches
      <4>3. Named(db, ItemAt(p))' = Named(found, ItemAt(p))'
        BY <1>1, <1>7, <3>1, <3>2 DEF CalmAt, Named
      <4> QED
        BY <1>1, <1>6, <3>2, <4>2, <4>3 DEF CalmAt
    <3>3. CASE pc[p] = "read"
      BY <1>1, <1>7, <3>1, <3>3 DEF CalmAt, Missed, Described, Named, Bare
    <3> QED
      BY <1>4, <3>2, <3>3
  <2> QED
    BY <2>1, <2>2, <2>3, <2>4 DEF Kept
<1> QED
  BY <1>1, <1>3, <1>5, <1>6, <1>8, <1>9, ProcessStep

(* A call that has failed says so.                                         *)
LEMMA GiveUpStep ==
    ASSUME ProgramsInv, NEW p \in Threads, Store!GiveUp(p), Forgive,
           UNCHANGED <<kind, pc, at, runs, faults, late, history>>
    PROVE  ProgramsInv'
<1>1. PICK shows \in SUBSET got[p] :
      /\ phase[p] = "failed"
      /\ phase' = [phase EXCEPT ![p] = "answered"]
      /\ ans' = [ans EXCEPT ![p] = [ok |-> FALSE, shows |-> shows]]
      /\ done' = [done EXCEPT ![p] = {}] /\ got' = [got EXCEPT ![p] = {}]
      /\ UNCHANGED <<db, filters, call>>
      /\ UNCHANGED <<kind, pc, at, runs, faults, late, hit, alone, found>>
      /\ abandoned' = abandoned \cap Bare(db)
  BY SameNotions DEF Store!GiveUp, Store!Answered, Store!Enter, Store!Forget, history, Forgive
<1>2. TypeOK
  BY DEF ProgramsInv
<1>3. Running(p) /\ call[p] = CallOf(p)
  BY <1>1 DEF ProgramsInv, OwnCall
<1>4. TypeOK'
  BY <1>1, <1>2 DEF TypeOK
<1>5. /\ Only(p)
      /\ phase'[p] = "answered" /\ ans'[p].ok = FALSE
      /\ done'[p] = {} /\ got'[p] = {}
  BY <1>1, <1>2 DEF TypeOK, Only, SameProcess
<1>6. ItemAt(p)' = ItemAt(p) /\ CallOf(p)' = CallOf(p) /\ Running(p)'
  BY <1>1, <1>3, SamePlace
<1>7. ~Applied(p) /\ ~Applied(p)'
  BY <1>1, <1>5 DEF Applied
<1>8. Shared
  <2>1. \A n : Holds(p, n)' => Holds(p, n)
    BY <1>1, <1>3, <1>5, <1>6, <1>7 DEF Holds
  <2>2. \A n : ~WillDescribe(p, n)
    BY <1>1, <1>7 DEF WillDescribe
  <2> QED
    BY <1>1, <1>5, <2>1, <2>2, QuietStep
<1>9. Kept(p)
  <2>1. OwnCall(p)'
    BY <1>1, <1>3, <1>5, <1>6 DEF OwnCall
  <2>2. Undisturbed(p)'
    BY <1>1 DEF ProgramsInv, Undisturbed
  <2>3. NobodyElse(p)'
    BY <1>1, <1>5, StaysAlone
  <2>4. CalmRun(p)'
    <3>1. CalmAt(p, ItemAt(p)) => CalmAt(p, ItemAt(p))'
      BY <1>1, <1>5, <1>6, <1>7 DEF CalmAt, Missed, Described, Named, Bare
    <3> QED
      BY <1>1, <1>3, <3>1, CalmStep
  <2> QED
    BY <2>1, <2>2, <2>3, <2>4 DEF Kept
<1> QED
  BY <1>1, <1>3, <1>4, <1>5, <1>8, <1>9, ProcessStep

(* Whoever holds an item has its update and its delete carried out, and so *)
(* has a C++ program that is alone its update.                             *)
LEMMA NotRefused ==
    ASSUME ProgramsInv, NEW p \in Threads, Running(p), Carried(CallOf(p)) = FALSE
    PROVE  /\ pc[p] = "update" => Named(db, ItemAt(p)) = {}
           /\ pc[p] = "create" => Named(db, ItemAt(p)) # {}
           /\ pc[p] = "delete" => Named(db, ItemAt(p)) = {}
           /\ pc[p] \in {"update", "delete"} => \A n : ~Holds(p, n)
<1>1. /\ ItemAt(p) \in Names
      /\ CallOf(p).name = ItemAt(p)
      /\ CallOf(p).op = IF pc[p] \in {"exists", "read"} THEN "get" ELSE pc[p]
      /\ pc[p] = "update" => CallOf(p).type = TypeOf[ItemAt(p)]
  BY TheCall DEF ProgramsInv
<1>2. ASSUME pc[p] = "update"  PROVE Named(db, ItemAt(p)) = {}
  BY <1>1, <1>2 DEF Carried, ProgramsInv, TypedItems, Named
<1>3. ASSUME pc[p] = "delete"  PROVE Named(db, ItemAt(p)) = {}
  BY <1>1, <1>3 DEF Carried
<1>4. ASSUME pc[p] = "create"  PROVE Named(db, ItemAt(p)) # {}
  BY <1>1, <1>4 DEF Carried
<1>5. ASSUME NEW n, Holds(p, n)  PROVE n = ItemAt(p) /\ Named(db, n) # {}
  BY <1>1, <1>5 DEF ProgramsInv, OneHolder, Holds
<1> QED
  BY <1>2, <1>3, <1>4, <1>5

(* The server refuses a request.                                           *)
LEMMA RefusedStep ==
    ASSUME ProgramsInv, NEW p \in Threads, Unanswered(p), ~Carried(call[p]), Store!Fail(p),
           Forgive, UNCHANGED <<kind, pc, at, runs, faults, late, history>>
    PROVE  ProgramsInv'
<1>1. PICK kept \in SUBSET got[p] :
      /\ phase[p] = "called" /\ call[p].op \in Unary /\ done[p] = {}
      /\ phase' = [phase EXCEPT ![p] = "failed"]
      /\ done' = [done EXCEPT ![p] = {}] /\ got' = [got EXCEPT ![p] = kept]
      /\ UNCHANGED <<db, filters, call, ans>>
      /\ UNCHANGED <<kind, pc, at, runs, faults, late, hit, alone, found>>
      /\ abandoned' = abandoned \cap Bare(db)
  BY DEF Unanswered, Store!Fail, Store!Enter, Store!Forget, history, Forgive
<1>2. TypeOK
  BY DEF ProgramsInv
<1>3. Running(p) /\ call[p] = CallOf(p)
  BY <1>1 DEF ProgramsInv, OwnCall
<1>4. pc[p] \in {"create", "update", "delete"}
  BY <1>1, <1>2, <1>3, TheCall DEF Running, Working, Unary
<1>5. Carried(CallOf(p)) = FALSE
  BY <1>3 DEF Carried
<1>6. TypeOK'
  BY <1>1, <1>2 DEF TypeOK
<1>7. /\ Only(p)
      /\ phase'[p] = "failed" /\ done'[p] = {}
  BY <1>1, <1>2 DEF TypeOK, Only, SameProcess
<1>8. ItemAt(p)' = ItemAt(p) /\ CallOf(p)' = CallOf(p) /\ Running(p)'
  BY <1>1, <1>3, SamePlace
<1>9. ~Applied(p) /\ ~Applied(p)'
  BY <1>1, <1>7 DEF Applied
<1>10. Shared
  <2>1. \A n : Holds(p, n)' => Holds(p, n)
    BY <1>1, <1>3, <1>4, <1>7, <1>8, <1>9 DEF Holds
  <2>2. ASSUME NEW n \in Bare(db)  PROVE ~WillDescribe(p, n)
    <3>1. Named(db, n) # {}
      BY DEF Bare, Named
    <3> QED
      BY <1>3, <1>5, <1>9, <3>1, NotRefused DEF WillDescribe
  <2> QED
    BY <1>1, <1>7, <2>1, <2>2, QuietStep
<1>11. Kept(p)
  <2>1. OwnCall(p)'
    BY <1>1, <1>3, <1>7, <1>8 DEF OwnCall
  <2>2. Undisturbed(p)'
    <3>1. ~(kind = "c" /\ pc[p] \in {"update", "delete"})
      <4>1. ASSUME kind = "c", pc[p] \in {"update", "delete"}
            PROVE  Holds(p, ItemAt(p))
        BY <1>1, <1>3, <4>1 DEF Holds
      <4> QED
        BY <1>3, <1>5, <4>1, NotRefused
    <3> QED
      BY <1>1, <1>4, <3>1 DEF Undisturbed
  <2>3. NobodyElse(p)'
    BY <1>1, <1>7, StaysAlone
  <2>4. CalmRun(p)'
    <3>1. SUFFICES ASSUME CalmAt(p, ItemAt(p))  PROVE CalmAt(p, ItemAt(p))'
      BY <1>1, <1>3, CalmStep
    <3>2. CASE pc[p] = "create"
      BY <1>1, <1>3, <1>5, <1>7, <1>8, <1>9, <3>1, <3>2, NotRefused
      DEF CalmAt, Missed, Named
    <3>3. CASE pc[p] = "update"
      BY <1>3, <1>5, <3>1, <3>3, NotRefused DEF CalmAt
    <3>4. CASE pc[p] = "delete"
      BY <1>1, <1>3, <1>5, <1>7, <1>8, <1>9, <3>4, NotRefused DEF CalmAt, Named
    <3> QED
      BY <1>4, <3>2, <3>3, <3>4
  <2> QED
    BY <2>1, <2>2, <2>3, <2>4 DEF Kept
<1> QED
  BY <1>1, <1>3, <1>6, <1>7, <1>10, <1>11, ProcessStep

-----------------------------------------------------------------------------
(* The server carries out a request.                                       *)

(* What a request that is carried out changes, and for whom.               *)
LEMMA Applying ==
    ASSUME ProgramsInv, NEW p \in Threads, Store!Apply(p)
    PROVE  /\ Unanswered(p) /\ Running(p) /\ call[p] = CallOf(p)
           /\ ItemAt(p) \in Names /\ call[p] \in Calls
           /\ call[p].name = ItemAt(p) /\ call[p].op = pc[p]
           /\ pc[p] \in {"create", "update", "delete"}
           /\ done' = [done EXCEPT ![p] = Names]
           /\ db' \in Databases
           /\ \A m : m # ItemAt(p) => Named(db', m) = Named(db, m)
           /\ pc[p] = "create" => Named(db, ItemAt(p)) = {}
           /\ pc[p] \in {"update", "delete"} => Named(db, ItemAt(p)) # {}
           /\ pc[p] \in {"create", "update"} => Named(db', call[p].name) = {Requested(call[p])}
           /\ pc[p] = "delete" => Named(db', call[p].name) = {}
<1>1. /\ phase[p] = "called" /\ call[p].op \in Unary /\ done[p] = {}
      /\ done' = [done EXCEPT ![p] = Names]
  BY SameNotions DEF Store!Apply
<1>2. PICK reply \in Items \cup {DefaultItem} : Carries(call[p], db, db', reply)
  BY SameNotions DEF Store!Apply
<1>3. TypeOK
  BY DEF ProgramsInv
<1>4. Running(p) /\ call[p] = CallOf(p)
  BY <1>1 DEF ProgramsInv, OwnCall
<1>5. /\ ItemAt(p) \in Names /\ call[p] \in Calls
      /\ call[p].name = ItemAt(p) /\ call[p].op = pc[p]
      /\ pc[p] \in {"create", "update", "delete"}
  BY <1>1, <1>3, <1>4, TheCall DEF Running, Working, Unary
<1>6. db \in Databases
  BY <1>3 DEF TypeOK
<1>7. /\ db' \in Databases
      /\ \A m : m # call[p].name => Named(db', m) = Named(db, m)
      /\ call[p].op = "create" => /\ Named(db, call[p].name) = {}
                                 /\ Named(db', call[p].name) = {Requested(call[p])}
      /\ call[p].op = "update" => /\ Named(db, call[p].name) # {}
                                 /\ Named(db', call[p].name) = {Requested(call[p])}
      /\ call[p].op = "delete" => /\ Named(db, call[p].name) # {}
                                 /\ Named(db', call[p].name) = {}
  <2>1. call[p] \in Calls /\ Carries(call[p], db, db', reply)
    BY <1>2, <1>5
  <2>2. /\ db' \in Databases
        /\ \A m : m # call[p].name => Named(db', m) = Named(db, m)
    BY <1>6, <2>1, CarriedOut
  <2>3. call[p].op = "create" => /\ Named(db, call[p].name) = {}
                                /\ Named(db', call[p].name) = {Requested(call[p])}
    BY <1>6, <2>1, CarriedOut
  <2>4. call[p].op = "update" => /\ Named(db, call[p].name) # {}
                                /\ Named(db', call[p].name) = {Requested(call[p])}
    BY <1>6, <2>1, CarriedOut
  <2>5. call[p].op = "delete" => /\ Named(db, call[p].name) # {}
                                /\ Named(db', call[p].name) = {}
    BY <1>6, <2>1, CarriedOut
  <2> QED
    BY <2>2, <2>3, <2>4, <2>5
<1> QED
  BY <1>1, <1>4, <1>5, <1>7 DEF Unanswered

LEMMA ApplyStep ==
    ASSUME ProgramsInv, NEW p \in Threads, Store!Apply(p), Forgive,
           UNCHANGED <<kind, pc, at, runs, faults, late, history>>
    PROVE  ProgramsInv'
<1>1. /\ phase[p] = "called" /\ call[p].op \in Unary /\ done[p] = {}
      /\ done' = [done EXCEPT ![p] = Names]
      /\ UNCHANGED <<filters, phase, call, ans>>
      /\ UNCHANGED <<kind, pc, at, runs, faults, late, hit, alone, found>>
      /\ abandoned' = abandoned \cap Bare(db')
  BY SameNotions DEF Store!Apply, history, Forgive
<1>2. PICK reply \in Items \cup {DefaultItem} :
          /\ Carries(call[p], db, db', reply)
          /\ got' = [got EXCEPT ![p] = {reply} \ {DefaultItem}]
  BY SameNotions DEF Store!Apply
<1>3. TypeOK
  BY DEF ProgramsInv
<1>4. Running(p) /\ call[p] = CallOf(p)
  BY <1>1 DEF ProgramsInv, OwnCall
<1> DEFINE n == ItemAt(p)
<1>5. /\ n \in Names /\ call[p] \in Calls
      /\ call[p].name = n /\ call[p].op = pc[p]
      /\ pc[p] \in {"create", "update", "delete"}
  BY Applying
<1>6. /\ db' \in Databases
      /\ \A m : m # n => Named(db', m) = Named(db, m)
      /\ pc[p] = "create" => Named(db, n) = {}
      /\ pc[p] \in {"update", "delete"} => Named(db, n) # {}
      /\ pc[p] \in {"create", "update"} => Named(db', n) = {Requested(call[p])}
      /\ pc[p] = "delete" => Named(db', n) = {}
  BY Applying
<1>7. pc[p] \in {"create", "update"} =>
          /\ Requested(call[p]).type = TypeOf[n] /\ Requested(call[p]).name = n
          /\ pc[p] = "create" => Requested(call[p]).val = "bare"
          /\ pc[p] = "update" => Requested(call[p]).val = "described"
  BY <1>3, <1>4, <1>5, TheCall DEF Requested
<1>8. TypeOK'
  BY <1>1, <1>2, <1>3, <1>6 DEF TypeOK
<1>9. Only(p) /\ done'[p] = Names
  BY <1>1, <1>2, <1>3 DEF TypeOK, Only, SameProcess
<1>10. ItemAt(p)' = n /\ CallOf(p)' = CallOf(p) /\ Running(p)'
  BY <1>1, <1>4, SamePlace
<1>11. ~Applied(p) /\ Applied(p)'
  BY <1>1, <1>5, <1>9 DEF Applied
<1> HIDE DEF n
<1>12. \A q \in Threads \ {p} : \A m :
           (Holds(q, m)' <=> Holds(q, m)) /\ (WillDescribe(q, m)' <=> WillDescribe(q, m))
  BY <1>9, SameView DEF Only
<1>13. \A m : /\ Holds(p, m)' => m = n /\ pc[p] # "delete"
              /\ kind = "c" /\ pc[p] # "create" => Holds(p, n)
              /\ WillDescribe(p, m) => m = n /\ pc[p] = "update"
  BY <1>1, <1>4, <1>5, <1>9, <1>10, <1>11 DEF Holds, WillDescribe, n
<1>14. \A q \in Threads : \A m : Holds(q, m) => m \in Names /\ kind = "c"
  BY <1>3, TheCall DEF Holds
<1>15. \A q \in Threads \ {p} : kind = "c" => ~Holds(q, n)
  BY <1>5, <1>6, <1>13 DEF ProgramsInv, OneHolder
<1>16. \A m : m \in Bare(db') <=> IF m = n THEN pc[p] = "create" ELSE m \in Bare(db)
  <2>1. \A d, m : m \in Bare(d) <=> \E it \in Named(d, m) : it.val = "bare"
    BY DEF Bare, Named
  <2> QED
    BY <1>5, <1>6, <1>7, <2>1
<1>17. Shared
  <2>1. TypedItems'
    <3>1. ASSUME NEW it \in db'  PROVE it.type = TypeOf[it.name]
      <4>1. CASE it.name = n
        BY <1>5, <1>6, <1>7, <4>1 DEF Named
      <4>2. CASE it.name # n
        BY <1>6, <4>2 DEF Named, ProgramsInv, TypedItems
      <4> QED
        BY <4>1, <4>2
    <3> QED
      BY <1>1, <3>1 DEF ProgramsInv, TypedItems
  <2>2. OneHolder'
    <3>1. SUFFICES ASSUME NEW m \in Names, NEW q \in Threads, Holds(q, m)'
                   PROVE  /\ Named(db', m) # {}
                          /\ \A r \in Threads : Holds(r, m)' => q = r
      BY DEF OneHolder, Named
    <3>2. CASE m = n
      <4>1. q = p /\ pc[p] # "delete"
        BY <1>12, <1>13, <1>14, <1>15, <3>1, <3>2
      <4> QED
        BY <1>5, <1>6, <1>12, <1>14, <1>15, <3>2, <4>1
    <3>3. CASE m # n
      BY <1>6, <1>12, <1>13, <3>1, <3>3 DEF ProgramsInv, OneHolder
    <3> QED
      BY <3>2, <3>3
  <2>3. LateWrites'
    <3>1. SUFFICES ASSUME kind = "c", NEW c \in late, c.op \in {"update", "delete"}
                   PROVE  /\ Named(db', c.name) # {}
                          /\ \A q \in Threads : ~Holds(q, c.name)'
                          /\ \A d \in late :
                                 d.op \in {"update", "delete"} /\ d.name = c.name => d = c
      BY <1>1 DEF LateWrites, Named
    <3>2. /\ Named(db, c.name) # {} /\ \A q \in Threads : ~Holds(q, c.name)
          /\ \A d \in late : d.op \in {"update", "delete"} /\ d.name = c.name => d = c
      BY <3>1 DEF ProgramsInv, LateWrites
    <3>3. c.name # n
      BY <1>5, <1>6, <1>13, <3>1, <3>2
    <3> QED
      BY <1>6, <1>12, <1>13, <3>2, <3>3
  <2>4. LeftAlone'
    <3>1. SUFFICES ASSUME kind = "c", NEW it \in found
                   PROVE  /\ it \in db'
                          /\ \A q \in Threads : ~Holds(q, it.name)'
                          /\ \A c \in late : c.op \in {"update", "delete"} => c.name # it.name
      BY <1>1 DEF LeftAlone
    <3>2. /\ it \in db
          /\ \A q \in Threads : ~Holds(q, it.name)
          /\ \A c \in late : c.op \in {"update", "delete"} => c.name # it.name
      BY <3>1 DEF ProgramsInv, LeftAlone
    <3>3. it.name # n
      BY <1>5, <1>6, <1>13, <3>1, <3>2 DEF Named
    <3>4. it \in Named(db', it.name)
      BY <1>6, <3>2, <3>3 DEF Named
    <3> QED
      BY <1>12, <1>13, <3>2, <3>3, <3>4 DEF Named
  <2>5. BareWillBeDescribed'
    <3>1. SUFFICES ASSUME NEW m \in Bare(db') \ abandoned'
                   PROVE  \E q \in Threads : WillDescribe(q, m)'
      BY DEF BareWillBeDescribed, Bare
    <3>2. CASE m = n
      <4>1. pc'[p] = "create"
        BY <1>1, <1>16, <3>1, <3>2
      <4> QED
        BY <1>10, <1>11, <3>2, <4>1 DEF WillDescribe
    <3>3. CASE m # n
      <4>1. m \in Bare(db) \ abandoned
        BY <1>1, <1>16, <3>1, <3>3
      <4>2. PICK q \in Threads : WillDescribe(q, m)
        BY <4>1 DEF ProgramsInv, BareWillBeDescribed
      <4> QED
        BY <1>12, <1>13, <3>3, <4>2
    <3> QED
      BY <3>2, <3>3
  <2> QED
    BY <2>1, <2>2, <2>3, <2>4, <2>5 DEF Shared
<1>18. Kept(p)
  <2>1. OwnCall(p)'
    BY <1>1, <1>4, <1>10 DEF OwnCall
  <2>2. Undisturbed(p)'
    BY <1>1 DEF ProgramsInv, Undisturbed
  <2>3. NobodyElse(p)'
    BY <1>1, <1>9, StaysAlone
  <2>4. CalmRun(p)'
    <3>1. SUFFICES ASSUME Calm(p)  PROVE CalmRun(p)'
      BY <1>1 DEF Calm, CalmRun
    <3>2. CalmAt(p, n)'
      <4>1. Named(db, n)' = Named(db', n)
        BY <1>10 DEF Named, n
      <4>2. Described(n)' <=> Named(db', n) # {} /\ n \notin Bare(db')
        BY <1>10, <4>1 DEF Described, Bare, n
      <4> QED
        <5>1. pc'[p] = pc[p] /\ pc[p] # "exists" /\ pc[p] # "read" /\ phase'[p] = "called"
          BY <1>1, <1>5
        <5>2. pc[p] = "create" => Named(db, n)' # {}
          BY <1>6, <4>1
        <5>3. pc[p] = "update" => Named(db, n)' # {} /\ Described(n)'
          BY <1>5, <1>6, <1>16, <4>1, <4>2
        <5>4. pc[p] = "delete" => Named(db, n)' = {}
          BY <1>6, <4>1
        <5> QED
          BY <1>11, <5>1, <5>2, <5>3, <5>4 DEF CalmAt
    <3>3. \A i \in DOMAIN CreateOrder :
              pc[p] \in {"create", "update"} /\ i > at[p] =>
                  Named(db', CreateOrder[i]) = Named(found, CreateOrder[i])
      <4>1. SUFFICES ASSUME NEW i \in DOMAIN CreateOrder, pc[p] \in {"create", "update"},
                            i > at[p]
                     PROVE  Named(db', CreateOrder[i]) = Named(found, CreateOrder[i])
        OBVIOUS
      <4>2. CreateOrder[i] # n
        BY <1>3, <4>1, Orders DEF ItemAt, TypeOK, n
      <4>3. Named(db, CreateOrder[i]) = Named(found, CreateOrder[i])
        BY <3>1, <4>1 DEF ProgramsInv, CalmRun, Working
      <4> QED
        BY <1>6, <4>2, <4>3
    <3>4. \A i \in DOMAIN DeleteOrder :
              pc[p] = "delete" /\ i < at[p] => Named(db', DeleteOrder[i]) = {}
      BY <1>6, <3>1 DEF ProgramsInv, CalmRun
    <3> QED
      <4>1. CalmAt(p, ItemAt(p))'
        BY <3>2 DEF n
      <4>2. pc'[p] \in {"create", "update", "delete"}
        BY <1>1, <1>5
      <4>3. \A m : Named(found, m)' = Named(found, m)
        BY <1>1 DEF Named
      <4> QED
        BY <1>1, <1>5, <3>3, <3>4, <4>1, <4>2, <4>3 DEF CalmRun, Named, Working
  <2> QED
    BY <2>1, <2>2, <2>3, <2>4 DEF Kept
<1> QED
  BY <1>1, <1>4, <1>8, <1>9, <1>17, <1>18, ProcessStep

-----------------------------------------------------------------------------
(* Faults.                                                                 *)

(* A request that is lost may be late; one that would have deleted an item *)
(* is held by its process no more.                                         *)
LEMMA FaultStep ==
    ASSUME ProgramsInv, NEW p \in Threads, Running(p), Only(p), Fault(p),
           UNCHANGED <<db, found>>,
           \A n : Holds(p, n)' => Holds(p, n) /\ pc[p] \notin {"update", "delete"}
    PROVE  /\ Shared
           /\ late' \subseteq Calls /\ faults' \in 0..MaxFaults /\ abandoned' \subseteq Names
<1>1. TypeOK /\ kind' = kind
  BY DEF ProgramsInv, Only
<1> DEFINE n == ItemAt(p)
<1>2. CASE late' = late \/ (Unanswered(p) /\ late' = late \cup {call[p]})
  <2>1. Unanswered(p) =>
            /\ call[p] \in Calls /\ call[p].name = n /\ call[p].op = pc[p]
            /\ pc[p] \in {"create", "update", "delete"}
            /\ call[p].op # "delete" => call[p].type = TypeOf[n]
            /\ kind = "c" /\ pc[p] # "create" => Holds(p, n)
    <3>1. SUFFICES ASSUME Unanswered(p)
                   PROVE  /\ call[p] \in Calls /\ call[p].name = n /\ call[p].op = pc[p]
                          /\ pc[p] \in {"create", "update", "delete"}
                          /\ call[p].op # "delete" => call[p].type = TypeOf[n]
                          /\ kind = "c" /\ pc[p] # "create" => Holds(p, n)
      OBVIOUS
    <3>2. phase[p] = "called" /\ call[p].op \in Unary /\ done[p] = {} /\ call[p] = CallOf(p)
      BY <3>1 DEF ProgramsInv, OwnCall, Unanswered
    <3>3. /\ call[p] \in Calls /\ call[p].name = n /\ call[p].op = pc[p]
          /\ pc[p] \in {"create", "update", "delete"}
          /\ call[p].op # "delete" => call[p].type = TypeOf[n]
      BY <1>1, <3>2, TheCall DEF Running, Working, Unary
    <3> QED
      BY <3>2, <3>3 DEF Holds
  <2> HIDE DEF n
  <2>2. \A c \in late' : c \in late \/ (Unanswered(p) /\ c = call[p])
    BY <1>2
  <2>3. \A q \in Threads \ {p} : \A m :
            (Holds(q, m)' <=> Holds(q, m)) /\ (WillDescribe(q, m)' <=> WillDescribe(q, m))
    BY SameView DEF Only
  <2>4. \A q \in Threads : \A m : Holds(q, m)' => Holds(q, m)
    BY <2>3
  <2>5. n \in Names
    BY <1>1, TheCall DEF n
  <2>6. TypedItems'
    BY <2>1, <2>2 DEF ProgramsInv, TypedItems
  <2>7. OneHolder'
    BY <2>4 DEF ProgramsInv, OneHolder, Named
  <2>8. LateWrites'
    <3> DEFINE Writes == {c \in late : c.op \in {"update", "delete"}}
    <3>1. SUFFICES ASSUME kind = "c", NEW c \in late', c.op \in {"update", "delete"}
                   PROVE  /\ Named(db, c.name) # {}
                          /\ \A q \in Threads : ~Holds(q, c.name)'
                          /\ \A d \in late' :
                                 d.op \in {"update", "delete"} /\ d.name = c.name => d = c
      BY <1>1 DEF LateWrites, Named
    <3>2. \A d \in Writes : /\ Named(db, d.name) # {}
                            /\ \A q \in Threads : ~Holds(q, d.name)
                            /\ \A e \in Writes : e.name = d.name => e = d
      BY <3>1 DEF ProgramsInv, LateWrites
    <3>3. ASSUME NEW d \in late', d.op \in {"update", "delete"}, d \notin Writes
          PROVE  d = call[p] /\ d.name = n /\ Holds(p, n) /\ pc[p] \in {"update", "delete"}
      BY <2>1, <2>2, <3>1, <3>3
    <3> HIDE DEF Writes
    <3>4. CASE c \in Writes
      <4>1. ASSUME NEW d \in late', d.op \in {"update", "delete"}, d.name = c.name
            PROVE  d \in Writes
        BY <3>2, <3>3, <3>4, <4>1
      <4> QED
        BY <2>4, <3>2, <3>4, <4>1
    <3>5. CASE c \notin Writes
      <4>1. c = call[p] /\ c.name = n /\ Holds(p, n) /\ pc[p] \in {"update", "delete"}
        BY <3>1, <3>3, <3>5
      <4>2. /\ Holds(p, c.name) /\ Named(db, c.name) # {}
            /\ \A q \in Threads : Holds(q, c.name) => p = q
        BY <2>5, <4>1 DEF ProgramsInv, OneHolder
      <4>3. \A q \in Threads : ~Holds(q, c.name)'
        <5>1. ~Holds(p, c.name)'
          BY <4>1
        <5>2. \A q \in Threads \ {p} : Holds(q, c.name)' <=> Holds(q, c.name)
          BY <2>3, Zenon
        <5> QED
          BY <4>2, <5>1, <5>2
      <4>4. ASSUME NEW d \in late', d.op \in {"update", "delete"}, d.name = c.name
            PROVE  d = c
        <5>1. d \notin Writes
          BY <3>2, <4>1, <4>4
        <5> QED
          BY <3>3, <4>1, <4>4, <5>1
      <4> QED
        BY <4>2, <4>3, <4>4
    <3> QED
      BY <3>4, <3>5
  <2>9. LeftAlone'
    <3>1. SUFFICES ASSUME kind = "c", NEW it \in found
                   PROVE  /\ it \in db
                          /\ \A q \in Threads : ~Holds(q, it.name)'
                          /\ \A c \in late' : c.op \in {"update", "delete"} => c.name # it.name
      BY <1>1 DEF LeftAlone
    <3>2. /\ it \in db
          /\ \A q \in Threads : ~Holds(q, it.name)
          /\ \A c \in late : c.op \in {"update", "delete"} => c.name # it.name
      BY <3>1 DEF ProgramsInv, LeftAlone
    <3> QED
      BY <2>1, <2>2, <2>4, <3>1, <3>2
  <2>10. BareWillBeDescribed'
    <3>1. SUFFICES ASSUME NEW m \in Bare(db) \ abandoned'
                   PROVE  \E q \in Threads : WillDescribe(q, m)'
      BY DEF BareWillBeDescribed, Bare
    <3>2. m \notin abandoned /\ (pc[p] \in {"create", "update"} => m # n)
      BY <3>1 DEF Fault, n
    <3>3. PICK q \in Threads : WillDescribe(q, m)
      BY <3>1, <3>2 DEF ProgramsInv, BareWillBeDescribed
    <3>4. q # p
      BY <3>2, <3>3 DEF WillDescribe, n
    <3> QED
      BY <2>3, <3>3, <3>4
  <2>11. late' \subseteq Calls
    BY <1>1, <2>1, <2>2 DEF TypeOK
  <2>12. faults' \in 0..MaxFaults
    BY <1>1, ProgramsAssumption DEF Fault, TypeOK
  <2>13. abandoned' \subseteq Names
    BY <1>1 DEF Fault, TypeOK, Bare, Databases, Items
  <2> QED
    BY <2>6, <2>7, <2>8, <2>9, <2>10, <2>11, <2>12, <2>13 DEF Shared
<1>3. late' = late \/ (Unanswered(p) /\ late' = late \cup {call[p]})
  BY DEF Fault
<1> QED
  BY <1>2, <1>3

LEMMA LoseStep ==
    ASSUME ProgramsInv, NEW p \in Threads, Lose(p)
    PROVE  ProgramsInv'
<1>1. PICK kept \in SUBSET got[p] :
      /\ Running(p) /\ Fault(p) /\ phase[p] = "called"
      /\ phase' = [phase EXCEPT ![p] = "failed"]
      /\ done' = [done EXCEPT ![p] = {}] /\ got' = [got EXCEPT ![p] = kept]
      /\ hit' = [hit EXCEPT ![p] = TRUE]
      /\ UNCHANGED <<db, filters, call, ans, kind, pc, at, runs, alone, found>>
  BY DEF Lose, Store!Fail, Store!Enter, Store!Forget, Fault
<1>2. TypeOK
  BY DEF ProgramsInv
<1>3. /\ Only(p) /\ hit'[p]
      /\ phase'[p] = "failed" /\ done'[p] = {}
  BY <1>1, <1>2 DEF TypeOK, Only, SameProcess
<1>4. ItemAt(p)' = ItemAt(p) /\ CallOf(p)' = CallOf(p) /\ Running(p)'
  BY <1>1, SamePlace
<1>5. \A n : Holds(p, n)' => Holds(p, n) /\ pc[p] \notin {"update", "delete"}
  BY <1>1, <1>3, <1>4 DEF Holds, Applied
<1>6. /\ Shared
      /\ late' \subseteq Calls /\ faults' \in 0..MaxFaults /\ abandoned' \subseteq Names
  BY <1>1, <1>3, <1>5, FaultStep
<1>7. TypeOK'
  BY <1>1, <1>2, <1>6 DEF TypeOK
<1>8. Kept(p)
  <2>1. OwnCall(p)'
    BY <1>1, <1>3, <1>4 DEF ProgramsInv, OwnCall
  <2>2. Undisturbed(p)' /\ CalmRun(p)'
    BY <1>3 DEF Undisturbed, CalmRun, Calm
  <2>3. NobodyElse(p)'
    BY <1>1, <1>3, StaysAlone
  <2> QED
    BY <2>1, <2>2, <2>3 DEF Kept
<1> QED
  BY <1>1, <1>3, <1>6, <1>7, <1>8, ProcessStep

LEMMA KillStep ==
    ASSUME ProgramsInv, NEW p \in Threads, Kill(p)
    PROVE  ProgramsInv'
<1>1. /\ Running(p) /\ Fault(p)
      /\ pc' = [pc EXCEPT ![p] = "off"] /\ phase' = [phase EXCEPT ![p] = "idle"]
      /\ done' = [done EXCEPT ![p] = {}] /\ got' = [got EXCEPT ![p] = {}]
      /\ call' = [call EXCEPT ![p] = NoCall]
      /\ ans' = [ans EXCEPT ![p] = [ok |-> FALSE, shows |-> {}]]
      /\ hit' = [hit EXCEPT ![p] = TRUE]
      /\ UNCHANGED <<db, filters, kind, at, runs, alone, found>>
  BY SameNotions DEF Kill, Store!Vanish, Store!Enter, Store!Forget, Store!NoAnswer, Fault
<1>2. TypeOK
  BY DEF ProgramsInv
<1>3. /\ Only(p) /\ hit'[p] /\ pc'[p] = "off"
      /\ phase'[p] = "idle" /\ done'[p] = {} /\ got'[p] = {}
  BY <1>1, <1>2 DEF TypeOK, Only, SameProcess
<1>4. \A n : ~Holds(p, n)'
  BY <1>3 DEF Holds, Running, Working
<1>5. /\ Shared
      /\ late' \subseteq Calls /\ faults' \in 0..MaxFaults /\ abandoned' \subseteq Names
  BY <1>1, <1>3, <1>4, FaultStep
<1>6. TypeOK'
  BY <1>1, <1>2, <1>5 DEF TypeOK
<1>7. Kept(p)
  <2>1. OwnCall(p)'
    BY <1>3 DEF OwnCall
  <2>2. Undisturbed(p)' /\ CalmRun(p)'
    BY <1>3 DEF Undisturbed, CalmRun, Calm
  <2>3. NobodyElse(p)'
    BY <1>1, <1>3, StaysAlone
  <2> QED
    BY <2>1, <2>2, <2>3 DEF Kept
<1> QED
  BY <1>1, <1>3, <1>5, <1>6, <1>7, ProcessStep

(* A late request arrives.                                                 *)
LEMMA ArriveStep ==
    ASSUME ProgramsInv, Arrive
    PROVE  ProgramsInv'
<1>1. PICK c \in late :
          /\ late' = late \ {c}
          /\ \E reply \in Items \cup {DefaultItem} : Carries(c, db, db', reply)
          /\ abandoned' = (abandoned \cup {c.name}) \cap Bare(db')
  BY DEF Arrive
<1>2. /\ UNCHANGED <<filters, phase, call, done, got, ans, kind, pc, at, runs, faults>>
      /\ UNCHANGED <<hit, alone, found>>
  BY DEF Arrive, history
<1>3. TypeOK
  BY DEF ProgramsInv
<1>4. /\ c \in Calls /\ c.op \in {"create", "update", "delete"}
      /\ c.op # "delete" => c.type = TypeOf[c.name]
  BY <1>3 DEF TypeOK, ProgramsInv, TypedItems
<1> DEFINE n == c.name
<1>5. /\ db' \in Databases
      /\ \A m : m # n => Named(db', m) = Named(db, m)
      /\ c.op = "create" => Named(db, n) = {} /\ Named(db', n) = {Requested(c)}
      /\ c.op = "update" => Named(db, n) # {} /\ Named(db', n) = {Requested(c)}
      /\ c.op = "delete" => Named(db, n) # {} /\ Named(db', n) = {}
  <2>1. db \in Databases
    BY <1>3 DEF TypeOK
  <2>2. PICK reply \in Items \cup {DefaultItem} : Carries(c, db, db', reply)
    BY <1>1
  <2>3. c \in Calls
    BY <1>4
  <2> QED
    BY <2>1, <2>2, <2>3, CarriedOut
<1>6. n \in Names /\ (c.op # "delete" => Requested(c).type = TypeOf[n])
  BY <1>4 DEF Calls, Requested
<1> HIDE DEF n
<1>7. \A q \in Threads : SameProcess(q)
  BY <1>2 DEF SameProcess
<1>8. \A q \in Threads : \A m :
          (Holds(q, m)' <=> Holds(q, m)) /\ (WillDescribe(q, m)' <=> WillDescribe(q, m))
  BY <1>2, <1>7, SameView
<1>9. TypeOK'
  <2>1. abandoned' \subseteq Names
    BY <1>1, <1>3, <1>6 DEF TypeOK, n
  <2> QED
    BY <1>1, <1>2, <1>3, <1>5, <2>1 DEF TypeOK
<1>10. TypedItems'
  <2>1. ASSUME NEW it \in db'  PROVE it.type = TypeOf[it.name]
    <3>1. CASE it.name = n
      BY <1>4, <1>5, <1>6, <3>1 DEF Named
    <3>2. CASE it.name # n
      BY <1>5, <3>2 DEF Named, ProgramsInv, TypedItems
    <3> QED
      BY <3>1, <3>2
  <2> QED
    BY <1>1, <2>1 DEF ProgramsInv, TypedItems
<1>11. ASSUME kind = "c", c.op \in {"update", "delete"}, NEW q \in Threads
       PROVE  ~Holds(q, n)
  BY <1>11 DEF ProgramsInv, LateWrites, n
<1>12. OneHolder'
  <2>1. SUFFICES ASSUME NEW m \in Names, NEW q \in Threads, Holds(q, m)
                 PROVE  /\ Named(db', m) # {}
                        /\ \A r \in Threads : Holds(r, m) => q = r
    BY <1>8 DEF OneHolder, Named
  <2>2. Named(db, m) # {} /\ \A r \in Threads : Holds(r, m) => q = r
    BY <2>1 DEF ProgramsInv, OneHolder
  <2>3. m = n => c.op # "delete"
    BY <1>11, <2>1 DEF Holds
  <2> QED
    BY <1>4, <1>5, <2>2, <2>3
<1>13. LateWrites'
  <2>1. SUFFICES ASSUME kind = "c", NEW d \in late \ {c}, d.op \in {"update", "delete"}
                 PROVE  /\ Named(db', d.name) # {}
                        /\ \A q \in Threads : ~Holds(q, d.name)
                        /\ \A e \in late :
                               e.op \in {"update", "delete"} /\ e.name = d.name => e = d
    BY <1>1, <1>2, <1>8 DEF LateWrites, Named
  <2>2. /\ Named(db, d.name) # {} /\ \A q \in Threads : ~Holds(q, d.name)
        /\ \A e \in late : e.op \in {"update", "delete"} /\ e.name = d.name => e = d
    BY <2>1 DEF ProgramsInv, LateWrites
  <2>3. d.name # n
    BY <1>4, <1>5, <2>1, <2>2 DEF n
  <2> QED
    BY <1>5, <2>2, <2>3
<1>14. LeftAlone'
  <2>1. SUFFICES ASSUME kind = "c", NEW it \in found
                 PROVE  /\ it \in db'
                        /\ \A q \in Threads : ~Holds(q, it.name)
                        /\ \A d \in late : d.op \in {"update", "delete"} => d.name # it.name
    BY <1>1, <1>2, <1>8 DEF LeftAlone
  <2>2. /\ it \in db
        /\ \A q \in Threads : ~Holds(q, it.name)
        /\ \A d \in late : d.op \in {"update", "delete"} => d.name # it.name
    BY <2>1 DEF ProgramsInv, LeftAlone
  <2>3. it.name # n
    BY <1>4, <1>5, <2>2 DEF Named, n
  <2>4. it \in Named(db', it.name)
    BY <1>5, <2>2, <2>3 DEF Named
  <2> QED
    BY <2>2, <2>4 DEF Named
<1>15. BareWillBeDescribed'
  <2>1. SUFFICES ASSUME NEW m \in Bare(db') \ abandoned'
                 PROVE  \E q \in Threads : WillDescribe(q, m)
    BY <1>8 DEF BareWillBeDescribed, Bare
  <2>2. m # n /\ m \notin abandoned
    BY <1>1, <2>1 DEF n
  <2>3. m \in Bare(db)
    BY <1>5, <2>1, <2>2 DEF Bare, Named
  <2> QED
    BY <2>2, <2>3 DEF ProgramsInv, BareWillBeDescribed
<1>16. ASSUME NEW q \in Threads
       PROVE  OwnCall(q)' /\ Undisturbed(q)' /\ NobodyElse(q)' /\ CalmRun(q)'
  <2>1. OwnCall(q)' /\ Undisturbed(q)'
    BY <1>2, <1>7, SameView DEF ProgramsInv
  <2>2. NobodyElse(q) /\ ~Calm(q)
    BY <1>1 DEF ProgramsInv, NobodyElse, Calm
  <2>3. CalmRun(q)'
    BY <1>2, <2>2 DEF CalmRun, Calm
  <2>4. NobodyElse(q)'
    BY <1>1, <1>2, <2>2 DEF NobodyElse, Running
  <2> QED
    BY <2>1, <2>3, <2>4
<1> QED
  BY <1>9, <1>10, <1>12, <1>13, <1>14, <1>15, <1>16 DEF ProgramsInv

-----------------------------------------------------------------------------
(* A program begins, takes an answer and goes on.                          *)

LEMMA StartStep ==
    ASSUME ProgramsInv, NEW p \in Threads, Start(p)
    PROVE  ProgramsInv'
<1>1. /\ ~Running(p) /\ runs < MaxRuns /\ runs' = runs + 1
      /\ pc' = [pc EXCEPT ![p] = IF kind = "cpp" THEN "exists" ELSE "create"]
      /\ at' = [at EXCEPT ![p] = 1]
      /\ hit' = [hit EXCEPT ![p] = FALSE]
      /\ alone' = [q \in Threads |-> /\ q = p /\ late = {}
                                     /\ \A r \in Threads : ~Running(r)]
      /\ found' = IF alone'[p] THEN db ELSE found
      /\ UNCHANGED <<db, filters, phase, call, done, got, ans, kind, faults, late, abandoned>>
  BY DEF Start, Gone, Running, Working, Goto, storeVars
<1>2. TypeOK
  BY DEF ProgramsInv
<1>3. /\ Only(p)
      /\ pc'[p] = IF kind = "cpp" THEN "exists" ELSE "create"
      /\ at'[p] = 1
      /\ \A q \in Threads : alone'[q] => q = p /\ late = {} /\ \A r \in Threads : ~Running(r)
  BY <1>1, <1>2 DEF TypeOK, Only, SameProcess
<1>4. phase[p] = "idle" /\ done[p] = {} /\ got[p] = {}
  <2>1. phase[p] = "idle"
    BY <1>1, <1>2 DEF ProgramsInv, OwnCall
  <2> QED
    BY <2>1 DEF ProgramsInv, OwnCall
<1>5. \A q \in Threads : \A n :
          /\ Holds(q, n)' => Holds(q, n)
          /\ WillDescribe(q, n) => WillDescribe(q, n)'
  <2>1. \A n : ~Holds(p, n)' /\ ~WillDescribe(p, n)
    BY <1>1, <1>3, <1>4 DEF Holds, WillDescribe, Applied
  <2>2. \A q \in Threads \ {p} : \A n :
            (Holds(q, n)' <=> Holds(q, n)) /\ (WillDescribe(q, n)' <=> WillDescribe(q, n))
    BY <1>3, SameView DEF Only
  <2> QED
    BY <2>1, <2>2
<1>6. TypeOK'
  <2>1. runs' \in 0..MaxRuns
    BY <1>1, <1>2, ProgramsAssumption DEF TypeOK
  <2>2. 1 \in DOMAIN CreateOrder
    BY Orders
  <2>3. pc' \in [Threads -> Working \cup {"subscribe", "off", "end", "refused", "failed"}]
    BY <1>1, <1>2 DEF TypeOK, Working
  <2>4. alone' \in [Threads -> BOOLEAN] /\ found' \in Databases
    BY <1>1, <1>2 DEF TypeOK
  <2> QED
    BY <1>1, <1>2, <2>1, <2>2, <2>3, <2>4 DEF TypeOK
<1>7. TypedItems' /\ BareWillBeDescribed'
  BY <1>1, <1>5 DEF ProgramsInv, TypedItems, BareWillBeDescribed, Bare
<1>8. OneHolder' /\ LateWrites'
  BY <1>1, <1>5 DEF ProgramsInv, OneHolder, LateWrites, Named
<1>9. LeftAlone'
  <2>1. CASE alone'[p]
    <3>1. found' = db /\ late = {} /\ \A q \in Threads : ~Running(q)
      BY <1>1, <1>3, <2>1
    <3>2. \A q \in Threads : \A n : ~Holds(q, n)'
      BY <1>5, <3>1 DEF Holds
    <3> QED
      BY <1>1, <3>1, <3>2 DEF LeftAlone
  <2>2. CASE ~alone'[p]
    BY <1>1, <1>5, <2>2 DEF ProgramsInv, LeftAlone
  <2> QED
    BY <2>1, <2>2
<1>10. ASSUME NEW q \in Threads
       PROVE  OwnCall(q)' /\ Undisturbed(q)' /\ NobodyElse(q)' /\ CalmRun(q)'
  <2>1. OwnCall(q)' /\ Undisturbed(q)'
    <3>1. CASE q = p
      BY <1>1, <1>3, <1>4, <3>1 DEF OwnCall, Undisturbed
    <3>2. CASE q # p
      BY <1>3, <3>2, SameView DEF Only, ProgramsInv
    <3> QED
      BY <3>1, <3>2
  <2>2. NobodyElse(q)'
    <3>1. SUFFICES ASSUME alone'[q]
                   PROVE  (\A r \in Threads \ {q} : ~Running(r)') /\ late' = {}
      BY DEF NobodyElse
    <3>2. \A r \in Threads \ {p} : Running(r)' <=> Running(r)
      BY <1>3, SamePlace DEF Only, SameProcess
    <3> QED
      BY <1>1, <1>3, <3>1, <3>2
  <2>3. CalmRun(q)'
    <3>1. SUFFICES ASSUME Calm(q)'  PROVE CalmRun(q)'
      BY DEF CalmRun
    <3>2. q = p /\ found' = db /\ db' = db /\ pc'[p] = "exists" /\ phase'[p] = "idle"
      BY <1>1, <1>3, <1>4, <3>1 DEF Calm
    <3>3. CalmAt(p, ItemAt(p))'
      BY <3>2 DEF CalmAt, Named
    <3> QED
      BY <3>2, <3>3 DEF CalmRun, Named
  <2> QED
    BY <2>1, <2>2, <2>3
<1> QED
  BY <1>6, <1>7, <1>8, <1>9, <1>10 DEF ProgramsInv

(* Where an answer takes a program, to l at the i-th item.                 *)
CMove(p, l, i) ==
    LET ok == ans[p].ok
    IN \/ pc[p] = "create" /\ l = (IF ok THEN "update" ELSE "refused") /\ i = at[p]
       \/ pc[p] = "update" /\ l = (IF ok THEN "read" ELSE "failed") /\ i = at[p]
       \/ pc[p] = "read" /\ l = "delete" /\ i = at[p]
       \/ pc[p] = "delete" /\ ~ok /\ l = "failed" /\ i = at[p]
       \/ pc[p] = "delete" /\ ok /\ l \in {"create", "subscribe"}

CppMove(p, l, i) ==
    LET ok == ans[p].ok
    IN \/ pc[p] = "exists" /\ l = (IF ok THEN "update" ELSE "create") /\ i = at[p]
       \/ pc[p] = "create" /\ l = (IF ok THEN "update" ELSE "read") /\ i = at[p]
       \/ pc[p] = "update" /\ l = "read" /\ i = at[p]
       \/ pc[p] = "read" /\ l = "exists" /\ i = at[p] + 1
       \/ pc[p] = "read" /\ l = "delete" /\ i = 1
       \/ pc[p] = "delete" /\ l = "delete" /\ i = at[p] + 1
       \/ pc[p] = "delete" /\ l = "end" /\ at[p] = Len(CreateOrder)

Places == Working \cup {"subscribe", "off", "end", "refused", "failed"}

Move(p) ==
    \E l \in Places, i \in DOMAIN CreateOrder :
        /\ Goto(p, l, i)
        /\ kind = "c" => CMove(p, l, i)
        /\ kind = "cpp" => CppMove(p, l, i)

LEMMA Moves ==
    ASSUME TypeOK, NEW p \in Threads, Take(p)
    PROVE  Move(p)
<1> DEFINE ok == ans[p].ok
<1>1. at[p] \in 1..Len(CreateOrder) /\ Len(CreateOrder) \in Nat
      /\ DOMAIN CreateOrder = 1..Len(CreateOrder)
  BY Orders DEF TypeOK
<1>2. ASSUME NEW l \in Places, Stay(p, l),
             kind = "c" => CMove(p, l, at[p]), kind = "cpp" => CppMove(p, l, at[p])
      PROVE  Move(p)
  BY <1>1, <1>2 DEF Move, Stay
<1>3. ASSUME NEW l \in Places, NEW m \in Places, NextItem(p, l, m),
             kind = "c" => CMove(p, l, at[p] + 1) /\ CMove(p, m, 1),
             kind = "cpp" => /\ CppMove(p, l, at[p] + 1)
                             /\ at[p] = Len(CreateOrder) => CppMove(p, m, 1)
      PROVE  Move(p)
  <2>1. CASE at[p] < Len(CreateOrder) /\ Goto(p, l, at[p] + 1)
    BY <1>1, <1>3, <2>1 DEF Move
  <2>2. CASE at[p] = Len(CreateOrder) /\ Goto(p, m, 1)
    BY <1>1, <1>3, <2>2 DEF Move
  <2> QED
    BY <1>1, <1>3, <2>1, <2>2 DEF NextItem
<1>4. kind = "c" \/ kind = "cpp"
  BY ProgramsAssumption DEF TypeOK
<1>5. CASE kind = "c"
  <2>1. CASE pc[p] = "create" /\ Stay(p, IF ok THEN "update" ELSE "refused")
    BY <1>2, <1>5, <2>1 DEF CMove, Places, Working
  <2>2. CASE pc[p] = "update" /\ Stay(p, IF ok THEN "read" ELSE "failed")
    BY <1>2, <1>5, <2>2 DEF CMove, Places, Working
  <2>3. CASE pc[p] = "read" /\ Stay(p, "delete")
    BY <1>2, <1>5, <2>3 DEF CMove, Places, Working
  <2>4. CASE pc[p] = "delete" /\ ok /\ NextItem(p, "create", "subscribe")
    BY <1>3, <1>5, <2>4 DEF CMove, Places, Working
  <2>5. CASE pc[p] = "delete" /\ ~ok /\ Stay(p, "failed")
    BY <1>2, <1>5, <2>5 DEF CMove, Places, Working
  <2> QED
    BY <1>5, <2>1, <2>2, <2>3, <2>4, <2>5
    DEF Take, CppProgram, CProgram, CCreate, CUpdate, CGet, CDelete
<1>6. CASE kind = "cpp"
  <2>1. CASE pc[p] = "exists" /\ Stay(p, IF ok THEN "update" ELSE "create")
    BY <1>2, <1>6, <2>1 DEF CppMove, Places, Working
  <2>2. CASE pc[p] = "create" /\ Stay(p, IF ok THEN "update" ELSE "read")
    BY <1>2, <1>6, <2>2 DEF CppMove, Places, Working
  <2>3. CASE pc[p] = "update" /\ Stay(p, "read")
    BY <1>2, <1>6, <2>3 DEF CppMove, Places, Working
  <2>4. CASE pc[p] = "read" /\ NextItem(p, "exists", "delete")
    BY <1>3, <1>6, <2>4 DEF CppMove, Places, Working
  <2>5. CASE pc[p] = "delete" /\ NextItem(p, "delete", "end")
    BY <1>3, <1>6, <2>5 DEF CppMove, Places, Working
  <2> QED
    BY <1>6, <2>1, <2>2, <2>3, <2>4, <2>5
    DEF Take, CppProgram, CProgram, CppExists, CppCreate, CppUpdate, CppRead, CppDelete
<1> QED
  BY <1>4, <1>5, <1>6

(* A network connection that is there when nc_exists reads it is missed,   *)
(* for it is read as a session context; any other item is found.           *)
LEMMA WhatExistsMisses ==
    ASSUME ProgramsInv, NEW p \in Threads, pc[p] = "exists",
           Wanted(Named(db, ItemAt(p)), CallOf(p)) = {},
           Named(db, ItemAt(p)) = Named(found, ItemAt(p))
    PROVE  Missed(ItemAt(p))
<1> DEFINE n == ItemAt(p)
<1>1. /\ n \in Names /\ CallOf(p).name = n /\ CallOf(p).op = "get"
      /\ CallOf(p).type = ExistsType(n)
  BY TheCall DEF ProgramsInv, Running, Working
<1> HIDE DEF n
<1>2. ASSUME NEW it \in Named(db, n)  PROVE TypeOf[n] = "nc"
  <2>1. it.type = TypeOf[n] /\ it.name = n
    BY DEF ProgramsInv, TypedItems, Named
  <2>2. it.type # ExistsType(n)
    BY <1>1, <2>1 DEF Wanted, Matches, n
  <2> QED
    BY <2>1, <2>2 DEF ExistsType
<1>3. Missed(n)
  BY <1>2 DEF Missed, n
<1> QED
  BY <1>3 DEF n

LEMMA TakeStep ==
    ASSUME ProgramsInv, NEW p \in Threads, Take(p)
    PROVE  ProgramsInv'
<1>1. /\ Running(p) /\ phase[p] = "answered"
      /\ phase' = [phase EXCEPT ![p] = "idle"]
      /\ call' = [call EXCEPT ![p] = NoCall]
      /\ ans' = [ans EXCEPT ![p] = [ok |-> FALSE, shows |-> {}]]
      /\ UNCHANGED <<db, filters, done, got, kind, runs, faults, late, hit, alone, found>>
      /\ UNCHANGED abandoned
  BY SameNotions DEF Take, Store!Return, Store!Enter, Store!NoAnswer, history
<1>2. TypeOK
  BY DEF ProgramsInv
<1>3. PICK l \in Places, i \in DOMAIN CreateOrder :
          /\ pc' = [pc EXCEPT ![p] = l] /\ at' = [at EXCEPT ![p] = i]
          /\ kind = "c" => CMove(p, l, i)
          /\ kind = "cpp" => CppMove(p, l, i)
  BY <1>2, Moves DEF Move, Goto
<1>4. TypeOK'
  BY <1>1, <1>2, <1>3 DEF TypeOK, Places
<1>5. /\ Only(p) /\ pc'[p] = l /\ at'[p] = i /\ phase'[p] = "idle"
      /\ done'[p] = {} /\ got'[p] = {} /\ done[p] = {}
  BY <1>1, <1>2, <1>3 DEF TypeOK, Only, SameProcess, ProgramsInv, OwnCall
<1>6. kind = "c" \/ kind = "cpp"
  BY <1>2, ProgramsAssumption DEF TypeOK
<1>7. i = at[p] /\ (kind = "cpp" => l # "delete" /\ pc[p] # "delete") => ItemAt(p)' = ItemAt(p)
  BY <1>1, <1>5 DEF ItemAt
<1>8. Applied(p) = ans[p].ok /\ ~Applied(p)'
  BY <1>1, <1>2, <1>5 DEF Applied, TypeOK
<1>9. Shared
  <2>1. \A n : Holds(p, n)' => Holds(p, n)
    <3>1. SUFFICES ASSUME NEW n, Holds(p, n)'  PROVE Holds(p, n)
      OBVIOUS
    <3>2. kind = "c" /\ ItemAt(p)' = n /\ l \in {"update", "read", "delete"}
      BY <1>1, <1>5, <1>8, <3>1 DEF Holds
    <3>3. i = at[p] /\ (pc[p] = "read" \/ (pc[p] \in {"create", "update"} /\ ans[p].ok))
      BY <1>3, <3>2 DEF CMove
    <3> QED
      BY <1>1, <1>7, <1>8, <3>2, <3>3 DEF Holds
  <2>2. \A n : WillDescribe(p, n) => WillDescribe(p, n)'
    <3>1. SUFFICES ASSUME NEW n, WillDescribe(p, n)  PROVE WillDescribe(p, n)'
      OBVIOUS
    <3>2. pc[p] = "create" /\ ans[p].ok /\ ItemAt(p) = n
      BY <1>1, <1>8, <3>1 DEF WillDescribe
    <3>3. l = "update" /\ i = at[p]
      BY <1>3, <1>6, <3>2 DEF CMove, CppMove
    <3> QED
      BY <1>5, <1>7, <3>2, <3>3 DEF WillDescribe, Running, Working
  <2> QED
    BY <1>1, <1>5, <2>1, <2>2, QuietStep
<1>10. Undisturbed(p)'
  <2>1. l = "failed" => hit[p]
    <3>1. ASSUME l = "failed"
          PROVE  kind = "c" /\ pc[p] \in {"update", "delete"} /\ ~ans[p].ok
      BY <1>3, <1>6, <3>1 DEF CMove, CppMove
    <3> QED
      BY <1>1, <3>1 DEF ProgramsInv, Undisturbed
  <2> QED
    BY <1>1, <1>5, <2>1 DEF Undisturbed
<1>11. CalmRun(p)'
  <2>1. SUFFICES ASSUME Calm(p)  PROVE CalmRun(p)'
    BY <1>1 DEF CalmRun, Calm
  <2> DEFINE n == ItemAt(p)
  <2>2. CppMove(p, l, i) /\ CalmAt(p, n)
    BY <1>1, <1>3, <2>1 DEF ProgramsInv, CalmRun, Calm
  <2>4. at[p] \in 1..Len(CreateOrder) /\ Len(CreateOrder) \in Nat
        /\ DOMAIN CreateOrder = 1..Len(CreateOrder) /\ DOMAIN DeleteOrder = 1..Len(CreateOrder)
    BY <1>2, Orders DEF TypeOK
  <2>5. CASE pc[p] \in {"exists", "create", "update"}
    <3>1. i = at[p] /\ l \in {"create", "update", "read"}
      BY <2>2, <2>5 DEF CppMove
    <3>2. ItemAt(p)' = n
      BY <1>7, <2>5, <3>1
    <3>3. /\ Missed(n)' <=> Missed(n)
          /\ Described(n)' <=> Described(n)
          /\ Named(db, n)' = Named(db, n)
      BY <1>1, <3>2 DEF Missed, Described, Named, Bare
    <3>4. CASE pc[p] = "exists"
      <4>1. ans[p].ok <=> Wanted(Named(db, n), CallOf(p)) # {}
        BY <1>1, <2>2, <3>4 DEF CalmAt
      <4>2. ans[p].ok => Named(db, n) # {}
        BY <4>1 DEF Wanted
      <4>3. ~ans[p].ok => Missed(n)
        BY <2>2, <3>4, <4>1, WhatExistsMisses DEF CalmAt
      <4>4. l = IF ans[p].ok THEN "update" ELSE "create"
        BY <2>2, <3>4 DEF CppMove
      <4>5. CalmAt(p, n)'
        BY <1>5, <1>8, <3>3, <4>2, <4>3, <4>4 DEF CalmAt
      <4> QED
        BY <1>1, <1>5, <2>1, <2>5, <3>1, <3>2, <4>5
        DEF ProgramsInv, CalmRun, Named, Working, Calm
    <3>5. CASE pc[p] = "create"
      <4>1. l = IF ans[p].ok THEN "update" ELSE "read"
        BY <2>2, <3>5 DEF CppMove
      <4>2. Named(db, n) # {} /\ (~ans[p].ok => Missed(n))
        BY <1>1, <1>8, <2>2, <3>5 DEF CalmAt
      <4>3. CalmAt(p, n)'
        BY <1>5, <1>8, <3>3, <4>1, <4>2 DEF CalmAt
      <4> QED
        BY <1>1, <1>5, <2>1, <2>5, <3>1, <3>2, <4>3
        DEF ProgramsInv, CalmRun, Named, Working, Calm
    <3>6. CASE pc[p] = "update"
      <4>1. l = "read"
        BY <2>2, <3>6 DEF CppMove
      <4>2. Described(n)
        BY <1>1, <1>8, <2>2, <3>6 DEF CalmAt
      <4>3. CalmAt(p, n)'
        BY <1>5, <3>3, <4>1, <4>2 DEF CalmAt
      <4> QED
        BY <1>1, <1>5, <2>1, <2>5, <3>1, <3>2, <4>3
        DEF ProgramsInv, CalmRun, Named, Working, Calm
    <3> QED
      BY <2>5, <3>4, <3>5, <3>6
  <2>6. CASE pc[p] = "read"
    <3>1. \/ l = "exists" /\ i = at[p] + 1
          \/ l = "delete" /\ i = 1
      BY <2>2, <2>6 DEF CppMove
    <3>2. \A j \in DOMAIN CreateOrder : j > at[p] =>
              Named(db, CreateOrder[j]) = Named(found, CreateOrder[j])
      BY <2>1, <2>6 DEF ProgramsInv, CalmRun, Working
    <3>3. CASE l = "exists" /\ i = at[p] + 1
      <4>1. ItemAt(p)' = CreateOrder[i]
        BY <1>1, <1>5, <3>3 DEF ItemAt
      <4>2. CalmAt(p, ItemAt(p))'
        BY <1>1, <1>3, <1>5, <2>4, <3>2, <3>3, <4>1 DEF CalmAt, Named
      <4> QED
        BY <1>1, <1>5, <2>4, <3>2, <3>3, <4>2 DEF CalmRun, Named
    <3>4. CASE l = "delete" /\ i = 1
      <4>1. CalmAt(p, ItemAt(p))'
        BY <1>5, <1>8, <3>4 DEF CalmAt
      <4> QED
        BY <1>5, <2>4, <3>4, <4>1 DEF CalmRun, Working
    <3> QED
      BY <3>1, <3>3, <3>4
  <2>7. CASE pc[p] = "delete"
    <3>1. \A j \in DOMAIN DeleteOrder : j <= at[p] => Named(db, DeleteOrder[j]) = {}
      <4>1. n = DeleteOrder[at[p]]
        BY <2>1, <2>7 DEF ItemAt, Calm
      <4>2. Named(db, n) = {}
        BY <1>1, <2>2, <2>7 DEF CalmAt
      <4>3. \A j \in DOMAIN DeleteOrder : j < at[p] => Named(db, DeleteOrder[j]) = {}
        BY <2>1, <2>7 DEF ProgramsInv, CalmRun
      <4> QED
        BY <2>4, <4>1, <4>2, <4>3
    <3>2. CASE l = "delete" /\ i = at[p] + 1
      <4>1. CalmAt(p, ItemAt(p))'
        BY <1>5, <1>8, <3>2 DEF CalmAt
      <4> QED
        BY <1>1, <1>5, <2>4, <3>1, <3>2, <4>1 DEF CalmRun, Named, Working
    <3>3. CASE l = "end" /\ at[p] = Len(CreateOrder)
      <4>1. \A it \in db : FALSE
        <5>1. SUFFICES ASSUME NEW it \in db  PROVE FALSE
          OBVIOUS
        <5>2. it.name \in Names /\ it \in Named(db, it.name)
          BY <1>2 DEF TypeOK, Databases, Items, Named
        <5>3. PICK j \in DOMAIN DeleteOrder : DeleteOrder[j] = it.name
          BY <5>2, Orders
        <5> QED
          BY <2>4, <3>1, <3>3, <5>2, <5>3
      <4> QED
        BY <1>1, <1>5, <3>3, <4>1 DEF CalmRun, Running, Working
    <3> QED
      BY <2>2, <2>7, <3>2, <3>3 DEF CppMove
  <2> QED
    BY <1>1, <2>5, <2>6, <2>7 DEF Running, Working
<1>12. OwnCall(p)' /\ NobodyElse(p)'
  BY <1>1, <1>5, StaysAlone DEF OwnCall
<1> QED
  BY <1>1, <1>4, <1>5, <1>9, <1>10, <1>11, <1>12, ProcessStep DEF Kept

(* The end of a subscription concerns nobody.                              *)
LEMMA SubscribedStep ==
    ASSUME ProgramsInv, NEW p \in Threads, Subscribed(p)
    PROVE  ProgramsInv'
<1>1. /\ kind = "c" /\ pc[p] = "subscribe" /\ pc' = [pc EXCEPT ![p] = "end"]
      /\ UNCHANGED <<db, filters, phase, call, done, got, ans, kind, at, runs, faults>>
      /\ UNCHANGED <<late, hit, alone, found, abandoned>>
  BY DEF Subscribed, storeVars, history
<1>2. TypeOK
  BY DEF ProgramsInv
<1>3. TypeOK'
  BY <1>1, <1>2 DEF TypeOK
<1>4. Only(p) /\ pc'[p] = "end" /\ ~Running(p) /\ ~Running(p)'
  BY <1>1, <1>2 DEF TypeOK, Only, SameProcess, Running, Working
<1>5. Shared
  <2>1. \A n : ~Holds(p, n)' /\ ~WillDescribe(p, n)
    BY <1>4 DEF Holds, WillDescribe
  <2> QED
    BY <1>1, <1>4, <2>1, QuietStep
<1>6. ASSUME NEW q \in Threads
      PROVE  OwnCall(q)' /\ Undisturbed(q)' /\ NobodyElse(q)' /\ CalmRun(q)'
  <2>1. NobodyElse(q)'
    <3>1. \A r \in Threads : Running(r)' <=> Running(r)
      BY <1>4, SamePlace DEF Only, SameProcess
    <3> QED
      BY <1>1, <3>1 DEF ProgramsInv, NobodyElse
  <2>2. CalmRun(q)'
    BY <1>1 DEF CalmRun, Calm
  <2>3. OwnCall(q)' /\ Undisturbed(q)'
    <3>1. CASE q = p
      BY <1>1, <1>4, <3>1 DEF ProgramsInv, OwnCall, Undisturbed
    <3>2. CASE q # p
      BY <1>4, <3>2, SameView DEF Only, ProgramsInv
    <3> QED
      BY <3>1, <3>2
  <2> QED
    BY <2>1, <2>2, <2>3
<1> QED
  BY <1>3, <1>5, <1>6 DEF ProgramsInv, Shared

-----------------------------------------------------------------------------
LEMMA ProgramsInit == Init => ProgramsInv
<1> SUFFICES ASSUME Init  PROVE ProgramsInv
  OBVIOUS
<1>1. /\ db = {} /\ filters = TRUE /\ kind \in Kinds /\ runs = 0 /\ faults = 0
      /\ phase = [p \in Threads |-> "idle"] /\ call = [p \in Threads |-> NoCall]
      /\ done = [p \in Threads |-> {}] /\ got = [p \in Threads |-> {}]
      /\ ans = [p \in Threads |-> [ok |-> FALSE, shows |-> {}]]
      /\ pc = [p \in Threads |-> "off"] /\ at = [p \in Threads |-> 1]
      /\ hit = [p \in Threads |-> FALSE] /\ alone = [p \in Threads |-> FALSE]
      /\ late = {} /\ found = {} /\ abandoned = {}
  <2>1. filters = TRUE
    BY DEF Init, Store!Init
  <2> QED
    BY <2>1, SameNotions DEF Init, Store!Init, Store!NoAnswer
<1>2. TypeOK
  <2>1. {} \in Databases
    BY DEF Databases, UniqueNames
  <2>2. 1 \in DOMAIN CreateOrder
    BY Orders
  <2> QED
    BY <1>1, <2>1, <2>2, ProgramsAssumption DEF TypeOK
<1>3. \A p \in Threads : ~Running(p)
  BY <1>1 DEF Running, Working
<1>4. TypedItems /\ OneHolder /\ LateWrites /\ LeftAlone /\ BareWillBeDescribed
  BY <1>1, <1>3 DEF TypedItems, OneHolder, LateWrites, LeftAlone, BareWillBeDescribed, Bare,
     Holds
<1>5. \A p \in Threads : OwnCall(p) /\ Undisturbed(p) /\ NobodyElse(p) /\ CalmRun(p)
  BY <1>1 DEF OwnCall, Undisturbed, NobodyElse, CalmRun, Calm
<1> QED
  BY <1>2, <1>4, <1>5 DEF ProgramsInv

LEMMA ProgramsStep ==
    ASSUME ProgramsInv, [Next]_vars
    PROVE  ProgramsInv'
<1>1. ASSUME NEW p \in Threads, Request(p)  PROVE ProgramsInv'
  BY <1>1, RequestStep
<1>2. ASSUME NEW p \in Threads, Serve(p)  PROVE ProgramsInv'
  <2>1. Forgive /\ UNCHANGED <<kind, pc, at, runs, faults, late, history>>
    BY <1>2 DEF Serve
  <2>2. CASE Store!Apply(p)
    BY <2>1, <2>2, ApplyStep
  <2>3. ASSUME NEW n \in Names, Store!Observe(p, n)  PROVE ProgramsInv'
    BY <2>1, <2>3, ObserveStep
  <2>4. CASE Store!Succeed(p)
    BY <2>1, <2>4, SucceedStep
  <2>5. CASE Store!NotFound(p)
    BY <2>1, <2>5, NotFoundStep
  <2>6. CASE Store!GiveUp(p)
    BY <2>1, <2>6, GiveUpStep
  <2>7. CASE Unanswered(p) /\ ~Carried(call[p]) /\ Store!Fail(p)
    BY <2>1, <2>7, RefusedStep
  <2> QED
    BY <1>2, <2>2, <2>3, <2>4, <2>5, <2>6, <2>7 DEF Serve
<1>3. ASSUME NEW p \in Threads, Start(p) \/ Take(p) \/ Lose(p) \/ Kill(p) \/ Subscribed(p)
      PROVE  ProgramsInv'
  BY <1>3, StartStep, TakeStep, LoseStep, KillStep, SubscribedStep
<1>4. CASE Arrive
  BY <1>4, ArriveStep
<1>5. CASE UNCHANGED vars
  <2>1. /\ UNCHANGED <<db, filters, phase, call, done, got, ans, kind, pc, at, runs, faults>>
        /\ UNCHANGED <<late, hit, alone, found, abandoned>>
    BY <1>5 DEF vars, storeVars, history
  <2>2. TypeOK'
    BY <2>1 DEF ProgramsInv, TypeOK
  <2>3. \A p \in Threads : /\ kind' = kind /\ SameProcess(p)
                           /\ \A n : Holds(p, n)' <=> Holds(p, n)
                           /\ \A n : WillDescribe(p, n)' <=> WillDescribe(p, n)
    BY <2>1, SameView DEF SameProcess
  <2>4. TypedItems' /\ OneHolder' /\ LateWrites' /\ LeftAlone' /\ BareWillBeDescribed'
    BY <2>1, <2>3 DEF ProgramsInv, TypedItems, OneHolder, LateWrites, LeftAlone,
       BareWillBeDescribed, Named, Bare
  <2>5. ASSUME NEW p \in Threads
        PROVE  OwnCall(p)' /\ Undisturbed(p)' /\ NobodyElse(p)' /\ CalmRun(p)'
    <3>1. OwnCall(p)' /\ Undisturbed(p)'
      BY <2>1, <2>3, SameView DEF ProgramsInv
    <3>2. NobodyElse(p)'
      BY <2>1 DEF ProgramsInv, NobodyElse, Running
    <3>3. ItemAt(p)' = ItemAt(p) /\ CallOf(p)' = CallOf(p) /\ (Running(p)' <=> Running(p))
      BY <2>1, SamePlace
    <3>4. CalmAt(p, ItemAt(p))' <=> CalmAt(p, ItemAt(p))
      BY <2>1, <3>3 DEF CalmAt, Applied, Missed, Described, Named, Bare, Wanted, Matches
    <3>5. CalmRun(p)'
      BY <2>1, <3>3, <3>4 DEF ProgramsInv, CalmRun, Calm, Named
    <3> QED
      BY <3>1, <3>2, <3>5
  <2> QED
    BY <2>2, <2>4, <2>5 DEF ProgramsInv
<1> QED
  BY <1>1, <1>2, <1>3, <1>4, <1>5 DEF Next, Step

(* What holds at every moment of the programs, whatever their number, the  *)
(* items, the faults and the runs.                                         *)
THEOREM ProgramsInvariant == Spec => []ProgramsInv
BY ProgramsInit, ProgramsStep, PTL DEF Spec

(* The variables keep their types.                                         *)
THEOREM ProgramsTypes == Spec => []TypeOK
<1>1. ProgramsInv => TypeOK
  BY DEF ProgramsInv
<1> QED
  BY <1>1, ProgramsInvariant, PTL

(* The server's refusal to create what is there makes the name of an item  *)
(* a lock for the C programs: only one of them is past its create, and its *)
(* item is there until it deletes it.                                      *)
THEOREM NameIsALock == Spec => []OneHolder
<1>1. ProgramsInv => OneHolder
  BY DEF ProgramsInv
<1> QED
  BY <1>1, ProgramsInvariant, PTL

(* A C program past its create is disturbed by no other program and by no  *)
(* request that arrives late: only the loss of its own RPC stops it.       *)
THEOREM HolderGoesThrough == Spec => []HolderUndisturbed
<1>1. ProgramsInv => HolderUndisturbed
  BY DEF ProgramsInv, Undisturbed, HolderUndisturbed
<1> QED
  BY <1>1, ProgramsInvariant, PTL

(* What a C program that was cut short has left behind is never repaired,  *)
(* by however many further runs.                                           *)
THEOREM NeverRepaired == Spec => []LeftoversStay
<1>1. ProgramsInv => LeftoversStay
  BY DEF ProgramsInv, LeftAlone, LeftoversStay
<1> QED
  BY <1>1, ProgramsInvariant, PTL

(* An item without its description has a program that is about to describe *)
(* it, unless a fault hit the one that was.                                *)
THEOREM SomeoneDescribes == Spec => []NoneLeftBare
<1>1. ProgramsInv => NoneLeftBare
  <2>1. \A p, n : WillDescribe(p, n) => AboutToDescribe(p, n)
    BY DEF WillDescribe, AboutToDescribe
  <2> QED
    BY <2>1 DEF ProgramsInv, BareWillBeDescribed, NoneLeftBare
<1> QED
  BY <1>1, ProgramsInvariant, PTL

(* A C++ program that is alone and meets no fault repairs every item but a *)
(* network connection, whatever state earlier runs left the items in.      *)
THEOREM RerunRepairs == Spec => []RunRepairs
<1>1. ProgramsInv => RunRepairs
  <2>1. SUFFICES ASSUME ProgramsInv, NEW p \in Threads, Calm(p), pc[p] = "read"
                 PROVE  LET n == ItemAt(p)
                        IN /\ Named(db, n) # {}
                           /\ n \in Bare(db) => TypeOf[n] = "nc" /\ n \in Bare(found)
    BY DEF RunRepairs
  <2>2. LET n == ItemAt(p) IN Described(n) \/ (Missed(n) /\ Named(db, n) # {})
    BY <2>1 DEF ProgramsInv, CalmRun, CalmAt, Running, Working
  <2>3. \A d, n : n \in Bare(d) <=> \E it \in Named(d, n) : it.val = "bare"
    BY DEF Bare, Named
  <2> QED
    BY <2>2, <2>3 DEF Described, Missed
<1> QED
  BY <1>1, ProgramsInvariant, PTL

(* And when it ends, no item is left.                                      *)
THEOREM RerunCleansUp == Spec => []NothingLeft
<1>1. ProgramsInv => NothingLeft
  BY DEF ProgramsInv, CalmRun, NothingLeft
<1> QED
  BY <1>1, ProgramsInvariant, PTL

(* A step that changes the items carries out one request, of a program     *)
(* that is waiting or one that arrives late.                               *)
LEMMA WhoChanges ==
    ASSUME [Next]_vars, db' # db
    PROVE  Arrive \/ \E p \in Threads : Store!Apply(p)
<1>1. ~UNCHANGED vars
  BY DEF vars, storeVars
<1>2. ASSUME NEW p \in Threads,
             Start(p) \/ Request(p) \/ Take(p) \/ Lose(p) \/ Kill(p) \/ Subscribed(p)
      PROVE  FALSE
  BY <1>2
  DEF Start, storeVars, Request, Take, Store!Return, Lose, Store!Fail, Kill, Store!Vanish,
      Subscribed
<1>3. ASSUME NEW p \in Threads, Serve(p)
      PROVE  Store!Apply(p)
  BY <1>3 DEF Serve, Store!Observe, Store!Succeed, Store!NotFound, Store!GiveUp, Store!Answered,
     Store!Fail
<1> QED
  BY <1>1, <1>2, <1>3 DEF Next, Step

(* An item that a C program holds changes in one kind of step only: the    *)
(* server carries out that program's own update or delete.                 *)
THEOREM HeldIsUntouched == Spec => OnlyHolderChanges
<1>1. ASSUME ProgramsInv, [Next]_vars, NEW p \in Threads, NEW n \in Names,
             Holds(p, n), Named(db', n) # Named(db, n)
      PROVE  Unanswered(p) /\ done'[p] # {}
  <2>1. kind = "c" /\ Named(db, n) # {} /\ \A q \in Threads : Holds(q, n) => p = q
    BY <1>1 DEF ProgramsInv, OneHolder, Holds
  <2>2. ASSUME NEW q \in Threads, Store!Apply(q)
        PROVE  Unanswered(p) /\ done'[p] # {}
    <3>1. /\ Unanswered(q) /\ Running(q) /\ done' = [done EXCEPT ![q] = Names]
          /\ n = ItemAt(q) /\ pc[q] \in {"update", "delete"}
      BY <1>1, <2>1, <2>2, Applying
    <3>2. Holds(q, n)
      BY <2>1, <3>1 DEF Holds, Unanswered
    <3>3. done \in [Threads -> SUBSET Names]
      BY <1>1 DEF ProgramsInv, TypeOK
    <3> QED
      BY <1>1, <2>1, <3>1, <3>2, <3>3
  <2>3. ~Arrive
    <3>1. SUFFICES ASSUME Arrive  PROVE FALSE
      OBVIOUS
    <3>2. PICK c \in late, reply \in Items \cup {DefaultItem} : Carries(c, db, db', reply)
      BY <3>1 DEF Arrive
    <3>3. c \in Calls /\ db \in Databases /\ c.op \in {"create", "update", "delete"}
      BY <1>1 DEF ProgramsInv, TypeOK, TypedItems
    <3>4. n = c.name /\ c.op \in {"update", "delete"}
      BY <1>1, <2>1, <3>2, <3>3, CarriedOut
    <3> QED
      BY <1>1, <2>1, <3>4 DEF ProgramsInv, LateWrites
  <2>4. db' # db
    BY <1>1 DEF Named
  <2> QED
    BY <1>1, <2>2, <2>3, <2>4, WhoChanges
<1>2. ProgramsInv /\ [Next]_vars =>
          [\A p \in Threads, n \in Names :
              Holds(p, n) /\ Named(db', n) # Named(db, n) => Unanswered(p) /\ done'[p] # {}]_vars
  BY <1>1
<1> QED
  BY <1>2, ProgramsInvariant, PTL DEF Spec, OnlyHolderChanges
=============================================================================
