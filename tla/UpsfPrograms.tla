----------------------------- MODULE UpsfPrograms -----------------------------
(***************************************************************************)
(* The two example programs, src/examples/c and src/examples/cpp, several  *)
(* processes of one of them on the items of one server; the two use        *)
(* different names and do not meet.  What their calls do is what UpsfStore *)
(* promises, which UpsfClient implements.                                  *)
(*                                                                         *)
(* The C program creates an item of each type, describes it and deletes it *)
(* before it goes on to the next, gives up when one of these calls fails   *)
(* and comes to a subscription when none does, which may last for ever.    *)
(* The C++ program creates and describes all items, then deletes them all, *)
(* whatever fails.  An RPC may be lost, a program may be killed and run    *)
(* again, and a request may reach the server after its program has gone.   *)
(* Lists are left out: they are printed and decide nothing.                *)
(***************************************************************************)
EXTENDS UpsfCalls, SequencesExt

CONSTANTS
    Kinds,      \* which of the two programs: "c", "cpp"
    Groups,     \* the names of the items, grouped by type, in create_items' order
    TypeOf,     \* the type of each name
    MaxFaults,  \* bound: RPCs lost and programs killed
    MaxRuns     \* bound: runs of programs

CreateOrder == FlattenSeq(Groups)
DeleteOrder == FlattenSeq(Reverse(Groups))

ASSUME ProgramsAssumption ==
    /\ Kinds \subseteq {"c", "cpp"}
    /\ Vals = {"bare", "described"}
    /\ {CreateOrder, DeleteOrder} \subseteq Seq(Names) \ {<<>>}
    /\ ToSet(CreateOrder) = Names /\ IsInjective(CreateOrder)
    /\ ToSet(DeleteOrder) = Names /\ Len(DeleteOrder) = Len(CreateOrder)
    /\ TypeOf \in [Names -> ItemTypes]
    /\ "nc" \in ItemTypes => "sctx" \in ItemTypes
    /\ {MaxFaults, MaxRuns} \subseteq Nat

VARIABLES
    db, filters, phase, call, done, got, ans,  \* UpsfStore, a thread per process
    kind,       \* the program the processes run
    pc,         \* the call each process is about to make or is making
    at,         \* the item it is at
    runs,       \* the runs so far
    faults,     \* the faults so far
    late,       \* requests that may still reach the server
    hit,        \* history: a fault hit this run
    alone,      \* history: nothing else was or has been at work during this run
    found,      \* history: the items there when a run last began alone
    abandoned   \* history: bare items whose creator has been hit

storeVars == <<db, filters, phase, call, done, got, ans>>
history == <<hit, alone, found>>
vars == <<storeVars, kind, pc, at, runs, faults, late, history, abandoned>>

Store == INSTANCE UpsfStore

Working == {"exists", "create", "update", "read", "delete"}
Running(p) == pc[p] \in Working
Gone(p) == pc[p] \in {"off", "end", "refused", "failed"}

Bare(d) == {it.name : it \in {i \in d : i.val = "bare"}}

Init ==
    /\ Store!Init /\ db = {} /\ filters
    /\ kind \in Kinds
    /\ pc = [p \in Threads |-> "off"]
    /\ at = [p \in Threads |-> 1]
    /\ runs = 0
    /\ faults = 0
    /\ late = {}
    /\ hit = [p \in Threads |-> FALSE]
    /\ alone = [p \in Threads |-> FALSE]
    /\ found = {}
    /\ abandoned = {}

(* create_items and delete_items; the C program's test functions.          *)
ItemAt(p) ==
    IF kind = "cpp" /\ pc[p] = "delete" THEN DeleteOrder[at[p]] ELSE CreateOrder[at[p]]

(* X_exists reads the item as one of its type, but nc_exists as a session  *)
(* context.                                                                *)
ExistsType(n) == IF TypeOf[n] = "nc" THEN "sctx" ELSE TypeOf[n]

CallOf(p) ==
    LET n == ItemAt(p)
    IN CASE pc[p] = "exists" -> [op |-> "get", type |-> ExistsType(n), name |-> n, val |-> None]
         [] pc[p] = "create" -> [op |-> "create", type |-> TypeOf[n], name |-> n, val |-> "bare"]
         [] pc[p] = "update" ->
                [op |-> "update", type |-> TypeOf[n], name |-> n, val |-> "described"]
         [] pc[p] = "read" -> [op |-> "get", type |-> TypeOf[n], name |-> n, val |-> None]
         [] pc[p] = "delete" -> [op |-> "delete", type |-> None, name |-> n, val |-> None]

Goto(p, l, i) == pc' = [pc EXCEPT ![p] = l] /\ at' = [at EXCEPT ![p] = i]

-----------------------------------------------------------------------------
(* Processes start and make calls.                                         *)

Start(p) ==
    /\ Gone(p) /\ runs < MaxRuns
    /\ runs' = runs + 1
    /\ Goto(p, IF kind = "cpp" THEN "exists" ELSE "create", 1)
    /\ hit' = [hit EXCEPT ![p] = FALSE]
    /\ alone' = [q \in Threads |-> /\ q = p /\ late = {}
                                   /\ \A r \in Threads : ~Running(r)]
    /\ found' = IF alone'[p] THEN db ELSE found
    /\ UNCHANGED <<storeVars, kind, faults, late, abandoned>>

Request(p) ==
    /\ Running(p) /\ phase[p] = "idle"
    /\ Store!Enter(p, "called")
    /\ call' = [call EXCEPT ![p] = CallOf(p)]
    /\ UNCHANGED <<db, filters, done, got, ans>>
    /\ UNCHANGED <<kind, pc, at, runs, faults, late, history, abandoned>>

-----------------------------------------------------------------------------
(* The server, as UpsfStore has it.                                        *)

(* The server refuses to create what there is, and to update or delete     *)
(* what there is not.                                                      *)
Carried(c) ==
    /\ c.op = "create" => Named(db, c.name) = {}
    /\ c.op = "update" => \E it \in Named(db, c.name) : it.type = c.type
    /\ c.op = "delete" => Named(db, c.name) # {}

Unanswered(p) == phase[p] = "called" /\ call[p].op \in Unary /\ done[p] = {}
Forgive == abandoned' = abandoned \cap Bare(db')

Serve(p) ==
    /\ \/ Store!Apply(p)
       \/ \E n \in Names : Store!Observe(p, n)
       \/ Store!Succeed(p) \/ Store!NotFound(p) \/ Store!GiveUp(p)
       \/ Unanswered(p) /\ ~Carried(call[p]) /\ Store!Fail(p)
    /\ Forgive
    /\ UNCHANGED <<kind, pc, at, runs, faults, late, history>>

(* A request the server has not seen may get there later.                  *)
Fault(p) ==
    /\ faults < MaxFaults
    /\ faults' = faults + 1
    /\ late' \in {late} \cup {late \cup {call[q]} : q \in {r \in {p} : Unanswered(r)}}
    /\ hit' = [hit EXCEPT ![p] = TRUE]
    /\ abandoned' = abandoned \cup
           (IF pc[p] \in {"create", "update"} THEN Bare(db) \cap {ItemAt(p)} ELSE {})

Lose(p) ==
    /\ Running(p)
    /\ Store!Fail(p)
    /\ Fault(p)
    /\ UNCHANGED <<kind, pc, at, runs, alone, found>>

(* The process is killed, at any point.                                    *)
Kill(p) ==
    /\ Running(p)
    /\ Fault(p)
    /\ pc' = [pc EXCEPT ![p] = "off"]
    /\ Store!Vanish(p)
    /\ UNCHANGED <<kind, at, runs, alone, found>>

Arrive ==
    /\ \E c \in late :
           /\ late' = late \ {c}
           /\ \E reply \in Items \cup {DefaultItem} : Carries(c, db, db', reply)
           /\ abandoned' = (abandoned \cup {c.name}) \cap Bare(db')
    /\ UNCHANGED <<filters, phase, call, done, got, ans>>
    /\ UNCHANGED <<kind, pc, at, runs, faults, history>>

-----------------------------------------------------------------------------
(* What a program makes of an answer: the program's next call.             *)

Stay(p, l) == Goto(p, l, at[p])

(* Slips that the properties below would catch; no part of the             *)
(* specification.                                                          *)

(* The loop over the items goes one too far.                               *)
NextItemTooFar(p, l, m) ==
    IF at[p] <= Len(CreateOrder) THEN Goto(p, l, at[p] + 1) ELSE Goto(p, m, 1)

(* The update stands in the if of the exists check.                        *)
CppExistsOnly(p, ok) == pc[p] = "exists" /\ Stay(p, IF ok THEN "read" ELSE "create")

(* The update stands in an else of the exists check.                       *)
CppCreateOnly(p, ok) == pc[p] = "create" /\ Stay(p, "read")

(* A failed create ends the program, as it does in C.                      *)
CppCreateStops(p, ok) == pc[p] = "create" /\ Stay(p, IF ok THEN "update" ELSE "end")

(* A failed create is tried again from the start.                          *)
CppCreateRetries(p, ok) == pc[p] = "create" /\ Stay(p, IF ok THEN "update" ELSE "exists")

(* The result of create is not looked at.                                  *)
CCreateUnchecked(p, ok) == pc[p] = "create" /\ Stay(p, "update")

(* A failed create cleans up.                                              *)
CCreateCleansUp(p, ok) == pc[p] = "create" /\ Stay(p, IF ok THEN "update" ELSE "delete")

(* for the next item: the next function of create_items, the next of       *)
(* delete_items, or the next test function of the C program.               *)
NextItem(p, l, m) ==
    IF at[p] < Len(CreateOrder) THEN Goto(p, l, at[p] + 1) ELSE Goto(p, m, 1)

(* Another slip: a failed delete is tried again.                           *)
CDeleteRetries(p, ok) ==
    /\ pc[p] = "delete"
    /\ IF ok THEN NextItem(p, "create", "subscribe") ELSE Stay(p, "delete")

CppExists(p, ok) == pc[p] = "exists" /\ Stay(p, IF ok THEN "update" ELSE "create")
CppCreate(p, ok) == pc[p] = "create" /\ Stay(p, IF ok THEN "update" ELSE "read")
CppUpdate(p, ok) == pc[p] = "update" /\ Stay(p, "read")
CppRead(p, ok)   == pc[p] = "read" /\ NextItem(p, "exists", "delete")
CppDelete(p, ok) == pc[p] = "delete" /\ NextItem(p, "delete", "end")

CCreate(p, ok) == pc[p] = "create" /\ Stay(p, IF ok THEN "update" ELSE "refused")
CUpdate(p, ok) == pc[p] = "update" /\ Stay(p, IF ok THEN "read" ELSE "failed")
(* if (upsf_get_X(&item) < 0): a pointer never is.                         *)
CGet(p, ok)    == pc[p] = "read" /\ Stay(p, "delete")
CDelete(p, ok) ==
    /\ pc[p] = "delete"
    /\ IF ok THEN NextItem(p, "create", "subscribe") ELSE Stay(p, "failed")

CppProgram(p, ok) ==
    /\ kind = "cpp"
    /\ \/ CppExists(p, ok) \/ CppCreate(p, ok) \/ CppUpdate(p, ok)
       \/ CppRead(p, ok) \/ CppDelete(p, ok)

CProgram(p, ok) ==
    /\ kind = "c"
    /\ CCreate(p, ok) \/ CUpdate(p, ok) \/ CGet(p, ok) \/ CDelete(p, ok)

Take(p) ==
    /\ Running(p)
    /\ Store!Return(p)
    /\ CppProgram(p, ans[p].ok) \/ CProgram(p, ans[p].ok)
    /\ UNCHANGED <<kind, runs, faults, late, history, abandoned>>

(* The subscription only watches, and its callbacks always ask for more:   *)
(* it ends when its stream breaks or its process is killed, if ever.       *)
Subscribed(p) ==
    /\ kind = "c" /\ pc[p] = "subscribe"
    /\ pc' = [pc EXCEPT ![p] = "end"]
    /\ UNCHANGED <<storeVars, kind, at, runs, faults, late, history, abandoned>>

Step(p) == Request(p) \/ Serve(p) \/ Take(p)

Next ==
    \/ \E p \in Threads : Start(p) \/ Step(p) \/ Lose(p) \/ Kill(p) \/ Subscribed(p)
    \/ Arrive

Spec == Init /\ [][Next]_vars

(* Running programs are scheduled and the server answers; no subscription  *)
(* need end.                                                               *)
FairSpec == Spec /\ \A p \in Threads : WF_vars(Step(p))

-----------------------------------------------------------------------------
(* The types of the variables.                                             *)
TypeOK ==
    /\ db \in Databases
    /\ filters = TRUE
    /\ phase \in [Threads -> {"idle", "called", "failed", "answered"}]
    /\ call \in [Threads -> Calls \cup {NoCall}]
    /\ done \in [Threads -> SUBSET Names]
    /\ got \in [Threads -> SUBSET Items]
    /\ ans \in [Threads -> [ok : BOOLEAN, shows : SUBSET Items]]
    /\ kind \in Kinds
    /\ pc \in [Threads -> Working \cup {"subscribe", "off", "end", "refused", "failed"}]
    /\ at \in [Threads -> DOMAIN CreateOrder]
    /\ runs \in 0..MaxRuns
    /\ faults \in 0..MaxFaults
    /\ late \subseteq Calls
    /\ {hit, alone} \subseteq [Threads -> BOOLEAN]
    /\ found \in Databases
    /\ abandoned \subseteq Names

(* A C program holds an item from the moment the server has created it for *)
(* it until the server has deleted it or the program has lost its update   *)
(* or its delete.                                                          *)
Applied(p) ==
    \/ phase[p] = "called" /\ done[p] # {}
    \/ phase[p] = "answered" /\ ans[p].ok

Holds(p, n) ==
    /\ kind = "c" /\ Running(p) /\ ItemAt(p) = n
    /\ \/ pc[p] = "create" /\ Applied(p)
       \/ pc[p] = "update" /\ (phase[p] \in {"idle", "called"} \/ Applied(p))
       \/ pc[p] = "read"
       \/ pc[p] = "delete" /\ phase[p] \in {"idle", "called"} /\ done[p] = {}

(* The name of an item is a lock for C programs: at most one of them holds *)
(* it, and the item is there as long as it does.                           *)
OneHolder ==
    \A n \in Names : \A p, q \in Threads :
        Holds(p, n) => /\ Named(db, n) # {}
                       /\ Holds(q, n) => p = q

(* Nobody else touches what a C program holds, not even a request from an  *)
(* earlier run that arrives late: it changes only when the server carries  *)
(* out the holder's own update or delete.                                  *)
OnlyHolderChanges ==
    [][\A p \in Threads, n \in Names :
           Holds(p, n) /\ Named(db', n) # Named(db, n) => Unanswered(p) /\ done'[p] # {}]_vars

(* A C program whose create has succeeded goes through undisturbed: its    *)
(* update and its delete fail only if one of its own RPCs was lost.        *)
HolderUndisturbed == \A p \in Threads : pc[p] = "failed" => hit[p]

(* C programs never touch what an earlier run has left behind: after a run *)
(* that was cut short the item stays as it is, whatever later runs do, and *)
(* each of them is refused there.                                          *)
LeftoversStay == kind = "c" => found \subseteq db

AboutToDescribe(p, n) ==
    /\ Running(p) /\ ItemAt(p) = n
    /\ pc[p] = "create" => Applied(p)
    /\ pc[p] \in {"create", "update"}

(* No item stays without its description, however programs overlap: the    *)
(* one that created it is about to describe it, or has been hit.           *)
NoneLeftBare ==
    \A n \in Bare(db) \ abandoned : \E p \in Threads : AboutToDescribe(p, n)

Calm(p) == kind = "cpp" /\ alone[p] /\ ~hit[p]

(* A C++ program that runs alone and without a fault repairs what earlier  *)
(* runs have left: every item it has gone through is described, but for a  *)
(* network connection that was there already, which nc_exists misses.      *)
RunRepairs ==
    \A p \in Threads : Calm(p) /\ pc[p] = "read" =>
        LET n == ItemAt(p)
        IN /\ Named(db, n) # {}
           /\ n \in Bare(db) => TypeOf[n] = "nc" /\ n \in Bare(found)

(* And it leaves nothing of its items behind.                              *)
NothingLeft == \A p \in Threads : Calm(p) /\ pc[p] = "end" => db = {}

(* A run comes to the end of its calls, whatever calls fail.  Only a C     *)
(* program may not be gone then: it has come to its subscription, which    *)
(* need not end.                                                           *)
CallsComeToEnd ==
    \A p \in Threads :
        Running(p) ~> Gone(p) \/ (kind = "c" /\ pc[p] = "subscribe")

-----------------------------------------------------------------------------
(* The inductive invariant from which the properties above follow.         *)

(* A process makes the call of the place it is at, or none.                *)
OwnCall(p) ==
    /\ phase[p] # "idle" => Running(p) /\ call[p] = CallOf(p)
    /\ phase[p] # "called" => done[p] = {}
    /\ phase[p] \notin {"called", "failed"} => got[p] = {}

(* Items are of the types the programs give them, and stay so when a late  *)
(* request arrives.                                                        *)
TypedItems ==
    /\ \A it \in db : it.type = TypeOf[it.name]
    /\ \A c \in late : /\ c.op \in {"create", "update", "delete"}
                       /\ c.op # "delete" => c.type = TypeOf[c.name]

(* An update or a delete that arrives late finds the item its program lost,*)
(* which no program can hold as long as it is there, and is the only one.  *)
LateWrites ==
    kind = "c" => \A c \in late : c.op \in {"update", "delete"} =>
        /\ Named(db, c.name) # {}
        /\ \A p \in Threads : ~Holds(p, c.name)
        /\ \A d \in late : d.op \in {"update", "delete"} /\ d.name = c.name => d = c

(* An update or a delete of a C program fails only if its RPC was lost.    *)
Undisturbed(p) ==
    /\ /\ kind = "c" /\ pc[p] \in {"update", "delete"}
       /\ phase[p] = "failed" \/ (phase[p] = "answered" /\ ~ans[p].ok)
       => hit[p]
    /\ pc[p] = "failed" => hit[p]

(* No program holds what an earlier run has left behind, and no request    *)
(* that may still arrive changes it.                                       *)
LeftAlone ==
    kind = "c" => \A it \in found :
        /\ it \in db
        /\ \A p \in Threads : ~Holds(p, it.name)
        /\ \A c \in late : c.op \in {"update", "delete"} => c.name # it.name

(* The process that created an item has not described it yet and will.     *)
WillDescribe(p, n) ==
    /\ Running(p) /\ ItemAt(p) = n
    /\ \/ pc[p] = "create" /\ Applied(p)
       \/ /\ pc[p] = "update"
          /\ phase[p] = "idle" \/ (phase[p] = "called" /\ done[p] = {})

BareWillBeDescribed ==
    \A n \in Bare(db) \ abandoned : \E p \in Threads : WillDescribe(p, n)

(* Nothing is at work beside a process that is alone.                      *)
NobodyElse(p) ==
    alone[p] => /\ \A q \in Threads \ {p} : ~Running(q)
                /\ ~hit[p] => late = {}

(* nc_exists is the only check that can miss an item that is there.        *)
Missed(n) ==
    Named(db, n) # {} => TypeOf[n] = "nc" /\ Named(db, n) = Named(found, n)

Described(n) == Named(db, n) # {} /\ n \notin Bare(db)

(* What a process that is alone and has met no fault knows of the item it  *)
(* is at, in the middle of each of its calls.                              *)
CalmAt(p, n) ==
    /\ pc[p] = "exists" =>
           /\ phase[p] # "failed"
           /\ Named(db, n) = Named(found, n)
           /\ phase[p] = "called" =>
                  /\ got[p] \subseteq Wanted(Named(db, n), CallOf(p))
                  /\ n \in done[p] => got[p] = Wanted(Named(db, n), CallOf(p))
           /\ phase[p] = "answered" =>
                  (ans[p].ok <=> Wanted(Named(db, n), CallOf(p)) # {})
    /\ pc[p] = "create" =>
           IF Applied(p) THEN Named(db, n) # {}
           ELSE Missed(n) /\ (phase[p] \in {"failed", "answered"} => Named(db, n) # {})
    /\ pc[p] = "update" =>
           /\ Named(db, n) # {}
           /\ phase[p] # "failed"
           /\ phase[p] = "answered" => ans[p].ok
           /\ Applied(p) => Described(n)
    /\ pc[p] = "read" => Described(n) \/ (Missed(n) /\ Named(db, n) # {})
    /\ pc[p] = "delete" => (phase[p] \in {"failed", "answered"} \/ Applied(p) => Named(db, n) = {})

(* It has not touched the items that are to come, or those it has deleted  *)
(* are gone.                                                               *)
CalmRun(p) ==
    Calm(p) =>
        /\ Running(p) => CalmAt(p, ItemAt(p))
        /\ pc[p] \in Working \ {"delete"} =>
               \A i \in DOMAIN CreateOrder : i > at[p] =>
                   Named(db, CreateOrder[i]) = Named(found, CreateOrder[i])
        /\ pc[p] = "delete" =>
               \A i \in DOMAIN DeleteOrder : i < at[p] => Named(db, DeleteOrder[i]) = {}
        /\ pc[p] = "end" => db = {}

(* What the processes, the server and the requests under way know of each  *)
(* other at every moment.                                                  *)
ProgramsInv ==
    /\ TypeOK /\ TypedItems
    /\ OneHolder /\ LateWrites /\ LeftAlone /\ BareWillBeDescribed
    /\ \A p \in Threads : OwnCall(p) /\ Undisturbed(p) /\ NobodyElse(p) /\ CalmRun(p)
=============================================================================
