------------------------------ MODULE UpsfClient ------------------------------
(***************************************************************************)
(* Class UpsfClient (upsf.hpp): the synchronous RPCs CreateV1, UpdateV1,   *)
(* DeleteV1, LookupV1 and the ReadV1 overloads that return one named item  *)
(* or the list of all items of a type, called by threads that share one    *)
(* client.  Each call holds stub_mutex from the moment it issues its RPC   *)
(* until it returns.                                                       *)
(*                                                                         *)
(* The UPSF server is not part of the repository.  It is modelled as the   *)
(* client sees it: a set of items with unique names, changed by this       *)
(* client's requests and by other clients at any time; a request may be    *)
(* refused or lost, and so may its answer; a read streams the items one    *)
(* by one while the set goes on changing.                                  *)
(***************************************************************************)
EXTENDS UpsfCalls, SequencesExt

CONSTANT
    MaxChanges      \* bound: changes other clients make to the server's items

ASSUME BoundAssumption == MaxChanges \in Nat

(* Slip: the name is read through the accessor of another alternative.     *)
NameOfOther(it, ty) == IF it.type # ty THEN it.name ELSE EmptyName

(* item.X().name(): the accessor of another alternative of the oneof       *)
(* returns a default message, whose name is empty.                         *)
NameAs(it, ty) == IF it.type = ty THEN it.name ELSE EmptyName

(* reply = item.X()                                                        *)
ContentAs(it, ty) == IF it.type = ty THEN it ELSE DefaultItem

VARIABLES
    db,          \* the server's items
    filters,     \* the server streams only items of the type and name asked for
    changes,     \* changes other clients have made, up to MaxChanges
    pc,          \* where each thread stands in its call
    call,        \* the call, with its arguments
    stub_mutex,  \* the thread that holds it
    resp,        \* the server's answer to a unary call
    status,      \* grpc::Status of the RPC: "none" while it is open
    wire,        \* items of a read's stream the client has not taken yet
    visited,     \* names the server has come by while it answers a read
    item,        \* the local variable item of a read
    out,         \* the caller's reply parameter
    outs,        \* the caller's vector
    result,      \* the returned bool
    seen,        \* history: the server's states during the call
    effects      \* history: how often the server carried out the call

serverVars == <<db, filters, changes, seen>>
streamVars == <<wire, visited, item>>
outVars == <<out, outs, result>>
vars == <<db, filters, changes, pc, call, stub_mutex, resp, status, wire, visited,
          item, out, outs, result, seen, effects>>

Init ==
    /\ db \in Databases
    /\ filters \in BOOLEAN
    /\ changes = 0
    /\ pc = [t \in Threads |-> "idle"]
    /\ call = [t \in Threads |-> NoCall]
    /\ stub_mutex = None
    /\ resp = [t \in Threads |-> DefaultItem]
    /\ status = [t \in Threads |-> "none"]
    /\ wire = [t \in Threads |-> <<>>]
    /\ visited = [t \in Threads |-> {}]
    /\ item = [t \in Threads |-> DefaultItem]
    /\ out = [t \in Threads |-> DefaultItem]
    /\ outs = [t \in Threads |-> <<>>]
    /\ result = [t \in Threads |-> "none"]
    /\ seen = [t \in Threads |-> {}]
    /\ effects = [t \in Threads |-> 0]

Goto(t, l) == pc' = [pc EXCEPT ![t] = l]

-----------------------------------------------------------------------------
(* The caller.                                                             *)

Invoke(t) ==
    /\ pc[t] = "idle"
    /\ \E c \in Calls : call' = [call EXCEPT ![t] = c]
    /\ seen' = [seen EXCEPT ![t] = {db}]
    /\ Goto(t, "lock")
    /\ UNCHANGED <<db, filters, changes, stub_mutex, resp, status, streamVars, outVars, effects>>

(* The caller takes its answer and drops its buffers.                      *)
Collect(t) ==
    /\ pc[t] = "done"
    /\ Goto(t, "idle")
    /\ call' = [call EXCEPT ![t] = NoCall]
    /\ resp' = [resp EXCEPT ![t] = DefaultItem]
    /\ status' = [status EXCEPT ![t] = "none"]
    /\ wire' = [wire EXCEPT ![t] = <<>>]
    /\ visited' = [visited EXCEPT ![t] = {}]
    /\ item' = [item EXCEPT ![t] = DefaultItem]
    /\ out' = [out EXCEPT ![t] = DefaultItem]
    /\ outs' = [outs EXCEPT ![t] = <<>>]
    /\ result' = [result EXCEPT ![t] = "none"]
    /\ seen' = [seen EXCEPT ![t] = {}]
    /\ effects' = [effects EXCEPT ![t] = 0]
    /\ UNCHANGED <<db, filters, changes, stub_mutex>>

(* Slip: the RPC is issued without the mutex.                              *)
SendUnlocked(t) ==
    /\ pc[t] = "lock"
    /\ stub_mutex' = t
    /\ Goto(t, IF call[t].op \in Unary THEN "sent" ELSE "reading")
    /\ UNCHANGED <<serverVars, call, resp, status, streamVars, outVars, effects>>

(* std::lock_guard on stub_mutex, then the stub sends the request.         *)
LockAndSend(t) ==
    /\ pc[t] = "lock"
    /\ stub_mutex = None
    /\ stub_mutex' = t
    /\ Goto(t, IF call[t].op \in Unary THEN "sent" ELSE "reading")
    /\ UNCHANGED <<serverVars, call, resp, status, streamVars, outVars, effects>>

(* The guard's destructor runs on every return.                            *)
Return(t, r) ==
    /\ result' = [result EXCEPT ![t] = IF r THEN "true" ELSE "false"]
    /\ stub_mutex' = None
    /\ Goto(t, "done")

-----------------------------------------------------------------------------
(* The server and the network.                                             *)

Record == seen' = [t \in Threads |-> IF pc[t] = "idle" THEN {} ELSE seen[t] \cup {db'}]

OtherClient ==
    /\ changes < MaxChanges
    /\ changes' = changes + 1
    /\ \/ \E it \in Items : db' = (db \ Named(db, it.name)) \cup {it}
       \/ \E it \in db : db' = db \ {it}
    /\ Record
    /\ UNCHANGED <<filters, pc, call, stub_mutex, resp, status, streamVars, outVars, effects>>

(* The server carries out a unary call and answers OK.                     *)
ServerApply(t) ==
    /\ pc[t] = "sent"
    /\ status[t] = "none"
    /\ \E reply \in Items \cup {DefaultItem} :
           /\ Carries(call[t], db, db', reply)
           /\ resp' = [resp EXCEPT ![t] = reply]
    /\ Record
    /\ effects' = [effects EXCEPT ![t] = @ + 1]
    /\ status' = [status EXCEPT ![t] = "ok"]
    /\ UNCHANGED <<filters, changes, pc, call, stub_mutex, streamVars, outVars>>

(* The server refuses the call, or the connection breaks before or after   *)
(* it did its work.  The answer to a unary call may have been read before  *)
(* the status turns out not to be OK, and is then in the reply all the     *)
(* same; what a broken stream had not delivered is lost.                   *)
RpcError(t) ==
    /\ pc[t] \in {"sent", "reading", "finish"}
    /\ status[t] # "error"
    /\ status' = [status EXCEPT ![t] = "error"]
    /\ \E r \in {resp[t], DefaultItem} : resp' = [resp EXCEPT ![t] = r]
    /\ \E n \in 0..Len(wire[t]) : wire' = [wire EXCEPT ![t] = SubSeq(@, 1, n)]
    /\ UNCHANGED <<serverVars, pc, call, stub_mutex, visited, item, outVars, effects>>

(* The server streams its items in an order of its own.                    *)
ServerStream(t) ==
    /\ pc[t] \in {"reading", "finish"}
    /\ status[t] = "none"
    /\ \E n \in Names \ visited[t] :
           /\ visited' = [visited EXCEPT ![t] = @ \cup {n}]
           /\ \/ \E it \in Named(db, n) :
                     /\ filters => Matches(it, call[t])
                     /\ wire' = [wire EXCEPT ![t] = Append(@, it)]
              \/ /\ \A it \in Named(db, n) : ~Matches(it, call[t])
                 /\ UNCHANGED wire
    /\ UNCHANGED <<serverVars, pc, call, stub_mutex, resp, status, item, outVars, effects>>

(* "When the 'watch' flag is not set, the stream will close after all      *)
(* current items matching the request have been sent."                     *)
ServerClose(t) ==
    /\ pc[t] \in {"reading", "finish"}
    /\ status[t] = "none"
    /\ visited[t] = Names
    /\ status' = [status EXCEPT ![t] = "ok"]
    /\ UNCHANGED <<serverVars, pc, call, stub_mutex, resp, streamVars, outVars, effects>>

-----------------------------------------------------------------------------
(* Slips that the properties below would catch; no part of the             *)
(* specification.                                                          *)

(* CreateV1 does not look at the status.                                   *)
CreateIgnoresStatus(t) ==
    /\ pc[t] = "sent" /\ call[t].op = "create" /\ status[t] # "none"
    /\ out' = [out EXCEPT ![t] = ContentAs(resp[t], call[t].type)]
    /\ Return(t, TRUE)
    /\ UNCHANGED <<serverVars, call, resp, status, streamVars, outs, effects>>

(* UpdateV1 answers with the request when the RPC failed.                  *)
UpdateShowsRequest(t) ==
    /\ pc[t] = "sent" /\ call[t].op = "update" /\ status[t] # "none"
    /\ out' = [out EXCEPT ![t] = IF status[t] = "ok" THEN resp[t] ELSE
                   [type |-> call[t].type, name |-> call[t].name, val |-> call[t].val]]
    /\ Return(t, status[t] = "ok")
    /\ UNCHANGED <<serverVars, call, resp, status, streamVars, outs, effects>>

(* A list keeps an item of another type, as its accessor shows it.         *)
ListKeepsAll(t) ==
    /\ pc[t] = "reading" /\ call[t].op = "list" /\ wire[t] # <<>>
    /\ item' = [item EXCEPT ![t] = Head(wire[t])]
    /\ wire' = [wire EXCEPT ![t] = Tail(@)]
    /\ outs' = [outs EXCEPT ![t] = Append(@, ContentAs(item'[t], call[t].type))]
    /\ UNCHANGED <<serverVars, pc, call, stub_mutex, resp, status, visited, out, result, effects>>

(* The read of a name does not compare names.                              *)
FinishUnchecked(t) ==
    /\ pc[t] = "finish" /\ call[t].op = "get" /\ status[t] # "none"
    /\ Return(t, status[t] = "ok")
    /\ UNCHANGED <<serverVars, call, resp, status, streamVars, out, outs, effects>>

(* The read of a name returns with the mutex when the RPC failed.          *)
FinishKeepsMutex(t) ==
    /\ pc[t] = "finish" /\ call[t].op = "get" /\ status[t] # "none"
    /\ result' = [result EXCEPT ![t] = "false"]
    /\ stub_mutex' = IF status[t] = "ok" THEN None ELSE stub_mutex
    /\ Goto(t, "done")
    /\ UNCHANGED <<serverVars, call, resp, status, streamVars, out, outs, effects>>

-----------------------------------------------------------------------------
(* The client's side of each RPC.                                          *)

(* The typed CreateV1 assign item_p on either outcome.                     *)
CreateV1(t) ==
    /\ pc[t] = "sent" /\ call[t].op = "create" /\ status[t] # "none"
    /\ out' = [out EXCEPT ![t] = ContentAs(resp[t], call[t].type)]
    /\ Return(t, status[t] = "ok")
    /\ UNCHANGED <<serverVars, call, resp, status, streamVars, outs, effects>>

(* The typed UpdateV1 leave the reply alone when the RPC failed; in the    *)
(* one for an Item it is the stub's own.                                   *)
UpdateV1(t) ==
    /\ pc[t] = "sent" /\ call[t].op = "update" /\ status[t] # "none"
    /\ \/ out' = [out EXCEPT ![t] = ContentAs(resp[t], call[t].type)]
       \/ status[t] = "error" /\ UNCHANGED out
    /\ Return(t, status[t] = "ok")
    /\ UNCHANGED <<serverVars, call, resp, status, streamVars, outs, effects>>

DeleteV1(t) ==
    /\ pc[t] = "sent" /\ call[t].op = "delete" /\ status[t] # "none"
    /\ Return(t, status[t] = "ok")
    /\ UNCHANGED <<serverVars, call, resp, status, streamVars, out, outs, effects>>

(* LookupV1 has the stub write into the caller's reply.                    *)
LookupV1(t) ==
    /\ pc[t] = "sent" /\ call[t].op = "lookup" /\ status[t] # "none"
    /\ out' = [out EXCEPT ![t] = resp[t]]
    /\ Return(t, status[t] = "ok")
    /\ UNCHANGED <<serverVars, call, resp, status, streamVars, outs, effects>>

(* while (reader->Read(&item)): a read of a name stops at the first item   *)
(* of its type, whatever the item's name; a list keeps all of its type.    *)
ReadNamed(t) ==
    /\ pc[t] = "reading" /\ call[t].op = "get" /\ wire[t] # <<>>
    /\ item' = [item EXCEPT ![t] = Head(wire[t])]
    /\ wire' = [wire EXCEPT ![t] = Tail(@)]
    /\ \/ /\ item'[t].type = call[t].type
          /\ out' = [out EXCEPT ![t] = item'[t]]
          /\ Goto(t, "finish")
       \/ /\ item'[t].type # call[t].type
          /\ UNCHANGED <<out, pc>>
    /\ UNCHANGED <<serverVars, call, stub_mutex, resp, status, visited, outs, result, effects>>

ReadList(t) ==
    /\ pc[t] = "reading" /\ call[t].op = "list" /\ wire[t] # <<>>
    /\ item' = [item EXCEPT ![t] = Head(wire[t])]
    /\ wire' = [wire EXCEPT ![t] = Tail(@)]
    /\ IF item'[t].type = call[t].type
       THEN outs' = [outs EXCEPT ![t] = Append(@, item'[t])]
       ELSE UNCHANGED outs
    /\ UNCHANGED <<serverVars, pc, call, stub_mutex, resp, status, visited, out, result, effects>>

(* Read returns false when the stream has ended and is empty.              *)
ReadEnd(t) ==
    /\ pc[t] = "reading" /\ wire[t] = <<>> /\ status[t] # "none"
    /\ Goto(t, "finish")
    /\ UNCHANGED <<serverVars, call, stub_mutex, resp, status, streamVars, outVars, effects>>

(* Finish() waits for the status; with items left unread on the wire it    *)
(* may wait for ever.                                                      *)
FinishNamed(t) ==
    /\ pc[t] = "finish" /\ call[t].op = "get" /\ status[t] # "none"
    /\ Return(t, /\ status[t] = "ok"
                 /\ NameAs(item[t], call[t].type) = call[t].name)
    /\ UNCHANGED <<serverVars, call, resp, status, streamVars, out, outs, effects>>

FinishList(t) ==
    /\ pc[t] = "finish" /\ call[t].op = "list" /\ status[t] # "none"
    /\ Return(t, status[t] = "ok")
    /\ UNCHANGED <<serverVars, call, resp, status, streamVars, out, outs, effects>>

(* ReadV1 of a name and ReadV1 of a list of a type.                        *)
ReadV1Name(t) == ReadNamed(t) \/ FinishNamed(t)
ReadV1List(t) == ReadList(t) \/ FinishList(t)

Client(t) ==
    \/ LockAndSend(t)
    \/ CreateV1(t) \/ UpdateV1(t) \/ DeleteV1(t) \/ LookupV1(t)
    \/ ReadV1Name(t) \/ ReadV1List(t) \/ ReadEnd(t)

Server(t) == ServerApply(t) \/ RpcError(t) \/ ServerStream(t) \/ ServerClose(t)

Next == \/ \E t \in Threads : Invoke(t) \/ Collect(t) \/ Client(t) \/ Server(t)
        \/ OtherClient

Spec == Init /\ [][Next]_vars

(* A read of a name has stopped at an item of its type with others behind  *)
(* it; gRPC promises that Finish returns once all messages have been read. *)
LeavesUnread(t) == pc[t] = "finish" /\ wire[t] # <<>>

(* Running calls are scheduled, the server goes on answering, and the      *)
(* mutex is not withheld from one waiter forever.                          *)
Fairness ==
    \A t \in Threads :
        /\ SF_vars(LockAndSend(t))
        /\ WF_vars(Client(t) /\ pc[t] # "lock" /\ ~LeavesUnread(t))
        /\ WF_vars(Server(t))

FairSpec == Spec /\ Fairness

-----------------------------------------------------------------------------
InFlight == {"sent", "reading", "finish"}

(* The types of the variables; resp and out may be the default message.    *)
TypeOK ==
    /\ db \in Databases
    /\ filters \in BOOLEAN
    /\ changes \in 0..MaxChanges
    /\ pc \in [Threads -> {"idle", "lock", "done"} \cup InFlight]
    /\ call \in [Threads -> Calls \cup {NoCall}]
    /\ stub_mutex \in Threads \cup {None}
    /\ resp \in [Threads -> Items \cup {DefaultItem}]
    /\ status \in [Threads -> {"none", "ok", "error"}]
    /\ wire \in [Threads -> Seq(Items)]
    /\ visited \in [Threads -> SUBSET Names]
    /\ item \in [Threads -> Items \cup {DefaultItem}]
    /\ out \in [Threads -> Items \cup {DefaultItem}]
    /\ outs \in [Threads -> Seq(Items)]
    /\ result \in [Threads -> {"none", "true", "false"}]
    /\ seen \in [Threads -> SUBSET Databases]
    /\ effects \in [Threads -> 0..1]

Finished(t, op, r) == pc[t] = "done" /\ call[t].op = op /\ result[t] = r

(* What upsf_get_X makes of a ReadV1 that returns true: a reply with an    *)
(* empty name counts as not found.                                         *)
Found(t) == result[t] = "true" /\ (call[t].op = "get" => out[t].name # EmptyName)

(* A ReadV1 that returns true has put the item of that name and type into  *)
(* the reply, as the server held it during the call.  A read of the empty  *)
(* name returns true when it has read nothing: only a caller that looks at *)
(* the name in the reply, as upsf_get_X does, is safe from it.             *)
GetSound ==
    \A t \in Threads :
        Finished(t, "get", "true") /\ (call[t].name # EmptyName \/ Found(t)) =>
            \E d \in seen[t] : out[t] \in Wanted(d, call[t])

(* A ReadV1 of a name that returns false without an RPC failure: at some   *)
(* moment of the call the server had no such item.                         *)
GetComplete ==
    filters =>
        \A t \in Threads :
            Finished(t, "get", "false") /\ status[t] = "ok" =>
                \E d \in seen[t] : Wanted(d, call[t]) = {}

(* A list that returns true holds every item of the type that existed all  *)
(* through the call, and nothing of another type or that never existed.    *)
ListFaithful ==
    \A t \in Threads : Finished(t, "list", "true") =>
        LET got == {outs[t][i] : i \in DOMAIN outs[t]}
        IN /\ got \subseteq UNION {Wanted(d, call[t]) : d \in seen[t]}
           /\ \A it \in Items :
                  (\A d \in seen[t] : it \in Wanted(d, call[t])) => it \in got

(* CreateV1, UpdateV1 and DeleteV1 return true only when the server did    *)
(* carry out this very request, once, and the reply is what it stored.     *)
OutcomeKnown ==
    \A t \in Threads : \A op \in {"create", "update", "delete"} :
        Finished(t, op, "true") =>
            /\ effects[t] = 1
            /\ op # "delete" => \E d \in seen[t] : out[t] \in Named(d, call[t].name)

(* What a call leaves in its caller's reply or vector.                     *)
Shown(t) == ({out[t]} \ {DefaultItem}) \cup ToSet(outs[t])

(* A call may return false with something in the reply: the answer was     *)
(* read before the RPC failed, a read met an item of another name, a list  *)
(* broke off.  But whatever a caller finds there, after true or false, is  *)
(* an item of the type asked for that the server held during the call; and *)
(* after a create or an update it is what was sent, and the server has     *)
(* carried the request out.                                                *)
ShownWasStored ==
    \A t \in Threads : pc[t] = "done" =>
        /\ Shown(t) \subseteq OfType(UNION seen[t], call[t])
        /\ call[t].op \in {"create", "update"} /\ Shown(t) # {} =>
               effects[t] = 1 /\ Shown(t) = {Requested(call[t])}

(* Threads that share a client never have two RPCs under way on its stub.  *)
OneRpcPerStub ==
    \A t, u \in Threads : pc[t] \in InFlight /\ pc[u] \in InFlight => t = u

(* Every call comes back, on every outcome of its RPC, if the server sends *)
(* no item that was not asked for: a read of a name leaves what follows    *)
(* the first item of its type unread, and Finish may then wait for ever    *)
(* with stub_mutex held.                                                   *)
CallsReturn == \A t \in Threads : filters /\ pc[t] = "lock" ~> pc[t] = "done"

-----------------------------------------------------------------------------
(* What a call knows at every moment, the inductive invariant from which   *)
(* the properties above and the refinement below follow.                   *)

(* The items some state of the server held during the call.                *)
Seen(t) == UNION seen[t]

(* A thread is inside an RPC exactly while it holds the mutex.             *)
MutexHeld == \A t \in Threads : pc[t] \in InFlight <=> stub_mutex = t

(* The call fits the place the thread is at; seen has the server's state.  *)
CallFits(t) ==
    /\ pc[t] # "idle" => call[t] \in Calls /\ db \in seen[t]
    /\ pc[t] = "sent" => call[t].op \in Unary
    /\ pc[t] \in {"reading", "finish"} => call[t].op \notin Unary

(* Nothing of an earlier call is left when the next one begins.            *)
Fresh(t) ==
    pc[t] \in {"idle", "lock"} =>
        /\ resp[t] = DefaultItem /\ status[t] = "none"
        /\ wire[t] = <<>> /\ visited[t] = {} /\ item[t] = DefaultItem
        /\ out[t] = DefaultItem /\ outs[t] = <<>> /\ result[t] = "none"
        /\ effects[t] = 0

(* The server's answer to a unary call that it has carried out.            *)
Reply(t) ==
    IF call[t].op = "delete" THEN resp[t] = DefaultItem
    ELSE /\ resp[t] \in Seen(t) /\ resp[t].type = call[t].type
         /\ call[t].op # "lookup" => resp[t] = Requested(call[t])

UnaryCall(t) ==
    pc[t] \in {"sent", "done"} /\ call[t].op \in Unary =>
        /\ wire[t] = <<>> /\ outs[t] = <<>>
        /\ status[t] = "none" => effects[t] = 0 /\ resp[t] = DefaultItem
        /\ status[t] = "ok" \/ resp[t] # DefaultItem => effects[t] = 1 /\ Reply(t)
        /\ IF pc[t] = "sent"
           THEN out[t] = DefaultItem /\ result[t] = "none"
           ELSE /\ status[t] # "none"
                /\ \/ out[t] = resp[t]
                   \/ call[t].op = "update" /\ status[t] = "error" /\ out[t] = DefaultItem
                /\ result[t] = IF status[t] = "ok" THEN "true" ELSE "false"

Reading(t) == pc[t] \in {"reading", "finish", "done"} /\ call[t].op \notin Unary

(* What is on the wire was at the server during the call, comes from names *)
(* the server has come by, and from each of them once.                     *)
OnTheWire(t) ==
    Reading(t) =>
        /\ resp[t] = DefaultItem
        /\ status[t] = "ok" => visited[t] = Names
        /\ \A i \in 1..Len(wire[t]) :
               /\ wire[t][i] \in Seen(t)
               /\ wire[t][i].name \in visited[t]
               /\ filters => Matches(wire[t][i], call[t])
               /\ \A j \in 1..Len(wire[t]) : wire[t][j].name = wire[t][i].name => i = j

(* A read of a name has an item of its type, and then the reply is that    *)
(* item, or has seen the whole stream go by without one.                   *)
GetCall(t) ==
    Reading(t) /\ call[t].op = "get" =>
        /\ outs[t] = <<>>
        /\ \/ /\ out[t] = DefaultItem
              /\ item[t].type # call[t].type
              /\ pc[t] # "reading" => wire[t] = <<>> /\ status[t] # "none"
           \/ /\ pc[t] # "reading"
              /\ out[t] = item[t] /\ out[t].type = call[t].type
              /\ out[t] \in Seen(t) /\ out[t].name \in visited[t]
              /\ filters => Matches(out[t], call[t])
              /\ \A i \in 1..Len(wire[t]) : wire[t][i].name # out[t].name
        /\ IF pc[t] = "done"
           THEN /\ status[t] # "none"
                /\ result[t] = IF /\ status[t] = "ok"
                                  /\ NameAs(item[t], call[t].type) = call[t].name
                               THEN "true" ELSE "false"
           ELSE result[t] = "none"

(* It has not passed over the item of that name, if it gets no others.     *)
GetMissesNothing(t) ==
    Reading(t) /\ call[t].op = "get" /\ filters /\ status[t] # "error"
      /\ call[t].name \in visited[t] =>
        \/ \E d \in seen[t] : Wanted(d, call[t]) = {}
        \/ wire[t] # <<>>
        \/ out[t] # DefaultItem

ListCall(t) ==
    Reading(t) /\ call[t].op = "list" =>
        /\ out[t] = DefaultItem
        /\ ToSet(outs[t]) \subseteq Wanted(Seen(t), call[t])
        /\ pc[t] # "reading" => wire[t] = <<>> /\ status[t] # "none"
        /\ result[t] = IF pc[t] # "done" THEN "none"
                       ELSE IF status[t] = "ok" THEN "true" ELSE "false"

(* A list has not passed over an item that was there all the time.         *)
ListMissesNothing(t) ==
    Reading(t) /\ call[t].op = "list" /\ status[t] # "error" =>
        \A it \in Items :
            it.name \in visited[t] /\ (\A d \in seen[t] : it \in Wanted(d, call[t])) =>
                it \in ToSet(wire[t]) \cup ToSet(outs[t])

CallInv(t) ==
    /\ CallFits(t) /\ Fresh(t) /\ UnaryCall(t)
    /\ OnTheWire(t) /\ GetCall(t) /\ GetMissesNothing(t)
    /\ ListCall(t) /\ ListMissesNothing(t)

(* A call knows what it may rely on, at each of its steps and whatever     *)
(* other threads, other clients and the network do.                        *)
ClientInv == TypeOK /\ MutexHeld /\ \A t \in Threads : CallInv(t)

-----------------------------------------------------------------------------
(* The client implements UpsfStore.                                        *)

phaseBar(t) ==
    IF pc[t] = "idle" THEN "idle"
    ELSE IF pc[t] = "done" THEN "answered"
    ELSE IF status[t] = "error" THEN "failed" ELSE "called"

doneBar(t) ==
    IF phaseBar(t) # "called" THEN {}
    ELSE IF call[t].op \notin Unary THEN visited[t]
    ELSE IF status[t] = "ok" THEN Names ELSE {}

(* What a read has got is on the wire, or where the client has put it.     *)
gotBar(t) ==
    IF phaseBar(t) \notin {"called", "failed"} THEN {}
    ELSE IF call[t].op \in Unary THEN {resp[t]} \ {DefaultItem}
    ELSE OfType(ToSet(wire[t]) \cup {out[t]} \cup ToSet(outs[t]), call[t])

(* The caller is answered with the result and with all that is in its      *)
(* reply and its vector, whatever the result.                              *)
ansBar(t) ==
    IF pc[t] = "done" THEN [ok |-> Found(t), shows |-> Shown(t)]
    ELSE [ok |-> FALSE, shows |-> {}]

Store == INSTANCE UpsfStore WITH
             phase <- [t \in Threads |-> phaseBar(t)],
             done <- [t \in Threads |-> doneBar(t)],
             got <- [t \in Threads |-> gotBar(t)],
             ans <- [t \in Threads |-> ansBar(t)]

(* Whatever thread, stream and error path a call goes through, its caller  *)
(* sees a request carried out at one moment and at most once, or a read    *)
(* that came by every name once; and what a failure leaves in its reply is *)
(* part of what the call had got.                                          *)
StoreSpec == Store!Spec
=============================================================================
