---------------------------- MODULE UpsfSubscriber ----------------------------
(***************************************************************************)
(* Subscriptions: class UpsfSubscriber and UpsfClient::ReadV1(subscriber)  *)
(* of upsf.hpp, and upsf_subscribe with its UpsfSubscriberWrapper of       *)
(* upsf_c_wrapper.cpp.  One subscriber reads a stream of items over a stub *)
(* of its own and hands each item to the notify method of its type, which  *)
(* in the C API runs the application's callback.                           *)
(*                                                                         *)
(* The server is external: it holds items that other clients change and    *)
(* delete, sends the items that match the request, and, when the request   *)
(* has watch set, every later change of them, until it closes the stream   *)
(* or the connection breaks.                                               *)
(***************************************************************************)
EXTENDS Naturals, Sequences, SequencesExt

CONSTANTS
    Names,           \* names of items
    ItemTypes,       \* the alternatives of the Item message
    Callbacks,       \* types whose notify does something (callback not null)
    NameFilter,      \* the subscriber's vector names, as a set
    Watch,           \* the values its flag watch may have when it is passed in
    SetsWatch,       \* notify may call set_watch (C++ subscribers only)
    ServerCloses,    \* the server may end a watched stream with status OK
    None,            \* no item
    MaxChanges       \* bound: changes to the server's items

ASSUME SubscriberAssumption ==
    /\ IsFiniteSet(Names)
    /\ Callbacks \subseteq ItemTypes
    /\ NameFilter \subseteq Names
    /\ Watch \subseteq BOOLEAN
    /\ {SetsWatch, ServerCloses} \subseteq BOOLEAN
    /\ MaxChanges \in Nat

DerivedStates == {"unknown", "inactive", "active", "updating", "deleting", "deleted"}

(* The item states the default constructor subscribes to.                  *)
derivedstates == {"unknown", "inactive", "active", "updating"}

Items == [name : Names, type : ItemTypes, state : DerivedStates, version : 0..MaxChanges]

VARIABLES
    db,        \* the server's items by name
    changes,   \* changes so far; the version of the latest
    stream,    \* "closed", or the server's end: "open", "ok", "error"
    watched,   \* the request's watch flag
    wire,      \* items sent that the subscriber has not read
    pc,        \* where ReadV1 stands
    finished,  \* Finish was called on the reader
    watch,     \* the subscriber's flag watch
    notified,  \* items handed to a notify method that takes them, in order
    sent       \* history: items the server has sent on the stream, in order
serverVars == <<db, changes, stream, watched, sent>>
vars == <<db, changes, stream, watched, wire, pc, finished, watch, notified, sent>>

Init ==
    /\ db \in [Names -> {None} \cup {it \in Items : it.version = 0 /\ it.state = "active"}]
    /\ \A n \in Names : db[n] # None => db[n].name = n
    /\ changes = 0
    /\ stream = "closed"
    /\ watched = FALSE
    /\ wire = <<>>
    /\ pc = "start"
    /\ finished = FALSE
    /\ watch \in Watch
    /\ notified = <<>>
    /\ sent = <<>>

Matches(it) ==
    /\ it.state \in derivedstates
    /\ NameFilter # {} => it.name \in NameFilter

-----------------------------------------------------------------------------
(* Slips that the properties below would catch; no part of the             *)
(* specification.                                                          *)

(* The item notified is the one before the item read, none at first.       *)
NotifyPrevious ==
    /\ pc = "read" /\ wire # <<>>
    /\ wire' = Tail(wire)
    /\ notified' = Append(notified, IF notified = <<>> THEN None ELSE Last(notified))
    /\ UNCHANGED <<serverVars, pc, finished, watch>>

(* Read is called in the loop's condition and again in its body.           *)
NotifyEverySecond ==
    /\ pc = "read" /\ wire # <<>>
    /\ wire' = IF Len(wire) > 1 THEN Tail(Tail(wire)) ELSE <<>>
    /\ notified' = notified \o
          SelectSeq(<<Head(wire)>>, LAMBDA it : it.type \in Callbacks)
    /\ UNCHANGED <<serverVars, pc, finished, watch>>

(* The inner loop looks at the subscriber's watch flag.                    *)
NotifyWhileWatching ==
    /\ pc = "read" /\ wire # <<>> /\ watch
    /\ wire' = Tail(wire)
    /\ notified' = notified \o
          SelectSeq(<<Head(wire)>>, LAMBDA it : it.type \in Callbacks)
    /\ watch' \in (IF SetsWatch THEN BOOLEAN ELSE {watch})
    /\ UNCHANGED <<serverVars, pc, finished>>

(* The loop goes round again whatever Finish returned.                     *)
FinishIgnoresStatus ==
    /\ pc = "finish"
    /\ finished' = TRUE
    /\ pc' = IF finished THEN "undefined" ELSE IF watch THEN "read" ELSE "true"
    /\ UNCHANGED <<serverVars, wire, watch, notified>>

(* The end of the stream is taken for the end of its items.                *)
ReadEndEarly ==
    /\ pc = "read"
    /\ stream \in {"ok", "error"}
    /\ pc' = "finish"
    /\ UNCHANGED <<serverVars, wire, finished, watch, notified>>

-----------------------------------------------------------------------------
(* ReadV1(subscriber): builds the request.  mutable_name(0) on the empty   *)
(* field addresses an element that does not exist: undefined behaviour.    *)
BuildRequest ==
    /\ pc = "start"
    /\ pc' = IF NameFilter = {} THEN "open" ELSE "undefined"
    /\ UNCHANGED <<serverVars, wire, finished, watch, notified>>

(* The stub sends it; the server answers with all current items that match.*)
OpenStream ==
    /\ pc = "open"
    /\ pc' = "read"
    /\ stream' = "open"
    /\ watched' = watch
    /\ \E s \in SetToSeqs({db[n] : n \in {m \in Names : db[m] # None /\ Matches(db[m])}}) :
           wire' = s /\ sent' = s
    /\ UNCHANGED <<db, changes, finished, watch, notified>>

(* while (reader->Read(&item)): the next item goes to the notify overload  *)
(* of its type, which may set the subscriber's flag either way with        *)
(* set_watch.  The return value of a C callback is dropped.                *)
Notify ==
    /\ pc = "read"
    /\ wire # <<>>
    /\ wire' = Tail(wire)
    /\ IF Head(wire).type \in Callbacks
       THEN /\ notified' = Append(notified, Head(wire))
            /\ watch' \in (IF SetsWatch THEN BOOLEAN ELSE {watch})
       ELSE UNCHANGED <<notified, watch>>
    /\ UNCHANGED <<serverVars, pc, finished>>

(* Read returns false once the stream has ended and is empty.              *)
ReadEnd ==
    /\ pc = "read"
    /\ wire = <<>>
    /\ stream \in {"ok", "error"}
    /\ pc' = "finish"
    /\ UNCHANGED <<serverVars, wire, finished, watch, notified>>

(* reader->Finish(), then the loop condition.  gRPC allows one Finish per  *)
(* reader; what a second one does is not defined.                          *)
Finish ==
    /\ pc = "finish"
    /\ finished' = TRUE
    /\ pc' = IF finished THEN "undefined"
             ELSE IF stream = "error" THEN "false"
             ELSE IF watch THEN "read" ELSE "true"
    /\ UNCHANGED <<serverVars, wire, watch, notified>>

-----------------------------------------------------------------------------
(* The server: other clients create, update and delete items; a deleted    *)
(* item is shown in state deleted for a while and then disappears.         *)

Change(n) ==
    /\ changes < MaxChanges
    /\ changes' = changes + 1
    /\ \E ty \in ItemTypes, st \in {"active", "updating", "deleted"} :
           /\ IF db[n] = None
              THEN st # "deleted"
              ELSE ty = db[n].type /\ db[n].state # "deleted"
           /\ LET it == [name |-> n, type |-> ty, state |-> st, version |-> changes + 1]
              IN /\ db' = [db EXCEPT ![n] = it]
                 /\ IF stream = "open" /\ watched /\ Matches(it)
                    THEN wire' = Append(wire, it) /\ sent' = Append(sent, it)
                    ELSE UNCHANGED <<wire, sent>>
    /\ UNCHANGED <<stream, watched, pc, finished, watch, notified>>

Purge(n) ==
    /\ db[n] # None
    /\ db[n].state = "deleted"
    /\ db' = [db EXCEPT ![n] = None]
    /\ UNCHANGED <<changes, stream, watched, sent, wire, pc, finished, watch, notified>>

(* Without watch the stream closes after all current items.                *)
CloseStream ==
    /\ stream = "open"
    /\ watched => ServerCloses
    /\ stream' = "ok"
    /\ UNCHANGED <<db, changes, watched, sent, wire, pc, finished, watch, notified>>

(* The connection breaks; items that were still under way are lost.        *)
BreakStream ==
    /\ stream = "open"
    /\ stream' = "error"
    /\ \E n \in 0..Len(wire) : wire' = SubSeq(wire, 1, n)
    /\ UNCHANGED <<db, changes, watched, sent, pc, finished, watch, notified>>

Subscriber == BuildRequest \/ OpenStream \/ Notify \/ ReadEnd \/ Finish
Server == CloseStream \/ BreakStream \/ \E n \in Names : Change(n) \/ Purge(n)

Next == Subscriber \/ Server

Spec == Init /\ [][Next]_vars

(* The subscribing thread is scheduled, and a stream the server owes an    *)
(* end gets one.  A watched stream may stay open forever.                  *)
FairSpec == Spec /\ WF_vars(Subscriber) /\ WF_vars(CloseStream /\ ~watched)

-----------------------------------------------------------------------------
(* The types of the variables.                                             *)
TypeOK ==
    /\ db \in [Names -> Items \cup {None}]
    /\ changes \in 0..MaxChanges
    /\ stream \in {"closed", "open", "ok", "error"}
    /\ {watched, finished, watch} \subseteq BOOLEAN
    /\ {wire, notified, sent} \subseteq Seq(Items)
    /\ pc \in {"start", "open", "read", "finish", "true", "false", "undefined"}

(* The items notified are those of the first k sent that have a notify     *)
(* method: at[i] is the place of the i-th.                                 *)
NotifiedUpTo(k) ==
    \E at \in [DOMAIN notified -> 1..k] :
        /\ \A i, j \in DOMAIN notified : i < j => at[i] < at[j]
        /\ \A i \in DOMAIN notified : notified[i] = sent[at[i]]
        /\ \A j \in 1..k :
               sent[j].type \in Callbacks <=> \E i \in DOMAIN notified : at[i] = j

(* The items read are the first k sent, those on the wire come next, and   *)
(* what is behind them was lost with the connection.                       *)
ReadUpTo(k) ==
    /\ k + Len(wire) <= Len(sent)
    /\ stream # "error" => k + Len(wire) = Len(sent)
    /\ \A i \in DOMAIN wire : wire[i] = sent[k + i]

(* Every item the server sent for which there is a notify method has been  *)
(* handed to it once and in the order of sending, or is still on the wire, *)
(* or was lost with the connection.                                        *)
NoneSkipped == \E k \in 0..Len(sent) : ReadUpTo(k) /\ NotifiedUpTo(k)

(* What the subscriber was last told of an item.                           *)
Known(n) ==
    LET i == SelectLastInSeq(notified, LAMBDA it : it.name = n)
    IN IF i = 0 THEN None ELSE notified[i]

(* A subscription that is not watching and returns true has reported every *)
(* item that matched and did not change while it ran.                      *)
SnapshotComplete ==
    pc = "true" => \A n \in Names :
        (/\ db[n] # None
         /\ db[n].version = 0
         /\ db[n].type \in Callbacks
         /\ Matches(db[n])) => Known(n) = db[n]

(* The subscriber's last report of every item in a state it asked for is   *)
(* the item as the server has it.                                          *)
UpToDate ==
    \A n \in Names :
        db[n] # None /\ db[n].type \in Callbacks /\ Matches(db[n]) => Known(n) = db[n]

(* A watching subscriber that has read all there is on its stream is up to *)
(* date, whatever changed while it read and whatever its notify did.       *)
CaughtUp == watched /\ stream = "open" /\ wire = <<>> => UpToDate

(* When items stop changing, a watching subscriber comes to know all that  *)
(* match, unless its stream ends.                                          *)
Ended == stream \in {"ok", "error"}
Converges ==
    changes = MaxChanges /\ stream = "open" /\ watched ~> UpToDate \/ Ended

(* upsf.hpp:74, "in all states": an item the application was told of and   *)
(* that has been deleted since is one it is told has been deleted.         *)
DeletionsReported ==
    \A n \in Names :
        [](Known(n) # None /\ db[n] # None /\ db[n].state = "deleted" =>
              <>((Known(n) # None /\ Known(n).state = "deleted") \/ Ended))

(* upsf.hpp:1003, "continue if watch == true": a watching subscriber whose *)
(* stream is ended by the server goes on with a reader it may use.         *)
ContinuesAfterClose == NameFilter = {} => pc # "undefined"

(* ReadV1 gives a reader it has finished with to Finish again only after a *)
(* stream that ended well and with its flag set at the end: a watched one  *)
(* that the server ended, or one not watched of which a notify set the     *)
(* flag with set_watch.  After an error it returns.                        *)
SecondFinish ==
    pc = "undefined" /\ NameFilter = {} =>
        stream = "ok" /\ watch /\ (watched \/ notified # <<>>)

(* README 619-620, "Vector of item names to watch": a subscriber may name  *)
(* the items it wants.                                                     *)
NamesCanBeGiven == NameFilter # {} => pc # "undefined"

-----------------------------------------------------------------------------
(* The inductive invariant from which the safety properties follow.        *)

NamesFit == \A n \in Names : db[n] # None => db[n].name = n

(* Nothing is under way before the stream is opened.                       *)
NothingYet == pc \in {"start", "open"} => stream = "closed" /\ sent = <<>> /\ notified = <<>>

(* The read loop is left when the stream has ended and nothing is on it.   *)
ReadAll ==
    /\ pc \in {"finish", "true"} => wire = <<>> /\ stream \in {"ok", "error"}
    /\ pc = "true" => stream = "ok"

(* The subscriber's flag is the request's unless a notify has set it.      *)
FlagKept ==
    /\ watched \/ (pc \in {"start", "open"} /\ watch) => TRUE \in Watch
    /\ stream # "closed" => (watch <=> watched) \/ (SetsWatch /\ notified # <<>>)

(* The loop goes round again with a reader on which Finish has been called *)
(* only if the stream has ended well and the flag is set.                  *)
OneReader ==
    /\ stream = "ok" /\ watched => ServerCloses
    /\ finished => pc \in {"true", "false"} \/ (stream = "ok" /\ wire = <<>> /\ watch)
    /\ pc = "undefined" => NameFilter # {} \/ finished

(* An item that has not changed was sent as it is, if it matches.          *)
SentAsIs ==
    \A n \in Names : db[n] # None /\ db[n].version = 0 =>
        /\ \A i \in DOMAIN sent : sent[i].name = n => sent[i] = db[n]
        /\ stream # "closed" /\ Matches(db[n]) => \E i \in DOMAIN sent : sent[i] = db[n]

(* On a watched stream that goes on, the last item sent of a name is the   *)
(* item as it is, if it matches.                                           *)
SentLast ==
    stream = "open" /\ watched => \A n \in Names : db[n] # None /\ Matches(db[n]) =>
        \E i \in DOMAIN sent : /\ sent[i] = db[n]
                              /\ \A j \in DOMAIN sent : sent[j].name = n => j <= i

SubscriberInv ==
    /\ TypeOK /\ NamesFit
    /\ NothingYet /\ ReadAll /\ FlagKept /\ OneReader
    /\ SentAsIs /\ SentLast /\ NoneSkipped
=============================================================================
