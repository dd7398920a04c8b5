------------------------------ MODULE UpsfStore ------------------------------
(***************************************************************************)
(* What a caller may rely on when it calls the UPSF, whichever thread,     *)
(* stream and mutex the call goes through: a request is carried out at one *)
(* moment and at most once; a read comes by every name once, each at a     *)
(* moment of its own; any call may fail, carried out or not, and one that  *)
(* has failed may show some of what it had got, but nothing else.  A       *)
(* caller may go away at any point; what becomes of its request then is a  *)
(* change like any other.                                                  *)
(***************************************************************************)
EXTENDS UpsfCalls

VARIABLES
    db,       \* the items
    filters,  \* the server streams only items of the type and name asked for
    phase,    \* of each thread: idle, called, failed, answered
    call,     \* the call
    done,     \* the names it has dealt with
    got,      \* the items it has got
    ans       \* the answer: whether it succeeded, and the items it shows
vars == <<db, filters, phase, call, done, got, ans>>

NoAnswer == [ok |-> FALSE, shows |-> {}]

Init ==
    /\ db \in Databases
    /\ filters \in BOOLEAN
    /\ phase = [t \in Threads |-> "idle"]
    /\ call = [t \in Threads |-> NoCall]
    /\ done = [t \in Threads |-> {}]
    /\ got = [t \in Threads |-> {}]
    /\ ans = [t \in Threads |-> NoAnswer]

Enter(t, p) == phase' = [phase EXCEPT ![t] = p]

Forget(t) ==
    /\ done' = [done EXCEPT ![t] = {}]
    /\ got' = [got EXCEPT ![t] = {}]

Invoke(t) ==
    /\ phase[t] = "idle"
    /\ \E c \in Calls : call' = [call EXCEPT ![t] = c]
    /\ Enter(t, "called")
    /\ UNCHANGED <<db, filters, done, got, ans>>

(* Other clients change the items.                                         *)
Change ==
    /\ db' \in Databases
    /\ UNCHANGED <<filters, phase, call, done, got, ans>>

Apply(t) ==
    /\ phase[t] = "called" /\ call[t].op \in Unary /\ done[t] = {}
    /\ \E reply \in Items \cup {DefaultItem} :
           /\ Carries(call[t], db, db', reply)
           /\ got' = [got EXCEPT ![t] = {reply} \ {DefaultItem}]
    /\ done' = [done EXCEPT ![t] = Names]
    /\ UNCHANGED <<filters, phase, call, ans>>

(* A read comes by a name, and gets the item it asked for; from a server   *)
(* that does not filter also one of that type and another name.            *)
Observe(t, n) ==
    /\ phase[t] = "called" /\ call[t].op \notin Unary /\ n \notin done[t]
    /\ done' = [done EXCEPT ![t] = @ \cup {n}]
    /\ \E its \in {Wanted(Named(db, n), call[t])}
                     \cup (IF filters THEN {} ELSE {OfType(Named(db, n), call[t])}) :
           got' = [got EXCEPT ![t] = @ \cup its]
    /\ UNCHANGED <<db, filters, phase, call, ans>>

(* What a call has got may be lost with it, in whole or in part.           *)
Fail(t) ==
    /\ phase[t] = "called"
    /\ Enter(t, "failed")
    /\ done' = [done EXCEPT ![t] = {}]
    /\ \E kept \in SUBSET got[t] : got' = [got EXCEPT ![t] = kept]
    /\ UNCHANGED <<db, filters, call, ans>>

Answered(t, ok, shows) ==
    /\ ans' = [ans EXCEPT ![t] = [ok |-> ok, shows |-> shows]]
    /\ Enter(t, "answered")
    /\ Forget(t)
    /\ UNCHANGED <<db, filters, call>>

(* A call that succeeds shows what it was made for; a read of a name only  *)
(* succeeds if it got the item.                                            *)
Asked(t) == IF call[t].op = "get" THEN Wanted(got[t], call[t]) ELSE got[t]

Succeed(t) ==
    /\ phase[t] = "called" /\ done[t] = Names
    /\ call[t].op = "get" => Asked(t) # {}
    /\ Answered(t, TRUE, Asked(t))

(* A read of a name may miss the item only if the server sends items       *)
(* nobody asked for, and may then show one of those.                       *)
NotFound(t) ==
    /\ phase[t] = "called" /\ done[t] = Names
    /\ call[t].op = "get" /\ (filters => got[t] = {})
    /\ \E shows \in SUBSET (got[t] \ Asked(t)) : Answered(t, FALSE, shows)

GiveUp(t) ==
    /\ phase[t] = "failed"
    /\ \E shows \in SUBSET got[t] : Answered(t, FALSE, shows)

Return(t) ==
    /\ phase[t] = "answered"
    /\ Enter(t, "idle")
    /\ call' = [call EXCEPT ![t] = NoCall]
    /\ ans' = [ans EXCEPT ![t] = NoAnswer]
    /\ UNCHANGED <<db, filters, done, got>>

(* The caller's process ends, and its thread is another's.                 *)
Vanish(t) ==
    /\ Enter(t, "idle")
    /\ Forget(t)
    /\ call' = [call EXCEPT ![t] = NoCall]
    /\ ans' = [ans EXCEPT ![t] = NoAnswer]
    /\ UNCHANGED <<db, filters>>

Next ==
    \/ Change
    \/ \E t \in Threads :
           \/ Invoke(t) \/ Apply(t) \/ Fail(t) \/ Succeed(t) \/ NotFound(t) \/ GiveUp(t)
           \/ Return(t) \/ Vanish(t)
           \/ \E n \in Names : Observe(t, n)

Spec == Init /\ [][Next]_vars
=============================================================================
