-------------------------- MODULE ThreadConnections --------------------------
(***************************************************************************)
(* What the C API promises its callers (README, "A C based example"): each *)
(* thread has at most one connection of its own, a new thread has none,    *)
(* upsf_open gives it one, upsf_close takes it away, and every other call  *)
(* is served by it or fails.  Every call takes effect at one instant       *)
(* between its invocation and its return.  UpsfSlots implements this.      *)
(***************************************************************************)

CONSTANTS Threads, Addrs, None

VARIABLES
    conn,  \* the server each thread is connected to, or None
    st,    \* "exited", "idle", the name of the pending call, or "answered"
    arg,   \* the address a thread passed to upsf_open
    ret    \* the answer to a thread's last call

vars == <<conn, st, arg, ret>>

NoAnswer == [code |-> "none", server |-> None]
Failed   == [code |-> "failed", server |-> None]
Done(a)  == [code |-> "done", server |-> a]

Init ==
    /\ conn = [t \in Threads |-> None]
    /\ st = [t \in Threads |-> "exited"]
    /\ arg = [t \in Threads |-> None]
    /\ ret = [t \in Threads |-> NoAnswer]

Start(t) ==
    /\ st[t] = "exited"
    /\ st' = [st EXCEPT ![t] = "idle"]
    /\ conn' = [conn EXCEPT ![t] = None]
    /\ UNCHANGED <<arg, ret>>

Exit(t) ==
    /\ st[t] = "idle"
    /\ st' = [st EXCEPT ![t] = "exited"]
    /\ conn' = [conn EXCEPT ![t] = None]
    /\ ret' = [ret EXCEPT ![t] = NoAnswer]
    /\ UNCHANGED arg

Invoke(t) ==
    /\ st[t] = "idle"
    /\ \/ /\ st' = [st EXCEPT ![t] = "open"]
          /\ \E a \in Addrs : arg' = [arg EXCEPT ![t] = a]
       \/ /\ \E op \in {"close", "exists", "call"} : st' = [st EXCEPT ![t] = op]
          /\ UNCHANGED arg
    /\ ret' = [ret EXCEPT ![t] = NoAnswer]
    /\ UNCHANGED conn

Answer(t, op, r) ==
    /\ st[t] = op
    /\ st' = [st EXCEPT ![t] = "answered"]
    /\ ret' = [ret EXCEPT ![t] = r]
    /\ UNCHANGED arg

Open(t) ==
    /\ Answer(t, "open", Done(None))
    /\ conn' = [conn EXCEPT ![t] = IF @ = None THEN arg[t] ELSE @]

Close(t) ==
    /\ Answer(t, "close", IF conn[t] = None THEN Failed ELSE Done(None))
    /\ conn' = [conn EXCEPT ![t] = None]

Exists(t) ==
    /\ Answer(t, "exists", IF conn[t] = None THEN Failed ELSE Done(None))
    /\ UNCHANGED conn

(* The thread's own server answers, or the call fails.                     *)
Call(t) ==
    /\ \/ conn[t] # None /\ Answer(t, "call", Done(conn[t]))
       \/ Answer(t, "call", Failed)
    /\ UNCHANGED conn

Return(t) ==
    /\ st[t] = "answered"
    /\ st' = [st EXCEPT ![t] = "idle"]
    /\ UNCHANGED <<conn, arg, ret>>

Next == \E t \in Threads :
            \/ Start(t) \/ Exit(t) \/ Invoke(t) \/ Return(t)
            \/ Open(t) \/ Close(t) \/ Exists(t) \/ Call(t)

Spec == Init /\ [][Next]_vars
=============================================================================
