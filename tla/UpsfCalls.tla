------------------------------ MODULE UpsfCalls ------------------------------
(***************************************************************************)
(* The items of the UPSF as its clients see them, and the calls of class   *)
(* UpsfClient (upsf.hpp).                                                  *)
(***************************************************************************)
EXTENDS Naturals, Sequences, FiniteSets

CONSTANTS
    Threads, ItemTypes, Names, Vals,
    EmptyName,      \* the empty string, which names no item
    None            \* no thread, no type, no value

ASSUME NoneAssumption ==
    /\ None \notin Threads \cup ItemTypes \cup Vals
    /\ EmptyName \notin Names

Items == [type : ItemTypes, name : Names, val : Vals]

(* An Item whose oneof is not set.                                         *)
DefaultItem == [type |-> None, name |-> EmptyName, val |-> None]

Named(d, n) == {it \in d : it.name = n}
UniqueNames(d) == \A it1, it2 \in d : it1.name = it2.name => it1 = it2
Databases == {d \in SUBSET Items : UniqueNames(d)}

Unary == {"create", "update", "delete", "lookup"}
NoCall == [op |-> "none", type |-> None, name |-> EmptyName, val |-> None]

(* Every call a caller can make: get also with a name no item has.         *)
Calls ==
    [op : {"create", "update"}, type : ItemTypes, name : Names, val : Vals]
      \cup [op : {"delete"}, type : {None}, name : Names, val : {None}]
      \cup [op : {"lookup", "list"}, type : ItemTypes, name : {EmptyName}, val : {None}]
      \cup [op : {"get"}, type : ItemTypes, name : Names \cup {EmptyName}, val : {None}]

(* The item a create or an update sends.                                   *)
Requested(c) == [type |-> c.type, name |-> c.name, val |-> c.val]

(* The items a read asks for.                                              *)
Matches(it, c) == it.type = c.type /\ (c.op = "get" => it.name = c.name)
Wanted(d, c) == {it \in d : Matches(it, c)}
OfType(d, c) == {it \in d : it.type = c.type}

(* What the server does for a unary call, and what it answers.             *)
Carries(c, old, new, reply) ==
    \/ /\ c.op = "create"
       /\ Named(old, c.name) = {}
       /\ new = old \cup {Requested(c)}
       /\ reply = Requested(c)
    \/ /\ c.op = "update"
       /\ \E it \in Named(old, c.name) :
              it.type = c.type /\ new = (old \ {it}) \cup {Requested(c)}
       /\ reply = Requested(c)
    \/ /\ c.op = "delete"
       /\ Named(old, c.name) # {}
       /\ new = old \ Named(old, c.name)
       /\ reply = DefaultItem
    \/ /\ c.op = "lookup"
       /\ \E it \in old : it.type = c.type /\ reply = it
       /\ new = old
=============================================================================
