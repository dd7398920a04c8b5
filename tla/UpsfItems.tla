------------------------------ MODULE UpsfItems ------------------------------
(***************************************************************************)
(* Reading and changing one item through the C API: the data path of       *)
(* upsf_create_X, upsf_get_X, upsf_update_X and upsf_delete_X of           *)
(* upsf_c_wrapper.cpp, which map the caller's structure to a message, make *)
(* the RPC, and map the reply into the same structure.  Several callers    *)
(* work on the item; an RPC may fail with or without having been carried   *)
(* out.  The locks around these calls are the subject of UpsfSlots, the    *)
(* RPCs themselves of UpsfClient.                                          *)
(***************************************************************************)
EXTENDS UpsfTypes

CONSTANTS
    Callers,      \* application threads
    Messages(_),  \* the messages of a type the server may hold
    None,         \* no item, or a structure not filled yet
    MaxEdits      \* bound: changes callers make to their structures

ASSUME ItemsAssumption ==
    /\ \A t \in ItemTypes : Messages(t) \subseteq AnyMessage(t)
    /\ MaxEdits \in Nat

VARIABLES
    ty,      \* the type of the item
    stored,  \* the server's message, None when there is none
    buf,     \* each caller's structure
    base,    \* history: the reply a caller's structure was filled from
    touched, \* history: what the caller has changed in the structure since
    edits    \* changes callers have made
vars == <<ty, stored, buf, base, touched, edits>>

Init ==
    /\ ty \in ItemTypes
    /\ stored \in Messages(ty) \cup {None}
    /\ buf = [c \in Callers |-> None]
    /\ base = [c \in Callers |-> None]
    /\ touched = [c \in Callers |-> {}]
    /\ edits = 0

Filled(c) == buf[c] # None

(* The reply is mapped into the structure of the call.                     *)
Receive(c, m) ==
    /\ buf' = [buf EXCEPT ![c] = ToC(ty, m)]
    /\ base' = [base EXCEPT ![c] = m]
    /\ touched' = [touched EXCEPT ![c] = {}]

(* return nullptr before the reply is mapped: the structure is as it was.  *)
Fail == UNCHANGED <<buf, base, touched>>

-----------------------------------------------------------------------------
(* The server merges lists and maps as update_options say (service_v1.proto *)
(* UpdateReq) and takes everything else from the request.                  *)

(* Slip: update_options asks for lists to be replaced.                     *)
replace_strategy == "replace"

(* UpdateReq::UpdateOptions update_options: never assigned, so the default.*)
list_merge_strategy == "union"

(* Union adds what is not there yet, in an order the proto leaves open.    *)
MergeSeq(old, new) ==
    IF list_merge_strategy = "union" THEN old \o SetToSeq(ToSet(new) \ ToSet(old)) ELSE new

(* The request's entry counts where both have one of a key.                *)
MergeMap(old, new) ==
    IF list_merge_strategy = "union"
    THEN new \cup {p \in old : \A q \in new : q.key # p.key} ELSE new

(* The members of the oneof nc_spec with a list of endpoints of user       *)
(* planes, and those with one of endpoints of steering functions.          *)
ManySgups == {"ss_ptp", "ss_mptp"}
ManyTsfs  == {"ss_mptp", "ms_mptp"}

(* A spec of another kind takes the place of the one there was.            *)
MergeSpec(old, new) ==
    IF old.nc_spec # new.nc_spec THEN new
    ELSE [new EXCEPT
             !.sgup_endpoint =
                 IF new.nc_spec \in ManySgups THEN MergeSeq(old.sgup_endpoint, @) ELSE @,
             !.tsf_endpoint =
                 IF new.nc_spec \in ManyTsfs THEN MergeSeq(old.tsf_endpoint, @) ELSE @]

Merge(old, new) ==
    CASE ty \in {"sg", "tsf"} -> new
      [] ty = "sgup" ->
             [new EXCEPT !.spec.supported_service_group =
                             MergeSeq(old.spec.supported_service_group, @)]
      [] ty = "nc" ->
             [new EXCEPT !.spec = MergeSpec(old.spec, @),
                         !.status.nc_active = MergeMap(old.status.nc_active, @)]
      [] ty = "shard" ->
             [new EXCEPT
                 !.spec.desired_state.network_connection =
                     MergeSeq(old.spec.desired_state.network_connection, @),
                 !.spec.prefix = MergeSeq(old.spec.prefix, @),
                 !.status.service_groups_supported =
                     MergeSeq(old.status.service_groups_supported, @),
                 !.status.current_state.tsf_network_connection =
                     MergeMap(old.status.current_state.tsf_network_connection, @)]
      [] ty = "sctx" ->
             [new EXCEPT !.spec.required_service_group =
                             MergeSeq(old.spec.required_service_group, @)]

-----------------------------------------------------------------------------
(* The calls.                                                              *)

Create(c) ==
    /\ Filled(c)
    /\ \/ /\ stored = None
          /\ stored' = ToPb(ty, buf[c])
          /\ Receive(c, stored') \/ Fail
       \/ Fail /\ UNCHANGED stored
    /\ UNCHANGED <<ty, edits>>

Update(c) ==
    /\ Filled(c)
    /\ \/ /\ stored # None
          /\ PbString(buf[c].name) = stored.name
          /\ stored' = Merge(stored, ToPb(ty, buf[c]))
          /\ Receive(c, stored') \/ Fail
       \/ Fail /\ UNCHANGED stored
    /\ UNCHANGED <<ty, edits>>

(* The caller asks for the name it has put into its structure.  A reply    *)
(* with an empty name counts as not found.                                 *)
Get(c) ==
    /\ \/ /\ stored # None
          /\ stored.name # Empty
          /\ stored.name = CString(stored.name).str
          /\ Receive(c, stored)
       \/ Fail
    /\ UNCHANGED <<ty, stored, edits>>

Delete(c) ==
    /\ Filled(c)
    /\ \/ /\ stored # None
          /\ stored.name = PbString(buf[c].name)
          /\ stored' = None
       \/ UNCHANGED stored
    /\ Fail
    /\ UNCHANGED <<ty, edits>>

(* upsf_list_X and the callbacks of upsf_subscribe map every item, also    *)
(* one whose name is too long for upsf_get_X.                              *)
List(c) ==
    /\ stored # None
    /\ Receive(c, stored)
    /\ UNCHANGED <<ty, stored, edits>>

(* The application changes its structure: another description, or one      *)
(* element fewer in an array.                                              *)
SetDescription(c, s) == [buf[c] EXCEPT !.metadata.description = CString(s)]

Shorter(arr) == IF arr = <<>> THEN arr ELSE Front(arr)

DropEndpoint(spec) ==
    CASE spec.nc_spec_type \in ManySgups -> [spec EXCEPT !.sgup_endpoint = Shorter(@)]
      [] spec.nc_spec_type = "ms_mptp"   -> [spec EXCEPT !.tsf_endpoint = Shorter(@)]
      [] spec.nc_spec_type = "ms_ptp"    -> spec

DropLast(c) ==
    CASE ty \in {"sg", "tsf"} -> buf[c]
      [] ty = "sgup"  -> [buf[c] EXCEPT !.spec.supported_service_group = Shorter(@)]
      [] ty = "nc"    -> [buf[c] EXCEPT !.spec = DropEndpoint(@)]
      [] ty = "shard" -> [buf[c] EXCEPT !.spec.prefix = Shorter(@)]
      [] ty = "sctx"  -> [buf[c] EXCEPT !.spec.required_service_group = Shorter(@)]

Edit(c) ==
    /\ Filled(c)
    /\ edits < MaxEdits
    /\ edits' = edits + 1
    /\ \/ /\ buf' = [buf EXCEPT ![c] = SetDescription(c, Empty)]
          /\ touched' = [touched EXCEPT ![c] = @ \cup {"description"}]
       \/ /\ buf' = [buf EXCEPT ![c] = DropLast(c)]
          /\ touched' = [touched EXCEPT ![c] = @ \cup {"entries"}]
    /\ UNCHANGED <<ty, stored, base>>

Next == \E c \in Callers :
            Create(c) \/ Update(c) \/ Get(c) \/ Delete(c) \/ List(c) \/ Edit(c)

Spec == Init /\ [][Next]_vars

-----------------------------------------------------------------------------
(* The types of the variables.                                             *)
TypeOK ==
    /\ ty \in ItemTypes
    /\ stored # None => stored \in AnyMessage(ty)
    /\ DOMAIN buf = Callers /\ DOMAIN base = Callers
    /\ \A c \in Callers : Filled(c) => base[c] \in AnyMessage(ty)
    /\ touched \in [Callers -> SUBSET {"description", "entries"}]
    /\ edits \in 0..MaxEdits

(* Whatever the server holds and whatever a caller has changed since, a    *)
(* structure stays within its arrays, and every string in it ends with a   *)
(* NUL and has its true length.                                            *)
WithinBuffers == \A c \in Callers : Filled(c) => buf[c] \in Structures(ty)

Clean(c) == Filled(c) /\ touched[c] = {}

(* What a caller would send back without having touched its structure.     *)
Echo(c) == ToPb(ty, buf[c])

WithoutTimes(m) == [m EXCEPT !.metadata.times = NoTimes]

KeysOf(map) == {p.key : p \in map}

NamesEndpoint(spec) ==
    spec.nc_spec # "unset" /\ (spec.sgup_endpoint # <<>> \/ spec.tsf_endpoint # <<>>)

(* Two messages agree in all that survives the way through a structure.    *)
(* The timestamps do not; of a network connection neither does its status, *)
(* nor its spec unless that names an endpoint: there is no structure for a *)
(* spec without one.                                                       *)
SameItem(m1, m2) ==
    /\ WithoutTimes(IF ty = "nc" THEN [m1 EXCEPT !.spec = m2.spec, !.status = m2.status] ELSE m1)
           = WithoutTimes(m2)
    /\ ty = "nc" => /\ KeysOf(m1.status.nc_active) = KeysOf(m2.status.nc_active)
                    /\ NamesEndpoint(m2.spec) => m1.spec = m2.spec

(* A caller that updates an item it has read and not changed sends what it *)
(* received, if that is within the limits of upsf.h.                       *)
EchoFaithful ==
    \A c \in Callers :
        Clean(c) /\ base[c] \in FittingMessage(ty) => SameItem(Echo(c), base[c])

WithDescription(m, d) == [m EXCEPT !.metadata.description = d]

(* An update carries the whole structure and so overwrites what others     *)
(* have changed.  But if the caller read the item as it is now and changed *)
(* its description at most, the update changes nothing else, whatever the  *)
(* server merges.                                                          *)
FreshUpdateIsLocal ==
    [][\A c \in Callers :
           /\ Update(c) /\ stored' # stored
           /\ stored = base[c] /\ stored \in FittingMessage(ty)
           /\ touched[c] \subseteq {"description"}
           => SameItem(WithDescription(stored', stored.metadata.description), stored)]_vars

(* The entries of the lists of a message and the keys of its maps; the     *)
(* endpoints of a network connection are below.                            *)
EntriesOf(m) ==
    CASE ty \in {"sg", "tsf"} -> {}
      [] ty = "sgup"  -> ToSet(m.spec.supported_service_group)
      [] ty = "nc"    -> KeysOf(m.status.nc_active)
      [] ty = "shard" -> ToSet(m.spec.desired_state.network_connection)
                             \cup ToSet(m.spec.prefix)
                             \cup ToSet(m.status.service_groups_supported)
                             \cup KeysOf(m.status.current_state.tsf_network_connection)
      [] ty = "sctx"  -> ToSet(m.spec.required_service_group)

KeepsEndpoints(old, new) ==
    old.nc_spec = new.nc_spec =>
        /\ old.nc_spec \in ManySgups => ToSet(old.sgup_endpoint) \subseteq ToSet(new.sgup_endpoint)
        /\ old.nc_spec \in ManyTsfs => ToSet(old.tsf_endpoint) \subseteq ToSet(new.tsf_endpoint)

KeepsEntries(old, new) ==
    /\ EntriesOf(old) \subseteq EntriesOf(new)
    /\ ty = "nc" => KeepsEndpoints(old.spec, new.spec)

(* upsf_get_X cuts a list that is longer than its array, and the structure *)
(* goes back whole in the next update: yet no sequence of C calls takes an *)
(* entry out of a list or a map of an item that goes on existing, for they *)
(* never ask for another strategy than the union.  Not even an update from *)
(* a shorter array does, or one after a reading that another caller has    *)
(* overtaken; only one that gives a network connection a spec of another   *)
(* kind drops the endpoints of the old one.                                *)
UpdatesOnlyAdd ==
    [][stored # None /\ stored' # None => KeepsEntries(stored, stored')]_vars

(* README 109-114, "bidirectional mapping": the status of a network        *)
(* connection comes back as it was received.                               *)
StatusBidirectional ==
    \A c \in Callers : Clean(c) /\ ty = "nc" => Echo(c).status = base[c].status

-----------------------------------------------------------------------------
(* The inductive invariant from which the properties above follow.         *)

(* Until the caller takes entries away, its structure is the reply it was  *)
(* filled from, mapped, but for the description.                           *)
FilledFromReply ==
    \A c \in Callers : Filled(c) =>
        /\ touched[c] = {} => buf[c] = ToC(ty, base[c])
        /\ touched[c] \subseteq {"description"} =>
               buf[c] = WithDescription(ToC(ty, base[c]), buf[c].metadata.description)

ItemsInv == TypeOK /\ WithinBuffers /\ FilledFromReply
=============================================================================
