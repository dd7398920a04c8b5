------------------------------ MODULE UpsfTypes ------------------------------
(***************************************************************************)
(* The values an item can have: the messages of messages_v1.proto and the  *)
(* structures of upsf.h.                                                   *)
(*                                                                         *)
(* Where a message and its structure have the same fields there is one set *)
(* for both, with the parameters                                           *)
(*   T  the strings,                                                       *)
(*   N  the lengths a list may have,                                       *)
(*   M  the metadata,                                                      *)
(*   E  the endpoints.                                                     *)
(***************************************************************************)
EXTENDS UpsfMapping

CONSTANT Stems  \* what strings begin with

ASSUME StemsAssumption == {"", "0", "1"} \subseteq Stems

-----------------------------------------------------------------------------
(* Strings and lists.                                                      *)

(* A protobuf string has any length.                                       *)
Texts == {s \in [stem : Stems, length : Nat] : s.length = 0 => s = Empty}

(* Those that fit into a upsf_string_t together with their NUL.            *)
ShortTexts == {s \in Texts : s.length < UPSF_MAX_STRING_SIZE}

(* upsf_string_t: a string within its buffer, and its true length.         *)
CTexts == {c \in [str : ShortTexts, len : Nat] : c.len = c.str.length}

Lists(S, N) == {list \in Seq(S) : Len(list) \in N}

(* The lengths of an array and of a list that fits into one.               *)
Fitting == 0..UPSF_MAX_NUM

(* A protobuf map is a set of entries, no two of which have the same key.  *)
Maps(T, V, N) ==
    {map \in SUBSET [key : T, value : V] :
        /\ IsFiniteSet(map) /\ Cardinality(map) \in N
        /\ \A p, q \in map : p.key = q.key => p = q}

(* upsf_key_value_t.                                                       *)
CKeyValues == [key : CTexts, value : CTexts]

-----------------------------------------------------------------------------
(* Metadata and endpoints.                                                 *)

MetaDatas(T) == [description : T, derived_state : Int, times : {"set", NoTimes}]
CMetaDatas == [description : CTexts, derived_state : Int]

Vteps(T) == [ip_address : T, udp_port : Int, vni : Int]
L2vpns == [vpn_id : Int]
PortVlans(T) == [logical_port : T, svlan : Int, cvlan : Int]

Endpoints(T) ==
    [endpoint_name : T, transport : {"vtep"}, spec : Vteps(T)]
    \cup [endpoint_name : T, transport : {"l2vpn"}, spec : L2vpns]
    \cup [endpoint_name : T, transport : {"port_vlan"}, spec : PortVlans(T)]
    \cup [endpoint_name : T, transport : {"unset"}, spec : {Zero}]

CEndpoints ==
    [endpoint_name : CTexts, ep_type : {"vtep"}, ep_spec : Vteps(CTexts)]
    \cup [endpoint_name : CTexts, ep_type : {"l2vpn"}, ep_spec : L2vpns]
    \cup [endpoint_name : CTexts, ep_type : {"port_vlan"}, ep_spec : PortVlans(CTexts)]
    \cup [endpoint_name : CTexts, ep_type : {"unset"}, ep_spec : {Zero}]

-----------------------------------------------------------------------------
(* The items.                                                              *)

ServiceGateways(T, M) == [name : T, metadata : M]

UserPlanes(T, N, M, E) ==
    [name : T, metadata : M, service_gateway_name : T, maintenance_req : Int,
     spec : [max_session_count : Int, max_shards : Int,
             supported_service_group : Lists(T, N), default_endpoint : E],
     status : [allocated_session_count : Int, allocated_shards : Int]]

Steerings(T, M, E) == [name : T, metadata : M, spec : [default_endpoint : E]]

(* How many endpoints a spec has of user planes and of steering functions, *)
(* N where the proto has a list, depends on the member of the oneof.       *)
SgupLengths(kind, N) ==
    IF kind = "unset" THEN {0} ELSE IF kind \in {"ms_ptp", "ms_mptp"} THEN {1} ELSE N
TsfLengths(kind, N) ==
    IF kind = "unset" THEN {0} ELSE IF kind \in {"ss_ptp", "ms_ptp"} THEN {1} ELSE N

SpecKinds == {"ss_ptp", "ss_mptp", "ms_ptp", "ms_mptp"}

NCSpecs(E, N) ==
    {spec \in [maximum_supported_quality : Int, nc_spec : SpecKinds \cup {"unset"},
               sgup_endpoint : Seq(E), tsf_endpoint : Seq(E)] :
        /\ Len(spec.sgup_endpoint) \in SgupLengths(spec.nc_spec, N)
        /\ Len(spec.tsf_endpoint) \in TsfLengths(spec.nc_spec, N)}

CNCSpecs ==
    {spec \in [maximum_supported_quality : Int, nc_spec_type : SpecKinds,
               sgup_endpoint : Seq(CEndpoints), tsf_endpoint : Seq(CEndpoints)] :
        /\ Len(spec.sgup_endpoint) \in SgupLengths(spec.nc_spec_type, Fitting)
        /\ Len(spec.tsf_endpoint) \in TsfLengths(spec.nc_spec_type, Fitting)}

(* A is the set of maps, or of the arrays that stand for them.             *)
NetworkConnections(T, M, S, A) ==
    [name : T, metadata : M, maintenance_req : Int, spec : S,
     status : [nc_active : A, allocated_shards : Int]]

Shards(T, N, M, A) ==
    [name : T, metadata : M,
     spec : [max_session_count : Int, virtual_mac : T,
             desired_state : [service_gateway_user_plane : T, network_connection : Lists(T, N)],
             prefix : Lists(T, N)],
     status : [allocated_session_count : Int, maximum_allocated_quality : Int,
               service_groups_supported : Lists(T, N),
               current_state : [service_gateway_user_plane : T, tsf_network_connection : A]],
     mbb : [mbb_state : Int]]

SessionContexts(T, N, M) ==
    [name : T, metadata : M,
     spec : [traffic_steering_function : T, required_service_group : Lists(T, N),
             required_quality : Int, circuit_id : T, remote_id : T,
             session_filter : [source_mac_address : T, svlan : Int, cvlan : Int],
             desired_state : [shard : T], network_connection : T],
     status : [current_state : [user_plane_shard : T, tsf_shard : T]]]

(* The messages of a type with strings in T and lists of N entries.        *)
MessagesOf(ty, T, N) ==
    CASE ty = "sg"    -> ServiceGateways(T, MetaDatas(T))
      [] ty = "sgup"  -> UserPlanes(T, N, MetaDatas(T), Endpoints(T))
      [] ty = "tsf"   -> Steerings(T, MetaDatas(T), Endpoints(T))
      [] ty = "nc"    -> NetworkConnections(T, MetaDatas(T), NCSpecs(Endpoints(T), N),
                                            Maps(T, BOOLEAN, N))
      [] ty = "shard" -> Shards(T, N, MetaDatas(T), Maps(T, T, N))
      [] ty = "sctx"  -> SessionContexts(T, N, MetaDatas(T))

AnyMessage(ty) == MessagesOf(ty, Texts, Nat)

(* A message within the limits of upsf.h.                                  *)
FittingMessage(ty) == MessagesOf(ty, ShortTexts, Fitting)

(* The structures of a type, every array and string within its buffer.     *)
Structures(ty) ==
    CASE ty = "sg"    -> ServiceGateways(CTexts, CMetaDatas)
      [] ty = "sgup"  -> UserPlanes(CTexts, Fitting, CMetaDatas, CEndpoints)
      [] ty = "tsf"   -> Steerings(CTexts, CMetaDatas, CEndpoints)
      [] ty = "nc"    -> NetworkConnections(CTexts, CMetaDatas, CNCSpecs,
                                            Lists(CKeyValues, Fitting))
      [] ty = "shard" -> Shards(CTexts, Fitting, CMetaDatas, Lists(CKeyValues, Fitting))
      [] ty = "sctx"  -> SessionContexts(CTexts, Fitting, CMetaDatas)
=============================================================================
