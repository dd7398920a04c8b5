----------------------------- MODULE UpsfMapping -----------------------------
(***************************************************************************)
(* The overloads of UpsfMapping::map (upsf_c_mapping.cpp), which turn      *)
(* protobuf messages into the C structures of upsf.h and back.             *)
(*                                                                         *)
(* A message is a record with the fields of messages_v1.proto, a C         *)
(* structure one with the fields of upsf.h.  Numbers are int32 on both     *)
(* sides.  A string is a stem and a length: what the code does to strings  *)
(* is cut them to the size of a buffer.  The oneof of a message and the    *)
(* tagged union of a structure are a tag and the member it selects.        *)
(***************************************************************************)
EXTENDS Integers, SequencesExt

CONSTANTS
    UPSF_MAX_STRING_SIZE,  \* upsf.h:48, 64 in the code
    UPSF_MAX_NUM           \* the array sizes of upsf.h:49-55, all 16 in the code

ASSUME SizesAssumption ==
    /\ UPSF_MAX_STRING_SIZE \in Nat \ {0}
    /\ UPSF_MAX_NUM \in Nat \ {0}

Lesser(a, b) == IF a < b THEN a ELSE b

-----------------------------------------------------------------------------
(* Strings, arrays and maps.                                               *)

Empty == [stem |-> "", length |-> 0]
Chars(s, n) == IF n = 0 THEN Empty ELSE [stem |-> s.stem, length |-> n]

(* Slip: strncpy of the size of the buffer, with no room for the NUL.      *)
CStringUnterminated(s) ==
    LET n == Lesser(s.length, UPSF_MAX_STRING_SIZE)
    IN [str |-> Chars(s, n), len |-> n]

(* strncpy of at most size - 1 bytes into zeroed memory, then strlen.      *)
CString(s) ==
    LET n == Lesser(s.length, UPSF_MAX_STRING_SIZE - 1)
    IN [str |-> Chars(s, n), len |-> n]

(* std::string(str): up to the NUL; the field len is not looked at.        *)
PbString(c) == c.str

(* A repeated field of strings: the first UPSF_MAX_NUM elements.           *)
CStrings(seq) ==
    [i \in 1..Lesser(Len(seq), UPSF_MAX_NUM) |-> CString(seq[i])]

PbStrings(arr) == [i \in DOMAIN arr |-> PbString(arr[i])]

(* A map field, a set of entries, in the order its iterator takes, which   *)
(* protobuf leaves open: an array of at most UPSF_MAX_NUM keys and values. *)
CPairs(map, CValue(_)) ==
    LET entries == SetToSeq(map)
    IN [i \in 1..Lesser(Len(entries), UPSF_MAX_NUM) |->
           [key |-> CString(entries[i].key), value |-> CValue(entries[i].value)]]

(* to[key] = value for every element: of equal keys the last one wins.     *)
PbMap(arr, PbValue(_)) ==
    LET key(i) == PbString(arr[i].key)
        last == {i \in DOMAIN arr : \A j \in DOMAIN arr : key(j) = key(i) => j <= i}
    IN {[key |-> key(i), value |-> PbValue(arr[i].value)] : i \in last}

-----------------------------------------------------------------------------
(* Metadata and maintenance, as every item's overload treats them: the     *)
(* timestamps created and last_updated have no place in the structure.     *)

NoTimes == "unset"

MetaDataToC(m) ==
    [description |-> CString(m.description), derived_state |-> m.derived_state]

(* Slip: the derived state is not sent.                                    *)
MetaDataWithoutState(c) ==
    [description |-> PbString(c.description), derived_state |-> 0, times |-> NoTimes]

MetaDataToPb(c) ==
    [description |-> PbString(c.description),
     derived_state |-> c.derived_state,
     times |-> NoTimes]

-----------------------------------------------------------------------------
(* Endpoints.                                                              *)

VtepToC(m) ==
    [ip_address |-> CString(m.ip_address), udp_port |-> m.udp_port, vni |-> m.vni]
VtepToPb(c) ==
    [ip_address |-> PbString(c.ip_address), udp_port |-> c.udp_port, vni |-> c.vni]

L2vpnToC(m) == [vpn_id |-> m.vpn_id]
L2vpnToPb(c) == [vpn_id |-> c.vpn_id]

(* Slip: the two VLAN numbers are swapped on the way to C.                 *)
PortVlanSwapped(m) ==
    [logical_port |-> CString(m.logical_port), svlan |-> m.cvlan, cvlan |-> m.svlan]

PortVlanToC(m) ==
    [logical_port |-> CString(m.logical_port), svlan |-> m.svlan, cvlan |-> m.cvlan]
PortVlanToPb(c) ==
    [logical_port |-> PbString(c.logical_port), svlan |-> c.svlan, cvlan |-> c.cvlan]

Zero == [zero |-> 0]  \* a union after memset

(* An endpoint with no transport keeps its name; map returns false, which  *)
(* its callers ignore.                                                     *)
EndpointToC(m) ==
    [endpoint_name |-> CString(m.endpoint_name),
     ep_type |-> m.transport,
     ep_spec |-> CASE m.transport = "vtep"      -> VtepToC(m.spec)
                   [] m.transport = "l2vpn"     -> L2vpnToC(m.spec)
                   [] m.transport = "port_vlan" -> PortVlanToC(m.spec)
                   [] m.transport = "unset"     -> Zero]

EndpointToPb(c) ==
    [endpoint_name |-> PbString(c.endpoint_name),
     transport |-> c.ep_type,
     spec |-> CASE c.ep_type = "vtep"      -> VtepToPb(c.ep_spec)
                [] c.ep_type = "l2vpn"     -> L2vpnToPb(c.ep_spec)
                [] c.ep_type = "port_vlan" -> PortVlanToPb(c.ep_spec)
                [] c.ep_type = "unset"     -> Zero]

EndpointsToC(seq) ==
    [i \in 1..Lesser(Len(seq), UPSF_MAX_NUM) |-> EndpointToC(seq[i])]
EndpointsToPb(arr) == [i \in DOMAIN arr |-> EndpointToPb(arr[i])]

NoEndpoint == [endpoint_name |-> Empty, transport |-> "unset", spec |-> Zero]

-----------------------------------------------------------------------------
(* ServiceGateway, ServiceGatewayUserPlane, TrafficSteeringFunction.       *)

ServiceGatewayToC(m) ==
    [name |-> CString(m.name), metadata |-> MetaDataToC(m.metadata)]

ServiceGatewayToPb(c) ==
    [name |-> PbString(c.name), metadata |-> MetaDataToPb(c.metadata)]

UserPlaneSpecToC(m) ==
    [max_session_count |-> m.max_session_count,
     max_shards |-> m.max_shards,
     supported_service_group |-> CStrings(m.supported_service_group),
     default_endpoint |-> EndpointToC(m.default_endpoint)]

UserPlaneSpecToPb(c) ==
    [max_session_count |-> c.max_session_count,
     max_shards |-> c.max_shards,
     supported_service_group |-> PbStrings(c.supported_service_group),
     default_endpoint |-> EndpointToPb(c.default_endpoint)]

UserPlaneStatusToC(m) ==
    [allocated_session_count |-> m.allocated_session_count,
     allocated_shards |-> m.allocated_shards]

UserPlaneStatusToPb(c) ==
    [allocated_session_count |-> c.allocated_session_count,
     allocated_shards |-> c.allocated_shards]

UserPlaneToC(m) ==
    [name |-> CString(m.name),
     metadata |-> MetaDataToC(m.metadata),
     service_gateway_name |-> CString(m.service_gateway_name),
     maintenance_req |-> m.maintenance_req,
     spec |-> UserPlaneSpecToC(m.spec),
     status |-> UserPlaneStatusToC(m.status)]

UserPlaneToPb(c) ==
    [name |-> PbString(c.name),
     metadata |-> MetaDataToPb(c.metadata),
     service_gateway_name |-> PbString(c.service_gateway_name),
     maintenance_req |-> c.maintenance_req,
     spec |-> UserPlaneSpecToPb(c.spec),
     status |-> UserPlaneStatusToPb(c.status)]

SteeringSpecToC(m) == [default_endpoint |-> EndpointToC(m.default_endpoint)]
SteeringSpecToPb(c) == [default_endpoint |-> EndpointToPb(c.default_endpoint)]

SteeringToC(m) ==
    [name |-> CString(m.name),
     metadata |-> MetaDataToC(m.metadata),
     spec |-> SteeringSpecToC(m.spec)]

SteeringToPb(c) ==
    [name |-> PbString(c.name),
     metadata |-> MetaDataToPb(c.metadata),
     spec |-> SteeringSpecToPb(c.spec)]

-----------------------------------------------------------------------------
(* NetworkConnection.  nc_spec holds the two lists of endpoints; where the *)
(* proto has a single endpoint the list has one element.                   *)

SgupEndpointsToC(m) ==
    CASE m.nc_spec = "unset" -> <<>>
      [] m.nc_spec \in {"ss_ptp", "ss_mptp"} -> EndpointsToC(m.sgup_endpoint)
      [] m.nc_spec \in {"ms_ptp", "ms_mptp"} -> <<EndpointToC(m.sgup_endpoint[1])>>

TsfEndpointsToC(m) ==
    CASE m.nc_spec = "unset" -> <<EndpointToC(NoEndpoint)>>
      [] m.nc_spec \in {"ss_mptp", "ms_mptp"} -> EndpointsToC(m.tsf_endpoint)
      [] m.nc_spec \in {"ss_ptp", "ms_ptp"} -> <<EndpointToC(m.tsf_endpoint[1])>>

(* A oneof that is not set leaves nc_spec_type at 0 after the memset: the  *)
(* value of UPSF_NC_SPEC_TYPE_SS_PTP.                                      *)
NCSpecToC(m) ==
    [maximum_supported_quality |-> m.maximum_supported_quality,
     nc_spec_type |-> IF m.nc_spec = "unset" THEN "ss_ptp" ELSE m.nc_spec,
     sgup_endpoint |-> SgupEndpointsToC(m),
     tsf_endpoint |-> TsfEndpointsToC(m)]

(* Only a call of mutable_X() sets the oneof: with two empty lists         *)
(* UPSF_NC_SPEC_TYPE_SS_MPTP makes none.                                   *)
NCSpecToPb(c) ==
    [maximum_supported_quality |-> c.maximum_supported_quality,
     nc_spec |-> IF /\ c.nc_spec_type = "ss_mptp"
                    /\ c.sgup_endpoint = <<>>
                    /\ c.tsf_endpoint = <<>>
                 THEN "unset" ELSE c.nc_spec_type,
     sgup_endpoint |-> EndpointsToPb(c.sgup_endpoint),
     tsf_endpoint |-> EndpointsToPb(c.tsf_endpoint)]

One     == [stem |-> "1", length |-> 1]
Nought  == [stem |-> "0", length |-> 1]

CBool(b) == CString(IF b THEN One ELSE Nought)

(* The value assigned to the map's bool is a char array, a non-null        *)
(* pointer whatever the string.                                            *)
PbBool(c) == TRUE

(* The overload never assigns allocated_shards: it stays 0.                *)
NCStatusToC(m) ==
    [nc_active |-> CPairs(m.nc_active, CBool),
     allocated_shards |-> 0]

NCStatusToPb(c) ==
    [nc_active |-> PbMap(c.nc_active, PbBool),
     allocated_shards |-> c.allocated_shards]

NetworkConnectionToC(m) ==
    [name |-> CString(m.name),
     metadata |-> MetaDataToC(m.metadata),
     maintenance_req |-> m.maintenance_req,
     spec |-> NCSpecToC(m.spec),
     status |-> NCStatusToC(m.status)]

NetworkConnectionToPb(c) ==
    [name |-> PbString(c.name),
     metadata |-> MetaDataToPb(c.metadata),
     maintenance_req |-> c.maintenance_req,
     spec |-> NCSpecToPb(c.spec),
     status |-> NCStatusToPb(c.status)]

-----------------------------------------------------------------------------
(* Shard.                                                                  *)

ShardDesiredToC(m) ==
    [service_gateway_user_plane |-> CString(m.service_gateway_user_plane),
     network_connection |-> CStrings(m.network_connection)]
ShardDesiredToPb(c) ==
    [service_gateway_user_plane |-> PbString(c.service_gateway_user_plane),
     network_connection |-> PbStrings(c.network_connection)]

ShardSpecToC(m) ==
    [max_session_count |-> m.max_session_count,
     virtual_mac |-> CString(m.virtual_mac),
     desired_state |-> ShardDesiredToC(m.desired_state),
     prefix |-> CStrings(m.prefix)]
ShardSpecToPb(c) ==
    [max_session_count |-> c.max_session_count,
     virtual_mac |-> PbString(c.virtual_mac),
     desired_state |-> ShardDesiredToPb(c.desired_state),
     prefix |-> PbStrings(c.prefix)]

ShardCurrentToC(m) ==
    [service_gateway_user_plane |-> CString(m.service_gateway_user_plane),
     tsf_network_connection |-> CPairs(m.tsf_network_connection, CString)]
ShardCurrentToPb(c) ==
    [service_gateway_user_plane |-> PbString(c.service_gateway_user_plane),
     tsf_network_connection |-> PbMap(c.tsf_network_connection, PbString)]

ShardStatusToC(m) ==
    [allocated_session_count |-> m.allocated_session_count,
     maximum_allocated_quality |-> m.maximum_allocated_quality,
     service_groups_supported |-> CStrings(m.service_groups_supported),
     current_state |-> ShardCurrentToC(m.current_state)]
ShardStatusToPb(c) ==
    [allocated_session_count |-> c.allocated_session_count,
     maximum_allocated_quality |-> c.maximum_allocated_quality,
     service_groups_supported |-> PbStrings(c.service_groups_supported),
     current_state |-> ShardCurrentToPb(c.current_state)]

(* An enum cast keeps the number, mbb_failure = 999 included, for which    *)
(* upsf_mbb_state_t has no name.                                           *)
ShardMbbToC(m) == [mbb_state |-> m.mbb_state]
ShardMbbToPb(c) == [mbb_state |-> c.mbb_state]

ShardToC(m) ==
    [name |-> CString(m.name),
     metadata |-> MetaDataToC(m.metadata),
     spec |-> ShardSpecToC(m.spec),
     status |-> ShardStatusToC(m.status),
     mbb |-> ShardMbbToC(m.mbb)]
ShardToPb(c) ==
    [name |-> PbString(c.name),
     metadata |-> MetaDataToPb(c.metadata),
     spec |-> ShardSpecToPb(c.spec),
     status |-> ShardStatusToPb(c.status),
     mbb |-> ShardMbbToPb(c.mbb)]

-----------------------------------------------------------------------------
(* SessionContext.                                                         *)

SessionFilterToC(m) ==
    [source_mac_address |-> CString(m.source_mac_address), svlan |-> m.svlan, cvlan |-> m.cvlan]
SessionFilterToPb(c) ==
    [source_mac_address |-> PbString(c.source_mac_address), svlan |-> c.svlan, cvlan |-> c.cvlan]

SessionDesiredToC(m) == [shard |-> CString(m.shard)]
SessionDesiredToPb(c) == [shard |-> PbString(c.shard)]

SessionSpecToC(m) ==
    [traffic_steering_function |-> CString(m.traffic_steering_function),
     required_service_group |-> CStrings(m.required_service_group),
     required_quality |-> m.required_quality,
     circuit_id |-> CString(m.circuit_id),
     remote_id |-> CString(m.remote_id),
     session_filter |-> SessionFilterToC(m.session_filter),
     desired_state |-> SessionDesiredToC(m.desired_state),
     network_connection |-> CString(m.network_connection)]
SessionSpecToPb(c) ==
    [traffic_steering_function |-> PbString(c.traffic_steering_function),
     required_service_group |-> PbStrings(c.required_service_group),
     required_quality |-> c.required_quality,
     circuit_id |-> PbString(c.circuit_id),
     remote_id |-> PbString(c.remote_id),
     session_filter |-> SessionFilterToPb(c.session_filter),
     desired_state |-> SessionDesiredToPb(c.desired_state),
     network_connection |-> PbString(c.network_connection)]

SessionCurrentToC(m) ==
    [user_plane_shard |-> CString(m.user_plane_shard), tsf_shard |-> CString(m.tsf_shard)]
SessionCurrentToPb(c) ==
    [user_plane_shard |-> PbString(c.user_plane_shard), tsf_shard |-> PbString(c.tsf_shard)]

SessionStatusToC(m) == [current_state |-> SessionCurrentToC(m.current_state)]
SessionStatusToPb(c) == [current_state |-> SessionCurrentToPb(c.current_state)]

SessionContextToC(m) ==
    [name |-> CString(m.name),
     metadata |-> MetaDataToC(m.metadata),
     spec |-> SessionSpecToC(m.spec),
     status |-> SessionStatusToC(m.status)]
SessionContextToPb(c) ==
    [name |-> PbString(c.name),
     metadata |-> MetaDataToPb(c.metadata),
     spec |-> SessionSpecToPb(c.spec),
     status |-> SessionStatusToPb(c.status)]

-----------------------------------------------------------------------------
(* The overload for an item of each type.                                  *)

ItemTypes == {"sg", "sgup", "tsf", "nc", "shard", "sctx"}

ToC(ty, m) ==
    CASE ty = "sg"    -> ServiceGatewayToC(m)
      [] ty = "sgup"  -> UserPlaneToC(m)
      [] ty = "tsf"   -> SteeringToC(m)
      [] ty = "nc"    -> NetworkConnectionToC(m)
      [] ty = "shard" -> ShardToC(m)
      [] ty = "sctx"  -> SessionContextToC(m)

ToPb(ty, c) ==
    CASE ty = "sg"    -> ServiceGatewayToPb(c)
      [] ty = "sgup"  -> UserPlaneToPb(c)
      [] ty = "tsf"   -> SteeringToPb(c)
      [] ty = "nc"    -> NetworkConnectionToPb(c)
      [] ty = "shard" -> ShardToPb(c)
      [] ty = "sctx"  -> SessionContextToPb(c)
=============================================================================
