----------------------------- MODULE MCUpsfItems -----------------------------
(***************************************************************************)
(* Messages for TLC.  With strings of at most 2 characters and arrays of 2 *)
(* elements, Fitting has messages within these limits and Oversized ones   *)
(* beyond them.                                                            *)
(***************************************************************************)
EXTENDS UpsfItems

CONSTANTS Oversized  \* messages beyond the limits of upsf.h as well

a(n) == [stem |-> "a", length |-> n]
b(n) == [stem |-> "b", length |-> n]

Descriptions == {a(2)} \cup (IF Oversized THEN {a(5)} ELSE {})
StringLists  == {<<>>, <<a(1), b(2)>>} \cup
                (IF Oversized THEN {<<a(4), b(1), a(1)>>} ELSE {})
Entry(k, v)  == [key |-> k, value |-> v]
StringMaps   == {{}, {Entry(a(1), b(1)), Entry(b(2), b(1))}} \cup
                (IF Oversized THEN {{Entry(k, k) : k \in {a(3), a(4), b(1)}}} ELSE {})
ItemNames    == {a(1)} \cup (IF Oversized THEN {a(4)} ELSE {})

MCTransports ==
    {[transport |-> "vtep", spec |-> [ip_address |-> a(2), udp_port |-> 1, vni |-> 2]],
     [transport |-> "l2vpn", spec |-> [vpn_id |-> 3]],
     [transport |-> "port_vlan", spec |-> [logical_port |-> b(1), svlan |-> 4, cvlan |-> 5]],
     [transport |-> "unset", spec |-> Zero]}
MCEndpoints == {[endpoint_name |-> b(2), transport |-> t.transport, spec |-> t.spec] : t \in MCTransports}
SomeEndpoint == CHOOSE e \in MCEndpoints : e.transport = "vtep"
Called(n) == [SomeEndpoint EXCEPT !.endpoint_name = n]
EndpointLists == {<<>>, <<SomeEndpoint>>} \cup
                 (IF Oversized THEN {<<Called(a(1)), Called(b(1)), SomeEndpoint>>} ELSE {})

MetaData == [description : Descriptions, derived_state : {2, 5}, times : {"set"}]

MCShardStatuses ==
    [allocated_session_count : {7}, maximum_allocated_quality : {8},
     service_groups_supported : {<<a(1)>>},
     current_state : [service_gateway_user_plane : {b(1)}, tsf_network_connection : StringMaps]]

MCNCSpecs ==
    [maximum_supported_quality : {6}, nc_spec : {"unset"}, sgup_endpoint : {<<>>},
     tsf_endpoint : {<<>>}]
    \cup [maximum_supported_quality : {6}, nc_spec : {"ss_ptp"},
          sgup_endpoint : EndpointLists, tsf_endpoint : {<<e>> : e \in MCEndpoints}]
    \cup [maximum_supported_quality : {6}, nc_spec : {"ss_mptp"},
          sgup_endpoint : EndpointLists, tsf_endpoint : {<<>>, <<SomeEndpoint>>}]
    \cup [maximum_supported_quality : {6}, nc_spec : {"ms_ptp"},
          sgup_endpoint : {<<SomeEndpoint>>}, tsf_endpoint : {<<SomeEndpoint>>}]
    \cup [maximum_supported_quality : {6}, nc_spec : {"ms_mptp"},
          sgup_endpoint : {<<SomeEndpoint>>}, tsf_endpoint : EndpointLists]

MCNCStatuses ==
    [nc_active : {{Entry(a(1), x), Entry(b(2), y)} : x, y \in BOOLEAN},
     allocated_shards : {0, 3}]

MCMessages(t) ==
    CASE t = "sg" -> [name : ItemNames, metadata : MetaData]
      [] t = "sgup" ->
             [name : ItemNames, metadata : MetaData, service_gateway_name : {b(1)},
              maintenance_req : {1},
              spec : [max_session_count : {1}, max_shards : {2},
                      supported_service_group : StringLists, default_endpoint : MCEndpoints],
              status : [allocated_session_count : {3}, allocated_shards : {4}]]
      [] t = "tsf" ->
             [name : ItemNames, metadata : MetaData, spec : [default_endpoint : MCEndpoints]]
      [] t = "nc" ->
             [name : ItemNames, metadata : MetaData, maintenance_req : {2},
              spec : MCNCSpecs, status : MCNCStatuses]
      [] t = "shard" ->
             [name : ItemNames, metadata : MetaData,
              spec : [max_session_count : {1}, virtual_mac : {a(2)},
                      desired_state : [service_gateway_user_plane : {b(2)},
                                       network_connection : StringLists],
                      prefix : StringLists],
              status : MCShardStatuses, mbb : [mbb_state : {0, 999}]]
      [] t = "sctx" ->
             [name : ItemNames, metadata : MetaData,
              spec : [traffic_steering_function : {a(1)}, required_service_group : StringLists,
                      required_quality : {9}, circuit_id : {Empty, b(2)}, remote_id : {a(2)},
                      session_filter : [source_mac_address : {b(1)}, svlan : {1}, cvlan : {2}],
                      desired_state : [shard : {a(2)}], network_connection : {b(2)}],
              status : [current_state : [user_plane_shard : {a(1)}, tsf_shard : {b(1)}]]]
=============================================================================
