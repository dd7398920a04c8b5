---------------------------- MODULE MCUpsfPrograms ----------------------------
(***************************************************************************)
(* The items of the example programs for TLC: a service gateway user plane *)
(* and a network connection, the type of which nc_exists gets wrong.       *)
(***************************************************************************)
EXTENDS UpsfPrograms

MCNames == {"my-up-a", "my-nc"}
MCTypes == {"up", "sctx", "nc"}
MCVals == {"bare", "described"}
MCGroups == <<<<"my-up-a">>, <<"my-nc">>>>
MCTypeOf == [n \in MCNames |-> IF n = "my-nc" THEN "nc" ELSE "up"]
=============================================================================
