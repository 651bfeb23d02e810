------------------------------- MODULE MCOfferings -------------------------------
(* Offerings of a NodePool that asks for the zone z1, where the type is out *)
(* of stock.                                                                *)
EXTENDS Offerings

MCPools == {{[key |-> ZoneKey, operator |-> "In", values |-> {"z1"}]}}
MCVolatile == {<<"z1", OnDemand>>}
MCSteady == [p \in Pair |-> IF p[1] = "z1" THEN "out" ELSE "stocked"]

================================================================================
