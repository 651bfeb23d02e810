--------------------------------- MODULE MCLaunch ---------------------------------
(* Launch of a claim that forbids a zone: one type, with stock in the other *)
(* zone, and a vSwitch in each.                                             *)
EXTENDS Launch

MCClaims == {{[key |-> ZoneKey, operator |-> "NotIn", values |-> {"z1"}]}}

MCTypeLists == {<<[name |-> "x", arch |-> "amd64", available |-> {"z2"}, label |-> <<>>]>>}

VSwitch(id, zone, ips) == [id |-> id, zone |-> zone, ips |-> ips]
MCNodeClasses ==
  {[vSwitches |-> {VSwitch("v1", "z1", 2), VSwitch("v2", "z2", 1)},
    images |-> <<[id |-> "i1", arch |-> "amd64"]>>, securityGroups |-> {"sg"}, spotStrategy |-> ""]}

================================================================================
