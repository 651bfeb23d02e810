-------------------------------- MODULE MCResolver --------------------------------
(* A Resolver with two selectors by ID, whose copies may lie at the same    *)
(* address, one after the other.                                            *)
EXTENDS Resolver, TLC

CONSTANTS s1, s2, q1, q2, r1, r2

MCTerms == s1 :> <<q1>> @@ s2 :> <<q2>>
MCFinds == q1 :> {r1} @@ q2 :> {r2}

================================================================================
