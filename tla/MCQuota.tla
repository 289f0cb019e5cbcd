------------------------------ MODULE MCQuota ------------------------------
(***************************************************************************)
(* QuotaModel for TLC: two schemas, two owners, two tablespaces, three     *)
(* combinations of them; one schema limit and one role-tablespace limit.   *)
(***************************************************************************)
EXTENDS QuotaModel, TLC

CONSTANTS n1, n2, o1, o2, p1, p2

MCAttrs == {[ns |-> n1, owner |-> o1, spc |-> p1],
            [ns |-> n2, owner |-> o1, spc |-> p1],
            [ns |-> n1, owner |-> o2, spc |-> p2]}

MCConfigKeys == {[type |-> "NAMESPACE_QUOTA", keys |-> <<n1>>],
                 [type |-> "ROLE_TABLESPACE_QUOTA", keys |-> <<o1, p1>>]}

TableSymmetry == Permutations(Tables)
=============================================================================
