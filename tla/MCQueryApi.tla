----------------------------- MODULE MCQueryApi -----------------------------
(***************************************************************************)
(* QueryApi instantiated for TLC: two statements of two tenants and a      *)
(* plain query of the first.  Of the tables, gold/transactions has no      *)
(* tenant_id (TransactionsETL writes tenantid).                            *)
(***************************************************************************)
EXTENDS QueryApi

CONSTANTS sqlA, sqlB, getA, tenantA, tenantB

TheTenants == [r \in Requests |-> IF r = sqlB THEN tenantB ELSE tenantA]
=============================================================================
