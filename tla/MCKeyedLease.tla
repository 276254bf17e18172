---------------------------- MODULE MCKeyedLease ----------------------------
(* Two worker pids with two incarnations each, and three leases.           *)
EXTENDS KeyedLease
=============================================================================
