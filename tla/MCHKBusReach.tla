---------------------------- MODULE MCHKBusReach ----------------------------
(***************************************************************************)
(* The small instances of MCHKBus with the memory of HKBusReach.           *)
(***************************************************************************)
EXTENDS MCHKBus, HKBusReach
============================================================================
