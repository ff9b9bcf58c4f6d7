---------------------------- MODULE MCWormStore ----------------------------
(***************************************************************************)
(* Small instances of the WORM file store.                                 *)
(***************************************************************************)
EXTENDS WormStore, TLC

CONSTANTS b1, b2

\* Two hashes with a bit in common, so that chain hashes can cancel.
MCContentHashes == {{b1}, {b1, b2}}
============================================================================
