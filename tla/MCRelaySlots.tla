---------------------------- MODULE MCRelaySlots ----------------------------
(***************************************************************************)
(* RelaySlots for TLC.  Three commands over two permits: one can queue     *)
(* while two run, and stop() can hold one permit while it waits for the    *)
(* other.                                                                  *)
(***************************************************************************)
EXTENDS RelaySlots

CONSTANTS r1, r2, r3

ThreeRequests == {r1, r2, r3}

=============================================================================
