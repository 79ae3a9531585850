---------------------------- MODULE MCHandshake ----------------------------
(***************************************************************************)
(* Two phones. One user starts twice, so that codes of the first session   *)
(* are still read in the second; everything that may fail fails on the     *)
(* other phone, whose one session meets both.                              *)
(***************************************************************************)
EXTENDS Handshake, TLC

CONSTANTS alice, bob

MCMaxStarts == [x \in Phone |-> IF x = alice THEN 2 ELSE 1]
MCTrouble == [x \in Phone |-> IF x = alice THEN {}
                              ELSE {"sign", "address", "feed", "confirm", "card"}]
=============================================================================
