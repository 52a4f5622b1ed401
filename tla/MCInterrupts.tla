---------------------------- MODULE MCInterrupts ----------------------------
(* Small instances of Interrupts for TLC. *)
EXTENDS Interrupts, TLC

CONSTANTS p1, q1, alice, bob

MCIds == {p1, q1}
MCTypeOf == p1 :> "permission" @@ q1 :> "question"
MCAskerOf == p1 :> alice @@ q1 :> None
MCOneId == {p1}
MCOneType == p1 :> "permission"
MCOneAsker == p1 :> alice
MCIdentities == {alice, bob}
=============================================================================
