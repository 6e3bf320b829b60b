------------------------------ MODULE MCDmaArm ------------------------------
(***************************************************************************)
(* DmaArm for TLC: client threads are interchangeable.                     *)
(***************************************************************************)
EXTENDS DmaArm, TLC

Symmetry == Permutations(Client)
=============================================================================
