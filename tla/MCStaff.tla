-------------------------------- MODULE MCStaff --------------------------------
(***************************************************************************)
(* One desk that does everything in turn.                                  *)
(***************************************************************************)
EXTENDS Staff, TLC

CONSTANTS p1, p2, p3, d1, w1

AllDuties == [w \in Workers |-> StaffCalls]
================================================================================
