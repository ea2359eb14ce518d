------------------------------- MODULE Requests -------------------------------
(* What the modules of the smaller services share: request slots, each of   *)
(* which holds one handler between two of its awaits, and SQL NULL.         *)
EXTENDS Integers, Sequences, FiniteSets

CONSTANTS
  Req,   \* request slots: how many handlers may overlap
  None   \* NULL, no row, no handler

ASSUME RequestsAssumption == IsFiniteSet(Req)
===============================================================================
