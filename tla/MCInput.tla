------------------------------ MODULE MCInput ------------------------------
(***************************************************************************)
(* Instances of InputBuffer for TLC.                                       *)
(***************************************************************************)
EXTENDS InputBuffer, FiniteSets

CONSTANTS MaxLen, MaxNULs

\* The byte at a place is told apart from those at all other places.
MCByte == 0 .. MaxLen

\* The files of up to MaxLen bytes with up to MaxNULs NULs among them.
MCFile ==
  {[i \in 1 .. n |-> IF i \in nuls THEN 0 ELSE i] :
     n \in 0 .. MaxLen,
     nuls \in {s \in SUBSET (1 .. MaxLen) : Cardinality(s) <= MaxNULs}}
=============================================================================
