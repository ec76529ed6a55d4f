-------------------------- MODULE MCEventStream --------------------------
(* Small instances of EventStream for TLC.                                *)
EXTENDS EventStream

(* Bounds: one write is cut, and the last event is appended only after it.*)
OneCut == /\ made < MaxEvents \/ cuts # {}
          /\ Cardinality(cuts) <= 1
===========================================================================
