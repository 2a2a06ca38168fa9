-------------------------- MODULE MCServeAggregate --------------------------
(***************************************************************************)
(* Bounded instances of ServeAggregate.                                    *)
(***************************************************************************)
EXTENDS ServeAggregate
=============================================================================
