------------------------------ MODULE Outcomes ------------------------------
(***************************************************************************)
(* How a Python call ends: it returns a value or raises an exception.      *)
(***************************************************************************)

Good(v) == [ok |-> TRUE, value |-> v]
Raise(e) == [ok |-> FALSE, error |-> e]

ValueError == Raise("ValueError")   \* pydantic's ValidationError is one too
=============================================================================
