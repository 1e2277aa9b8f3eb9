----------------------------- MODULE MipPromise -----------------------------
(***************************************************************************)
(* What a caller of mip_solve may rely on (src/src/mip.h), with no search: *)
(* feasible points are found, each better than the one before, and at some *)
(* point one verdict is given that the model itself justifies.             *)
(***************************************************************************)
EXTENDS Integers

CONSTANTS Models,           \* the models a caller may pass
          Feasible(_),      \* feasible points of a model
          Beats(_, _, _),   \* of a model: one point strictly beats another
          NoneBeats(_, _),  \* of a model: no point beats this one past the gap
          MayBeUnbounded(_),
          NoPoint

VARIABLES model, best, verdict

Running  == "running"
Verdicts == {"optimal", "feasible", "infeasible", "unbounded", "unknown"}

(* The verdicts a model and a best point justify.                          *)
Justified(v) ==
  CASE v = "optimal"    -> best # NoPoint /\ NoneBeats(model, best)
    [] v = "feasible"   -> best # NoPoint
    [] v = "infeasible" -> Feasible(model) = {}
    [] v = "unbounded"  -> MayBeUnbounded(model)
    [] v = "unknown"    -> best = NoPoint

Init ==
  /\ model \in Models
  /\ best = NoPoint
  /\ verdict = Running

Find ==
  /\ verdict = Running
  /\ \E p \in Feasible(model) :
       /\ best # NoPoint => Beats(model, p, best)
       /\ best' = p
  /\ UNCHANGED <<model, verdict>>

Answer ==
  /\ verdict = Running
  /\ \E v \in Verdicts : Justified(v) /\ verdict' = v
  /\ UNCHANGED <<model, best>>

Next == Find \/ Answer

Spec == Init /\ [][Next]_<<model, best, verdict>>
=============================================================================
