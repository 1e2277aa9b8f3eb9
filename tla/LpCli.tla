------------------------------- MODULE LpCli -------------------------------
(***************************************************************************)
(* src/src/main.c: the ladder of attempts of the LP command line, composed *)
(* with presolve and with the checks of the evidence on the original data. *)
(* The simplex engine is left open: it may return evidence that the checks *)
(* of its own model confirm, evidence they refuse, or no evidence.         *)
(***************************************************************************)
EXTENDS Presolve

VARIABLES
  options,    \* presolve_mode and scale_mode
  attempt,    \* next position of the ladder
  covered,    \* cfg_done
  can_retry,  \* some later position is not covered, as of the attempt's start
  stop,       \* the time limit or an interrupt has fired
  stage,      \* "ladder", "presolve", "empty", "engine" or "exit"
  out         \* the status lines, with the evidence they were printed on

cvars == <<pvars, options, attempt, covered, can_retry, stop, stage, out>>

Config(pre, scale) == [pre |-> pre, scale |-> scale]

cfgs ==
  << Config(options.pre, options.scale) >>
    \o (IF options.pre THEN << Config(FALSE, options.scale) >> ELSE << >>)
    \o (IF options.pre \/ options.scale THEN << Config(FALSE, FALSE) >> ELSE << >>)

Current == cfgs[attempt]
Presolved == Current.pre /\ rc = "reduced"
Model == IF Presolved THEN Reduced ELSE lp

(* The attempt ends with a status line, without one, or the process ends.  *)
Line(word, proof) == [word |-> word, proof |-> proof]
Answer(word, proof) == out' = Append(out, Line(word, proof)) /\ stage' = "exit"
Escape(x, d) == [x |-> x, d |-> d]       \* a point and the way out of the model
Degrade == out' = out /\ stage' = "ladder"
Failure == IF can_retry THEN Degrade ELSE Answer("NUMERICAL_FAILURE", << >>)

ladder_vars == <<options, attempt, covered, can_retry>>

NextAttempt ==
  /\ stage = "ladder"
  /\ attempt < Len(cfgs)
  /\ attempt' = attempt + 1
  /\ LET c == cfgs[attempt + 1]
         now == covered \cup {c}
     IN  IF c \in covered
         THEN UNCHANGED <<covered, can_retry, stage>>
         ELSE /\ covered' = now
              /\ can_retry' = /\ \E q \in attempt + 2 .. Len(cfgs) : cfgs[q] \notin now
                              /\ ~stop
              /\ stage' = IF c.pre THEN "presolve" ELSE "engine"
  /\ UNCHANGED <<pvars, options, stop, out>>

LeaveLadder ==
  /\ stage = "ladder"
  /\ attempt = Len(cfgs)
  /\ stage' = "exit"
  /\ UNCHANGED <<pvars, ladder_vars, stop, out>>

RunPresolve ==
  /\ stage = "presolve"
  /\ PresolveStep
  /\ UNCHANGED <<ladder_vars, stop, stage, out>>

(* An infeasible verdict of presolve is only a hint: its ray has to        *)
(* separate on the original data.                                          *)
AfterPresolve ==
  /\ stage = "presolve"
  /\ phase = "done"
  /\ IF rc = "infeasible"
     THEN /\ IF check_lp_infeasible(lp, ray) THEN Answer("INFEASIBLE", ray) ELSE Degrade
          /\ UNCHANGED covered
     ELSE /\ covered' = IF rc = "declined" THEN covered \cup {Config(FALSE, Current.scale)}
                                           ELSE covered
          /\ stage' = IF rc = "reduced" /\ w.cols = {} THEN "empty" ELSE "engine"
          /\ out' = out
  /\ UNCHANGED <<pvars, options, attempt, can_retry, stop>>

Drift == [j \in lp.cols |-> IF j = notes[1].var THEN notes[1].walk * U ELSE 0]

(* Presolve left no column: the replay maps are the whole answer.  The     *)
(* failure line does not end the ladder.                                   *)
FullyPresolved ==
  LET x == postsolve_x(<< >>)
      d == postsolve_duals([i \in w.rows |-> 0], x)
  IN  /\ stage = "empty"
      /\ CASE ~d.failed /\ notes = << >> /\ check_lp_optimal(lp, x, d.y) ->
                Answer("OPTIMAL", x)
           [] ~d.failed /\ notes # << >> /\ check_lp_unbounded(lp, x, Drift) ->
                Answer("UNBOUNDED", Escape(x, Drift))
           [] OTHER -> /\ out' = IF can_retry THEN out
                                 ELSE Append(out, Line("NUMERICAL_FAILURE", << >>))
                       /\ stage' = "ladder"
      /\ UNCHANGED <<pvars, ladder_vars, stop>>

----------------------------------------------------------------------------
(* The engine on its model.                                                *)

Points(p) == {x \in [p.cols -> Grid] : lp_primal_ok(p, x)}
Duals(p) == [p.rows -> DualGrid]
Directions(p) == [p.cols -> {-U, 0, U}]

(* A row index that the compaction left dangling: solver_create_opts       *)
(* refuses the model and the command exits without a word.                 *)
WellFormed(p) == \A j \in p.cols : DOMAIN p.A[j] \subseteq p.rows

EngineRefuses ==
  /\ stage = "engine"
  /\ ~WellFormed(Model)
  /\ stage' = "exit"
  /\ UNCHANGED <<pvars, ladder_vars, stop, out>>

Solves == stage = "engine" /\ WellFormed(Model) /\ UNCHANGED <<pvars, ladder_vars, stop>>

(* A point and duals that close the engine's model go back through the     *)
(* replay maps and are checked on the original data.  A note of presolve   *)
(* turns the claim into one of an unbounded model.  (The error path of the *)
(* replay of duals is never taken: DualsReplay.)                           *)
Restored(x) == IF Presolved THEN postsolve_x(x) ELSE x
RestoredDuals(y, x) == IF Presolved THEN postsolve_duals(y, Restored(x)).y ELSE y
Drifts == Presolved /\ notes # << >>

EngineOptimal ==
  /\ Solves
  /\ \E x \in Points(Model), y \in Duals(Model) :
       /\ SignValid(Model, y) /\ check_lp_optimal(Model, x, y)
       /\ \/ ~Drifts /\ check_lp_optimal(lp, Restored(x), RestoredDuals(y, x))
                     /\ Answer("OPTIMAL", Restored(x))
          \/ ~Drifts /\ ~check_lp_optimal(lp, Restored(x), RestoredDuals(y, x)) /\ Failure
          \/ Drifts /\ check_lp_unbounded(lp, Restored(x), Drift)
                    /\ Answer("UNBOUNDED", Escape(Restored(x), Drift))
          \/ Drifts /\ ~check_lp_unbounded(lp, Restored(x), Drift) /\ Failure

EngineUnbounded ==
  /\ Solves
  /\ \E x \in Points(Model), d \in Directions(Model) :
       /\ check_lp_unbounded(Model, x, d)
       /\ LET back == IF Presolved THEN postsolve_ray(d) ELSE d
          IN  IF check_lp_unbounded(lp, Restored(x), back)
              THEN Answer("UNBOUNDED", Escape(Restored(x), back)) ELSE Failure

(* A presolved model's infeasibility is never printed.  On the original    *)
(* model it is printed with a separating ray, and without one unless the   *)
(* scales of the model are extreme.                                        *)
EngineInfeasible ==
  /\ Solves
  /\ IF Presolved THEN Degrade
     ELSE \/ \E y \in Directions([cols |-> lp.rows]) :
               check_lp_infeasible(lp, y) /\ Answer("INFEASIBLE", y)
          \/ Answer("INFEASIBLE", << >>)
          \/ Failure

(* Numerical trouble, or evidence that the checks refuse.                  *)
EngineUnconfirmed == Solves /\ Failure

EngineStops ==
  /\ Solves
  /\ \E word \in {"ITERATION_LIMIT", "INVALID_MODEL"} \cup (IF stop THEN {"STOPPED"} ELSE {}) :
       Answer(word, << >>)

(* Presolve does not look at the flag, so it may as well rise after it.    *)
StopArrives ==
  /\ stage \notin {"presolve", "exit"} /\ ~stop
  /\ stop' = TRUE
  /\ UNCHANGED <<pvars, ladder_vars, stage, out>>

CliInit(p) ==
  /\ PresolveInit(p)
  /\ options \in [pre : BOOLEAN, scale : BOOLEAN]
  /\ attempt = 0 /\ covered = {} /\ can_retry = FALSE
  /\ stop = FALSE
  /\ stage = "ladder"
  /\ out = << >>

CliStep ==
  \/ NextAttempt \/ LeaveLadder \/ RunPresolve \/ AfterPresolve \/ FullyPresolved
  \/ EngineRefuses \/ EngineOptimal \/ EngineUnbounded \/ EngineInfeasible
  \/ EngineUnconfirmed \/ EngineStops \/ StopArrives

Exited == stage = "exit" /\ UNCHANGED cvars

----------------------------------------------------------------------------
(* Properties.                                                             *)

(* With equilibration on and no stop, the ladder prints exactly one status *)
(* line, whatever presolve and the engine return, and a failure only after *)
(* the attempt on the raw data.                                            *)
OneVerdict ==
  stage = "exit" /\ ~stop /\ options.scale /\ WellFormed(Model) =>
    /\ Len(out) = 1
    /\ out[1].word = "NUMERICAL_FAILURE" => Config(FALSE, FALSE) \in covered

(* A verdict printed on evidence is true of the LP that was read: no point *)
(* beats an OPTIMAL one, an INFEASIBLE model has no point, and far out on  *)
(* the ray of an UNBOUNDED one there is a better point.  And the ladder    *)
(* prints one verdict.                                                     *)
PrintedIsReal ==
  /\ OneVerdict
  /\ \A k \in DOMAIN out :
       LET word == out[k].word
           proof == out[k].proof
       IN  /\ word = "OPTIMAL" =>
                /\ lp_primal_ok(lp, proof)
                /\ \A z \in Feasible : Sense(lp) * Objective(lp, z) <= Sense(lp) * Objective(lp, proof)
           /\ word = "INFEASIBLE" /\ proof # << >> => Feasible = {}
           /\ word = "UNBOUNDED" =>
                LET far == [j \in lp.cols |-> proof.x[j] + 100 * proof.d[j]]
                IN  lp_primal_ok(lp, far)
                    /\ Sense(lp) * Objective(lp, far) > Sense(lp) * Objective(lp, proof.x)

(* The ladder is never silent.                                             *)
NeverSilent == stage = "exit" /\ WellFormed(Model) => out # << >>

(* Every entry of the reduced model is in a row that the model has.        *)
EntriesAreLive == rc = "reduced" => WellFormed(Reduced)

(* Every point of the reduced model is restored to a point of the original *)
(* one.                                                                    *)
ReducedIsExact ==
  rc = "reduced" => \A x \in Points(Reduced) : lp_primal_ok(lp, postsolve_x(x))
=============================================================================
