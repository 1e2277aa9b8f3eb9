------------------------------- MODULE MipCli -------------------------------
(***************************************************************************)
(* tools/mipsolve.c: what the command line prints of a mip_solve result,   *)
(* after the evidence checks of src/src/cert.c.                            *)
(***************************************************************************)
EXTENDS BranchBound

VARIABLES printed,     \* the status word
          objective    \* the objective value printed with it, if one is

cliVars == <<vars, printed, objective>>

Nothing == "nothing"

(* mipsolve asks for neither (other callers of mip_solve do).              *)
ByDriver == ~mip.all_solutions /\ ~mip.stop_at_feasible

(* psv_cert_check of a point verdict: feasible, and, when optimality is    *)
(* claimed, not better than the reported bound (directional coherence).    *)
PointCertified(claim_optimal) ==
  /\ bestx \in mip.feas
  /\ claim_optimal =>
       GapDen * Gain(incumbent, best_bound)
         <= GapNum * (1 + Abs(incumbent) + Abs(best_bound))

(* psv_cert_check of an exhausted search.                                  *)
ExhaustionCertified == mip.node_limit = 0 \/ nodes < mip.node_limit

PrintPoint(word, claim_optimal) ==
  IF PointCertified(claim_optimal)
  THEN printed' = word /\ objective' = incumbent
  ELSE printed' = "NUMERICAL_FAILURE" /\ objective' = NoPoint

PrintWord(words) == printed' \in words /\ objective' = NoPoint

(* res.obj is 0 from the result's memset until an incumbent is stored.     *)
ResultObjective == IF have_incumbent THEN incumbent ELSE 0

ReportPoint ==
  \/ /\ status = OPTIMAL
     /\ IF proven_optimal THEN PrintPoint("OPTIMAL", TRUE)
        ELSE printed' = "FEASIBLE" /\ objective' = incumbent   \* not certified
  \/ status = FEASIBLE /\ PrintPoint("FEASIBLE_LIMIT", FALSE)

ReportInfeasible ==    \* certified by a re-solved relaxation or by the stamp
  /\ status = INFEASIBLE
  /\ PrintWord({"INFEASIBLE"} \union
               (IF ExhaustionCertified THEN {} ELSE {"NUMERICAL_FAILURE"}))

ReportUnbounded ==     \* certified by a ray of the re-solved relaxation
  /\ status = UNBOUNDED
  /\ PrintWord({"NUMERICAL_FAILURE"} \union (IF mip.ray THEN {"UNBOUNDED"} ELSE {}))

ReportLimit ==
  /\ status \in {NODE_LIMIT, STOPPED}
  /\ printed' = (IF status = STOPPED THEN "STOPPED" ELSE "NODE_LIMIT")
  /\ objective' = ResultObjective

ReportFailure_NumericalOnly ==    \* a rejected relaxation has no word
  status = NUMERICAL /\ PrintWord({"NUMERICAL_FAILURE"})

ReportFailure ==
  \/ status = NUMERICAL /\ PrintWord({"NUMERICAL_FAILURE"})
  \/ status = INVALID /\ PrintWord({"INVALID_MODEL"})

Report ==
  /\ pc = "done" /\ printed = Nothing /\ ByDriver
  /\ ReportPoint \/ ReportInfeasible \/ ReportUnbounded \/ ReportLimit \/ ReportFailure
  /\ UNCHANGED vars

CliInit == Init /\ printed = Nothing /\ objective = NoPoint
CliNext == (Next /\ UNCHANGED <<printed, objective>>) \/ Report
CliSpec == CliInit /\ [][CliNext]_cliVars
FairCliSpec == CliSpec /\ WF_cliVars(CliNext)

----------------------------------------------------------------------------
(* A printed optimum or infeasibility is backed by the model: the point is *)
(* feasible and unbeaten past the gap, or there is no feasible point.      *)
PrintedIsBacked ==
  /\ printed = "INFEASIBLE" => mip.feas = {}
  /\ printed = "OPTIMAL" =>
       /\ objective = incumbent
       /\ \A p \in mip.feas : WithinGap(mip.obj[p], objective)

(* The evidence checks never demote an honest optimum: a proven optimum is *)
(* printed as one.                                                         *)
ProofIsPrinted ==
  printed = "NUMERICAL_FAILURE" => ~(status \in {OPTIMAL, FEASIBLE})

(* The printed word follows the model, in both directions: an optimum or   *)
(* an infeasibility is backed, and a proven optimum is never demoted.      *)
PrintedFollowsTheModel == PrintedIsBacked /\ ProofIsPrinted

(* Every run of mip_solve ends, and mipsolve's with a status word.         *)
EventuallyReports == <>(pc = "done" /\ (ByDriver => printed # Nothing))

(* src/mip.c: an unbounded relaxation on the root node means the MIP       *)
(* itself is unbounded -- so it has a feasible point.                      *)
PrintedUnboundedIsUnbounded == printed = "UNBOUNDED" => mip.feas # {}
=============================================================================
