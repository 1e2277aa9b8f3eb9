------------------------------ MODULE WebBridge ------------------------------
(***************************************************************************)
(* tools/psolve_web.c over err.c: the bridge that pages and foreign hosts  *)
(* call.  It keeps state of its own between calls -- a deadline in the     *)
(* thread's stop slot, one arena, the certificate of the last QP -- while  *)
(* a failure inside a call longjmps to the host's frame and skips all the  *)
(* bridge meant to do on return.                                           *)
(*                                                                         *)
(* A call is an entry of ErrArena's call stack without a frame: it lasts   *)
(* until it returns or a failure unwinds past it.  The solvers inside it   *)
(* allocate, free, fail and poll as they like; whether the deadline has    *)
(* passed is part of that choice.  High-water mark and residual are not    *)
(* modelled.                                                               *)
(***************************************************************************)
EXTENDS ErrArena

CONSTANTS
  QPs,             \* the quadratic programs of the host
  g_arena          \* the bridge's PSolveArena

ASSUME BridgeAssumption == g_arena \in Arenas

VARIABLES
  g_deadline,     \* a deadline is set
  g_stop_mine,
  psv_stop_fn,    \* the thread's stop slot: "null", "budget" or "host"
  g_arena_armed,
  g_proven,
  g_lam,          \* the program whose certificate is kept, or None
  direct,         \* the host set a budget outside any call, and has not disarmed it
  asked,          \* the host has asked for a budget
  hook,           \* the host installed a callback of its own
  last            \* the last QP called and whether the engine refuted it

stopVars == <<g_deadline, g_stop_mine, psv_stop_fn>>
proofVars == <<g_proven, g_lam, last>>
hostVars == <<direct, asked, hook>>
bridgeVars == <<stopVars, proofVars, g_arena_armed, hostVars>>

BridgeInit ==
  /\ Init
  /\ g_deadline = FALSE /\ g_stop_mine = FALSE /\ psv_stop_fn = "null"
  /\ g_arena_armed = FALSE
  /\ g_proven = FALSE /\ g_lam = None /\ last = [qp |-> None, refuted |-> FALSE]
  /\ direct = FALSE /\ asked = FALSE /\ hook = FALSE

Solving == Caller.at = "solve"

(* The host's turn, in a body or in a handler, which may leave armed what  *)
(* the failed call did; that call's blocks are nobody's any more.          *)
HostsTurn == Running /\ ~Solving /\ blocks = {}

Abandon ==
  /\ Running /\ ~Solving /\ blocks # {}
  /\ blocks' = {}
  /\ UNCHANGED <<frameVars, psolve_arena_stack, used, ended, bridgeVars>>

----------------------------------------------------------------------------
(* Budgets.                                                                *)

Arm == g_deadline' = TRUE /\ g_stop_mine' = TRUE /\ psv_stop_fn' = "budget"

Disarm_Unowned ==     \* clears the slot whoever owns it
  g_deadline' = FALSE /\ g_stop_mine' = FALSE /\ psv_stop_fn' = "null"

Disarm ==
  /\ g_deadline' = FALSE /\ g_stop_mine' = FALSE
  /\ psv_stop_fn' = IF g_stop_mine THEN "null" ELSE psv_stop_fn

Budget(positive) == IF positive THEN Arm ELSE Disarm

(* A host stops solves by budgets or by a callback of its own, not both    *)
(* (the comment at psw_set_time_budget_ms).                                *)
Ask(positive) ==
  /\ positive => ~hook
  /\ asked' = (asked \/ positive)
  /\ Budget(positive)

psw_set_time_budget_ms(positive) ==
  /\ HostsTurn /\ Ask(positive)
  /\ direct' = positive
  /\ UNCHANGED <<vars, proofVars, g_arena_armed, hook>>

psolve_stop_set(on) ==
  /\ HostsTurn /\ ~asked
  /\ psv_stop_fn' = IF on THEN "host" ELSE "null"
  /\ hook' = on
  /\ UNCHANGED <<vars, g_deadline, g_stop_mine, proofVars, g_arena_armed, direct, asked>>

----------------------------------------------------------------------------
(* Calls.  `mine`: the call was passed a budget, a positive one.           *)

Enter(entry, qp, mine) ==
  /\ HostsTurn
  /\ calls' = Append(calls, [frame |-> None, at |-> "solve", uses |-> << >>,
                             entry |-> entry, qp |-> qp, mine |-> mine])
  /\ UNCHANGED <<psv_frame_top, prev, psv_fail_code, arenaVars, ended, g_arena_armed,
                 direct, hook>>

psw_lp_solve ==
  /\ Enter("lp", None, FALSE)
  /\ UNCHANGED <<stopVars, proofVars, asked>>

psw_lp_solve_b(positive) ==
  /\ Enter("lp_b", None, positive)
  /\ Ask(positive)
  /\ UNCHANGED proofVars

psw_qp_solve2(qp, positive) ==
  /\ Enter("qp", qp, positive)
  /\ Ask(positive)
  /\ g_proven' = FALSE /\ last' = [qp |-> qp, refuted |-> FALSE]
  /\ UNCHANGED g_lam

(* Inside: the solver's memory and failures.                               *)
Inside ==
  /\ Solving
  /\ \/ \E n \in Sizes : psolve_malloc(n)
     \/ \E b \in blocks : psolve_free(b)
     \/ psolve_fail
  /\ UNCHANGED bridgeVars

Leave(entry) ==
  /\ Running /\ Solving /\ Caller.entry = entry /\ blocks = {}
  /\ calls' = Front(calls)
  /\ UNCHANGED <<psv_frame_top, prev, psv_fail_code, arenaVars, ended,
                 g_arena_armed, hostVars>>

LpReturns ==
  \/ Leave("lp") /\ UNCHANGED <<stopVars, proofVars>>
  \/ Leave("lp_b") /\ Disarm /\ UNCHANGED proofVars

(* A proof is kept unless the copy cannot be allocated.                    *)
QpReturns ==
  /\ Leave("qp") /\ Disarm
  /\ \/ UNCHANGED proofVars
     \/ /\ last' = [last EXCEPT !.refuted = TRUE]
        /\ \/ g_proven' = TRUE /\ g_lam' = Caller.qp
           \/ UNCHANGED <<g_proven, g_lam>>

psw_free_scratch ==
  /\ HostsTurn
  /\ g_proven' = FALSE /\ g_lam' = None
  /\ UNCHANGED <<vars, stopVars, last, g_arena_armed, hostVars>>

----------------------------------------------------------------------------
(* The arena is armed at start-up, outside any try, and reset between      *)
(* frames of the display.                                                  *)

psw_arena_set(on) ==
  /\ HostsTurn /\ Caller.at = "base"
  /\ LET left == IF g_arena_armed THEN Front(psolve_arena_stack) ELSE psolve_arena_stack
         now == IF on THEN Append(left, g_arena) ELSE left
     IN  psolve_arena_stack' = now /\ calls' = [calls EXCEPT ![Len(calls)].uses = now]
  /\ used' = [used EXCEPT ![g_arena] = 0]
  /\ g_arena_armed' = on
  /\ UNCHANGED <<psv_frame_top, prev, psv_fail_code, blocks, ended,
                 stopVars, proofVars, hostVars>>

psw_arena_reset ==
  /\ HostsTurn /\ g_arena_armed
  /\ psolve_arena_reset(g_arena)
  /\ UNCHANGED bridgeVars

(* The host's own frames.                                                  *)
HostFrames ==
  /\ HostsTurn
  /\ (\E f \in Frames : psolve_frame_push(f)) \/ psolve_frame_pop \/ HandlerReturns
  /\ UNCHANGED bridgeVars

BridgeNext ==
  \/ HostFrames \/ Inside \/ Abandon
  \/ \E positive \in BOOLEAN :
       \/ psw_set_time_budget_ms(positive) \/ psw_lp_solve_b(positive)
       \/ \E qp \in QPs : psw_qp_solve2(qp, positive)
  \/ psw_lp_solve \/ LpReturns \/ QpReturns \/ psw_free_scratch
  \/ \E on \in BOOLEAN : psolve_stop_set(on) \/ psw_arena_set(on)
  \/ psw_arena_reset

BridgeSpec == BridgeInit /\ [][BridgeNext]_<<vars, bridgeVars>>

----------------------------------------------------------------------------
(* Properties.                                                             *)

Timed == g_deadline /\ psv_stop_fn = "budget"

(* psolve_web.h: a budget passed to a call applies to it.  Such a call runs*)
(* under a deadline exactly when that budget is positive, whatever earlier *)
(* calls, failures and handlers left armed.                                *)
PassedBudgetApplies ==
  Running /\ Solving /\ Caller.entry # "lp" => (Caller.mine <=> Timed)

(* All that psolve_web.h says of budgets: one set directly applies "to     *)
(* everything until disarmed", and a call that nobody gave one has none.   *)
(* The code keeps neither half (README, section 7).                        *)
BudgetIsTheCalls ==
  Running /\ Solving => (Timed <=> Caller.mine \/ (Caller.entry = "lp" /\ direct))

(* No call takes away the callback of a host that asks for no budgets.     *)
HookIsTheHosts == hook => psv_stop_fn = "host"

(* psolve_web.h: proven means that the last QP call, whichever it was and  *)
(* however it ended, refuted its rows, and the certificate is of those.    *)
ProofIsTheLastCalls == g_proven => last.refuted /\ g_lam = last.qp

(* What one call leaves behind decides neither the budget passed to the    *)
(* next, nor the host's callback, nor a certificate.                       *)
NothingLeaksBetweenCalls == PassedBudgetApplies /\ HookIsTheHosts /\ ProofIsTheLastCalls
=============================================================================
