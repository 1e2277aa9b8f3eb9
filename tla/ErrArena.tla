------------------------------ MODULE ErrArena ------------------------------
(***************************************************************************)
(* src/src/err.c, as one thread sees it (all its state is thread-local):   *)
(* the chain of error frames that psolve_fail unwinds, and the stack of    *)
(* arenas that psolve_malloc, psolve_realloc and psolve_free consult.      *)
(*                                                                         *)
(* The host is a call stack of functions.  Each follows the contract of    *)
(* err.h: push a frame, work, pop it -- or run the recovery handler that a *)
(* failure longjmps to, which must not pop.  It ends the arenas it used;   *)
(* since a longjmp ends none, it uses one only in the body of a try (or    *)
(* with no try around), and its handler first ends those of the body.      *)
(* It resizes and gives back any block it holds, whatever arena is active. *)
(* Memory is measured in units of the 16-byte alignment and block header.  *)
(***************************************************************************)
EXTENDS Integers, Sequences, FiniteSets, SequencesExt

CONSTANTS
  Frames,     \* PSolveErrFrame objects
  Arenas,     \* PSolveArena objects, on disjoint buffers
  Cap,        \* PSolveArena.cap
  MaxNest,    \* PSOLVE_ARENA_MAX_NEST
  Sizes,      \* sizes the host asks for
  HostNest,   \* bound: arenas the host has in use at once
  MaxBlocks,  \* bound: blocks the host holds at once
  None        \* no frame; no arena (libc)

ASSUME MemoryAssumption == Cap \in Nat /\ MaxNest \in Nat \ {0} /\ Sizes \subseteq Nat
ASSUME HostAssumption == HostNest \in Nat /\ MaxBlocks \in Nat
ASSUME NoneAssumption == None \notin Frames /\ None \notin Arenas

VARIABLES
  psv_frame_top,        \* innermost frame of the chain
  prev,                 \* PSolveErrFrame.prev
  psv_fail_code,
  calls,                \* the host's call stack, outermost first
  psolve_arena_stack,   \* its length is psolve_arena_depth
  used,                 \* PSolveArena.used
  blocks,               \* blocks the host holds
  ended                 \* "no", "exit" (failure without a frame), "abort", or
                        \* "undefined" (libc was handed arena memory)

frameVars == <<psv_frame_top, prev, psv_fail_code, calls>>
arenaVars == <<psolve_arena_stack, used, blocks>>
vars == <<frameVars, arenaVars, ended>>

PSOLVE_OK == 0
PSOLVE_ERR_OOM == 1
PSOLVE_ERR_SOLVE == 2

Init ==
  /\ psv_frame_top = None
  /\ prev = [f \in Frames |-> None]
  /\ psv_fail_code = PSOLVE_OK
  /\ calls = << [frame |-> None, at |-> "base", uses |-> << >>] >>
  /\ psolve_arena_stack = << >>
  /\ used = [a \in Arenas |-> 0]
  /\ blocks = {}
  /\ ended = "no"

Caller == Last(calls)
Running == ended = "no"
Recovering == Caller.at = "handler" /\ Caller.uses # << >>

----------------------------------------------------------------------------
(* Error frames.                                                           *)

psolve_frame_push(f) ==
  /\ Running /\ ~Recovering
  /\ f \notin {calls[i].frame : i \in DOMAIN calls}
  /\ prev' = [prev EXCEPT ![f] = psv_frame_top]
  /\ psv_frame_top' = f
  /\ calls' = Append(calls, [frame |-> f, at |-> "body", uses |-> << >>])
  /\ UNCHANGED <<psv_fail_code, arenaVars, ended>>

psolve_frame_pop_Outermost ==    \* pop forgets the outer frames
  /\ Running /\ Caller.at = "body" /\ Caller.uses = << >>
  /\ psv_frame_top' = None
  /\ calls' = Front(calls)
  /\ UNCHANGED <<prev, psv_fail_code, arenaVars, ended>>

(* The work is done: pop and return.  Popping another frame aborts.        *)
psolve_frame_pop ==
  /\ Running /\ Caller.at = "body" /\ Caller.uses = << >>
  /\ IF psv_frame_top # Caller.frame
     THEN /\ ended' = "abort"
          /\ UNCHANGED <<psv_frame_top, calls>>
     ELSE /\ psv_frame_top' = prev[Caller.frame]
          /\ calls' = Front(calls)
          /\ UNCHANGED ended
  /\ UNCHANGED <<prev, psv_fail_code, arenaVars>>

(* The recovery handler is done: return without popping.                   *)
HandlerReturns ==
  /\ Running /\ Caller.at = "handler" /\ Caller.uses = << >>
  /\ calls' = Front(calls)
  /\ UNCHANGED <<psv_frame_top, prev, psv_fail_code, arenaVars, ended>>

(* psolve_fail: record the code, pop the innermost frame, longjmp to its   *)
(* setjmp -- or exit, without a frame.                                     *)
Unwind(code) ==
  /\ psv_fail_code' = code
  /\ IF psv_frame_top = None
     THEN ended' = "exit" /\ UNCHANGED <<psv_frame_top, calls>>
     ELSE \E i \in DOMAIN calls :
            /\ calls[i].frame = psv_frame_top
            /\ calls' = Append(SubSeq(calls, 1, i - 1), [calls[i] EXCEPT !.at = "handler"])
            /\ psv_frame_top' = prev[psv_frame_top]
            /\ UNCHANGED ended
  /\ UNCHANGED prev

psolve_fail ==
  /\ Running /\ ~Recovering
  /\ Unwind(PSOLVE_ERR_SOLVE)
  /\ UNCHANGED arenaVars

----------------------------------------------------------------------------
(* Arenas.                                                                 *)

active_arena ==
  IF psolve_arena_stack = << >> THEN None ELSE Last(psolve_arena_stack)

InUse == FlattenSeq([i \in DOMAIN calls |-> calls[i].uses])

psolve_arena_use(a) ==
  /\ Running /\ Caller.at # "handler" /\ Len(InUse) < HostNest
  /\ psolve_arena_stack' = IF Len(psolve_arena_stack) < MaxNest
                           THEN Append(psolve_arena_stack, a)
                           ELSE psolve_arena_stack
  /\ calls' = [calls EXCEPT ![Len(calls)].uses = Append(@, a)]
  /\ UNCHANGED <<psv_frame_top, prev, psv_fail_code, used, blocks, ended>>

psolve_arena_end ==
  /\ Running /\ Caller.uses # << >>
  /\ psolve_arena_stack' = IF psolve_arena_stack = << >> THEN << >>
                           ELSE Front(psolve_arena_stack)
  /\ calls' = [calls EXCEPT ![Len(calls)].uses = Front(@)]
  /\ UNCHANGED <<psv_frame_top, prev, psv_fail_code, used, blocks, ended>>

(* Only between solves: the host holds no block of the arena.              *)
psolve_arena_reset(a) ==
  /\ Running /\ used[a] > 0
  /\ \A b \in blocks : b.home # a
  /\ used' = [used EXCEPT ![a] = 0]
  /\ UNCHANGED <<frameVars, psolve_arena_stack, blocks, ended>>

(* arena_alloc: one unit of header, then the block.                        *)
Fits(a, n) == used[a] + 1 + n <= Cap

ArenaBlock(a, n) == [home |-> a, at |-> used[a] + 1, size |-> n]

Bump_NoHeader(a, n) ==    \* forgets the header
  used' = [used EXCEPT ![a] = @ + n]
Bump(a, n) == used' = [used EXCEPT ![a] = @ + 1 + n]

(* in_active_arena: the block's first byte lies in the used part.          *)
Owned(b) == active_arena # None /\ b.home = active_arena /\ b.at < used[b.home]

psolve_malloc(n) ==
  /\ Running /\ ~Recovering /\ Cardinality(blocks) < MaxBlocks
  /\ \/ /\ active_arena # None /\ Fits(active_arena, n)
        /\ blocks' = blocks \union {ArenaBlock(active_arena, n)}
        /\ Bump(active_arena, n)
        /\ UNCHANGED <<frameVars, ended>>
     \/ /\ active_arena = None
        /\ \E at \in 1 .. MaxBlocks :    \* any libc address not in use
             /\ \A b \in blocks : b.home = None => b.at # at
             /\ blocks' = blocks \union {[home |-> None, at |-> at, size |-> n]}
        /\ UNCHANGED <<used, frameVars, ended>>
     \/ /\ active_arena # None => ~Fits(active_arena, n)
        /\ Unwind(PSOLVE_ERR_OOM)
        /\ UNCHANGED <<blocks, used>>
  /\ UNCHANGED psolve_arena_stack

(* libc gets every block that the active arena does not own.  Given memory *)
(* of an arena, it may do anything: the program has no behaviour from here.*)
FromLibc(b) == b.home = None

psolve_free(b) ==
  /\ Running /\ b \in blocks
  /\ blocks' = blocks \ {b}
  /\ ended' = IF Owned(b) \/ FromLibc(b) THEN ended ELSE "undefined"
  /\ UNCHANGED <<frameVars, psolve_arena_stack, used>>

(* An owned block moves within its arena; any other goes to libc realloc,  *)
(* where a failure frees the old block first.                              *)
psolve_realloc(b, n) ==
  /\ Running /\ ~Recovering /\ b \in blocks
  /\ \/ /\ Owned(b) /\ Fits(b.home, n)
        /\ blocks' = (blocks \ {b}) \union {ArenaBlock(b.home, n)}
        /\ Bump(b.home, n)
        /\ UNCHANGED <<frameVars, ended>>
     \/ /\ Owned(b) /\ ~Fits(b.home, n)
        /\ Unwind(PSOLVE_ERR_OOM)
        /\ UNCHANGED <<blocks, used>>
     \/ /\ ~Owned(b) /\ FromLibc(b)
        /\ blocks' = (blocks \ {b}) \union {[b EXCEPT !.size = n]}
        /\ UNCHANGED <<used, frameVars, ended>>
     \/ /\ ~Owned(b) /\ FromLibc(b)
        /\ blocks' = blocks \ {b}
        /\ Unwind(PSOLVE_ERR_OOM)
        /\ UNCHANGED used
     \/ /\ ~Owned(b) /\ ~FromLibc(b)
        /\ ended' = "undefined"
        /\ UNCHANGED <<frameVars, blocks, used>>
  /\ UNCHANGED psolve_arena_stack

Next ==
  \/ \E f \in Frames : psolve_frame_push(f)
  \/ psolve_frame_pop \/ HandlerReturns \/ psolve_fail
  \/ \E a \in Arenas : psolve_arena_use(a) \/ psolve_arena_reset(a)
  \/ psolve_arena_end
  \/ \E n \in Sizes : psolve_malloc(n)
  \/ \E b \in blocks : psolve_free(b)
  \/ \E b \in blocks, n \in Sizes : psolve_realloc(b, n)

Spec == Init /\ [][Next]_vars

----------------------------------------------------------------------------
(* Properties.                                                             *)

TypeOK ==
  /\ psv_frame_top \in Frames \union {None}
  /\ prev \in [Frames -> Frames \union {None}]
  /\ psv_fail_code \in {PSOLVE_OK, PSOLVE_ERR_OOM, PSOLVE_ERR_SOLVE}
  /\ calls \in Seq([frame : Frames \union {None}, at : {"base", "body", "handler"},
                    uses : Seq(Arenas)])
  /\ calls # << >>
  /\ psolve_arena_stack \in Seq(Arenas) /\ Len(psolve_arena_stack) <= MaxNest
  /\ used \in [Arenas -> 0 .. Cap]
  /\ \A b \in blocks : b \in [home : Arenas \union {None}, at : Nat, size : Nat]
  /\ ended \in {"no", "exit", "abort", "undefined"}

(* The chain that psolve_fail unwinds is exactly the host functions still  *)
(* in the body of their try, innermost first: a failure never longjmps     *)
(* into a function that has returned or is already recovering.             *)
Trying(i) == calls[i].at = "body"
EnclosingFrame(i) ==    \* of the innermost try outside calls[i]
  LET outer == {k \in 1 .. i - 1 : Trying(k)}
  IN  IF outer = {} THEN None
      ELSE calls[CHOOSE k \in outer : \A m \in outer : m <= k].frame

ChainIsCallStack ==
  /\ psv_frame_top = EnclosingFrame(Len(calls) + 1)
  /\ \A i \in DOMAIN calls : Trying(i) => prev[calls[i].frame] = EnclosingFrame(i)

(* err.h: use and end nest -- the active arena is the one the innermost    *)
(* use that has not ended named, whatever failures unwound meanwhile.  So  *)
(* it is for the bridge's arena; a use past MaxNest is dropped silently.   *)
ArenasNest == psolve_arena_stack = InUse

(* Blocks the host holds, with their headers, are disjoint and inside      *)
(* their arena's buffer, whatever arenas nested, blocks moved, requests    *)
(* failed and buffers were reset in between.                               *)
BlocksDisjoint ==
  \A b \in blocks : b.home # None =>
    /\ b.at + b.size <= Cap
    /\ \A o \in blocks : o.home = b.home /\ o # b =>
         b.at + b.size < o.at \/ o.at + o.size < b.at

(* err.h: "an active arena never sees a libc free() on arena memory".      *)
(* It does: in_active_arena knows neither the blocks of other arenas, nor  *)
(* an empty block at the end, nor those of a use that was dropped.         *)
LibcNeverSeesArenaMemory == ended # "undefined"
=============================================================================
