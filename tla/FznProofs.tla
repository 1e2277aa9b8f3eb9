----------------------------- MODULE FznProofs ------------------------------
(***************************************************************************)
(* The finite-domain search loses no solution and answers exactly, for     *)
(* every model, every sound propagation, every cap and every order of the  *)
(* branches; and it implements MipPromise.  Then the ladder above it: what *)
(* fznsolve prints is true, whichever engine decided, whatever was clamped,*)
(* downgraded, stamped or cut short -- a line that claims a proof has one. *)
(* Last, the big-M gates: they say of a form and a gate what the relation  *)
(* says.                                                                   *)
(***************************************************************************)
EXTENDS FznSolve, LinearRows, SequenceTheorems, TLAPS

Frames == [dom : Domains, var : Vars, rest : SUBSET Int]
AheadIn(s, p) == \E i \in DOMAIN s : p \in Box(s[i].dom) /\ p[s[i].var] \in s[i].rest

(* The inductive invariant, in parts.                                      *)

(* Before the search nothing has been done.                                *)
TryInv == pc = "try" => dom = csp.dom /\ stack = << >> /\ ~have /\ printed = << >>

(* At the root no leaf has been seen yet, and an incumbent is cut against  *)
(* only where there is one.                                                *)
NodeInv ==
  /\ Current /\ stack = << >> => ~have /\ printed = << >>
  /\ pc = "cut" => opt /\ have

(* What a call of cp_solve_rec that has returned says of the search.       *)
ReturnInv ==
  pc = "return" =>
    /\ ret = FOUND => ~all /\ ~opt /\ have
    /\ ret = DEAD /\ stack = << >> /\ (all \/ opt) => ~have /\ printed = << >>

(* Without an objective the first solution ends the search.                *)
ModeInv == have /\ ~opt => (pc = "return" /\ ret = FOUND) \/ pc = "done"

EngineInv ==
  /\ TypeOK /\ TryInv /\ NodeInv /\ ReturnInv /\ ModeInv
  /\ NothingPruned /\ AnswersAreExact

----------------------------------------------------------------------------
(* Boxes, the objective's order and the stack.                             *)

(* A box is every integer point whose coordinates lie in its domains.      *)
LEMMA BoxMember ==
  ASSUME NEW d \in Domains, NEW p
  PROVE  p \in Box(d) <=> p \in [Vars -> Int] /\ \A v \in Vars : p[v] \in d[v]
<1> DEFINE U == UNION {d[v] : v \in Vars}
<1>1. U \subseteq Int  BY DEF Domains
<1>2. \A v \in Vars : d[v] \subseteq U  OBVIOUS
<1>3. ASSUME p \in Box(d)
      PROVE  p \in [Vars -> Int] /\ \A v \in Vars : p[v] \in d[v]
  BY <1>1, <1>3 DEF Box
<1>4. ASSUME p \in [Vars -> Int], \A v \in Vars : p[v] \in d[v]
      PROVE  p \in Box(d)
  <2>1. p \in [Vars -> U]  BY <1>2, <1>4
  <2> QED BY <2>1, <1>4 DEF Box
<1> QED BY <1>3, <1>4

(* What TypeOK says of the model and the incumbent.                        *)
LEMMA ModelFacts ==
  ASSUME TypeOK
  PROVE  /\ CSPType(csp) /\ NoPoint \notin csp.sols
         /\ \A p \in csp.sols : csp.obj[p] \in Int /\ p \in Box(csp.dom)
         /\ have => bestx \in csp.sols
BY CSPsAssumption, NoPointAssumption DEF TypeOK, CSPType, have

(* The objective's strict order: irreflexive, and negatively transitive.   *)
LEMMA Order ==
  ASSUME NEW a \in Int, NEW b \in Int, NEW c \in Int
  PROVE  /\ ~Beats(a, a)
         /\ ~Beats(a, b) /\ Beats(c, b) => ~Beats(a, c)
BY DEF Beats

(* Pushing a frame keeps every branch still ahead, and adds its own.       *)
LEMMA AppendAhead ==
  ASSUME NEW s \in Seq(Frames), NEW f \in Frames, NEW p
  PROVE  /\ AheadIn(s, p) => AheadIn(Append(s, f), p)
         /\ p \in Box(f.dom) /\ p[f.var] \in f.rest => AheadIn(Append(s, f), p)
<1> DEFINE t == Append(s, f)
<1>1. /\ Len(t) = Len(s) + 1 /\ Len(s) \in Nat
      /\ DOMAIN t = 1 .. Len(t) /\ DOMAIN s = 1 .. Len(s)
      /\ t[Len(s) + 1] = f /\ \A i \in 1 .. Len(s) : t[i] = s[i]
  BY AppendProperties, LenProperties
<1>2. DOMAIN s \subseteq DOMAIN t /\ Len(s) + 1 \in DOMAIN t  BY <1>1
<1> QED BY <1>1, <1>2 DEF AheadIn

(* Popping a frame loses only the branches that frame still had.           *)
LEMMA FrontAhead ==
  ASSUME NEW s \in Seq(Frames), s # << >>, NEW p, AheadIn(s, p)
  PROVE  LET f == s[Len(s)]
         IN  \/ AheadIn(SubSeq(s, 1, Len(s) - 1), p)
             \/ p \in Box(f.dom) /\ p[f.var] \in f.rest
<1> DEFINE t == SubSeq(s, 1, Len(s) - 1)
<1>1. Len(s) \in Nat /\ Len(s) > 0 /\ DOMAIN s = 1 .. Len(s)
  BY EmptySeq, LenProperties
<1>2. DOMAIN t = 1 .. Len(s) - 1 /\ \A i \in 1 .. Len(s) - 1 : t[i] = s[i]
  BY <1>1, SubSeqProperties
<1>3. PICK i \in 1 .. Len(s) : p \in Box(s[i].dom) /\ p[s[i].var] \in s[i].rest
  BY <1>1 DEF AheadIn
<1>4. CASE i = Len(s)  BY <1>3, <1>4
<1>5. CASE i # Len(s)
  <2>1. i \in 1 .. Len(s) - 1
    <3> DEFINE n == Len(s)
    <3>1. n \in Nat /\ i \in 1 .. n /\ i # n  BY <1>1, <1>5
    <3> HIDE DEF n
    <3>2. i \in 1 .. n - 1  BY <3>1
    <3> QED BY <3>2 DEF n
  <2>2. i \in DOMAIN t /\ t[i] = s[i]  BY <1>2, <2>1
  <2> QED BY <1>3, <2>2 DEF AheadIn
<1> QED BY <1>4, <1>5

(* The top frame and the callers below it are frames.                      *)
LEMMA FrontTyped ==
  ASSUME NEW s \in Seq(Frames), s # << >>
  PROVE  s[Len(s)] \in Frames /\ SubSeq(s, 1, Len(s) - 1) \in Seq(Frames)
<1>1. Len(s) \in Nat /\ Len(s) > 0 /\ DOMAIN s = 1 .. Len(s)
  BY EmptySeq, LenProperties
<1>2. s[Len(s)] \in Frames  BY <1>1, ElementOfSeq
<1>3. SubSeq(s, 1, Len(s) - 1) \in Seq(Frames)
  <2>1. \A i \in 1 .. Len(s) - 1 : s[i] \in Frames  BY <1>1, ElementOfSeq
  <2> QED BY <1>1, <2>1, SubSeqProperties
<1> QED BY <1>2, <1>3

(* Ahead is AheadIn of the stack of now.                                   *)
LEMMA AheadHere ==
  ASSUME NEW p
  PROVE  /\ Ahead(p) <=> AheadIn(stack, p)
         /\ Ahead(p)' <=> AheadIn(stack', p)
         /\ ~AheadIn(<< >>, p)
BY DEF Ahead, AheadIn

(* A branch step loses nothing: the callers' branches stay, and a point of *)
(* the split domains is in the new node or in the new frame.               *)
LEMMA TryFacts ==
  ASSUME NEW callers \in Seq(Frames), NEW d \in Domains, NEW v \in Vars,
         NEW values \in SUBSET Int, Try(callers, d, v, values)
  PROVE  /\ pc' = "enter" /\ dom' \in Domains
         /\ stack' \in Seq(Frames) /\ stack' # << >>
         /\ \A p : AheadIn(callers, p) => AheadIn(stack', p)
         /\ \A p \in Box(d) : p[v] \in values => p \in Box(dom') \/ AheadIn(stack', p)
<1>1. PICK x \in values :
        /\ dom' = [d EXCEPT ![v] = {x}]
        /\ stack' = Append(callers, [dom |-> d, var |-> v, rest |-> values \ {x}])
        /\ pc' = "enter"
  BY DEF Try
<1> DEFINE f == [dom |-> d, var |-> v, rest |-> values \ {x}]
<1>2. f \in Frames /\ f.dom = d /\ f.var = v /\ f.rest = values \ {x}
  BY DEF Frames
<1>3. dom' \in Domains  BY <1>1 DEF Domains
<1>4. stack' \in Seq(Frames) /\ stack' # << >>
  BY <1>1, <1>2, AppendProperties
<1>5. \A p : AheadIn(callers, p) => AheadIn(stack', p)
  BY <1>1, <1>2, AppendAhead
<1>6. ASSUME NEW p \in Box(d), p[v] \in values
      PROVE  p \in Box(dom') \/ AheadIn(stack', p)
  <2>1. CASE p[v] = x
    <3>1. p \in [Vars -> Int] /\ \A w \in Vars : p[w] \in d[w]  BY BoxMember
    <3>2. \A w \in Vars : p[w] \in dom'[w]  BY <1>1, <2>1, <3>1 DEF Domains
    <3> QED BY <1>3, <3>1, <3>2, BoxMember
  <2>2. CASE p[v] # x
    <3>1. p \in Box(f.dom) /\ p[f.var] \in f.rest  BY <1>2, <1>6, <2>2
    <3> QED BY <1>1, <1>2, <3>1, AppendAhead
  <2> QED BY <2>1, <2>2
<1> QED BY <1>1, <1>3, <1>4, <1>5, <1>6

(* Propagation keeps every solution of the node.                           *)
LEMMA ContractionFacts ==
  ASSUME TypeOK, NEW d \in Domains, NEW e \in Contractions(d)
  PROVE  /\ e \in Domains
         /\ \A p \in csp.sols : p \in Box(d) => p \in Box(e)
<1>1. e \in Domains  BY DEF Contractions, Domains
<1>2. ASSUME NEW p \in csp.sols, p \in Box(d)
      PROVE  p \in Box(e)
  <2>1. \A v \in Vars : p[v] \in e[v]  BY <1>2 DEF Contractions, Solutions
  <2> QED BY <1>1, <1>2, <2>1, BoxMember
<1> QED BY <1>1, <1>2

(* The incumbent's cut keeps every point that beats the incumbent.         *)
LEMMA CutFacts ==
  ASSUME TypeOK
  PROVE  /\ Tightened \in Domains
         /\ \A p \in Box(dom) : Better(p) => ~Hopeless /\ p \in Box(Tightened)
<1>1. Tightened \in Domains
  <2>1. \A v \in Vars : dom[v] \subseteq Int  BY DEF TypeOK, Domains
  <2>2. \A v \in Vars : Winning(v) \subseteq dom[v]  BY DEF Winning
  <2> QED BY <2>1, <2>2 DEF Tightened, Domains
<1>2. ASSUME NEW p \in Box(dom), Better(p)
      PROVE  ~Hopeless /\ p \in Box(Tightened)
  <2>1. p \in [Vars -> Int] /\ \A v \in Vars : p[v] \in dom[v]
    BY BoxMember DEF TypeOK
  <2>2. \A v \in Vars : p[v] \in Tightened[v]
    BY <1>2, <2>1 DEF Tightened, Winning
  <2>3. ~Hopeless  BY <1>2 DEF Hopeless
  <2> QED BY <1>1, <2>1, <2>2, <2>3, BoxMember
<1> QED BY <1>1, <1>2

(* The model never changes, and with it neither do the mode and the order. *)
LEMMA ModelFixed ==
  ASSUME [Next]_vars
  PROVE  /\ csp' = csp /\ (all' <=> all) /\ (opt' <=> opt)
         /\ \A p : Output(p)' = Output(p)
         /\ bestx' = bestx => (have' <=> have) /\ \A p : Better(p)' <=> Better(p)
<1>1. csp' = csp
  BY DEF Next, vars, Decline, Refute, Search, Enter, Propagate, Cut, Branch,
     LeafTooWide, Leaf, Pop, Unwind, Answer, FallBack
<1> QED BY <1>1 DEF all, opt, have, Output, Better, Beats

----------------------------------------------------------------------------
(* The parts of the invariant, one step lemma each.                        *)

(* Every step keeps the types.                                             *)
LEMMA TypeStep ==
  ASSUME TypeOK, [Next]_vars
  PROVE  TypeOK'
<1> USE DEF DEAD, FOUND, DONE, LIMIT, GIVEUP, SAT, UNSAT, UNKNOWN, NODECAP, Return
<1> DEFINE Outs == {Output(p) : p \in csp.sols}
<1>t. /\ csp \in CSPs /\ dom \in Domains /\ stack \in Seq(Frames)
      /\ bestx \in csp.sols \union {NoPoint} /\ printed \in Seq(Outs)
      /\ cp_nodes \in Nat
  BY DEF TypeOK, Frames
<1>m. csp' = csp /\ \A p : Output(p)' = Output(p)  BY ModelFixed
<1>o. {Output(p) : p \in csp.sols}' = Outs  BY <1>m
<1> SUFFICES /\ pc' \in {"try", "enter", "propagate", "cut", "repropagate", "branch",
                         "return", "done", "fallback"}
             /\ dom' \in Domains /\ stack' \in Seq(Frames)
             /\ ret' \in {DEAD, FOUND, DONE, LIMIT, GIVEUP}
             /\ cp_nodes' \in Nat
             /\ bestx' \in csp.sols \union {NoPoint}
             /\ printed' \in Seq(Outs)
             /\ status' \in {SAT, UNSAT, UNKNOWN, NODECAP}
  BY <1>t, <1>m, <1>o DEF TypeOK, Frames
<1> HIDE DEF Outs
<1>1. CASE Decline  BY <1>t, <1>1 DEF Decline, TypeOK
<1>2. CASE Refute  BY <1>t, <1>2 DEF Refute, TypeOK
<1>3. CASE Search  BY <1>t, <1>3, ContractionFacts DEF Search, TypeOK
<1>4. CASE Enter  BY <1>t, <1>4 DEF Enter, TypeOK
<1>5. CASE Propagate
  <2>1. dom' \in Domains  BY <1>t, <1>5, ContractionFacts DEF Propagate
  <2> QED BY <1>t, <1>5, <2>1 DEF Propagate, TypeOK
<1>6. CASE Cut
  <2>1. dom' \in Domains  BY <1>t, <1>6, CutFacts DEF Cut
  <2> QED BY <1>t, <1>6, <2>1 DEF Cut, TypeOK
<1>7. CASE Branch
  <2>1. PICK v \in Vars : Try(stack, dom, v, dom[v])  BY <1>7 DEF Branch, Unfixed
  <2>2. dom[v] \in SUBSET Int  BY <1>t DEF Domains
  <2>3. pc' = "enter" /\ dom' \in Domains /\ stack' \in Seq(Frames)
    BY <1>t, <2>1, <2>2, TryFacts
  <2> QED BY <1>t, <1>7, <2>3 DEF Branch, TypeOK
<1>8. CASE LeafTooWide  BY <1>t, <1>8 DEF LeafTooWide, TypeOK
<1>9. CASE Leaf
  <2>1. PICK p \in Box(dom) :
          IF ~cp_verify(p) THEN Return(GIVEUP) /\ UNCHANGED <<bestx, printed>>
          ELSE IF opt THEN Return(DONE) /\ Score(p) /\ UNCHANGED printed
          ELSE IF all THEN /\ Return(DONE)
                           /\ printed' = IF Output(p) \in Printed THEN printed
                                         ELSE Append(printed, Output(p))
                           /\ UNCHANGED bestx
          ELSE Return(FOUND) /\ bestx' = p /\ UNCHANGED printed
    BY <1>9 DEF Leaf
  <2>2. bestx' \in csp.sols \union {NoPoint}
    BY <1>t, <2>1 DEF cp_verify, Score
  <2>3. printed' \in Seq(Outs)
    <3>1. CASE printed' = printed  BY <1>t, <3>1
    <3>2. CASE printed' # printed
      <4>1. cp_verify(p) /\ printed' = Append(printed, Output(p))  BY <2>1, <3>2
      <4>2. Output(p) \in Outs  BY <4>1 DEF cp_verify, Outs
      <4> QED BY <1>t, <4>1, <4>2, AppendProperties
    <3> QED BY <3>1, <3>2
  <2>4. pc' = "return" /\ ret' \in {DEAD, FOUND, DONE, LIMIT, GIVEUP}  BY <2>1
  <2> QED BY <1>t, <1>9, <2>2, <2>3, <2>4 DEF Leaf, TypeOK
<1>10. CASE Pop
  <2> DEFINE frame == stack[Len(stack)]  callers == SubSeq(stack, 1, Len(stack) - 1)
  <2>1. frame \in Frames /\ callers \in Seq(Frames)
    BY <1>t, <1>10, FrontTyped DEF Pop
  <2>2. /\ frame.dom \in Domains /\ frame.var \in Vars /\ frame.rest \in SUBSET Int
    BY <2>1 DEF Frames
  <2> HIDE DEF frame, callers
  <2>3. CASE Try(callers, frame.dom, frame.var, frame.rest)
    <3>1. pc' = "enter" /\ dom' \in Domains /\ stack' \in Seq(Frames)
      BY <2>1, <2>2, <2>3, TryFacts
    <3> QED BY <1>t, <1>10, <3>1 DEF Pop, TypeOK
  <2>4. CASE ~Try(callers, frame.dom, frame.var, frame.rest)
    <3>1. stack' = callers /\ pc' = pc /\ dom' = dom /\ ret' \in {DONE, DEAD}
      BY <1>10, <2>4 DEF Pop, frame, callers
    <3> QED BY <1>t, <1>10, <2>1, <3>1 DEF Pop, TypeOK
  <2> QED BY <2>3, <2>4
<1>11. CASE Unwind
  <2>1. << >> \in Seq(Frames)  BY EmptySeq
  <2> QED BY <1>t, <1>11, <2>1 DEF Unwind, TypeOK
<1>12. CASE Answer  BY <1>t, <1>12 DEF Answer, TypeOK
<1>13. CASE FallBack  BY <1>t, <1>13 DEF FallBack, TypeOK
<1>14. CASE UNCHANGED vars  BY <1>t, <1>14 DEF vars, TypeOK
<1> QED BY <1>1, <1>2, <1>3, <1>4, <1>5, <1>6, <1>7, <1>8, <1>9, <1>10, <1>11, <1>12,
           <1>13, <1>14 DEF Next

(* Where the search stands, and what it has found by then.                 *)
LEMMA ControlStep ==
  ASSUME TypeOK, TryInv, NodeInv, ReturnInv, ModeInv, [Next]_vars
  PROVE  TryInv' /\ NodeInv' /\ ReturnInv' /\ ModeInv'
<1> USE DEF DEAD, FOUND, DONE, LIMIT, GIVEUP, Return, Current, TryInv, NodeInv, ReturnInv,
            ModeInv, have
<1>m. csp' = csp /\ (all' <=> all) /\ (opt' <=> opt) /\ ~(all /\ opt)
  BY ModelFixed DEF all, opt
<1>t. stack \in Seq(Frames) /\ dom \in Domains  BY DEF TypeOK, Frames
<1>1. CASE Decline  BY <1>m, <1>1 DEF Decline
<1>2. CASE Refute  BY <1>m, <1>2 DEF Refute
<1>3. CASE Search  BY <1>m, <1>3 DEF Search
<1>4. CASE Enter  BY <1>m, <1>4 DEF Enter
<1>5. CASE Propagate  BY <1>m, <1>5 DEF Propagate
<1>6. CASE Cut  BY <1>m, <1>6 DEF Cut
<1>7. CASE Branch
  <2>1. PICK v \in Vars : Try(stack, dom, v, dom[v])  BY <1>7 DEF Branch, Unfixed
  <2>2. dom[v] \in SUBSET Int  BY <1>t DEF Domains
  <2>3. pc' = "enter" /\ stack' # << >>  BY <1>t, <2>1, <2>2, TryFacts
  <2> QED BY <1>m, <1>7, <2>3 DEF Branch
<1>8. CASE LeafTooWide  BY <1>m, <1>8 DEF LeafTooWide
<1>9. CASE Leaf
  <2>1. /\ pc = "branch" /\ pc' = "return" /\ ret' # DEAD
        /\ ret' = FOUND => (~all /\ ~opt /\ bestx' # NoPoint)
        /\ (~opt /\ bestx' # bestx) => ret' = FOUND
    <3>1. PICK p \in Box(dom) :
            IF ~cp_verify(p) THEN Return(GIVEUP) /\ UNCHANGED <<bestx, printed>>
            ELSE IF opt THEN Return(DONE) /\ Score(p) /\ UNCHANGED printed
            ELSE IF all THEN /\ Return(DONE)
                             /\ printed' = IF Output(p) \in Printed THEN printed
                                           ELSE Append(printed, Output(p))
                             /\ UNCHANGED bestx
            ELSE Return(FOUND) /\ bestx' = p /\ UNCHANGED printed
      BY <1>9 DEF Leaf
    <3>2. cp_verify(p) => p # NoPoint  BY ModelFacts DEF cp_verify
    <3> QED BY <1>9, <3>1, <3>2 DEF Leaf
  <2> QED BY <1>m, <1>9, <2>1
<1>10. CASE Pop
  <2> DEFINE frame == stack[Len(stack)]  callers == SubSeq(stack, 1, Len(stack) - 1)
  <2>1. /\ callers \in Seq(Frames) /\ frame.dom \in Domains
        /\ frame.var \in Vars /\ frame.rest \in SUBSET Int
    BY <1>t, <1>10, FrontTyped DEF Pop, Frames
  <2> HIDE DEF frame, callers
  <2>2. CASE Try(callers, frame.dom, frame.var, frame.rest)
    <3>1. pc' = "enter" /\ stack' # << >>  BY <2>1, <2>2, TryFacts
    <3> QED BY <1>m, <1>10, <3>1 DEF Pop
  <2>3. CASE ~Try(callers, frame.dom, frame.var, frame.rest)
    <3>1. pc' = "return" /\ ret' = IF all \/ opt THEN DONE ELSE DEAD
      BY <1>10, <2>3 DEF Pop, frame, callers
    <3> QED BY <1>m, <1>10, <3>1 DEF Pop
  <2> QED BY <2>2, <2>3
<1>11. CASE Unwind  BY <1>m, <1>11 DEF Unwind
<1>12. CASE Answer  BY <1>m, <1>12 DEF Answer
<1>13. CASE FallBack  BY <1>m, <1>13 DEF FallBack
<1>14. CASE UNCHANGED vars  BY <1>m, <1>14 DEF vars
<1> QED BY <1>1, <1>2, <1>3, <1>4, <1>5, <1>6, <1>7, <1>8, <1>9, <1>10, <1>11, <1>12,
           <1>13, <1>14 DEF Next

(* Where the search may find a solution p, at one state.                   *)
Kept(p) ==
  \/ Current /\ p \in Box(dom)
  \/ AheadIn(stack, p)
  \/ all /\ Output(p) \in Printed
  \/ opt /\ have /\ ~Better(p)

(* NothingPruned in terms of Kept.                                         *)
LEMMA CoverIs ==
  /\ NothingPruned <=> (Searching => \A p \in csp.sols : Kept(p))
  /\ csp' = csp => (NothingPruned' <=> (Searching' => \A p \in csp.sols : Kept(p)'))
<1>1. \A p : Ahead(p) <=> AheadIn(stack, p)  BY AheadHere
<1>2. \A p : Ahead(p)' <=> AheadIn(stack', p)  BY AheadHere
<1>3. \A p : AheadIn(stack, p)' <=> AheadIn(stack', p)  BY DEF AheadIn, Box
<1> QED BY <1>1, <1>2, <1>3 DEF NothingPruned, Kept

(* A leaf scores, prints or returns its point, and keeps what it had.      *)
LEMMA LeafKeeps ==
  ASSUME TypeOK, ModeInv, Leaf, NEW q \in csp.sols, Kept(q), Searching'
  PROVE  Kept(q)'
<1> USE DEF Return, DEAD, FOUND, DONE, LIMIT, GIVEUP
<1>m. /\ csp' = csp /\ (all' <=> all) /\ (opt' <=> opt) /\ Output(q)' = Output(q)
      /\ stack' = stack /\ pc' = "return" /\ pc = "branch"
  <2>1. [Next]_vars  BY DEF Next
  <2> QED BY <2>1, ModelFixed DEF Leaf
<1>1. PICK p \in Box(dom) :
        IF ~cp_verify(p) THEN Return(GIVEUP) /\ UNCHANGED <<bestx, printed>>
        ELSE IF opt THEN Return(DONE) /\ Score(p) /\ UNCHANGED printed
        ELSE IF all THEN /\ Return(DONE)
                         /\ printed' = IF Output(p) \in Printed THEN printed
                                       ELSE Append(printed, Output(p))
                         /\ UNCHANGED bestx
        ELSE Return(FOUND) /\ bestx' = p /\ UNCHANGED printed
  BY DEF Leaf
<1>2. p \in csp.sols /\ (opt \/ all)
  BY <1>1, <1>m DEF Searching, Current, cp_verify
<1>3. q \in Box(dom) => q = p
  <2> SUFFICES ASSUME q \in Box(dom) PROVE q = p  OBVIOUS
  <2>1. /\ q \in [Vars -> Int] /\ \A v \in Vars : q[v] \in dom[v]
        /\ p \in [Vars -> Int] /\ \A v \in Vars : p[v] \in dom[v]
    BY BoxMember DEF TypeOK
  <2>2. \A v \in Vars : q[v] = p[v]  BY <2>1 DEF Leaf, cp_fixed
  <2> QED BY <2>1, <2>2
<1>4. AheadIn(stack, q) => AheadIn(stack, q)'  BY <1>m DEF AheadIn, Box
<1>5. CASE opt
  <2>1. bestx' = IF ~have \/ Better(p) THEN p ELSE bestx
    BY <1>1, <1>2, <1>5 DEF Score, cp_verify
  <2>2. /\ csp.obj[p] \in Int /\ csp.obj[q] \in Int /\ p # NoPoint
        /\ have => csp.obj[bestx] \in Int
    BY <1>2, ModelFacts
  <2>3. have'  BY <2>1, <2>2 DEF have
  <2>4. Better(q)' <=> Beats(csp.obj[q], csp.obj[bestx'])  BY <1>m DEF Better, Beats
  <2>5. (q = p \/ (have /\ ~Better(q))) => ~Better(q)'
    BY <2>1, <2>2, <2>4, Order DEF Better
  <2>6. opt'  BY <1>m, <1>5
  <2>7. ~all  BY <1>5 DEF opt, all
  <2> QED BY <1>3, <1>4, <2>3, <2>5, <2>6, <2>7 DEF Kept
<1>6. CASE ~opt
  <2>1. printed' = IF Output(p) \in Printed THEN printed ELSE Append(printed, Output(p))
    BY <1>1, <1>2, <1>6 DEF cp_verify
  <2>2. printed \in Seq({Output(r) : r \in csp.sols})  BY DEF TypeOK
  <2>3. Printed \subseteq Printed' /\ Output(p) \in Printed'
    <3>1. CASE Output(p) \in Printed  BY <2>1, <3>1 DEF Printed
    <3>2. CASE Output(p) \notin Printed
      <4> DEFINE t == Append(printed, Output(p))
      <4>1. Output(p) \in {Output(r) : r \in csp.sols}  BY <1>2
      <4>2. /\ Len(t) = Len(printed) + 1 /\ Len(printed) \in Nat
            /\ DOMAIN t = 1 .. Len(t) /\ DOMAIN printed = 1 .. Len(printed)
            /\ t[Len(printed) + 1] = Output(p)
            /\ \A i \in 1 .. Len(printed) : t[i] = printed[i]
        BY <2>2, <4>1, AppendProperties, LenProperties
      <4>3. printed' = t  BY <2>1, <3>2
      <4> HIDE DEF t
      <4>4. /\ DOMAIN printed \subseteq DOMAIN printed'
            /\ Len(printed) + 1 \in DOMAIN printed'
        BY <4>2, <4>3
      <4>5. \A i \in DOMAIN printed : printed'[i] = printed[i]  BY <4>2, <4>3
      <4>6. printed'[Len(printed) + 1] = Output(p)  BY <4>2, <4>3
      <4> QED BY <4>4, <4>5, <4>6 DEF Printed
    <3> QED BY <3>1, <3>2
  <2> QED BY <1>m, <1>2, <1>3, <1>4, <1>6, <2>3 DEF Kept
<1> QED BY <1>5, <1>6

(* No step loses a solution: NothingPruned is preserved.                   *)
LEMMA CoverStep ==
  ASSUME TypeOK, TryInv, NodeInv, ReturnInv, ModeInv, NothingPruned, [Next]_vars
  PROVE  NothingPruned'
<1> USE DEF DEAD, FOUND, DONE, LIMIT, GIVEUP, Return, Current, Searching
<1>m. csp' = csp /\ (all' <=> all) /\ (opt' <=> opt) /\ \A p : Output(p)' = Output(p)
  BY ModelFixed
<1> SUFFICES ASSUME Searching', NEW q \in csp.sols
             PROVE  Kept(q)'
  BY <1>m, CoverIs
<1>t. /\ stack \in Seq(Frames) /\ dom \in Domains /\ csp \in CSPs
      /\ q \in Box(csp.dom)
  BY ModelFacts DEF TypeOK, Frames
<1>k. Searching => Kept(q)  BY CoverIs
<1>b. ASSUME bestx' = bestx, printed' = printed
      PROVE  (all /\ Output(q) \in Printed) \/ (opt /\ have /\ ~Better(q)) => Kept(q)'
  BY <1>m, <1>b, ModelFixed DEF Kept, Printed
<1>a. stack' = stack => (AheadIn(stack, q) => AheadIn(stack, q)')
  BY DEF AheadIn, Box
<1>p. /\ AheadIn(stack, q)' <=> AheadIn(stack', q)
      /\ (q \in Box(dom))' <=> q \in Box(dom')
  BY DEF AheadIn, Box
<1>1. CASE Decline  BY <1>1 DEF Decline
<1>2. CASE Refute  BY <1>2 DEF Refute
<1>3. CASE Search
  <2>1. q \in Box(dom')
    BY <1>t, <1>3, ContractionFacts DEF Search, TryInv
  <2> QED BY <1>3, <1>p, <2>1 DEF Search, Kept
<1>4. CASE Enter
  <2>1. pc = "enter" /\ pc' = "propagate" /\ UNCHANGED <<dom, stack, bestx, printed>>
    BY <1>4 DEF Enter
  <2> QED BY <1>k, <1>b, <1>a, <1>p, <2>1 DEF Kept
<1>5. CASE Propagate
  <2>1. q \in Box(dom) => pc' # "return" /\ q \in Box(dom')
    BY <1>t, <1>5, ContractionFacts DEF Propagate, Solutions
  <2>2. Searching /\ UNCHANGED <<stack, bestx, printed>> /\ (pc' # "return" => Current')
    BY <1>5 DEF Propagate
  <2> QED BY <1>k, <1>b, <1>a, <1>p, <2>1, <2>2 DEF Kept
<1>6. CASE Cut
  <2>1. /\ Searching /\ UNCHANGED <<stack, bestx, printed>> /\ opt /\ have
        /\ pc' # "return" => (Current' /\ dom' = Tightened)
        /\ pc' = "return" => Hopeless \/ \E v \in Vars : Tightened[v] = {}
    BY <1>6 DEF Cut, NodeInv
  <2>2. q \in Box(dom) /\ Better(q) => pc' # "return" /\ q \in Box(dom')
    <3> SUFFICES ASSUME q \in Box(dom), Better(q)
                 PROVE  pc' # "return" /\ q \in Box(dom')
      OBVIOUS
    <3>1. ~Hopeless /\ q \in Box(Tightened) /\ Tightened \in Domains  BY CutFacts
    <3>2. \A v \in Vars : Tightened[v] # {}  BY <3>1, BoxMember
    <3> QED BY <2>1, <3>1, <3>2
  <2> QED BY <1>k, <1>b, <1>a, <1>p, <2>1, <2>2 DEF Kept
<1>7. CASE Branch
  <2>1. PICK v \in Vars : Try(stack, dom, v, dom[v])  BY <1>7 DEF Branch, Unfixed
  <2>2. dom[v] \in SUBSET Int  BY <1>t DEF Domains
  <2>3. /\ pc' = "enter"
        /\ AheadIn(stack, q) => AheadIn(stack', q)
        /\ q \in Box(dom) /\ q[v] \in dom[v] => q \in Box(dom') \/ AheadIn(stack', q)
    BY <1>t, <2>1, <2>2, TryFacts
  <2>4. q \in Box(dom) => q[v] \in dom[v]  BY <1>t, BoxMember
  <2>5. Searching /\ UNCHANGED <<bestx, printed>>  BY <1>7 DEF Branch
  <2> QED BY <1>k, <1>b, <1>p, <2>3, <2>4, <2>5 DEF Kept
<1>8. CASE LeafTooWide  BY <1>8 DEF LeafTooWide
<1>9. CASE Leaf
  <2>1. Searching  BY <1>9 DEF Leaf
  <2> QED BY <1>k, <1>9, <2>1, LeafKeeps
<1>10. CASE Pop
  <2> DEFINE frame == stack[Len(stack)]  callers == SubSeq(stack, 1, Len(stack) - 1)
  <2>1. /\ callers \in Seq(Frames) /\ frame.dom \in Domains
        /\ frame.var \in Vars /\ frame.rest \in SUBSET Int
        /\ stack # << >>
    BY <1>t, <1>10, FrontTyped DEF Pop, Frames
  <2>2. AheadIn(stack, q) =>
          AheadIn(callers, q) \/ (q \in Box(frame.dom) /\ q[frame.var] \in frame.rest)
    BY <1>t, <2>1, FrontAhead
  <2>3. Searching /\ pc = "return" /\ UNCHANGED <<bestx, printed>>  BY <1>10 DEF Pop
  <2>4. \/ frame.rest = {} /\ stack' = callers
        \/ Try(callers, frame.dom, frame.var, frame.rest)
    BY <1>10 DEF Pop
  <2> HIDE DEF frame, callers
  <2>5. CASE Try(callers, frame.dom, frame.var, frame.rest)
    <3>1. /\ pc' = "enter"
          /\ AheadIn(callers, q) => AheadIn(stack', q)
          /\ q \in Box(frame.dom) /\ q[frame.var] \in frame.rest =>
               q \in Box(dom') \/ AheadIn(stack', q)
      BY <2>1, <2>5, TryFacts
    <3> QED BY <1>k, <1>b, <1>p, <2>2, <2>3, <3>1 DEF Kept
  <2>6. CASE frame.rest = {} /\ stack' = callers
    BY <1>k, <1>b, <1>p, <2>2, <2>3, <2>6 DEF Kept
  <2> QED BY <2>4, <2>5, <2>6
<1>11. CASE Unwind  BY <1>11 DEF Unwind
<1>12. CASE Answer  BY <1>12 DEF Answer
<1>13. CASE FallBack  BY <1>13 DEF FallBack
<1>14. CASE UNCHANGED vars
  <2>1. UNCHANGED <<pc, ret, dom, stack, bestx, printed>>  BY <1>14 DEF vars
  <2> QED BY <1>k, <1>b, <1>a, <1>p, <2>1 DEF Kept
<1> QED BY <1>1, <1>2, <1>3, <1>4, <1>5, <1>6, <1>7, <1>8, <1>9, <1>10, <1>11, <1>12,
           <1>13, <1>14 DEF Next

(* The engine prints no output twice.                                      *)
Distinct == pc # "fallback" => \A i, k \in DOMAIN printed : printed[i] = printed[k] => i = k

(* Only a leaf prints, and only an output not printed before.              *)
LEMMA DistinctStep ==
  ASSUME TypeOK, Distinct, [Next]_vars
  PROVE  Distinct'
<1>1. CASE printed' = printed
  <2>1. pc' # "fallback" => pc # "fallback"
    BY DEF Next, vars, Decline, Refute, Search, Enter, Propagate, Cut, Branch,
       LeafTooWide, Leaf, Pop, Unwind, Answer, FallBack
  <2> QED BY <1>1, <2>1 DEF Distinct
<1>2. CASE printed' # printed
  <2>1. Leaf
    BY <1>2 DEF Next, vars, Decline, Refute, Search, Enter, Propagate, Cut, Branch,
       LeafTooWide, Pop, Unwind, Answer, FallBack
  <2>2. PICK p \in Box(dom) :
          /\ cp_verify(p) /\ Output(p) \notin Printed
          /\ printed' = Append(printed, Output(p))
    BY <1>2, <2>1 DEF Leaf
  <2> DEFINE Outs == {Output(r) : r \in csp.sols}  o == Output(p)  n == Len(printed)
  <2>3. printed \in Seq(Outs) /\ o \in Outs  BY <2>2 DEF TypeOK, cp_verify
  <2>4. /\ n \in Nat /\ DOMAIN printed = 1 .. n /\ Len(printed') = n + 1
        /\ DOMAIN printed' = 1 .. Len(printed') /\ printed'[n + 1] = o
        /\ \A i \in 1 .. n : printed'[i] = printed[i]
    <3> HIDE DEF Outs, o
    <3>1. printed' = Append(printed, o)  BY <2>2 DEF o
    <3> QED BY <2>3, <3>1, AppendProperties, LenProperties
  <2>5. \A i \in DOMAIN printed : printed[i] # o  BY <2>2 DEF Printed
  <2> HIDE DEF n, o
  <2>6. \A i \in 1 .. n + 1 : i \in 1 .. n \/ i = n + 1  BY <2>4
  <2>7. pc = "branch"  BY <2>1 DEF Leaf
  <2> QED BY <2>4, <2>5, <2>6, <2>7 DEF Distinct
<1> QED BY <1>1, <1>2

(* A step that ends the engine answers exactly.                            *)
LEMMA AnswerStep ==
  ASSUME TypeOK, TryInv, ReturnInv, NothingPruned, AnswersAreExact, [Next]_vars
  PROVE  AnswersAreExact'
<1> USE DEF DEAD, FOUND, DONE, LIMIT, GIVEUP, SAT, UNSAT, UNKNOWN, NODECAP
<1>m. csp' = csp /\ (all' <=> all) /\ (opt' <=> opt) /\ \A p : Output(p)' = Output(p)
  BY ModelFixed
<1>x. ~(all /\ opt)  BY DEF all, opt
<1>d. Distinct'
  BY DistinctStep DEF Distinct, AnswersAreExact, EnumerationComplete
<1> SUFFICES ASSUME pc' = "done"
             PROVE  /\ status' = UNSAT => csp.sols = {}
                    /\ status' = SAT /\ opt =>
                         bestx' \in csp.sols /\ \A p \in csp.sols : ~Better(p)'
                    /\ status' = SAT /\ all => Printed' = {Output(p) : p \in csp.sols}
  <2>1. {Output(p) : p \in csp.sols}' = {Output(p) : p \in csp.sols}  BY <1>m
  <2> QED BY <1>m, <1>d, <2>1
       DEF AnswersAreExact, UnsatIsProof, OptimumIsExact, EnumerationComplete, Distinct
<1>1. CASE Refute
  <2>1. \A p \in csp.sols : p \in Box(dom)
    BY <1>1, ModelFacts DEF Refute, TryInv
  <2>2. csp.sols = {}  BY <1>1, <2>1 DEF Refute, Solutions
  <2> QED BY <1>1, <2>2 DEF Refute
<1>2. CASE Answer
  <2>1. /\ pc = "return" /\ stack = << >> /\ UNCHANGED <<csp, bestx, printed>>
        /\ \/ ret = FOUND \/ (opt /\ ret = DONE /\ have)
           \/ status' = UNSAT /\ (ret = DEAD \/ (opt /\ ret = DONE /\ ~have))
           \/ all /\ ret = DONE /\ status' = SAT
           \/ all /\ ret = LIMIT /\ status' = NODECAP
        /\ ret = FOUND \/ (opt /\ ret = DONE /\ have) => status' # UNSAT
    BY <1>2, <1>x DEF Answer, ReturnInv
  <2>2. ret \in {DEAD, DONE} => \A p \in csp.sols :
          (all /\ Output(p) \in Printed) \/ (opt /\ have /\ ~Better(p))
    BY <2>1, CoverIs, AheadHere DEF Searching, Current, Kept
  <2>3. status' = UNSAT => csp.sols = {}
    <3> SUFFICES ASSUME status' = UNSAT, NEW p \in csp.sols PROVE FALSE  OBVIOUS
    <3>1. ret = DEAD \/ (opt /\ ret = DONE /\ ~have)  BY <2>1
    <3>2. CASE ret = DEAD
      <4>1. (all /\ Output(p) \in Printed) \/ (opt /\ have)  BY <2>2, <3>2
      <4>2. ~have /\ printed = << >>  BY <2>1, <3>2, <4>1 DEF ReturnInv
      <4>3. Printed = {}  BY <4>2 DEF Printed
      <4> QED BY <4>1, <4>2, <4>3
    <3>3. CASE opt /\ ret = DONE /\ ~have  BY <1>x, <2>2, <3>3
    <3> QED BY <3>1, <3>2, <3>3
  <2>4. status' = SAT /\ opt => bestx' \in csp.sols /\ \A p \in csp.sols : ~Better(p)'
    <3> SUFFICES ASSUME status' = SAT, opt
                 PROVE  bestx' \in csp.sols /\ \A p \in csp.sols : ~Better(p)'
      OBVIOUS
    <3>1. ret = DONE /\ have  BY <1>x, <2>1 DEF ReturnInv
    <3>2. \A p \in csp.sols : ~Better(p)  BY <1>x, <2>2, <3>1
    <3> QED BY <2>1, <3>1, <3>2, ModelFacts, ModelFixed
  <2>5. status' = SAT /\ all => Printed' = {Output(p) : p \in csp.sols}
    <3> SUFFICES ASSUME status' = SAT, all
                 PROVE  Printed' = {Output(p) : p \in csp.sols}
      OBVIOUS
    <3>1. ret = DONE  BY <1>x, <2>1 DEF ReturnInv
    <3>2. {Output(p) : p \in csp.sols} \subseteq Printed  BY <1>x, <2>2, <3>1
    <3>3. Printed \subseteq {Output(p) : p \in csp.sols}
      <4>1. printed \in Seq({Output(p) : p \in csp.sols})  BY DEF TypeOK
      <4>2. \A i \in DOMAIN printed : printed[i] \in {Output(p) : p \in csp.sols}
        BY <4>1, ElementOfSeq, LenProperties
      <4> QED BY <4>2 DEF Printed
    <3>4. Printed' = Printed  BY <2>1 DEF Printed
    <3> QED BY <3>2, <3>3, <3>4
  <2> QED BY <2>3, <2>4, <2>5
<1>3. CASE UNCHANGED vars
  BY <1>3, <1>m DEF vars, AnswersAreExact, UnsatIsProof, OptimumIsExact,
     EnumerationComplete, Printed, Better, Beats
<1>4. Refute \/ Answer \/ UNCHANGED vars
  BY DEF Next, Decline, Search, Enter, Propagate, Cut, Branch, Try, Return,
     LeafTooWide, Leaf, Pop, Unwind, FallBack
<1> QED BY <1>1, <1>2, <1>3, <1>4

----------------------------------------------------------------------------
(* The theorems.                                                           *)

(* The invariant holds before fz_cp_try and every step keeps it.           *)
LEMMA EngineInit == Init => EngineInv
<1> SUFFICES ASSUME Init PROVE EngineInv  OBVIOUS
<1>1. CSPType(csp)  BY CSPsAssumption DEF Init
<1>2. TypeOK
  <2>1. << >> \in Seq(Frames) /\ << >> \in Seq({Output(p) : p \in csp.sols})  BY EmptySeq
  <2>2. csp.dom \in Domains  BY <1>1 DEF CSPType, Domains
  <2> QED BY <2>1, <2>2 DEF Init, TypeOK, Frames, DEAD, SAT
<1>3. TryInv /\ NodeInv /\ ReturnInv /\ ModeInv
  BY DEF Init, TryInv, NodeInv, ReturnInv, ModeInv, Current, have
<1>4. NothingPruned  BY DEF Init, NothingPruned, Searching, Current
<1>5. AnswersAreExact
  BY DEF Init, AnswersAreExact, UnsatIsProof, OptimumIsExact, EnumerationComplete
<1> QED BY <1>2, <1>3, <1>4, <1>5 DEF EngineInv

LEMMA EngineStep == EngineInv /\ [Next]_vars => EngineInv'
BY TypeStep, ControlStep, CoverStep, AnswerStep DEF EngineInv

(* The invariant holds in every reachable state of the engine.             *)
THEOREM EngineCorrect == Spec => []EngineInv
BY EngineInit, EngineStep, PTL DEF Spec

(* While cp_solve_rec may still answer, no solution is lost.               *)
THEOREM SearchPrunesNothing == Spec => []NothingPruned
<1>1. EngineInv => NothingPruned  BY DEF EngineInv
<1> QED BY <1>1, EngineCorrect, PTL

(* What fz_cp_try answers -- refutation, optimum, enumeration -- is exact. *)
THEOREM EngineAnswersExactly == Spec => []AnswersAreExact
<1>1. EngineInv => AnswersAreExact  BY DEF EngineInv
<1> QED BY <1>1, EngineCorrect, PTL

(* A new incumbent is a solution that beats the last; with none, any.      *)
LEMMA IncumbentStep ==
  ASSUME TypeOK, ModeInv, [Next]_vars, bestx' # bestx
  PROVE  /\ pc = "branch" /\ pc' = "return"
         /\ bestx' \in csp.sols
         /\ have => Better(bestx')
<1>1. Leaf
  BY DEF Next, vars, Decline, Refute, Search, Enter, Propagate, Cut, Branch,
     LeafTooWide, Pop, Unwind, Answer, FallBack
<1>2. PICK p \in Box(dom) :
        IF ~cp_verify(p) THEN Return(GIVEUP) /\ UNCHANGED <<bestx, printed>>
        ELSE IF opt THEN Return(DONE) /\ Score(p) /\ UNCHANGED printed
        ELSE IF all THEN /\ Return(DONE)
                         /\ printed' = IF Output(p) \in Printed THEN printed
                                       ELSE Append(printed, Output(p))
                         /\ UNCHANGED bestx
        ELSE Return(FOUND) /\ bestx' = p /\ UNCHANGED printed
  BY <1>1 DEF Leaf
<1>3. cp_verify(p) /\ bestx' = p /\ (have => opt /\ Better(p)) /\ pc' = "return"
  BY <1>1, <1>2 DEF Leaf, Score, ModeInv, Return
<1> QED BY <1>1, <1>3 DEF Leaf, cp_verify

(* The engine implements the promise of a solver: each new incumbent is a  *)
(* Find, each verdict an Answer the model justifies, all else a stutter.   *)
THEOREM EngineImplementsPromise == Spec => ImplementsPromise
<1>1. Init => Promise!Init
  BY DEF Init, Promise!Init, Promise!Running, PromisedVerdict
<1>2. EngineInv /\ EngineInv' /\ [Next]_vars
      => [Promise!Next]_<<csp, bestx, PromisedVerdict>>
  <2> SUFFICES ASSUME EngineInv, EngineInv', [Next]_vars
               PROVE  [Promise!Next]_<<csp, bestx, PromisedVerdict>>
    OBVIOUS
  <2>i. TypeOK /\ ModeInv /\ TypeOK' /\ AnswersAreExact'  BY DEF EngineInv
  <2>m. csp' = csp /\ (all' <=> all) /\ (opt' <=> opt)  BY ModelFixed
  <2>1. CASE bestx' # bestx
    <3>1. /\ pc = "branch" /\ pc' = "return" /\ bestx' \in csp.sols
          /\ have => Better(bestx')
      BY <2>1, <2>i, IncumbentStep
    <3>2. PromisedVerdict = "running" /\ PromisedVerdict' = "running"
      BY <3>1 DEF PromisedVerdict
    <3>3. bestx # NoPoint => BeatsIn(csp, bestx', bestx)
      BY <3>1 DEF BeatsIn, Better, Beats, have
    <3>4. Promise!Find
      BY <2>m, <3>1, <3>2, <3>3 DEF Promise!Find, Promise!Running, SolutionsOf
    <3> QED BY <3>4 DEF Promise!Next
  <2>2. CASE bestx' = bestx /\ PromisedVerdict' # PromisedVerdict
    <3>1. pc # "done" /\ pc' = "done"
      BY <2>2, <2>m DEF PromisedVerdict, have, Next, vars, Decline, Refute, Search, Enter,
         Propagate, Cut, Branch, Try, Return, LeafTooWide, Leaf, Pop, Unwind, Answer,
         FallBack
    <3>2. PromisedVerdict = "running"  BY <3>1 DEF PromisedVerdict
    <3>3. \E v \in Promise!Verdicts : Promise!Justified(v) /\ PromisedVerdict' = v
      <4> USE DEF Promise!Verdicts
      <4>1. CASE status' = UNSAT
        <5>1. PromisedVerdict' = "infeasible"  BY <3>1, <4>1 DEF PromisedVerdict, SAT, UNSAT
        <5>2. Promise!Justified("infeasible")
          BY <2>i, <2>m, <3>1, <4>1
             DEF AnswersAreExact, UnsatIsProof, Promise!Justified, SolutionsOf
        <5> QED BY <5>1, <5>2
      <4>2. CASE status' = SAT /\ opt
        <5>1. PromisedVerdict' = "optimal"
          BY <2>m, <3>1, <4>2 DEF PromisedVerdict, SAT, UNSAT
        <5>2. bestx \in csp.sols /\ \A p \in csp.sols : ~Better(p)
          BY <2>i, <2>m, <2>2, <3>1, <4>2
             DEF AnswersAreExact, OptimumIsExact, Better, Beats
        <5>3. NoneBeatsIn(csp, bestx)
          BY <5>2 DEF NoneBeatsIn, BeatsIn, Better, Beats
        <5>4. bestx # NoPoint  BY <2>i, <5>2, ModelFacts
        <5>5. Promise!Justified("optimal")  BY <5>3, <5>4 DEF Promise!Justified
        <5> QED BY <5>1, <5>5
      <4>3. CASE status' # UNSAT /\ ~(status' = SAT /\ opt)
        <5>1. PromisedVerdict' = IF have THEN "feasible" ELSE "unknown"
          BY <2>m, <2>2, <3>1, <4>3 DEF PromisedVerdict, have
        <5>2. Promise!Justified(IF have THEN "feasible" ELSE "unknown")
          BY DEF Promise!Justified, have
        <5> QED BY <5>1, <5>2
      <4> QED BY <4>1, <4>2, <4>3
    <3> QED BY <2>m, <2>2, <3>2, <3>3 DEF Promise!Next, Promise!Answer, Promise!Running
  <2>3. CASE bestx' = bestx /\ PromisedVerdict' = PromisedVerdict  BY <2>m, <2>3
  <2> QED BY <2>1, <2>2, <2>3
<1> QED BY <1>1, <1>2, EngineCorrect, PTL DEF Spec, ImplementsPromise, Promise!Spec

----------------------------------------------------------------------------

Outputs == {Output(p) : p \in csp.sols}

(* The inductive invariant, in parts.                                      *)

(* The finite-domain engine has the word first, before the bridge has      *)
(* searched or remembered anything.                                        *)
LadderInv ==
  /\ csp \in CSPs
  /\ lane = "cp" => EngineInv /\ nodes = 0 /\ seen = {}
  /\ lane = "mip" => pc = "fallback"
  /\ lane # "over" => word = NONE /\ printed \in Seq(Outputs)

(* What a status means once an engine of the ladder has set it.            *)
VerdictInv ==
  lane = "print" =>
    /\ status \in {SAT, UNSAT, UNKNOWN, NODECAP}
    /\ status = UNSAT => csp.sols = {}
    /\ status = SAT /\ opt => answer \in csp.sols /\ \A p \in InBox : Unbeaten(p)
    /\ status = SAT /\ all =>
         /\ {Output(p) : p \in InBox} \subseteq Printed
         /\ printed = << >> => csp.sols = {}

FznInv == LadderInv /\ FznTypeOK /\ VerdictInv /\ PrintedVerdictIsReal

----------------------------------------------------------------------------
(* What the models and the engines give.                                   *)

LEMMA FznFacts ==
  ASSUME csp \in CSPs
  PROVE  /\ CSPType(csp) /\ BridgeType(csp)
         /\ node_limit \in Nat
         /\ InBox \subseteq csp.sols
         /\ csp.sols \subseteq [Vars -> Int]
         /\ csp.free = {} => InBox = csp.sols
<1>1. CSPType(csp) /\ BridgeType(csp)
  BY CSPsAssumption, BridgeAssumption
<1>2. node_limit \in Nat
  BY <1>1, BridgeAssumption DEF BridgeType, node_limit
<1>3. csp.sols \subseteq [Vars -> Int]
  <2>1. csp.dom \in Domains /\ csp.sols \subseteq Box(csp.dom)
    BY <1>1 DEF CSPType, Domains
  <2> QED BY <2>1, BoxMember
<1> QED BY <1>1, <1>2, <1>3 DEF InBox

(* Only the finite-domain engine's own steps leave it the word.            *)
LEMMA ModelStays ==
  ASSUME [FznNext]_allvars
  PROVE  /\ csp' = csp /\ (all' <=> all) /\ (opt' <=> opt)
         /\ \A p : Output(p)' = Output(p)
         /\ InBox' = InBox /\ Outputs' = Outputs /\ node_limit' = node_limit
<1>1. csp' = csp
  <2>1. CASE CpStep  BY <2>1, ModelFixed DEF CpStep
  <2> QED
    BY <2>1 DEF FznNext, Work, allvars, vars, CpAnswers, Guess, Alldiff, Unhandled,
       StartMip, MipNode, MipCut, MipEnds, fz_print_solution, Fail, Alarm
<1> QED
  BY <1>1 DEF all, opt, Output, InBox, Outputs, node_limit

(* What a solution in the sequence printed is found under in the set.      *)
LEMMA PrintedFacts ==
  ASSUME NEW s \in Seq(Outputs), NEW o \in Outputs, printed = s
  PROVE  /\ Append(s, o) \in Seq(Outputs)
         /\ {Append(s, o)[i] : i \in DOMAIN Append(s, o)} = Printed \union {o}
         /\ Printed \subseteq Outputs
         /\ Printed # {} => printed # << >>
<1>1. Append(s, o) \in Seq(Outputs)  BY AppendProperties
<1>2. /\ DOMAIN Append(s, o) = 1 .. Len(s) + 1 /\ DOMAIN s = 1 .. Len(s)
      /\ Len(s) \in Nat /\ Append(s, o)[Len(s) + 1] = o
      /\ \A i \in 1 .. Len(s) : Append(s, o)[i] = s[i]
  BY AppendProperties, LenProperties
<1>3. \A i \in 1 .. Len(s) : s[i] \in Outputs  BY ElementOfSeq
<1> QED BY <1>1, <1>2, <1>3 DEF Printed

----------------------------------------------------------------------------
(* The parts of the invariant, one step lemma each.                        *)

LEMMA FznInitial == FznInit => FznInv
<1> SUFFICES ASSUME FznInit PROVE FznInv  OBVIOUS
<1>1. csp \in CSPs /\ EngineInv  BY EngineInit DEF FznInit, Init
<1>2. printed = << >> /\ Printed = {}
  <2>1. printed = << >>  BY DEF FznInit, Init
  <2> QED BY <2>1 DEF Printed
<1>3. printed \in Seq(Outputs)  BY <1>2, EmptySeq
<1>4. FznTypeOK  BY <1>2 DEF FznInit, FznTypeOK, NONE
<1> QED
  BY <1>1, <1>3, <1>4
  DEF FznInit, FznInv, LadderInv, VerdictInv, PrintedVerdictIsReal, PrintedUnsatIsReal,
      PrintedOptimumInBox, PrintedEnumerationInBox, NONE, UNSATISFIABLE, COMPLETE

(* What a node of the bridge hands out is an output of a solution; it is   *)
(* printed after what was.                                                 *)
LEMMA NodePrints ==
  ASSUME FznInv, MipNode
  PROVE  printed' \in Seq(Outputs) /\ Printed \subseteq Printed' /\ seen' \subseteq Printed'
<1>1. printed \in Seq(Outputs) /\ seen \subseteq Printed /\ InBox \subseteq csp.sols
  BY FznFacts DEF FznInv, LadderInv, FznTypeOK, MipNode
<1>2. CASE UNCHANGED <<printed, seen>>  BY <1>1, <1>2 DEF Printed
<1>3. CASE \E p \in InBox : seen' = seen \union {Output(p)} /\ printed' = Append(printed, Output(p))
  <2>1. PICK p \in InBox : seen' = seen \union {Output(p)} /\ printed' = Append(printed, Output(p))
    BY <1>3
  <2>2. Output(p) \in Outputs  BY <1>1 DEF Outputs
  <2>3. printed' \in Seq(Outputs) /\ Printed' = Printed \union {Output(p)}
    BY <1>1, <2>1, <2>2, PrintedFacts DEF Printed
  <2> QED BY <1>1, <2>1, <2>3
<1> QED BY <1>2, <1>3 DEF MipNode

LEMMA LadderStep ==
  ASSUME FznInv, [FznNext]_allvars
  PROVE  LadderInv'
<1>m. /\ csp' = csp /\ csp \in CSPs /\ Outputs' = Outputs
  BY ModelStays DEF FznInv, LadderInv
<1>1. CASE CpStep
  <2>1. EngineInv'  BY <1>1, EngineStep DEF CpStep, FznInv, LadderInv
  <2>2. printed' \in Seq(Outputs)  BY <2>1, <1>m DEF EngineInv, TypeOK, Outputs
  <2> QED BY <1>1, <1>m, <2>1, <2>2 DEF CpStep, fvars, FznInv, LadderInv
<1>2. CASE MipNode
  BY <1>2, <1>m, NodePrints DEF MipNode, FznInv, LadderInv
<1>3. CASE CpAnswers \/ Guess \/ Alldiff \/ Unhandled \/ StartMip \/ MipCut \/ MipEnds
  BY <1>3, <1>m DEF CpAnswers, Guess, Alldiff, Unhandled, StartMip, MipCut, MipEnds,
     Falling, vars, FznInv, LadderInv
<1>4. CASE fz_print_solution \/ Fail
  BY <1>4, <1>m DEF fz_print_solution, Fail, FznInv, LadderInv
<1>5. CASE Alarm \/ UNCHANGED allvars
  <2>1. UNCHANGED <<vars, lane, nodes, seen, word>>  BY <1>5 DEF Alarm, allvars, fvars
  <2>2. EngineInv => EngineInv'
    <3>1. [Next]_vars  BY <2>1
    <3> QED BY <3>1, EngineStep
  <2> QED BY <2>1, <2>2, <1>m DEF vars, FznInv, LadderInv
<1> QED BY <1>1, <1>2, <1>3, <1>4, <1>5 DEF FznNext, Work

LEMMA FznTypeStep ==
  ASSUME FznInv, [FznNext]_allvars
  PROVE  FznTypeOK'
<1>m. /\ csp' = csp /\ csp \in CSPs /\ node_limit' = node_limit /\ node_limit \in Nat
      /\ csp.sols \subseteq [Vars -> Int] /\ InBox \subseteq csp.sols
  BY ModelStays, FznFacts DEF FznInv, LadderInv
<1>1. CASE CpStep
  BY <1>1, <1>m DEF CpStep, fvars, FznInv, LadderInv, FznTypeOK
<1>2. CASE CpAnswers
  <2>1. TypeOK  BY <1>2 DEF CpAnswers, FznInv, LadderInv, EngineInv
  <2> QED BY <1>2, <1>m, <2>1 DEF CpAnswers, TypeOK, vars, Printed, FznInv, FznTypeOK
<1>3. CASE Guess
  <2>1. BridgeType(csp)  BY <1>m, BridgeAssumption
  <2>2. Guesses \subseteq [Vars -> Int]  BY <2>1 DEF Guesses, BridgeType
  <2> QED BY <1>3, <1>m, <2>2 DEF Guess, Printed, FznInv, FznTypeOK
<1>4. CASE Alldiff  BY <1>4, <1>m DEF Alldiff, Printed, FznInv, FznTypeOK
<1>5. CASE MipNode
  <2>1. seen' \subseteq Printed'  BY <1>5, NodePrints
  <2> QED BY <1>5, <1>m, <2>1 DEF MipNode, FznInv, FznTypeOK
<1>6. CASE MipEnds
  <2>1. answer' \in [Vars -> Int] \union {NoPoint}
    BY <1>6, <1>m DEF MipEnds, MipVerdict, FznInv, FznTypeOK
  <2> QED BY <1>6, <1>m, <2>1 DEF MipEnds, Printed, FznInv, FznTypeOK
<1>7. CASE Unhandled \/ StartMip \/ MipCut \/ Fail
  <2>1. UNCHANGED <<printed, answer, nodes, seen, word>>
    BY <1>7 DEF Unhandled, StartMip, MipCut, Fail, vars
  <2>2. UNCHANGED stop /\ lane' \in {"mip", "print", "over"} /\ (lane' = "mip" => lane = "cp")
    BY <1>7 DEF Unhandled, StartMip, MipCut, Fail, Falling
  <2> QED BY <2>1, <2>2, <1>m DEF Printed, FznInv, LadderInv, FznTypeOK
<1>9. CASE Alarm \/ UNCHANGED allvars
  <2>1. UNCHANGED <<printed, lane, answer, nodes, seen, word>> /\ stop' \in {stop, TRUE}
    BY <1>9 DEF Alarm, allvars, vars, fvars
  <2> QED BY <2>1, <1>m DEF Printed, FznInv, FznTypeOK
<1>8. CASE fz_print_solution
  <2>1. Printed \subseteq Printed'
    <3>1. printed \in Seq(Outputs)  BY <1>8 DEF fz_print_solution, FznInv, LadderInv
    <3>2. ASSUME printed' = Append(printed, Output(answer))  PROVE Printed \subseteq Printed'
      <4>1. Len(printed) \in Nat /\ DOMAIN printed = 1 .. Len(printed)
            /\ DOMAIN printed' = 1 .. Len(printed) + 1
            /\ \A i \in 1 .. Len(printed) : printed'[i] = printed[i]
        <5> DEFINE S == Outputs \union {Output(answer)}
        <5>1. printed \in Seq(S) /\ Output(answer) \in S
          BY <3>1, LenProperties, ElementOfSeq, SeqDef
        <5> QED BY <5>1, <3>2, AppendProperties, LenProperties
      <4> QED BY <4>1 DEF Printed
    <3>3. printed' = printed \/ printed' = Append(printed, Output(answer))
      <4>1. status \in {SAT, UNSAT, UNKNOWN, NODECAP}
        BY <1>8 DEF fz_print_solution, FznInv, VerdictInv
      <4> QED
        BY <4>1, <1>8 DEF fz_print_solution, Stamped, SAT, UNSAT, UNKNOWN, NODECAP
    <3> QED BY <3>2, <3>3 DEF Printed
  <2>2. word' \in {NONE, UNSATISFIABLE, UNKNOWN_LINE, SOLUTION, COMPLETE}
    <3>1. status \in {SAT, UNSAT, UNKNOWN, NODECAP}
      BY <1>8 DEF fz_print_solution, FznInv, VerdictInv
    <3> QED
      BY <3>1, <1>8 DEF fz_print_solution, Stamped, AllLine, SAT, UNSAT, UNKNOWN, NODECAP
  <2> QED BY <1>8, <1>m, <2>1, <2>2 DEF fz_print_solution, FznInv, FznTypeOK
<1> QED
  BY <1>1, <1>2, <1>3, <1>4, <1>5, <1>6, <1>7, <1>8, <1>9 DEF FznNext, Work

(* Each engine of the ladder leaves a status that means what it says.      *)
LEMMA VerdictStep ==
  ASSUME FznInv, [FznNext]_allvars
  PROVE  VerdictInv'
<1>m. /\ csp' = csp /\ (all' <=> all) /\ (opt' <=> opt) /\ (all \/ opt => csp.mode # "satisfy")
      /\ ~(all /\ opt)
      /\ \A p : Output(p)' = Output(p)
      /\ InBox' = InBox /\ InBox \subseteq csp.sols
      /\ (csp.free = {} => InBox = csp.sols)
      /\ \A a, b : Beats(a, b)' <=> Beats(a, b)
      /\ \A a, b : WithinGap(a, b)' <=> WithinGap(a, b)
  <2>1. csp' = csp  BY ModelStays
  <2>2. \A a, b : Beats(a, b)' <=> Beats(a, b)  BY <2>1 DEF Beats
  <2>3. \A a, b : WithinGap(a, b)' <=> WithinGap(a, b)  BY <2>1 DEF WithinGap, Gain
  <2> QED BY ModelStays, FznFacts, <2>2, <2>3 DEF FznInv, LadderInv, all, opt
<1>1. CASE CpAnswers
  <2>1. AnswersAreExact /\ TypeOK
    BY <1>1 DEF CpAnswers, FznInv, LadderInv, EngineInv
  <2>2. printed = << >> => Printed = {}  BY DEF Printed
  <2>3. {Output(p) : p \in csp.sols} = {} => csp.sols = {}  OBVIOUS
  <2>4. UNCHANGED <<status, printed>> /\ answer' = bestx /\ pc = "done"
    BY <1>1 DEF CpAnswers, vars
  <2>5. Printed' = Printed  BY <2>4 DEF Printed
  <2>6. status \in {SAT, UNSAT, UNKNOWN, NODECAP} /\ (status = UNSAT => csp.sols = {})
    BY <2>1, <2>4 DEF AnswersAreExact, UnsatIsProof, TypeOK
  <2>7. status = SAT /\ opt =>
          answer' \in csp.sols /\ \A p \in InBox : Unbeaten(p)'
    <3>1. pc' = "done"  BY <2>4, <1>1 DEF CpAnswers, vars
    <3>2. status = SAT /\ opt =>
            bestx \in csp.sols /\ \A p \in InBox : ~Beats(csp.obj[p], csp.obj[bestx])
      BY <2>1, <2>4, <1>m DEF AnswersAreExact, OptimumIsExact, Better
    <3> QED BY <2>4, <3>1, <3>2, <1>m DEF Unbeaten
  <2>8. status = SAT /\ all => {Output(p) : p \in InBox} \subseteq Printed
                               /\ (printed = << >> => csp.sols = {})
    BY <2>1, <2>2, <2>3, <2>4, <1>m DEF AnswersAreExact, EnumerationComplete
  <2> QED BY <2>4, <2>5, <2>6, <2>7, <2>8, <1>m DEF VerdictInv
<1>2. CASE Guess \/ Alldiff
  <2>1. csp.mode = "satisfy" /\ status' = SAT
    BY <1>2 DEF Guess, Alldiff, Guessing
  <2> QED BY <2>1, <1>m DEF VerdictInv, SAT, UNSAT
<1>3. CASE Unhandled \/ MipCut
  <2>1. status' \in {UNKNOWN, NODECAP}  BY <1>3 DEF Unhandled, MipCut
  <2> QED BY <2>1 DEF VerdictInv, SAT, UNSAT, UNKNOWN, NODECAP
<1>4. CASE MipEnds
  <2>1. seen \subseteq Printed /\ UNCHANGED <<printed, seen>>
    BY <1>4 DEF MipEnds, FznInv, FznTypeOK
  <2>2. Printed' = Printed /\ (printed = << >> => Printed = {})
    BY <2>1 DEF Printed
  <2>3. CASE \E p \in InBox :
               /\ csp.mode = "satisfy" \/ (opt /\ \A q \in InBox : WithinGap(csp.obj[q], csp.obj[p]))
               /\ answer' = p
               /\ status' = IF opt /\ objective_uses_synthetic_bound(p) THEN UNKNOWN ELSE SAT
    <3>1. status' \in {SAT, UNKNOWN} /\ ~all
          /\ (opt => answer' \in InBox
                    /\ \A q \in InBox : WithinGap(csp.obj[q], csp.obj[answer']))
      BY <2>3, <1>m
    <3>2. pc' # "done"  BY <1>4 DEF MipEnds, FznInv, LadderInv
    <3>3. opt => answer' \in InBox /\ \A q \in InBox : Unbeaten(q)'
      BY <3>1, <3>2, <1>m DEF Unbeaten
    <3> QED BY <3>1, <3>3, <1>m DEF VerdictInv, SAT, UNSAT, UNKNOWN
  <2>4. CASE /\ all /\ InBox # {} /\ \A p \in InBox : Output(p) \in seen
             /\ status' = SAT /\ UNCHANGED answer
    <3>1. {Output(p) : p \in InBox} \subseteq Printed' /\ printed' # << >>
      BY <2>1, <2>2, <2>4
    <3> QED BY <3>1, <2>4, <1>m DEF VerdictInv, SAT, UNSAT
  <2>5. CASE InBox = {} /\ status' = UnsatInBox /\ UNCHANGED answer
    BY <2>5, <1>m DEF UnsatInBox, VerdictInv, SAT, UNSAT, UNKNOWN
  <2> QED BY <1>4, <2>3, <2>4, <2>5 DEF MipEnds, MipVerdict
<1>5. CASE Alarm \/ UNCHANGED allvars
  <2>1. UNCHANGED <<lane, pc, status, answer, printed>>
    BY <1>5 DEF Alarm, allvars, vars, fvars
  <2> QED BY <2>1, <1>m DEF FznInv, VerdictInv, Unbeaten, Printed
<1>6. CASE CpStep \/ StartMip \/ MipNode \/ fz_print_solution \/ Fail
  <2>1. lane' # "print"
    BY <1>6 DEF CpStep, fvars, StartMip, MipNode, fz_print_solution, Fail
  <2> QED BY <2>1 DEF VerdictInv
<1> QED BY <1>1, <1>2, <1>3, <1>4, <1>5, <1>6 DEF FznNext, Work

(* The line printed says no more than the status it is read from.          *)
LEMMA PrintStep ==
  ASSUME FznInv, [FznNext]_allvars
  PROVE  PrintedVerdictIsReal'
<1>m. /\ csp' = csp /\ (all' <=> all) /\ (opt' <=> opt) /\ ~(all /\ opt)
      /\ \A p : Output(p)' = Output(p)
      /\ InBox' = InBox
      /\ \A a, b : Beats(a, b)' <=> Beats(a, b)
      /\ \A a, b : WithinGap(a, b)' <=> WithinGap(a, b)
  <2>1. csp' = csp  BY ModelStays
  <2>2. \A a, b : Beats(a, b)' <=> Beats(a, b)  BY <2>1 DEF Beats
  <2>3. \A a, b : WithinGap(a, b)' <=> WithinGap(a, b)  BY <2>1 DEF WithinGap, Gain
  <2> QED BY ModelStays, <2>2, <2>3 DEF all, opt
<1> USE DEF NONE, UNSATISFIABLE, UNKNOWN_LINE, SOLUTION, COMPLETE
<1>1. CASE fz_print_solution
  <2>1. /\ status \in {SAT, UNSAT, UNKNOWN, NODECAP} /\ lane = "print"
        /\ (Stamped(status) = SAT => status = SAT)
        /\ (Stamped(status) = UNSAT => status = UNSAT)
        /\ Stamped(status) \in {SAT, UNSAT, UNKNOWN, NODECAP}
        /\ UNCHANGED <<answer, pc>>
    <3>1. lane = "print" /\ UNCHANGED <<answer, pc>> /\ VerdictInv
      BY <1>1 DEF fz_print_solution, FznInv
    <3>2. status \in {SAT, UNSAT, UNKNOWN, NODECAP}  BY <3>1 DEF VerdictInv
    <3> QED BY <3>1, <3>2 DEF Stamped, SAT, UNSAT, UNKNOWN, NODECAP
  <2>2. CASE all
    <3>1. word' = AllLine(Stamped(status)) /\ Printed' = Printed
      BY <1>1, <2>2 DEF fz_print_solution, Printed
    <3>2. word' = UNSATISFIABLE => printed = << >> /\ status \in {SAT, UNSAT}
      BY <2>1, <3>1 DEF AllLine
    <3>3. word' = COMPLETE => status = SAT
      BY <2>1, <3>1 DEF AllLine
    <3>4. PrintedUnsatIsReal'
      BY <2>1, <2>2, <3>2, <1>m DEF PrintedUnsatIsReal, FznInv, VerdictInv
    <3>5. PrintedOptimumInBox'  BY <2>2, <1>m DEF PrintedOptimumInBox
    <3>6. PrintedEnumerationInBox'
      BY <2>1, <2>2, <3>1, <3>3, <1>m DEF PrintedEnumerationInBox, FznInv, VerdictInv
    <3> QED BY <3>4, <3>5, <3>6 DEF PrintedVerdictIsReal
  <2>3. CASE ~all
    <3>1. /\ word' = UNSATISFIABLE => Stamped(status) = UNSAT
          /\ word' = COMPLETE => opt /\ Stamped(status) = SAT
      BY <1>1, <2>1, <2>3 DEF fz_print_solution, SAT, UNSAT, UNKNOWN, NODECAP
    <3>2. PrintedUnsatIsReal'
      BY <2>1, <3>1, <1>m DEF PrintedUnsatIsReal, FznInv, VerdictInv
    <3>3. PrintedOptimumInBox'
      BY <2>1, <3>1, <1>m DEF PrintedOptimumInBox, Unbeaten, FznInv, VerdictInv
    <3>4. PrintedEnumerationInBox'  BY <2>3, <1>m DEF PrintedEnumerationInBox
    <3> QED BY <3>2, <3>3, <3>4 DEF PrintedVerdictIsReal
  <2> QED BY <2>2, <2>3
<1>2. CASE word' = NONE
  BY <1>2 DEF PrintedVerdictIsReal, PrintedUnsatIsReal, PrintedOptimumInBox,
     PrintedEnumerationInBox
<1>3. CASE UNCHANGED allvars
  <2>1. UNCHANGED <<word, answer, pc, printed>>  BY <1>3 DEF allvars, vars, fvars
  <2> QED
    BY <2>1, <1>m DEF FznInv, PrintedVerdictIsReal, PrintedUnsatIsReal,
       PrintedOptimumInBox, Unbeaten, PrintedEnumerationInBox, Printed
<1>4. word' = NONE \/ fz_print_solution \/ UNCHANGED allvars
  BY DEF FznNext, Work, CpStep, CpAnswers, Guess, Alldiff, Unhandled, StartMip, MipNode,
     MipCut, MipEnds, Falling, Fail, Alarm, fvars, FznInv, LadderInv
<1> QED BY <1>1, <1>2, <1>3, <1>4

----------------------------------------------------------------------------
(* The theorems.                                                           *)

(* The ladder's invariant holds in every reachable state of a run.         *)
THEOREM LadderCorrect == FznSpec => []FznInv
<1>1. FznInv /\ [FznNext]_allvars => FznInv'
  BY LadderStep, FznTypeStep, VerdictStep, PrintStep DEF FznInv
<1> QED BY FznInitial, <1>1, PTL DEF FznSpec

(* UNSATISFIABLE is printed only of models without a solution; an optimum  *)
(* and a complete enumeration are those of the clamped box, the optimum    *)
(* exactly from the engine and to its gap from the bridge.                 *)
THEOREM PrintedLinesAreReal == FznSpec => []PrintedVerdictIsReal
<1>1. FznInv => PrintedVerdictIsReal  BY DEF FznInv
<1> QED BY <1>1, LadderCorrect, PTL

(* Where every variable has declared bounds the box is the model's: the    *)
(* optimum printed as proven is one of the model, exactly or to the gap.   *)
THEOREM BoundedOptimaAreReal ==
  FznSpec => [](csp.free = {} => PrintedOptimumIsReal)
<1>1. FznInv => (csp.free = {} => PrintedOptimumIsReal)
  BY FznFacts DEF FznInv, LadderInv, PrintedVerdictIsReal, PrintedOptimumInBox,
     PrintedOptimumIsReal
<1> QED BY <1>1, LadderCorrect, PTL

----------------------------------------------------------------------------
(* The gates that fznsolve writes for its relations are exact: for all     *)
(* bounds of a form, for every value of it within them and for every       *)
(* relation, the big-M rows can be met by a choice of their two selectors  *)
(* exactly when the 0/1 variable has the value that the relation gives it. *)

Bit == {0, 1}

(* d is a value of a form whose bounds are L and U, whose positive values  *)
(* start at P and whose negative ones end at N.                            *)
Value(d, L, U, P, N) ==
  /\ d \in Int /\ L \in Int /\ U \in Int /\ P \in Int /\ N \in Int
  /\ L <= d /\ d <= U
  /\ N < 0 /\ 0 < P
  /\ d > 0 => d >= P
  /\ d < 0 => d <= N

(* Some choice of the selectors meets all rows.                            *)
Possible(rows, d, r) ==
  \E pos, neg \in Bit : \A row \in rows : Met(row, d, r, pos, neg)

(* The rows of the two sides put the form on the selected side of zero.    *)
LEMMA SidesMet ==
  ASSUME NEW d, NEW L, NEW U, NEW P, NEW N, Value(d, L, U, P, N),
         NEW r \in Bit, NEW pos \in Bit, NEW neg \in Bit
  PROVE  (\A row \in Sides(L, U, P, N) : Met(row, d, r, pos, neg))
           <=> (pos = 1 => d > 0) /\ (neg = 1 => d < 0)
<1>. USE DEF Value, Bit
<1>1. Met(Row(1, 0, L - P, 0, ">", L), d, r, pos, neg)
        <=> 1 * d + 0 * r + (L - P) * pos + 0 * neg >= L
  BY DEF Met, Row, Compare
<1>2. Met(Row(1, 0, 0, U - N, "<", U), d, r, pos, neg)
        <=> 1 * d + 0 * r + 0 * pos + (U - N) * neg <= U
  BY DEF Met, Row, Compare
<1>3. 1 * d + 0 * r + (L - P) * pos + 0 * neg >= L <=> (pos = 1 => d > 0)
  <2>1. CASE pos = 0  BY <2>1
  <2>2. CASE pos = 1  BY <2>2
  <2> QED BY <2>1, <2>2
<1>4. 1 * d + 0 * r + 0 * pos + (U - N) * neg <= U <=> (neg = 1 => d < 0)
  <2>1. CASE neg = 0  BY <2>1
  <2>2. CASE neg = 1  BY <2>2
  <2> QED BY <2>1, <2>2
<1> QED BY <1>1, <1>2, <1>3, <1>4 DEF Sides

(* add_int_ne: some choice of the selectors meets the rows exactly when    *)
(* the form is not zero.                                                   *)
THEOREM NotEqualExact ==
  ASSUME NEW d, NEW L, NEW U, NEW P, NEW N, Value(d, L, U, P, N), NEW r \in Bit
  PROVE  Possible(add_int_ne(L, U, P, N), d, r) <=> d # 0
<1>1. ASSUME NEW pos \in Bit, NEW neg \in Bit
      PROVE  (\A row \in add_int_ne(L, U, P, N) : Met(row, d, r, pos, neg))
               <=> pos + neg = 1 /\ (pos = 1 => d > 0) /\ (neg = 1 => d < 0)
  <2>1. Met(Row(0, 0, 1, 1, "=", 1), d, r, pos, neg) <=> pos + neg = 1
    BY DEF Met, Row, Compare, Value, Bit
  <2> QED BY <2>1, SidesMet DEF add_int_ne
<1>2. ASSUME d > 0
      PROVE  \A row \in add_int_ne(L, U, P, N) : Met(row, d, r, 1, 0)
  BY <1>1, <1>2 DEF Bit, Value
<1>3. ASSUME d < 0
      PROVE  \A row \in add_int_ne(L, U, P, N) : Met(row, d, r, 0, 1)
  BY <1>1, <1>3 DEF Bit, Value
<1>4. d # 0 => Possible(add_int_ne(L, U, P, N), d, r)
  BY <1>2, <1>3 DEF Possible, Bit, Value
<1>5. Possible(add_int_ne(L, U, P, N), d, r) => d # 0
  BY <1>1 DEF Possible, Bit
<1> QED BY <1>4, <1>5

----------------------------------------------------------------------------
(* A row of the form and the gate alone, by the value of the gate.         *)
LEMMA GateMet ==
  ASSUME NEW d \in Int, NEW r \in Bit, NEW pos \in Bit, NEW neg \in Bit,
         NEW k \in Int, NEW rhs \in Int
  PROVE  /\ Met(Row(1, k, 0, 0, "<", rhs), d, r, pos, neg)
              <=> (r = 0 => d <= rhs) /\ (r = 1 => d + k <= rhs)
         /\ Met(Row(1, k, 0, 0, ">", rhs), d, r, pos, neg)
              <=> (r = 0 => d >= rhs) /\ (r = 1 => d + k >= rhs)
<1>1. Met(Row(1, k, 0, 0, "<", rhs), d, r, pos, neg) <=> d + k * r <= rhs
  BY DEF Met, Row, Compare, Bit
<1>2. Met(Row(1, k, 0, 0, ">", rhs), d, r, pos, neg) <=> d + k * r >= rhs
  BY DEF Met, Row, Compare, Bit
<1>3. k * r = IF r = 0 THEN 0 ELSE k
  BY DEF Bit
<1> QED BY <1>1, <1>2, <1>3 DEF Bit

(* The rows without selectors, with the two bounds they are written with.  *)
LEMMA TwoGatesExact ==
  ASSUME NEW d, NEW L, NEW U, NEW P, NEW N, Value(d, L, U, P, N), NEW r \in Bit,
         NEW which \in {"le", "lt", "ge", "gt"}
  PROVE  Possible(add_int_reif(which, L, U, P, N), d, r) <=> (r = 1 <=> Related(which, d))
<1>. USE DEF Value
<1>0. /\ U \in Int /\ P - L \in Int /\ U - N \in Int /\ -L \in Int
      /\ L \in Int /\ N - U \in Int /\ L - P \in Int /\ -U \in Int /\ 0 \in Int
  OBVIOUS
<1>. DEFINE All(pos, neg) == \A row \in add_int_reif(which, L, U, P, N) : Met(row, d, r, pos, neg)
<1>1. ASSUME NEW pos \in Bit, NEW neg \in Bit
      PROVE  All(pos, neg) <=> (r = 1 <=> Related(which, d))
  <2>1. CASE which = "le"
    <3>1. All(pos, neg) <=> /\ (r = 0 => d <= U) /\ (r = 1 => d + U <= U)
                            /\ (r = 0 => d >= P) /\ (r = 1 => d + (P - L) >= P)
      BY <1>0, <2>1, GateMet DEF add_int_reif
    <3> QED BY <2>1, <3>1 DEF Related, Bit
  <2>2. CASE which = "lt"
    <3>1. All(pos, neg) <=> /\ (r = 0 => d <= U) /\ (r = 1 => d + (U - N) <= U)
                            /\ (r = 0 => d >= 0) /\ (r = 1 => d + (-L) >= 0)
      BY <1>0, <2>2, GateMet DEF add_int_reif
    <3> QED BY <2>2, <3>1 DEF Related, Bit
  <2>3. CASE which = "ge"
    <3>1. All(pos, neg) <=> /\ (r = 0 => d >= L) /\ (r = 1 => d + L >= L)
                            /\ (r = 0 => d <= N) /\ (r = 1 => d + (N - U) <= N)
      BY <1>0, <2>3, GateMet DEF add_int_reif
    <3> QED BY <2>3, <3>1 DEF Related, Bit
  <2>4. CASE which = "gt"
    <3>1. All(pos, neg) <=> /\ (r = 0 => d >= L) /\ (r = 1 => d + (L - P) >= L)
                            /\ (r = 0 => d <= 0) /\ (r = 1 => d + (-U) <= 0)
      BY <1>0, <2>4, GateMet DEF add_int_reif
    <3> QED BY <2>4, <3>1 DEF Related, Bit
  <2> QED BY <2>1, <2>2, <2>3, <2>4
<1> QED BY <1>1 DEF Possible, Bit

(* The rows with selectors.                                                *)
LEMMA SelectedGatesExact ==
  ASSUME NEW d, NEW L, NEW U, NEW P, NEW N, Value(d, L, U, P, N), NEW r \in Bit,
         NEW which \in {"eq", "ne"}
  PROVE  Possible(add_int_reif(which, L, U, P, N), d, r) <=> (r = 1 <=> Related(which, d))
<1>. USE DEF Value
<1>0. U \in Int /\ -U \in Int /\ L \in Int /\ -L \in Int /\ 0 \in Int
  OBVIOUS
<1>. DEFINE All(pos, neg) == \A row \in add_int_reif(which, L, U, P, N) : Met(row, d, r, pos, neg)
<1>1. CASE which = "eq"
  <2>1. ASSUME NEW pos \in Bit, NEW neg \in Bit
        PROVE  All(pos, neg) <=> /\ r + pos + neg = 1
                                 /\ (r = 0 => d <= U) /\ (r = 1 => d + U <= U)
                                 /\ (r = 0 => d >= L) /\ (r = 1 => d + L >= L)
                                 /\ (pos = 1 => d > 0) /\ (neg = 1 => d < 0)
    <3>1. Met(Row(0, 1, 1, 1, "=", 1), d, r, pos, neg) <=> r + pos + neg = 1
      BY DEF Met, Row, Compare, Bit
    <3>2. Met(Row(1, U, 0, 0, "<", U), d, r, pos, neg) <=> (r = 0 => d <= U) /\ (r = 1 => d + U <= U)
      BY <1>0, GateMet
    <3>3. Met(Row(1, L, 0, 0, ">", L), d, r, pos, neg) <=> (r = 0 => d >= L) /\ (r = 1 => d + L >= L)
      BY <1>0, GateMet
    <3>4. All(pos, neg) <=> /\ Met(Row(0, 1, 1, 1, "=", 1), d, r, pos, neg)
                            /\ Met(Row(1, U, 0, 0, "<", U), d, r, pos, neg)
                            /\ Met(Row(1, L, 0, 0, ">", L), d, r, pos, neg)
                            /\ \A row \in Sides(L, U, P, N) : Met(row, d, r, pos, neg)
      BY <1>1, Zenon DEF add_int_reif
    <3> QED BY <3>1, <3>2, <3>3, <3>4, SidesMet
  <2>2. All(0, 0) <=> r = 1 /\ d = 0
    BY <2>1 DEF Bit
  <2>3. All(1, 0) <=> r = 0 /\ d > 0
    BY <2>1 DEF Bit
  <2>4. All(0, 1) <=> r = 0 /\ d < 0
    BY <2>1 DEF Bit
  <2>5. ~All(1, 1)
    BY <2>1 DEF Bit
  <2> QED BY <1>1, <2>2, <2>3, <2>4, <2>5 DEF Possible, Related, Bit
<1>2. CASE which = "ne"
  <2>1. ASSUME NEW pos \in Bit, NEW neg \in Bit
        PROVE  All(pos, neg) <=> /\ pos + neg = r
                                 /\ (r = 0 => d <= 0) /\ (r = 1 => d + (-U) <= 0)
                                 /\ (r = 0 => d >= 0) /\ (r = 1 => d + (-L) >= 0)
                                 /\ (pos = 1 => d > 0) /\ (neg = 1 => d < 0)
    <3>1. Met(Row(0, -1, 1, 1, "=", 0), d, r, pos, neg) <=> pos + neg = r
      BY DEF Met, Row, Compare, Bit
    <3>2. Met(Row(1, -U, 0, 0, "<", 0), d, r, pos, neg) <=> (r = 0 => d <= 0) /\ (r = 1 => d + (-U) <= 0)
      BY <1>0, GateMet
    <3>3. Met(Row(1, -L, 0, 0, ">", 0), d, r, pos, neg) <=> (r = 0 => d >= 0) /\ (r = 1 => d + (-L) >= 0)
      BY <1>0, GateMet
    <3>4. All(pos, neg) <=> /\ Met(Row(0, -1, 1, 1, "=", 0), d, r, pos, neg)
                            /\ Met(Row(1, -U, 0, 0, "<", 0), d, r, pos, neg)
                            /\ Met(Row(1, -L, 0, 0, ">", 0), d, r, pos, neg)
                            /\ \A row \in Sides(L, U, P, N) : Met(row, d, r, pos, neg)
      BY <1>2, Zenon DEF add_int_reif
    <3>5. (\A row \in Sides(L, U, P, N) : Met(row, d, r, pos, neg))
            <=> (pos = 1 => d > 0) /\ (neg = 1 => d < 0)
      BY SidesMet
    <3> QED BY <3>1, <3>2, <3>3, <3>4, <3>5, Zenon
  <2>2. All(0, 0) <=> r = 0 /\ d = 0
    BY <2>1 DEF Bit
  <2>3. All(1, 0) <=> r = 1 /\ d > 0
    BY <2>1 DEF Bit
  <2>4. All(0, 1) <=> r = 1 /\ d < 0
    BY <2>1 DEF Bit
  <2>5. ~All(1, 1)
    BY <2>1 DEF Bit
  <2> QED BY <1>2, <2>2, <2>3, <2>4, <2>5 DEF Possible, Related, Bit
<1> QED BY <1>1, <1>2

(* add_int_reif: whatever the bounds of the form, its value and the        *)
(* relation, the rows leave the gate the truth value of the relation and   *)
(* nothing else.                                                           *)
THEOREM ReifiedExact ==
  ASSUME NEW d, NEW L, NEW U, NEW P, NEW N, Value(d, L, U, P, N), NEW r \in Bit,
         NEW which \in Relations
  PROVE  Possible(add_int_reif(which, L, U, P, N), d, r) <=> (r = 1 <=> Related(which, d))
<1>1. which \in {"le", "lt", "ge", "gt"} \/ which \in {"eq", "ne"}
  BY DEF Relations
<1> QED BY <1>1, TwoGatesExact, SelectedGatesExact

(* add_int_imp: the same for a gate that only implies the relation.        *)
THEOREM ImpliedExact ==
  ASSUME NEW d, NEW L, NEW U, NEW P, NEW N, Value(d, L, U, P, N), NEW r \in Bit,
         NEW which \in Relations
  PROVE  Possible(add_int_imp(which, L, U, P, N), d, r) <=> (r = 1 => Related(which, d))
<1>. USE DEF Value
<1>0. U \in Int /\ L \in Int /\ U - N \in Int /\ L - P \in Int
  OBVIOUS
<1>. DEFINE All(pos, neg) == \A row \in add_int_imp(which, L, U, P, N) : Met(row, d, r, pos, neg)
<1>1. CASE which # "ne"
  <2>1. ASSUME NEW pos \in Bit, NEW neg \in Bit
        PROVE  All(pos, neg) <=> (r = 1 => Related(which, d))
    <3>1. CASE which = "eq"
      <4>1. All(pos, neg) <=> /\ (r = 0 => d <= U) /\ (r = 1 => d + U <= U)
                              /\ (r = 0 => d >= L) /\ (r = 1 => d + L >= L)
        BY <1>0, <3>1, GateMet DEF add_int_imp
      <4> QED BY <3>1, <4>1 DEF Related, Bit
    <3>2. CASE which = "le"
      <4>1. All(pos, neg) <=> (r = 0 => d <= U) /\ (r = 1 => d + U <= U)
        BY <1>0, <3>2, GateMet DEF add_int_imp
      <4> QED BY <3>2, <4>1 DEF Related, Bit
    <3>3. CASE which = "lt"
      <4>1. All(pos, neg) <=> (r = 0 => d <= U) /\ (r = 1 => d + (U - N) <= U)
        BY <1>0, <3>3, GateMet DEF add_int_imp
      <4> QED BY <3>3, <4>1 DEF Related, Bit
    <3>4. CASE which = "ge"
      <4>1. All(pos, neg) <=> (r = 0 => d >= L) /\ (r = 1 => d + L >= L)
        BY <1>0, <3>4, GateMet DEF add_int_imp
      <4> QED BY <3>4, <4>1 DEF Related, Bit
    <3>5. CASE which = "gt"
      <4>1. All(pos, neg) <=> (r = 0 => d >= L) /\ (r = 1 => d + (L - P) >= L)
        BY <1>0, <3>5, GateMet DEF add_int_imp
      <4> QED BY <3>5, <4>1 DEF Related, Bit
    <3> QED BY <1>1, <3>1, <3>2, <3>3, <3>4, <3>5 DEF Relations
  <2> QED BY <2>1 DEF Possible, Bit
<1>2. CASE which = "ne"
  <2>1. ASSUME NEW pos \in Bit, NEW neg \in Bit
        PROVE  All(pos, neg) <=> /\ pos + neg = r
                                 /\ (pos = 1 => d > 0) /\ (neg = 1 => d < 0)
    <3>1. Met(Row(0, -1, 1, 1, "=", 0), d, r, pos, neg) <=> pos + neg = r
      BY DEF Met, Row, Compare, Bit
    <3>2. All(pos, neg) <=> /\ Met(Row(0, -1, 1, 1, "=", 0), d, r, pos, neg)
                            /\ \A row \in Sides(L, U, P, N) : Met(row, d, r, pos, neg)
      BY <1>2, Zenon DEF add_int_imp
    <3> QED BY <3>1, <3>2, SidesMet
  <2>2. All(0, 0) <=> r = 0
    BY <2>1 DEF Bit
  <2>3. All(1, 0) <=> r = 1 /\ d > 0
    BY <2>1 DEF Bit
  <2>4. All(0, 1) <=> r = 1 /\ d < 0
    BY <2>1 DEF Bit
  <2>5. ~All(1, 1)
    BY <2>1 DEF Bit
  <2> QED BY <1>2, <2>2, <2>3, <2>4, <2>5 DEF Possible, Related, Bit
<1> QED BY <1>1, <1>2

----------------------------------------------------------------------------
(* int_lattice_steps: the two steps with which the gates are written are   *)
(* right for every constant of the form, also one between two integers.    *)
(* The variables of a regular form add a multiple of the unit to it.       *)
THEOREM LatticeSteps ==
  ASSUME NEW f, f.const \in Int, NEW k \in Int,
         NEW L \in Int, NEW U \in Int, L <= k * One + f.const, k * One + f.const <= U
  PROVE  Value(k * One + f.const, L, U, Above(f), Below(f))
<1>. DEFINE m == f.const % One
            j == k + (f.const \div One)
            d == k * One + f.const
<1>1. One \in Int /\ One > 0
  BY LinearRowsAssumption
<1>2. m \in Int /\ 0 <= m /\ m < One /\ (f.const \div One) \in Int
      /\ f.const = One * (f.const \div One) + m
  BY <1>1
<1>3. j \in Int /\ d = j * One + m
  <2>. DEFINE i == f.const \div One
  <2>1. i \in Int /\ f.const = One * i + m /\ j = k + i
    BY <1>2
  <2>. HIDE DEF i, m, j
  <2>2. (k + i) * One = k * One + One * i
    BY <2>1, <1>1
  <2> QED BY <2>1, <2>2, <1>1, <1>2 DEF d
<1>. HIDE DEF m, j, d
<1>4. /\ j >= 1 => j * One >= One
      /\ j <= -1 => j * One <= -One
      /\ j = 0 => j * One = 0
  <2>1. ASSUME j >= 1 PROVE j * One >= One
    <3>1. j - 1 \in Nat /\ One \in Nat  BY <1>1, <1>3, <2>1
    <3>2. (j - 1) * One \in Nat  BY <3>1
    <3>3. (j - 1) * One = j * One - One  BY <1>1, <1>3
    <3> QED BY <3>2, <3>3, <1>1, <1>3
  <2>2. ASSUME j <= -1 PROVE j * One <= -One
    <3>1. -j - 1 \in Nat /\ One \in Nat  BY <1>1, <1>3, <2>2
    <3>2. (-j - 1) * One \in Nat  BY <3>1
    <3>3. (-j - 1) * One = -(j * One) - One  BY <1>1, <1>3
    <3> QED BY <3>2, <3>3, <1>1, <1>3
  <2> QED BY <2>1, <2>2, <1>1
<1>5. j * One \in Int /\ d \in Int
  BY <1>1, <1>2, <1>3
<1>6. /\ Above(f) = IF m > 0 THEN m ELSE One
      /\ Below(f) = IF m > 0 THEN m - One ELSE -One
  BY DEF Above, Below, m
<1>7. /\ Above(f) \in Int /\ Above(f) > 0 /\ (d > 0 => d >= Above(f))
      /\ Below(f) \in Int /\ Below(f) < 0 /\ (d < 0 => d <= Below(f))
  <2>. DEFINE q == j * One
  <2>1. d = q + m /\ q \in Int /\ (q >= One \/ q <= -One \/ q = 0)
    BY <1>3, <1>4, <1>5
  <2>. HIDE DEF q
  <2> QED BY <1>1, <1>2, <1>6, <2>1
<1> QED BY <1>5, <1>7 DEF Value, d

=============================================================================
