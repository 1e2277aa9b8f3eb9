------------------------------ MODULE OrbitFacts ------------------------------
(***************************************************************************)
(* The functional-graph facts behind the orbit constraints of              *)
(* src/src/fz_cp.inc: for a table next over 0 .. n-1, how many distinct    *)
(* states the walk from s visits (orb), how many of them come before the   *)
(* cycle (tr) and how long that cycle is (cl).  fg_facts answers from a    *)
(* memo shared by the whole solve and extends it with every state of the   *)
(* walk it had to make.                                                    *)
(***************************************************************************)
EXTENDS Integers, Sequences, FiniteSets, FiniteSetsExt, SequencesExt, TLC

Fact(orb, tr, cl) == [orb |-> orb, tr |-> tr, cl |-> cl]

Iterate(next, s) ==     \* s, next[s], next[next[s]], ... as a function of the step
  LET it[i \in 0 .. Cardinality(DOMAIN next)] ==
        IF i = 0 THEN s ELSE next[it[i - 1]]
  IN it

(* The memo after fg_facts(o, s): the walk stops at a state whose facts    *)
(* are known or that it has itself visited; then the facts of every state  *)
(* it visited are written back from that point.                            *)
WriteBack_TailAsCycle(memo, walk, k) ==     \* the states before the cycle taken for on it
  [x \in {walk[i] : i \in 0 .. k - 1} |->
     IF walk[k] \in DOMAIN memo THEN memo[walk[k]] ELSE Fact(k, 0, k)]
WriteBack(memo, walk, k) ==
  LET known == walk[k] \in DOMAIN memo
      p == IF known THEN k ELSE CHOOSE j \in 0 .. k - 1 : walk[j] = walk[k]
      entry == IF known THEN memo[walk[k]] ELSE Fact(k - p, 0, k - p)
      FactAt(i) ==
        IF i >= p THEN entry
        ELSE Fact(entry.orb + (p - i), entry.tr + (p - i), entry.cl)
      Step(x) == CHOOSE i \in 0 .. k - 1 : walk[i] = x
  IN [x \in {walk[i] : i \in 0 .. k - 1} |-> FactAt(Step(x))]

fg_facts(memo, next, s) ==
  LET walk == Iterate(next, s)
      Visited(k) == {walk[j] : j \in 0 .. k - 1}
      k == Min({i \in DOMAIN walk : walk[i] \in DOMAIN memo \union Visited(i)})
      written == WriteBack(memo, walk, k)
  IN [x \in DOMAIN written \union DOMAIN memo |->
        IF x \in DOMAIN written THEN written[x] ELSE memo[x]]

(* A propagator asks for the facts of the states S of a domain, in         *)
(* ascending order.                                                        *)
Learn(memo, next, S) ==
  LET n == Cardinality(DOMAIN next)
      known[s \in 0 .. n] ==
        IF s = 0 THEN memo
        ELSE IF s - 1 \in S THEN fg_facts(known[s - 1], next, s - 1) ELSE known[s - 1]
  IN known[n]

(* fg_fact: the quantity that an orbit constraint of the kind equates with *)
(* its output.                                                             *)
fg_fact(memo, s, kind, cap) ==
  CASE kind = "orbit" -> memo[s].orb
    [] kind = "transient" -> memo[s].tr
    [] kind = "cycle" -> memo[s].cl
    [] kind = "capped" -> IF memo[s].orb < cap THEN memo[s].orb ELSE cap

----------------------------------------------------------------------------
(* The same facts from their meaning: the reference the memo is held to.   *)

Orbit(next, s) == {Iterate(next, s)[i] : i \in 0 .. Cardinality(DOMAIN next)}
OnCycle(next, s) == \E i \in 1 .. Cardinality(DOMAIN next) : Iterate(next, s)[i] = s

TrueFact(next, s) ==
  LET cycle == {x \in Orbit(next, s) : OnCycle(next, x)}
  IN Fact(Cardinality(Orbit(next, s)),
          Cardinality(Orbit(next, s) \ cycle),
          Cardinality(cycle))
=============================================================================
