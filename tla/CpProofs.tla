------------------------------ MODULE CpProofs ------------------------------
(***************************************************************************)
(* The orbit memo of src/src/fz_cp.inc holds nothing but the truth: for    *)
(* every table next, of any size and any shape, and for every order in     *)
(* which the propagators ask, each fact that fg_facts has ever written     *)
(* back -- length of the walk, of its tail and of its cycle -- is the one  *)
(* that follows from the meaning of the table, although a walk stops at    *)
(* the first state whose facts are known and the memo outlives every node  *)
(* of the search.  The memo is closed under next at every moment; that is  *)
(* why a walk that reaches it need not look further.                       *)
(*                                                                         *)
(* On top of it, the contract of all propagators: for every problem whose  *)
(* arithmetic fits the words of the code (Tame), no step of the search     *)
(* ever loses a solution from the domains of the node it stands on.        *)
(*                                                                         *)
(* And what the end of propagation is worth: a pass that counts no write   *)
(* has settled every constraint it has been over, so that at a fixpoint    *)
(* all_different is consistent, and a point all of whose coordinates are   *)
(* there is a solution.                                                    *)
(***************************************************************************)
EXTENDS CpPropagators, SumFacts, FunctionTheorems, TLAPS

----------------------------------------------------------------------------
(* Walks over a table.                                                     *)

Table(next) ==
  /\ IsFiniteSet(DOMAIN next)
  /\ next \in [DOMAIN next -> DOMAIN next]

ClosedIn(next, S) == S \subseteq DOMAIN next /\ \A x \in S : next[x] \in S

(* f is the walk from s for n steps.                                       *)
Walks(f, next, s, n) ==
  f = [i \in 0 .. n |-> IF i = 0 THEN s ELSE next[f[i - 1]]]

(* The recursion of Iterate has a solution: a walk of any length exists.   *)
LEMMA WalkExists ==
  ASSUME NEW next, NEW s, NEW n \in Nat
  PROVE  \E f : Walks(f, next, s, n)
<1> DEFINE B == {m \in Nat : ~ \E f : Walks(f, next, s, m)}
<1> SUFFICES ASSUME B # {} PROVE FALSE
  OBVIOUS
<1>1. PICK m \in B : \A j \in B : m <= j
  <2>1. B \subseteq Nat /\ B # {}
    OBVIOUS
  <2> HIDE DEF B
  <2> QED BY <2>1, LeastNumber
<1>2. CASE m = 0
  <2> DEFINE f == [i \in 0 .. 0 |-> s]
  <2>1. Walks(f, next, s, 0)
    <3>1. 0 .. 0 = {0}
      OBVIOUS
    <3> QED BY <3>1 DEF Walks
  <2> QED BY <2>1, <1>1, <1>2
<1>3. CASE m # 0
  <2>1. m - 1 \in Nat /\ m - 1 \notin B
    BY <1>1, <1>3
  <2>2. PICK g : Walks(g, next, s, m - 1)
    BY <2>1
  <2> DEFINE f == [i \in 0 .. m |-> IF i = m THEN next[g[m - 1]] ELSE g[i]]
  <2>3. \A i \in 0 .. m : f[i] = IF i = 0 THEN s ELSE next[f[i - 1]]
    <3> SUFFICES ASSUME NEW i \in 0 .. m
                 PROVE  f[i] = IF i = 0 THEN s ELSE next[f[i - 1]]
      OBVIOUS
    <3>1. CASE i = m
      <4>1. f[m] = next[g[m - 1]] /\ f[m - 1] = g[m - 1]
        BY <1>3
      <4> QED BY <4>1, <3>1, <1>3
    <3>2. CASE i # m
      <4>1. i \in 0 .. m - 1 /\ f[i] = g[i] /\ (i # 0 => f[i - 1] = g[i - 1])
        BY <3>2, <1>1
      <4>2. g[i] = IF i = 0 THEN s ELSE next[g[i - 1]]
        BY <2>2, <4>1 DEF Walks
      <4> QED BY <4>1, <4>2
    <3> QED BY <3>1, <3>2
  <2>4. f = [i \in 0 .. m |-> f[i]]
    OBVIOUS
  <2> HIDE DEF f
  <2>5. Walks(f, next, s, m)
    BY <2>3, <2>4 DEF Walks
  <2> QED BY <2>5, <1>1
<1> QED BY <1>2, <1>3

(* Iterate is the walk that fg_facts makes: it starts at s, each step is   *)
(* one use of the table, and it never leaves the table.                    *)
LEMMA IterateIs ==
  ASSUME NEW next, Table(next), NEW s \in DOMAIN next
  PROVE  LET n == Cardinality(DOMAIN next)
             it == Iterate(next, s)
         IN /\ n \in Nat
            /\ it \in [0 .. n -> DOMAIN next]
            /\ it[0] = s
            /\ \A i \in 0 .. n : i > 0 => it[i] = next[it[i - 1]]
<1> DEFINE n == Cardinality(DOMAIN next)
           it == Iterate(next, s)
<1>1. n \in Nat
  BY FS_CardinalityType DEF Table
<1>2. it = CHOOSE f : Walks(f, next, s, n)
  BY DEF Iterate, Walks
<1>3. \E f : Walks(f, next, s, n)
  BY <1>1, WalkExists
<1>4. Walks(it, next, s, n)
  BY <1>2, <1>3
<1> HIDE DEF it, n
<1>5. it = [i \in 0 .. n |-> IF i = 0 THEN s ELSE next[it[i - 1]]]
  BY <1>4 DEF Walks
<1>6. it[0] = s /\ \A i \in 0 .. n : i > 0 => it[i] = next[it[i - 1]]
  BY <1>5, <1>1
<1>7. DOMAIN it = 0 .. n
  BY <1>5
<1> DEFINE B == {i \in 0 .. n : it[i] \notin DOMAIN next}
<1>8. ASSUME B # {} PROVE FALSE
  <2>1. PICK i \in B : \A j \in B : i <= j
    <3>1. B \subseteq Nat /\ B # {}
      BY <1>8, <1>1
    <3> HIDE DEF B
    <3> QED BY <3>1, LeastNumber
  <2>2. i > 0 /\ i - 1 \in 0 .. n /\ i - 1 \notin B
    BY <2>1, <1>6, <1>1
  <2>3. it[i - 1] \in DOMAIN next
    BY <2>2
  <2> QED BY <2>1, <2>2, <2>3, <1>6 DEF Table
<1>9. it \in [0 .. n -> DOMAIN next]
  <2>1. \A i \in 0 .. n : it[i] \in DOMAIN next
    BY <1>8
  <2>2. it = [i \in 0 .. n |-> it[i]]
    BY <1>5
  <2> QED BY <2>1, <2>2
<1> QED BY <1>1, <1>6, <1>9 DEF it, n

(* A set that is closed and holds s holds the whole walk from s.           *)
LEMMA OrbitWithin ==
  ASSUME NEW next, Table(next), NEW s \in DOMAIN next, NEW T, ClosedIn(next, T), s \in T
  PROVE  Orbit(next, s) \subseteq T
<1> DEFINE n == Cardinality(DOMAIN next)
           it == Iterate(next, s)
           B == {i \in 0 .. n : it[i] \notin T}
<1>0. n \in Nat /\ it[0] = s /\ \A i \in 0 .. n : i > 0 => it[i] = next[it[i - 1]]
  BY IterateIs
<1>1. ASSUME B # {} PROVE FALSE
  <2>1. PICK i \in B : \A j \in B : i <= j
    <3>1. B \subseteq Nat /\ B # {}
      BY <1>0, <1>1
    <3> HIDE DEF B
    <3> QED BY <3>1, LeastNumber
  <2> HIDE DEF n, it
  <2>2. i > 0 /\ i - 1 \in 0 .. n /\ i - 1 \notin B
    BY <2>1, <1>0
  <2>3. it[i - 1] \in T
    BY <2>2
  <2> QED BY <2>1, <2>2, <2>3, <1>0 DEF ClosedIn
<1> HIDE DEF it
<1>2. Orbit(next, s) = {it[i] : i \in 0 .. n}
  BY DEF Orbit, it
<1> QED BY <1>1, <1>2

(* Among the n + 1 states of a walk over a table of n two are the same:    *)
(* the loop of fg_facts ends, at the latest there.                         *)
LEMMA WalkRepeats ==
  ASSUME NEW next, Table(next), NEW s \in DOMAIN next
  PROVE  \E j \in 0 .. Cardinality(DOMAIN next) : \E i \in 0 .. j - 1 :
            Iterate(next, s)[i] = Iterate(next, s)[j]
<1> DEFINE n == Cardinality(DOMAIN next)
           it == Iterate(next, s)
<1>1. n \in Nat /\ it \in [0 .. n -> DOMAIN next]
  BY IterateIs
<1>2. IsFiniteSet(0 .. n) /\ Cardinality(0 .. n) = n + 1
  BY <1>1, FS_Interval
<1>3. IsFiniteSet(DOMAIN next)
  BY DEF Table
<1> HIDE DEF it
<1>4. \E x, y \in 0 .. n : x # y /\ it[x] = it[y]
  BY <1>1, <1>2, <1>3, FS_PigeonHole
<1>5. PICK x \in 0 .. n, y \in 0 .. n : x # y /\ it[x] = it[y]
  BY <1>4
<1>6. CASE x < y
  BY <1>5, <1>6, <1>1 DEF it
<1>7. CASE y < x
  BY <1>5, <1>7, <1>1 DEF it
<1> QED BY <1>5, <1>6, <1>7, <1>1

(* An orbit is a closed set, and fewer than n steps reach all of it.       *)
LEMMA OrbitIs ==
  ASSUME NEW next, Table(next), NEW s \in DOMAIN next
  PROVE  /\ ClosedIn(next, Orbit(next, s))
         /\ s \in Orbit(next, s)
         /\ \A x \in Orbit(next, s) :
              \E i \in 0 .. Cardinality(DOMAIN next) - 1 : x = Iterate(next, s)[i]
<1> DEFINE n == Cardinality(DOMAIN next)
           it == Iterate(next, s)
<1>0. /\ n \in Nat /\ it[0] = s
      /\ it \in [0 .. n -> DOMAIN next]
      /\ \A i \in 0 .. n : i > 0 => it[i] = next[it[i - 1]]
  BY IterateIs
<1>1. PICK j \in 0 .. n : \E i \in 0 .. j - 1 : it[i] = it[j]
  BY WalkRepeats
<1>2. PICK i \in 0 .. j - 1 : it[i] = it[j]
  BY <1>1
<1>3. Orbit(next, s) = {it[m] : m \in 0 .. n}
  BY DEF Orbit
<1> HIDE DEF it, n
<1> DEFINE C == {it[m] : m \in 0 .. j - 1}
<1>4. j >= 1 /\ s \in C
  BY <1>0, <1>2
<1>5. ClosedIn(next, C)
  <2>1. C \subseteq DOMAIN next
    BY <1>0
  <2>2. ASSUME NEW m \in 0 .. j - 1 PROVE next[it[m]] \in C
    <3>1. next[it[m]] = it[m + 1]
      <4>1. m + 1 \in 0 .. n /\ m + 1 > 0 /\ (m + 1) - 1 = m
        BY <1>0, <1>1
      <4> QED BY <4>1, <1>0
    <3>2. CASE m + 1 = j
      BY <3>1, <3>2, <1>2
    <3>3. CASE m + 1 # j
      BY <3>1, <3>3
    <3> QED BY <3>2, <3>3
  <2> QED BY <2>1, <2>2 DEF ClosedIn
<1>6. Orbit(next, s) \subseteq C
  BY <1>4, <1>5, OrbitWithin
<1>7. C \subseteq Orbit(next, s)
  BY <1>3, <1>0
<1>8. Orbit(next, s) = C
  BY <1>6, <1>7
<1> QED
  <2>1. \A x \in C : \E m \in 0 .. n - 1 : x = it[m]
    BY <1>0, <1>1
  <2> QED BY <2>1, <1>4, <1>5, <1>8 DEF it, n

(* The orbit of a state is the state with the orbit of its successor.      *)
LEMMA OrbitStep ==
  ASSUME NEW next, Table(next), NEW s \in DOMAIN next
  PROVE  Orbit(next, s) = {s} \cup Orbit(next, next[s])
<1>1. next[s] \in DOMAIN next
  BY DEF Table
<1>2. ClosedIn(next, Orbit(next, next[s])) /\ next[s] \in Orbit(next, next[s])
  BY <1>1, OrbitIs
<1>3. ClosedIn(next, Orbit(next, s)) /\ s \in Orbit(next, s)
  BY OrbitIs
<1>4. ClosedIn(next, {s} \cup Orbit(next, next[s]))
  BY <1>2 DEF ClosedIn
<1>5. Orbit(next, s) \subseteq {s} \cup Orbit(next, next[s])
  BY <1>4, OrbitWithin
<1>6. next[s] \in Orbit(next, s)
  BY <1>3 DEF ClosedIn
<1>7. Orbit(next, next[s]) \subseteq Orbit(next, s)
  BY <1>1, <1>3, <1>6, OrbitWithin
<1> QED BY <1>3, <1>5, <1>7

(* A state is on a cycle exactly when its successor leads back to it.      *)
LEMMA OnCycleIs ==
  ASSUME NEW next, Table(next), NEW s \in DOMAIN next
  PROVE  OnCycle(next, s) <=> s \in Orbit(next, next[s])
<1> DEFINE n == Cardinality(DOMAIN next)
           it == Iterate(next, s)
           jt == Iterate(next, next[s])
<1>0. /\ n \in Nat /\ it[0] = s
      /\ it \in [0 .. n -> DOMAIN next]
      /\ \A i \in 0 .. n : i > 0 => it[i] = next[it[i - 1]]
  BY IterateIs
<1>1. next[s] \in DOMAIN next
  BY DEF Table
<1>2. /\ jt[0] = next[s]
      /\ \A i \in 0 .. n : i > 0 => jt[i] = next[jt[i - 1]]
  BY <1>1, IterateIs
<1>3. Orbit(next, next[s]) = {jt[m] : m \in 0 .. n}
  BY DEF Orbit
<1>4. \A x \in Orbit(next, next[s]) : \E i \in 0 .. n - 1 : x = jt[i]
  BY <1>1, OrbitIs
<1>5. OnCycle(next, s) <=> \E i \in 1 .. n : it[i] = s
  BY DEF OnCycle
<1> HIDE DEF it, jt, n
<1> DEFINE B == {i \in 0 .. n : i > 0 /\ it[i] # jt[i - 1]}
<1>6. ASSUME B # {} PROVE FALSE
  <2>1. PICK i \in B : \A j \in B : i <= j
    <3>1. B \subseteq Nat /\ B # {}
      BY <1>0, <1>6
    <3> HIDE DEF B
    <3> QED BY <3>1, LeastNumber
  <2>2. CASE i = 1
    BY <2>1, <2>2, <1>0, <1>2
  <2>3. CASE i # 1
    <3>1. i - 1 \in 0 .. n /\ i - 1 > 0 /\ i > 0 /\ i - 1 \notin B /\ i \in 0 .. n
      BY <2>1, <2>3, <1>0
    <3>2. it[i - 1] = jt[(i - 1) - 1]
      BY <3>1
    <3>3. it[i] = next[it[i - 1]] /\ jt[i - 1] = next[jt[(i - 1) - 1]]
      BY <3>1, <1>0, <1>2
    <3> QED BY <3>2, <3>3, <2>1
  <2> QED BY <2>2, <2>3
<1>7. ASSUME NEW i \in 1 .. n, it[i] = s
      PROVE  s \in Orbit(next, next[s])
  <2>1. it[i] = jt[i - 1] /\ i - 1 \in 0 .. n
    BY <1>6, <1>0
  <2> QED BY <2>1, <1>7, <1>3
<1>8. ASSUME s \in Orbit(next, next[s])
      PROVE  \E i \in 1 .. n : it[i] = s
  <2>1. PICK i \in 0 .. n - 1 : s = jt[i]
    BY <1>4, <1>8
  <2>2. i + 1 \in 1 .. n /\ i + 1 \in 0 .. n /\ (i + 1) - 1 = i
    BY <1>0
  <2>3. it[i + 1] = jt[(i + 1) - 1]
    BY <1>6, <2>2
  <2> QED BY <2>1, <2>2, <2>3
<1> QED BY <1>5, <1>7, <1>8

(* The states of the orbit that are on a cycle.                            *)
Ring(next, s) == {x \in Orbit(next, s) : OnCycle(next, x)}

(* The three facts of a state, as sizes of its orbit and of the ring in    *)
(* it.                                                                     *)
LEMMA TrueFactIs ==
  ASSUME NEW next, NEW s
  PROVE  TrueFact(next, s) =
           [orb |-> Cardinality(Orbit(next, s)),
            tr |-> Cardinality(Orbit(next, s) \ Ring(next, s)),
            cl |-> Cardinality(Ring(next, s))]
BY DEF TrueFact, Fact, Ring

(* The sizes are those of finite sets.                                     *)
LEMMA OrbitFinite ==
  ASSUME NEW next, Table(next), NEW s \in DOMAIN next
  PROVE  IsFiniteSet(Orbit(next, s))
BY OrbitIs, FS_Subset DEF ClosedIn, Table

(* Off a cycle the walk and its tail are one longer than those of the      *)
(* successor and the cycle is the same: what the backward pass adds.       *)
LEMMA FactStep ==
  ASSUME NEW next, Table(next), NEW s \in DOMAIN next, s \notin Orbit(next, next[s])
  PROVE  TrueFact(next, s) =
           LET t == TrueFact(next, next[s]) IN Fact(t.orb + 1, t.tr + 1, t.cl)
<1> DEFINE O == Orbit(next, next[s])
           R == Ring(next, next[s])
<1>1. next[s] \in DOMAIN next /\ IsFiniteSet(O)
  BY OrbitFinite DEF Table
<1>2. Orbit(next, s) = O \cup {s}
  BY OrbitStep
<1>3. ~OnCycle(next, s)
  BY OnCycleIs
<1>4. Ring(next, s) = R
  BY <1>2, <1>3 DEF Ring
<1>5. R \subseteq O
  BY DEF Ring
<1>6. (O \cup {s}) \ R = (O \ R) \cup {s} /\ s \notin O \ R
  BY <1>5
<1>7. IsFiniteSet(O \ R)
  BY <1>1, FS_Subset
<1>8. Cardinality(O \cup {s}) = Cardinality(O) + 1
  BY <1>1, FS_AddElement
<1>9. Cardinality((O \ R) \cup {s}) = Cardinality(O \ R) + 1
  BY <1>6, <1>7, FS_AddElement
<1>10. TrueFact(next, next[s]) =
         [orb |-> Cardinality(O), tr |-> Cardinality(O \ R), cl |-> Cardinality(R)]
  BY TrueFactIs
<1>11. TrueFact(next, s) =
         [orb |-> Cardinality(O \cup {s}), tr |-> Cardinality((O \cup {s}) \ R), cl |-> Cardinality(R)]
  BY <1>2, <1>4, TrueFactIs
<1> HIDE DEF O, R
<1> QED BY <1>6, <1>8, <1>9, <1>10, <1>11 DEF Fact

(* The facts of a state whose whole orbit is a cycle: nothing comes        *)
(* before.                                                                 *)
LEMMA FactOnRing ==
  ASSUME NEW next, Table(next), NEW s \in DOMAIN next, NEW T,
         Orbit(next, s) = T, \A x \in T : OnCycle(next, x)
  PROVE  TrueFact(next, s) = Fact(Cardinality(T), 0, Cardinality(T))
<1>1. Ring(next, s) = T /\ Orbit(next, s) \ Ring(next, s) = {}
  BY DEF Ring
<1>2. Cardinality({}) = 0
  BY FS_EmptySet
<1> QED BY <1>1, <1>2, TrueFactIs DEF Fact

----------------------------------------------------------------------------
(* One call of fg_facts.                                                   *)

(* What the memo must be: its states are closed under next, and each of    *)
(* its facts is true.                                                      *)
Truthful(next, memo) ==
  /\ ClosedIn(next, DOMAIN memo)
  /\ \A x \in DOMAIN memo : memo[x] = TrueFact(next, x)

(* A walk of k steps that runs into the memo, or into itself at step p.    *)
Stops(next, memo, w, k, p) ==
  /\ k \in Nat /\ p \in 0 .. k
  /\ \A i \in 0 .. k : w[i] \in DOMAIN next
  /\ \A i \in 0 .. k - 1 : w[i + 1] = next[w[i]]
  /\ \A i \in 0 .. k - 1 : w[i] \notin DOMAIN memo
  /\ \A i, j \in 0 .. k - 1 : i # j => w[i] # w[j]
  /\ IF w[k] \in DOMAIN memo THEN p = k ELSE p < k /\ w[p] = w[k]

(* The states after step i, with those of the memo.                        *)
Rest(memo, w, k, i) == DOMAIN memo \cup {w[j] : j \in i .. k - 1}

(* Where the walk stops, the states it visited and the memo are closed:    *)
(* the memo stays closed when they are written back.                       *)
LEMMA RestIsClosed ==
  ASSUME NEW next, Table(next), NEW memo, Truthful(next, memo), NEW w, NEW k, NEW p,
         Stops(next, memo, w, k, p), NEW i \in 0 .. p
  PROVE  ClosedIn(next, Rest(memo, w, k, i)) /\ w[i] \in Rest(memo, w, k, i)
<1> DEFINE R == Rest(memo, w, k, i)
<1>1. R \subseteq DOMAIN next
  BY DEF Rest, Truthful, ClosedIn, Stops
<1>2. w[k] \in R
  BY DEF Rest, Stops
<1>3. ASSUME NEW j \in i .. k - 1 PROVE next[w[j]] \in R
  <2>1. next[w[j]] = w[j + 1]
    BY DEF Stops
  <2>2. CASE j + 1 = k
    BY <2>1, <2>2, <1>2
  <2>3. CASE j + 1 # k
    <3>1. j + 1 \in i .. k - 1
      BY <2>3 DEF Stops
    <3> QED BY <2>1, <3>1 DEF Rest
  <2> QED BY <2>2, <2>3
<1>4. ASSUME NEW x \in DOMAIN memo PROVE next[x] \in R
  BY DEF Rest, Truthful, ClosedIn
<1>5. \A x \in R : next[x] \in R
  BY <1>3, <1>4 DEF Rest
<1>6. w[i] \in R
  <2>1. CASE i = k
    BY <2>1, <1>2
  <2>2. CASE i # k
    <3>1. i \in i .. k - 1
      BY <2>2 DEF Stops
    <3> QED BY <3>1 DEF Rest
  <2> QED BY <2>1, <2>2
<1> QED BY <1>1, <1>5, <1>6 DEF ClosedIn

(* Before step p the walk does not come back: none of those states is on a *)
(* cycle, so each fact there is one more than the next one.                *)
LEMMA NoReturn ==
  ASSUME NEW next, Table(next), NEW memo, Truthful(next, memo), NEW w, NEW k, NEW p,
         Stops(next, memo, w, k, p), NEW i \in 0 .. p - 1
  PROVE  /\ w[i] \in DOMAIN next /\ next[w[i]] = w[i + 1]
         /\ w[i] \notin Orbit(next, w[i + 1])
<1>1. i + 1 \in 0 .. p /\ i \in 0 .. k - 1 /\ i \in 0 .. k /\ i + 1 \in 0 .. k
  BY DEF Stops
<1>2. ClosedIn(next, Rest(memo, w, k, i + 1)) /\ w[i + 1] \in Rest(memo, w, k, i + 1)
  BY <1>1, RestIsClosed
<1>3. w[i] \in DOMAIN next /\ w[i + 1] \in DOMAIN next /\ next[w[i]] = w[i + 1]
  BY <1>1 DEF Stops
<1>4. Orbit(next, w[i + 1]) \subseteq Rest(memo, w, k, i + 1)
  BY <1>2, <1>3, OrbitWithin
<1>5. w[i] \notin DOMAIN memo
  BY <1>1 DEF Stops
<1>6. \A j \in i + 1 .. k - 1 : w[i] # w[j]
  BY <1>1 DEF Stops
<1>7. w[i] \notin Rest(memo, w, k, i + 1)
  BY <1>5, <1>6 DEF Rest
<1> QED BY <1>3, <1>4, <1>7

(* From step p on, a walk that has run into itself goes round the cycle:   *)
(* its length is the distance between the two visits.                      *)
LEMMA RingFacts ==
  ASSUME NEW next, Table(next), NEW memo, NEW w, NEW k, NEW p,
         Stops(next, memo, w, k, p), w[k] \notin DOMAIN memo, NEW i \in p .. k - 1
  PROVE  TrueFact(next, w[i]) = Fact(k - p, 0, k - p)
<1> DEFINE T == {w[j] : j \in p .. k - 1}
<1>0. /\ k \in Nat /\ p \in Nat /\ p < k /\ w[p] = w[k]
      /\ \A j \in p .. k - 1 : j \in 0 .. k - 1 /\ w[j] \in DOMAIN next /\ w[j + 1] = next[w[j]]
      /\ \A j, l \in p .. k - 1 : j # l => w[j] # w[l]
  BY DEF Stops
<1>1. ASSUME NEW j \in p .. k - 1 PROVE next[w[j]] \in T
  <2>1. CASE j + 1 = k
    BY <2>1, <1>0
  <2>2. CASE j + 1 # k
    BY <2>2, <1>0
  <2> QED BY <2>1, <2>2
<1>2. ClosedIn(next, T)
  BY <1>0, <1>1 DEF ClosedIn
<1>3. ASSUME NEW C, ClosedIn(next, C), NEW a \in p .. k - 1, w[a] \in C
      PROVE  T \subseteq C
  <2>1. ASSUME NEW b \in p .. k - 1, w[b] \in C
        PROVE  \A j \in b .. k - 1 : w[j] \in C
    <3> DEFINE B == {j \in b .. k - 1 : w[j] \notin C}
    <3>1. ASSUME B # {} PROVE FALSE
      <4>1. PICK j \in B : \A l \in B : j <= l
        <5>1. B \subseteq Nat /\ B # {}
          BY <1>0, <3>1
        <5> HIDE DEF B
        <5> QED BY <5>1, LeastNumber
      <4>2. j # b /\ j - 1 \in b .. k - 1 /\ j - 1 \notin B /\ j - 1 \in p .. k - 1
        BY <4>1, <2>1, <1>0
      <4>3. w[j - 1] \in C /\ w[(j - 1) + 1] = next[w[j - 1]] /\ (j - 1) + 1 = j
        BY <4>2, <1>0
      <4> QED BY <4>1, <4>3, <1>3 DEF ClosedIn
    <3> QED BY <3>1
  <2>2. w[k - 1] \in C /\ k - 1 \in p .. k - 1 /\ (k - 1) + 1 = k
    BY <2>1, <1>3, <1>0
  <2>3. w[p] \in C /\ p \in p .. k - 1
    BY <2>2, <1>0, <1>3 DEF ClosedIn
  <2> QED BY <2>1, <2>3
<1>4. ASSUME NEW x \in T PROVE Orbit(next, x) = T
  <2>1. PICK a \in p .. k - 1 : x = w[a]
    OBVIOUS
  <2>2. x \in DOMAIN next
    BY <2>1, <1>0
  <2>3. Orbit(next, x) \subseteq T
    BY <1>2, <2>2, OrbitWithin
  <2>4. ClosedIn(next, Orbit(next, x)) /\ x \in Orbit(next, x)
    BY <2>2, OrbitIs
  <2>5. T \subseteq Orbit(next, x)
    BY <2>4, <2>1, <1>3
  <2> QED BY <2>3, <2>5
<1>5. ASSUME NEW x \in T PROVE OnCycle(next, x)
  <2>1. x \in DOMAIN next /\ next[x] \in T
    BY <1>0, <1>1
  <2>2. x \in Orbit(next, next[x])
    BY <2>1, <1>4
  <2> QED BY <2>1, <2>2, OnCycleIs
<1>6. Cardinality(T) = k - p
  <2> DEFINE f == [j \in p .. k - 1 |-> w[j]]
  <2>1. f \in Bijection(p .. k - 1, T)
    BY <1>0 DEF Bijection, Injection, Surjection, IsInjective
  <2>2. p \in Int /\ k - 1 \in Int
    BY <1>0
  <2>3. IsFiniteSet(p .. k - 1) /\ Cardinality(p .. k - 1) = (k - 1) - p + 1
    BY <2>2, <1>0, FS_Interval
  <2> HIDE DEF f, T
  <2>4. ExistsBijection(p .. k - 1, T)
    BY <2>1 DEF ExistsBijection
  <2>5. Cardinality(T) = Cardinality(p .. k - 1)
    BY <2>3, <2>4, FS_Bijection
  <2> QED BY <2>3, <2>5, <1>0
<1>7. w[i] \in T /\ w[i] \in DOMAIN next
  BY <1>0
<1> HIDE DEF T
<1>8. TrueFact(next, w[i]) = Fact(Cardinality(T), 0, Cardinality(T))
  BY <1>4, <1>5, <1>7, FactOnRing
<1> QED BY <1>6, <1>8

(* The facts that are written back to the states of a walk (WriteBack).    *)
Entry(memo, w, k, p) == IF w[k] \in DOMAIN memo THEN memo[w[k]] ELSE Fact(k - p, 0, k - p)
FactFrom(entry, p, i) ==
  IF i >= p THEN entry ELSE Fact(entry.orb + (p - i), entry.tr + (p - i), entry.cl)

(* What the backward pass writes to each state of the walk is its true     *)
(* fact, whether the walk ran into the memo or into itself.                *)
LEMMA WrittenFacts ==
  ASSUME NEW next, Table(next), NEW memo, Truthful(next, memo), NEW w, NEW k, NEW p,
         Stops(next, memo, w, k, p), NEW i \in 0 .. k - 1
  PROVE  TrueFact(next, w[i]) = FactFrom(Entry(memo, w, k, p), p, i)
<1> DEFINE e == Entry(memo, w, k, p)
<1>0. k \in Nat /\ p \in 0 .. k
  BY DEF Stops
<1>1. TrueFact(next, w[p]) = e
  <2>1. CASE w[k] \in DOMAIN memo
    BY <2>1 DEF Stops, Truthful, Entry
  <2>2. CASE w[k] \notin DOMAIN memo
    <3>1. p \in p .. k - 1
      BY <2>2 DEF Stops
    <3>2. TrueFact(next, w[p]) = Fact(k - p, 0, k - p)
      BY <2>2, <3>1, RingFacts
    <3> QED BY <2>2, <3>2 DEF Entry
  <2> QED BY <2>1, <2>2
<1>2. CASE i >= p
  <2>1. w[k] \notin DOMAIN memo /\ i \in p .. k - 1
    BY <1>2, <1>0 DEF Stops
  <2>2. TrueFact(next, w[i]) = Fact(k - p, 0, k - p)
    BY <2>1, RingFacts
  <2> QED BY <2>1, <2>2, <1>2 DEF Entry, FactFrom
<1>3. CASE i < p
  <2>1. e.orb \in Nat /\ e.tr \in Nat /\ e = Fact(e.orb, e.tr, e.cl)
    <3>1. w[p] \in DOMAIN next
      BY <1>0 DEF Stops
    <3>2. IsFiniteSet(Orbit(next, w[p]))
      BY <3>1, OrbitFinite
    <3>3. /\ Cardinality(Orbit(next, w[p])) \in Nat
          /\ Cardinality(Orbit(next, w[p]) \ Ring(next, w[p])) \in Nat
      BY <3>2, FS_CardinalityType, FS_Subset
    <3> QED BY <3>3, <1>1, TrueFactIs DEF Fact
  <2> DEFINE Good(j) == TrueFact(next, w[j]) = Fact(e.orb + (p - j), e.tr + (p - j), e.cl)
             B == {d \in 0 .. p : ~Good(p - d)}
  <2>2. Good(p)
    BY <1>1, <2>1, <1>0
  <2>3. ASSUME NEW j \in 0 .. p - 1, Good(j + 1) PROVE Good(j)
    <3>1. /\ w[j] \in DOMAIN next /\ next[w[j]] = w[j + 1]
          /\ w[j] \notin Orbit(next, w[j + 1])
      BY NoReturn
    <3>2. TrueFact(next, w[j]) = LET t == TrueFact(next, w[j + 1]) IN Fact(t.orb + 1, t.tr + 1, t.cl)
      BY <3>1, FactStep
    <3> HIDE DEF e
    <3>3. TrueFact(next, w[j]) =
            Fact((e.orb + (p - (j + 1))) + 1, (e.tr + (p - (j + 1))) + 1, e.cl)
      BY <3>2, <2>3 DEF Fact
    <3>4. (e.orb + (p - (j + 1))) + 1 = e.orb + (p - j) /\ (e.tr + (p - (j + 1))) + 1 = e.tr + (p - j)
      BY <2>1, <1>0
    <3> QED BY <3>3, <3>4
  <2> HIDE DEF Good
  <2>4. ASSUME B # {} PROVE FALSE
    <3>1. PICK d \in B : \A c \in B : d <= c
      <4>1. B \subseteq Nat /\ B # {}
        BY <1>0, <2>4
      <4> HIDE DEF B
      <4> QED BY <4>1, LeastNumber
    <3>2. d # 0
      BY <3>1, <2>2, <1>0
    <3>3. d - 1 \in 0 .. p /\ d - 1 \notin B /\ p - d \in 0 .. p - 1 /\ p - (d - 1) = (p - d) + 1
      BY <3>1, <3>2, <1>0
    <3>4. Good((p - d) + 1)
      BY <3>3
    <3> QED BY <3>1, <3>3, <3>4, <2>3
  <2>5. p - i \in 0 .. p /\ p - (p - i) = i
    BY <1>3, <1>0
  <2>6. Good(i)
    BY <2>4, <2>5
  <2> QED BY <2>6, <1>3, <1>0 DEF Good, FactFrom
<1> QED BY <1>2, <1>3, <1>0

(* fg_facts, for every table and every state: a call on a truthful memo    *)
(* answers, adds the state and all it walked over, and leaves the memo     *)
(* truthful.                                                               *)
THEOREM CallIsTruthful ==
  ASSUME NEW next, Table(next), NEW memo, Truthful(next, memo), NEW s \in DOMAIN next
  PROVE  /\ Truthful(next, fg_facts(memo, next, s))
         /\ DOMAIN memo \cup {s} \subseteq DOMAIN fg_facts(memo, next, s)
<1> DEFINE With(a, b) == [x \in DOMAIN a \union DOMAIN b |-> IF x \in DOMAIN a THEN a[x] ELSE b[x]]
           n == Cardinality(DOMAIN next)
           w == Iterate(next, s)
           Visited(i) == {w[j] : j \in 0 .. i - 1}
           Ends == {i \in DOMAIN w : w[i] \in DOMAIN memo \union Visited(i)}
           k == Min(Ends)
           p == IF w[k] \in DOMAIN memo THEN k ELSE CHOOSE j \in 0 .. k - 1 : w[j] = w[k]
           entry == Entry(memo, w, k, p)
           Step(x) == CHOOSE i \in 0 .. k - 1 : w[i] = x
           back == [x \in {w[i] : i \in 0 .. k - 1} |-> FactFrom(entry, p, Step(x))]
<1>0. /\ n \in Nat /\ w[0] = s
      /\ w \in [0 .. n -> DOMAIN next]
      /\ \A i \in 0 .. n : i > 0 => w[i] = next[w[i - 1]]
  BY IterateIs
<1>1. fg_facts(memo, next, s) = With(back, memo)
  BY DEF fg_facts, WriteBack, Entry, FactFrom
<1>2. \E j \in 0 .. n : \E i \in 0 .. j - 1 : w[i] = w[j]
  BY WalkRepeats
<1> HIDE DEF w, n
<1>3. Ends # {} /\ Ends \subseteq Nat /\ DOMAIN w = 0 .. n
  BY <1>0, <1>2
<1>4. k \in Ends /\ \A i \in Ends : k <= i
  <2>1. \E m \in Ends : \A i \in Ends : m <= i
    <3> HIDE DEF Ends
    <3> QED BY <1>3, LeastNumber
  <2> HIDE DEF Ends
  <2> QED BY <2>1 DEF Min
<1>5. k \in 0 .. n /\ k \in Nat /\ w[k] \in DOMAIN memo \union Visited(k)
  BY <1>3, <1>4, <1>0
<1>6. ASSUME NEW i \in 0 .. k - 1
      PROVE  i \in 0 .. n /\ w[i] \notin DOMAIN memo /\ w[i] \notin Visited(i)
  <2> HIDE DEF k
  <2>1. i \notin Ends
    BY <1>4, <1>5, <1>0
  <2> QED BY <2>1, <1>3, <1>5, <1>0
<1> HIDE DEF k, Ends
<1>7. IF w[k] \in DOMAIN memo THEN p = k ELSE p \in 0 .. k - 1 /\ w[p] = w[k]
  <2>1. w[k] \notin DOMAIN memo => \E j \in 0 .. k - 1 : w[j] = w[k]
    BY <1>5
  <2> QED BY <2>1
<1> HIDE DEF p
<1>8. Stops(next, memo, w, k, p)
  <2>1. p \in 0 .. k /\ IF w[k] \in DOMAIN memo THEN p = k ELSE p < k /\ w[p] = w[k]
    BY <1>5, <1>7
  <2>2. \A i \in 0 .. k : w[i] \in DOMAIN next
    BY <1>0, <1>5
  <2>3. \A i \in 0 .. k - 1 : w[i + 1] = next[w[i]]
    <3>1. \A i \in 0 .. k - 1 : i + 1 \in 0 .. n /\ i + 1 > 0 /\ (i + 1) - 1 = i
      BY <1>0, <1>5
    <3> QED BY <3>1, <1>0
  <2>4. \A i, j \in 0 .. k - 1 : i # j => w[i] # w[j]
    <3>1. ASSUME NEW i \in 0 .. k - 1, NEW j \in 0 .. k - 1, i < j PROVE w[i] # w[j]
      <4>1. w[j] \notin Visited(j) /\ i \in 0 .. j - 1
        BY <1>6, <3>1, <1>5
      <4> QED BY <4>1
    <3> QED BY <3>1, <1>5
  <2>5. \A i \in 0 .. k - 1 : w[i] \notin DOMAIN memo
    BY <1>6
  <2> QED BY <2>1, <2>2, <2>3, <2>4, <2>5, <1>5 DEF Stops
<1>9. \A x \in DOMAIN back : back[x] = TrueFact(next, x)
  <2> SUFFICES ASSUME NEW x \in {w[i] : i \in 0 .. k - 1}
               PROVE  back[x] = TrueFact(next, x)
    OBVIOUS
  <2>1. Step(x) \in 0 .. k - 1 /\ w[Step(x)] = x
    OBVIOUS
  <2>2. back[x] = FactFrom(entry, p, Step(x))
    OBVIOUS
  <2> HIDE DEF Step, back
  <2>3. TrueFact(next, w[Step(x)]) = FactFrom(entry, p, Step(x))
    BY <2>1, <1>8, WrittenFacts
  <2> QED BY <2>1, <2>2, <2>3
<1>10. DOMAIN back = {w[i] : i \in 0 .. k - 1}
  OBVIOUS
<1> HIDE DEF back
<1> DEFINE new == With(back, memo)
<1>11. /\ DOMAIN new = DOMAIN back \cup DOMAIN memo
       /\ \A x \in DOMAIN new : new[x] = IF x \in DOMAIN back THEN back[x] ELSE memo[x]
  OBVIOUS
<1>12. \A x \in DOMAIN new : new[x] = TrueFact(next, x)
  BY <1>9, <1>11 DEF Truthful
<1>13. DOMAIN new = Rest(memo, w, k, 0)
  BY <1>10, <1>11 DEF Rest
<1>14. 0 \in 0 .. p
  BY <1>8 DEF Stops
<1>15. ClosedIn(next, DOMAIN new) /\ s \in DOMAIN new /\ DOMAIN memo \subseteq DOMAIN new
  <2>1. ClosedIn(next, Rest(memo, w, k, 0)) /\ w[0] \in Rest(memo, w, k, 0)
    BY <1>14, <1>8, RestIsClosed
  <2> QED BY <2>1, <1>11, <1>13, <1>0
<1> QED BY <1>1, <1>12, <1>15 DEF Truthful

----------------------------------------------------------------------------
(* A pass over a domain, and the whole run.                                *)

(* Learn, as the function its recursion solves.                            *)
Learns(f, memo, next, S, n) ==
  f = [s \in 0 .. n |-> IF s = 0 THEN memo
                        ELSE IF s - 1 \in S THEN fg_facts(f[s - 1], next, s - 1) ELSE f[s - 1]]

(* The recursion of Learn has a solution.                                  *)
LEMMA LearnExists ==
  ASSUME NEW memo, NEW next, NEW S, NEW n \in Nat
  PROVE  \E f : Learns(f, memo, next, S, n)
<1> DEFINE After(m, x) == IF m - 1 \in S THEN fg_facts(x, next, m - 1) ELSE x
           B == {m \in Nat : ~ \E f : Learns(f, memo, next, S, m)}
<1> SUFFICES ASSUME B # {} PROVE FALSE
  OBVIOUS
<1>1. PICK m \in B : \A j \in B : m <= j
  <2>1. B \subseteq Nat /\ B # {}
    OBVIOUS
  <2> HIDE DEF B
  <2> QED BY <2>1, LeastNumber
<1>2. CASE m = 0
  <2> DEFINE f == [i \in 0 .. 0 |-> memo]
  <2>1. Learns(f, memo, next, S, 0)
    <3>1. 0 .. 0 = {0}
      OBVIOUS
    <3> QED BY <3>1 DEF Learns
  <2> QED BY <2>1, <1>1, <1>2
<1>3. CASE m # 0
  <2>1. m - 1 \in Nat /\ m - 1 \notin B
    BY <1>1, <1>3
  <2>2. PICK g : Learns(g, memo, next, S, m - 1)
    BY <2>1
  <2> DEFINE f == [i \in 0 .. m |-> IF i = m THEN After(m, g[m - 1]) ELSE g[i]]
  <2>3. \A i \in 0 .. m : f[i] = IF i = 0 THEN memo ELSE After(i, f[i - 1])
    <3> SUFFICES ASSUME NEW i \in 0 .. m
                 PROVE  f[i] = IF i = 0 THEN memo ELSE After(i, f[i - 1])
      OBVIOUS
    <3>1. CASE i = m
      <4>1. f[m] = After(m, g[m - 1]) /\ f[m - 1] = g[m - 1]
        BY <1>3
      <4> QED BY <4>1, <3>1, <1>3
    <3>2. CASE i # m
      <4>1. i \in 0 .. m - 1 /\ f[i] = g[i] /\ (i # 0 => f[i - 1] = g[i - 1])
        BY <3>2, <1>1
      <4>2. g[i] = IF i = 0 THEN memo ELSE After(i, g[i - 1])
        BY <2>2, <4>1 DEF Learns
      <4> QED BY <4>1, <4>2
    <3> QED BY <3>1, <3>2
  <2>4. f = [i \in 0 .. m |-> f[i]]
    OBVIOUS
  <2> HIDE DEF f
  <2>5. Learns(f, memo, next, S, m)
    BY <2>3, <2>4 DEF Learns
  <2> QED BY <2>5, <1>1
<1> QED BY <1>2, <1>3

(* A propagator that asks for all states of a domain leaves a truthful     *)
(* memo that knows them.                                                   *)
LEMMA LearnIsTruthful ==
  ASSUME NEW next, Table(next), DOMAIN next = 0 .. Cardinality(DOMAIN next) - 1,
         NEW memo, Truthful(next, memo), NEW S
  PROVE  /\ Truthful(next, Learn(memo, next, S))
         /\ S \cap DOMAIN next \subseteq DOMAIN Learn(memo, next, S)
<1> DEFINE n == Cardinality(DOMAIN next)
           known == CHOOSE f : Learns(f, memo, next, S, n)
<1>0. n \in Nat
  BY FS_CardinalityType DEF Table
<1>1. Learn(memo, next, S) = known[n]
  BY DEF Learn, Learns
<1>2. Learns(known, memo, next, S, n)
  BY <1>0, LearnExists
<1> HIDE DEF known, n
<1> DEFINE Good(i) == /\ Truthful(next, known[i])
                      /\ \A s \in S : s \in 0 .. i - 1 => s \in DOMAIN known[i]
           B == {i \in 0 .. n : ~Good(i)}
<1>3. known[0] = memo
  BY <1>2, <1>0 DEF Learns
<1>4. Good(0)
  BY <1>3
<1>5. ASSUME NEW i \in 0 .. n, i > 0, Good(i - 1) PROVE Good(i)
  <2>1. known[i] = IF i - 1 \in S THEN fg_facts(known[i - 1], next, i - 1) ELSE known[i - 1]
    <3>1. i # 0
      BY <1>5, <1>0
    <3> QED BY <3>1, <1>2, <1>5 DEF Learns
  <2>2. CASE i - 1 \in S
    <3>1. i - 1 \in DOMAIN next
      BY <1>5, <1>0 DEF n
    <3>2. Truthful(next, known[i]) /\ DOMAIN known[i - 1] \cup {i - 1} \subseteq DOMAIN known[i]
      BY <2>1, <2>2, <3>1, <1>5, CallIsTruthful
    <3>3. \A s \in S : s \in 0 .. i - 1 => s = i - 1 \/ s \in 0 .. (i - 1) - 1
      BY <1>0
    <3> QED BY <3>2, <3>3, <1>5
  <2>3. CASE i - 1 \notin S
    <3>1. \A s \in S : s \in 0 .. i - 1 => s \in 0 .. (i - 1) - 1
      BY <2>3, <1>0
    <3>2. known[i] = known[i - 1]
      BY <2>1, <2>3
    <3> QED BY <3>1, <3>2, <1>5
  <2> QED BY <2>2, <2>3
<1> HIDE DEF Good
<1>6. ASSUME B # {} PROVE FALSE
  <2>1. PICK i \in B : \A j \in B : i <= j
    <3>1. B \subseteq Nat /\ B # {}
      BY <1>0, <1>6
    <3> HIDE DEF B
    <3> QED BY <3>1, LeastNumber
  <2>2. i > 0 /\ i - 1 \in 0 .. n /\ i - 1 \notin B
    BY <2>1, <1>4, <1>0
  <2> QED BY <2>1, <2>2, <1>5
<1>7. Good(n)
  BY <1>6, <1>0
<1> QED BY <1>1, <1>7 DEF Good, n

(* The inductive invariant: the memo, at every moment of the run.          *)
MemoInv == problem \in Problems /\ Truthful(problem.next, facts)

(* No step of the run leaves a false fact in the memo.                     *)
LEMMA MemoIsKept == MemoInv /\ [Next]_vars => MemoInv'
<1> SUFFICES ASSUME MemoInv, [Next]_vars PROVE MemoInv'
  OBVIOUS
<1>1. CASE UNCHANGED <<problem, facts>>
  BY <1>1 DEF MemoInv
<1>2. CASE OrbitLike
  <2> DEFINE next == problem.next
             S == Asked(OrbitDomains(dom, constraint), constraint)
  <2>1. problem' = problem /\ facts' = Learn(facts, next, S)
    BY <1>2 DEF OrbitLike, Run
  <2>2. Table(next) /\ DOMAIN next = 0 .. Cardinality(DOMAIN next) - 1
    BY ProblemsAssumption DEF MemoInv, Table
  <2> HIDE DEF S
  <2>3. Truthful(next, Learn(facts, next, S))
    BY <2>2, LearnIsTruthful DEF MemoInv
  <2> QED BY <2>1, <2>3 DEF MemoInv
<1>3. CASE Next /\ ~OrbitLike
  <2>1. UNCHANGED <<problem, facts>>
    BY <1>3 DEF Next, Propagate, BoundChain, NextPass, Lin, AllDiff, Times, Div, Mod, AbsVal, Elem,
      SetIn, Pow, Reif, Clause, MinMax, And, Plain, Run, Branch
  <2> QED BY <2>1, <1>1
<1> QED BY <1>1, <1>2, <1>3 DEF vars

(* Every fact in the memo is true, at every moment and for every problem:  *)
(* no assignment, branch, fixpoint or earlier question of any orbit        *)
(* constraint leaves one that is wrong for a later one.                    *)
THEOREM MemoIsExact == Spec => []FactsExact
<1>1. Init => MemoInv
  BY DEF Init, MemoInv, Truthful, ClosedIn
<1>2. MemoInv /\ [Next]_vars => MemoInv'
  BY MemoIsKept
<1>3. MemoInv => FactsExact
  BY DEF MemoInv, Truthful, FactsExact
<1> QED BY <1>1, <1>2, <1>3, PTL DEF Spec

----------------------------------------------------------------------------
(* Folds and extremes of finite sets, which the propagators are built      *)
(* from.                                                                   *)

(* A finite set of integers that has a member has a least and a greatest   *)
(* one (cp_dmin and cp_dmax answer with values of the domain).             *)
LEMMA ExtremesAre ==
  ASSUME NEW S, IsFiniteSet(S), S \subseteq Int, S # {}
  PROVE  /\ Min(S) \in S /\ \A x \in S : Min(S) <= x
         /\ Max(S) \in S /\ \A x \in S : x <= Max(S)
<1> DEFINE HasMin(T) == \E x \in T : \A y \in T : x =< y
           HasMax(T) == \E x \in T : \A y \in T : x >= y
           G == {T \in SUBSET S : T # {} => HasMin(T) /\ HasMax(T)}
<1>1. {} \in G
  OBVIOUS
<1>2. ASSUME NEW T \in SUBSET S, NEW x \in S \ T, T \in G PROVE T \cup {x} \in G
  <2>1. CASE T = {}
    BY <2>1
  <2>2. CASE T # {}
    <3>1. PICK a \in T : \A y \in T : a =< y
      BY <1>2, <2>2
    <3>2. PICK b \in T : \A y \in T : b >= y
      BY <1>2, <2>2
    <3>3. HasMin(T \cup {x})
      <4>1. CASE a =< x
        BY <4>1, <3>1
      <4>2. CASE ~(a =< x)
        <5>1. \A y \in T \cup {x} : x =< y
          BY <4>2, <3>1
        <5> QED BY <5>1
      <4> QED BY <4>1, <4>2
    <3>4. HasMax(T \cup {x})
      <4>1. CASE b >= x
        BY <4>1, <3>2
      <4>2. CASE ~(b >= x)
        <5>1. \A y \in T \cup {x} : x >= y
          BY <4>2, <3>2
        <5> QED BY <5>1
      <4> QED BY <4>1, <4>2
    <3> QED BY <3>3, <3>4
  <2> QED BY <2>1, <2>2
<1>3. S \in G
  <2> HIDE DEF G
  <2> QED BY <1>1, <1>2, SetInduction
<1>4. HasMin(S) /\ HasMax(S)
  BY <1>3
<1> QED BY <1>4 DEF Min, Max

----------------------------------------------------------------------------
(* Folds over a finite set.                                                *)

(* D are positions of a sequence, or part of them.                         *)
Places(D) == IsFiniteSet(D) /\ D \subseteq Nat

(* The greatest member of a set of positions, and the set without it.      *)
LEMMA LastIs ==
  ASSUME NEW D, Places(D), NEW s \in SUBSET D
  PROVE  /\ IsFiniteSet(s) /\ Cardinality(s) \in Nat
         /\ Cardinality(s) = 0 <=> s = {}
         /\ s # {} => Max(s) \in s /\ Cardinality(s \ {Max(s)}) = Cardinality(s) - 1
<1>0. IsFiniteSet(D)
  BY DEF Places
<1>1. IsFiniteSet(s) /\ s \subseteq Int
  <2>1. s \subseteq Int
    BY DEF Places
  <2> QED BY <2>1, <1>0, FS_Subset
<1>2. s # {} => Max(s) \in s
  BY <1>1, ExtremesAre
<1>3. Cardinality(s) \in Nat /\ (Cardinality(s) = 0 <=> s = {})
  BY <1>1, FS_CardinalityType, FS_EmptySet
<1>4. s # {} => Cardinality(s \ {Max(s)}) = Cardinality(s) - 1
  BY <1>1, <1>2, FS_RemoveElement
<1> QED BY <1>1, <1>2, <1>3, <1>4

(* h is the fold of the step G from b over the subsets of D; pick[s] is    *)
(* the member of s that is taken first.                                    *)
Picks(pick, D) == \A s \in SUBSET D : s # {} => pick[s] \in s
FoldsBy(h, D, b, G, pick) ==
  \A s \in SUBSET D : h[s] = IF s = {} THEN b ELSE G[<<pick[s], h[s \ {pick[s]}]>>]

(* A fold over a finite set whose step stays in U is a function into U:    *)
(* the recursion of FoldSet has a solution.                                *)
LEMMA FoldByExists ==
  ASSUME NEW D, IsFiniteSet(D), NEW U, NEW b \in U, NEW G, G \in [D \X U -> U], NEW pick, Picks(pick, D)
  PROVE  \E h \in [SUBSET D -> U] : FoldsBy(h, D, b, G, pick)
<1> DEFINE Eq(h, s) == h[s] = IF s = {} THEN b ELSE G[<<pick[s], h[s \ {pick[s]}]>>]
           Solvable(k) == \E h \in [SUBSET D -> U] : \A s \in SUBSET D : Cardinality(s) <= k => Eq(h, s)
           B == {k \in Nat : ~Solvable(k)}
<1>0. \A s \in SUBSET D : /\ IsFiniteSet(s) /\ Cardinality(s) \in Nat
                          /\ (Cardinality(s) = 0 <=> s = {})
                          /\ s # {} => pick[s] \in s /\ Cardinality(s \ {pick[s]}) = Cardinality(s) - 1
  BY FS_Subset, FS_CardinalityType, FS_EmptySet, FS_RemoveElement DEF Picks
<1>1. ASSUME B # {} PROVE FALSE
  <2>1. PICK k \in B : \A j \in B : k <= j
    <3>1. B \subseteq Nat /\ B # {}
      BY <1>1
    <3> HIDE DEF B
    <3> QED BY <3>1, LeastNumber
  <2>0. k \in Nat
    BY <2>1
  <2>2. CASE k = 0
    <3> DEFINE h == [s \in SUBSET D |-> b]
    <3>1. ASSUME NEW s \in SUBSET D, Cardinality(s) <= 0 PROVE Eq(h, s)
      <4>1. s = {}
        <5>1. Cardinality(s) \in Nat /\ (Cardinality(s) = 0 <=> s = {})
          BY <1>0
        <5> QED BY <5>1, <3>1
      <4> QED BY <4>1
    <3> HIDE DEF h, Eq
    <3>2. h \in [SUBSET D -> U]
      BY DEF h
    <3>3. Solvable(0)
      BY <3>1, <3>2
    <3> QED BY <3>3, <2>1, <2>2
  <2>3. CASE k # 0
    <3>1. k - 1 \in Nat /\ k - 1 \notin B
      <4>1. k \in Nat
        BY <2>1
      <4>2. k - 1 \in Nat /\ ~(k <= k - 1)
        BY <4>1, <2>3
      <4> HIDE DEF B
      <4> QED BY <4>2, <2>1
    <3>2. PICK g \in [SUBSET D -> U] : \A s \in SUBSET D : Cardinality(s) <= k - 1 => Eq(g, s)
      BY <3>1
    <3> DEFINE h == [s \in SUBSET D |-> IF Cardinality(s) <= k - 1 THEN g[s]
                                        ELSE G[<<pick[s], g[s \ {pick[s]}]>>]]
    <3>3. h \in [SUBSET D -> U]
      <4>1. ASSUME NEW s \in SUBSET D, ~(Cardinality(s) <= k - 1) PROVE h[s] \in U
        <5>0. Cardinality(s) \in Nat /\ (Cardinality(s) = 0 <=> s = {}) /\ (s # {} => pick[s] \in s)
          BY <1>0
        <5>1. s # {} /\ pick[s] \in D
          BY <5>0, <4>1, <3>1
        <5>2. g[s \ {pick[s]}] \in U
          BY <3>2
        <5> QED BY <5>1, <5>2, <4>1
      <4> QED BY <4>1
    <3>4. ASSUME NEW s \in SUBSET D, Cardinality(s) <= k PROVE Eq(h, s)
      <4>1. CASE s = {}
        <5>0. Cardinality(s) = 0
          BY <4>1, <1>0
        <5>1. Cardinality(s) <= k - 1
          <6>1. k - 1 \in Nat
            BY <3>1
          <6> HIDE DEF B
          <6> QED BY <5>0, <6>1
        <5> QED BY <5>1, <3>2, <4>1
      <4>2. CASE s # {}
        <5> DEFINE t == s \ {pick[s]}
        <5>0. Cardinality(s) \in Nat /\ Cardinality(t) = Cardinality(s) - 1
          BY <1>0, <4>2
        <5>1. t \in SUBSET D /\ Cardinality(t) <= k - 1 /\ Cardinality(s) \in Nat
          BY <5>0, <3>4, <2>0, <4>2
        <5>2. h[t] = g[t]
          BY <5>1
        <5>3. CASE Cardinality(s) <= k - 1
          BY <5>3, <5>2, <3>2, <4>2
        <5>4. CASE ~(Cardinality(s) <= k - 1)
          BY <5>4, <5>2, <4>2
        <5> QED BY <5>3, <5>4
      <4> QED BY <4>1, <4>2
    <3> HIDE DEF h, Eq
    <3>5. Solvable(k)
      BY <3>3, <3>4
    <3> QED BY <3>5, <2>1
  <2> QED BY <2>2, <2>3
<1>2. Cardinality(D) \in Nat /\ \A s \in SUBSET D : Cardinality(s) <= Cardinality(D)
  BY FS_CardinalityType, FS_Subset
<1>3. Solvable(Cardinality(D))
  BY <1>1, <1>2
<1> HIDE DEF Eq
<1>4. PICK h \in [SUBSET D -> U] : \A s \in SUBSET D : Eq(h, s)
  BY <1>2, <1>3
<1> QED BY <1>4 DEF Eq, FoldsBy

(* A fold over a finite set of naturals, greatest element first: FoldLeft  *)
(* over the positions of a sequence.                                       *)
FoldsLast(h, D, b, G) ==
  \A s \in SUBSET D : h[s] = IF s = {} THEN b ELSE G[<<Max(s), h[s \ {Max(s)}]>>]

(* The same for the fold over positions.                                   *)
LEMMA FoldExists ==
  ASSUME NEW D, Places(D), NEW U, NEW b \in U, NEW G, G \in [D \X U -> U]
  PROVE  \E h \in [SUBSET D -> U] : FoldsLast(h, D, b, G)
<1> DEFINE pick == [s \in SUBSET D |-> Max(s)]
<1>1. \A s \in SUBSET D : pick[s] = Max(s)
  OBVIOUS
<1>2. Picks(pick, D) /\ IsFiniteSet(D)
  BY LastIs DEF Picks, Places
<1> HIDE DEF pick
<1>3. PICK h \in [SUBSET D -> U] : FoldsBy(h, D, b, G, pick)
  BY <1>2, FoldByExists
<1>4. FoldsLast(h, D, b, G)
  BY <1>1, <1>3 DEF FoldsLast, FoldsBy
<1> QED BY <1>4

(* Each step of the fold h stays in U.                                     *)
StaysIn(h, D, U) == \A s \in SUBSET D : s # {} /\ h[s \ {Max(s)}] \in U => h[s] \in U

(* What the base has and each step keeps, the fold has.                    *)
LEMMA FoldIn ==
  ASSUME NEW D, Places(D), NEW U, NEW h, h[{}] \in U, StaysIn(h, D, U)
  PROVE  h[D] \in U
<1> DEFINE B == {T \in SUBSET D : h[T] \notin U}
<1>1. ASSUME B # {} PROVE FALSE
  <2>1. PICK s \in B : \A R \in B : ~(R \subseteq s /\ R # s)
    <3>1. B \subseteq SUBSET D /\ B # {}
      BY <1>1
    <3> HIDE DEF B
    <3>2. IsFiniteSet(D)
      BY DEF Places
    <3> QED BY <3>1, <3>2, SmallestBad
  <2>2. s # {}
    BY <2>1
  <2>3. Max(s) \in s
    BY <2>1, <2>2, LastIs
  <2>4. s \ {Max(s)} \notin B /\ s \ {Max(s)} \in SUBSET D
    BY <2>1, <2>3
  <2> QED BY <2>1, <2>2, <2>4 DEF StaysIn
<1> QED BY <1>1

----------------------------------------------------------------------------
(* Domains that keep points.  R bounds the values of each variable, the 0  *)
(* and 1 that cp_assign may write included; Good(R, P) are the domains     *)
(* within R that still hold every point of P.  The contract of a           *)
(* propagator is that it maps Good(R, P) into itself when P satisfies its  *)
(* constraint.                                                             *)

(* The value of the point p at a term.                                     *)
Val(p, t) == IF isc(t) THEN t ELSE p[t]
Terms == Vars \cup Int
Ranges == {R \in [Vars -> SUBSET (MinWord .. MaxWord)] : \A v \in Vars : {0, 1} \subseteq R[v]}
Boxes(R) == {d \in [Vars -> [listed : BOOLEAN, vals : SUBSET Int]] : \A v \in Vars : d[v].vals \subseteq R[v]}
Fits(p, d) == \A v \in Vars : p[v] \in d[v].vals
Good(R, P) == {d \in Boxes(R) : \A p \in P : Fits(p, d)}

(* Each domain of a box is a record of Domain over finitely many integers. *)
LEMMA BoxVals ==
  ASSUME NEW R \in Ranges, NEW d \in Boxes(R), NEW v \in Vars
  PROVE  /\ d[v].listed \in BOOLEAN /\ d[v].vals \subseteq R[v]
         /\ d[v] = Domain(d[v].listed, d[v].vals)
         /\ IsFiniteSet(d[v].vals) /\ d[v].vals \subseteq Int
<1>1. d[v] \in [listed : BOOLEAN, vals : SUBSET Int] /\ d[v].vals \subseteq R[v]
  BY DEF Boxes
<1>2. d[v].listed \in BOOLEAN /\ d[v].vals \subseteq R[v] /\ d[v] = Domain(d[v].listed, d[v].vals)
  BY <1>1 DEF Domain
<1>3. MinWord \in Int /\ MaxWord \in Int /\ R[v] \subseteq MinWord .. MaxWord
  BY LimitsAssumption DEF MinWord, Ranges
<1>4. IsFiniteSet(R[v]) /\ R[v] \subseteq Int
  <2>1. IsFiniteSet(MinWord .. MaxWord)
    BY <1>3, FS_Interval
  <2>2. IsFiniteSet(R[v])
    BY <2>1, <1>3, FS_Subset
  <2> QED BY <2>2, <1>3
<1> QED BY <1>2, <1>4, FS_Subset

(* The value of a point at a term, variable or constant, is one of the     *)
(* term's values and lies between its least and its greatest; a fixed term *)
(* has no other value.                                                     *)
LEMMA TermFacts ==
  ASSUME NEW R \in Ranges, NEW d \in Boxes(R), NEW p, Fits(p, d), NEW t \in Terms
  PROVE  /\ IsFiniteSet(Values(d, t)) /\ Values(d, t) \subseteq Int
         /\ Val(p, t) \in Values(d, t) /\ Val(p, t) \in Int
         /\ cp_dmin(d, t) \in Values(d, t) /\ cp_dmax(d, t) \in Values(d, t)
         /\ cp_dmin(d, t) \in Int /\ cp_dmax(d, t) \in Int
         /\ cp_dmin(d, t) <= Val(p, t) /\ Val(p, t) <= cp_dmax(d, t)
         /\ cp_fixed(d, t) => /\ Values(d, t) = {Val(p, t)}
                              /\ cp_dmin(d, t) = Val(p, t) /\ cp_dmax(d, t) = Val(p, t)
         /\ isc(t) => cp_fixed(d, t)
<1>1. IsFiniteSet(Values(d, t)) /\ Values(d, t) \subseteq Int
  <2>1. CASE isc(t)
    BY <2>1, FS_Singleton DEF Values, isc, Terms
  <2>2. CASE ~isc(t)
    BY <2>2, BoxVals DEF Values, isc
  <2> QED BY <2>1, <2>2
<1>2. Val(p, t) \in Values(d, t)
  BY DEF Val, Values, isc, Fits
<1>3. /\ cp_dmin(d, t) \in Values(d, t) /\ cp_dmax(d, t) \in Values(d, t)
      /\ \A x \in Values(d, t) : cp_dmin(d, t) <= x /\ x <= cp_dmax(d, t)
  <2>1. Values(d, t) # {}
    BY <1>2
  <2> QED BY <1>1, <2>1, ExtremesAre DEF cp_dmin, cp_dmax
<1>4. cp_fixed(d, t) => Values(d, t) = {Val(p, t)}
  <2>1. cp_fixed(d, t) => \E x : Values(d, t) = {x}
    BY <1>1, FS_Singleton DEF cp_fixed
  <2> QED BY <2>1, <1>2
<1>5. isc(t) => cp_fixed(d, t)
  BY FS_Singleton DEF cp_fixed, Values
<1> QED BY <1>1, <1>2, <1>3, <1>4, <1>5

(* Domains that hold a point are not failed.                               *)
LEMMA FitsLives ==
  ASSUME NEW p, NEW d, Fits(p, d)
  PROVE  ~Failed(d)
BY DEF Fits, Failed

(* The failed domains are a box.                                           *)
LEMMA DeadIsBox == \A R \in Ranges : Dead \in Boxes(R)
BY DEF Dead, Boxes, Domain

(* So are the domains of a crash.                                          *)
LEMMA CrashedIsBox == \A R \in Ranges : Crashed \in Boxes(R)
BY DEF Crashed, Boxes, Domain

(* Writing one domain keeps the points whose value there is in the new     *)
(* set.                                                                    *)
LEMMA WriteKeeps ==
  ASSUME NEW R \in Ranges, NEW P, NEW d \in Good(R, P), NEW v \in Vars,
         NEW l \in BOOLEAN, NEW S \in SUBSET R[v], \A p \in P : p[v] \in S
  PROVE  [d EXCEPT ![v] = Domain(l, S)] \in Good(R, P)
<1> DEFINE e == [d EXCEPT ![v] = Domain(l, S)]
<1>1. d \in Boxes(R) /\ \A p \in P : Fits(p, d)
  BY DEF Good
<1>3. \A u \in Vars : e[u].vals = IF u = v THEN S ELSE d[u].vals
  BY <1>1 DEF Boxes, Domain
<1>2. e \in Boxes(R)
  <2>1. S \in SUBSET Int
    BY LimitsAssumption DEF Ranges, MinWord
  <2>2. e \in [Vars -> [listed : BOOLEAN, vals : SUBSET Int]]
    BY <1>1, <2>1 DEF Boxes, Domain
  <2>3. \A u \in Vars : e[u].vals \subseteq R[u]
    BY <1>1, <1>3 DEF Boxes
  <2> QED BY <2>2, <2>3 DEF Boxes
<1>4. \A p \in P : Fits(p, e)
  BY <1>1, <1>3 DEF Fits
<1> QED BY <1>2, <1>4 DEF Good

(* cp_intersect keeps the points whose value lies between the bounds.      *)
LEMMA IntersectKeeps ==
  ASSUME NEW R \in Ranges, NEW P, NEW d \in Good(R, P), NEW t \in Terms, NEW lo, NEW hi,
         \A p \in P : lo <= Val(p, t) /\ Val(p, t) <= hi
  PROVE  cp_intersect(d, t, lo, hi) \in Good(R, P)
<1> DEFINE keep == {x \in Values(d, t) : lo <= x /\ x <= hi}
<1>1. d \in Boxes(R) /\ \A p \in P : Fits(p, d)
  BY DEF Good
<1>2. ASSUME NEW p \in P PROVE Val(p, t) \in keep /\ ~Failed(d)
  BY <1>1, TermFacts, FitsLives
<1>3. CASE keep = {} \/ Failed(d)
  <2>1. P = {}
    BY <1>2, <1>3
  <2> QED BY <2>1, <1>3, DeadIsBox DEF cp_intersect, Good
<1>4. CASE ~(keep = {} \/ Failed(d)) /\ isc(t)
  BY <1>4 DEF cp_intersect
<1>5. CASE ~(keep = {} \/ Failed(d)) /\ ~isc(t)
  <2> DEFINE l == d[t].listed \/ Cardinality(keep) <= CP_MAXVALS
  <2>1. t \in Vars /\ keep \in SUBSET R[t] /\ l \in BOOLEAN
    BY <1>5, <1>1, BoxVals DEF isc, Values
  <2>2. cp_intersect(d, t, lo, hi) = [d EXCEPT ![t] = Domain(l, keep)]
    <3>1. DOMAIN d = Vars
      BY <1>1 DEF Boxes
    <3> QED BY <1>5, <2>1, <3>1 DEF cp_intersect
  <2>3. \A p \in P : p[t] \in keep
    BY <1>2, <1>5 DEF Val
  <2> HIDE DEF keep, l
  <2>4. [d EXCEPT ![t] = Domain(l, keep)] \in Good(R, P)
    BY <2>1, <2>3, WriteKeeps
  <2> QED BY <2>2, <2>4
<1> QED BY <1>3, <1>4, <1>5

(* cp_set_vals keeps the points whose value is in the set.                 *)
LEMMA SetKeeps ==
  ASSUME NEW R \in Ranges, NEW P, NEW d \in Good(R, P), NEW v \in Vars, NEW S,
         \A p \in P : p[v] \in S
  PROVE  cp_set_vals(d, v, S) \in Good(R, P)
<1>1. d \in Boxes(R) /\ \A p \in P : Fits(p, d)
  BY DEF Good
<1>2. ASSUME NEW p \in P PROVE p[v] \in S \cap d[v].vals /\ ~Failed(d)
  BY <1>1, FitsLives DEF Fits
<1>3. CASE Failed(d) \/ S \cap d[v].vals = {}
  <2>1. P = {}
    BY <1>2, <1>3
  <2> QED BY <2>1, <1>3, DeadIsBox DEF cp_set_vals, Good
<1>4. CASE ~(Failed(d) \/ S \cap d[v].vals = {})
  <2>1. S \cap d[v].vals \in SUBSET R[v] /\ \A p \in P : p[v] \in S \cap d[v].vals
    BY <1>1, <1>2, BoxVals
  <2>2. [d EXCEPT ![v] = Domain(TRUE, S \cap d[v].vals)] \in Good(R, P)
    BY <2>1, WriteKeeps
  <2>3. DOMAIN d = Vars
    BY <1>1 DEF Boxes
  <2> QED BY <1>4, <2>2, <2>3 DEF cp_set_vals
<1> QED BY <1>3, <1>4

(* cp_remove_val keeps the points that do not have the value.              *)
LEMMA RemoveKeeps ==
  ASSUME NEW R \in Ranges, NEW P, NEW d \in Good(R, P), NEW v \in Vars, NEW x,
         \A p \in P : p[v] # x
  PROVE  cp_remove_val(d, v, x) \in Good(R, P)
<1>1. d \in Boxes(R) /\ \A p \in P : Fits(p, d)
  BY DEF Good
<1>2. ASSUME NEW p \in P PROVE p[v] \in d[v].vals \ {x}
  BY <1>1 DEF Fits
<1>3. CASE ~d[v].listed /\ x \notin {cp_dmin(d, v), cp_dmax(d, v)}
  BY <1>3 DEF cp_remove_val
<1>4. CASE ~(~d[v].listed /\ x \notin {cp_dmin(d, v), cp_dmax(d, v)}) /\ d[v].vals = {x}
  <2>1. P = {}
    BY <1>2, <1>4
  <2> QED BY <2>1, <1>4, DeadIsBox DEF cp_remove_val, Good
<1>5. CASE ~(~d[v].listed /\ x \notin {cp_dmin(d, v), cp_dmax(d, v)}) /\ d[v].vals # {x}
  <2>1. d[v].vals \ {x} \in SUBSET R[v] /\ d[v].listed \in BOOLEAN
    BY <1>1, BoxVals
  <2>2. [d EXCEPT ![v] = Domain(d[v].listed, d[v].vals \ {x})] \in Good(R, P)
    BY <2>1, <1>2, WriteKeeps
  <2>3. [d EXCEPT ![v].vals = @ \ {x}] = [d EXCEPT ![v] = Domain(d[v].listed, d[v].vals \ {x})]
    <3>1. DOMAIN d = Vars /\ d[v] = [listed |-> d[v].listed, vals |-> d[v].vals]
      BY <1>1, BoxVals DEF Boxes, Domain
    <3>2. [d[v] EXCEPT !.vals = d[v].vals \ {x}] = Domain(d[v].listed, d[v].vals \ {x})
      BY <3>1 DEF Domain
    <3> QED BY <3>1, <3>2
  <2> QED BY <1>5, <2>2, <2>3 DEF cp_remove_val
<1> QED BY <1>3, <1>4, <1>5

(* cp_assign keeps the points that have the value.                         *)
LEMMA AssignKeeps ==
  ASSUME NEW R \in Ranges, NEW P, NEW d \in Good(R, P), NEW v \in Vars, NEW x \in R[v],
         \A p \in P : p[v] = x
  PROVE  cp_assign(d, v, x) \in Good(R, P)
<1>1. {x} \in SUBSET R[v] /\ \A p \in P : p[v] \in {x}
  OBVIOUS
<1> QED BY <1>1, WriteKeeps DEF cp_assign

(* cp_equate keeps the points that have the value.                         *)
LEMMA EquateKeeps ==
  ASSUME NEW R \in Ranges, NEW P, NEW d \in Good(R, P), NEW t \in Terms, NEW x,
         \A p \in P : Val(p, t) = x
  PROVE  cp_equate(d, t, x) \in Good(R, P)
<1>1. \A p \in P : x <= Val(p, t) /\ Val(p, t) <= x
  BY TermFacts DEF Good
<1> QED BY <1>1, IntersectKeeps DEF cp_equate

(* A failure is right when no point satisfies the constraint.              *)
LEMMA DeadKeeps ==
  ASSUME NEW R \in Ranges, NEW P, P = {}
  PROVE  Dead \in Good(R, P)
BY DeadIsBox DEF Good

----------------------------------------------------------------------------
(* The propagators of the kinds without sums: each keeps the points of its *)
(* constraint.                                                             *)

(* cp_prop_divmod keeps the points whose quotient or remainder by k is     *)
(* right.                                                                  *)
LEMMA DivModKeeps ==
  ASSUME NEW R \in Ranges, NEW P, NEW d \in Good(R, P), NEW r, r.a \in Terms, r.c \in Terms, r.k # 0,
         \A p \in P : Val(p, r.c) = IF r.kind = "div" THEN Quotient(Val(p, r.a), r.k)
                                    ELSE Remainder(Val(p, r.a), r.k)
  PROVE  cp_prop_divmod(d, r) \in Good(R, P)
<1> DEFINE Op(a) == IF r.kind = "div" THEN Quotient(a, r.k) ELSE Remainder(a, r.k)
           S == {x \in d[r.a].vals : Op(x) \in d[r.c].vals}
           e == cp_set_vals(d, r.a, S)
           T == {Op(x) : x \in e[r.a].vals}
<1>0. d \in Boxes(R) /\ \A p \in P : Fits(p, d)
  BY DEF Good
<1>1. \A p \in P : Val(p, r.c) = Op(Val(p, r.a))
  OBVIOUS
<1>2. cp_prop_divmod(d, r) = IF cp_fixed(d, r.a) THEN cp_equate(d, r.c, Op(cp_dmin(d, r.a)))
                             ELSE IF Listed(d, r.a) /\ Listed(d, r.c) THEN cp_set_vals(e, r.c, T) ELSE d
  BY DEF cp_prop_divmod
<1> HIDE DEF Op
<1>3. CASE cp_fixed(d, r.a)
  <2>1. \A p \in P : Val(p, r.c) = Op(cp_dmin(d, r.a))
    BY <1>0, <1>1, <1>3, TermFacts
  <2> QED BY <1>2, <1>3, <2>1, EquateKeeps
<1>4. CASE ~cp_fixed(d, r.a) /\ Listed(d, r.a) /\ Listed(d, r.c)
  <2>1. r.a \in Vars /\ r.c \in Vars
    BY <1>4 DEF Listed, isc
  <2>2. \A p \in P : p[r.a] \in S
    BY <1>0, <1>1, <2>1 DEF Fits, Val, isc
  <2> HIDE DEF S
  <2>3. e \in Good(R, P)
    BY <2>1, <2>2, SetKeeps
  <2> HIDE DEF e
  <2>4. \A p \in P : p[r.c] \in T
    BY <2>3, <1>1, <2>1 DEF Good, Fits, Val, isc
  <2> HIDE DEF T
  <2>5. cp_set_vals(e, r.c, T) \in Good(R, P)
    BY <2>1, <2>3, <2>4, SetKeeps
  <2> QED BY <1>2, <1>4, <2>5
<1>5. CASE ~cp_fixed(d, r.a) /\ ~(Listed(d, r.a) /\ Listed(d, r.c))
  BY <1>2, <1>5
<1> QED BY <1>3, <1>4, <1>5

(* The word arithmetic of the propagators is exact on words.               *)
LEMMA WrapIs ==
  ASSUME NEW x \in MinWord .. MaxWord
  PROVE  Wrap(x) = x
<1> DEFINE u == x - MinWord   m == MaxWord - MinWord + 1
<1>1. MaxWord \in Nat
  BY LimitsAssumption
<1>2. u \in Int /\ m \in Int /\ 0 <= u /\ u < m
  BY <1>1 DEF MinWord
<1>3. u % m = u
  <2> HIDE DEF u, m
  <2> QED BY <1>2
<1> QED BY <1>1, <1>3 DEF Wrap, MinWord

(* So is the conversion from the larger to the smaller word.               *)
LEMMA WordsAre ==
  ASSUME NEW x \in Int, -MaxWord <= x, x <= MaxWord
  PROVE  Wrap(x) = x /\ ToWord(x) = x
<1>1. x \in MinWord .. MaxWord
  BY LimitsAssumption DEF MinWord
<1> QED BY <1>1, WrapIs DEF ToWord

(* cp_prop_abs keeps the points of |a| = c, if a is never the least word,  *)
(* whose negation overflows.                                               *)
LEMMA AbsKeeps ==
  ASSUME NEW R \in Ranges, NEW P, NEW d \in Good(R, P), NEW r, r.a \in Terms, r.c \in Terms,
         r.a \in Vars => R[r.a] \subseteq -MaxWord .. MaxWord,
         \A p \in P : Val(p, r.c) = Abs(Val(p, r.a))
  PROVE  cp_prop_abs(d, r) \in Good(R, P)
<1> DEFINE c == cp_dmin(d, r.c)
           g == Larger(Abs(cp_dmin(d, r.a)), Abs(cp_dmax(d, r.a)))
           m == ToWord(g)
<1>0. d \in Boxes(R) /\ \A p \in P : Fits(p, d)
  BY DEF Good
<1>1. CASE cp_fixed(d, r.a)
  <2>1. \A p \in P : Val(p, r.c) = Abs(cp_dmin(d, r.a))
    BY <1>0, <1>1, TermFacts
  <2>2. cp_equate(d, r.c, Abs(cp_dmin(d, r.a))) \in Good(R, P)
    BY <2>1, EquateKeeps
  <2> QED BY <1>1, <2>2 DEF cp_prop_abs
<1>2. CASE ~cp_fixed(d, r.a) /\ cp_fixed(d, r.c)
  <2>1. ASSUME NEW p \in P PROVE c = Abs(Val(p, r.a)) /\ Val(p, r.a) \in Int
    BY <1>0, <1>2, TermFacts
  <2>2. CASE c < 0
    <3>1. P = {}
      BY <2>1, <2>2 DEF Abs
    <3> QED BY <3>1, <1>2, <2>2, DeadKeeps DEF cp_prop_abs
  <2>3. CASE ~(c < 0)
    <3>1. CASE r.a \in Vars
      <4>1. \A p \in P : p[r.a] \in {c, -c}
        BY <2>1, <3>1 DEF Abs, Val, isc
      <4>2. cp_set_vals(d, r.a, {c, -c}) \in Good(R, P)
        BY <3>1, <4>1, SetKeeps
      <4> QED BY <1>2, <2>3, <4>2 DEF cp_prop_abs
    <3>2. CASE r.a \notin Vars
      BY <3>2, <1>2, FS_Singleton DEF cp_fixed, Values, isc
    <3> QED BY <3>1, <3>2
  <2> QED BY <2>2, <2>3
<1>3. CASE ~cp_fixed(d, r.a) /\ ~cp_fixed(d, r.c)
  <2>0. r.a \in Vars
    BY <1>3, FS_Singleton DEF cp_fixed, Values, isc
  <2>1. ASSUME NEW p \in P
        PROVE  0 <= Val(p, r.c) /\ Val(p, r.c) <= m /\ Wrap(-m) <= Val(p, r.a) /\ Val(p, r.a) <= m
    <3>1. /\ cp_dmin(d, r.a) \in -MaxWord .. MaxWord /\ cp_dmax(d, r.a) \in -MaxWord .. MaxWord
          /\ cp_dmin(d, r.a) <= Val(p, r.a) /\ Val(p, r.a) <= cp_dmax(d, r.a) /\ Val(p, r.a) \in Int
      BY <1>0, <2>0, TermFacts, BoxVals DEF Values, isc
    <3>2. MaxWord \in Nat
      BY LimitsAssumption
    <3>3. g \in Int /\ -MaxWord <= g /\ g <= MaxWord /\ Abs(Val(p, r.a)) <= g /\ -g <= Val(p, r.a) /\ Val(p, r.a) <= g
          /\ -MaxWord <= -g /\ -g <= MaxWord
      BY <3>1, <3>2 DEF Larger, Abs
    <3> HIDE DEF g
    <3>4. m = g /\ Wrap(-m) = -g
      BY <3>3, WordsAre
    <3>5. 0 <= Abs(Val(p, r.a))
      BY <3>1 DEF Abs
    <3> QED BY <3>3, <3>4, <3>5
  <2> DEFINE e == cp_intersect(d, r.c, 0, m)
  <2> HIDE DEF m
  <2>2. e \in Good(R, P)
    BY <2>1, IntersectKeeps
  <2> HIDE DEF e
  <2>3. cp_intersect(e, r.a, Wrap(-m), m) \in Good(R, P)
    BY <2>1, <2>2, IntersectKeeps
  <2> QED BY <1>3, <2>3 DEF cp_prop_abs, m, e
<1> QED BY <1>1, <1>2, <1>3

(* cp_prop_setin keeps the points whose value is a member.                 *)
LEMMA SetInKeeps ==
  ASSUME NEW R \in Ranges, NEW P, NEW d \in Good(R, P), NEW r, r.x \in Terms,
         IsFiniteSet(r.set), r.set \subseteq Int,
         \A p \in P : Val(p, r.x) \in r.set
  PROVE  cp_prop_setin(d, r) \in Good(R, P)
<1>1. CASE isc(r.x)
  <2>1. r.x \notin r.set => P = {}
    BY <1>1 DEF Val
  <2> QED BY <1>1, <2>1, DeadKeeps DEF cp_prop_setin
<1>2. CASE ~isc(r.x) /\ Listed(d, r.x)
  <2>1. r.x \in Vars /\ \A p \in P : p[r.x] \in r.set
    BY <1>2 DEF Val, isc
  <2>2. cp_set_vals(d, r.x, r.set) \in Good(R, P)
    BY <2>1, SetKeeps
  <2> QED BY <1>2, <2>2 DEF cp_prop_setin
<1>3. CASE ~isc(r.x) /\ ~Listed(d, r.x)
  <2>1. \A p \in P : Min(r.set) <= Val(p, r.x) /\ Val(p, r.x) <= Max(r.set)
    BY ExtremesAre
  <2>2. cp_intersect(d, r.x, Min(r.set), Max(r.set)) \in Good(R, P)
    BY <2>1, IntersectKeeps
  <2> QED BY <1>3, <2>2 DEF cp_prop_setin
<1> QED BY <1>1, <1>2, <1>3

(* Raising the lower or lowering the upper bound keeps the points within   *)
(* both.                                                                   *)
LEMMA WithinKeeps ==
  ASSUME NEW R \in Ranges, NEW P, NEW d \in Good(R, P), NEW t \in Terms, NEW lo, NEW hi,
         \A p \in P : lo <= Val(p, t) /\ Val(p, t) <= hi
  PROVE  Within(d, t, lo, hi) \in Good(R, P)
BY IntersectKeeps DEF Within

(* The upper bound of a maximum bounds both operands, and an operand that  *)
(* can no longer reach it leaves the other one equal to it.                *)
LEMMA MaxKeeps ==
  ASSUME NEW R \in Ranges, NEW P, NEW d \in Good(R, P), NEW a \in Terms, NEW b \in Terms, NEW m,
         \A p \in P : m = Larger(Val(p, a), Val(p, b))
  PROVE  MaxBoundedBy(d, a, b, m) \in Good(R, P)
<1> DEFINE CanReach(t) == cp_dmax(d, t) >= m
           one == Within(d, a, cp_dmin(d, a), m)
           capped == Within(one, b, cp_dmin(d, b), m)
<1>0. d \in Boxes(R) /\ \A p \in P : Fits(p, d)
  BY DEF Good
<1>1. ASSUME NEW p \in P
      PROVE  /\ cp_dmin(d, a) <= Val(p, a) /\ Val(p, a) <= m
             /\ cp_dmin(d, b) <= Val(p, b) /\ Val(p, b) <= m
             /\ Val(p, a) = m \/ Val(p, b) = m
             /\ ~CanReach(a) => Val(p, a) # m
             /\ ~CanReach(b) => Val(p, b) # m
  <2>1. /\ Val(p, a) \in Int /\ cp_dmin(d, a) <= Val(p, a) /\ Val(p, a) <= cp_dmax(d, a)
        /\ Val(p, b) \in Int /\ cp_dmin(d, b) <= Val(p, b) /\ Val(p, b) <= cp_dmax(d, b)
        /\ cp_dmax(d, a) \in Int /\ cp_dmax(d, b) \in Int
    BY <1>0, TermFacts
  <2>2. m = IF Val(p, a) < Val(p, b) THEN Val(p, b) ELSE Val(p, a)
    BY DEF Larger
  <2> QED BY <2>1, <2>2
<1> HIDE DEF CanReach
<1>2. one \in Good(R, P)
  BY <1>1, WithinKeeps
<1> HIDE DEF one
<1>3. capped \in Good(R, P)
  BY <1>1, <1>2, WithinKeeps
<1> HIDE DEF capped
<1>4. ~CanReach(a) /\ ~CanReach(b) => Dead \in Good(R, P)
  BY <1>1, DeadKeeps
<1>5. ~CanReach(a) => cp_equate(capped, b, m) \in Good(R, P)
  BY <1>1, <1>3, EquateKeeps
<1>6. ~CanReach(b) => cp_equate(capped, a, m) \in Good(R, P)
  BY <1>1, <1>3, EquateKeeps
<1> QED BY <1>3, <1>4, <1>5, <1>6 DEF MaxBoundedBy, CanReach, capped, one

(* The same for a minimum.                                                 *)
LEMMA MinKeeps ==
  ASSUME NEW R \in Ranges, NEW P, NEW d \in Good(R, P), NEW a \in Terms, NEW b \in Terms, NEW m,
         \A p \in P : m = Smaller(Val(p, a), Val(p, b))
  PROVE  MinBoundedBy(d, a, b, m) \in Good(R, P)
<1> DEFINE CanReach(t) == cp_dmin(d, t) <= m
           one == Within(d, a, m, cp_dmax(d, a))
           capped == Within(one, b, m, cp_dmax(d, b))
<1>0. d \in Boxes(R) /\ \A p \in P : Fits(p, d)
  BY DEF Good
<1>1. ASSUME NEW p \in P
      PROVE  /\ m <= Val(p, a) /\ Val(p, a) <= cp_dmax(d, a)
             /\ m <= Val(p, b) /\ Val(p, b) <= cp_dmax(d, b)
             /\ Val(p, a) = m \/ Val(p, b) = m
             /\ ~CanReach(a) => Val(p, a) # m
             /\ ~CanReach(b) => Val(p, b) # m
  <2>1. /\ Val(p, a) \in Int /\ cp_dmin(d, a) <= Val(p, a) /\ Val(p, a) <= cp_dmax(d, a)
        /\ Val(p, b) \in Int /\ cp_dmin(d, b) <= Val(p, b) /\ Val(p, b) <= cp_dmax(d, b)
        /\ cp_dmin(d, a) \in Int /\ cp_dmin(d, b) \in Int
    BY <1>0, TermFacts
  <2>2. m = IF Val(p, a) < Val(p, b) THEN Val(p, a) ELSE Val(p, b)
    BY DEF Smaller
  <2> QED BY <2>1, <2>2
<1> HIDE DEF CanReach
<1>2. one \in Good(R, P)
  BY <1>1, WithinKeeps
<1> HIDE DEF one
<1>3. capped \in Good(R, P)
  BY <1>1, <1>2, WithinKeeps
<1> HIDE DEF capped
<1>4. ~CanReach(a) /\ ~CanReach(b) => Dead \in Good(R, P)
  BY <1>1, DeadKeeps
<1>5. ~CanReach(a) => cp_equate(capped, b, m) \in Good(R, P)
  BY <1>1, <1>3, EquateKeeps
<1>6. ~CanReach(b) => cp_equate(capped, a, m) \in Good(R, P)
  BY <1>1, <1>3, EquateKeeps
<1> QED BY <1>3, <1>4, <1>5, <1>6 DEF MinBoundedBy, CanReach, capped, one

(* cp_prop_minmax keeps the points whose larger or smaller operand is m.   *)
LEMMA MinMaxKeeps ==
  ASSUME NEW R \in Ranges, NEW P, NEW d \in Good(R, P), NEW r, r.a \in Terms, r.b \in Terms, r.m \in Terms,
         \A p \in P : Val(p, r.m) = IF r.ismax THEN Larger(Val(p, r.a), Val(p, r.b))
                                    ELSE Smaller(Val(p, r.a), Val(p, r.b))
  PROVE  cp_prop_minmax(d, r) \in Good(R, P)
<1> DEFINE Best(x, y) == IF r.ismax THEN Larger(x, y) ELSE Smaller(x, y)
           lo == Best(cp_dmin(d, r.a), cp_dmin(d, r.b))
           hi == Best(cp_dmax(d, r.a), cp_dmax(d, r.b))
<1>0. d \in Boxes(R) /\ \A p \in P : Fits(p, d)
  BY DEF Good
<1>1. ASSUME NEW p \in P PROVE lo <= Val(p, r.m) /\ Val(p, r.m) <= hi
  <2>1. /\ Val(p, r.a) \in Int /\ cp_dmin(d, r.a) <= Val(p, r.a) /\ Val(p, r.a) <= cp_dmax(d, r.a)
        /\ Val(p, r.b) \in Int /\ cp_dmin(d, r.b) <= Val(p, r.b) /\ Val(p, r.b) <= cp_dmax(d, r.b)
        /\ cp_dmin(d, r.a) \in Int /\ cp_dmin(d, r.b) \in Int
        /\ cp_dmax(d, r.a) \in Int /\ cp_dmax(d, r.b) \in Int
    BY <1>0, TermFacts
  <2>2. Val(p, r.m) = Best(Val(p, r.a), Val(p, r.b))
    OBVIOUS
  <2>3. CASE r.ismax
    BY <2>1, <2>2, <2>3 DEF Larger
  <2>4. CASE ~r.ismax
    BY <2>1, <2>2, <2>4 DEF Smaller
  <2> QED BY <2>3, <2>4
<1>2. cp_intersect(d, r.m, lo, hi) \in Good(R, P)
  <2> HIDE DEF lo, hi
  <2> QED BY <1>1, IntersectKeeps
<1>3. ASSUME cp_fixed(d, r.m) PROVE \A p \in P : cp_dmin(d, r.m) = Val(p, r.m)
  BY <1>0, <1>3, TermFacts
<1>4. CASE r.ismax /\ cp_fixed(d, r.m)
  <2>1. MaxBoundedBy(d, r.a, r.b, cp_dmin(d, r.m)) \in Good(R, P)
    BY <1>3, <1>4, MaxKeeps
  <2> QED BY <1>2, <1>4, <2>1 DEF cp_prop_minmax
<1>5. CASE ~r.ismax /\ cp_fixed(d, r.m)
  <2>1. MinBoundedBy(d, r.a, r.b, cp_dmin(d, r.m)) \in Good(R, P)
    BY <1>3, <1>5, MinKeeps
  <2> QED BY <1>2, <1>5, <2>1 DEF cp_prop_minmax
<1>6. CASE ~cp_fixed(d, r.m)
  BY <1>2, <1>6 DEF cp_prop_minmax
<1> QED BY <1>4, <1>5, <1>6

(* cp_prop_clause keeps the points with a true literal: it fails when all  *)
(* literals are false and sets one only when it is the last that is left.  *)
LEMMA ClauseKeeps ==
  ASSUME NEW R \in Ranges, NEW P, NEW d \in Good(R, P), NEW c,
         c.pos \in Seq(Terms), c.neg \in Seq(Terms),
         \A p \in P : \/ \E i \in DOMAIN c.pos : Val(p, c.pos[i]) = 1
                      \/ \E i \in DOMAIN c.neg : Val(p, c.neg[i]) = 0
  PROVE  cp_prop_clause(d, c) \in Good(R, P)
<1> DEFINE satisfied == \/ \E i \in DOMAIN c.pos : Values(d, c.pos[i]) = {1}
                        \/ \E i \in DOMAIN c.neg : Values(d, c.neg[i]) = {0}
           Open(lits) == {i \in DOMAIN lits : ~cp_fixed(d, lits[i])}
           open == Cardinality(Open(c.pos)) + Cardinality(Open(c.neg))
           k == CHOOSE i \in Open(c.pos) : TRUE
           l == CHOOSE i \in Open(c.neg) : TRUE
<1>0. d \in Boxes(R) /\ \A p \in P : Fits(p, d)
  BY DEF Good
<1>1. /\ \A i \in DOMAIN c.pos : c.pos[i] \in Terms
      /\ \A i \in DOMAIN c.neg : c.neg[i] \in Terms
      /\ IsFiniteSet(DOMAIN c.pos) /\ IsFiniteSet(DOMAIN c.neg)
  <2>1. Len(c.pos) \in Nat /\ DOMAIN c.pos = 1 .. Len(c.pos) /\ Len(c.neg) \in Nat /\ DOMAIN c.neg = 1 .. Len(c.neg)
    OBVIOUS
  <2>2. \A n \in Nat : IsFiniteSet(1 .. n)
    BY FS_Interval
  <2> QED BY <2>1, <2>2
<1>2. /\ IsFiniteSet(Open(c.pos)) /\ IsFiniteSet(Open(c.neg))
      /\ Cardinality(Open(c.pos)) \in Nat /\ Cardinality(Open(c.neg)) \in Nat
      /\ Cardinality(Open(c.pos)) = 0 <=> Open(c.pos) = {}
      /\ Cardinality(Open(c.neg)) = 0 <=> Open(c.neg) = {}
  <2>1. IsFiniteSet(Open(c.pos)) /\ IsFiniteSet(Open(c.neg))
    BY <1>1, FS_Subset
  <2> HIDE DEF Open
  <2> QED BY <2>1, FS_CardinalityType, FS_EmptySet
<1>3. ASSUME NEW p \in P, ~satisfied
      PROVE  \/ \E i \in Open(c.pos) : Val(p, c.pos[i]) = 1
             \/ \E i \in Open(c.neg) : Val(p, c.neg[i]) = 0
  <2>1. ASSUME NEW i \in DOMAIN c.pos, Val(p, c.pos[i]) = 1 PROVE i \in Open(c.pos)
    <3>1. c.pos[i] \in Terms
      BY <1>1
    <3>2. cp_fixed(d, c.pos[i]) => Values(d, c.pos[i]) = {1}
      BY <1>0, <3>1, <2>1, TermFacts
    <3> QED BY <3>2, <1>3
  <2>2. ASSUME NEW i \in DOMAIN c.neg, Val(p, c.neg[i]) = 0 PROVE i \in Open(c.neg)
    <3>1. c.neg[i] \in Terms
      BY <1>1
    <3>2. cp_fixed(d, c.neg[i]) => Values(d, c.neg[i]) = {0}
      BY <1>0, <3>1, <2>2, TermFacts
    <3> QED BY <3>2, <1>3
  <2> QED BY <2>1, <2>2
<1>4. CASE satisfied \/ open > 1
  BY <1>4 DEF cp_prop_clause
<1>5. CASE ~satisfied /\ open = 0
  <2>1. Open(c.pos) = {} /\ Open(c.neg) = {}
    BY <1>2, <1>5
  <2>2. P = {}
    BY <2>1, <1>3, <1>5
  <2>3. cp_prop_clause(d, c) = Dead
    BY <1>5 DEF cp_prop_clause
  <2> QED BY <2>2, <2>3, DeadKeeps
<1>6. CASE ~satisfied /\ open = 1 /\ Open(c.pos) # {}
  <2>0. Cardinality(Open(c.pos)) = 1 /\ Open(c.neg) = {}
    BY <1>2, <1>6
  <2>1. Open(c.pos) = {k}
    <3>1. \E x : Open(c.pos) = {x}
      BY <1>2, <2>0, FS_Singleton
    <3> QED BY <3>1
  <2> HIDE DEF k
  <2>2. k \in DOMAIN c.pos /\ ~cp_fixed(d, c.pos[k]) /\ c.pos[k] \in Terms
    BY <2>1, <1>1
  <2>3. c.pos[k] \in Vars
    BY <2>2, FS_Singleton DEF cp_fixed, Values, isc
  <2>4. \A p \in P : p[c.pos[k]] = 1
    <3>1. \A p \in P : Val(p, c.pos[k]) = 1
      BY <1>3, <1>6, <2>0, <2>1
    <3> QED BY <3>1, <2>3 DEF Val, isc
  <2>5. cp_assign(d, c.pos[k], 1) \in Good(R, P)
    <3>1. 1 \in R[c.pos[k]]
      BY <2>3 DEF Ranges
    <3> QED BY <2>3, <2>4, <3>1, AssignKeeps
  <2>6. cp_prop_clause(d, c) = cp_assign(d, c.pos[k], 1)
    BY <1>6 DEF cp_prop_clause, k
  <2> QED BY <2>5, <2>6
<1>7. CASE ~satisfied /\ open = 1 /\ Open(c.pos) = {}
  <2>0. Cardinality(Open(c.neg)) = 1
    BY <1>2, <1>7
  <2>1. Open(c.neg) = {l}
    <3>1. \E x : Open(c.neg) = {x}
      BY <1>2, <2>0, FS_Singleton
    <3> QED BY <3>1
  <2> HIDE DEF l
  <2>2. l \in DOMAIN c.neg /\ ~cp_fixed(d, c.neg[l]) /\ c.neg[l] \in Terms
    BY <2>1, <1>1
  <2>3. c.neg[l] \in Vars
    BY <2>2, FS_Singleton DEF cp_fixed, Values, isc
  <2>4. \A p \in P : p[c.neg[l]] = 0
    <3>1. \A p \in P : Val(p, c.neg[l]) = 0
      BY <1>3, <1>7, <2>1
    <3> QED BY <3>1, <2>3 DEF Val, isc
  <2>5. cp_assign(d, c.neg[l], 0) \in Good(R, P)
    <3>1. 0 \in R[c.neg[l]]
      BY <2>3 DEF Ranges
    <3> QED BY <2>3, <2>4, <3>1, AssignKeeps
  <2>6. cp_prop_clause(d, c) = cp_assign(d, c.neg[l], 0)
    BY <1>7 DEF cp_prop_clause, l
  <2> QED BY <2>5, <2>6
<1>8. open \in Nat
  BY <1>2
<1> HIDE DEF satisfied, open
<1> QED BY <1>4, <1>5, <1>6, <1>7, <1>8

(* Two terms made equal keep the points where they are.                    *)
LEMMA EquateTermsKeeps ==
  ASSUME NEW R \in Ranges, NEW P, NEW d \in Good(R, P), NEW e \in Terms, NEW y \in Terms,
         \A p \in P : Val(p, e) = Val(p, y)
  PROVE  EquateTerms(d, e, y) \in Good(R, P)
<1> DEFINE lo == Larger(cp_dmin(d, e), cp_dmin(d, y))
           hi == Smaller(cp_dmax(d, e), cp_dmax(d, y))
           one == cp_intersect(d, e, lo, hi)
           both == cp_intersect(one, y, lo, hi)
<1>0. d \in Boxes(R) /\ \A p \in P : Fits(p, d)
  BY DEF Good
<1>1. ASSUME NEW p \in P
      PROVE  lo <= Val(p, e) /\ Val(p, e) <= hi /\ lo <= Val(p, y) /\ Val(p, y) <= hi
  <2>1. /\ cp_dmin(d, e) <= Val(p, e) /\ Val(p, e) <= cp_dmax(d, e)
        /\ cp_dmin(d, y) <= Val(p, y) /\ Val(p, y) <= cp_dmax(d, y)
    BY <1>0, TermFacts
  <2> QED BY <2>1 DEF Larger, Smaller
<1> HIDE DEF lo, hi
<1>2. one \in Good(R, P)
  BY <1>1, IntersectKeeps
<1> HIDE DEF one
<1>3. both \in Good(R, P)
  BY <1>1, <1>2, IntersectKeeps
<1> HIDE DEF both
<1>4. both \in Boxes(R) /\ \A p \in P : Fits(p, both)
  BY <1>3 DEF Good
<1>5. Failed(both) => Dead \in Good(R, P)
  BY <1>4, FitsLives, DeadKeeps
<1>6. cp_fixed(both, e) /\ cp_fixed(both, y) /\ Values(both, e) # Values(both, y) => Dead \in Good(R, P)
  <2>1. ASSUME NEW p \in P, cp_fixed(both, e), cp_fixed(both, y) PROVE Values(both, e) = Values(both, y)
    <3>1. Values(both, e) = {Val(p, e)}
      BY <1>4, <2>1, TermFacts
    <3>2. Values(both, y) = {Val(p, y)}
      BY <1>4, <2>1, TermFacts
    <3> QED BY <3>1, <3>2
  <2>2. cp_fixed(both, e) /\ cp_fixed(both, y) /\ Values(both, e) # Values(both, y) => P = {}
    BY <2>1
  <2> QED BY <2>2, DeadKeeps
<1>7. ASSUME isc(y) PROVE cp_equate(d, e, y) \in Good(R, P)
  <2>1. \A p \in P : Val(p, e) = y
    BY <1>7 DEF Val
  <2> QED BY <2>1, EquateKeeps
<1> QED BY <1>3, <1>5, <1>6, <1>7 DEF EquateTerms, lo, hi, one, both

(* cp_prop_elem keeps the points whose y is the indexed entry, with the    *)
(* index in range: dropped indices are out of range or have no value in    *)
(* common with y, and the union of the entries that are left holds y.      *)
LEMMA ElemKeeps ==
  ASSUME NEW R \in Ranges, NEW P, NEW d \in Good(R, P), NEW r, r.index \in Terms, r.y \in Terms,
         r.arr \in Seq(Terms), r.offset \in Int,
         \A p \in P : /\ Val(p, r.index) - r.offset + 1 \in DOMAIN r.arr
                      /\ Val(p, r.y) = Val(p, r.arr[Val(p, r.index) - r.offset + 1])
  PROVE  cp_prop_elem(d, r) \in Good(R, P)
<1> DEFINE Item(i) == r.arr[i - r.offset + 1]
           last == r.offset + Len(r.arr) - 1
           i == cp_dmin(d, r.index)
           S == {j \in d[r.index].vals \cap (r.offset .. last) : Values(d, r.y) \subseteq Values(d, Item(j))}
           e == IF cp_fixed(d, r.y) /\ Listed(d, r.index) THEN cp_set_vals(d, r.index, S) ELSE d
<1>0. d \in Boxes(R) /\ \A p \in P : Fits(p, d)
  BY DEF Good
<1>1. Len(r.arr) \in Nat /\ DOMAIN r.arr = 1 .. Len(r.arr) /\ last \in Int
  OBVIOUS
<1>2. \A j \in r.offset .. last : Item(j) \in Terms
  <2> TAKE j \in r.offset .. last
  <2>1. j - r.offset + 1 \in 1 .. Len(r.arr)
    BY <1>1
  <2> QED BY <2>1
<1>3. ASSUME NEW p \in P
      PROVE  /\ Val(p, r.index) \in r.offset .. last /\ r.offset <= Val(p, r.index) /\ Val(p, r.index) <= last
             /\ Val(p, r.y) = Val(p, Item(Val(p, r.index)))
  <2>1. Val(p, r.index) \in Int
    BY <1>0, TermFacts
  <2>2. Val(p, r.index) - r.offset + 1 \in 1 .. Len(r.arr)
    BY <1>1
  <2>3. Val(p, r.index) \in r.offset .. last
    BY <2>1, <2>2, <1>1
  <2> QED BY <2>1, <2>3, <1>1
<1> HIDE DEF Item, last
<1>4. e \in Good(R, P)
  <2>1. CASE cp_fixed(d, r.y) /\ Listed(d, r.index)
    <3>1. r.index \in Vars
      BY <2>1 DEF Listed, isc
    <3>2. ASSUME NEW p \in P PROVE p[r.index] \in S
      <4>1. p[r.index] \in d[r.index].vals /\ p[r.index] = Val(p, r.index)
        BY <1>0, <3>1 DEF Fits, Val, isc
      <4>2. Item(p[r.index]) \in Terms
        BY <4>1, <1>2, <1>3
      <4>3. Values(d, r.y) = {Val(p, r.y)} /\ Val(p, Item(p[r.index])) \in Values(d, Item(p[r.index]))
        BY <1>0, <2>1, <4>2, TermFacts
      <4> QED BY <4>1, <4>3, <1>3
    <3> HIDE DEF S
    <3>3. cp_set_vals(d, r.index, S) \in Good(R, P)
      BY <3>1, <3>2, SetKeeps
    <3> QED BY <2>1, <3>3
  <2>2. CASE ~(cp_fixed(d, r.y) /\ Listed(d, r.index))
    BY <2>2
  <2> QED BY <2>1, <2>2
<1>5. cp_intersect(e, r.index, r.offset, last) \in Good(R, P)
  <2> HIDE DEF e
  <2> QED BY <1>3, <1>4, IntersectKeeps
<1>6. ASSUME cp_fixed(d, r.index), NEW p \in P
      PROVE  i \in r.offset .. last /\ Val(p, r.y) = Val(p, Item(i))
  BY <1>0, <1>3, <1>6, TermFacts
<1> HIDE DEF i
<1>7. cp_fixed(d, r.index) /\ i \notin r.offset .. last => Dead \in Good(R, P)
  BY <1>6, DeadKeeps
<1>8. ASSUME cp_fixed(d, r.index), i \in r.offset .. last, cp_fixed(d, Item(i))
      PROVE  cp_equate(d, r.y, cp_dmin(d, Item(i))) \in Good(R, P)
  <2>1. ASSUME NEW p \in P PROVE Val(p, r.y) = cp_dmin(d, Item(i))
    <3>1. Item(i) \in Terms
      BY <1>2, <1>8
    <3>2. cp_dmin(d, Item(i)) = Val(p, Item(i))
      BY <3>1, <1>0, <1>8, TermFacts
    <3> QED BY <3>2, <1>6, <1>8
  <2> QED BY <2>1, EquateKeeps
<1>9. ASSUME cp_fixed(d, r.index), i \in r.offset .. last
      PROVE  EquateTerms(d, Item(i), r.y) \in Good(R, P)
  <2>1. Item(i) \in Terms /\ \A p \in P : Val(p, Item(i)) = Val(p, r.y)
    BY <1>2, <1>6, <1>9
  <2> QED BY <2>1, EquateTermsKeeps
<1> QED BY <1>5, <1>7, <1>8, <1>9 DEF cp_prop_elem, e, S, i, Item, last

----------------------------------------------------------------------------
(* The reified conjunction.                                                *)

(* The same bounds on all inputs, one after the other, keep the points     *)
(* that respect them.                                                      *)
LEMMA AllInputsKeeps ==
  ASSUME NEW R \in Ranges, NEW P, NEW d \in Good(R, P), NEW ins, ins \in Seq(Terms), NEW lo, NEW hi,
         \A p \in P : \A i \in DOMAIN ins : lo <= Val(p, ins[i]) /\ Val(p, ins[i]) <= hi
  PROVE  AllInputs(d, ins, lo, hi) \in Good(R, P)
<1> DEFINE D == DOMAIN ins
           U == Good(R, P)
           op(e, t) == IF Failed(e) THEN e ELSE cp_intersect(e, t, lo, hi)
           Solves(h) == h = [s \in SUBSET D |-> IF s = {} THEN d
                                               ELSE op(h[s \ {Max(s)}], ins[Max(s)])]
<1>0. Places(D) /\ \A i \in D : ins[i] \in Terms
  <2>1. Len(ins) \in Nat /\ D = 1 .. Len(ins)
    OBVIOUS
  <2>2. IsFiniteSet(1 .. Len(ins)) /\ 1 .. Len(ins) \subseteq Nat
    BY <2>1, FS_Interval
  <2> QED BY <2>1, <2>2 DEF Places
<1>1. AllInputs(d, ins, lo, hi) = (CHOOSE h : Solves(h))[D]
  BY DEF AllInputs, FoldLeft, MapThenFoldSet
<1>2. ASSUME NEW i \in D, NEW e \in U PROVE op(e, ins[i]) \in U
  BY <1>0, IntersectKeeps
<1> HIDE DEF op, U
<1>3. \E h : Solves(h)
  <2> DEFINE G == [k \in D \X U |-> op(k[2], ins[k[1]])]
  <2>1. G \in [D \X U -> U] /\ \A i \in D, e \in U : G[<<i, e>>] = op(e, ins[i])
    BY <1>2
  <2>2. d \in U
    BY DEF U
  <2> HIDE DEF G
  <2>3. PICK h \in [SUBSET D -> U] : FoldsLast(h, D, d, G)
    <3> HIDE DEF D
    <3>1. G \in [D \X U -> U]
      BY <2>1
    <3>2. Places(D)
      BY <1>0
    <3> QED BY <3>2, <3>1, <2>2, FoldExists
  <2>4. \A s \in SUBSET D : s # {} => Max(s) \in D
    BY <1>0, LastIs
  <2>5. \A s \in SUBSET D : h[s] = IF s = {} THEN d ELSE op(h[s \ {Max(s)}], ins[Max(s)])
    BY <2>1, <2>3, <2>4 DEF FoldsLast
  <2> QED BY <2>5
<1>4. Solves(CHOOSE h : Solves(h))
  BY <1>3
<1> DEFINE f == CHOOSE h : Solves(h)
<1> HIDE DEF f
<1>5. /\ f[{}] = d
      /\ \A s \in SUBSET D : s # {} => f[s] = op(f[s \ {Max(s)}], ins[Max(s)])
  BY <1>4 DEF f
<1>6. StaysIn(f, D, U)
  <2>1. ASSUME NEW s \in SUBSET D, s # {}, f[s \ {Max(s)}] \in U PROVE f[s] \in U
    <3>1. Max(s) \in D
      BY <1>0, <2>1, LastIs
    <3>2. f[s] = op(f[s \ {Max(s)}], ins[Max(s)])
      BY <1>5, <2>1
    <3> QED BY <3>1, <3>2, <2>1, <1>2
  <2> QED BY <2>1 DEF StaysIn
<1>7. f[D] \in U
  BY <1>0, <1>5, <1>6, FoldIn DEF U
<1> QED BY <1>1, <1>7 DEF f, U

(* cp_prop_and keeps the points whose out is the conjunction of the        *)
(* inputs, for inputs that are 0 or 1.                                     *)
LEMMA AndKeeps ==
  ASSUME NEW R \in Ranges, NEW P, NEW d \in Good(R, P), NEW c, c.out \in Terms, c.ins \in Seq(Terms),
         \A p \in P : \A i \in DOMAIN c.ins : Val(p, c.ins[i]) \in {0, 1},
         \A p \in P : Val(p, c.out) = IF \A i \in DOMAIN c.ins : Val(p, c.ins[i]) = 1 THEN 1 ELSE 0
  PROVE  cp_prop_and(d, c) \in Good(R, P)
<1> DEFINE out == cp_intersect(d, c.out, 0, 1)
           ins == AllInputs(out, c.ins, 0, 1)
           Open == {i \in DOMAIN c.ins : ~cp_fixed(ins, c.ins[i])}
           k == CHOOSE i \in Open : TRUE
           IsZero(i) == Values(ins, c.ins[i]) = {0}
<1>0. \A i \in DOMAIN c.ins : c.ins[i] \in Terms
  OBVIOUS
<1>1. out \in Good(R, P)
  <2>1. \A p \in P : 0 <= Val(p, c.out) /\ Val(p, c.out) <= 1
    OBVIOUS
  <2> QED BY <2>1, IntersectKeeps
<1>2. ins \in Good(R, P)
  <2>1. \A p \in P : \A i \in DOMAIN c.ins : 0 <= Val(p, c.ins[i]) /\ Val(p, c.ins[i]) <= 1
    OBVIOUS
  <2> HIDE DEF out
  <2> QED BY <2>1, <1>1, AllInputsKeeps
<1>3. cp_prop_and(d, c) =
        IF Failed(out) THEN Dead
        ELSE IF Values(out, c.out) = {1} THEN AllInputs(out, c.ins, 1, 1)
        ELSE IF Failed(ins) THEN Dead
        ELSE IF \E i \in DOMAIN c.ins : IsZero(i) THEN cp_equate(ins, c.out, 0)
        ELSE IF Open = {} THEN cp_equate(ins, c.out, 1)
        ELSE IF Values(ins, c.out) = {0} /\ Cardinality(Open) = 1 THEN cp_equate(ins, c.ins[k], 0)
        ELSE ins
  BY DEF cp_prop_and
<1> HIDE DEF out, ins
<1>4. Failed(out) \/ Failed(ins) => Dead \in Good(R, P)
  <2>1. ASSUME NEW p \in P PROVE ~Failed(out) /\ ~Failed(ins)
    BY <1>1, <1>2, FitsLives DEF Good
  <2> QED BY <2>1, DeadKeeps
<1>5. ASSUME Values(out, c.out) = {1} PROVE AllInputs(out, c.ins, 1, 1) \in Good(R, P)
  <2>1. ASSUME NEW p \in P PROVE Val(p, c.out) = 1
    BY <1>1, <1>5, TermFacts DEF Good
  <2>2. \A p \in P : \A i \in DOMAIN c.ins : 1 <= Val(p, c.ins[i]) /\ Val(p, c.ins[i]) <= 1
    BY <2>1
  <2> QED BY <2>2, <1>1, AllInputsKeeps
<1>6. ASSUME NEW p \in P, NEW i \in DOMAIN c.ins
      PROVE  /\ IsZero(i) => Val(p, c.ins[i]) = 0
             /\ i \notin Open /\ ~IsZero(i) => Val(p, c.ins[i]) = 1
  <2>1. /\ Val(p, c.ins[i]) \in Values(ins, c.ins[i])
        /\ cp_fixed(ins, c.ins[i]) => Values(ins, c.ins[i]) = {Val(p, c.ins[i])}
    <3>1. c.ins[i] \in Terms
      BY <1>0
    <3>2. ins \in Boxes(R) /\ Fits(p, ins)
      BY <1>2 DEF Good
    <3> QED BY <3>1, <3>2, TermFacts
  <2>2. Val(p, c.ins[i]) \in {0, 1}
    OBVIOUS
  <2> QED BY <2>1, <2>2
<1>7. (\E i \in DOMAIN c.ins : IsZero(i)) => cp_equate(ins, c.out, 0) \in Good(R, P)
  <2>1. ASSUME NEW i \in DOMAIN c.ins, IsZero(i), NEW p \in P PROVE Val(p, c.out) = 0
    BY <2>1, <1>6
  <2> QED BY <2>1, <1>2, EquateKeeps
<1>8. ASSUME ~(\E i \in DOMAIN c.ins : IsZero(i)), Open = {} PROVE cp_equate(ins, c.out, 1) \in Good(R, P)
  <2>1. ASSUME NEW p \in P PROVE Val(p, c.out) = 1
    BY <1>8, <1>6
  <2> QED BY <2>1, <1>2, EquateKeeps
<1>9. ASSUME ~(\E i \in DOMAIN c.ins : IsZero(i)), Values(ins, c.out) = {0}, Cardinality(Open) = 1
      PROVE  cp_equate(ins, c.ins[k], 0) \in Good(R, P)
  <2>1. Open = {k}
    <3>1. IsFiniteSet(DOMAIN c.ins)
      <4>1. Len(c.ins) \in Nat /\ DOMAIN c.ins = 1 .. Len(c.ins)
        OBVIOUS
      <4> QED BY <4>1, FS_Interval
    <3>2. IsFiniteSet(Open)
      BY <3>1, FS_Subset
    <3> HIDE DEF Open
    <3>3. \E x : Open = {x}
      BY <3>2, <1>9, FS_Singleton
    <3> QED BY <3>3
  <2> HIDE DEF k
  <2>2. k \in DOMAIN c.ins
    BY <2>1
  <2>3. ASSUME NEW p \in P PROVE Val(p, c.ins[k]) = 0
    <3>1. Val(p, c.out) = 0
      BY <1>2, <1>9, TermFacts DEF Good
    <3>2. \A i \in DOMAIN c.ins : i # k => Val(p, c.ins[i]) = 1
      BY <2>1, <1>6, <1>9
    <3>3. Val(p, c.ins[k]) \in {0, 1}
      BY <2>2
    <3> QED BY <3>1, <3>2, <3>3
  <2> QED BY <2>2, <2>3, <1>0, <1>2, EquateKeeps
<1> HIDE DEF Open, IsZero, k
<1> QED BY <1>2, <1>3, <1>4, <1>5, <1>7, <1>8, <1>9

----------------------------------------------------------------------------
(* Linear constraints and their reified form.                              *)

Rels == {"eq", "ne", "le", "ge", "lt", "gt"}
(* A linear constraint, its sum at a point, and the contributions that the *)
(* domains leave to its terms.                                             *)
LinShape(c) ==
  /\ c.var \in Seq(Vars) /\ DOMAIN c.coef = DOMAIN c.var
  /\ \A i \in DOMAIN c.var : c.coef[i] \in Int
  /\ c.rhs \in Int
Part(p, c) == [i \in DOMAIN c.var |-> c.coef[i] * p[c.var[i]]]
Sum(p, c) == Total(Part(p, c), DOMAIN c.var)
LeastOf(d, c) == [i \in DOMAIN c.var |-> Least(d, c, i)]
MostOf(d, c) == [i \in DOMAIN c.var |-> Most(d, c, i)]

(* A product with a fixed factor grows or falls with the other one.        *)
LEMMA Scales ==
  ASSUME NEW a \in Int, NEW x \in Int, NEW y \in Int, x <= y
  PROVE  /\ a * x \in Int /\ a * y \in Int
         /\ a > 0 => a * x <= a * y
         /\ ~(a > 0) => a * y <= a * x
<1> DEFINE z == y - x
<1>1. z \in Int /\ 0 <= z /\ y = x + z
  OBVIOUS
<1>2. a * (x + z) = a * x + a * z
  <2> HIDE DEF z
  <2> QED BY <1>1
<1>3. a > 0 => 0 <= a * z
  <2> HIDE DEF z
  <2> QED BY <1>1
<1>4. ~(a > 0) => a * z <= 0
  <2> HIDE DEF z
  <2> QED BY <1>1
<1>5. a * z \in Int /\ a * x \in Int /\ a * y \in Int
  OBVIOUS
<1> HIDE DEF z
<1>6. a * y = a * x + a * z
  BY <1>1, <1>2
<1> QED BY <1>3, <1>4, <1>5, <1>6

(* The positions of a sequence are a finite set of naturals.               *)
LEMMA PlacesFinite ==
  ASSUME NEW s, NEW T, s \in Seq(T)
  PROVE  Places(DOMAIN s) /\ IsFiniteSet(DOMAIN s) /\ \A i \in DOMAIN s : s[i] \in T
<1>1. Len(s) \in Nat /\ DOMAIN s = 1 .. Len(s)
  OBVIOUS
<1>2. IsFiniteSet(1 .. Len(s)) /\ 1 .. Len(s) \subseteq Nat
  BY <1>1, FS_Interval
<1> QED BY <1>1, <1>2 DEF Places

(* The contribution of a term at a point lies between the least and the    *)
(* most that its domain allows, and equals both if the variable is fixed.  *)
LEMMA PartWithin ==
  ASSUME NEW R \in Ranges, NEW d \in Boxes(R), NEW p, Fits(p, d), NEW c, LinShape(c), NEW i \in DOMAIN c.var
  PROVE  /\ c.var[i] \in Vars /\ p[c.var[i]] \in Int /\ c.coef[i] \in Int
         /\ LeastOf(d, c)[i] = Least(d, c, i) /\ LeastOf(d, c)[i] \in Int
         /\ MostOf(d, c)[i] = Most(d, c, i) /\ MostOf(d, c)[i] \in Int
         /\ Part(p, c)[i] = c.coef[i] * p[c.var[i]] /\ Part(p, c)[i] \in Int
         /\ LeastOf(d, c)[i] <= Part(p, c)[i] /\ Part(p, c)[i] <= MostOf(d, c)[i]
         /\ cp_fixed(d, c.var[i]) => LeastOf(d, c)[i] = Part(p, c)[i]
         /\ c.coef[i] = 0 => Part(p, c)[i] = 0
<1> DEFINE v == c.var[i]   a == c.coef[i]
<1>1. v \in Vars /\ v \in Terms /\ a \in Int
  BY PlacesFinite DEF LinShape, Terms
<1> HIDE DEF v, a
<1>2. Val(p, v) = p[v]
  BY <1>1 DEF Val, isc
<1>3. /\ p[v] \in Int /\ cp_dmin(d, v) \in Int /\ cp_dmax(d, v) \in Int
      /\ cp_dmin(d, v) <= p[v] /\ p[v] <= cp_dmax(d, v)
      /\ cp_fixed(d, v) => cp_dmin(d, v) = p[v] /\ cp_dmax(d, v) = p[v]
  BY <1>1, <1>2, TermFacts
<1>4. /\ a * cp_dmin(d, v) \in Int /\ a * cp_dmax(d, v) \in Int /\ a * p[v] \in Int
      /\ a > 0 => a * cp_dmin(d, v) <= a * p[v] /\ a * p[v] <= a * cp_dmax(d, v)
      /\ ~(a > 0) => a * cp_dmax(d, v) <= a * p[v] /\ a * p[v] <= a * cp_dmin(d, v)
  BY <1>1, <1>3, Scales
<1>5. /\ Least(d, c, i) = IF a > 0 THEN a * cp_dmin(d, v) ELSE a * cp_dmax(d, v)
      /\ Most(d, c, i) = IF a > 0 THEN a * cp_dmax(d, v) ELSE a * cp_dmin(d, v)
  BY DEF Least, Most, a, v
<1>6. LeastOf(d, c)[i] = Least(d, c, i) /\ MostOf(d, c)[i] = Most(d, c, i) /\ Part(p, c)[i] = a * p[v]
  BY DEF LeastOf, MostOf, Part, a, v
<1>7. a = 0 => a * p[v] = 0
  BY <1>3
<1>8. cp_fixed(d, v) => Least(d, c, i) = a * p[v]
  BY <1>3, <1>5
<1> QED BY <1>1, <1>3, <1>4, <1>5, <1>6, <1>7, <1>8 DEF a, v

(* The sum of a linear constraint at a point, as a total over its          *)
(* positions.                                                              *)
LEMMA SumIs ==
  ASSUME NEW c, NEW p
  PROVE  MapThenSumSet(LAMBDA i : c.coef[i] * p[c.var[i]], DOMAIN c.var) = Sum(p, c)
BY DEF Sum, Total, MapThenSumSet, MapThenFoldSet, Part

(* The least and the greatest sum, likewise.                               *)
LEMMA SumsAre ==
  ASSUME NEW d, NEW c, NEW S \in SUBSET DOMAIN c.var, IsFiniteSet(DOMAIN c.var)
  PROVE  /\ MapThenSumSet(LAMBDA i : Least(d, c, i), S) = Total(LeastOf(d, c), S)
         /\ MapThenSumSet(LAMBDA i : Most(d, c, i), S) = Total(MostOf(d, c), S)
<1> DEFINE f == [i \in S |-> Least(d, c, i)]
           g == [i \in S |-> Most(d, c, i)]
<1>0. IsFiniteSet(S)
  BY FS_Subset
<1>1. MapThenSumSet(LAMBDA i : Least(d, c, i), S) = Total(f, S)
  BY DEF Total, MapThenSumSet, MapThenFoldSet
<1>2. MapThenSumSet(LAMBDA i : Most(d, c, i), S) = Total(g, S)
  BY DEF Total, MapThenSumSet, MapThenFoldSet
<1>4. \A j \in S : f[j] = LeastOf(d, c)[j] /\ g[j] = MostOf(d, c)[j]
  BY DEF LeastOf, MostOf
<1> HIDE DEF f, g
<1>5. Total(f, S) = Total(LeastOf(d, c), S) /\ Total(g, S) = Total(MostOf(d, c), S)
  BY <1>0, <1>4, TotalAgrees
<1> QED BY <1>1, <1>2, <1>5

(* A sum of integers is bounded by the sum of their bounds, also over some *)
(* of the positions only.                                                  *)
LEMMA WithinBound ==
  ASSUME NEW D, IsFiniteSet(D), NEW S \in SUBSET D, NEW f, NEW g,
         \A i \in D : g[i] \in Int /\ 0 <= g[i],
         \A i \in S : f[i] \in Int /\ -g[i] <= f[i] /\ f[i] <= g[i]
  PROVE  /\ Total(f, S) \in Int /\ Total(g, D) \in Int
         /\ -Total(g, D) <= Total(f, S) /\ Total(f, S) <= Total(g, D)
<1> DEFINE f0 == [i \in D |-> IF i \in S THEN f[i] ELSE 0]
           n == [i \in D |-> (-1) * g[i]]
<1>0. IsFiniteSet(S)
  BY FS_Subset
<1>1. /\ \A i \in D : f0[i] \in Int /\ n[i] \in Int /\ n[i] = (-1) * g[i] /\ n[i] <= f0[i] /\ f0[i] <= g[i]
      /\ \A i \in S : f0[i] = f[i]
      /\ \A i \in D \ S : f0[i] = 0
  <2>1. ASSUME NEW i \in D PROVE f0[i] \in Int /\ n[i] \in Int /\ n[i] = (-1) * g[i] /\ n[i] <= f0[i] /\ f0[i] <= g[i]
    <3>1. g[i] \in Int /\ 0 <= g[i] /\ f0[i] = (IF i \in S THEN f[i] ELSE 0) /\ n[i] = -g[i]
      OBVIOUS
    <3>2. n[i] = (-1) * g[i]
      OBVIOUS
    <3>3. i \in S => f[i] \in Int /\ -g[i] <= f[i] /\ f[i] <= g[i]
      OBVIOUS
    <3> HIDE DEF f0, n
    <3> QED BY <3>1, <3>2, <3>3
  <2> QED BY <2>1
<1> HIDE DEF f0, n
<1>2. Total(f, S) = Total(f0, S)
  BY <1>0, <1>1, TotalAgrees
<1>3. Total(f0, D) = Total(f0, S)
  BY <1>1, TotalSkipsZeros
<1>4. Total(f0, D) <= Total(g, D) /\ Total(n, D) <= Total(f0, D)
  BY <1>1, TotalGrows
<1>5. Total(n, D) = (-1) * Total(g, D)
  BY <1>1, TotalScales
<1>6. Total(g, D) \in Int /\ Total(f0, D) \in Int
  BY <1>1, TotalInt
<1> QED BY <1>2, <1>3, <1>4, <1>5, <1>6

(* The sums of c and their differences to rhs fit a word, whatever values  *)
(* of R its variables take: Weights are the largest contributions of the   *)
(* terms.                                                                  *)
Weights(c, M) == [i \in DOMAIN c.var |-> Abs(c.coef[i]) * M]
LinFits(R, c) ==
  \E M \in 0 .. MaxWord : /\ \A i \in DOMAIN c.var : R[c.var[i]] \subseteq -M .. M
                          /\ Total(Weights(c, M), DOMAIN c.var) + Abs(c.rhs) + 1 <= MaxWord

(* A product with a number of magnitude at most M.                         *)
LEMMA Magnitude ==
  ASSUME NEW a \in Int, NEW M \in Nat, NEW x \in Int, -M <= x, x <= M
  PROVE  Abs(a) * M \in Int /\ 0 <= Abs(a) * M /\ -(Abs(a) * M) <= a * x /\ a * x <= Abs(a) * M
<1>1. a * M \in Int /\ a * (-M) \in Int /\ a * (-M) = -(a * M) /\ (-a) * M = -(a * M)
  OBVIOUS
<1>2. CASE a > 0
  <2>1. a * (-M) <= a * x /\ a * x <= a * M /\ a * 0 <= a * M
    BY <1>2, Scales
  <2>2. Abs(a) = a /\ a * 0 = 0
    BY <1>2 DEF Abs
  <2> QED BY <1>1, <2>1, <2>2
<1>3. CASE ~(a > 0)
  <2>1. a * M <= a * x /\ a * x <= a * (-M) /\ a * M <= a * 0
    BY <1>3, Scales
  <2>2. Abs(a) = -a /\ a * 0 = 0
    BY <1>3 DEF Abs
  <2>3. Abs(a) * M = -(a * M)
    BY <1>1, <2>2
  <2>4. a * x \in Int
    OBVIOUS
  <2> QED BY <1>1, <2>1, <2>2, <2>3, <2>4
<1> QED BY <1>2, <1>3

(* Under LinFits no sum of least or greatest contributions leaves the      *)
(* words: what the code cuts to a word is the exact bound.                 *)
LEMMA SumsFit ==
  ASSUME NEW R \in Ranges, NEW d \in Boxes(R), NEW p, Fits(p, d), NEW c, LinShape(c), LinFits(R, c),
         NEW S \in SUBSET DOMAIN c.var
  PROVE  \E W \in Int : /\ W + Abs(c.rhs) + 1 <= MaxWord
                        /\ Total(LeastOf(d, c), S) \in Int /\ Total(MostOf(d, c), S) \in Int
                        /\ -W <= Total(LeastOf(d, c), S) /\ Total(LeastOf(d, c), S) <= W
                        /\ -W <= Total(MostOf(d, c), S) /\ Total(MostOf(d, c), S) <= W
<1> DEFINE D == DOMAIN c.var
<1>0. PICK M \in 0 .. MaxWord : /\ \A i \in D : R[c.var[i]] \subseteq -M .. M
                                /\ Total(Weights(c, M), D) + Abs(c.rhs) + 1 <= MaxWord
  BY DEF LinFits
<1>1. /\ M \in Nat /\ \A i \in D : R[c.var[i]] \subseteq -M .. M
      /\ Total(Weights(c, M), D) + Abs(c.rhs) + 1 <= MaxWord
  <2>1. MaxWord \in Nat
    BY LimitsAssumption
  <2> HIDE DEF D
  <2>2. M \in Nat
    BY <2>1
  <2> QED BY <2>2, <1>0
<1>2. IsFiniteSet(D)
  BY PlacesFinite DEF LinShape
<1>3. ASSUME NEW i \in D
      PROVE  /\ Weights(c, M)[i] \in Int /\ 0 <= Weights(c, M)[i]
             /\ LeastOf(d, c)[i] \in Int /\ MostOf(d, c)[i] \in Int
             /\ -Weights(c, M)[i] <= LeastOf(d, c)[i] /\ LeastOf(d, c)[i] <= Weights(c, M)[i]
             /\ -Weights(c, M)[i] <= MostOf(d, c)[i] /\ MostOf(d, c)[i] <= Weights(c, M)[i]
  <2> DEFINE v == c.var[i]   a == c.coef[i]
  <2>1. v \in Vars /\ v \in Terms /\ a \in Int
    BY <1>2, PartWithin DEF Terms
  <2>2. Weights(c, M)[i] = Abs(a) * M
    BY DEF Weights
  <2>3. /\ LeastOf(d, c)[i] = a * cp_dmin(d, v) \/ LeastOf(d, c)[i] = a * cp_dmax(d, v)
        /\ MostOf(d, c)[i] = a * cp_dmin(d, v) \/ MostOf(d, c)[i] = a * cp_dmax(d, v)
    BY DEF LeastOf, MostOf, Least, Most
  <2>4. cp_dmin(d, v) \in R[v] /\ cp_dmax(d, v) \in R[v]
    <3> HIDE DEF v
    <3> QED BY <2>1, TermFacts, BoxVals DEF Values, isc
  <2>5. R[v] \subseteq -M .. M
    BY <1>1
  <2> HIDE DEF v, a
  <2>6. cp_dmin(d, v) \in Int /\ -M <= cp_dmin(d, v) /\ cp_dmin(d, v) <= M
    BY <2>4, <2>5
  <2>7. cp_dmax(d, v) \in Int /\ -M <= cp_dmax(d, v) /\ cp_dmax(d, v) <= M
    BY <2>4, <2>5
  <2>8. /\ Abs(a) * M \in Int /\ 0 <= Abs(a) * M
        /\ -(Abs(a) * M) <= a * cp_dmin(d, v) /\ a * cp_dmin(d, v) <= Abs(a) * M
        /\ a * cp_dmin(d, v) \in Int
    <3> DEFINE x == cp_dmin(d, v)
    <3>1. x \in Int /\ -M <= x /\ x <= M /\ M \in Nat /\ a \in Int
      BY <2>1, <2>6
    <3> HIDE DEF x
    <3>2. Abs(a) * M \in Int /\ 0 <= Abs(a) * M /\ -(Abs(a) * M) <= a * x /\ a * x <= Abs(a) * M
      BY <3>1, Magnitude
    <3>3. a * x \in Int
      BY <3>1
    <3> QED BY <3>2, <3>3 DEF x
  <2>9. /\ -(Abs(a) * M) <= a * cp_dmax(d, v) /\ a * cp_dmax(d, v) <= Abs(a) * M
        /\ a * cp_dmax(d, v) \in Int
    <3> DEFINE x == cp_dmax(d, v)
    <3>1. x \in Int /\ -M <= x /\ x <= M /\ M \in Nat /\ a \in Int
      BY <2>1, <2>7
    <3> HIDE DEF x
    <3>2. Abs(a) * M \in Int /\ 0 <= Abs(a) * M /\ -(Abs(a) * M) <= a * x /\ a * x <= Abs(a) * M
      BY <3>1, Magnitude
    <3>3. a * x \in Int
      BY <3>1
    <3> QED BY <3>2, <3>3 DEF x
  <2> QED BY <2>2, <2>3, <2>8, <2>9
<1> DEFINE w == Weights(c, M)   W == Total(w, D)   l == LeastOf(d, c)   m == MostOf(d, c)
<1> HIDE DEF D, w, l, m
<1>4. /\ Total(l, S) \in Int /\ Total(w, D) \in Int
      /\ -Total(w, D) <= Total(l, S) /\ Total(l, S) <= Total(w, D)
  <2>1. /\ \A i \in D : w[i] \in Int /\ 0 <= w[i]
        /\ \A i \in S : l[i] \in Int /\ -w[i] <= l[i] /\ l[i] <= w[i]
    BY <1>3 DEF D, w, l
  <2> QED BY <1>2, <2>1, WithinBound DEF D
<1>5. /\ Total(m, S) \in Int
      /\ -Total(w, D) <= Total(m, S) /\ Total(m, S) <= Total(w, D)
  <2>1. /\ \A i \in D : w[i] \in Int /\ 0 <= w[i]
        /\ \A i \in S : m[i] \in Int /\ -w[i] <= m[i] /\ m[i] <= w[i]
    BY <1>3 DEF D, w, m
  <2> QED BY <1>2, <2>1, WithinBound DEF D
<1>6. W + Abs(c.rhs) + 1 <= MaxWord
  BY <1>1 DEF w
<1> QED BY <1>4, <1>5, <1>6 DEF l, m, W

(* Quotient and remainder by a positive number.                            *)
LEMMA DivisionIs ==
  ASSUME NEW n \in Int, NEW b \in Int, b > 0
  PROVE  /\ n \div b \in Int /\ n % b \in Int
         /\ n = b * (n \div b) + (n % b)
         /\ 0 <= n % b /\ n % b < b
OBVIOUS

(* The quotient rounded down: no smaller than any integer whose product    *)
(* with b does not exceed n, and no further from 0 than n.                 *)
LEMMA FloorIs ==
  ASSUME NEW n \in Int, NEW b \in Int, b > 0, NEW q \in Int
  PROVE  /\ n \div b \in Int
         /\ b * q <= n => q <= n \div b
         /\ -Abs(n) <= n \div b /\ n \div b <= Abs(n)
<1> DEFINE f == n \div b   r == n % b
<1>1. f \in Int /\ r \in Int /\ n = b * f + r /\ 0 <= r /\ r < b /\ b * f \in Int /\ b * q \in Int
  BY DivisionIs
<1> HIDE DEF f, r
<1>2. ASSUME ~(q <= f) PROVE ~(b * q <= n)
  <2>1. f + 1 <= q
    BY <1>1, <1>2
  <2>2. b * (f + 1) <= b * q
    BY <1>1, <2>1, Scales
  <2>3. b * (f + 1) = b * f + b
    BY <1>1
  <2> QED BY <1>1, <2>2, <2>3
<1>3. CASE 0 <= n
  <2>1. Abs(n) = n
    BY <1>3 DEF Abs
  <2>2. 0 <= f
    <3>1. ASSUME ~(0 <= f) PROVE FALSE
      <4>1. f <= -1
        BY <1>1, <3>1
      <4>2. b * f <= b * (-1)
        BY <1>1, <4>1, Scales
      <4>3. b * (-1) = -b
        OBVIOUS
      <4> QED BY <4>2, <4>3, <1>1, <1>3
    <3> QED BY <3>1
  <2>3. f <= n
    <3>1. 1 * f \in Int /\ f * 1 <= f * b
      <4>1. CASE f > 0
        BY <4>1, <1>1, Scales
      <4>2. CASE ~(f > 0)
        <5>1. f = 0
          BY <4>2, <2>2, <1>1
        <5> QED BY <5>1
      <4> QED BY <4>1, <4>2
    <3>2. f * b = b * f /\ f * 1 = f
      BY <1>1
    <3> QED BY <3>1, <3>2, <1>1
  <2> QED BY <1>1, <1>2, <2>1, <2>2, <2>3 DEF f
<1>4. CASE ~(0 <= n)
  <2>1. Abs(n) = -n
    BY <1>4 DEF Abs
  <2>2. f <= -1
    <3>1. ASSUME ~(f <= -1) PROVE FALSE
      <4>1. 0 <= f
        BY <1>1, <3>1
      <4>2. b * 0 <= b * f
        BY <1>1, <4>1, Scales
      <4>3. b * 0 = 0
        OBVIOUS
      <4> QED BY <4>2, <4>3, <1>1, <1>4
    <3> QED BY <3>1
  <2>3. n <= f
    <3>1. ~(n <= f) => b * (f + 1) <= b * n
      BY <1>1, Scales
    <3>2. b * (f + 1) = b * f + b /\ b * n = n * b /\ n * b \in Int
      BY <1>1
    <3>3. n * b <= n * 1
      BY <1>4, Scales
    <3>4. n * 1 = n
      OBVIOUS
    <3> QED BY <3>1, <3>2, <3>3, <3>4, <1>1
  <2> QED BY <1>1, <1>2, <2>1, <2>2, <2>3 DEF f
<1> QED BY <1>3, <1>4

(* floord and ceild round towards the bound of x they are used for, with   *)
(* either sign of the coefficient.                                         *)
LEMMA BoundsAre ==
  ASSUME NEW n \in Int, NEW a \in Int, a # 0, NEW x \in Int
  PROVE  /\ floord(n, a) \in Int /\ -Abs(n) <= floord(n, a) /\ floord(n, a) <= Abs(n)
         /\ ceild(n, a) \in Int /\ -Abs(n) <= ceild(n, a) /\ ceild(n, a) <= Abs(n)
         /\ a > 0 /\ a * x <= n => x <= floord(n, a)
         /\ a > 0 /\ n <= a * x => ceild(n, a) <= x
         /\ a < 0 /\ a * x <= n => ceild(n, a) <= x
         /\ a < 0 /\ n <= a * x => x <= floord(n, a)
<1>1. Abs(-n) = Abs(n) /\ -n \in Int /\ -x \in Int /\ -a \in Int
  BY DEF Abs
<1>2. CASE a > 0
  <2>1. floord(n, a) = n \div a /\ ceild(n, a) = -((-n) \div a)
    BY <1>2 DEF floord, ceild
  <2>2. /\ n \div a \in Int /\ (a * x <= n => x <= n \div a)
        /\ -Abs(n) <= n \div a /\ n \div a <= Abs(n)
    BY <1>2, FloorIs
  <2>3. /\ (-n) \div a \in Int /\ (a * (-x) <= -n => -x <= (-n) \div a)
        /\ -Abs(n) <= (-n) \div a /\ (-n) \div a <= Abs(n)
    <3> DEFINE m == -n   y == -x
    <3>1. m \in Int /\ y \in Int /\ Abs(m) = Abs(n)
      BY <1>1
    <3> HIDE DEF m, y
    <3>2. /\ m \div a \in Int /\ (a * y <= m => y <= m \div a)
          /\ -Abs(m) <= m \div a /\ m \div a <= Abs(m)
      BY <1>2, <3>1, FloorIs
    <3>3. /\ m \div a \in Int /\ (a * y <= m => y <= m \div a)
          /\ -Abs(n) <= m \div a /\ m \div a <= Abs(n)
      BY <3>1, <3>2
    <3> QED BY <3>3 DEF m, y
  <2>4. a * (-x) = -(a * x) /\ a * x \in Int /\ Abs(n) \in Int
    BY DEF Abs
  <2> DEFINE f == n \div a   g == (-n) \div a   s == a * x   t == a * (-x)
  <2> HIDE DEF f, g, s, t
  <2>5. f \in Int /\ (s <= n => x <= f) /\ -Abs(n) <= f /\ f <= Abs(n)
    BY <2>2 DEF f, s
  <2>6. g \in Int /\ (t <= -n => -x <= g) /\ -Abs(n) <= g /\ g <= Abs(n)
    BY <2>3 DEF g, t
  <2>7. t = -s /\ s \in Int /\ Abs(n) \in Int
    BY <2>4 DEF s, t
  <2>8. (n <= s => -g <= x) /\ -g \in Int /\ -Abs(n) <= -g /\ -g <= Abs(n)
    BY <2>6, <2>7
  <2>9. floord(n, a) = f /\ ceild(n, a) = -g
    BY <2>1 DEF f, g
  <2>10. /\ f \in Int /\ -Abs(n) <= f /\ f <= Abs(n)
         /\ -g \in Int /\ -Abs(n) <= -g /\ -g <= Abs(n)
         /\ (s <= n => x <= f) /\ (n <= s => -g <= x)
    BY <2>5, <2>8
  <2> QED BY <1>2, <2>9, <2>10 DEF s
<1>3. CASE a < 0
  <2> DEFINE b == -a   f == (-n) \div b   g == n \div b   s == a * x
  <2>1. floord(n, a) = f /\ ceild(n, a) = -g
    <3>1. -(-n) = n /\ ~(a > 0)
      BY <1>3
    <3> QED BY <3>1 DEF floord, ceild
  <2>0. b \in Int /\ b > 0 /\ b * x = -s /\ b * (-x) = s /\ s \in Int /\ Abs(n) \in Int
    BY <1>3 DEF Abs
  <2> HIDE DEF b
  <2>2. /\ g \in Int /\ (b * (-x) <= n => -x <= g)
        /\ -Abs(n) <= g /\ g <= Abs(n)
    <3> DEFINE y == -x
    <3>1. y \in Int
      OBVIOUS
    <3> HIDE DEF y
    <3>2. n \div b \in Int /\ (b * y <= n => y <= n \div b) /\ -Abs(n) <= n \div b /\ n \div b <= Abs(n)
      BY <2>0, <3>1, FloorIs
    <3> QED BY <3>2 DEF y
  <2>3. /\ f \in Int /\ (b * x <= -n => x <= f)
        /\ -Abs(n) <= f /\ f <= Abs(n)
    <3> DEFINE m == -n
    <3>1. m \in Int /\ Abs(m) = Abs(n)
      BY <1>1
    <3> HIDE DEF m
    <3>2. m \div b \in Int /\ (b * x <= m => x <= m \div b) /\ -Abs(m) <= m \div b /\ m \div b <= Abs(m)
      BY <2>0, <3>1, FloorIs
    <3>3. m \div b \in Int /\ (b * x <= m => x <= m \div b) /\ -Abs(n) <= m \div b /\ m \div b <= Abs(n)
      BY <3>1, <3>2
    <3> QED BY <3>3 DEF m
  <2> HIDE DEF f, g, s
  <2>4. /\ (s <= n => -g <= x) /\ (n <= s => x <= f)
        /\ -g \in Int /\ -Abs(n) <= -g /\ -g <= Abs(n)
    BY <2>0, <2>2, <2>3
  <2> QED BY <1>3, <2>1, <2>3, <2>4 DEF s
<1> QED BY <1>2, <1>3

(* The quotient of C, and that it is the factor when the division is       *)
(* exact.                                                                  *)
LEMMA QuotientIs ==
  ASSUME NEW n \in Int, NEW a \in Int, a # 0
  PROVE  /\ Quotient(n, a) \in Int
         /\ -Abs(n) <= Quotient(n, a) /\ Quotient(n, a) <= Abs(n)
         /\ Divides(a, n) => n = a * Quotient(n, a)
<1> DEFINE m == Abs(n)   b == Abs(a)   f == m \div b
<1>1. m \in Int /\ b \in Int /\ b > 0 /\ 0 <= m /\ Abs(m) = m /\ (n = m \/ n = -m) /\ (a = b \/ a = -b)
      /\ (n < 0 <=> n # m) /\ (a < 0 <=> a = -b)
  BY DEF Abs
<1>2. Quotient(n, a) = IF (n < 0) = (a < 0) THEN f ELSE -f
  BY DEF Quotient
<1>3. f \in Int /\ -m <= f /\ f <= m
  <2> HIDE DEF m, b
  <2>1. m \div b \in Int /\ -Abs(m) <= m \div b /\ m \div b <= Abs(m)
    BY <1>1, FloorIs
  <2> QED BY <2>1, <1>1
<1>4. ASSUME Divides(a, n) PROVE m = b * f
  <2>1. n % b = 0
    BY <1>4 DEF Divides
  <2> DEFINE k == n \div b
  <2> HIDE DEF m, b
  <2>2. k \in Int /\ n = b * k + (n % b)
    BY <1>1, DivisionIs
  <2> HIDE DEF k
  <2>3. n = b * k /\ b * (-k) = -(b * k)
    BY <2>1, <2>2, <1>1
  <2>4. \E j \in Int : m = b * j
    <3>1. CASE n = m
      BY <2>2, <2>3, <3>1
    <3>2. CASE n = -m
      <4>1. -k \in Int /\ m = b * (-k)
        BY <2>2, <2>3, <3>2, <1>1
      <4> QED BY <4>1
    <3> QED BY <3>1, <3>2, <1>1
  <2>5. PICK j \in Int : m = b * j
    BY <2>4
  <2>6. j <= f
    <3>1. b * j <= m
      BY <2>5, <1>1
    <3> QED BY <3>1, <1>1, FloorIs
  <2>7. b * j <= b * f
    BY <2>6, <1>1, <1>3, Scales
  <2>8. m = b * (m \div b) + (m % b) /\ 0 <= m % b /\ m % b \in Int
    BY <1>1, DivisionIs
  <2>9. b * f \in Int /\ b * f <= m
    BY <2>8, <1>1, <1>3
  <2> QED BY <2>5, <2>7, <2>9, <1>1
<1> HIDE DEF f, m, b
<1>5. ASSUME Divides(a, n) PROVE n = a * Quotient(n, a)
  <2>1. m = b * f /\ b * (-f) = -(b * f) /\ (-b) * f = -(b * f) /\ (-b) * (-f) = b * f
    BY <1>4, <1>5, <1>1, <1>3
  <2>2. CASE (n < 0) = (a < 0)
    <3>1. Quotient(n, a) = f
      BY <1>2, <2>2
    <3> QED BY <3>1, <2>1, <2>2, <1>1
  <2>3. CASE ~((n < 0) = (a < 0))
    <3>1. Quotient(n, a) = -f
      BY <1>2, <2>3
    <3> QED BY <3>1, <2>1, <2>3, <1>1
  <2> QED BY <2>2, <2>3
<1>6. Quotient(n, a) \in Int /\ -m <= Quotient(n, a) /\ Quotient(n, a) <= m
  BY <1>1, <1>2, <1>3
<1> QED BY <1>5, <1>6 DEF m

(* Bounding one variable by what the others leave it keeps the points of   *)
(* the relation, for every relation but the disequality.                   *)
LEMMA LinBoundsKeeps ==
  ASSUME NEW R \in Ranges, NEW P, NEW d \in Good(R, P), NEW c, LinShape(c), LinFits(R, c),
         c.rel \in Rels \ {"ne"}, \A p \in P : Holds(c.rel, Sum(p, c), c.rhs), NEW k \in DOMAIN c.var
  PROVE  LinBounds(d, c, k) \in Good(R, P)
<1> DEFINE v == c.var[k]
           a == c.coef[k]
           D == DOMAIN c.var
           O == Others(c, k)
           L == Total(LeastOf(d, c), O)
           M == Total(MostOf(d, c), O)
           most == (IF c.rel = "lt" THEN c.rhs - 1 ELSE c.rhs) - L
           least == (IF c.rel = "gt" THEN c.rhs + 1 ELSE c.rhs) - M
           above == c.rel \notin {"ge", "gt"}
           below == c.rel \notin {"le", "lt"}
           lo == IF a > 0 /\ below THEN Wrap(ceild(least, a))
                 ELSE IF a < 0 /\ above THEN Wrap(ceild(most, a)) ELSE cp_dmin(d, v)
           hi == IF a > 0 /\ above THEN Wrap(floord(most, a))
                 ELSE IF a < 0 /\ below THEN Wrap(floord(least, a)) ELSE cp_dmax(d, v)
<1>0. /\ d \in Boxes(R) /\ \A p \in P : Fits(p, d)
      /\ IsFiniteSet(D) /\ O \in SUBSET D /\ O = D \ {k} /\ v \in Vars /\ v \in Terms /\ a \in Int /\ c.rhs \in Int
  BY PlacesFinite DEF Good, Others, LinShape, Terms
<1>1. LinBounds(d, c, k) = IF a = 0 \/ cp_fixed(d, v) THEN d ELSE cp_intersect(d, v, lo, hi)
  <2>1. /\ MapThenSumSet(LAMBDA i : Least(d, c, i), O) = L
        /\ MapThenSumSet(LAMBDA i : Most(d, c, i), O) = M
    <3>1. O \in SUBSET DOMAIN c.var /\ IsFiniteSet(DOMAIN c.var)
      BY <1>0
    <3> HIDE DEF O
    <3> QED BY <3>1, SumsAre
  <2> QED BY <2>1 DEF LinBounds
<1>2. ASSUME NEW p \in P, a # 0 PROVE lo <= p[v] /\ p[v] <= hi
  <2> DEFINE x == p[v]
             S == Total(Part(p, c), O)
             s == Sum(p, c)
             h == c.rhs
  <2>1. x \in Int /\ Part(p, c)[k] = a * x
    BY <1>0, PartWithin
  <2>2. s = a * x + S /\ S \in Int /\ s \in Int
    <3>1. \A i \in D : Part(p, c)[i] \in Int
      BY <1>0, PartWithin
    <3>2. Total(Part(p, c), D) = Part(p, c)[k] + Total(Part(p, c), O)
      BY <1>0, <3>1, TotalTakesOut
    <3>3. IsFiniteSet(O)
      BY <1>0, FS_Subset
    <3>4. S \in Int /\ Total(Part(p, c), D) \in Int
      BY <1>0, <3>1, <3>3, TotalInt
    <3> QED BY <3>2, <3>4, <2>1 DEF Sum
  <2>3. L <= S /\ S <= M
    <3>1. IsFiniteSet(O)
      BY <1>0, FS_Subset
    <3>2. \A i \in O : /\ LeastOf(d, c)[i] \in Int /\ Part(p, c)[i] \in Int /\ MostOf(d, c)[i] \in Int
                       /\ LeastOf(d, c)[i] <= Part(p, c)[i] /\ Part(p, c)[i] <= MostOf(d, c)[i]
      BY <1>0, PartWithin
    <3> QED BY <3>1, <3>2, TotalGrows
  <2>4. PICK W \in Int : /\ W + Abs(h) + 1 <= MaxWord
                         /\ L \in Int /\ M \in Int /\ -W <= L /\ L <= W /\ -W <= M /\ M <= W
    BY <1>0, SumsFit
  <2>5. Holds(c.rel, s, h)
    OBVIOUS
  <2> HIDE DEF L, M, S, s, h
  <2>6. h \in Int
    BY <1>0 DEF h
  <2>7. /\ most = (IF c.rel = "lt" THEN h - 1 ELSE h) - L
        /\ least = (IF c.rel = "gt" THEN h + 1 ELSE h) - M
    BY DEF h
  <2>8. /\ most \in Int /\ least \in Int /\ Abs(most) <= MaxWord /\ Abs(least) <= MaxWord
        /\ Abs(most) \in Int /\ Abs(least) \in Int
    <3>1. Abs(h) \in Int /\ -Abs(h) <= h /\ h <= Abs(h)
      BY <2>6 DEF Abs
    <3>2. MaxWord \in Int
      BY LimitsAssumption
    <3>3. most = h - L \/ most = h - 1 - L
      BY <2>6, <2>7, <2>4
    <3>4. least = h - M \/ least = h + 1 - M
      BY <2>6, <2>7, <2>4
    <3> HIDE DEF most, least
    <3>5. most \in Int /\ -MaxWord <= most /\ most <= MaxWord
      BY <2>4, <2>6, <3>1, <3>2, <3>3
    <3>6. least \in Int /\ -MaxWord <= least /\ least <= MaxWord
      BY <2>4, <2>6, <3>1, <3>2, <3>4
    <3> QED BY <3>5, <3>6, <3>2 DEF Abs
  <2>9. /\ above => a * x <= most
        /\ below => least <= a * x
    <3> DEFINE q == a * x
    <3>1. q \in Int
      BY <1>0, <2>1
    <3>2. /\ c.rel = "eq" => s = h
          /\ c.rel = "le" => s <= h
          /\ c.rel = "lt" => s < h
          /\ c.rel = "ge" => s >= h
          /\ c.rel = "gt" => s > h
      BY <2>5 DEF Holds
    <3>3. s = q + S
      BY <2>2
    <3> HIDE DEF q
    <3>4. above => q <= most
      BY <2>2, <2>3, <2>4, <2>6, <2>7, <3>1, <3>2, <3>3 DEF Rels
    <3>5. below => least <= q
      BY <2>2, <2>3, <2>4, <2>6, <2>7, <3>1, <3>2, <3>3 DEF Rels
    <3> QED BY <3>4, <3>5 DEF q
  <2> HIDE DEF most, least, above, below, x, a
  <2>10. /\ a > 0 /\ above => x <= floord(most, a)
         /\ a < 0 /\ above => ceild(most, a) <= x
         /\ Wrap(floord(most, a)) = floord(most, a) /\ Wrap(ceild(most, a)) = ceild(most, a)
    <3>1. /\ floord(most, a) \in Int /\ -Abs(most) <= floord(most, a) /\ floord(most, a) <= Abs(most)
          /\ ceild(most, a) \in Int /\ -Abs(most) <= ceild(most, a) /\ ceild(most, a) <= Abs(most)
          /\ a > 0 /\ a * x <= most => x <= floord(most, a)
          /\ a < 0 /\ a * x <= most => ceild(most, a) <= x
      BY <1>0, <1>2, <2>1, <2>8, BoundsAre DEF x
    <3>2. /\ -MaxWord <= floord(most, a) /\ floord(most, a) <= MaxWord
          /\ -MaxWord <= ceild(most, a) /\ ceild(most, a) <= MaxWord
      BY <3>1, <2>8, LimitsAssumption
    <3>3. Wrap(floord(most, a)) = floord(most, a) /\ Wrap(ceild(most, a)) = ceild(most, a)
      BY <3>1, <3>2, WordsAre
    <3> QED BY <3>1, <3>3, <2>9
  <2>11. /\ a > 0 /\ below => ceild(least, a) <= x
         /\ a < 0 /\ below => x <= floord(least, a)
         /\ Wrap(floord(least, a)) = floord(least, a) /\ Wrap(ceild(least, a)) = ceild(least, a)
    <3>1. /\ floord(least, a) \in Int /\ -Abs(least) <= floord(least, a) /\ floord(least, a) <= Abs(least)
          /\ ceild(least, a) \in Int /\ -Abs(least) <= ceild(least, a) /\ ceild(least, a) <= Abs(least)
          /\ a > 0 /\ least <= a * x => ceild(least, a) <= x
          /\ a < 0 /\ least <= a * x => x <= floord(least, a)
      BY <1>0, <1>2, <2>1, <2>8, BoundsAre DEF x
    <3>2. /\ -MaxWord <= floord(least, a) /\ floord(least, a) <= MaxWord
          /\ -MaxWord <= ceild(least, a) /\ ceild(least, a) <= MaxWord
      BY <3>1, <2>8, LimitsAssumption
    <3>3. Wrap(floord(least, a)) = floord(least, a) /\ Wrap(ceild(least, a)) = ceild(least, a)
      BY <3>1, <3>2, WordsAre
    <3> QED BY <3>1, <3>3, <2>9
  <2>12. cp_dmin(d, v) <= x /\ x <= cp_dmax(d, v)
    <3>1. Val(p, v) = p[v]
      BY <1>0 DEF Val, isc
    <3> QED BY <1>0, <3>1, TermFacts DEF x
  <2> QED BY <2>10, <2>11, <2>12 DEF x
<1>3. ASSUME a # 0 PROVE cp_intersect(d, v, lo, hi) \in Good(R, P)
  <2>1. \A p \in P : lo <= Val(p, v) /\ Val(p, v) <= hi
    BY <1>0, <1>2, <1>3 DEF Val, isc
  <2> HIDE DEF lo, hi
  <2> QED BY <1>0, <2>1, IntersectKeeps
<1> QED BY <1>1, <1>3

(* The sum over the fixed variables, and the whole sum when all but one of *)
(* them are fixed.                                                         *)
LEMMA FixedSumIs ==
  ASSUME NEW R \in Ranges, NEW d \in Boxes(R), NEW p, Fits(p, d), NEW c, LinShape(c)
  PROVE  /\ FixedSum(d, c) \in Int /\ Sum(p, c) \in Int
         /\ FreeTerms(d, c) = {} => Sum(p, c) = FixedSum(d, c)
         /\ \A k : FreeTerms(d, c) = {k} => Sum(p, c) = c.coef[k] * p[c.var[k]] + FixedSum(d, c)
<1> DEFINE D == DOMAIN c.var
           F == {i \in D : cp_fixed(d, c.var[i])}
           f == Part(p, c)
<1>1. IsFiniteSet(D) /\ F \in SUBSET D
  BY PlacesFinite DEF LinShape
<1>2. ASSUME NEW i \in D
      PROVE  /\ f[i] \in Int /\ c.coef[i] \in Int
             /\ i \in F => LeastOf(d, c)[i] = f[i]
             /\ i \notin F /\ i \notin FreeTerms(d, c) => f[i] = 0
  BY PartWithin DEF FreeTerms
<1>3. FixedSum(d, c) = Total(LeastOf(d, c), F)
  BY <1>1, SumsAre DEF FixedSum
<1>4. Sum(p, c) = Total(f, D) /\ IsFiniteSet(F)
  BY <1>1, FS_Subset DEF Sum
<1>5. \A k : FreeTerms(d, c) = {k} => k \in D /\ k \notin F /\ f[k] = c.coef[k] * p[c.var[k]]
  BY DEF FreeTerms, Part
<1> HIDE DEF F, f
<1>6. FixedSum(d, c) = Total(f, F)
  <2>1. \A i \in F : LeastOf(d, c)[i] = f[i]
    BY <1>1, <1>2
  <2> QED BY <1>3, <1>4, <2>1, TotalAgrees
<1>7. FixedSum(d, c) \in Int /\ Sum(p, c) \in Int
  BY <1>1, <1>2, <1>4, <1>6, TotalInt
<1>8. ASSUME FreeTerms(d, c) = {} PROVE Sum(p, c) = FixedSum(d, c)
  <2>1. \A i \in D \ F : f[i] = 0
    BY <1>2, <1>8
  <2> QED BY <1>1, <1>2, <1>4, <1>6, <2>1, TotalSkipsZeros
<1>9. ASSUME NEW k, FreeTerms(d, c) = {k} PROVE Sum(p, c) = c.coef[k] * p[c.var[k]] + FixedSum(d, c)
  <2> DEFINE E == D \ {k}
  <2>1. k \in D /\ k \notin F /\ f[k] = c.coef[k] * p[c.var[k]]
    BY <1>5, <1>9
  <2>2. F \in SUBSET E /\ IsFiniteSet(E)
    BY <2>1, <1>1, FS_Subset
  <2>3. \A i \in E \ F : f[i] = 0
    BY <1>2, <1>9
  <2>4. Total(f, E) = Total(f, F)
    <3>1. \A i \in E : f[i] \in Int
      BY <1>2
    <3> HIDE DEF E
    <3> QED BY <2>2, <2>3, <3>1, TotalSkipsZeros
  <2>5. Total(f, D) = f[k] + Total(f, E)
    BY <1>1, <1>2, <2>1, TotalTakesOut
  <2> QED BY <1>4, <1>6, <2>1, <2>4, <2>5
<1> QED BY <1>7, <1>8, <1>9

(* Under LinFits what a disequality leaves for its last variable is a      *)
(* word.                                                                   *)
LEMMA FixedSumFits ==
  ASSUME NEW R \in Ranges, NEW d \in Boxes(R), NEW p, Fits(p, d), NEW c, LinShape(c), LinFits(R, c)
  PROVE  Abs(c.rhs - FixedSum(d, c)) <= MaxWord
<1> DEFINE F == {i \in DOMAIN c.var : cp_fixed(d, c.var[i])}   T == FixedSum(d, c)   h == c.rhs
<1>1. F \in SUBSET DOMAIN c.var /\ IsFiniteSet(DOMAIN c.var) /\ h \in Int
  BY PlacesFinite DEF LinShape
<1>2. T = Total(LeastOf(d, c), F)
  BY <1>1, SumsAre DEF FixedSum
<1> HIDE DEF F, T
<1>3. PICK W \in Int : W + Abs(h) + 1 <= MaxWord /\ T \in Int /\ -W <= T /\ T <= W
  <2>1. PICK W \in Int : /\ W + Abs(c.rhs) + 1 <= MaxWord
                         /\ Total(LeastOf(d, c), F) \in Int
                         /\ -W <= Total(LeastOf(d, c), F) /\ Total(LeastOf(d, c), F) <= W
    BY <1>1, SumsFit
  <2> QED BY <2>1, <1>2
<1> HIDE DEF h
<1>4. Abs(h) \in Int /\ -Abs(h) <= h /\ h <= Abs(h)
  BY <1>1 DEF Abs
<1>5. MaxWord \in Int
  BY LimitsAssumption
<1>6. h - T \in Int /\ -MaxWord <= h - T /\ h - T <= MaxWord
  BY <1>1, <1>3, <1>4, <1>5
<1>7. Abs(h - T) <= MaxWord
  BY <1>5, <1>6 DEF Abs
<1> QED BY <1>7 DEF h, T

(* A disequality with one free variable takes from it the only value that  *)
(* makes the two sides equal, and no other.                                *)
LEMMA LinDisequalityKeeps ==
  ASSUME NEW R \in Ranges, NEW P, NEW d \in Good(R, P), NEW c, LinShape(c), LinFits(R, c),
         \A p \in P : Sum(p, c) # c.rhs
  PROVE  LinDisequality(d, c) \in Good(R, P)
<1> DEFINE k == CHOOSE i \in FreeTerms(d, c) : TRUE
           a == c.coef[k]
           v == c.var[k]
           need == c.rhs - FixedSum(d, c)
<1>0. d \in Boxes(R) /\ \A p \in P : Fits(p, d)
  BY DEF Good
<1>1. LinDisequality(d, c) = IF Cardinality(FreeTerms(d, c)) # 1 THEN d
                             ELSE IF Divides(a, need) THEN cp_remove_val(d, v, Wrap(Quotient(need, a))) ELSE d
  BY DEF LinDisequality
<1>2. ASSUME Cardinality(FreeTerms(d, c)) = 1, Divides(a, need)
      PROVE  cp_remove_val(d, v, Wrap(Quotient(need, a))) \in Good(R, P)
  <2>1. FreeTerms(d, c) = {k}
    <3>1. IsFiniteSet(FreeTerms(d, c))
      BY PlacesFinite, FS_Subset DEF LinShape, FreeTerms
    <3>2. \E x : FreeTerms(d, c) = {x}
      BY <3>1, <1>2, FS_Singleton
    <3> QED BY <3>2
  <2> HIDE DEF k
  <2>2. k \in DOMAIN c.var /\ a # 0 /\ a \in Int /\ v \in Vars /\ c.rhs \in Int
    BY <2>1, PlacesFinite DEF FreeTerms, LinShape
  <2>3. ASSUME NEW p \in P PROVE p[v] # Wrap(Quotient(need, a))
    <3> DEFINE x == p[v]   h == c.rhs   T == FixedSum(d, c)   q == Quotient(need, a)
    <3>1. x \in Int
      BY <1>0, <2>2, PartWithin
    <3>2. T \in Int /\ h # a * x + T
      BY <1>0, <2>1, FixedSumIs
    <3>3. need \in Int /\ need = h - T /\ Abs(need) <= MaxWord /\ Abs(need) \in Int
      BY <1>0, <2>2, <3>2, FixedSumFits DEF Abs
    <3> HIDE DEF need, x, h, T
    <3>4. q \in Int /\ -Abs(need) <= q /\ q <= Abs(need) /\ need = a * q
      BY <1>2, <2>2, <3>3, QuotientIs
    <3> HIDE DEF a, q
    <3>5. MaxWord \in Int
      BY LimitsAssumption
    <3>6. Wrap(q) = q
      <4>1. -MaxWord <= q /\ q <= MaxWord
        BY <3>3, <3>4, <3>5
      <4> QED BY <4>1, <3>4, WordsAre
    <3>7. x # q
      <4>1. h \in Int
        BY <2>2 DEF h
      <4> QED BY <4>1, <3>2, <3>3, <3>4
    <3> QED BY <3>6, <3>7 DEF x, q
  <2> HIDE DEF v, a, need
  <2> QED BY <2>2, <2>3, RemoveKeeps
<1> HIDE DEF k
<1> QED BY <1>1, <1>2

(* cp_prop_lin keeps the points of its relation.                           *)
LEMMA LinKeeps ==
  ASSUME NEW R \in Ranges, NEW P, NEW d \in Good(R, P), NEW c, LinShape(c), LinFits(R, c),
         c.rel \in Rels, \A p \in P : Holds(c.rel, Sum(p, c), c.rhs)
  PROVE  cp_prop_lin(d, c) \in Good(R, P)
<1> DEFINE D == DOMAIN c.var
           U == Good(R, P)
           op(e, k) == IF Failed(e) THEN e ELSE LinBounds(e, c, k)
           ins == [k \in D |-> k]
           Solves(h) == h = [s \in SUBSET D |-> IF s = {} THEN d
                                               ELSE op(h[s \ {Max(s)}], ins[Max(s)])]
<1>0. Places(D) /\ d \in Boxes(R) /\ \A p \in P : Fits(p, d)
  BY PlacesFinite DEF LinShape, Good
<1>1. ASSUME FreeTerms(d, c) = {} PROVE (IF Holds(c.rel, FixedSum(d, c), c.rhs) THEN d ELSE Dead) \in Good(R, P)
  <2>1. ASSUME NEW p \in P PROVE Holds(c.rel, FixedSum(d, c), c.rhs)
    <3>1. Sum(p, c) = FixedSum(d, c)
      BY <1>0, <1>1, FixedSumIs
    <3>2. Holds(c.rel, Sum(p, c), c.rhs)
      OBVIOUS
    <3> QED BY <3>1, <3>2
  <2> QED BY <2>1, DeadKeeps
<1>2. ASSUME c.rel = "ne" PROVE LinDisequality(d, c) \in Good(R, P)
  <2>1. \A p \in P : Sum(p, c) # c.rhs
    BY <1>2 DEF Holds
  <2> QED BY <2>1, LinDisequalityKeeps
<1>3. ASSUME c.rel # "ne"
      PROVE  FoldLeft(LAMBDA e, k : IF Failed(e) THEN e ELSE LinBounds(e, c, k), d, ins) \in Good(R, P)
  <2>0. c.rel \in Rels \ {"ne"}
    BY <1>3
  <2>1. FoldLeft(LAMBDA e, k : IF Failed(e) THEN e ELSE LinBounds(e, c, k), d, ins) = (CHOOSE h : Solves(h))[D]
    BY DEF FoldLeft, MapThenFoldSet
  <2>2. ASSUME NEW i \in D, NEW e \in U PROVE op(e, ins[i]) \in U
    BY <2>0, LinBoundsKeeps
  <2> HIDE DEF op, U, ins
  <2>3. \E h : Solves(h)
    <3> DEFINE G == [k \in D \X U |-> op(k[2], ins[k[1]])]
    <3>1. G \in [D \X U -> U] /\ \A i \in D, e \in U : G[<<i, e>>] = op(e, ins[i])
      BY <2>2
    <3>2. d \in U
      BY DEF U
    <3> HIDE DEF G
    <3>3. PICK h \in [SUBSET D -> U] : FoldsLast(h, D, d, G)
      <4> HIDE DEF D
      <4>1. G \in [D \X U -> U] /\ Places(D)
        BY <3>1, <1>0
      <4> QED BY <4>1, <3>2, FoldExists
    <3>4. \A s \in SUBSET D : s # {} => Max(s) \in D
      BY <1>0, LastIs
    <3>5. \A s \in SUBSET D : h[s] = IF s = {} THEN d ELSE op(h[s \ {Max(s)}], ins[Max(s)])
      BY <3>1, <3>3, <3>4 DEF FoldsLast
    <3> QED BY <3>5
  <2>4. Solves(CHOOSE h : Solves(h))
    BY <2>3
  <2> DEFINE f == CHOOSE h : Solves(h)
  <2> HIDE DEF f
  <2>5. /\ f[{}] = d
        /\ \A s \in SUBSET D : s # {} => f[s] = op(f[s \ {Max(s)}], ins[Max(s)])
    BY <2>4 DEF f
  <2>6. StaysIn(f, D, U)
    <3>1. ASSUME NEW s \in SUBSET D, s # {}, f[s \ {Max(s)}] \in U PROVE f[s] \in U
      <4>1. Max(s) \in D
        BY <1>0, <3>1, LastIs
      <4>2. f[s] = op(f[s \ {Max(s)}], ins[Max(s)])
        BY <2>5, <3>1
      <4> QED BY <4>1, <4>2, <3>1, <2>2
    <3> QED BY <3>1 DEF StaysIn
  <2>7. f[D] \in U
    BY <1>0, <2>5, <2>6, FoldIn DEF U
  <2> QED BY <2>1, <2>7 DEF f, U
<1> QED BY <1>1, <1>2, <1>3 DEF cp_prop_lin

(* The negation of a relation is its complement.                           *)
LEMMA NegationIs ==
  ASSUME NEW rel \in Rels, NEW x \in Int, NEW y \in Int
  PROVE  /\ Negation(rel) \in Rels
         /\ Holds(Negation(rel), x, y) <=> ~Holds(rel, x, y)
<1>1. /\ Negation("eq") = "ne" /\ Negation("ne") = "eq" /\ Negation("le") = "gt"
      /\ Negation("gt") = "le" /\ Negation("ge") = "lt" /\ Negation("lt") = "ge"
  BY DEF Negation
<1>2. /\ Holds("eq", x, y) <=> x = y
      /\ Holds("ne", x, y) <=> x # y
  BY DEF Holds
<1>3. Holds("le", x, y) <=> x <= y
  BY DEF Holds
<1>4. Holds("ge", x, y) <=> x >= y
  BY DEF Holds
<1>5. Holds("lt", x, y) <=> x < y
  BY DEF Holds
<1>6. Holds("gt", x, y) <=> x > y
  BY DEF Holds
<1>7. /\ Holds("gt", x, y) <=> ~Holds("le", x, y)
      /\ Holds("lt", x, y) <=> ~Holds("ge", x, y)
  BY <1>3, <1>4, <1>5, <1>6
<1> QED BY <1>1, <1>2, <1>7 DEF Rels

Reifs == [kind : {"reif"}, r : Terms, var : Seq(Vars), coef : Seq(Int), rel : Rels, rhs : Int]

(* cp_prop_reif keeps the points whose r says whether the relation holds.  *)
LEMMA ReifKeeps ==
  ASSUME NEW R \in Ranges, NEW P, NEW d \in Good(R, P), NEW c \in Reifs, LinShape(c), LinFits(R, c),
         \A p \in P : Val(p, c.r) = IF Holds(c.rel, Sum(p, c), c.rhs) THEN 1 ELSE 0
  PROVE  cp_prop_reif(d, c) \in Good(R, P)
<1> DEFINE n == [c EXCEPT !.rel = Negation(c.rel)]
<1>0. d \in Boxes(R) /\ (\A p \in P : Fits(p, d)) /\ c.r \in Terms /\ c.rel \in Rels
  BY DEF Good, Reifs
<1>1. /\ n.var = c.var /\ n.coef = c.coef /\ n.rhs = c.rhs /\ n.rel = Negation(c.rel)
      /\ \A p : Sum(p, n) = Sum(p, c)
  <2>1. n.var = c.var /\ n.coef = c.coef /\ n.rhs = c.rhs /\ n.rel = Negation(c.rel)
    BY DEF Reifs
  <2> HIDE DEF n
  <2> QED BY <2>1 DEF Sum, Part
<1> HIDE DEF n
<1>2. LinShape(n) /\ LinFits(R, n) /\ n.rel \in Rels
  <2>1. c.rhs \in Int
    BY DEF LinShape
  <2>2. n.rel \in Rels
    BY <1>0, <1>1, NegationIs
  <2> QED BY <1>1, <2>2 DEF LinShape, LinFits, Weights
<1>3. ASSUME NEW p \in P PROVE Holds(n.rel, Sum(p, n), n.rhs) <=> ~Holds(c.rel, Sum(p, c), c.rhs)
  <2>1. Sum(p, c) \in Int /\ c.rhs \in Int
    BY <1>0, FixedSumIs DEF LinShape
  <2> QED BY <2>1, <1>0, <1>1, NegationIs
<1>4. CASE ~isc(c.r) /\ cp_fixed(d, c.r) /\ Values(d, c.r) = {1}
  <2>1. ASSUME NEW p \in P PROVE Holds(c.rel, Sum(p, c), c.rhs)
    <3>1. Val(p, c.r) = 1
      BY <1>0, <1>4, TermFacts
    <3> QED BY <3>1
  <2>2. cp_prop_lin(d, c) \in Good(R, P)
    BY <2>1, <1>0, LinKeeps
  <2> QED BY <1>4, <2>2 DEF cp_prop_reif
<1>5. CASE ~isc(c.r) /\ cp_fixed(d, c.r) /\ Values(d, c.r) # {1}
  <2>1. ASSUME NEW p \in P PROVE Holds(n.rel, Sum(p, n), n.rhs)
    <3>1. Val(p, c.r) # 1
      BY <1>0, <1>5, TermFacts
    <3> QED BY <3>1, <1>3
  <2>2. cp_prop_lin(d, n) \in Good(R, P)
    BY <2>1, <1>2, LinKeeps
  <2>3. cp_prop_reif(d, c) = cp_prop_lin(d, n)
    BY <1>5 DEF cp_prop_reif, n
  <2> QED BY <2>2, <2>3
<1>6. CASE ~isc(c.r) /\ ~cp_fixed(d, c.r) /\ \A i \in DOMAIN c.var : cp_fixed(d, c.var[i])
  <2> DEFINE b == IF Holds(c.rel, FixedSum(d, c), c.rhs) THEN 1 ELSE 0
  <2>1. cp_prop_reif(d, c) = cp_assign(d, c.r, b)
    BY <1>6 DEF cp_prop_reif
  <2>2. c.r \in Vars /\ b \in {0, 1}
    BY <1>6 DEF isc
  <2>3. b \in R[c.r]
    BY <2>2 DEF Ranges
  <2>4. ASSUME NEW p \in P PROVE p[c.r] = b
    <3>1. FreeTerms(d, c) = {}
      BY <1>6 DEF FreeTerms
    <3>2. Sum(p, c) = FixedSum(d, c)
      BY <1>0, <3>1, FixedSumIs
    <3>3. Val(p, c.r) = p[c.r]
      BY <2>2 DEF Val, isc
    <3> QED BY <3>2, <3>3
  <2> HIDE DEF b
  <2>5. cp_assign(d, c.r, b) \in Good(R, P)
    BY <2>2, <2>3, <2>4, AssignKeeps
  <2> QED BY <2>1, <2>5
<1>7. CASE isc(c.r) \/ (~cp_fixed(d, c.r) /\ ~\A i \in DOMAIN c.var : cp_fixed(d, c.var[i]))
  BY <1>7 DEF cp_prop_reif
<1> QED BY <1>4, <1>5, <1>6, <1>7

----------------------------------------------------------------------------
(* All different: the crash that a lost list may end in is the only other  *)
(* outcome.                                                                *)

(* What all_different may leave, and what it says of a point.              *)
Kept(R, P) == Good(R, P) \cup {Crashed}
Apart(p, c) == \A i, j \in DOMAIN c.term : i # j => Val(p, c.term[i]) # Val(p, c.term[j])

(* The domains of a crash hold every point or have failed, so a run of     *)
(* propagators never goes on from one.                                     *)
LEMMA CrashIsFinal ==
  ASSUME NEW R \in Ranges, NEW P
  PROVE  Crashed \in Good(R, P) \/ Failed(Crashed)
<1>1. CASE Vars = {}
  BY <1>1, CrashedIsBox DEF Good, Fits
<1>2. CASE Vars # {}
  BY <1>2 DEF Failed, Crashed, Domain
<1> QED BY <1>1, <1>2

(* Removing the value of a fixed term from the others keeps the points     *)
(* that are apart.                                                         *)
LEMMA RemoveElsewhereKeeps ==
  ASSUME NEW R \in Ranges, NEW P, NEW d \in Good(R, P), NEW c, c.term \in Seq(Terms),
         \A p \in P : Apart(p, c), NEW q \in DOMAIN c.term, cp_fixed(d, c.term[q])
  PROVE  RemoveElsewhere(d, c, q) \in Good(R, P)
<1> DEFINE D == DOMAIN c.term
           U == Good(R, P)
           x == cp_dmin(d, c.term[q])
           op(e, j) == IF Failed(e) \/ j = q \/ isc(c.term[j]) THEN e
                       ELSE cp_remove_val(e, c.term[j], x)
           ins == [j \in D |-> j]
           Solves(h) == h = [s \in SUBSET D |-> IF s = {} THEN d
                                               ELSE op(h[s \ {Max(s)}], ins[Max(s)])]
<1>0. Places(D) /\ \A i \in D : c.term[i] \in Terms
  BY PlacesFinite
<1>1. RemoveElsewhere(d, c, q) = (CHOOSE h : Solves(h))[D]
  BY DEF FoldLeft, MapThenFoldSet, RemoveElsewhere
<1>2. ASSUME NEW i \in D, NEW e \in U PROVE op(e, ins[i]) \in U
  <2>1. ASSUME ~isc(c.term[i]), i # q, NEW p \in P PROVE p[c.term[i]] # x
    <3>1. x = Val(p, c.term[q])
      <4>1. c.term[q] \in Terms /\ d \in Boxes(R) /\ Fits(p, d)
        BY <1>0 DEF Good
      <4> QED BY <4>1, TermFacts
    <3>2. Val(p, c.term[i]) # Val(p, c.term[q])
      BY <2>1 DEF Apart
    <3> QED BY <3>1, <3>2, <2>1 DEF Val
  <2> HIDE DEF x
  <2>2. ASSUME ~isc(c.term[i]), i # q PROVE cp_remove_val(e, c.term[i], x) \in Good(R, P)
    <3>1. c.term[i] \in Vars
      BY <2>2 DEF isc
    <3> QED BY <3>1, <2>1, <2>2, RemoveKeeps
  <2> QED BY <2>2
<1> HIDE DEF op, U, ins
<1>3. \E h : Solves(h)
  <2> DEFINE G == [k \in D \X U |-> op(k[2], ins[k[1]])]
  <2>1. G \in [D \X U -> U] /\ \A i \in D, e \in U : G[<<i, e>>] = op(e, ins[i])
    BY <1>2
  <2>2. d \in U
    BY DEF U
  <2> HIDE DEF G
  <2>3. PICK h \in [SUBSET D -> U] : FoldsLast(h, D, d, G)
    <3> HIDE DEF D
    <3>1. G \in [D \X U -> U] /\ Places(D)
      BY <2>1, <1>0
    <3> QED BY <3>1, <2>2, FoldExists
  <2>4. \A s \in SUBSET D : s # {} => Max(s) \in D
    BY <1>0, LastIs
  <2>5. \A s \in SUBSET D : h[s] = IF s = {} THEN d ELSE op(h[s \ {Max(s)}], ins[Max(s)])
    BY <2>1, <2>3, <2>4 DEF FoldsLast
  <2> QED BY <2>5
<1>4. Solves(CHOOSE h : Solves(h))
  BY <1>3
<1> DEFINE f == CHOOSE h : Solves(h)
<1> HIDE DEF f
<1>5. /\ f[{}] = d
      /\ \A s \in SUBSET D : s # {} => f[s] = op(f[s \ {Max(s)}], ins[Max(s)])
  BY <1>4 DEF f
<1>6. StaysIn(f, D, U)
  <2>1. ASSUME NEW s \in SUBSET D, s # {}, f[s \ {Max(s)}] \in U PROVE f[s] \in U
    <3>1. Max(s) \in D
      BY <1>0, <2>1, LastIs
    <3>2. f[s] = op(f[s \ {Max(s)}], ins[Max(s)])
      BY <1>5, <2>1
    <3> QED BY <3>1, <3>2, <2>1, <1>2
  <2> QED BY <2>1 DEF StaysIn
<1>7. f[D] \in U
  BY <1>0, <1>5, <1>6, FoldIn DEF U
<1> QED BY <1>1, <1>7 DEF f, U

(* So does the pass over all fixed terms.                                  *)
LEMMA SingletonsKeeps ==
  ASSUME NEW R \in Ranges, NEW P, NEW d \in Good(R, P), NEW c, c.term \in Seq(Terms),
         \A p \in P : Apart(p, c)
  PROVE  Singletons(d, c) \in Kept(R, P)
<1> DEFINE D == DOMAIN c.term
           U == Kept(R, P)
           op(e, i) == IF Failed(e) \/ ~cp_fixed(e, c.term[i]) THEN e
                       ELSE IF Unreadable(e, c.term[i]) THEN Crashed
                       ELSE RemoveElsewhere(e, c, i)
           ins == [i \in D |-> i]
           Solves(h) == h = [s \in SUBSET D |-> IF s = {} THEN d
                                               ELSE op(h[s \ {Max(s)}], ins[Max(s)])]
<1>0. Places(D) /\ \A i \in D : c.term[i] \in Terms
  BY PlacesFinite
<1>1. Singletons(d, c) = (CHOOSE h : Solves(h))[D]
  BY DEF FoldLeft, MapThenFoldSet, Singletons
<1>2. ASSUME NEW i \in D, NEW e \in U PROVE op(e, ins[i]) \in U
  <2>1. ASSUME e \in Good(R, P), cp_fixed(e, c.term[i]) PROVE RemoveElsewhere(e, c, i) \in Good(R, P)
    BY <2>1, RemoveElsewhereKeeps
  <2>2. e \in Good(R, P) \/ Failed(e)
    BY CrashIsFinal DEF Kept
  <2> QED BY <2>1, <2>2 DEF Kept
<1> HIDE DEF op, U, ins
<1>3. \E h : Solves(h)
  <2> DEFINE G == [k \in D \X U |-> op(k[2], ins[k[1]])]
  <2>1. G \in [D \X U -> U] /\ \A i \in D, e \in U : G[<<i, e>>] = op(e, ins[i])
    BY <1>2
  <2>2. d \in U
    BY DEF U, Kept
  <2> HIDE DEF G
  <2>3. PICK h \in [SUBSET D -> U] : FoldsLast(h, D, d, G)
    <3> HIDE DEF D
    <3>1. G \in [D \X U -> U] /\ Places(D)
      BY <2>1, <1>0
    <3> QED BY <3>1, <2>2, FoldExists
  <2>4. \A s \in SUBSET D : s # {} => Max(s) \in D
    BY <1>0, LastIs
  <2>5. \A s \in SUBSET D : h[s] = IF s = {} THEN d ELSE op(h[s \ {Max(s)}], ins[Max(s)])
    BY <2>1, <2>3, <2>4 DEF FoldsLast
  <2> QED BY <2>5
<1>4. Solves(CHOOSE h : Solves(h))
  BY <1>3
<1> DEFINE f == CHOOSE h : Solves(h)
<1> HIDE DEF f
<1>5. /\ f[{}] = d
      /\ \A s \in SUBSET D : s # {} => f[s] = op(f[s \ {Max(s)}], ins[Max(s)])
  BY <1>4 DEF f
<1>6. StaysIn(f, D, U)
  <2>1. ASSUME NEW s \in SUBSET D, s # {}, f[s \ {Max(s)}] \in U PROVE f[s] \in U
    <3>1. Max(s) \in D
      BY <1>0, <2>1, LastIs
    <3>2. f[s] = op(f[s \ {Max(s)}], ins[Max(s)])
      BY <1>5, <2>1
    <3> QED BY <3>1, <3>2, <2>1, <1>2
  <2> QED BY <2>1 DEF StaysIn
<1>7. f[D] \in U
  <2>1. d \in U
    BY DEF U, Kept
  <2> QED BY <1>0, <1>5, <1>6, <2>1, FoldIn
<1> QED BY <1>1, <1>7 DEF f, U

(* A point that is apart is a matching, and the value it gives to a term   *)
(* is supported by it: the pruning of Hall sets keeps it.                  *)
LEMMA MatchingKept ==
  ASSUME NEW R \in Ranges, NEW d \in Boxes(R), NEW p, Fits(p, d), NEW c, c.term \in Seq(Terms), Apart(p, c)
  PROVE  /\ Matches(Options(d, c))
         /\ \A i \in MatchedTerms(d, c) : Supported(d, c, i, p[c.term[i]])
<1> DEFINE M == MatchedTerms(d, c)
           o == Options(d, c)
           f == [i \in M |-> Val(p, c.term[i])]
<1>1. ASSUME NEW i \in M
      PROVE  /\ i \in DOMAIN c.term /\ c.term[i] \in Vars
             /\ f[i] = p[c.term[i]] /\ f[i] = Val(p, c.term[i]) /\ f[i] \in o[i]
  <2>1. i \in DOMAIN c.term /\ c.term[i] \in Vars
    BY DEF MatchedTerms, Listed, isc
  <2>2. o[i] = d[c.term[i]].vals
    BY DEF Options
  <2>3. p[c.term[i]] \in d[c.term[i]].vals
    BY <2>1 DEF Fits
  <2> QED BY <2>1, <2>2, <2>3 DEF Val, isc
<1>2. \A i, j \in M : i # j => f[i] # f[j]
  BY <1>1 DEF Apart
<1>3. DOMAIN o = M /\ DOMAIN f = M /\ f = [i \in M |-> f[i]]
  BY DEF Options
<1>4. ASSUME NEW g, DOMAIN g = M, \A i \in M : f[i] \in g[i] PROVE Matches(g)
  <2>1. f \in [DOMAIN g -> UNION {g[i] : i \in DOMAIN g}]
    <3>1. \A i \in M : f[i] \in UNION {g[j] : j \in DOMAIN g}
      BY <1>4
    <3> HIDE DEF f, M
    <3> QED BY <3>1, <1>3, <1>4
  <2> HIDE DEF f, M
  <2> QED BY <2>1, <1>2, <1>4 DEF Matches
<1>5. Matches(o)
  <2> HIDE DEF f, o, M
  <2> QED BY <1>1, <1>3, <1>4
<1>6. ASSUME NEW i \in M PROVE Supported(d, c, i, p[c.term[i]])
  <2> DEFINE g == [o EXCEPT ![i] = {p[c.term[i]]}]
  <2>1. DOMAIN g = M
    BY <1>3
  <2>2. \A j \in M : f[j] \in g[j]
    <3> HIDE DEF f, o, M
    <3> QED BY <1>1, <1>3
  <2>3. Matches(g)
    <3> HIDE DEF f, g, M
    <3> QED BY <2>1, <2>2, <1>4
  <2> QED BY <2>3 DEF Supported
<1> QED BY <1>5, <1>6

(* Pruning by the matchings keeps the points that are apart.               *)
LEMMA PruneKeeps ==
  ASSUME NEW R \in Ranges, NEW P, NEW d \in Good(R, P), NEW c, c.term \in Seq(Terms),
         \A p \in P : Apart(p, c)
  PROVE  Prune(d, c) \in Good(R, P)
<1> DEFINE Left(v) == {x \in d[v].vals : \A i \in MatchedTerms(d, c) : c.term[i] = v => Supported(d, c, i, x)}
           e == [v \in Vars |-> Domain(d[v].listed, Left(v))]
<1>0. d \in Boxes(R) /\ \A p \in P : Fits(p, d)
  BY DEF Good
<1>1. ~Matches(Options(d, c)) => Dead \in Good(R, P)
  <2>1. \A p \in P : Matches(Options(d, c))
    BY <1>0, MatchingKept
  <2> QED BY <2>1, DeadKeeps
<1>2. [v \in Vars |-> [d[v] EXCEPT !.vals = Left(v)]] = e
  <2>1. \A v \in Vars : [d[v] EXCEPT !.vals = Left(v)] = Domain(d[v].listed, Left(v))
    <3> TAKE v \in Vars
    <3>1. d[v] = [listed |-> d[v].listed, vals |-> d[v].vals]
      BY <1>0, BoxVals DEF Domain
    <3> HIDE DEF Left
    <3> QED BY <3>1 DEF Domain
  <2> HIDE DEF Left
  <2> QED BY <2>1
<1>3. e \in Good(R, P)
  <2>1. \A v \in Vars : e[v] = Domain(d[v].listed, Left(v)) /\ e[v].vals = Left(v)
    BY DEF Domain
  <2>2. \A v \in Vars : d[v].listed \in BOOLEAN /\ Left(v) \subseteq R[v] /\ Left(v) \subseteq Int
    BY <1>0, BoxVals
  <2>3. ASSUME NEW p \in P, NEW v \in Vars PROVE p[v] \in Left(v)
    <3>1. p[v] \in d[v].vals
      BY <1>0 DEF Fits
    <3>2. \A i \in MatchedTerms(d, c) : Supported(d, c, i, p[c.term[i]])
      BY <1>0, MatchingKept
    <3> QED BY <3>1, <3>2
  <2> HIDE DEF Left
  <2>4. e \in Boxes(R)
    <3>1. e \in [Vars -> [listed : BOOLEAN, vals : SUBSET Int]]
      BY <2>2 DEF Domain
    <3> HIDE DEF e
    <3> QED BY <3>1, <2>1, <2>2 DEF Boxes
  <2> HIDE DEF e
  <2> QED BY <2>1, <2>3, <2>4 DEF Good, Fits
<1> QED BY <1>1, <1>2, <1>3 DEF Prune

(* cp_prop_alldiff keeps the points that are apart or ends in the crash.   *)
LEMMA AllDiffKeeps ==
  ASSUME NEW R \in Ranges, NEW P, NEW d \in Good(R, P), NEW c, c.term \in Seq(Terms),
         \A p \in P : Apart(p, c)
  PROVE  cp_prop_alldiff(d, c) \in Kept(R, P)
<1> DEFINE D == DOMAIN c.term
           U == Kept(R, P)
           b == Singletons(d, c)
           op(e, t) == PruneRound(e, c)
           ins == c.term
           Solves(h) == h = [s \in SUBSET D |-> IF s = {} THEN b
                                               ELSE op(h[s \ {Max(s)}], ins[Max(s)])]
<1>0. Places(D) /\ \A i \in D : c.term[i] \in Terms
  BY PlacesFinite
<1>9. b \in U
  BY SingletonsKeeps
<1>1. cp_prop_alldiff(d, c) = (CHOOSE h : Solves(h))[D]
  BY DEF FoldLeft, MapThenFoldSet, cp_prop_alldiff
<1>2. ASSUME NEW i \in D, NEW e \in U PROVE op(e, ins[i]) \in U
  <2>1. ASSUME e \in Good(R, P) PROVE PruneRound(e, c) \in U
    <3>1. Prune(e, c) \in Good(R, P)
      BY <2>1, PruneKeeps
    <3>2. Singletons(Prune(e, c), c) \in Kept(R, P)
      BY <3>1, SingletonsKeeps
    <3> QED BY <3>2, <2>1 DEF PruneRound, Kept
  <2>2. ASSUME Failed(e) PROVE PruneRound(e, c) = e
    BY <2>2 DEF PruneRound, Prune
  <2>3. e \in Good(R, P) \/ Failed(e)
    BY CrashIsFinal DEF Kept
  <2> QED BY <2>1, <2>2, <2>3
<1> HIDE DEF op, U, ins
<1>3. \E h : Solves(h)
  <2> DEFINE G == [k \in D \X U |-> op(k[2], ins[k[1]])]
  <2>1. G \in [D \X U -> U] /\ \A i \in D, e \in U : G[<<i, e>>] = op(e, ins[i])
    BY <1>2
  <2>2. b \in U
    BY <1>9
  <2> HIDE DEF G
  <2>3. PICK h \in [SUBSET D -> U] : FoldsLast(h, D, b, G)
    <3> HIDE DEF D
    <3>1. G \in [D \X U -> U] /\ Places(D)
      BY <2>1, <1>0
    <3> QED BY <3>1, <2>2, FoldExists
  <2>4. \A s \in SUBSET D : s # {} => Max(s) \in D
    BY <1>0, LastIs
  <2>5. \A s \in SUBSET D : h[s] = IF s = {} THEN b ELSE op(h[s \ {Max(s)}], ins[Max(s)])
    BY <2>1, <2>3, <2>4 DEF FoldsLast
  <2> QED BY <2>5
<1>4. Solves(CHOOSE h : Solves(h))
  BY <1>3
<1> DEFINE f == CHOOSE h : Solves(h)
<1> HIDE DEF f
<1>5. /\ f[{}] = b
      /\ \A s \in SUBSET D : s # {} => f[s] = op(f[s \ {Max(s)}], ins[Max(s)])
  BY <1>4 DEF f
<1>6. StaysIn(f, D, U)
  <2>1. ASSUME NEW s \in SUBSET D, s # {}, f[s \ {Max(s)}] \in U PROVE f[s] \in U
    <3>1. Max(s) \in D
      BY <1>0, <2>1, LastIs
    <3>2. f[s] = op(f[s \ {Max(s)}], ins[Max(s)])
      BY <1>5, <2>1
    <3> QED BY <3>1, <3>2, <2>1, <1>2
  <2> QED BY <2>1 DEF StaysIn
<1>7. f[D] \in U
  BY <1>0, <1>5, <1>6, <1>9, FoldIn DEF U
<1> QED BY <1>1, <1>7 DEF f, U

----------------------------------------------------------------------------
(* The orbit constraints.                                                  *)

(* Every walk over a table comes to a cycle.                               *)
LEMMA RingIsThere ==
  ASSUME NEW next, Table(next), NEW s \in DOMAIN next
  PROVE  Ring(next, s) # {}
<1> DEFINE O == Orbit(next, s)
           B == {T \in SUBSET O : T # {} /\ ClosedIn(next, T)}
<1>1. ClosedIn(next, O) /\ s \in O /\ IsFiniteSet(O)
  BY OrbitIs, OrbitFinite
<1>2. PICK T \in B : \A U \in B : ~(U \subseteq T /\ U # T)
  <2>1. B \subseteq SUBSET O /\ B # {}
    BY <1>1
  <2> HIDE DEF B
  <2> QED BY <2>1, <1>1, SmallestBad
<1>3. PICK x \in T : TRUE
  BY <1>2
<1>4. next[x] \in T /\ next[x] \in DOMAIN next /\ x \in DOMAIN next /\ ClosedIn(next, T) /\ T \subseteq O
  BY <1>2, <1>3 DEF ClosedIn
<1>5. Orbit(next, next[x]) \subseteq T
  BY <1>4, OrbitWithin
<1>6. Orbit(next, next[x]) \in B
  <2>1. ClosedIn(next, Orbit(next, next[x])) /\ next[x] \in Orbit(next, next[x])
    BY <1>4, OrbitIs
  <2> QED BY <2>1, <1>4, <1>5
<1>7. x \in Orbit(next, next[x])
  BY <1>2, <1>3, <1>5, <1>6
<1>8. OnCycle(next, x)
  BY <1>4, <1>7, OnCycleIs
<1> QED BY <1>3, <1>4, <1>8 DEF Ring

(* The facts of a state are positive, the tail apart, and no larger than   *)
(* the table.                                                              *)
LEMMA FactsWithin ==
  ASSUME NEW next, Table(next), NEW s \in DOMAIN next
  PROVE  LET n == Cardinality(DOMAIN next)
             t == TrueFact(next, s)
         IN /\ n \in Nat /\ t.orb \in 1 .. n /\ t.cl \in 1 .. n /\ t.tr \in 0 .. n - 1
<1> DEFINE O == Orbit(next, s)   C == Ring(next, s)   n == Cardinality(DOMAIN next)
<1>1. IsFiniteSet(O) /\ O \subseteq DOMAIN next /\ s \in O /\ C # {} /\ C \subseteq O /\ IsFiniteSet(DOMAIN next)
  BY OrbitIs, OrbitFinite, RingIsThere DEF ClosedIn, Ring, Table
<1> HIDE DEF O, C
<1>2. /\ n \in Nat /\ Cardinality(O) \in Nat /\ Cardinality(O) <= n
      /\ IsFiniteSet(C) /\ Cardinality(C) \in Nat /\ Cardinality(C) <= Cardinality(O)
      /\ Cardinality(C) # 0
  <2>1. IsFiniteSet(C)
    BY <1>1, FS_Subset
  <2>2. Cardinality(O) <= n /\ Cardinality(C) <= Cardinality(O)
    BY <1>1, FS_Subset
  <2>3. Cardinality(C) # 0
    BY <1>1, <2>1, FS_EmptySet
  <2> QED BY <1>1, <2>1, <2>2, <2>3, FS_CardinalityType
<1>3. Cardinality(O \ C) = Cardinality(O) - Cardinality(C)
  <2>1. O \cap C = C
    BY <1>1
  <2>2. Cardinality(O \ C) = Cardinality(O) - Cardinality(O \cap C)
    BY <1>1, FS_Difference
  <2> QED BY <2>1, <2>2
<1>4. Cardinality(O) \in 1 .. n /\ Cardinality(C) \in 1 .. n /\ Cardinality(O \ C) \in 0 .. n - 1
  BY <1>2, <1>3
<1> QED BY <1>2, <1>4, TrueFactIs DEF O, C

(* What an orbit constraint says of the state of a point.                  *)
OrbitKinds == {"orbit", "transient", "cycle", "capped"}
TrueAnswer(c, s) ==
  LET t == TrueFact(problem.next, s)
  IN CASE c.kind = "orbit" -> t.orb
       [] c.kind = "transient" -> t.tr
       [] c.kind = "cycle" -> t.cl
       [] c.kind = "capped" -> Smaller(t.orb, c.cap)

(* The domains that an orbit constraint gives its terms first: states of   *)
(* the table, and answers that a table of this size can have.              *)
LEMMA OrbitDomainsKeeps ==
  ASSUME NEW R \in Ranges, NEW P, NEW d \in Good(R, P), NEW c, c.s \in Terms,
         c.kind \in OrbitKinds \cup {"oncycle"}, c.kind # "oncycle" => c.y \in Terms,
         c.kind = "capped" => c.cap \in Nat \ {0},
         Table(problem.next), DOMAIN problem.next = 0 .. Cardinality(DOMAIN problem.next) - 1,
         \A p \in P : Val(p, c.s) \in DOMAIN problem.next,
         c.kind # "oncycle" => \A p \in P : Val(p, c.y) = TrueAnswer(c, Val(p, c.s))
  PROVE  OrbitDomains(d, c) \in Good(R, P)
<1> DEFINE n == States
           start == cp_intersect(d, c.s, 0, n - 1)
<1>0. n \in Nat /\ DOMAIN problem.next = 0 .. n - 1
  BY FS_CardinalityType DEF States, Table
<1>1. start \in Good(R, P)
  <2>1. \A p \in P : 0 <= Val(p, c.s) /\ Val(p, c.s) <= n - 1
    BY <1>0
  <2> HIDE DEF n
  <2> QED BY <2>1, IntersectKeeps
<1>2. CASE c.kind = "oncycle"
  BY <1>1, <1>2 DEF OrbitDomains
<1>3. CASE c.kind # "oncycle"
  <2> DEFINE lo == FactRange(c)[1]   hi == FactRange(c)[2]
  <2>1. ASSUME NEW p \in P PROVE lo <= Val(p, c.y) /\ Val(p, c.y) <= hi
    <3> DEFINE t == TrueFact(problem.next, Val(p, c.s))
    <3>1. t.orb \in 1 .. n /\ t.cl \in 1 .. n /\ t.tr \in 0 .. n - 1
      BY FactsWithin DEF States
    <3>2. Val(p, c.y) = TrueAnswer(c, Val(p, c.s))
      BY <1>3
    <3> DEFINE y == Val(p, c.y)
    <3> HIDE DEF t, n, y
    <3>3. CASE c.kind = "orbit"
      <4>1. y = t.orb /\ lo = 1 /\ hi = n
        BY <3>2, <3>3 DEF TrueAnswer, FactRange, t, n, y
      <4> QED BY <4>1, <3>1, <1>0 DEF y
    <3>4. CASE c.kind = "transient"
      <4>1. y = t.tr /\ lo = 0 /\ hi = n - 1
        BY <3>2, <3>4 DEF TrueAnswer, FactRange, t, n, y
      <4> QED BY <4>1, <3>1, <1>0 DEF y
    <3>5. CASE c.kind = "cycle"
      <4>1. y = t.cl /\ lo = 1 /\ hi = n
        BY <3>2, <3>5 DEF TrueAnswer, FactRange, t, n, y
      <4> QED BY <4>1, <3>1, <1>0 DEF y
    <3>6. CASE c.kind = "capped"
      <4>1. y = Smaller(t.orb, c.cap) /\ lo = 1 /\ hi = Smaller(c.cap, n)
        BY <3>2, <3>6 DEF TrueAnswer, FactRange, t, n, y
      <4>2. c.cap \in Nat \ {0}
        BY <3>6
      <4> HIDE DEF lo, hi
      <4> QED BY <4>1, <4>2, <3>1, <1>0 DEF Smaller, y
    <3> QED BY <1>3, <3>3, <3>4, <3>5, <3>6 DEF OrbitKinds, y
  <2> HIDE DEF start, lo, hi
  <2>2. cp_intersect(start, c.y, lo, hi) \in Good(R, P)
    BY <1>1, <1>3, <2>1, IntersectKeeps
  <2> QED BY <1>3, <2>2 DEF OrbitDomains, start, lo, hi
<1> QED BY <1>2, <1>3

(* A memo that answers truthfully what the constraint c asks in the        *)
(* domains d.                                                              *)
Answers(memo, d, c) ==
  \A s \in Asked(d, c) \cap DOMAIN problem.next :
    s \in DOMAIN memo /\ memo[s] = TrueFact(problem.next, s)

(* The fact of the state of a point is among those the propagator asked    *)
(* for.                                                                    *)
LEMMA AskedIs ==
  ASSUME NEW R \in Ranges, NEW P, NEW d \in Good(R, P), NEW c, c.s \in Terms, NEW memo, Answers(memo, d, c),
         NEW p \in P, Val(p, c.s) \in DOMAIN problem.next, cp_fixed(d, c.s) \/ Listed(d, c.s)
  PROVE  memo[Val(p, c.s)] = TrueFact(problem.next, Val(p, c.s))
<1>1. d \in Boxes(R) /\ Fits(p, d)
  BY DEF Good
<1>2. ~Failed(d) /\ Val(p, c.s) \in Values(d, c.s)
  BY <1>1, FitsLives, TermFacts
<1> QED BY <1>2 DEF Answers, Asked

(* cp_prop_orbit_gen keeps the points whose y is the true answer for their *)
(* state, given a truthful memo.                                           *)
LEMMA OrbitKeeps ==
  ASSUME NEW R \in Ranges, NEW P, NEW d \in Good(R, P), NEW c, c.s \in Terms, c.y \in Terms,
         c.kind \in OrbitKinds, NEW memo, Answers(memo, d, c),
         \A p \in P : Val(p, c.s) \in DOMAIN problem.next,
         \A p \in P : Val(p, c.y) = TrueAnswer(c, Val(p, c.s))
  PROVE  cp_prop_orbit_gen(d, c, memo) \in Good(R, P)
<1> DEFINE fact(s) == fg_fact(memo, s, c.kind, c.cap)
           keep == {s \in Values(d, c.s) : fact(s) \in cp_dmin(d, c.y) .. cp_dmax(d, c.y)}
           attained == {fact(s) : s \in keep}
           e == cp_set_vals(d, c.s, keep)
<1>0. d \in Boxes(R) /\ \A p \in P : Fits(p, d)
  BY DEF Good
<1>1. ASSUME cp_fixed(d, c.s) \/ Listed(d, c.s), NEW p \in P PROVE fact(Val(p, c.s)) = Val(p, c.y)
  <2>1. memo[Val(p, c.s)] = TrueFact(problem.next, Val(p, c.s))
    BY <1>1, AskedIs
  <2>2. Val(p, c.y) = TrueAnswer(c, Val(p, c.s))
    OBVIOUS
  <2> QED BY <2>1, <2>2 DEF fg_fact, TrueAnswer, Smaller, OrbitKinds
<1>2. cp_prop_orbit_gen(d, c, memo) =
        IF Failed(d) THEN Dead
        ELSE IF cp_fixed(d, c.s) THEN cp_equate(d, c.y, fact(cp_dmin(d, c.s)))
        ELSE IF ~Listed(d, c.s) THEN d
        ELSE IF keep = {} THEN Dead
        ELSE cp_intersect(e, c.y, Min(attained), Max(attained))
  BY DEF cp_prop_orbit_gen
<1> HIDE DEF fact
<1>3. Failed(d) => Dead \in Good(R, P)
  BY <1>0, FitsLives, DeadKeeps
<1>4. ASSUME cp_fixed(d, c.s) PROVE cp_equate(d, c.y, fact(cp_dmin(d, c.s))) \in Good(R, P)
  <2>1. ASSUME NEW p \in P PROVE Val(p, c.y) = fact(cp_dmin(d, c.s))
    <3>1. cp_dmin(d, c.s) = Val(p, c.s)
      BY <1>0, <1>4, TermFacts
    <3> QED BY <3>1, <1>1, <1>4
  <2> QED BY <2>1, EquateKeeps
<1>5. ASSUME Listed(d, c.s), NEW p \in P
      PROVE  /\ Val(p, c.s) \in keep /\ Val(p, c.y) \in attained
             /\ Min(attained) <= Val(p, c.y) /\ Val(p, c.y) <= Max(attained)
  <2>1. /\ Val(p, c.y) \in Int /\ cp_dmin(d, c.y) <= Val(p, c.y) /\ Val(p, c.y) <= cp_dmax(d, c.y)
        /\ cp_dmin(d, c.y) \in Int /\ cp_dmax(d, c.y) \in Int /\ Val(p, c.s) \in Values(d, c.s)
    BY <1>0, TermFacts
  <2>2. fact(Val(p, c.s)) = Val(p, c.y)
    BY <1>1, <1>5
  <2>3. Val(p, c.s) \in keep /\ Val(p, c.y) \in attained
    BY <2>1, <2>2
  <2>4. attained \subseteq cp_dmin(d, c.y) .. cp_dmax(d, c.y)
    OBVIOUS
  <2>5. IsFiniteSet(attained) /\ attained \subseteq Int
    <3>1. IsFiniteSet(cp_dmin(d, c.y) .. cp_dmax(d, c.y))
      BY <2>1, FS_Interval
    <3> HIDE DEF attained
    <3>2. IsFiniteSet(attained)
      BY <2>4, <3>1, FS_Subset
    <3> QED BY <2>1, <2>4, <3>2
  <2> HIDE DEF attained, keep
  <2>6. attained # {}
    BY <2>3
  <2> QED BY <2>3, <2>5, <2>6, ExtremesAre
<1>6. Listed(d, c.s) /\ keep = {} => Dead \in Good(R, P)
  BY <1>5, DeadKeeps
<1>7. ASSUME Listed(d, c.s) PROVE cp_intersect(e, c.y, Min(attained), Max(attained)) \in Good(R, P)
  <2>1. c.s \in Vars
    BY <1>7 DEF Listed, isc
  <2>2. \A p \in P : p[c.s] \in keep
    BY <1>5, <1>7, <2>1 DEF Val, isc
  <2>3. \A p \in P : Min(attained) <= Val(p, c.y) /\ Val(p, c.y) <= Max(attained)
    BY <1>5, <1>7
  <2> HIDE DEF keep, attained
  <2>4. e \in Good(R, P)
    BY <2>1, <2>2, SetKeeps
  <2> HIDE DEF e
  <2> QED BY <2>3, <2>4, IntersectKeeps
<1> HIDE DEF keep, attained, e
<1> QED BY <1>2, <1>3, <1>4, <1>6, <1>7

(* cp_prop_oncycle keeps the points whose state is on a cycle.             *)
LEMMA OnCycleKeeps ==
  ASSUME NEW R \in Ranges, NEW P, NEW d \in Good(R, P), NEW c, c.s \in Terms, NEW memo, Answers(memo, d, c),
         \A p \in P : Val(p, c.s) \in DOMAIN problem.next /\ TrueFact(problem.next, Val(p, c.s)).tr = 0
  PROVE  cp_prop_oncycle(d, c, memo) \in Good(R, P)
<1> DEFINE keep == {s \in Values(d, c.s) : memo[s].tr = 0}
<1>0. d \in Boxes(R) /\ \A p \in P : Fits(p, d)
  BY DEF Good
<1>1. ASSUME cp_fixed(d, c.s) \/ Listed(d, c.s), NEW p \in P PROVE Val(p, c.s) \in keep
  <2>1. memo[Val(p, c.s)] = TrueFact(problem.next, Val(p, c.s))
    BY <1>1, AskedIs
  <2>2. Val(p, c.s) \in Values(d, c.s)
    BY <1>0, TermFacts
  <2> QED BY <2>1, <2>2
<1>2. Failed(d) => Dead \in Good(R, P)
  BY <1>0, FitsLives, DeadKeeps
<1>3. cp_fixed(d, c.s) /\ keep = {} => Dead \in Good(R, P)
  BY <1>1, DeadKeeps
<1>4. ASSUME Listed(d, c.s) PROVE cp_set_vals(d, c.s, keep) \in Good(R, P)
  <2>1. c.s \in Vars
    BY <1>4 DEF Listed, isc
  <2>2. \A p \in P : p[c.s] \in keep
    BY <1>1, <1>4, <2>1 DEF Val, isc
  <2> HIDE DEF keep
  <2> QED BY <2>1, <2>2, SetKeeps
<1> QED BY <1>2, <1>3, <1>4 DEF cp_prop_oncycle

----------------------------------------------------------------------------
(* Products.                                                               *)

(* A product divided by its factor.                                        *)
LEMMA ExactDivision ==
  ASSUME NEW a \in Int, a > 0, NEW x \in Int
  PROVE  (a * x) \div a = x /\ (a * x) % a = 0
<1> DEFINE n == a * x   q == n \div a   r == n % a   z == x - q
<1>1. n \in Int /\ q \in Int /\ r \in Int /\ n = a * q + r /\ 0 <= r /\ r < a
  <2>1. n \in Int
    OBVIOUS
  <2> HIDE DEF n
  <2> QED BY <2>1, DivisionIs
<1>2. a * x = a * q + a * z
  <2> HIDE DEF q
  <2>1. a * (q + z) = a * q + a * z /\ q + z = x
    BY <1>1
  <2> QED BY <2>1
<1>3. z \in Int /\ a * z = r
  <2>1. z \in Int /\ a * z \in Int /\ a * q \in Int
    BY <1>1
  <2> QED BY <2>1, <1>1, <1>2
<1> HIDE DEF q, r, z, n
<1>4. ~(z > 0)
  <2>1. z > 0 => a * 1 <= a * z
    BY <1>3, Scales
  <2>2. a * 1 = a
    OBVIOUS
  <2> QED BY <2>1, <2>2, <1>1, <1>3
<1>5. ~(z < 0)
  <2>1. z < 0 => a * z <= a * (-1)
    BY <1>3, Scales
  <2>2. a * (-1) = -a
    OBVIOUS
  <2> QED BY <2>1, <2>2, <1>1, <1>3
<1>6. z = 0
  BY <1>3, <1>4, <1>5
<1>7. a * z = 0
  BY <1>6
<1>8. q = x
  BY <1>1, <1>6 DEF z
<1> QED BY <1>3, <1>7, <1>8 DEF q, r, n

(* The same with the truncating division of C.                             *)
LEMMA QuotientOfProduct ==
  ASSUME NEW a \in Int, a > 0, NEW x \in Int
  PROVE  Divides(a, a * x) /\ Quotient(a * x, a) = x
<1> DEFINE n == a * x
<1>1. n \in Int /\ Abs(a) = a
  BY DEF Abs
<1>2. Divides(a, n)
  BY <1>1, ExactDivision DEF Divides
<1> DEFINE q == Quotient(n, a)
<1>3. q \in Int /\ n = a * q
  <2> HIDE DEF n
  <2> QED BY <1>1, <1>2, QuotientIs
<1> HIDE DEF q
<1>4. (a * q) \div a = q /\ (a * x) \div a = x
  BY <1>3, ExactDivision
<1>5. q = x
  BY <1>3, <1>4
<1> QED BY <1>2, <1>5 DEF q

(* The rounded quotients of a word by a positive number are words.         *)
LEMMA FloorBetween ==
  ASSUME NEW n \in MinWord .. MaxWord, NEW a \in Int, a > 0
  PROVE  /\ floord(n, a) \in MinWord .. MaxWord /\ Wrap(floord(n, a)) = floord(n, a)
         /\ ceild(n, a) \in MinWord .. MaxWord /\ Wrap(ceild(n, a)) = ceild(n, a)
<1> DEFINE f == n \div a   g == (-n) \div a
<1>0. MaxWord \in Nat /\ MinWord = -MaxWord - 1 /\ n \in Int /\ MinWord <= n /\ n <= MaxWord
  BY LimitsAssumption DEF MinWord
<1>1. floord(n, a) = f /\ ceild(n, a) = -g
  BY DEF floord, ceild
<1>2. /\ f \in Int /\ (a * 0 <= n => 0 <= f) /\ (a * n <= n => n <= f) /\ -Abs(n) <= f /\ f <= Abs(n)
  BY <1>0, FloorIs
<1>3. /\ g \in Int /\ (a * 0 <= -n => 0 <= g) /\ -Abs(-n) <= g /\ g <= Abs(-n)
  <2> DEFINE m == -n
  <2>1. m \in Int
    BY <1>0
  <2> HIDE DEF m
  <2>2. m \div a \in Int /\ (a * 0 <= m => 0 <= m \div a) /\ -Abs(m) <= m \div a /\ m \div a <= Abs(m)
    BY <2>1, FloorIs
  <2> QED BY <2>2 DEF m
<1> HIDE DEF f, g
<1>4. a * 0 = 0
  OBVIOUS
<1>5. CASE 0 <= n
  <2>1. Abs(n) = n /\ Abs(-n) = n
    BY <1>0, <1>5 DEF Abs
  <2>2. 0 <= f /\ f <= n
    BY <1>2, <1>4, <1>5, <2>1
  <2>3. -n <= g /\ g <= n
    BY <1>3, <2>1
  <2>4. f \in MinWord .. MaxWord /\ -g \in MinWord .. MaxWord
    BY <1>0, <1>2, <1>3, <2>2, <2>3
  <2> QED BY <2>4, <1>1, <1>2, <1>3, <1>0, WrapIs
<1>6. CASE ~(0 <= n)
  <2>1. Abs(n) = -n /\ Abs(-n) = -n
    BY <1>0, <1>6 DEF Abs
  <2>2. n <= f /\ f <= -n /\ f < 0 + 1
    <3>1. ~(f > 0)
      <4>1. a * f \in Int /\ a * f <= n
        <5>1. n = a * f + (n % a) /\ 0 <= n % a /\ n % a \in Int
          BY <1>0, DivisionIs DEF f
        <5> QED BY <5>1, <1>2
      <4>2. f > 0 => a * 0 <= a * f
        BY <1>2, Scales
      <4> QED BY <4>1, <4>2, <1>4, <1>6, <1>0
    <3> QED BY <3>1, <1>2, <2>1, <1>0
  <2>3. 0 <= g /\ g <= -n
    BY <1>0, <1>3, <1>4, <1>6, <2>1
  <2>4. f \in MinWord .. MaxWord /\ -g \in MinWord .. MaxWord
    BY <1>0, <1>2, <1>3, <2>2, <2>3
  <2> QED BY <2>4, <1>1, WrapIs
<1> QED BY <1>5, <1>6

(* The values that R leaves to a term.                                     *)
Reach(R, t) == IF isc(t) THEN {t} ELSE R[t]

(* The value of a term at a point, and its bounds, are among those R       *)
(* allows.                                                                 *)
LEMMA ReachIs ==
  ASSUME NEW R \in Ranges, NEW d \in Boxes(R), NEW t \in Terms, NEW p, Fits(p, d)
  PROVE  /\ Val(p, t) \in Reach(R, t)
         /\ cp_dmin(d, t) \in Reach(R, t) /\ cp_dmax(d, t) \in Reach(R, t)
<1>1. Values(d, t) \subseteq Reach(R, t)
  BY BoxVals DEF Values, Reach, isc
<1> QED BY <1>1, TermFacts

(* What keeps a product within what the code can count: factors that are   *)
(* not negative, products that are words, and divisor lists that fit the   *)
(* arrays of cp_divisors and of the Diophantine step.                      *)
TimesFits(R, r) ==
  /\ Reach(R, r.c) \subseteq MinWord .. MaxWord
  /\ \A x \in Reach(R, r.a), y \in Reach(R, r.b) :
       0 <= x /\ 0 <= y /\ x * y <= MaxWord /\ 4 * Cardinality(Small(x * y)) <= DIVISORS

(* cp_divisors lists every positive factor of a product, if the room it is *)
(* given holds all divisors.                                               *)
LEMMA DivisorsListed ==
  ASSUME NEW x \in Int, NEW y \in Int, 0 < x, 0 < y,
         NEW room \in Int, 4 * Cardinality(Small(x * y)) <= room
  PROVE  x \in cp_divisors(x * y, room)
<1> DEFINE n == x * y
           S == Small(n)
           k == IF x <= y THEN x ELSE y
           l == IF x <= y THEN y ELSE x
           Below == {j \in S : j < k}
<1>0. n \in Int /\ n > 0 /\ Abs(n) = n /\ Abs(x) = x /\ n = k * l /\ k \in Int /\ l \in Int /\ 0 < k /\ k <= l
  <2>1. n \in Int /\ n > 0
    <3>1. x * 1 <= x * y /\ x * 1 = x /\ x * y \in Int
      BY Scales
    <3> QED BY <3>1
  <2>2. n = k * l
    OBVIOUS
  <2>3. k \in Int /\ l \in Int /\ 0 < k /\ k <= l
    OBVIOUS
  <2> HIDE DEF n, k, l
  <2> QED BY <2>1, <2>2, <2>3 DEF Abs
<1>1. n \div x = y /\ n % x = 0 /\ n \div k = l /\ n % k = 0
  <2>1. n \div x = y /\ n % x = 0
    BY ExactDivision
  <2>2. (k * l) \div k = l /\ (k * l) % k = 0
    <3> HIDE DEF k, l, n
    <3> QED BY <1>0, ExactDivision
  <2> HIDE DEF k, l, n
  <2> QED BY <2>1, <2>2, <1>0
<1>2. k \in S
  <2>1. k * k <= k * l /\ k * 1 <= k * l /\ k * 1 = k
    <3> HIDE DEF k, l, n
    <3> QED BY <1>0, Scales
  <2>2. Abs(k) = k /\ k * k <= n /\ k <= n
    <3> HIDE DEF k, l, n
    <3> QED BY <1>0, <2>1 DEF Abs
  <2> HIDE DEF k, l, n
  <2> QED BY <1>0, <1>1, <2>2 DEF S, Small, Divides
<1>3. x \in {k, -k, Abs(n) \div k, -(Abs(n) \div k)}
  BY <1>0, <1>1
<1>4. /\ IsFiniteSet(S) /\ Cardinality(S) \in Nat /\ Cardinality(Below) \in Nat
      /\ Cardinality(Below) <= Cardinality(S) - 1
  <2>1. IsFiniteSet(1 .. n)
    BY <1>0, FS_Interval
  <2>2. S \subseteq 1 .. n
    <3> HIDE DEF n
    <3> QED BY <1>0 DEF S, Small
  <2>3. IsFiniteSet(S)
    BY <2>1, <2>2, FS_Subset
  <2>4. Below \subseteq S \ {k}
    OBVIOUS
  <2> HIDE DEF S, k, Below
  <2>5. Cardinality(S \ {k}) = Cardinality(S) - 1 /\ IsFiniteSet(S \ {k})
    BY <1>2, <2>3, FS_RemoveElement
  <2>6. IsFiniteSet(Below) /\ Cardinality(Below) <= Cardinality(S \ {k})
    BY <2>4, <2>5, FS_Subset
  <2> QED BY <2>3, <2>5, <2>6, FS_CardinalityType
<1>5. Smaller(Abs(x), Abs(n) \div Abs(x)) = k
  <2>1. Abs(n) \div Abs(x) = y
    BY <1>0, <1>1
  <2>2. Smaller(x, y) = k
    BY DEF Smaller
  <2> QED BY <2>1, <2>2, <1>0
<1>6. 4 * Cardinality(Below) + (IF Abs(x) = k THEN 0 ELSE 2) + (IF x > 0 THEN 1 ELSE 2) <= room
  <2> DEFINE c == Cardinality(Below)   s == Cardinality(S)
  <2>1. c \in Nat /\ s \in Nat /\ c <= s - 1 /\ 4 * s <= room
    BY <1>4 DEF n
  <2> HIDE DEF c, s, k
  <2>2. 4 * c + 2 + 2 <= room
    BY <2>1
  <2>3. (IF Abs(x) = k THEN 0 ELSE 2) \in {0, 2} /\ (IF x > 0 THEN 1 ELSE 2) \in {1, 2}
    OBVIOUS
  <2> QED BY <2>1, <2>2, <2>3 DEF c
<1> DEFINE listed == UNION {{i, -i, Abs(n) \div i, -(Abs(n) \div i)} : i \in Small(n)}
           Place(e) == LET i == Smaller(Abs(e), Abs(n) \div Abs(e))
                       IN 4 * Cardinality({j \in Small(n) : j < i})
                            + (IF Abs(e) = i THEN 0 ELSE 2) + (IF e > 0 THEN 1 ELSE 2)
<1>7. x \in listed
  <2> HIDE DEF n, k
  <2> QED BY <1>2, <1>3 DEF S
<1>8. Place(x) <= room
  BY <1>5, <1>6
<1>9. cp_divisors(n, room) = {e \in listed : Place(e) <= room}
  BY DEF cp_divisors
<1> HIDE DEF listed, Place
<1> QED BY <1>7, <1>8, <1>9

(* A product with a constant factor: bounds are multiplied one way and     *)
(* divided, rounded inwards, the other way.                                *)
LEMMA TimesByConstantKeeps ==
  ASSUME NEW R \in Ranges, NEW P, NEW d \in Good(R, P), NEW a \in Int, 0 <= a, NEW b \in Vars, NEW c \in Terms,
         Reach(R, c) \subseteq MinWord .. MaxWord,
         P # {} => \A y \in Reach(R, b) : 0 <= y /\ a * y <= MaxWord,
         \A p \in P : Val(p, c) = a * p[b]
  PROVE  TimesByConstant(d, a, b, c) \in Good(R, P)
<1> DEFINE S == {Quotient(z, a) : z \in {y \in d[c].vals : Divides(a, y)}}
           blo == Wrap(ceild(cp_dmin(d, c), a))
           bhi == Wrap(floord(cp_dmax(d, c), a))
           e == IF Listed(d, b) /\ Listed(d, c) THEN cp_set_vals(d, b, S) ELSE cp_intersect(d, b, blo, bhi)
           one == Wrap(a * cp_dmin(e, b))
           other == Wrap(a * cp_dmax(e, b))
<1>0. d \in Boxes(R) /\ (\A p \in P : Fits(p, d)) /\ b \in Terms /\ ~isc(b) /\ \A p : Val(p, b) = p[b]
  BY DEF Good, Terms, isc, Val
<1>1. CASE a = 0
  <2>1. ASSUME NEW p \in P PROVE Val(p, c) = 0
    <3>1. p[b] \in Int
      BY <1>0, TermFacts
    <3> QED BY <3>1, <1>1
  <2>2. cp_equate(d, c, 0) \in Good(R, P)
    BY <2>1, EquateKeeps
  <2> QED BY <1>1, <2>2 DEF TimesByConstant
<1>2. CASE a # 0
  <2>0. a > 0
    BY <1>2
  <2>1. ASSUME NEW p \in P
        PROVE  /\ p[b] \in Int /\ Val(p, c) \in Int
               /\ Divides(a, Val(p, c)) /\ Quotient(Val(p, c), a) = p[b]
    <3>1. p[b] \in Int /\ Val(p, c) \in Int /\ Val(p, c) = a * p[b]
      BY <1>0, TermFacts
    <3> QED BY <3>1, <2>0, QuotientOfProduct
  <2>2. ASSUME isc(c)
        PROVE  (IF Divides(a, c) THEN cp_equate(d, b, Quotient(c, a)) ELSE Dead) \in Good(R, P)
    <3>1. ASSUME NEW p \in P PROVE Divides(a, c) /\ Val(p, b) = Quotient(c, a)
      <4>1. Val(p, c) = c
        BY <2>2 DEF Val
      <4> QED BY <4>1, <2>1, <1>0
    <3>2. cp_equate(d, b, Quotient(c, a)) \in Good(R, P)
      BY <3>1, <1>0, EquateKeeps
    <3>3. ~Divides(a, c) => Dead \in Good(R, P)
      BY <3>1, DeadKeeps
    <3> QED BY <3>2, <3>3
  <2>3. ASSUME ~isc(c), Listed(d, c) PROVE cp_set_vals(d, b, S) \in Good(R, P)
    <3>1. ASSUME NEW p \in P PROVE p[b] \in S
      <4>1. Val(p, c) \in d[c].vals
        BY <1>0, <2>3, TermFacts DEF Values
      <4> QED BY <4>1, <2>1
    <3> HIDE DEF S
    <3> QED BY <3>1, SetKeeps
  <2>4. cp_intersect(d, b, blo, bhi) \in Good(R, P)
    <3>1. ASSUME NEW p \in P PROVE blo <= Val(p, b) /\ Val(p, b) <= bhi
      <4> DEFINE lo == cp_dmin(d, c)   hi == cp_dmax(d, c)   x == p[b]
      <4>1. lo \in MinWord .. MaxWord /\ hi \in MinWord .. MaxWord
        BY <1>0, ReachIs
      <4>2. lo \in Int /\ hi \in Int /\ lo <= a * x /\ a * x <= hi /\ x \in Int
        BY <1>0, <2>1, TermFacts
      <4> HIDE DEF lo, hi, x
      <4>3. Wrap(ceild(lo, a)) = ceild(lo, a) /\ Wrap(floord(hi, a)) = floord(hi, a)
        BY <4>1, <2>0, FloorBetween
      <4>4. ceild(lo, a) <= x /\ x <= floord(hi, a)
        BY <4>2, <2>0, BoundsAre
      <4> QED BY <4>3, <4>4, <1>0 DEF lo, hi, x
    <3> HIDE DEF blo, bhi
    <3> QED BY <3>1, <1>0, IntersectKeeps
  <2>5. ASSUME ~isc(c) PROVE e \in Good(R, P)
    <3> HIDE DEF S, blo, bhi
    <3> QED BY <2>3, <2>4, <2>5
  <2> HIDE DEF e
  <2>6. ASSUME ~isc(c) PROVE Failed(e) => Dead \in Good(R, P)
    BY <2>5, <2>6, FitsLives, DeadKeeps DEF Good
  <2>7. ASSUME ~isc(c) PROVE cp_intersect(e, c, one, other) \in Good(R, P)
    <3>1. ASSUME NEW p \in P PROVE one <= Val(p, c) /\ Val(p, c) <= other
      <4> DEFINE lo == cp_dmin(e, b)   hi == cp_dmax(e, b)   x == p[b]
      <4>0. e \in Boxes(R) /\ Fits(p, e)
        BY <2>5, <2>7 DEF Good
      <4>1. lo \in Reach(R, b) /\ hi \in Reach(R, b)
        BY <4>0, <1>0, ReachIs
      <4>2. lo \in Int /\ hi \in Int /\ lo <= x /\ x <= hi /\ x \in Int
        BY <4>0, <1>0, TermFacts
      <4>3. 0 <= lo /\ a * lo <= MaxWord /\ 0 <= hi /\ a * hi <= MaxWord
        BY <4>1
      <4>4. Val(p, c) = a * x
        OBVIOUS
      <4> HIDE DEF lo, hi, x
      <4>5. a * lo <= a * x /\ a * x <= a * hi /\ a * 0 <= a * lo /\ a * 0 <= a * hi /\ a * 0 = 0
            /\ a * lo \in Int /\ a * hi \in Int
        BY <4>2, <4>3, <2>0, Scales
      <4>6. Wrap(a * lo) = a * lo /\ Wrap(a * hi) = a * hi
        <5>1. MaxWord \in Nat
          BY LimitsAssumption
        <5> DEFINE u == a * lo   w == a * hi
        <5>2. u \in Int /\ w \in Int /\ 0 <= u /\ 0 <= w /\ u <= MaxWord /\ w <= MaxWord
          BY <4>3, <4>5
        <5> HIDE DEF u, w
        <5>3. -MaxWord <= u /\ -MaxWord <= w
          BY <5>1, <5>2
        <5>4. Wrap(u) = u /\ Wrap(w) = w
          BY <5>2, <5>3, WordsAre
        <5> QED BY <5>4 DEF u, w
      <4> QED BY <4>4, <4>5, <4>6 DEF lo, hi
    <3> HIDE DEF one, other
    <3> QED BY <2>5, <2>7, <3>1, IntersectKeeps
  <2>8. TimesByConstant(d, a, b, c) =
          IF isc(c) THEN IF Divides(a, c) THEN cp_equate(d, b, Quotient(c, a)) ELSE Dead
          ELSE IF Failed(e) THEN Dead
          ELSE cp_intersect(e, c, one, other)
    BY <1>2, <2>0 DEF TimesByConstant, e
  <2> HIDE DEF one, other
  <2> QED BY <2>2, <2>6, <2>7, <2>8
<1> QED BY <1>1, <1>2

(* A product of two intervals lies between the least and the greatest of   *)
(* the four products of their ends.                                        *)
LEMMA CornersAre ==
  ASSUME NEW al \in Int, NEW ah \in Int, NEW bl \in Int, NEW bh \in Int, NEW x \in Int, NEW y \in Int,
         al <= x, x <= ah, bl <= y, y <= bh
  PROVE  /\ \/ al * bl <= x * y \/ al * bh <= x * y \/ ah * bl <= x * y \/ ah * bh <= x * y
         /\ \/ x * y <= al * bl \/ x * y <= al * bh \/ x * y <= ah * bl \/ x * y <= ah * bh
<1>1. \A u, v, w \in Int : v <= w => /\ u * v <= u * w \/ u * w <= u * v
                                     /\ u > 0 => u * v <= u * w
                                     /\ ~(u > 0) => u * w <= u * v
  BY Scales
<1>2. /\ x * bl <= x * y \/ x * bh <= x * y
      /\ x * y <= x * bl \/ x * y <= x * bh
  BY <1>1
<1>3. /\ al * bl <= x * bl \/ ah * bl <= x * bl
      /\ x * bl <= al * bl \/ x * bl <= ah * bl
  <2>1. bl * al = al * bl /\ bl * x = x * bl /\ bl * ah = ah * bl
    OBVIOUS
  <2>2. /\ bl * al <= bl * x \/ bl * ah <= bl * x
        /\ bl * x <= bl * al \/ bl * x <= bl * ah
    BY <1>1
  <2> QED BY <2>1, <2>2
<1>4. /\ al * bh <= x * bh \/ ah * bh <= x * bh
      /\ x * bh <= al * bh \/ x * bh <= ah * bh
  <2>1. bh * al = al * bh /\ bh * x = x * bh /\ bh * ah = ah * bh
    OBVIOUS
  <2>2. /\ bh * al <= bh * x \/ bh * ah <= bh * x
        /\ bh * x <= bh * al \/ bh * x <= bh * ah
    BY <1>1
  <2> QED BY <2>1, <2>2
<1> DEFINE p1 == al * bl   p2 == al * bh   p3 == ah * bl   p4 == ah * bh
           q1 == x * bl   q2 == x * bh   q == x * y
<1>5. p1 \in Int /\ p2 \in Int /\ p3 \in Int /\ p4 \in Int /\ q1 \in Int /\ q2 \in Int /\ q \in Int
  OBVIOUS
<1>6. /\ q1 <= q \/ q2 <= q
      /\ q <= q1 \/ q <= q2
      /\ p1 <= q1 \/ p3 <= q1
      /\ q1 <= p1 \/ q1 <= p3
      /\ p2 <= q2 \/ p4 <= q2
      /\ q2 <= p2 \/ q2 <= p4
  BY <1>2, <1>3, <1>4
<1> HIDE DEF p1, p2, p3, p4, q1, q2, q
<1>7. /\ p1 <= q \/ p2 <= q \/ p3 <= q \/ p4 <= q
      /\ q <= p1 \/ q <= p2 \/ q <= p3 \/ q <= p4
  BY <1>5, <1>6
<1> QED BY <1>7 DEF p1, p2, p3, p4, q

(* A product of two variables: the bounds of c by the four corners.        *)
LEMMA TimesOfVariablesKeeps ==
  ASSUME NEW R \in Ranges, NEW P, NEW d \in Good(R, P), NEW a \in Terms, NEW b \in Terms, NEW c \in Terms,
         \A p \in P : Val(p, c) = Val(p, a) * Val(p, b)
  PROVE  TimesOfVariables(d, a, b, c) \in Good(R, P)
<1> DEFINE C == {x * y : x \in {cp_dmin(d, a), cp_dmax(d, a)}, y \in {cp_dmin(d, b), cp_dmax(d, b)}}
<1>1. ASSUME C \subseteq MinWord .. MaxWord, NEW p \in P
      PROVE  Min(C) <= Val(p, c) /\ Val(p, c) <= Max(C)
  <2>1. d \in Boxes(R) /\ Fits(p, d)
    BY DEF Good
  <2> DEFINE al == cp_dmin(d, a)   ah == cp_dmax(d, a)   bl == cp_dmin(d, b)   bh == cp_dmax(d, b)
             x == Val(p, a)   y == Val(p, b)
  <2>2. /\ al \in Int /\ ah \in Int /\ x \in Int /\ al <= x /\ x <= ah
        /\ bl \in Int /\ bh \in Int /\ y \in Int /\ bl <= y /\ y <= bh
    BY <2>1, TermFacts
  <2>3. al * bl \in C /\ al * bh \in C /\ ah * bl \in C /\ ah * bh \in C
    OBVIOUS
  <2>4. Val(p, c) = x * y
    OBVIOUS
  <2> HIDE DEF C, al, ah, bl, bh, x, y
  <2>5. IsFiniteSet(C) /\ C \subseteq Int /\ C # {}
    <3>1. MinWord \in Int /\ MaxWord \in Int
      BY LimitsAssumption DEF MinWord
    <3>2. IsFiniteSet(MinWord .. MaxWord)
      BY <3>1, FS_Interval
    <3>3. IsFiniteSet(C)
      BY <3>2, <1>1, FS_Subset
    <3> QED BY <3>1, <3>3, <1>1, <2>3
  <2>6. \A z \in C : Min(C) <= z /\ z <= Max(C) /\ z \in Int /\ Min(C) \in Int /\ Max(C) \in Int
    BY <2>5, ExtremesAre
  <2>7. /\ \/ al * bl <= x * y \/ al * bh <= x * y \/ ah * bl <= x * y \/ ah * bh <= x * y
        /\ \/ x * y <= al * bl \/ x * y <= al * bh \/ x * y <= ah * bl \/ x * y <= ah * bh
    BY <2>2, CornersAre
  <2>8. \E z \in C : z <= x * y
    BY <2>3, <2>7
  <2>9. \E z \in C : x * y <= z
    BY <2>3, <2>7
  <2> DEFINE q == x * y
  <2>10. q \in Int
    BY <2>2
  <2> HIDE DEF q
  <2>11. Min(C) <= q /\ q <= Max(C)
    BY <2>6, <2>8, <2>9, <2>10 DEF q
  <2> QED BY <2>4, <2>11 DEF q
<1> HIDE DEF C
<1>2. C \subseteq MinWord .. MaxWord => cp_intersect(d, c, Min(C), Max(C)) \in Good(R, P)
  BY <1>1, IntersectKeeps
<1> QED BY <1>2 DEF TimesOfVariables, C


(* A fixed term is its least value, and a term that is not fixed is a      *)
(* variable.                                                               *)
LEMMA FixedIs ==
  ASSUME NEW R \in Ranges, NEW d \in Boxes(R), NEW t \in Terms
  PROVE  /\ cp_fixed(d, t) => /\ Values(d, t) = {cp_dmin(d, t)}
                              /\ cp_dmin(d, t) \in Reach(R, t) /\ cp_dmin(d, t) \in Int
         /\ ~cp_fixed(d, t) => t \in Vars /\ ~isc(t)
<1>1. IsFiniteSet(Values(d, t)) /\ Values(d, t) \subseteq Int /\ Values(d, t) \subseteq Reach(R, t)
  <2>1. CASE isc(t)
    BY <2>1, FS_Singleton DEF Values, isc, Terms, Reach
  <2>2. CASE ~isc(t)
    BY <2>2, BoxVals DEF Values, isc, Reach
  <2> QED BY <2>1, <2>2
<1>2. ASSUME cp_fixed(d, t)
      PROVE  Values(d, t) = {cp_dmin(d, t)} /\ cp_dmin(d, t) \in Reach(R, t) /\ cp_dmin(d, t) \in Int
  <2>1. PICK x : Values(d, t) = {x}
    BY <1>1, <1>2, FS_Singleton DEF cp_fixed
  <2>2. cp_dmin(d, t) \in Values(d, t)
    BY <1>1, <2>1, ExtremesAre DEF cp_dmin
  <2> QED BY <2>1, <2>2, <1>1
<1>3. ~cp_fixed(d, t) => t \in Vars /\ ~isc(t)
  <2>1. isc(t) => cp_fixed(d, t)
    BY FS_Singleton DEF cp_fixed, Values
  <2> QED BY <2>1 DEF isc
<1> QED BY <1>2, <1>3

(* cp_prop_times keeps the points of a * b = c in each of its cases: both, *)
(* one or no factor fixed, the product fixed or not.                       *)
LEMMA TimesKeeps ==
  ASSUME NEW R \in Ranges, NEW P, NEW d \in Good(R, P), NEW r, r.a \in Terms, r.b \in Terms, r.c \in Terms,
         TimesFits(R, r),
         \A p \in P : Val(p, r.c) = Val(p, r.a) * Val(p, r.b)
  PROVE  cp_prop_times(d, r) \in Good(R, P)
<1> DEFINE av == cp_dmin(d, r.a)
           bv == cp_dmin(d, r.b)
           cv == cp_dmin(d, r.c)
           D == cp_divisors(cv, DIVISORS)
           Q == {q \in -Abs(cv) .. Abs(cv) : q * q = cv}
           Fixed(t) == cp_fixed(d, t)
<1>0. d \in Boxes(R) /\ \A p \in P : Fits(p, d)
  BY DEF Good
<1>1. /\ Reach(R, r.c) \subseteq MinWord .. MaxWord
      /\ \A x \in Reach(R, r.a), y \in Reach(R, r.b) :
           0 <= x /\ 0 <= y /\ x * y <= MaxWord /\ 4 * Cardinality(Small(x * y)) <= DIVISORS
  BY DEF TimesFits
<1>2. ASSUME NEW p \in P
      PROVE  /\ Val(p, r.a) \in Reach(R, r.a) /\ Val(p, r.a) \in Int
             /\ Val(p, r.b) \in Reach(R, r.b) /\ Val(p, r.b) \in Int
             /\ Val(p, r.c) \in Reach(R, r.c) /\ Val(p, r.c) \in Int
             /\ Fixed(r.a) => av = Val(p, r.a)
             /\ Fixed(r.b) => bv = Val(p, r.b)
             /\ Fixed(r.c) => cv = Val(p, r.c)
  <2>1. Fits(p, d)
    BY <1>0
  <2> QED BY <2>1, <1>0, TermFacts, ReachIs
<1>3. /\ Fixed(r.a) => av \in Reach(R, r.a) /\ av \in Int
      /\ Fixed(r.b) => bv \in Reach(R, r.b) /\ bv \in Int
      /\ ~Fixed(r.a) => r.a \in Vars /\ ~isc(r.a)
      /\ ~Fixed(r.b) => r.b \in Vars /\ ~isc(r.b)
  BY <1>0, FixedIs
<1>4. ASSUME Fixed(r.a), Fixed(r.b)
      PROVE  (IF av * bv \in MinWord .. MaxWord THEN cp_equate(d, r.c, av * bv) ELSE Dead) \in Good(R, P)
  <2>1. ASSUME NEW p \in P PROVE Val(p, r.c) = av * bv /\ av * bv \in MinWord .. MaxWord
    BY <1>1, <1>2, <1>4
  <2>2. cp_equate(d, r.c, av * bv) \in Good(R, P)
    <3> HIDE DEF av, bv
    <3> QED BY <2>1, EquateKeeps
  <2>3. av * bv \notin MinWord .. MaxWord => Dead \in Good(R, P)
    BY <2>1, DeadKeeps
  <2> HIDE DEF av, bv
  <2> QED BY <2>2, <2>3
<1>5. R \in [Vars -> SUBSET (MinWord .. MaxWord)] /\ \A v \in Vars : R[v] # {}
  BY DEF Ranges
<1>6. ASSUME Fixed(r.a), ~Fixed(r.b)
      PROVE  TimesByConstant(d, av, r.b, r.c) \in Good(R, P)
  <2>1. av \in Int /\ r.b \in Vars /\ Reach(R, r.b) # {}
    BY <1>3, <1>5, <1>6 DEF Reach
  <2>2. 0 <= av /\ \A y \in Reach(R, r.b) : 0 <= y /\ av * y <= MaxWord
    BY <1>1, <1>3, <1>6, <2>1
  <2>3. \A p \in P : Val(p, r.c) = av * p[r.b]
    BY <1>2, <1>6, <1>3 DEF Val
  <2> HIDE DEF av
  <2> QED BY <2>1, <2>2, <2>3, <1>1, TimesByConstantKeeps
<1>7. ASSUME ~Fixed(r.a), Fixed(r.b)
      PROVE  TimesByConstant(d, bv, r.a, r.c) \in Good(R, P)
  <2>1. bv \in Int /\ r.a \in Vars /\ Reach(R, r.a) # {} /\ Reach(R, r.a) \subseteq Int
    <3>1. MinWord \in Int /\ MaxWord \in Int
      BY LimitsAssumption DEF MinWord
    <3> QED BY <1>3, <1>5, <1>7, <3>1 DEF Reach
  <2>2. 0 <= bv /\ \A x \in Reach(R, r.a) : 0 <= x /\ x * bv <= MaxWord
    BY <1>1, <1>3, <1>7, <2>1
  <2>3. \A x \in Reach(R, r.a) : 0 <= x /\ bv * x <= MaxWord
    <3>1. \A x, y \in Int : x * y = y * x
      OBVIOUS
    <3> HIDE DEF bv
    <3> QED BY <2>1, <2>2, <3>1
  <2>4. ASSUME NEW p \in P PROVE Val(p, r.c) = bv * p[r.a]
    <3>1. Val(p, r.c) = p[r.a] * bv /\ p[r.a] \in Int
      BY <1>2, <1>7, <1>3 DEF Val
    <3> HIDE DEF bv
    <3> QED BY <3>1, <2>1
  <2> HIDE DEF bv
  <2> QED BY <2>1, <2>2, <2>3, <2>4, <1>1, TimesByConstantKeeps
<1>8. TimesOfVariables(d, r.a, r.b, r.c) \in Good(R, P)
  BY TimesOfVariablesKeeps
<1>9. ASSUME ~Fixed(r.a), ~Fixed(r.b), Fixed(r.c), cv # 0, NEW p \in P
      PROVE  /\ 0 < p[r.a] /\ 0 < p[r.b] /\ cv = p[r.a] * p[r.b] /\ p[r.a] \in Int /\ p[r.b] \in Int
             /\ 4 * Cardinality(Small(p[r.a] * p[r.b])) <= DIVISORS
  <2> DEFINE x == p[r.a]   y == p[r.b]
  <2>1. Val(p, r.a) = x /\ Val(p, r.b) = y
    BY <1>3, <1>9 DEF Val
  <2>2. cv = x * y /\ x \in Int /\ y \in Int /\ 0 <= x /\ 0 <= y /\ 4 * Cardinality(Small(x * y)) <= DIVISORS
    BY <1>1, <1>2, <1>9, <2>1
  <2> HIDE DEF x, y, cv
  <2>3. x # 0 /\ y # 0
    BY <2>2, <1>9
  <2> QED BY <2>2, <2>3 DEF x, y
<1>10. ASSUME ~Fixed(r.a), ~Fixed(r.b), Fixed(r.c), cv # 0, r.a = r.b
       PROVE  cp_set_vals(d, r.a, Q) \in Good(R, P)
  <2>1. ASSUME NEW p \in P PROVE p[r.a] \in Q
    <3> DEFINE x == p[r.a]
    <3>1. 0 < x /\ cv = x * x /\ x \in Int
      BY <1>9, <1>10
    <3> HIDE DEF x, cv
    <3>2. x * 1 <= x * x /\ x * 1 = x /\ x * x \in Int
      BY <3>1, Scales
    <3>3. x <= cv /\ cv \in Int /\ Abs(cv) = cv
      BY <3>1, <3>2 DEF Abs
    <3>4. x \in -Abs(cv) .. Abs(cv)
      BY <3>1, <3>3
    <3> QED BY <3>1, <3>4 DEF x
  <2> HIDE DEF Q
  <2> QED BY <2>1, <1>3, <1>10, SetKeeps
<1>11. ASSUME ~Fixed(r.a), ~Fixed(r.b), Fixed(r.c), cv # 0
       PROVE  cp_set_vals(cp_set_vals(d, r.a, D), r.b, D) \in Good(R, P)
  <2>1. ASSUME NEW p \in P PROVE p[r.a] \in D /\ p[r.b] \in D
    <3> DEFINE x == p[r.a]   y == p[r.b]
    <3>1. 0 < x /\ 0 < y /\ cv = x * y /\ x \in Int /\ y \in Int /\ 4 * Cardinality(Small(x * y)) <= DIVISORS
      BY <1>9, <1>11
    <3> HIDE DEF x, y, cv
    <3>2. x * y = y * x
      BY <3>1
    <3>3. x \in cp_divisors(x * y, DIVISORS) /\ y \in cp_divisors(y * x, DIVISORS)
      <4>1. DIVISORS \in Int
        BY LimitsAssumption
      <4>2. x \in cp_divisors(x * y, DIVISORS)
        BY <3>1, <4>1, DivisorsListed
      <4>3. 4 * Cardinality(Small(y * x)) <= DIVISORS
        BY <3>1, <3>2
      <4>4. y \in cp_divisors(y * x, DIVISORS)
        BY <3>1, <4>1, <4>3, DivisorsListed
      <4> QED BY <4>2, <4>4
    <3> QED BY <3>1, <3>2, <3>3 DEF x, y
  <2> HIDE DEF D
  <2>2. cp_set_vals(d, r.a, D) \in Good(R, P)
    BY <2>1, <1>3, <1>11, SetKeeps
  <2> QED BY <2>1, <2>2, <1>3, <1>11, SetKeeps
<1>12. cp_prop_times(d, r) =
         CASE Fixed(r.a) /\ Fixed(r.b) -> (IF av * bv \in MinWord .. MaxWord THEN cp_equate(d, r.c, av * bv) ELSE Dead)
           [] Fixed(r.a) /\ ~Fixed(r.b) -> TimesByConstant(d, av, r.b, r.c)
           [] ~Fixed(r.a) /\ Fixed(r.b) -> TimesByConstant(d, bv, r.a, r.c)
           [] ~Fixed(r.a) /\ ~Fixed(r.b) /\ ~Fixed(r.c) -> TimesOfVariables(d, r.a, r.b, r.c)
           [] ~Fixed(r.a) /\ ~Fixed(r.b) /\ Fixed(r.c) ->
                IF cv = 0 THEN d
                ELSE IF r.a = r.b THEN cp_set_vals(d, r.a, Q)
                ELSE cp_set_vals(cp_set_vals(d, r.a, D), r.b, D)
  BY DEF cp_prop_times
<1> HIDE DEF av, bv, cv, D, Q, Fixed
<1> QED BY <1>4, <1>6, <1>7, <1>8, <1>10, <1>11, <1>12

----------------------------------------------------------------------------
(* Powers.                                                                 *)

(* f are the powers of b up to n.                                          *)
Powers(f, b, n) == f = [i \in 0 .. n |-> IF i = 0 THEN 1 ELSE b * f[i - 1]]

(* The recursion of PowOf has a solution.                                  *)
LEMMA PowersExist ==
  ASSUME NEW b, NEW n \in Nat
  PROVE  \E f : Powers(f, b, n)
<1> DEFINE B == {m \in Nat : ~ \E f : Powers(f, b, m)}
<1> SUFFICES ASSUME B # {} PROVE FALSE
  OBVIOUS
<1>1. PICK m \in B : \A j \in B : m <= j
  <2>1. B \subseteq Nat /\ B # {}
    OBVIOUS
  <2> HIDE DEF B
  <2> QED BY <2>1, LeastNumber
<1>2. CASE m = 0
  <2> DEFINE f == [i \in 0 .. 0 |-> 1]
  <2>1. Powers(f, b, 0)
    <3>1. 0 .. 0 = {0}
      OBVIOUS
    <3> QED BY <3>1 DEF Powers
  <2> QED BY <2>1, <1>1, <1>2
<1>3. CASE m # 0
  <2>1. m - 1 \in Nat /\ m - 1 \notin B
    BY <1>1, <1>3
  <2>2. PICK g : Powers(g, b, m - 1)
    BY <2>1
  <2> DEFINE f == [i \in 0 .. m |-> IF i = m THEN b * g[m - 1] ELSE g[i]]
  <2>3. \A i \in 0 .. m : f[i] = IF i = 0 THEN 1 ELSE b * f[i - 1]
    <3> SUFFICES ASSUME NEW i \in 0 .. m
                 PROVE  f[i] = IF i = 0 THEN 1 ELSE b * f[i - 1]
      OBVIOUS
    <3>1. CASE i = m
      <4>1. f[m] = b * g[m - 1] /\ f[m - 1] = g[m - 1]
        BY <1>3
      <4> QED BY <4>1, <3>1, <1>3
    <3>2. CASE i # m
      <4>1. i \in 0 .. m - 1 /\ f[i] = g[i] /\ (i # 0 => f[i - 1] = g[i - 1])
        BY <3>2, <1>1
      <4>2. g[i] = IF i = 0 THEN 1 ELSE b * g[i - 1]
        BY <2>2, <4>1 DEF Powers
      <4> QED BY <4>1, <4>2
    <3> QED BY <3>1, <3>2
  <2>4. f = [i \in 0 .. m |-> f[i]]
    OBVIOUS
  <2> HIDE DEF f
  <2>5. Powers(f, b, m)
    BY <2>3, <2>4 DEF Powers
  <2> QED BY <2>5, <1>1
<1> QED BY <1>2, <1>3

(* PowOf by its recursion.                                                 *)
LEMMA PowerIs ==
  ASSUME NEW b, NEW n \in Nat
  PROVE  \E f : /\ PowOf(b, n) = f[n] /\ f[0] = 1
                /\ \A i \in 0 .. n : i > 0 => f[i] = b * f[i - 1]
<1> DEFINE f == CHOOSE g : Powers(g, b, n)
<1>1. PowOf(b, n) = f[n]
  BY DEF PowOf, Powers
<1>2. Powers(f, b, n)
  BY PowersExist
<1> HIDE DEF f
<1>3. f = [i \in 0 .. n |-> IF i = 0 THEN 1 ELSE b * f[i - 1]]
  BY <1>2 DEF Powers
<1>4. f[0] = 1 /\ \A i \in 0 .. n : i > 0 => f[i] = b * f[i - 1]
  BY <1>3
<1> QED BY <1>1, <1>4

(* Powers of natural numbers grow with the base.                           *)
LEMMA PowersGrow ==
  ASSUME NEW n \in Nat, NEW x \in Nat, NEW y \in Nat, x <= y
  PROVE  PowOf(x, n) \in Nat /\ PowOf(y, n) \in Nat /\ PowOf(x, n) <= PowOf(y, n)
<1>1. PICK f : /\ PowOf(x, n) = f[n] /\ f[0] = 1
               /\ \A i \in 0 .. n : i > 0 => f[i] = x * f[i - 1]
  BY PowerIs
<1>2. PICK g : /\ PowOf(y, n) = g[n] /\ g[0] = 1
               /\ \A i \in 0 .. n : i > 0 => g[i] = y * g[i - 1]
  BY PowerIs
<1> DEFINE Less(i) == f[i] \in Nat /\ g[i] \in Nat /\ f[i] <= g[i]
           B == {i \in 0 .. n : ~Less(i)}
<1>3. ASSUME B # {} PROVE FALSE
  <2>1. PICK m \in B : \A j \in B : m <= j
    <3>1. B \subseteq Nat /\ B # {}
      BY <1>3
    <3> HIDE DEF B
    <3> QED BY <3>1, LeastNumber
  <2>2. m # 0
    BY <2>1, <1>1, <1>2
  <2>3. m - 1 \in 0 .. n /\ m - 1 \notin B
    <3>1. m \in 0 .. n /\ m - 1 \in 0 .. n /\ ~(m <= m - 1)
      BY <2>1, <2>2
    <3> HIDE DEF B
    <3> QED BY <3>1, <2>1
  <2> DEFINE u == f[m - 1]   w == g[m - 1]
  <2>4. u \in Nat /\ w \in Nat /\ u <= w
    BY <2>3
  <2>5. f[m] = x * u /\ g[m] = y * w
    BY <1>1, <1>2, <2>1, <2>2
  <2> HIDE DEF u, w
  <2>6. x * u <= x * w
    BY <2>4, Scales
  <2>7. w * x <= w * y /\ w * x = x * w /\ w * y = y * w
    BY <2>4, Scales
  <2>8. x * u \in Nat /\ y * w \in Nat /\ x * w \in Nat
    BY <2>4
  <2> DEFINE a1 == x * u   a2 == x * w   a3 == y * w
  <2>9. a1 \in Nat /\ a2 \in Nat /\ a3 \in Nat /\ a1 <= a2 /\ a2 <= a3
    BY <2>6, <2>7, <2>8
  <2>10. f[m] = a1 /\ g[m] = a3
    BY <2>5
  <2> HIDE DEF a1, a2, a3
  <2> QED BY <2>1, <2>9, <2>10
<1>4. n \in 0 .. n
  OBVIOUS
<1>5. Less(n)
  BY <1>3, <1>4
<1> QED BY <1>1, <1>2, <1>5

(* The powers with exponent 0 and 1.                                       *)
LEMMA FirstPowers ==
  ASSUME NEW x \in Int
  PROVE  PowOf(x, 0) = 1 /\ PowOf(x, 1) = x
<1>1. PowOf(x, 0) = 1
  <2>1. \E f : PowOf(x, 0) = f[0] /\ f[0] = 1
    BY PowerIs
  <2> QED BY <2>1
<1>2. PowOf(x, 1) = x
  <2>1. PICK f : /\ PowOf(x, 1) = f[1] /\ f[0] = 1
                 /\ \A i \in 0 .. 1 : i > 0 => f[i] = x * f[i - 1]
    BY PowerIs
  <2>2. 1 \in 0 .. 1 /\ 1 > 0 /\ 1 - 1 = 0 /\ x * 1 = x
    OBVIOUS
  <2> QED BY <2>1, <2>2
<1> QED BY <1>1, <1>2

(* The powers that c may be equal to fit a word, and the base is not       *)
(* negative.                                                               *)
PowFits(R, r) ==
  /\ r.e \in Nat
  /\ Reach(R, r.c) \subseteq MinWord .. MaxWord
  /\ \A x \in Reach(R, r.a) : 0 <= x /\ PowOf(x, r.e) <= MaxWord

(* cp_prop_pow keeps the points of a ^ e = c for bases that are not        *)
(* negative and powers that fit a word.                                    *)
LEMMA PowKeeps ==
  ASSUME NEW R \in Ranges, NEW P, NEW d \in Good(R, P), NEW r, r.a \in Terms, r.c \in Terms,
         PowFits(R, r),
         \A p \in P : Val(p, r.c) = PowOf(Val(p, r.a), r.e)
  PROVE  cp_prop_pow(d, r) \in Good(R, P)
<1> DEFINE n == r.e
           x(p) == Val(p, r.a)
           al == cp_dmin(d, r.a)
           ah == cp_dmax(d, r.a)
           lo == PowOf(al, n)
           hi == PowOf(ah, n)
           c == cp_dmin(d, r.c)
           wlo == ToWord(Smaller(lo, hi))
           whi == ToWord(Larger(lo, hi))
           S == {b \in d[r.a].vals : PowOf(b, n) = c}
<1>0. d \in Boxes(R) /\ (\A p \in P : Fits(p, d)) /\ n \in Nat
      /\ \A z \in Reach(R, r.a) : 0 <= z /\ PowOf(z, n) <= MaxWord
  BY DEF Good, PowFits
<1>1. MaxWord \in Nat /\ MinWord = -MaxWord - 1
  BY LimitsAssumption DEF MinWord
<1>2. ASSUME NEW p \in P
      PROVE  /\ Val(p, r.c) = PowOf(x(p), n) /\ x(p) \in Nat /\ al \in Nat /\ ah \in Nat /\ al <= x(p) /\ x(p) <= ah
             /\ PowOf(al, n) <= MaxWord /\ PowOf(ah, n) <= MaxWord /\ PowOf(x(p), n) <= MaxWord
             /\ cp_fixed(d, r.a) => al = x(p)
             /\ cp_fixed(d, r.c) => c = Val(p, r.c)
  <2>1. Fits(p, d)
    BY <1>0
  <2>2. x(p) \in Reach(R, r.a) /\ al \in Reach(R, r.a) /\ ah \in Reach(R, r.a)
    BY <2>1, <1>0, ReachIs
  <2>3. x(p) \in Int /\ al \in Int /\ ah \in Int /\ al <= x(p) /\ x(p) <= ah
        /\ (cp_fixed(d, r.a) => al = x(p)) /\ (cp_fixed(d, r.c) => c = Val(p, r.c))
    BY <2>1, <1>0, TermFacts
  <2>4. /\ 0 <= x(p) /\ 0 <= al /\ 0 <= ah
        /\ PowOf(al, n) <= MaxWord /\ PowOf(ah, n) <= MaxWord /\ PowOf(x(p), n) <= MaxWord
    BY <2>2, <1>0
  <2> HIDE DEF al, ah, x, n, c
  <2> QED BY <2>3, <2>4 DEF x, n
<1>3. ASSUME NEW p \in P
      PROVE  /\ PowOf(x(p), n) \in Nat /\ lo \in Nat /\ hi \in Nat /\ lo <= PowOf(x(p), n) /\ PowOf(x(p), n) <= hi
             /\ lo <= MaxWord /\ hi <= MaxWord
  <2>1. /\ x(p) \in Nat /\ al \in Nat /\ ah \in Nat /\ al <= x(p) /\ x(p) <= ah
        /\ PowOf(al, n) <= MaxWord /\ PowOf(ah, n) <= MaxWord
    BY <1>2
  <2> HIDE DEF x, al, ah, n
  <2> QED BY <2>1, <1>0, PowersGrow
<1>4. ASSUME n = 0 PROVE cp_equate(d, r.c, 1) \in Good(R, P)
  <2>1. ASSUME NEW p \in P PROVE Val(p, r.c) = 1
    <3>1. Val(p, r.c) = PowOf(x(p), 0) /\ x(p) \in Int
      BY <1>2, <1>4
    <3> HIDE DEF x
    <3> QED BY <3>1, FirstPowers
  <2> QED BY <2>1, EquateKeeps
<1>5. ASSUME cp_fixed(d, r.a)
      PROVE  (IF lo \in MinWord .. MaxWord THEN cp_equate(d, r.c, lo)
              ELSE IF cp_fixed(d, r.c) \/ Listed(d, r.c) THEN Dead ELSE d) \in Good(R, P)
  <2>1. ASSUME NEW p \in P PROVE Val(p, r.c) = lo /\ lo \in MinWord .. MaxWord
    <3>1. Val(p, r.c) = lo /\ lo \in Nat /\ lo <= MaxWord
      BY <1>2, <1>3, <1>5
    <3> HIDE DEF lo
    <3> QED BY <3>1, <1>1
  <2> HIDE DEF lo
  <2>2. cp_equate(d, r.c, lo) \in Good(R, P)
    BY <2>1, EquateKeeps
  <2>3. lo \notin MinWord .. MaxWord => Dead \in Good(R, P)
    BY <2>1, DeadKeeps
  <2> QED BY <2>2, <2>3
<1>6. ASSUME ~cp_fixed(d, r.a), cp_fixed(d, r.c)
      PROVE  (IF n = 1 THEN cp_equate(d, r.a, c)
              ELSE IF n % 2 = 0 /\ c < 0 THEN Dead
              ELSE IF Listed(d, r.a) THEN cp_set_vals(d, r.a, S) ELSE d) \in Good(R, P)
  <2>1. ASSUME NEW p \in P PROVE c = PowOf(x(p), n) /\ c \in Nat
    BY <1>2, <1>3, <1>6
  <2>2. n = 1 => cp_equate(d, r.a, c) \in Good(R, P)
    <3>1. ASSUME n = 1, NEW p \in P PROVE Val(p, r.a) = c
      <4>1. c = PowOf(x(p), 1) /\ x(p) \in Int
        BY <1>2, <2>1, <3>1
      <4>2. \A z \in Int : PowOf(z, 1) = z
        BY FirstPowers
      <4> HIDE DEF c
      <4> QED BY <4>1, <4>2
    <3> HIDE DEF c, n
    <3> QED BY <3>1, EquateKeeps
  <2>3. c < 0 => Dead \in Good(R, P)
    <3> HIDE DEF c
    <3> QED BY <2>1, DeadKeeps
  <2>4. r.a \in Vars /\ ~isc(r.a)
    BY <1>0, <1>6, FixedIs
  <2>5. cp_set_vals(d, r.a, S) \in Good(R, P)
    <3>1. ASSUME NEW p \in P PROVE p[r.a] \in S
      <4>1. p[r.a] \in d[r.a].vals /\ Val(p, r.a) = p[r.a]
        BY <1>0, <2>4 DEF Fits, Val
      <4>2. PowOf(p[r.a], n) = c
        BY <2>1, <4>1
      <4> QED BY <4>1, <4>2
    <3> HIDE DEF S
    <3> QED BY <3>1, <2>4, SetKeeps
  <2> HIDE DEF c, n, S
  <2> QED BY <2>2, <2>3, <2>5
<1>7. cp_intersect(d, r.c, wlo, whi) \in Good(R, P)
  <2>1. ASSUME NEW p \in P PROVE wlo <= Val(p, r.c) /\ Val(p, r.c) <= whi
    <3> DEFINE q == PowOf(x(p), n)
    <3>1. q \in Nat /\ lo \in Nat /\ hi \in Nat /\ lo <= q /\ q <= hi /\ lo <= MaxWord /\ hi <= MaxWord
      BY <1>3
    <3>2. Val(p, r.c) = q
      BY <1>2
    <3> HIDE DEF q, lo, hi
    <3>3. Smaller(lo, hi) = lo /\ Larger(lo, hi) = hi
      BY <3>1 DEF Smaller, Larger
    <3>4. lo \in MinWord .. MaxWord /\ hi \in MinWord .. MaxWord
      BY <3>1, <1>1
    <3>5. wlo = lo /\ whi = hi
      BY <3>3, <3>4 DEF ToWord
    <3> QED BY <3>1, <3>2, <3>5
  <2> HIDE DEF wlo, whi
  <2> QED BY <2>1, IntersectKeeps
<1>8. cp_prop_pow(d, r) =
        CASE n = 0 -> cp_equate(d, r.c, 1)
          [] n > 0 /\ cp_fixed(d, r.a) ->
               (IF lo \in MinWord .. MaxWord THEN cp_equate(d, r.c, lo)
                ELSE IF cp_fixed(d, r.c) \/ Listed(d, r.c) THEN Dead ELSE d)
          [] n > 0 /\ ~cp_fixed(d, r.a) /\ cp_fixed(d, r.c) ->
               (IF n = 1 THEN cp_equate(d, r.a, c)
                ELSE IF n % 2 = 0 /\ c < 0 THEN Dead
                ELSE IF Listed(d, r.a) THEN cp_set_vals(d, r.a, S) ELSE d)
          [] n > 0 /\ ~cp_fixed(d, r.a) /\ ~cp_fixed(d, r.c) -> cp_intersect(d, r.c, wlo, whi)
  BY DEF cp_prop_pow
<1>9. n \in Nat
  BY <1>0
<1> HIDE DEF n, lo, hi, c, wlo, whi, S
<1> QED BY <1>4, <1>5, <1>6, <1>7, <1>8, <1>9


----------------------------------------------------------------------------
(* The points of a box: Points builds them variable by variable, and so do *)
(* the functions here, which are the solutions of its recursion.           *)

First(S) == CHOOSE u \in S : TRUE
PutAt(p, S, v, a) == [u \in S |-> IF u = v THEN a ELSE p[u]]
Extended(f, box, S, v) == {PutAt(p, S, v, a) : p \in f[S \ {v}], a \in box[v]}
Over(f, box, S) == IF S = {} THEN {<< >>} ELSE Extended(f, box, S, First(S))
Grows(f, box) == f = [S \in SUBSET Vars |-> Over(f, box, S)]

(* The recursion of Points has a solution.                                 *)
LEMMA GrowsExists ==
  ASSUME NEW box
  PROVE  \E f : Grows(f, box)
<1> DEFINE U == UNION {box[v] : v \in Vars}
           f == [S \in SUBSET Vars |-> IF S = {} THEN {<< >>} ELSE {p \in [S -> U] : \A u \in S : p[u] \in box[u]}]
<1>1. ASSUME NEW S \in SUBSET Vars, S # {} PROVE f[S] = Extended(f, box, S, First(S))
  <2> DEFINE v == First(S)
  <2>1. v \in S
    BY <1>1 DEF First
  <2> HIDE DEF v
  <2> DEFINE g(p, a) == PutAt(p, S, v, a)
             T == S \ {v}
  <2>2. ASSUME NEW q \in f[S] PROVE \E p \in f[T], a \in box[v] : q = g(p, a)
    <3>1. q \in [S -> U] /\ \A u \in S : q[u] \in box[u]
      BY <1>1, <2>2
    <3>2. CASE T = {}
      <4>1. << >> \in f[T] /\ q[v] \in box[v]
        BY <3>1, <3>2, <2>1
      <4>2. q = g(<< >>, q[v])
        BY <3>1, <3>2, <2>1 DEF PutAt
      <4> QED BY <4>1, <4>2
    <3>3. CASE T # {}
      <4> DEFINE p == [u \in T |-> q[u]]
      <4>1. p \in [T -> U] /\ \A u \in T : p[u] \in box[u]
        BY <3>1
      <4>2. p \in f[T]
        BY <4>1, <3>3
      <4>3. q = g(p, q[v])
        BY <3>1, <2>1 DEF PutAt
      <4>4. q[v] \in box[v]
        BY <3>1, <2>1
      <4> HIDE DEF f, p, g
      <4> QED BY <4>2, <4>3, <4>4
    <3> QED BY <3>2, <3>3
  <2>3. ASSUME NEW p \in f[T], NEW a \in box[v] PROVE g(p, a) \in f[S]
    <3>1. \A u \in T : p[u] \in box[u]
      BY <2>3
    <3>2. \A u \in S : g(p, a)[u] \in box[u] /\ g(p, a)[u] \in U
      BY <3>1, <2>1, <2>3 DEF PutAt
    <3>3. g(p, a) \in [S -> U]
      BY <3>2 DEF PutAt
    <3> HIDE DEF g, U
    <3> QED BY <3>2, <3>3, <1>1
  <2> HIDE DEF f
  <2>4. \A q : q \in Extended(f, box, S, v) <=> \E p \in f[T], a \in box[v] : q = g(p, a)
    BY DEF Extended
  <2> HIDE DEF g, T
  <2>5. \A q : q \in Extended(f, box, S, v) <=> q \in f[S]
    BY <2>2, <2>3, <2>4
  <2>6. f[S] = Extended(f, box, S, v)
    <3> DEFINE E == Extended(f, box, S, v)   F == f[S]
    <3>1. \A q : q \in E <=> q \in F
      BY <2>5
    <3> HIDE DEF E, F
    <3>2. E = F
      BY <3>1
    <3> QED BY <3>2 DEF E, F
  <2> QED BY <2>6 DEF v
<1>2. f[{}] = {<< >>}
  OBVIOUS
<1>3. f = [S \in SUBSET Vars |-> f[S]]
  OBVIOUS
<1> HIDE DEF f
<1>4. \A S \in SUBSET Vars : f[S] = Over(f, box, S)
  BY <1>1, <1>2 DEF Over
<1>5. Grows(f, box)
  BY <1>3, <1>4 DEF Grows
<1> QED BY <1>5

(* A point of a box takes its values from the box.                         *)
LEMMA PointsFit ==
  ASSUME NEW box, NEW p \in Points(box), NEW v \in Vars
  PROVE  p[v] \in box[v]
<1> DEFINE f == CHOOSE g : Grows(g, box)
<1>1. Points(box) = f[Vars]
  BY DEF Points, Grows, Over, Extended, First, PutAt
<1>2. Grows(f, box)
  BY GrowsExists
<1> HIDE DEF f
<1> DEFINE B == {S \in SUBSET Vars : \E q \in f[S] : \E u \in S : q[u] \notin box[u]}
<1>3. ASSUME B # {} PROVE FALSE
  <2>1. PICK S \in B : \A T \in B : ~(T \subseteq S /\ T # S)
    <3>1. B \subseteq SUBSET Vars /\ B # {}
      BY <1>3
    <3> HIDE DEF B
    <3>2. IsFiniteSet(Vars)
      BY LimitsAssumption
    <3> QED BY <3>1, <3>2, SmallestBad
  <2>2. S \in SUBSET Vars /\ \E q \in f[S] : \E u \in S : q[u] \notin box[u]
    BY <2>1
  <2>3. S # {}
    BY <2>2
  <2> DEFINE w == First(S)
             T == S \ {w}
  <2>4. w \in S
    BY <2>3 DEF First
  <2>5. f[S] = Extended(f, box, S, w)
    <3>1. f[S] = Over(f, box, S)
      BY <1>2, <2>2 DEF Grows
    <3> QED BY <3>1, <2>3 DEF Over
  <2> HIDE DEF w
  <2>6. T \notin B /\ T \in SUBSET Vars
    <3> HIDE DEF B
    <3> QED BY <2>1, <2>2, <2>4
  <2>7. \A q \in f[T] : \A u \in T : q[u] \in box[u]
    BY <2>6
  <2>8. ASSUME NEW q \in f[S], NEW u \in S PROVE q[u] \in box[u]
    <3>1. PICK r \in f[T], a \in box[w] : q = PutAt(r, S, w, a)
      <4>1. q \in Extended(f, box, S, w)
        BY <2>5
      <4>2. \E r \in f[S \ {w}], a \in box[w] : q = PutAt(r, S, w, a)
        BY <4>1 DEF Extended
      <4> QED BY <4>2
    <3>2. q[u] = IF u = w THEN a ELSE r[u]
      BY <3>1 DEF PutAt
    <3>3. u # w => r[u] \in box[u]
      BY <2>7
    <3> QED BY <3>1, <3>2, <3>3
  <2> QED BY <2>2, <2>8
<1>4. Vars \notin B
  BY <1>3
<1> QED BY <1>1, <1>4

----------------------------------------------------------------------------
(* The problems that the contract is proved for.  Each condition names a   *)
(* place where the code is exact: records of the kind that fg_post writes, *)
(* sums, products and powers that fit a word, divisors that fit the        *)
(* arrays, inputs of a conjunction that are 0 or 1.  Where one fails the   *)
(* propagators may drop a solution, as they do in the problems EvenPower   *)
(* and TwoProducts of MC_CpPropagators.                                    *)

OrbitLikeKinds == OrbitKinds \cup {"oncycle"}

TameConstraint(R, c) ==
  CASE c.kind = "lin" -> c.rel \in Rels /\ LinShape(c) /\ LinFits(R, c)
    [] c.kind = "reif" -> c \in Reifs /\ LinShape(c) /\ LinFits(R, c)
    [] c.kind = "alldiff" -> c.term \in Seq(Terms)
    [] c.kind = "times" -> c.a \in Terms /\ c.b \in Terms /\ c.c \in Terms /\ TimesFits(R, c)
    [] c.kind \in {"div", "mod"} -> c.a \in Terms /\ c.c \in Terms /\ c.k # 0
    [] c.kind = "abs" -> /\ c.a \in Terms /\ c.c \in Terms
                         /\ c.a \in Vars => R[c.a] \subseteq -MaxWord .. MaxWord
    [] c.kind = "pow" -> c.a \in Terms /\ c.c \in Terms /\ PowFits(R, c)
    [] c.kind = "elem" -> c.index \in Terms /\ c.y \in Terms /\ c.arr \in Seq(Terms) /\ c.offset \in Int
    [] c.kind = "setin" -> c.x \in Terms /\ IsFiniteSet(c.set) /\ c.set \subseteq Int
    [] c.kind = "minmax" -> c.a \in Terms /\ c.b \in Terms /\ c.m \in Terms
    [] c.kind = "clause" -> c.pos \in Seq(Terms) /\ c.neg \in Seq(Terms)
    [] c.kind = "and" -> /\ c.out \in Terms /\ c.ins \in Seq(Terms)
                         /\ \A i \in DOMAIN c.ins : Reach(R, c.ins[i]) \subseteq {0, 1}
    [] c.kind \in OrbitLikeKinds -> /\ c.s \in Terms
                                    /\ c.kind # "oncycle" => c.y \in Terms
                                    /\ c.kind = "capped" => c.cap \in Nat \ {0}

(* Each propagator keeps the points that satisfy its constraint, for all   *)
(* domains, all such constraints and all points: the meaning of the        *)
(* constraint is that of cp_verify.                                        *)
LEMMA PropagatorKeeps ==
  ASSUME NEW R \in Ranges, NEW P, NEW d \in Good(R, P), NEW c, TameConstraint(R, c), NEW next,
         \A p \in P : Satisfies(p, c, next)
  PROVE  /\ c.kind = "lin" => cp_prop_lin(d, c) \in Good(R, P)
         /\ c.kind = "reif" => cp_prop_reif(d, c) \in Good(R, P)
         /\ c.kind = "alldiff" => cp_prop_alldiff(d, c) \in Kept(R, P)
         /\ c.kind = "times" => cp_prop_times(d, c) \in Good(R, P)
         /\ c.kind \in {"div", "mod"} => cp_prop_divmod(d, c) \in Good(R, P)
         /\ c.kind = "abs" => cp_prop_abs(d, c) \in Good(R, P)
         /\ c.kind = "pow" => cp_prop_pow(d, c) \in Good(R, P)
         /\ c.kind = "elem" => cp_prop_elem(d, c) \in Good(R, P)
         /\ c.kind = "setin" => cp_prop_setin(d, c) \in Good(R, P)
         /\ c.kind = "minmax" => cp_prop_minmax(d, c) \in Good(R, P)
         /\ c.kind = "clause" => cp_prop_clause(d, c) \in Good(R, P)
         /\ c.kind = "and" => cp_prop_and(d, c) \in Good(R, P)
<1>1. c.kind = "lin" => cp_prop_lin(d, c) \in Good(R, P)
  <2> SUFFICES ASSUME c.kind = "lin" PROVE cp_prop_lin(d, c) \in Good(R, P)
    OBVIOUS
  <2>1. c.rel \in Rels /\ LinShape(c) /\ LinFits(R, c)
    BY DEF TameConstraint, OrbitLikeKinds, OrbitKinds
  <2>2. ASSUME NEW p \in P PROVE Holds(c.rel, Sum(p, c), c.rhs)
    <3>1. Holds(c.rel, MapThenSumSet(LAMBDA i : c.coef[i] * p[c.var[i]], DOMAIN c.var), c.rhs)
      BY DEF Satisfies
    <3> QED BY <3>1, SumIs
  <2> QED BY <2>1, <2>2, LinKeeps
<1>2. c.kind = "reif" => cp_prop_reif(d, c) \in Good(R, P)
  <2> SUFFICES ASSUME c.kind = "reif" PROVE cp_prop_reif(d, c) \in Good(R, P)
    OBVIOUS
  <2>1. c \in Reifs /\ LinShape(c) /\ LinFits(R, c)
    BY DEF TameConstraint, OrbitLikeKinds, OrbitKinds
  <2>2. ASSUME NEW p \in P PROVE Val(p, c.r) = IF Holds(c.rel, Sum(p, c), c.rhs) THEN 1 ELSE 0
    <3>1. Val(p, c.r) = IF Holds(c.rel, MapThenSumSet(LAMBDA i : c.coef[i] * p[c.var[i]], DOMAIN c.var), c.rhs)
                        THEN 1 ELSE 0
      BY DEF Satisfies, Val
    <3> QED BY <3>1, SumIs
  <2> QED BY <2>1, <2>2, ReifKeeps
<1>3. c.kind = "alldiff" => cp_prop_alldiff(d, c) \in Kept(R, P)
  <2> SUFFICES ASSUME c.kind = "alldiff" PROVE cp_prop_alldiff(d, c) \in Kept(R, P)
    OBVIOUS
  <2>1. c.term \in Seq(Terms)
    BY DEF TameConstraint, OrbitLikeKinds, OrbitKinds
  <2>2. \A p \in P : Apart(p, c)
    BY DEF Satisfies, Apart, Val
  <2> QED BY <2>1, <2>2, AllDiffKeeps
<1>4. c.kind = "times" => cp_prop_times(d, c) \in Good(R, P)
  <2> SUFFICES ASSUME c.kind = "times" PROVE cp_prop_times(d, c) \in Good(R, P)
    OBVIOUS
  <2>1. c.a \in Terms /\ c.b \in Terms /\ c.c \in Terms /\ TimesFits(R, c)
    BY DEF TameConstraint, OrbitLikeKinds, OrbitKinds
  <2>2. \A p \in P : Val(p, c.c) = Val(p, c.a) * Val(p, c.b)
    BY DEF Satisfies, Val
  <2> QED BY <2>1, <2>2, TimesKeeps
<1>5. c.kind \in {"div", "mod"} => cp_prop_divmod(d, c) \in Good(R, P)
  <2> SUFFICES ASSUME c.kind \in {"div", "mod"} PROVE cp_prop_divmod(d, c) \in Good(R, P)
    OBVIOUS
  <2>1. c.a \in Terms /\ c.c \in Terms /\ c.k # 0
    BY DEF TameConstraint, OrbitLikeKinds, OrbitKinds
  <2>2. \A p \in P : Val(p, c.c) = IF c.kind = "div" THEN Quotient(Val(p, c.a), c.k)
                                   ELSE Remainder(Val(p, c.a), c.k)
    BY DEF Satisfies, Val
  <2> QED BY <2>1, <2>2, DivModKeeps
<1>6. c.kind = "abs" => cp_prop_abs(d, c) \in Good(R, P)
  <2> SUFFICES ASSUME c.kind = "abs" PROVE cp_prop_abs(d, c) \in Good(R, P)
    OBVIOUS
  <2>1. c.a \in Terms /\ c.c \in Terms /\ (c.a \in Vars => R[c.a] \subseteq -MaxWord .. MaxWord)
    BY DEF TameConstraint, OrbitLikeKinds, OrbitKinds
  <2>2. \A p \in P : Val(p, c.c) = Abs(Val(p, c.a))
    BY DEF Satisfies, Val
  <2> QED BY <2>1, <2>2, AbsKeeps
<1>7. c.kind = "pow" => cp_prop_pow(d, c) \in Good(R, P)
  <2> SUFFICES ASSUME c.kind = "pow" PROVE cp_prop_pow(d, c) \in Good(R, P)
    OBVIOUS
  <2>1. c.a \in Terms /\ c.c \in Terms /\ PowFits(R, c)
    BY DEF TameConstraint, OrbitLikeKinds, OrbitKinds
  <2>2. \A p \in P : Val(p, c.c) = PowOf(Val(p, c.a), c.e)
    BY DEF Satisfies, Val
  <2> QED BY <2>1, <2>2, PowKeeps
<1>8. c.kind = "elem" => cp_prop_elem(d, c) \in Good(R, P)
  <2> SUFFICES ASSUME c.kind = "elem" PROVE cp_prop_elem(d, c) \in Good(R, P)
    OBVIOUS
  <2>1. c.index \in Terms /\ c.y \in Terms /\ c.arr \in Seq(Terms) /\ c.offset \in Int
    BY DEF TameConstraint, OrbitLikeKinds, OrbitKinds
  <2>2. \A p \in P : /\ Val(p, c.index) - c.offset + 1 \in DOMAIN c.arr
                     /\ Val(p, c.y) = Val(p, c.arr[Val(p, c.index) - c.offset + 1])
    BY DEF Satisfies, Val
  <2> QED BY <2>1, <2>2, ElemKeeps
<1>9. c.kind = "setin" => cp_prop_setin(d, c) \in Good(R, P)
  <2> SUFFICES ASSUME c.kind = "setin" PROVE cp_prop_setin(d, c) \in Good(R, P)
    OBVIOUS
  <2>1. c.x \in Terms /\ IsFiniteSet(c.set) /\ c.set \subseteq Int
    BY DEF TameConstraint, OrbitLikeKinds, OrbitKinds
  <2>2. \A p \in P : Val(p, c.x) \in c.set
    BY DEF Satisfies, Val
  <2> QED BY <2>1, <2>2, SetInKeeps
<1>10. c.kind = "minmax" => cp_prop_minmax(d, c) \in Good(R, P)
  <2> SUFFICES ASSUME c.kind = "minmax" PROVE cp_prop_minmax(d, c) \in Good(R, P)
    OBVIOUS
  <2>1. c.a \in Terms /\ c.b \in Terms /\ c.m \in Terms
    BY DEF TameConstraint, OrbitLikeKinds, OrbitKinds
  <2>2. \A p \in P : Val(p, c.m) = IF c.ismax THEN Larger(Val(p, c.a), Val(p, c.b))
                                   ELSE Smaller(Val(p, c.a), Val(p, c.b))
    BY DEF Satisfies, Val
  <2> QED BY <2>1, <2>2, MinMaxKeeps
<1>11. c.kind = "clause" => cp_prop_clause(d, c) \in Good(R, P)
  <2> SUFFICES ASSUME c.kind = "clause" PROVE cp_prop_clause(d, c) \in Good(R, P)
    OBVIOUS
  <2>1. c.pos \in Seq(Terms) /\ c.neg \in Seq(Terms)
    BY DEF TameConstraint, OrbitLikeKinds, OrbitKinds
  <2>2. \A p \in P : \/ \E i \in DOMAIN c.pos : Val(p, c.pos[i]) = 1
                     \/ \E i \in DOMAIN c.neg : Val(p, c.neg[i]) = 0
    BY DEF Satisfies, Val
  <2> QED BY <2>1, <2>2, ClauseKeeps
<1>12. c.kind = "and" => cp_prop_and(d, c) \in Good(R, P)
  <2> SUFFICES ASSUME c.kind = "and" PROVE cp_prop_and(d, c) \in Good(R, P)
    OBVIOUS
  <2>1. c.out \in Terms /\ c.ins \in Seq(Terms) /\ \A i \in DOMAIN c.ins : Reach(R, c.ins[i]) \subseteq {0, 1}
    BY DEF TameConstraint, OrbitLikeKinds, OrbitKinds
  <2>2. \A p \in P : Val(p, c.out) = IF \A i \in DOMAIN c.ins : Val(p, c.ins[i]) = 1 THEN 1 ELSE 0
    BY DEF Satisfies, Val
  <2>3. ASSUME NEW p \in P, NEW i \in DOMAIN c.ins PROVE Val(p, c.ins[i]) \in {0, 1}
    <3>1. d \in Boxes(R) /\ Fits(p, d)
      BY DEF Good
    <3>2. c.ins[i] \in Terms
      BY <2>1
    <3>3. Val(p, c.ins[i]) \in Reach(R, c.ins[i])
      BY <3>1, <3>2, ReachIs
    <3> QED BY <3>3, <2>1
  <2> QED BY <2>1, <2>2, <2>3, AndKeeps
<1> QED BY <1>1, <1>2, <1>3, <1>4, <1>5, <1>6, <1>7, <1>8, <1>9, <1>10, <1>11, <1>12

(* So do the orbit propagators, with the memo that the same step has       *)
(* extended.                                                               *)
LEMMA OrbitStepKeeps ==
  ASSUME NEW R \in Ranges, NEW P, NEW d \in Good(R, P), NEW c, TameConstraint(R, c), c.kind \in OrbitLikeKinds,
         Table(problem.next), DOMAIN problem.next = 0 .. Cardinality(DOMAIN problem.next) - 1,
         \A p \in P : Satisfies(p, c, problem.next),
         NEW memo, Truthful(problem.next, memo),
         Asked(OrbitDomains(d, c), c) \cap DOMAIN problem.next \subseteq DOMAIN memo
  PROVE  /\ c.kind \in OrbitKinds => cp_prop_orbit_gen(OrbitDomains(d, c), c, memo) \in Good(R, P)
         /\ c.kind = "oncycle" => cp_prop_oncycle(OrbitDomains(d, c), c, memo) \in Good(R, P)
<1> DEFINE e == OrbitDomains(d, c)
<1>1. /\ c.s \in Terms /\ (c.kind # "oncycle" => c.y \in Terms) /\ (c.kind = "capped" => c.cap \in Nat \ {0})
  BY DEF TameConstraint, OrbitLikeKinds, OrbitKinds
<1>2. \A p \in P : Val(p, c.s) \in DOMAIN problem.next
  BY DEF Satisfies, Val, OrbitLikeKinds, OrbitKinds
<1>3. c.kind # "oncycle" => \A p \in P : Val(p, c.y) = TrueAnswer(c, Val(p, c.s))
  BY DEF Satisfies, Val, OrbitLikeKinds, OrbitKinds, TrueAnswer
<1>4. c.kind = "oncycle" => \A p \in P : TrueFact(problem.next, Val(p, c.s)).tr = 0
  BY DEF Satisfies, Val
<1>5. e \in Good(R, P)
  BY <1>1, <1>2, <1>3, OrbitDomainsKeeps DEF OrbitLikeKinds
<1>6. Answers(memo, e, c)
  BY DEF Answers, Truthful
<1> HIDE DEF e
<1>7. c.kind \in OrbitKinds => cp_prop_orbit_gen(e, c, memo) \in Good(R, P)
  <2>1. c.kind \in OrbitKinds => c.kind # "oncycle"
    BY DEF OrbitKinds
  <2> QED BY <2>1, <1>1, <1>2, <1>3, <1>5, <1>6, OrbitKeeps
<1>8. c.kind = "oncycle" => cp_prop_oncycle(e, c, memo) \in Good(R, P)
  BY <1>1, <1>2, <1>4, <1>5, <1>6, OnCycleKeeps
<1> QED BY <1>7, <1>8 DEF e

----------------------------------------------------------------------------
(* The restriction of linked products to divisors (cp_bound_diophantine).  *)

SetAll(d, S, D) == FoldSet(LAMBDA v, e : cp_set_vals(e, v, D), d, S)

(* Writing one set to several variables keeps the points that have all     *)
(* those values in it.                                                     *)
LEMMA SetAllKeeps ==
  ASSUME NEW R \in Ranges, NEW P, NEW d \in Good(R, P), NEW S \in SUBSET Vars, NEW D,
         \A p \in P : \A v \in S : p[v] \in D
  PROVE  SetAll(d, S, D) \in Good(R, P)
<1> DEFINE U == Good(R, P)
           pick == [s \in SUBSET S |-> First(s)]
           op(e, v) == cp_set_vals(e, v, D)
           Solves(h) == h = [s \in SUBSET S |-> IF s = {} THEN d ELSE op(h[s \ {First(s)}], First(s))]
<1>0. IsFiniteSet(S) /\ \A s \in SUBSET S : s # {} => First(s) \in s
  BY LimitsAssumption, FS_Subset DEF First
<1>1. SetAll(d, S, D) = (CHOOSE h : Solves(h))[S]
  BY DEF SetAll, FoldSet, MapThenFoldSet, First
<1>2. ASSUME NEW v \in S, NEW e \in U PROVE op(e, v) \in U
  <2>1. v \in Vars /\ \A p \in P : p[v] \in D
    OBVIOUS
  <2> QED BY <2>1, SetKeeps
<1> HIDE DEF op, U
<1>3. \E h : Solves(h)
  <2> DEFINE G == [k \in S \X U |-> op(k[2], k[1])]
  <2>1. G \in [S \X U -> U] /\ \A i \in S, e \in U : G[<<i, e>>] = op(e, i)
    BY <1>2
  <2>2. d \in U
    BY DEF U
  <2>3. Picks(pick, S) /\ \A s \in SUBSET S : pick[s] = First(s)
    BY <1>0 DEF Picks
  <2> HIDE DEF G, pick
  <2>4. PICK h \in [SUBSET S -> U] : FoldsBy(h, S, d, G, pick)
    BY <2>1, <2>2, <2>3, <1>0, FoldByExists
  <2>5. \A s \in SUBSET S : h[s] = IF s = {} THEN d ELSE op(h[s \ {First(s)}], First(s))
    BY <2>1, <2>3, <2>4, <1>0 DEF FoldsBy
  <2> QED BY <2>5
<1>4. Solves(CHOOSE h : Solves(h))
  BY <1>3
<1> DEFINE f == CHOOSE h : Solves(h)
<1> HIDE DEF f
<1>5. /\ f[{}] = d
      /\ \A s \in SUBSET S : s # {} => f[s] = op(f[s \ {First(s)}], First(s))
  BY <1>4 DEF f
<1> DEFINE B == {s \in SUBSET S : f[s] \notin U}
<1>6. ASSUME B # {} PROVE FALSE
  <2>1. PICK s \in B : \A T \in B : ~(T \subseteq s /\ T # s)
    <3>1. B \subseteq SUBSET S /\ B # {}
      BY <1>6
    <3> HIDE DEF B
    <3> QED BY <3>1, <1>0, SmallestBad
  <2>2. s # {}
    BY <2>1, <1>5 DEF U
  <2>3. First(s) \in s /\ First(s) \in S
    BY <2>1, <2>2, <1>0
  <2>4. f[s \ {First(s)}] \in U
    BY <2>1, <2>3
  <2> QED BY <2>1, <2>2, <2>3, <2>4, <1>2, <1>5
<1>7. f[S] \in U
  BY <1>6
<1> QED BY <1>1, <1>7 DEF f, U

(* The values that a term is declared with, and when linked products are   *)
(* safe to restrict to divisors: if one is fixed to a constant other than  *)
(* 0, those that share a variable with it are fixed to the same one.       *)
DeclaredVals(m, t) == IF isc(t) THEN {t} ELSE m.dom[t]
ChainFits(m) ==
  LET P == {i \in DOMAIN m.cons : m.cons[i].kind = "times"}
  IN \A i, j \in P :
       /\ Cardinality(DeclaredVals(m, m.cons[i].c)) = 1 /\ DeclaredVals(m, m.cons[i].c) # {0}
       /\ VarsOf(m.cons[i]) \cap VarsOf(m.cons[j]) # {}
       => DeclaredVals(m, m.cons[j].c) = DeclaredVals(m, m.cons[i].c)

(* The closure of a seed over linked products, as the function its         *)
(* recursion solves.                                                       *)
Closes(f, seed, n) ==
  f = [k \in 0 .. n |->
         IF k = 0 THEN seed
         ELSE f[k - 1] \union UNION {VarsOf(r) : r \in {q \in Products : VarsOf(q) \intersect f[k - 1] # {}}}]

(* The closure of linked products is its seed if no product leads out of   *)
(* it.                                                                     *)
LEMMA ClosedAtOnce ==
  ASSUME NEW seed, \A q \in Products : VarsOf(q) \cap seed # {} => VarsOf(q) \subseteq seed,
         NEW n \in Nat
  PROVE  /\ \E f : Closes(f, seed, n)
         /\ \A f : Closes(f, seed, n) => f[n] = seed
<1> DEFINE After(S) == S \union UNION {VarsOf(r) : r \in {q \in Products : VarsOf(q) \intersect S # {}}}
<1>1. After(seed) = seed
  OBVIOUS
<1>2. \E f : Closes(f, seed, n)
  <2> DEFINE f == [k \in 0 .. n |-> seed]
  <2>1. \A k \in 0 .. n : f[k] = seed /\ (k # 0 => f[k - 1] = seed)
    OBVIOUS
  <2>2. f = [k \in 0 .. n |-> f[k]]
    OBVIOUS
  <2> HIDE DEF f
  <2>3. \A k \in 0 .. n : f[k] = IF k = 0 THEN seed ELSE After(f[k - 1])
    <3> HIDE DEF After
    <3> QED BY <2>1, <1>1
  <2>4. f = [k \in 0 .. n |-> IF k = 0 THEN seed ELSE After(f[k - 1])]
    <3> HIDE DEF After
    <3> QED BY <2>2, <2>3
  <2>5. Closes(f, seed, n)
    BY <2>4 DEF Closes
  <2> QED BY <2>5
<1>3. ASSUME NEW f, Closes(f, seed, n) PROVE f[n] = seed
  <2>1. \A k \in 0 .. n : f[k] = IF k = 0 THEN seed ELSE After(f[k - 1])
    BY <1>3 DEF Closes
  <2> HIDE DEF After
  <2> DEFINE B == {k \in 0 .. n : f[k] # seed}
  <2>2. ASSUME B # {} PROVE FALSE
    <3>1. PICK k \in B : \A j \in B : k <= j
      <4>1. B \subseteq Nat /\ B # {}
        BY <2>2
      <4> HIDE DEF B
      <4> QED BY <4>1, LeastNumber
    <3>2. k # 0
      BY <3>1, <2>1
    <3>3. k - 1 \in 0 .. n /\ ~(k <= k - 1)
      BY <3>1, <3>2
    <3>4. f[k - 1] = seed
      BY <3>1, <3>3
    <3> QED BY <3>1, <3>2, <3>4, <2>1, <1>1
  <2> QED BY <2>2
<1> QED BY <1>2, <1>3

(* The factors of a product that is fixed to C, other than 0, are among    *)
(* the divisors of C that the Diophantine step lists.                      *)
LEMMA FactorsListed ==
  ASSUME NEW R \in Ranges, NEW d \in Boxes(R), NEW p, Fits(p, d), NEW r,
         r.a \in Terms, r.b \in Terms, r.c \in Terms, TimesFits(R, r),
         NEW C \in Int, C # 0, Values(d, r.c) = {C}, Val(p, r.c) = Val(p, r.a) * Val(p, r.b),
         NEW v \in VarsOf(r)
  PROVE  p[v] \in cp_divisors(C, 2 * DIVISORS)
<1> DEFINE x == Val(p, r.a)   y == Val(p, r.b)   room == 2 * DIVISORS
<1>1. x \in Int /\ y \in Int /\ x \in Reach(R, r.a) /\ y \in Reach(R, r.b) /\ Val(p, r.c) = C
  <2>1. x \in Int /\ y \in Int /\ Val(p, r.c) \in Values(d, r.c)
    BY TermFacts
  <2>2. x \in Reach(R, r.a) /\ y \in Reach(R, r.b)
    BY ReachIs
  <2> QED BY <2>1, <2>2
<1>2. 0 <= x /\ 0 <= y /\ 4 * Cardinality(Small(x * y)) <= DIVISORS
  BY <1>1 DEF TimesFits
<1>3. C = x * y
  BY <1>1
<1>4. v \in Vars /\ (p[v] = x \/ p[v] = y \/ p[v] = C)
  <2>1. v \in Vars /\ (v = r.a \/ v = r.b \/ v = r.c)
    BY DEF VarsOf
  <2>2. p[v] = Val(p, v)
    BY <2>1 DEF Val, isc
  <2> QED BY <2>1, <2>2, <1>1
<1> HIDE DEF x, y
<1>5. 0 < x /\ 0 < y
  <2>1. x # 0 /\ y # 0
    BY <1>1, <1>3
  <2> QED BY <2>1, <1>1, <1>2
<1>6. room \in Int /\ 4 * Cardinality(Small(C)) <= room
  <2> DEFINE s == Cardinality(Small(C))
  <2>1. 4 * s <= DIVISORS
    BY <1>2, <1>3
  <2>2. s \in Nat
    <3>1. IsFiniteSet(1 .. Abs(C)) /\ Small(C) \subseteq 1 .. Abs(C)
      <4>1. Abs(C) \in Int
        BY DEF Abs
      <4>2. IsFiniteSet(1 .. Abs(C))
        BY <4>1, FS_Interval
      <4>3. Small(C) \subseteq 1 .. Abs(C)
        BY DEF Small
      <4> QED BY <4>2, <4>3
    <3> QED BY <3>1, FS_Subset, FS_CardinalityType
  <2>3. DIVISORS \in Nat
    BY LimitsAssumption
  <2> HIDE DEF s
  <2>4. 4 * s <= room /\ room \in Int
    BY <2>1, <2>2, <2>3
  <2> QED BY <2>4 DEF s
<1> HIDE DEF room
<1>7. x \in cp_divisors(C, room)
  <2>1. 4 * Cardinality(Small(x * y)) <= room
    BY <1>3, <1>6
  <2>2. x \in cp_divisors(x * y, room)
    BY <2>1, <1>1, <1>5, <1>6, DivisorsListed
  <2> QED BY <2>2, <1>3
<1>8. y \in cp_divisors(C, room)
  <2>1. C = y * x
    BY <1>1, <1>3
  <2>2. 4 * Cardinality(Small(y * x)) <= room
    BY <2>1, <1>6
  <2>3. y \in cp_divisors(y * x, room)
    BY <2>2, <1>1, <1>5, <1>6, DivisorsListed
  <2> QED BY <2>1, <2>3
<1>9. C \in cp_divisors(C, room)
  <2>1. C = C * 1 /\ 0 < C
    <3>1. x * 1 <= x * y /\ x * 1 = x /\ x * y \in Int
      BY <1>1, <1>5, Scales
    <3> QED BY <3>1, <1>1, <1>3, <1>5
  <2>2. 4 * Cardinality(Small(C * 1)) <= room
    BY <2>1, <1>6
  <2>3. C \in cp_divisors(C * 1, room)
    BY <2>1, <2>2, <1>6, DivisorsListed
  <2> QED BY <2>1, <2>3
<1> QED BY <1>4, <1>7, <1>8, <1>9 DEF room

(* The Diophantine step keeps every solution, when the products linked to  *)
(* one that is fixed have the same result.                                 *)
LEMMA BoundChainKeeps ==
  ASSUME NEW R \in Ranges, NEW P, dom \in Good(R, P),
         \A v \in Vars : dom[v].vals = problem.dom[v],
         ChainFits(problem), NEW n \in Nat, DOMAIN problem.cons = 1 .. n,
         \A i \in DOMAIN problem.cons : TameConstraint(R, problem.cons[i]),
         \A p \in P : \A i \in DOMAIN problem.cons : Satisfies(p, problem.cons[i], problem.next)
  PROVE  cp_bound_diophantine \in Good(R, P)
<1> DEFINE k == FirstProduct
           r == problem.cons[k]
           C == cp_dmin(dom, r.c)
           F == {i \in DOMAIN problem.cons :
                   /\ problem.cons[i].kind = "times"
                   /\ cp_fixed(dom, problem.cons[i].c)
                   /\ cp_dmin(dom, problem.cons[i].c) # 0}
           D == cp_divisors(C, 2 * DIVISORS)
           seed == UNION {VarsOf(q) : q \in {t \in Products : Values(dom, t.c) = {C}}}
<1>0. dom \in Boxes(R) /\ \A p \in P : Fits(p, dom)
  BY DEF Good
<1>1. CASE k = 0
  BY <1>1 DEF cp_bound_diophantine
<1>2. CASE k # 0
  <2>1. k \in F
    <3>1. F \subseteq 1 .. n /\ IsFiniteSet(1 .. n)
      BY FS_Interval
    <3>2. k = IF F = {} THEN 0 ELSE Min(F)
      BY DEF FirstProduct
    <3> HIDE DEF F, k
    <3>3. IsFiniteSet(F) /\ F \subseteq Int /\ F # {}
      <4>1. IsFiniteSet(F)
        BY <3>1, FS_Subset
      <4>2. F # {}
        BY <3>2, <1>2
      <4> QED BY <3>1, <4>1, <4>2
    <3> QED BY <3>2, <3>3, ExtremesAre
  <2>2. r.kind = "times" /\ cp_fixed(dom, r.c) /\ C # 0
    BY <2>1
  <2>3. \A i \in DOMAIN problem.cons : problem.cons[i].kind = "times" =>
          LET q == problem.cons[i] IN q.a \in Terms /\ q.b \in Terms /\ q.c \in Terms /\ TimesFits(R, q)
    BY DEF TameConstraint, OrbitLikeKinds, OrbitKinds
  <2>4. k \in DOMAIN problem.cons
    BY <2>1
  <2> HIDE DEF k, F
  <2>5. C \in Int
    <3>1. r.c \in Terms
      BY <2>2, <2>3, <2>4
    <3> HIDE DEF r
    <3> QED BY <3>1, <2>2, <1>0, FixedIs
  <2>6. \A t : DeclaredVals(problem, t) = Values(dom, t)
    BY DEF DeclaredVals, Values, isc
  <2>7. cp_bound_diophantine = SetAll(dom, Chain(C), D)
    BY <1>2 DEF cp_bound_diophantine, k, SetAll
  <2> HIDE DEF C, r
  <2>8. ASSUME NEW q \in Products, VarsOf(q) \cap seed # {} PROVE VarsOf(q) \subseteq seed
    <3>1. PICK i \in DOMAIN problem.cons : problem.cons[i].kind = "times" /\ problem.cons[i] = q
      BY DEF Products
    <3>2. PICK t \in Products : Values(dom, t.c) = {C} /\ VarsOf(t) \cap VarsOf(q) # {}
      BY <2>8
    <3>3. PICK j \in DOMAIN problem.cons : problem.cons[j].kind = "times" /\ problem.cons[j] = t
      BY DEF Products
    <3>4. DeclaredVals(problem, q.c) = {C}
      <4>1. DeclaredVals(problem, t.c) = {C} /\ {C} # {0} /\ Cardinality({C}) = 1
        BY <3>2, <2>2, <2>6, FS_Singleton
      <4> QED BY <4>1, <3>1, <3>2, <3>3 DEF ChainFits
    <3>5. Values(dom, q.c) = {C}
      BY <3>4, <2>6
    <3> QED BY <3>5
  <2>9. Chain(C) = seed
    <3> DEFINE m == Cardinality(Vars)
               f == CHOOSE g : Closes(g, seed, m)
    <3>1. m \in Nat
      BY LimitsAssumption, FS_CardinalityType
    <3>2. Chain(C) = f[m]
      BY DEF Chain, Closes
    <3> HIDE DEF m, seed
    <3>3. (\E g : Closes(g, seed, m)) /\ \A g : Closes(g, seed, m) => g[m] = seed
      BY <2>8, <3>1, ClosedAtOnce
    <3>4. Closes(f, seed, m)
      BY <3>3
    <3> QED BY <3>2, <3>3, <3>4
  <2>10. ASSUME NEW p \in P, NEW v \in seed PROVE p[v] \in D
    <3>1. PICK t \in Products : Values(dom, t.c) = {C} /\ v \in VarsOf(t)
      BY <2>10
    <3>2. PICK j \in DOMAIN problem.cons : problem.cons[j].kind = "times" /\ problem.cons[j] = t
      BY DEF Products
    <3>3. t.a \in Terms /\ t.b \in Terms /\ t.c \in Terms /\ TimesFits(R, t)
      BY <2>3, <3>2
    <3>4. Val(p, t.c) = Val(p, t.a) * Val(p, t.b)
      <4>1. Satisfies(p, t, problem.next) /\ t.kind = "times"
        BY <3>2
      <4> QED BY <4>1 DEF Satisfies, Val
    <3>5. Fits(p, dom)
      BY <1>0
    <3> QED BY <3>1, <3>3, <3>4, <3>5, <1>0, <2>2, <2>5, FactorsListed
  <2>11. seed \in SUBSET Vars
    BY DEF VarsOf
  <2> HIDE DEF seed, D
  <2>12. SetAll(dom, seed, D) \in Good(R, P)
    BY <2>10, <2>11, SetAllKeeps
  <2> QED BY <2>7, <2>9, <2>12
<1> QED BY <1>1, <1>2

----------------------------------------------------------------------------
(* The whole run: every step of the search keeps the solutions below the   *)
(* node it stands on.                                                      *)

(* The values a variable can ever have: those it is declared with, and the *)
(* 0 and 1 that reification assigns.                                       *)
RangesOf(m) == [v \in Vars |-> m.dom[v] \cup {0, 1}]

(* The problems of the contract.                                           *)
Tame(m) ==
  /\ DOMAIN m.cons = 1 .. Len(m.cons) /\ Len(m.cons) \in Nat
  /\ \A i \in DOMAIN m.cons : TameConstraint(RangesOf(m), m.cons[i])
  /\ ChainFits(m)

(* The domains hold every solution within the root of the node; before the *)
(* Diophantine step they are the declared ones.                            *)
Keeping ==
  /\ verdict = "chain" => \A v \in Vars : dom[v].vals = problem.dom[v]
  /\ verdict # "crash" => dom \in Good(RangesOf(problem), Solutions(root))

(* The inductive invariant: the truth of the memo is part of it, since an  *)
(* orbit propagator is only as right as the facts it reads.                *)
KeepInv == MemoInv /\ (Tame(problem) => Keeping)

(* The ranges of a problem are words and hold its declared domains.        *)
LEMMA RangesAre ==
  ASSUME NEW m \in Problems
  PROVE  RangesOf(m) \in Ranges /\ \A v \in Vars : m.dom[v] \subseteq RangesOf(m)[v]
<1>1. m.dom \in [Vars -> (SUBSET (MinWord .. MaxWord)) \ {{}}]
  BY ProblemsAssumption
<1>2. {0, 1} \subseteq MinWord .. MaxWord
  BY LimitsAssumption DEF MinWord
<1>3. \A v \in Vars : RangesOf(m)[v] = m.dom[v] \cup {0, 1}
  BY DEF RangesOf
<1>4. RangesOf(m) \in [Vars -> SUBSET (MinWord .. MaxWord)]
  BY <1>1, <1>2 DEF RangesOf
<1> QED BY <1>3, <1>4 DEF Ranges

(* The first domains are the declared ones and hold every solution.        *)
LEMMA KeepInit == Init => KeepInv
<1> SUFFICES ASSUME Init PROVE KeepInv
  OBVIOUS
<1>1. MemoInv
  BY DEF Init, MemoInv, Truthful, ClosedIn
<1> DEFINE R == RangesOf(problem)
<1>2. R \in Ranges /\ \A v \in Vars : problem.dom[v] \subseteq R[v]
  BY RangesAre DEF Init
<1>3. dom = [v \in Vars |-> Declared(problem.dom[v])] /\ root = problem.dom
  BY DEF Init
<1>4. \A v \in Vars : dom[v].vals = problem.dom[v] /\ dom[v] \in [listed : BOOLEAN, vals : SUBSET Int]
  <2>1. \A v \in Vars : problem.dom[v] \subseteq Int
    <3>1. MinWord \in Int /\ MaxWord \in Int
      BY LimitsAssumption DEF MinWord
    <3> QED BY <1>2, <3>1 DEF Ranges
  <2> QED BY <1>3, <2>1 DEF Declared, Domain
<1> HIDE DEF R
<1>5. dom \in Boxes(R)
  <2>1. dom \in [Vars -> [listed : BOOLEAN, vals : SUBSET Int]]
    BY <1>3, <1>4
  <2> QED BY <2>1, <1>2, <1>4 DEF Boxes
<1>6. ASSUME NEW p \in Solutions(root) PROVE Fits(p, dom)
  <2>1. p \in Points(problem.dom)
    BY <1>3 DEF Solutions
  <2> QED BY <2>1, <1>4, PointsFit DEF Fits
<1> QED BY <1>1, <1>4, <1>5, <1>6 DEF KeepInv, Keeping, Good, R

(* Every step keeps the solutions: a propagator by its lemma, a branch     *)
(* because its root is the domains it starts from, the Diophantine step    *)
(* because it comes first.                                                 *)
LEMMA KeepStep == KeepInv /\ [Next]_vars => KeepInv'
<1> SUFFICES ASSUME KeepInv, [Next]_vars PROVE KeepInv'
  OBVIOUS
<1>1. MemoInv'
  BY MemoIsKept DEF KeepInv
<1>2. problem' = problem
  BY DEF Next, Propagate, BoundChain, NextPass, Lin, AllDiff, Times, Div, Mod, AbsVal, Elem,
    SetIn, Pow, Reif, Clause, MinMax, And, OrbitLike, Plain, Run, Branch, vars
<1> SUFFICES ASSUME Tame(problem) PROVE Keeping'
  BY <1>1, <1>2 DEF KeepInv
<1> DEFINE R == RangesOf(problem)
           P == Solutions(root)
<1>3. Keeping /\ problem \in Problems /\ R \in Ranges /\ Table(problem.next)
      /\ DOMAIN problem.next = 0 .. Cardinality(DOMAIN problem.next) - 1
  <2>1. Keeping /\ problem \in Problems
    BY DEF KeepInv, MemoInv
  <2> QED BY <2>1, RangesAre, ProblemsAssumption DEF Table
<1>4. verdict # "crash" => dom \in Good(R, P)
  BY <1>3 DEF Keeping
<1>5. \A p \in P : \A i \in DOMAIN problem.cons : Satisfies(p, problem.cons[i], problem.next)
  BY DEF Solutions, cp_verify
<1>6. \A i \in DOMAIN problem.cons : TameConstraint(R, problem.cons[i])
  BY DEF Tame
<1>7. root' = root => Solutions(root)' = P
  BY <1>2 DEF Solutions, cp_verify
<1>8. ASSUME dom' \in Kept(R, P), verdict' = Verdict(dom', "running"), root' = root PROVE Keeping'
  <2>1. verdict' # "chain"
    BY <1>8 DEF Verdict
  <2>2. verdict' # "crash" => dom' \in Good(R, P)
    BY <1>8 DEF Verdict, Kept
  <2>3. verdict' # "crash" => dom' \in Good(RangesOf(problem'), Solutions(root)')
    BY <2>2, <1>2, <1>7, <1>8
  <2> QED BY <2>1, <2>3 DEF Keeping
<1>9. CASE UNCHANGED vars
  <2>1. UNCHANGED <<problem, root, dom, verdict>>
    BY <1>9 DEF vars
  <2>2. Solutions(root)' = P
    BY <2>1, <1>7
  <2> QED BY <2>1, <2>2, <1>3 DEF Keeping
<1>10. CASE BoundChain
  <2>1. verdict = "chain" /\ dom' = cp_bound_diophantine /\ verdict' = Verdict(dom', "running") /\ root' = root
    BY <1>10 DEF BoundChain
  <2>2. \A v \in Vars : dom[v].vals = problem.dom[v]
    BY <2>1, <1>3 DEF Keeping
  <2>3. DOMAIN problem.cons = 1 .. Len(problem.cons) /\ Len(problem.cons) \in Nat
    BY DEF Tame
  <2>4. ChainFits(problem) /\ dom \in Good(R, P)
    BY <2>1, <1>4 DEF Tame
  <2> HIDE DEF R, P
  <2>5. cp_bound_diophantine \in Good(R, P)
    BY <1>3, <1>5, <1>6, <2>2, <2>3, <2>4, BoundChainKeeps
  <2> QED BY <1>8, <2>1, <2>5 DEF Kept
<1>11. CASE NextPass
  <2>1. /\ UNCHANGED <<problem, root, dom>> /\ verdict = "running"
        /\ verdict' \in {"running", "fixpoint"}
    BY <1>11 DEF NextPass
  <2>2. Solutions(root)' = P
    BY <2>1, <1>7
  <2> QED BY <2>1, <2>2, <1>4 DEF Keeping
<1>12. CASE Branch
  <2>0. PICK v \in Vars :
          \E x \in dom[v].vals : /\ dom' = cp_assign(dom, v, x)
                                 /\ root' = [u \in Vars |-> dom'[u].vals]
    BY <1>12 DEF Branch
  <2>1. PICK x \in dom[v].vals : /\ dom' = cp_assign(dom, v, x)
                                 /\ root' = [u \in Vars |-> dom'[u].vals]
    BY <2>0
  <2>2. dom \in Boxes(R) /\ verdict' = "running"
    BY <1>12, <1>4 DEF Branch, Good
  <2>3. x \in R[v] /\ dom \in Good(R, {})
    <3>1. dom[v].vals \subseteq R[v]
      BY <2>2, <1>3, BoxVals
    <3> QED BY <3>1, <2>2 DEF Good
  <2> HIDE DEF R, P
  <2>4. dom' \in Good(R, {})
    BY <2>1, <2>3, <1>3, AssignKeeps
  <2>5. ASSUME NEW p \in Solutions(root)' PROVE Fits(p, dom')
    <3>1. p \in Points(root')
      BY DEF Solutions
    <3>2. \A u \in Vars : p[u] \in root'[u]
      BY <3>1, PointsFit
    <3> QED BY <3>2, <2>1 DEF Fits
  <2>6. dom' \in Good(R, Solutions(root)')
    BY <2>4, <2>5 DEF Good
  <2> QED BY <2>2, <2>6, <1>2 DEF Keeping, R
<1>14. ASSUME verdict = "running", at \in DOMAIN problem.cons
       PROVE  /\ dom \in Good(R, P) /\ TameConstraint(R, constraint)
              /\ \A p \in P : Satisfies(p, constraint, problem.next)
  BY <1>14, <1>4, <1>5, <1>6 DEF constraint
<1>15. CASE Lin \/ AllDiff \/ Times \/ Div \/ Mod \/ AbsVal \/ Elem \/ SetIn \/ Pow \/ Reif \/ Clause \/ MinMax \/ And
  <2> DEFINE c == constraint
  <2>1. /\ verdict = "running" /\ at \in DOMAIN problem.cons
        /\ verdict' = Verdict(dom', "running") /\ root' = root
    BY <1>15 DEF Lin, AllDiff, Times, Div, Mod, AbsVal, Elem, SetIn, Pow, Reif, Clause, MinMax, And, Plain, Run
  <2>2. /\ Lin => c.kind = "lin" /\ dom' \in {Crashed, cp_prop_lin(dom, c)}
        /\ AllDiff => c.kind = "alldiff" /\ dom' \in {Crashed, cp_prop_alldiff(dom, c)}
        /\ Times => c.kind = "times" /\ dom' \in {Crashed, cp_prop_times(dom, c)}
        /\ Div => c.kind = "div" /\ dom' \in {Crashed, cp_prop_divmod(dom, c)}
        /\ Mod => c.kind = "mod" /\ dom' \in {Crashed, cp_prop_divmod(dom, c)}
        /\ AbsVal => c.kind = "abs" /\ dom' \in {Crashed, cp_prop_abs(dom, c)}
        /\ Elem => c.kind = "elem" /\ dom' \in {Crashed, cp_prop_elem(dom, c)}
        /\ SetIn => c.kind = "setin" /\ dom' \in {Crashed, cp_prop_setin(dom, c)}
        /\ Pow => c.kind = "pow" /\ dom' \in {Crashed, cp_prop_pow(dom, c)}
        /\ Reif => c.kind = "reif" /\ dom' \in {Crashed, cp_prop_reif(dom, c)}
        /\ Clause => c.kind = "clause" /\ dom' \in {Crashed, cp_prop_clause(dom, c)}
        /\ MinMax => c.kind = "minmax" /\ dom' \in {Crashed, cp_prop_minmax(dom, c)}
        /\ And => c.kind = "and" /\ dom' \in {Crashed, cp_prop_and(dom, c)}
    BY DEF Lin, AllDiff, Times, Div, Mod, AbsVal, Elem, SetIn, Pow, Reif, Clause, MinMax, And, Plain, Run
  <2>3. /\ dom \in Good(R, P) /\ TameConstraint(R, c)
        /\ \A p \in P : Satisfies(p, c, problem.next)
    BY <1>14, <2>1
  <2> HIDE DEF R, P, c
  <2>4. /\ c.kind = "lin" => cp_prop_lin(dom, c) \in Good(R, P)
        /\ c.kind = "reif" => cp_prop_reif(dom, c) \in Good(R, P)
        /\ c.kind = "alldiff" => cp_prop_alldiff(dom, c) \in Kept(R, P)
        /\ c.kind = "times" => cp_prop_times(dom, c) \in Good(R, P)
        /\ c.kind \in {"div", "mod"} => cp_prop_divmod(dom, c) \in Good(R, P)
        /\ c.kind = "abs" => cp_prop_abs(dom, c) \in Good(R, P)
        /\ c.kind = "pow" => cp_prop_pow(dom, c) \in Good(R, P)
        /\ c.kind = "elem" => cp_prop_elem(dom, c) \in Good(R, P)
        /\ c.kind = "setin" => cp_prop_setin(dom, c) \in Good(R, P)
        /\ c.kind = "minmax" => cp_prop_minmax(dom, c) \in Good(R, P)
        /\ c.kind = "clause" => cp_prop_clause(dom, c) \in Good(R, P)
        /\ c.kind = "and" => cp_prop_and(dom, c) \in Good(R, P)
    BY <1>3, <2>3, PropagatorKeeps
  <2>5. dom' \in Kept(R, P)
    BY <1>15, <2>2, <2>4 DEF Kept
  <2> QED BY <1>8, <2>1, <2>5
<1>16. CASE OrbitLike
  <2> DEFINE c == constraint
             start == OrbitDomains(dom, c)
  <2>1. /\ verdict = "running" /\ at \in DOMAIN problem.cons /\ c.kind \in OrbitLikeKinds
        /\ facts' = Learn(facts, problem.next, Asked(start, c))
    BY <1>16 DEF OrbitLike, OrbitLikeKinds, OrbitKinds
  <2>2. /\ dom \in Good(R, P) /\ TameConstraint(R, c)
        /\ \A p \in P : Satisfies(p, c, problem.next)
    BY <1>14, <2>1
  <2>3. /\ verdict' = Verdict(dom', "running") /\ root' = root
        /\ \/ c.kind \in OrbitKinds /\ dom' \in {Crashed, cp_prop_orbit_gen(start, c, facts')}
           \/ c.kind = "oncycle" /\ dom' \in {Crashed, cp_prop_oncycle(start, c, facts')}
    BY <1>16 DEF OrbitLike, Run, OrbitKinds
  <2>4. Truthful(problem.next, facts)
    BY DEF KeepInv, MemoInv
  <2> DEFINE S == Asked(start, c)   memo == Learn(facts, problem.next, S)
  <2>5. Truthful(problem.next, memo) /\ S \cap DOMAIN problem.next \subseteq DOMAIN memo
    <3> HIDE DEF S
    <3> QED BY <1>3, <2>4, LearnIsTruthful
  <2>6. facts' = memo
    BY <2>1
  <2> HIDE DEF R, P, c, memo
  <2>7. /\ c.kind \in OrbitKinds => cp_prop_orbit_gen(start, c, memo) \in Good(R, P)
        /\ c.kind = "oncycle" => cp_prop_oncycle(start, c, memo) \in Good(R, P)
    BY <1>3, <2>1, <2>2, <2>5, OrbitStepKeeps
  <2>8. dom' \in Kept(R, P)
    BY <2>3, <2>6, <2>7 DEF Kept
  <2> QED BY <1>8, <2>3, <2>8
<1> QED BY <1>9, <1>10, <1>11, <1>12, <1>15, <1>16 DEF Next, Propagate

(* The contract of propagation, for every problem that is tame: whatever   *)
(* constraints it has, over domains of any shape, and in whatever order    *)
(* they are asked, no propagator, no branch and no restriction to divisors *)
(* removes a value that a solution below the node needs, and none fails a  *)
(* node that has a solution.                                               *)
THEOREM PropagatorsKeepSolutions == Spec => [](Tame(problem) => KeepsSolutions)
<1>1. KeepInv => (Tame(problem) => KeepsSolutions)
  BY DEF KeepInv, Keeping, KeepsSolutions, Good, Fits
<1> QED BY <1>1, KeepInit, KeepStep, PTL DEF Spec

----------------------------------------------------------------------------
(* What a fixpoint decides.  A pass that writes nothing leaves every list  *)
(* as it was, whatever a propagator did to it on the way: the domains that *)
(* a propagator goes through lie between those it was given and those it   *)
(* leaves.                                                                 *)

(* h folds the step G over the positions 1 .. n, as far as it stays in U;  *)
(* s is the chain of the results of the steps, from b to e.                *)
FoldsIn(h, n, U, b, G) ==
  /\ h[{}] = b
  /\ \A s \in SUBSET (1 .. n) : s # {} /\ h[s \ {Max(s)}] \in U => h[s] = G[<<Max(s), h[s \ {Max(s)}]>>]
ChainTo(s, n, U, b, G, e) ==
  /\ s \in [0 .. n -> U] /\ s[0] = b /\ s[n] = e
  /\ \A k \in 1 .. n : s[k] = G[<<k, s[k - 1]>>]

(* Every fold is the end of such a chain.                                  *)
LEMMA ChainIs ==
  ASSUME NEW n \in Nat, NEW U, NEW b \in U, NEW G, G \in [(1 .. n) \X U -> U], NEW h, FoldsIn(h, n, U, b, G)
  PROVE  \E s : ChainTo(s, n, U, b, G, h[1 .. n])
<1> DEFINE s == [k \in 0 .. n |-> h[1 .. k]]
           B == {k \in 0 .. n : s[k] \notin U}
<1>1. s[0] = b /\ s[n] = h[1 .. n]
  <2>1. 1 .. 0 = {} /\ 0 \in 0 .. n /\ n \in 0 .. n
    OBVIOUS
  <2> QED BY <2>1 DEF FoldsIn
<1>2. ASSUME NEW k \in 1 .. n, s[k - 1] \in U PROVE s[k] = G[<<k, s[k - 1]>>] /\ s[k] \in U
  <2>0. k \in Nat /\ k >= 1 /\ k - 1 \in 0 .. n /\ k \in 0 .. n
    OBVIOUS
  <2>1. 1 .. k \in SUBSET (1 .. n) /\ 1 .. k # {} /\ k \in 1 .. k /\ (1 .. k) \ {k} = 1 .. k - 1
    <3>1. 1 .. k \in SUBSET (1 .. n) /\ k \in 1 .. k
      BY <2>0
    <3>2. \A x : x \in (1 .. k) \ {k} <=> x \in 1 .. k - 1
      BY <2>0
    <3> QED BY <3>1, <3>2
  <2>2. Max(1 .. k) = k
    <3>1. IsFiniteSet(1 .. k) /\ 1 .. k \subseteq Int
      BY <2>0, FS_Interval
    <3>2. Max(1 .. k) \in 1 .. k /\ \A x \in 1 .. k : x <= Max(1 .. k)
      BY <3>1, <2>1, ExtremesAre
    <3> QED BY <3>2, <2>0, <2>1
  <2>3. s[k - 1] = h[1 .. k - 1] /\ s[k] = h[1 .. k]
    BY <2>0
  <2>4. s[k] = G[<<k, s[k - 1]>>]
    BY <2>1, <2>2, <2>3, <1>2 DEF FoldsIn
  <2> HIDE DEF s
  <2> QED BY <2>4, <1>2
<1>3. ASSUME B # {} PROVE FALSE
  <2>1. PICK k \in B : \A j \in B : k <= j
    <3>1. B \subseteq Nat /\ B # {}
      BY <1>3
    <3> HIDE DEF B
    <3> QED BY <3>1, LeastNumber
  <2> HIDE DEF s
  <2>2. k # 0
    BY <2>1, <1>1
  <2>3. k \in 1 .. n /\ k - 1 \in 0 .. n /\ ~(k <= k - 1)
    BY <2>1, <2>2
  <2>4. s[k - 1] \in U
    BY <2>1, <2>3
  <2> QED BY <2>1, <2>3, <2>4, <1>2
<1>4. s \in [0 .. n -> U]
  <2>1. \A k \in 0 .. n : s[k] \in U
    BY <1>3
  <2>2. s = [k \in 0 .. n |-> s[k]]
    OBVIOUS
  <2> HIDE DEF s
  <2> QED BY <2>1, <2>2
<1>5. \A k \in 1 .. n : s[k] = G[<<k, s[k - 1]>>]
  <2>1. \A k \in 1 .. n : k - 1 \in 0 .. n
    OBVIOUS
  <2> HIDE DEF s
  <2> QED BY <2>1, <1>2, <1>4
<1> HIDE DEF s
<1> QED BY <1>1, <1>4, <1>5 DEF ChainTo

(* Domains e that a propagator makes of d by removals alone, or the crash. *)
Narrows(d, e) == \A v \in Vars : e[v].vals \subseteq d[v].vals /\ (d[v].listed => e[v].listed)
Below(d, e) == e = Crashed \/ (d # Crashed /\ Narrows(d, e))
(* The lists are the same; what has no list may have changed.              *)
SameLists(d, e) == \A v \in Vars : d[v].listed = e[v].listed /\ (d[v].listed => d[v] = e[v])

(* Below is an order.                                                      *)
LEMMA BelowIsOrder ==
  /\ \A d : Below(d, d)
  /\ \A d, e, g : Below(d, e) /\ Below(e, g) => Below(d, g)
BY DEF Below, Narrows

(* Along a chain of narrower domains each link lies between the ends.      *)
LEMMA ChainIsBelow ==
  ASSUME NEW n \in Nat, NEW s, \A k \in 1 .. n : Below(s[k - 1], s[k]), NEW k \in 0 .. n
  PROVE  Below(s[0], s[k]) /\ Below(s[k], s[n])
<1>1. Below(s[0], s[k])
  <2> DEFINE B == {i \in 0 .. n : ~Below(s[0], s[i])}
  <2>1. ASSUME B # {} PROVE FALSE
    <3>1. PICK i \in B : \A j \in B : i <= j
      <4>1. B \subseteq Nat /\ B # {}
        BY <2>1
      <4> HIDE DEF B
      <4> QED BY <4>1, LeastNumber
    <3>2. i # 0
      BY <3>1, BelowIsOrder
    <3>3. i \in 1 .. n /\ i - 1 \in 0 .. n /\ ~(i <= i - 1)
      BY <3>1, <3>2
    <3>4. Below(s[0], s[i - 1]) /\ Below(s[i - 1], s[i])
      BY <3>1, <3>3
    <3> QED BY <3>1, <3>4, BelowIsOrder
  <2> QED BY <2>1
<1>2. Below(s[k], s[n])
  <2> DEFINE B == {i \in 0 .. n : ~Below(s[n - i], s[n])}
  <2>1. ASSUME B # {} PROVE FALSE
    <3>1. PICK i \in B : \A j \in B : i <= j
      <4>1. B \subseteq Nat /\ B # {}
        BY <2>1
      <4> HIDE DEF B
      <4> QED BY <4>1, LeastNumber
    <3>2. i # 0
      <4>1. n - 0 = n
        OBVIOUS
      <4> QED BY <4>1, <3>1, BelowIsOrder
    <3>3. i - 1 \in 0 .. n /\ ~(i <= i - 1) /\ n - (i - 1) \in 1 .. n /\ (n - (i - 1)) - 1 = n - i
      BY <3>1, <3>2
    <3>4. Below(s[n - (i - 1)], s[n])
      BY <3>1, <3>3
    <3>5. Below(s[n - i], s[n - (i - 1)])
      BY <3>3
    <3> QED BY <3>1, <3>4, <3>5, BelowIsOrder
  <2>2. n - k \in 0 .. n /\ n - (n - k) = k
    OBVIOUS
  <2>3. ~(n - k \in B)
    BY <2>1
  <2> QED BY <2>2, <2>3
<1> QED BY <1>1, <1>2

(* Between domains with the same lists, none of them failed, every domain  *)
(* has those lists.                                                        *)
LEMMA Between ==
  ASSUME NEW R \in Ranges, NEW d \in Boxes(R), NEW e \in Boxes(R), NEW g \in Boxes(R),
         Below(d, e), Below(e, g), g # Crashed, ~Failed(g), SameLists(d, g)
  PROVE  /\ SameLists(d, e) /\ SameLists(e, g)
         /\ ~Failed(d) /\ ~Failed(e) /\ d # Crashed /\ e # Crashed
<1>1. e # Crashed /\ d # Crashed /\ Narrows(d, e) /\ Narrows(e, g)
  BY DEF Below
<1>2. ~Failed(e) /\ ~Failed(d)
  BY <1>1 DEF Failed, Narrows
<1>3. ASSUME NEW v \in Vars PROVE d[v].listed = e[v].listed /\ (d[v].listed => d[v] = e[v] /\ e[v] = g[v])
  <2>1. /\ d[v].listed \in BOOLEAN /\ e[v].listed \in BOOLEAN /\ g[v].listed \in BOOLEAN
        /\ d[v] = Domain(d[v].listed, d[v].vals) /\ e[v] = Domain(e[v].listed, e[v].vals)
    BY BoxVals
  <2>2. /\ d[v].listed = g[v].listed /\ (d[v].listed => d[v] = g[v])
        /\ (d[v].listed => e[v].listed) /\ (e[v].listed => g[v].listed)
        /\ e[v].vals \subseteq d[v].vals /\ g[v].vals \subseteq e[v].vals
    BY <1>1 DEF SameLists, Narrows
  <2>3. d[v].listed = e[v].listed
    BY <2>1, <2>2
  <2>4. ASSUME d[v].listed PROVE d[v] = e[v] /\ e[v] = g[v]
    <3>1. d[v].vals = e[v].vals
      BY <2>2, <2>4
    <3> QED BY <3>1, <2>1, <2>2, <2>3, <2>4
  <2> QED BY <2>3, <2>4
<1>4. SameLists(e, g)
  BY <1>3 DEF SameLists
<1> QED BY <1>1, <1>2, <1>3, <1>4 DEF SameLists

(* Without variables there is only one box, and with some a crash or a     *)
(* failure has an empty domain.                                            *)
LEMMA EmptyEnds ==
  /\ Vars = {} => \A R \in Ranges : \A d \in Boxes(R) : d = Crashed
  /\ Vars # {} => Failed(Crashed) /\ Failed(Dead)
<1>1. ASSUME Vars = {}, NEW R \in Ranges, NEW d \in Boxes(R) PROVE d = Crashed
  <2>1. d \in [Vars -> [listed : BOOLEAN, vals : SUBSET Int]]
    BY DEF Boxes
  <2> QED BY <2>1, <1>1 DEF Crashed
<1>2. Vars # {} => Failed(Crashed) /\ Failed(Dead)
  BY DEF Failed, Crashed, Dead, Domain
<1> QED BY <1>1, <1>2

(* Nothing has more values or fewer lists than a failure.                  *)
LEMMA DeadIsBelow ==
  ASSUME NEW d, d # Crashed
  PROVE  Below(d, Dead)
BY DEF Narrows, Below, Dead, Domain

(* Removing a value narrows, and leaves the lists as they were only if no  *)
(* list had the value.                                                     *)
LEMMA RemoveIsBelow ==
  ASSUME NEW R \in Ranges, NEW d \in Boxes(R), d # Crashed, NEW v \in Vars, NEW x
  PROVE  LET e == cp_remove_val(d, v, x)
         IN /\ e \in Boxes(R) /\ Below(d, e)
            /\ ~Failed(e) /\ SameLists(d, e) /\ d[v].listed => x \notin d[v].vals
<1> DEFINE e == cp_remove_val(d, v, x)
           Ends == ~d[v].listed /\ x \notin {cp_dmin(d, v), cp_dmax(d, v)}
           less == [d EXCEPT ![v].vals = @ \ {x}]
<1>0. e \in Boxes(R)
  <2>1. d \in Good(R, {})
    BY DEF Good
  <2>2. e \in Good(R, {})
    BY <2>1, RemoveKeeps
  <2> QED BY <2>2 DEF Good
<1>1. e = IF Ends THEN d ELSE IF d[v].vals = {x} THEN Dead ELSE less
  BY DEF cp_remove_val
<1>2. /\ \A u \in Vars : u # v => less[u] = d[u]
      /\ less[v].vals = d[v].vals \ {x} /\ less[v].listed = d[v].listed
  <2>1. DOMAIN d = Vars /\ d[v] = [listed |-> d[v].listed, vals |-> d[v].vals]
    BY BoxVals DEF Boxes, Domain
  <2>2. less[v] = [d[v] EXCEPT !.vals = d[v].vals \ {x}] /\ \A u \in Vars : u # v => less[u] = d[u]
    BY <2>1
  <2> HIDE DEF less
  <2> QED BY <2>1, <2>2
<1> HIDE DEF e, less, Ends
<1>3. Below(d, e)
  <2>1. CASE e = d
    BY <2>1, BelowIsOrder
  <2>2. CASE e = Dead
    BY <2>2, DeadIsBelow
  <2>3. CASE e = less
    <3>1. Narrows(d, less)
      BY <1>2 DEF Narrows
    <3> QED BY <2>3, <3>1 DEF Below
  <2> QED BY <1>1, <2>1, <2>2, <2>3
<1>4. ASSUME ~Failed(e), SameLists(d, e), d[v].listed PROVE x \notin d[v].vals
  <2>1. ~Ends
    BY <1>4 DEF Ends
  <2>2. e # Dead
    BY <1>4, EmptyEnds
  <2>3. e = less
    BY <1>1, <2>1, <2>2
  <2>4. e[v] = d[v]
    BY <1>4 DEF SameLists
  <2> QED BY <1>2, <2>3, <2>4
<1> QED BY <1>0, <1>3, <1>4 DEF e

(* Removing the value of a fixed term from the others narrows, and leaves  *)
(* the lists as they were only if none of them had the value.              *)
LEMMA RemoveElsewhereIs ==
  ASSUME NEW R \in Ranges, NEW d \in Boxes(R), d # Crashed, NEW c, c.term \in Seq(Terms),
         NEW q \in DOMAIN c.term
  PROVE  LET g == RemoveElsewhere(d, c, q)
         IN /\ g \in Boxes(R) /\ Below(d, g)
            /\ g # Crashed /\ ~Failed(g) /\ SameLists(d, g) =>
                 \A j \in DOMAIN c.term : j # q /\ Listed(d, c.term[j]) =>
                    cp_dmin(d, c.term[q]) \notin d[c.term[j]].vals
<1> DEFINE n == Len(c.term)
           D == DOMAIN c.term
           U == Boxes(R)
           x == cp_dmin(d, c.term[q])
           op(e, j) == IF Failed(e) \/ j = q \/ isc(c.term[j]) THEN e
                       ELSE cp_remove_val(e, c.term[j], x)
           ins == [j \in D |-> j]
           Solves(h) == h = [s \in SUBSET D |-> IF s = {} THEN d
                                               ELSE op(h[s \ {Max(s)}], ins[Max(s)])]
           g == RemoveElsewhere(d, c, q)
<1>0. Places(D) /\ (\A i \in D : c.term[i] \in Terms) /\ n \in Nat /\ D = 1 .. n
  BY PlacesFinite
<1>1. g = (CHOOSE h : Solves(h))[D]
  BY DEF FoldLeft, MapThenFoldSet, RemoveElsewhere
<1>2. ASSUME NEW i \in D, NEW e \in U
      PROVE  /\ op(e, ins[i]) \in U /\ Below(e, op(e, ins[i]))
             /\ i # q /\ Listed(e, c.term[i]) /\ ~Failed(e) /\ ~Failed(op(e, ins[i])) /\ SameLists(e, op(e, ins[i])) =>
                  x \notin e[c.term[i]].vals
  <2> HIDE DEF x
  <2>1. CASE Failed(e) \/ i = q \/ isc(c.term[i])
    BY <2>1, BelowIsOrder DEF Listed
  <2>2. CASE ~(Failed(e) \/ i = q \/ isc(c.term[i]))
    <3>1. c.term[i] \in Vars
      BY <2>2 DEF isc
    <3>2. e # Crashed
      BY <2>2, <3>1, EmptyEnds
    <3>3. op(e, ins[i]) = cp_remove_val(e, c.term[i], x)
      BY <2>2
    <3> HIDE DEF op
    <3> QED BY <3>1, <3>2, <3>3, RemoveIsBelow DEF Listed
  <2> QED BY <2>1, <2>2
<1> HIDE DEF op, U, ins, D, n, x, g
<1> DEFINE G == [k \in D \X U |-> op(k[2], ins[k[1]])]
<1>3. G \in [D \X U -> U] /\ (\A i \in D, e \in U : G[<<i, e>>] = op(e, ins[i])) /\ d \in U
  BY <1>2 DEF U
<1> HIDE DEF G
<1>4. \E h : Solves(h)
  <2>1. PICK h \in [SUBSET D -> U] : FoldsLast(h, D, d, G)
    BY <1>0, <1>3, FoldExists
  <2>2. \A s \in SUBSET D : s # {} => Max(s) \in D
    BY <1>0, LastIs
  <2>3. \A s \in SUBSET D : h[s] = IF s = {} THEN d ELSE op(h[s \ {Max(s)}], ins[Max(s)])
    BY <2>1, <2>2, <1>3 DEF FoldsLast
  <2> QED BY <2>3
<1> DEFINE f == CHOOSE h : Solves(h)
<1>5. Solves(f)
  BY <1>4
<1> HIDE DEF f
<1>6. FoldsIn(f, n, U, d, G)
  <2>1. \A s \in SUBSET D : s # {} => Max(s) \in D
    BY <1>0, LastIs
  <2>2. f[{}] = d /\ \A s \in SUBSET D : s # {} => f[s] = op(f[s \ {Max(s)}], ins[Max(s)])
    BY <1>5
  <2> QED BY <2>1, <2>2, <1>0, <1>3 DEF FoldsIn
<1>7. PICK s : ChainTo(s, n, U, d, G, f[1 .. n])
  BY <1>0, <1>3, <1>6, ChainIs
<1>8. s[0] = d /\ s[n] = g /\ \A k \in 1 .. n : k - 1 \in 0 .. n /\ k \in 0 .. n /\ s[k - 1] \in U /\ s[k] \in U /\ s[k] = op(s[k - 1], ins[k])
  <2>1. \A k \in 1 .. n : k - 1 \in 0 .. n /\ k \in 0 .. n
    BY <1>0
  <2> QED BY <2>1, <1>0, <1>1, <1>3, <1>7 DEF f, ChainTo
<1>9. \A k \in 0 .. n : Below(d, s[k]) /\ Below(s[k], g)
  <2>1. \A k \in 1 .. n : Below(s[k - 1], s[k])
    BY <1>0, <1>2, <1>8
  <2> QED BY <2>1, <1>0, <1>8, ChainIsBelow
<1>10. g \in U /\ Below(d, g)
  <2>1. n \in 0 .. n
    BY <1>0
  <2>2. s[n] \in U
    BY <2>1, <1>7 DEF ChainTo
  <2> QED BY <2>1, <2>2, <1>8, <1>9
<1>11. ASSUME g # Crashed, ~Failed(g), SameLists(d, g), NEW j \in D, j # q, Listed(d, c.term[j])
       PROVE  x \notin d[c.term[j]].vals
  <2>1. j \in 1 .. n /\ j - 1 \in 0 .. n /\ j \in 0 .. n /\ s[j - 1] \in U /\ s[j] \in U
    BY <1>0, <1>8
  <2>2. SameLists(d, s[j - 1]) /\ SameLists(s[j - 1], g) /\ ~Failed(s[j - 1])
    BY <2>1, <1>9, <1>10, <1>11, Between DEF U
  <2>3. SameLists(s[j - 1], s[j]) /\ ~Failed(s[j])
    <3>1. Below(s[j - 1], s[j]) /\ Below(s[j], g)
      BY <2>1, <1>2, <1>8, <1>9
    <3> QED BY <2>1, <2>2, <3>1, <1>10, <1>11, Between DEF U
  <2>4. c.term[j] \in Vars /\ d[c.term[j]].listed
    BY <1>11 DEF Listed, isc
  <2>5. d[c.term[j]] = s[j - 1][c.term[j]] /\ Listed(s[j - 1], c.term[j])
    BY <2>2, <2>4, <1>11 DEF SameLists, Listed
  <2> QED BY <2>1, <2>2, <2>3, <2>5, <1>2, <1>8, <1>11
<1> QED BY <1>10, <1>11 DEF U, D, x, g

(* What all_different says of the domains d of its terms: the value of a   *)
(* fixed one is in no other list, and every value of a list belongs to a   *)
(* choice of different values for all of them.                             *)
OneEach(d, c) ==
  \A i, j \in DOMAIN c.term :
    i # j /\ cp_fixed(d, c.term[i]) /\ (isc(c.term[i]) \/ Listed(d, c.term[i])) /\ Listed(d, c.term[j]) =>
      cp_dmin(d, c.term[i]) \notin d[c.term[j]].vals
Lists(d, c) == [i \in {k \in DOMAIN c.term : Listed(d, c.term[k])} |-> d[c.term[i]].vals]
Uses(f, o, i, x) ==
  /\ f \in [DOMAIN o -> UNION {o[j] : j \in DOMAIN o}]
  /\ f[i] = x
  /\ \A j \in DOMAIN o : f[j] \in o[j]
  /\ \A j, l \in DOMAIN o : j # l => f[j] # f[l]
AllUsed(o) == \A i \in DOMAIN o : \A x \in o[i] : \E f : Uses(f, o, i, x)
Consistent(d, c) == AllUsed(Lists(d, c))

(* Both are about lists only.                                              *)
LEMMA SameListsAgree ==
  ASSUME NEW d, NEW e, SameLists(d, e), NEW c
  PROVE  /\ SameLists(e, d)
         /\ \A t : Listed(d, t) = Listed(e, t)
         /\ \A t : isc(t) \/ Listed(d, t) => Values(d, t) = Values(e, t) /\ cp_dmin(d, t) = cp_dmin(e, t)
                                             /\ (cp_fixed(d, t) <=> cp_fixed(e, t))
         /\ OneEach(d, c) <=> OneEach(e, c)
         /\ Consistent(d, c) <=> Consistent(e, c)
<1>1. SameLists(e, d)
  BY DEF SameLists
<1>2. \A t : Listed(d, t) = Listed(e, t)
  BY DEF SameLists, Listed, isc
<1>3. ASSUME NEW t, isc(t) \/ Listed(d, t) PROVE Values(d, t) = Values(e, t)
  BY <1>3 DEF SameLists, Listed, isc, Values
<1>4. \A t : isc(t) \/ Listed(d, t) => Values(d, t) = Values(e, t) /\ cp_dmin(d, t) = cp_dmin(e, t)
                                       /\ (cp_fixed(d, t) <=> cp_fixed(e, t))
  BY <1>3 DEF cp_dmin, cp_fixed
<1>5. \A t : Listed(d, t) => d[t].vals = e[t].vals
  BY DEF SameLists, Listed, isc
<1>6. OneEach(d, c) <=> OneEach(e, c)
  BY <1>2, <1>4, <1>5 DEF OneEach
<1>7. Consistent(d, c) <=> Consistent(e, c)
  <2>1. {k \in DOMAIN c.term : Listed(d, c.term[k])} = {k \in DOMAIN c.term : Listed(e, c.term[k])}
    BY <1>2
  <2>2. Lists(d, c) = Lists(e, c)
    BY <1>5, <2>1 DEF Lists
  <2> QED BY <2>2 DEF Consistent
<1> QED BY <1>1, <1>2, <1>4, <1>6, <1>7

(* The pass over the fixed terms narrows; if it leaves the lists as they   *)
(* were, the value of a fixed term is in no other list.                    *)
LEMMA SingletonsIs ==
  ASSUME NEW R \in Ranges, NEW d \in Boxes(R), NEW c, c.term \in Seq(Terms)
  PROVE  LET g == Singletons(d, c)
         IN /\ g \in Boxes(R) /\ Below(d, g)
            /\ g # Crashed /\ ~Failed(g) /\ SameLists(d, g) => OneEach(d, c)
<1> DEFINE n == Len(c.term)
           D == DOMAIN c.term
           U == Boxes(R)
           op(e, i) == IF Failed(e) \/ ~cp_fixed(e, c.term[i]) THEN e
                       ELSE IF Unreadable(e, c.term[i]) THEN Crashed
                       ELSE RemoveElsewhere(e, c, i)
           ins == [i \in D |-> i]
           Solves(h) == h = [s \in SUBSET D |-> IF s = {} THEN d
                                               ELSE op(h[s \ {Max(s)}], ins[Max(s)])]
           g == Singletons(d, c)
<1>0. Places(D) /\ (\A i \in D : c.term[i] \in Terms) /\ n \in Nat /\ D = 1 .. n
  BY PlacesFinite
<1>1. g = (CHOOSE h : Solves(h))[D]
  BY DEF FoldLeft, MapThenFoldSet, Singletons
<1>2. ASSUME NEW i \in D, NEW e \in U
      PROVE  op(e, ins[i]) \in U /\ Below(e, op(e, ins[i]))
  <2>1. CASE Vars = {}
    <3>1. e = Crashed /\ Crashed \in U
      BY <2>1, EmptyEnds, CrashedIsBox
    <3>2. RemoveElsewhere(e, c, i) \in U
      <4>1. e \in Good(R, {}) /\ cp_fixed(e, c.term[i]) => RemoveElsewhere(e, c, i) \in Good(R, {})
        BY RemoveElsewhereKeeps
      <4>2. cp_fixed(e, c.term[i])
        BY <2>1, FS_Singleton DEF cp_fixed, Values, isc
      <4> QED BY <4>1, <4>2 DEF Good
    <3>3. op(e, ins[i]) \in U
      BY <3>1, <3>2
    <3>4. op(e, ins[i]) = Crashed
      <4> HIDE DEF op
      <4> QED BY <3>3, <2>1, EmptyEnds
    <3> QED BY <3>3, <3>4 DEF Below
  <2>2. CASE Vars # {} /\ ~Failed(e)
    <3>1. e # Crashed
      BY <2>2, EmptyEnds
    <3>2. RemoveElsewhere(e, c, i) \in U /\ Below(e, RemoveElsewhere(e, c, i))
      BY <3>1, RemoveElsewhereIs
    <3>3. Crashed \in U /\ Below(e, Crashed) /\ Below(e, e)
      BY CrashedIsBox, BelowIsOrder DEF Below
    <3> QED BY <3>2, <3>3
  <2>3. CASE Failed(e)
    BY <2>3, BelowIsOrder
  <2> QED BY <2>1, <2>2, <2>3
<1> HIDE DEF op, U, ins, D, n, g
<1> DEFINE G == [k \in D \X U |-> op(k[2], ins[k[1]])]
<1>3. G \in [D \X U -> U] /\ (\A i \in D, e \in U : G[<<i, e>>] = op(e, ins[i])) /\ d \in U
  BY <1>2 DEF U
<1> HIDE DEF G
<1>4. \E h : Solves(h)
  <2>1. PICK h \in [SUBSET D -> U] : FoldsLast(h, D, d, G)
    BY <1>0, <1>3, FoldExists
  <2>2. \A s \in SUBSET D : s # {} => Max(s) \in D
    BY <1>0, LastIs
  <2>3. \A s \in SUBSET D : h[s] = IF s = {} THEN d ELSE op(h[s \ {Max(s)}], ins[Max(s)])
    BY <2>1, <2>2, <1>3 DEF FoldsLast
  <2> QED BY <2>3
<1> DEFINE f == CHOOSE h : Solves(h)
<1>5. Solves(f)
  BY <1>4
<1> HIDE DEF f
<1>6. FoldsIn(f, n, U, d, G)
  <2>1. \A s \in SUBSET D : s # {} => Max(s) \in D
    BY <1>0, LastIs
  <2>2. f[{}] = d /\ \A s \in SUBSET D : s # {} => f[s] = op(f[s \ {Max(s)}], ins[Max(s)])
    BY <1>5
  <2> QED BY <2>1, <2>2, <1>0, <1>3 DEF FoldsIn
<1>7. PICK s : ChainTo(s, n, U, d, G, f[1 .. n])
  BY <1>0, <1>3, <1>6, ChainIs
<1>8. s[0] = d /\ s[n] = g /\ \A k \in 1 .. n : k - 1 \in 0 .. n /\ k \in 0 .. n /\ s[k - 1] \in U /\ s[k] \in U /\ s[k] = op(s[k - 1], ins[k])
  <2>1. \A k \in 1 .. n : k - 1 \in 0 .. n /\ k \in 0 .. n
    BY <1>0
  <2> QED BY <2>1, <1>0, <1>1, <1>3, <1>7 DEF f, ChainTo
<1>9. \A k \in 0 .. n : Below(d, s[k]) /\ Below(s[k], g)
  <2>1. \A k \in 1 .. n : Below(s[k - 1], s[k])
    BY <1>0, <1>2, <1>8
  <2> QED BY <2>1, <1>0, <1>8, ChainIsBelow
<1>10. g \in U /\ Below(d, g)
  <2>1. n \in 0 .. n
    BY <1>0
  <2>2. s[n] \in U
    BY <2>1, <1>7 DEF ChainTo
  <2> QED BY <2>1, <2>2, <1>8, <1>9
<1>11. ASSUME g # Crashed, ~Failed(g), SameLists(d, g), NEW i \in D, NEW j \in D, i # j,
              cp_fixed(d, c.term[i]), isc(c.term[i]) \/ Listed(d, c.term[i]), Listed(d, c.term[j])
       PROVE  cp_dmin(d, c.term[i]) \notin d[c.term[j]].vals
  <2> DEFINE e == s[i - 1]
             h == s[i]
  <2>1. i \in 1 .. n /\ i - 1 \in 0 .. n /\ i \in 0 .. n /\ e \in U /\ h \in U /\ h = op(e, ins[i])
    BY <1>0, <1>8
  <2>0. Below(d, e) /\ Below(e, g) /\ Below(e, h) /\ Below(h, g)
    <3>1. Below(e, op(e, ins[i]))
      BY <2>1, <1>2
    <3> QED BY <2>1, <3>1, <1>9
  <2> HIDE DEF e, h
  <2>2. SameLists(d, e) /\ SameLists(e, g) /\ ~Failed(e) /\ e # Crashed
    BY <2>0, <2>1, <1>10, <1>11, Between DEF U
  <2>3. SameLists(e, h) /\ ~Failed(h) /\ h # Crashed
    BY <2>0, <2>1, <2>2, <1>10, <1>11, Between DEF U
  <2>4. /\ cp_fixed(e, c.term[i]) /\ cp_dmin(e, c.term[i]) = cp_dmin(d, c.term[i])
        /\ isc(c.term[i]) \/ Listed(e, c.term[i])
        /\ Listed(e, c.term[j])
        /\ e[c.term[j]].vals = d[c.term[j]].vals
    <3>1. Listed(e, c.term[j]) /\ (isc(c.term[i]) \/ Listed(e, c.term[i]))
      BY <2>2, <1>11, SameListsAgree
    <3>2. e[c.term[j]] = d[c.term[j]]
      BY <2>2, <1>11 DEF SameLists, Listed, isc
    <3> QED BY <3>1, <3>2, <2>2, <1>11, SameListsAgree
  <2>5. h = RemoveElsewhere(e, c, i)
    <3>1. ~Unreadable(e, c.term[i]) /\ ins[i] = i
      BY <2>4 DEF Unreadable, Listed, ins
    <3> QED BY <3>1, <2>1, <2>2, <2>4 DEF op
  <2>6. Listed(e, c.term[j])
    BY <2>2, <1>11, SameListsAgree
  <2> QED BY <2>1, <2>2, <2>3, <2>4, <2>5, <2>6, <1>11, RemoveElsewhereIs DEF U, D
<1> QED BY <1>10, <1>11 DEF U, D, g, OneEach

(* The matchings that cp_prop_alldiff looks for, and the support of every  *)
(* value by one of them.                                                   *)
AllSupported(d, c) ==
  /\ Matches(Options(d, c))
  /\ \A i \in MatchedTerms(d, c) : \A x \in d[c.term[i]].vals : Supported(d, c, i, x)

(* Pruning narrows; if it leaves the lists as they were, every value of a  *)
(* list that is not fixed has its support.                                 *)
LEMMA PruneIs ==
  ASSUME NEW R \in Ranges, NEW d \in Boxes(R), d # Crashed, NEW c, c.term \in Seq(Terms)
  PROVE  LET e == Prune(d, c)
         IN /\ e \in Boxes(R) /\ Below(d, e)
            /\ ~Failed(e) /\ SameLists(d, e) => AllSupported(d, c)
<1> DEFINE e == Prune(d, c)
           Left(v) == {x \in d[v].vals : \A i \in MatchedTerms(d, c) : c.term[i] = v => Supported(d, c, i, x)}
           less == [v \in Vars |-> [d[v] EXCEPT !.vals = Left(v)]]
<1>0. e \in Boxes(R)
  <2>1. d \in Good(R, {})
    BY DEF Good
  <2>2. e \in Good(R, {})
    BY <2>1, PruneKeeps
  <2> QED BY <2>2 DEF Good
<1>1. e = IF Failed(d) THEN d ELSE IF ~Matches(Options(d, c)) THEN Dead ELSE less
  BY DEF Prune
<1>2. \A v \in Vars : less[v].vals = Left(v) /\ less[v].listed = d[v].listed
  <2> TAKE v \in Vars
  <2>1. d[v] = [listed |-> d[v].listed, vals |-> d[v].vals] /\ less[v] = [d[v] EXCEPT !.vals = Left(v)]
    BY BoxVals DEF Domain
  <2> HIDE DEF less, Left
  <2> QED BY <2>1
<1> HIDE DEF e, less
<1>3. Below(d, e)
  <2>1. CASE e = d
    BY <2>1, BelowIsOrder
  <2>2. CASE e = Dead
    BY <2>2, DeadIsBelow
  <2>3. CASE e = less
    <3>1. Narrows(d, less)
      BY <1>2 DEF Narrows
    <3> QED BY <2>3, <3>1 DEF Below
  <2> QED BY <1>1, <2>1, <2>2, <2>3
<1>4. ASSUME ~Failed(e), SameLists(d, e) PROVE AllSupported(d, c)
  <2>1. CASE Vars = {}
    <3>1. d = Crashed
      BY <2>1, EmptyEnds
    <3> QED BY <3>1
  <2>2. CASE Vars # {}
    <3>1. ~Failed(d)
      BY <1>1, <1>4
    <3>2. Matches(Options(d, c)) /\ e = less
      BY <1>1, <1>4, <2>2, <3>1, EmptyEnds
    <3>3. ASSUME NEW i \in MatchedTerms(d, c), NEW x \in d[c.term[i]].vals PROVE Supported(d, c, i, x)
      <4>1. c.term[i] \in Vars /\ d[c.term[i]].listed
        BY DEF MatchedTerms, Listed, isc
      <4>2. e[c.term[i]].vals = d[c.term[i]].vals
        BY <4>1, <1>4 DEF SameLists
      <4>3. x \in Left(c.term[i])
        BY <4>1, <4>2, <3>2, <1>2
      <4> QED BY <4>3
    <3> QED BY <3>2, <3>3 DEF AllSupported
  <2> QED BY <2>1, <2>2
<1> QED BY <1>0, <1>3, <1>4 DEF e

(* Together with the removal of the fixed values that is all that the      *)
(* constraint asks of the lists.                                           *)
LEMMA SupportedIsUsed ==
  ASSUME NEW R \in Ranges, NEW d \in Boxes(R), NEW c, c.term \in Seq(Terms), OneEach(d, c), AllSupported(d, c)
  PROVE  Consistent(d, c)
<1> DEFINE D == DOMAIN c.term
           L == {k \in D : Listed(d, c.term[k])}
           M == MatchedTerms(d, c)
           o == Lists(d, c)
           w == Options(d, c)
           fix(i) == cp_dmin(d, c.term[i])
<1>0. /\ M \subseteq L /\ DOMAIN o = L /\ DOMAIN w = M
      /\ \A i \in L : i \in D /\ o[i] = d[c.term[i]].vals /\ o[i] = Values(d, c.term[i]) /\ (i \in M => w[i] = o[i])
      /\ \A i \in L \ M : cp_fixed(d, c.term[i])
  BY DEF MatchedTerms, Lists, Options, Values, Listed
<1>1. ASSUME NEW i \in L \ M PROVE o[i] = {fix(i)}
  <2>1. c.term[i] \in Terms
    BY PlacesFinite
  <2>2. Values(d, c.term[i]) = {fix(i)}
    BY <2>1, <1>0, FixedIs
  <2> QED BY <2>2, <1>0
<1>2. \A j, l \in L : j # l /\ l \notin M => fix(l) \notin o[j]
  BY <1>0 DEF OneEach
<1> HIDE DEF L, M, o, w, fix
<1>3. ASSUME NEW f, NEW i \in L, NEW x \in o[i],
             \A j \in M : f[j] \in o[j], \A j, l \in M : j # l => f[j] # f[l], i \in M => f[i] = x
      PROVE  \E g : Uses(g, o, i, x)
  <2> DEFINE g == [j \in L |-> IF j \in M THEN f[j] ELSE fix(j)]
  <2>1. \A j \in L : g[j] \in o[j]
    BY <1>1, <1>3
  <2>2. g[i] = x
    BY <1>1, <1>3
  <2>3. ASSUME NEW j \in L, NEW l \in L, j # l PROVE g[j] # g[l]
    <3>1. CASE j \in M /\ l \in M
      BY <3>1, <2>3, <1>3
    <3>2. CASE l \notin M
      <4>1. g[l] = fix(l) /\ g[j] \in o[j]
        BY <3>2, <2>1
      <4> HIDE DEF g
      <4> QED BY <4>1, <3>2, <2>3, <1>2
    <3>3. CASE j \notin M
      <4>1. g[j] = fix(j) /\ g[l] \in o[l]
        BY <3>3, <2>1
      <4> HIDE DEF g
      <4> QED BY <4>1, <3>3, <2>3, <1>2
    <3> QED BY <3>1, <3>2, <3>3
  <2>4. g \in [L -> UNION {o[j] : j \in L}]
    <3>1. \A j \in L : g[j] \in UNION {o[l] : l \in L}
      BY <2>1
    <3>2. g = [j \in L |-> g[j]]
      OBVIOUS
    <3> HIDE DEF g
    <3> QED BY <3>1, <3>2
  <2> HIDE DEF g
  <2>5. Uses(g, o, i, x)
    BY <2>1, <2>2, <2>3, <2>4, <1>0 DEF Uses
  <2> QED BY <2>5
<1>4. ASSUME NEW i \in L, NEW x \in o[i]
      PROVE  \E f : /\ \A j \in M : f[j] \in o[j]
                    /\ \A j, l \in M : j # l => f[j] # f[l]
                    /\ i \in M => f[i] = x
  <2>1. CASE i \in M
    <3> DEFINE z == [w EXCEPT ![i] = {x}]
    <3>1. Matches(z)
      <4>1. x \in d[c.term[i]].vals
        BY <1>0, <1>4
      <4>2. Supported(d, c, i, x)
        BY <2>1, <4>1 DEF AllSupported, M
      <4> QED BY <4>2 DEF Supported, w
    <3>2. DOMAIN z = M /\ z[i] = {x} /\ \A j \in M : z[j] \subseteq o[j]
      BY <2>1, <1>0, <1>4
    <3> HIDE DEF z
    <3>3. PICK f : (\A j \in DOMAIN z : f[j] \in z[j]) /\ (\A j, l \in DOMAIN z : j # l => f[j] # f[l])
      BY <3>1 DEF Matches
    <3>4. (\A j \in M : f[j] \in o[j]) /\ (\A j, l \in M : j # l => f[j] # f[l]) /\ f[i] = x
      BY <3>2, <3>3, <2>1
    <3> QED BY <3>4
  <2>2. CASE i \notin M
    <3>1. Matches(w)
      BY DEF AllSupported, w
    <3>2. PICK f : (\A j \in M : f[j] \in w[j]) /\ (\A j, l \in M : j # l => f[j] # f[l])
      BY <3>1, <1>0 DEF Matches
    <3>3. (\A j \in M : f[j] \in o[j]) /\ (\A j, l \in M : j # l => f[j] # f[l])
      BY <3>2, <1>0
    <3> QED BY <3>3, <2>2
  <2> QED BY <2>1, <2>2
<1>5. \A i \in L : \A x \in o[i] : \E g : Uses(g, o, i, x)
  <2> TAKE i \in L
  <2> TAKE x \in o[i]
  <2>1. PICK f : /\ \A j \in M : f[j] \in o[j]
                 /\ \A j, l \in M : j # l => f[j] # f[l]
                 /\ i \in M => f[i] = x
    BY <1>4
  <2> QED BY <2>1, <1>3
<1>6. AllUsed(o)
  BY <1>0, <1>5 DEF AllUsed
<1> QED BY <1>6 DEF Consistent, o

(* cp_prop_alldiff narrows, and the lists that it leaves as they were are  *)
(* consistent: "maximum-matching arc consistency".                         *)
LEMMA AllDiffIs ==
  ASSUME NEW R \in Ranges, NEW d \in Boxes(R), NEW c, c.term \in Seq(Terms)
  PROVE  LET g == cp_prop_alldiff(d, c)
         IN /\ g \in Boxes(R) /\ Below(d, g)
            /\ g # Crashed /\ ~Failed(g) /\ SameLists(d, g) => OneEach(d, c) /\ Consistent(d, c)
<1> DEFINE n == Len(c.term)
           D == DOMAIN c.term
           U == Boxes(R)
           b == Singletons(d, c)
           op(e, t) == PruneRound(e, c)
           ins == c.term
           Solves(h) == h = [s \in SUBSET D |-> IF s = {} THEN b
                                               ELSE op(h[s \ {Max(s)}], ins[Max(s)])]
           g == cp_prop_alldiff(d, c)
<1>0. Places(D) /\ (\A i \in D : c.term[i] \in Terms) /\ n \in Nat /\ D = 1 .. n
  BY PlacesFinite
<1>1. g = (CHOOSE h : Solves(h))[D]
  BY DEF FoldLeft, MapThenFoldSet, cp_prop_alldiff
<1>2. ASSUME NEW i \in D, NEW e \in U
      PROVE  /\ op(e, ins[i]) \in U /\ Below(e, op(e, ins[i]))
             /\ e # Crashed => Prune(e, c) \in U /\ Below(e, Prune(e, c)) /\ Below(Prune(e, c), op(e, ins[i]))
  <2>1. CASE e = Crashed
    <3>1. op(e, ins[i]) = Crashed
      <4>1. CASE Vars # {}
        <5>1. Prune(e, c) = e
          BY <2>1, <4>1, EmptyEnds DEF Prune
        <5> QED BY <5>1, <2>1 DEF PruneRound
      <4>2. CASE Vars = {}
        <5>1. Prune(e, c) \in U
          <6>1. e \in Good(R, {})
            BY DEF Good
          <6>2. Prune(e, c) \in Good(R, {})
            BY <6>1, PruneKeeps
          <6> QED BY <6>2 DEF Good
        <5>2. Prune(e, c) = e
          BY <2>1, <4>2, <5>1, EmptyEnds
        <5> QED BY <5>2, <2>1 DEF PruneRound
      <4> QED BY <4>1, <4>2
    <3> HIDE DEF op
    <3> QED BY <2>1, <3>1, BelowIsOrder
  <2>2. CASE e # Crashed
    <3>1. Prune(e, c) \in U /\ Below(e, Prune(e, c))
      BY <2>2, PruneIs
    <3>2. Singletons(Prune(e, c), c) \in U /\ Below(Prune(e, c), Singletons(Prune(e, c), c))
      BY <3>1, SingletonsIs
    <3>3. \/ Prune(e, c) = e /\ op(e, ins[i]) = e
          \/ op(e, ins[i]) = Singletons(Prune(e, c), c)
      BY DEF PruneRound
    <3> HIDE DEF op
    <3> QED BY <3>1, <3>2, <3>3, BelowIsOrder
  <2> QED BY <2>1, <2>2
<1>10. b \in U /\ Below(d, b)
  BY SingletonsIs
<1> HIDE DEF op, U, ins, D, n, g, b
<1> DEFINE G == [k \in D \X U |-> op(k[2], ins[k[1]])]
<1>3. G \in [D \X U -> U] /\ (\A i \in D, e \in U : G[<<i, e>>] = op(e, ins[i])) /\ b \in U
  BY <1>2, <1>10
<1> HIDE DEF G
<1>4. \E h : Solves(h)
  <2>1. PICK h \in [SUBSET D -> U] : FoldsLast(h, D, b, G)
    BY <1>0, <1>3, FoldExists
  <2>2. \A s \in SUBSET D : s # {} => Max(s) \in D
    BY <1>0, LastIs
  <2>3. \A s \in SUBSET D : h[s] = IF s = {} THEN b ELSE op(h[s \ {Max(s)}], ins[Max(s)])
    BY <2>1, <2>2, <1>3 DEF FoldsLast
  <2> QED BY <2>3
<1> DEFINE f == CHOOSE h : Solves(h)
<1>5. Solves(f)
  BY <1>4
<1> HIDE DEF f
<1>6. FoldsIn(f, n, U, b, G)
  <2>1. \A s \in SUBSET D : s # {} => Max(s) \in D
    BY <1>0, LastIs
  <2>2. f[{}] = b /\ \A s \in SUBSET D : s # {} => f[s] = op(f[s \ {Max(s)}], ins[Max(s)])
    BY <1>5
  <2> QED BY <2>1, <2>2, <1>0, <1>3 DEF FoldsIn
<1>7. PICK s : ChainTo(s, n, U, b, G, f[1 .. n])
  BY <1>0, <1>3, <1>6, ChainIs
<1>8. s[0] = b /\ s[n] = g /\ \A k \in 1 .. n : k - 1 \in 0 .. n /\ k \in 0 .. n /\ s[k - 1] \in U /\ s[k] \in U /\ s[k] = op(s[k - 1], ins[k])
  <2>1. \A k \in 1 .. n : k - 1 \in 0 .. n /\ k \in 0 .. n
    BY <1>0
  <2> QED BY <2>1, <1>0, <1>1, <1>3, <1>7 DEF f, ChainTo
<1>9. \A k \in 0 .. n : Below(b, s[k]) /\ Below(s[k], g)
  <2>1. \A k \in 1 .. n : Below(s[k - 1], s[k])
    BY <1>0, <1>2, <1>8
  <2> QED BY <2>1, <1>0, <1>8, ChainIsBelow
<1>11. g \in U /\ Below(b, g) /\ Below(d, g)
  <2>1. n \in 0 .. n
    BY <1>0
  <2>2. s[n] \in U
    BY <2>1, <1>7 DEF ChainTo
  <2>3. g \in U /\ Below(b, g)
    BY <2>1, <2>2, <1>8, <1>9
  <2> QED BY <2>3, <1>10, BelowIsOrder
<1>12. ASSUME g # Crashed, ~Failed(g), SameLists(d, g) PROVE OneEach(d, c) /\ Consistent(d, c)
  <2>1. SameLists(d, b) /\ SameLists(b, g) /\ ~Failed(b) /\ b # Crashed
    BY <1>10, <1>11, <1>12, Between DEF U
  <2>2. OneEach(d, c)
    BY <2>1, SingletonsIs DEF b
  <2>3. CASE n = 0
    <3>1. DOMAIN c.term = {}
      BY <2>3, <1>0 DEF D
    <3>2. DOMAIN Lists(d, c) = {}
      BY <3>1 DEF Lists
    <3> QED BY <2>2, <3>2 DEF Consistent, AllUsed
  <2>4. CASE n # 0
    <3> DEFINE e == Prune(b, c)
    <3>1. 1 \in 1 .. n /\ 1 \in D /\ 1 - 1 = 0
      BY <2>4, <1>0
    <3>2. s[1] = op(b, ins[1]) /\ Below(s[1], g) /\ s[1] \in U
      BY <3>1, <1>8, <1>9
    <3>3. e \in U /\ Below(b, e) /\ Below(e, s[1])
      BY <3>1, <3>2, <2>1, <1>2, <1>10
    <3> HIDE DEF e
    <3>4. Below(e, g)
      BY <3>2, <3>3, BelowIsOrder
    <3>5. SameLists(b, e) /\ ~Failed(e)
      BY <3>3, <3>4, <2>1, <1>10, <1>11, <1>12, Between DEF U
    <3>6. AllSupported(b, c)
      BY <3>5, <2>1, <1>10, PruneIs DEF e, U
    <3>7. OneEach(b, c)
      BY <2>1, <2>2, SameListsAgree
    <3>8. Consistent(b, c)
      BY <3>6, <3>7, <1>10, SupportedIsUsed DEF U
    <3> QED BY <3>8, <2>1, <2>2, SameListsAgree
  <2> QED BY <2>3, <2>4
<1> QED BY <1>11, <1>12 DEF U, g

----------------------------------------------------------------------------
(* A leaf: every variable has one value, on its list.  There a propagator  *)
(* has nothing left to do but to accept the point or to fail.              *)

(* At a leaf every term is fixed, at the value of its point.               *)
LEMMA LeafIs ==
  ASSUME NEW R \in Ranges, NEW d \in Boxes(R), Assigned(d)
  PROVE  /\ Fits(Leaf(d), d) /\ ~Failed(d)
         /\ \A v \in Vars : Leaf(d)[v] = Val(Leaf(d), v) /\ d[v] = Domain(TRUE, {Val(Leaf(d), v)}) /\ d[v].listed
         /\ \A t \in Terms : /\ cp_fixed(d, t) /\ Values(d, t) = {Val(Leaf(d), t)} /\ Val(Leaf(d), t) \in Int
                             /\ cp_dmin(d, t) = Val(Leaf(d), t) /\ cp_dmax(d, t) = Val(Leaf(d), t)
<1> DEFINE p == Leaf(d)
<1>1. \A v \in Vars : ~isc(v) /\ cp_fixed(d, v) /\ d[v].listed
  BY DEF Assigned, Unreadable, isc
<1>2. \A v \in Vars : Values(d, v) = {cp_dmin(d, v)} /\ p[v] = cp_dmin(d, v) /\ Values(d, v) = d[v].vals
  BY <1>1, FixedIs DEF Terms, Leaf, Values
<1> HIDE DEF p
<1>3. Fits(p, d)
  BY <1>2 DEF Fits
<1>4. ~Failed(d)
  BY <1>3, FitsLives
<1>5. \A v \in Vars : p[v] = Val(p, v) /\ d[v] = Domain(TRUE, {Val(p, v)})
  <2> TAKE v \in Vars
  <2>1. d[v] = Domain(d[v].listed, d[v].vals) /\ d[v].listed \in BOOLEAN
    BY BoxVals
  <2>2. p[v] = Val(p, v)
    BY <1>1 DEF Val
  <2> QED BY <2>1, <2>2, <1>1, <1>2
<1>6. \A t \in Terms : cp_fixed(d, t)
  BY <1>1, FixedIs
<1>7. \A t \in Terms : /\ Values(d, t) = {Val(p, t)} /\ Val(p, t) \in Int
                       /\ cp_dmin(d, t) = Val(p, t) /\ cp_dmax(d, t) = Val(p, t)
  BY <1>3, <1>6, TermFacts
<1> QED BY <1>1, <1>3, <1>4, <1>5, <1>6, <1>7 DEF p

(* There cp_intersect and cp_set_vals accept or fail, and after a failure  *)
(* nothing is accepted.                                                    *)
LEMMA LeafSteps ==
  ASSUME NEW R \in Ranges, NEW d \in Boxes(R), Assigned(d), Vars # {}
  PROVE  /\ d # Dead /\ Failed(Dead)
         /\ \A t \in Terms : \A lo, hi :
              cp_intersect(d, t, lo, hi) = IF lo <= Val(Leaf(d), t) /\ Val(Leaf(d), t) <= hi THEN d ELSE Dead
         /\ \A t, lo, hi : cp_intersect(Dead, t, lo, hi) = Dead
         /\ \A t \in Terms : \A x \in Int :
              cp_equate(d, t, x) = IF Val(Leaf(d), t) = x THEN d ELSE Dead
         /\ \A v \in Vars : \A S : cp_set_vals(d, v, S) = IF Leaf(d)[v] \in S THEN d ELSE Dead
<1> DEFINE p == Leaf(d)
<1>0. /\ ~Failed(d) /\ DOMAIN d = Vars
      /\ \A v \in Vars : p[v] = Val(p, v) /\ d[v] = Domain(TRUE, {p[v]}) /\ d[v].vals = {p[v]} /\ d[v].listed
      /\ \A t \in Terms : Values(d, t) = {Val(p, t)} /\ Val(p, t) \in Int
  <2>1. ~Failed(d) /\ DOMAIN d = Vars
    BY LeafIs DEF Boxes
  <2>2. \A t \in Terms : Values(d, t) = {Val(p, t)} /\ Val(p, t) \in Int
    BY LeafIs
  <2>3. \A v \in Vars : p[v] = Val(p, v) /\ d[v] = Domain(TRUE, {Val(p, v)}) /\ d[v].listed
    BY LeafIs
  <2> HIDE DEF p
  <2>4. \A v \in Vars : d[v] = Domain(TRUE, {p[v]}) /\ d[v].vals = {p[v]}
    <3>1. \A S : Domain(TRUE, S).vals = S
      BY DEF Domain
    <3> QED BY <2>3, <3>1
  <2> QED BY <2>1, <2>2, <2>3, <2>4
<1> HIDE DEF p
<1>1. Failed(Dead) /\ d # Dead
  BY <1>0, EmptyEnds
<1>2. ASSUME NEW t \in Terms, NEW lo, NEW hi
      PROVE  cp_intersect(d, t, lo, hi) = IF lo <= Val(p, t) /\ Val(p, t) <= hi THEN d ELSE Dead
  <2> DEFINE keep == {x \in Values(d, t) : lo <= x /\ x <= hi}
  <2>1. cp_intersect(d, t, lo, hi) =
          IF keep = {} THEN Dead
          ELSE IF isc(t) THEN d
          ELSE [d EXCEPT ![t] = Domain(@.listed \/ Cardinality(keep) <= CP_MAXVALS, keep)]
    BY <1>0 DEF cp_intersect
  <2>2. keep = IF lo <= Val(p, t) /\ Val(p, t) <= hi THEN {Val(p, t)} ELSE {}
    BY <1>0
  <2> HIDE DEF keep
  <2>3. CASE ~(lo <= Val(p, t) /\ Val(p, t) <= hi)
    BY <2>1, <2>2, <2>3
  <2>4. CASE lo <= Val(p, t) /\ Val(p, t) <= hi /\ isc(t)
    BY <2>1, <2>2, <2>4
  <2>5. CASE lo <= Val(p, t) /\ Val(p, t) <= hi /\ ~isc(t)
    <3>1. t \in Vars /\ d[t] = Domain(TRUE, keep)
      BY <2>2, <2>5, <1>0 DEF isc
    <3>2. (d[t].listed \/ Cardinality(keep) <= CP_MAXVALS) = TRUE
      BY <3>1, <1>0
    <3>3. [d EXCEPT ![t] = Domain(@.listed \/ Cardinality(keep) <= CP_MAXVALS, keep)] = [d EXCEPT ![t] = d[t]]
      BY <3>1, <3>2, <1>0
    <3>4. [d EXCEPT ![t] = d[t]] = d
      BY <1>0 DEF Boxes
    <3> QED BY <3>3, <3>4, <2>1, <2>2, <2>5
  <2> QED BY <2>3, <2>4, <2>5
<1>3. \A t, lo, hi : cp_intersect(Dead, t, lo, hi) = Dead
  BY <1>1 DEF cp_intersect
<1>4. ASSUME NEW t \in Terms, NEW x \in Int PROVE cp_equate(d, t, x) = IF Val(p, t) = x THEN d ELSE Dead
  <2>1. Val(p, t) \in Int /\ (x <= Val(p, t) /\ Val(p, t) <= x <=> Val(p, t) = x)
    BY <1>0
  <2> QED BY <2>1, <1>2 DEF cp_equate
<1>5. ASSUME NEW v \in Vars, NEW S PROVE cp_set_vals(d, v, S) = IF p[v] \in S THEN d ELSE Dead
  <2>1. cp_set_vals(d, v, S) = IF S \cap d[v].vals = {} THEN Dead ELSE [d EXCEPT ![v] = Domain(TRUE, S \cap d[v].vals)]
    BY <1>0 DEF cp_set_vals
  <2>2. S \cap d[v].vals = IF p[v] \in S THEN {p[v]} ELSE {}
    BY <1>0
  <2>3. [d EXCEPT ![v] = Domain(TRUE, {p[v]})] = d
    BY <1>0 DEF Boxes
  <2> QED BY <2>1, <2>2, <2>3
<1> QED BY <1>1, <1>2, <1>3, <1>4, <1>5 DEF p

(* A linear constraint: the sum is known.                                  *)
LEMMA LinDecides ==
  ASSUME NEW R \in Ranges, NEW d \in Boxes(R), Assigned(d), Vars # {}, NEW c, LinShape(c), cp_prop_lin(d, c) = d
  PROVE  Holds(c.rel, Sum(Leaf(d), c), c.rhs)
<1>1. FreeTerms(d, c) = {}
  BY DEF FreeTerms, LinShape, Assigned
<1>2. Sum(Leaf(d), c) = FixedSum(d, c)
  BY <1>1, LeafIs, FixedSumIs
<1>3. d # Dead
  BY LeafSteps
<1> QED BY <1>1, <1>2, <1>3 DEF cp_prop_lin

(* Its reification: the sum is known, and so is whether it holds.          *)
LEMMA ReifDecides ==
  ASSUME NEW R \in Ranges, NEW d \in Boxes(R), Assigned(d), Vars # {}, NEW c, LinShape(c), c \in Reifs,
         ~isc(c.r), R[c.r] = {0, 1}, cp_prop_reif(d, c) = d
  PROVE  Val(Leaf(d), c.r) = IF Holds(c.rel, Sum(Leaf(d), c), c.rhs) THEN 1 ELSE 0
<1> DEFINE n == [c EXCEPT !.rel = Negation(c.rel)]
           p == Leaf(d)
<1>0. /\ c.r \in Vars /\ c.rel \in Rels /\ cp_fixed(d, c.r) /\ Values(d, c.r) = {Val(p, c.r)}
      /\ Val(p, c.r) \in {0, 1}
  <2>1. c.r \in Vars /\ c.rel \in Rels
    BY DEF isc, Reifs
  <2>2. cp_fixed(d, c.r) /\ Values(d, c.r) = {Val(p, c.r)}
    BY <2>1, LeafIs DEF Terms
  <2>3. Values(d, c.r) \subseteq R[c.r]
    BY <2>1, BoxVals DEF Values
  <2> QED BY <2>1, <2>2, <2>3
<1>1. /\ n.var = c.var /\ n.coef = c.coef /\ n.rhs = c.rhs /\ n.rel = Negation(c.rel)
      /\ Sum(p, n) = Sum(p, c)
  <2>1. n.var = c.var /\ n.coef = c.coef /\ n.rhs = c.rhs /\ n.rel = Negation(c.rel)
    BY DEF Reifs
  <2> HIDE DEF n
  <2> QED BY <2>1 DEF Sum, Part
<1>2. cp_prop_reif(d, c) = cp_prop_lin(d, IF Values(d, c.r) = {1} THEN c ELSE n)
  BY <1>0 DEF cp_prop_reif
<1> HIDE DEF n, p
<1>3. LinShape(n)
  BY <1>1 DEF LinShape
<1>4. CASE Val(p, c.r) = 1
  <2>1. cp_prop_lin(d, c) = d
    BY <1>0, <1>2, <1>4
  <2> QED BY <2>1, <1>4, LinDecides DEF p
<1>5. CASE Val(p, c.r) = 0
  <2>1. cp_prop_lin(d, n) = d
    BY <1>0, <1>2, <1>5
  <2>2. Holds(n.rel, Sum(p, n), n.rhs)
    BY <2>1, <1>3, LinDecides DEF p
  <2>3. Sum(p, c) \in Int /\ c.rhs \in Int
    BY LeafIs, FixedSumIs DEF p, LinShape
  <2>4. ~Holds(c.rel, Sum(p, c), c.rhs)
    BY <2>2, <2>3, <1>0, <1>1, NegationIs
  <2> QED BY <2>4, <1>5 DEF p
<1> QED BY <1>0, <1>4, <1>5

(* c = a * b.                                                              *)
LEMMA TimesDecides ==
  ASSUME NEW R \in Ranges, NEW d \in Boxes(R), Assigned(d), Vars # {}, NEW r, r.a \in Terms, r.b \in Terms,
         r.c \in Terms, cp_prop_times(d, r) = d
  PROVE  Val(Leaf(d), r.c) = Val(Leaf(d), r.a) * Val(Leaf(d), r.b)
<1> DEFINE x == Val(Leaf(d), r.a)   y == Val(Leaf(d), r.b)
<1>0. cp_fixed(d, r.a) /\ cp_fixed(d, r.b) /\ cp_dmin(d, r.a) = x /\ cp_dmin(d, r.b) = y /\ x \in Int /\ y \in Int
  BY LeafIs
<1>1. cp_prop_times(d, r) = IF x * y \in MinWord .. MaxWord THEN cp_equate(d, r.c, x * y) ELSE Dead
  BY <1>0 DEF cp_prop_times
<1> HIDE DEF x, y
<1>2. x * y \in Int /\ d # Dead
  BY <1>0, LeafSteps
<1>3. cp_equate(d, r.c, x * y) = IF Val(Leaf(d), r.c) = x * y THEN d ELSE Dead
  BY <1>2, LeafSteps
<1> QED BY <1>1, <1>2, <1>3 DEF x, y

(* c = a / k and c = a % k.                                                *)
LEMMA DivModDecides ==
  ASSUME NEW R \in Ranges, NEW d \in Boxes(R), Assigned(d), Vars # {}, NEW r, r.a \in Terms, r.c \in Terms,
         r.k \in Int, cp_prop_divmod(d, r) = d
  PROVE  Val(Leaf(d), r.c) = IF r.kind = "div" THEN Quotient(Val(Leaf(d), r.a), r.k)
                             ELSE Remainder(Val(Leaf(d), r.a), r.k)
<1> DEFINE a == Val(Leaf(d), r.a)
           x == IF r.kind = "div" THEN Quotient(a, r.k) ELSE Remainder(a, r.k)
<1>0. cp_fixed(d, r.a) /\ cp_dmin(d, r.a) = a /\ a \in Int /\ d # Dead
  BY LeafIs, LeafSteps
<1>1. r.k # 0 /\ cp_equate(d, r.c, x) = d
  BY <1>0 DEF cp_prop_divmod
<1>2. x \in Int
  <2>1. \A z, k \in Int : k # 0 => Quotient(z, k) \in Int
    <3> TAKE z, k \in Int
    <3>1. k # 0 => Abs(z) \in Int /\ Abs(k) \in Int /\ Abs(k) > 0
      BY DEF Abs
    <3> QED BY <3>1 DEF Quotient
  <2>2. \A z, k \in Int : k # 0 => Remainder(z, k) \in Int
    BY <2>1 DEF Remainder
  <2> HIDE DEF a
  <2> QED BY <2>1, <2>2, <1>0, <1>1
<1> HIDE DEF x
<1>3. Val(Leaf(d), r.c) = x
  BY <1>0, <1>1, <1>2, LeafSteps
<1> QED BY <1>3 DEF x

(* c = |a|.                                                                *)
LEMMA AbsDecides ==
  ASSUME NEW R \in Ranges, NEW d \in Boxes(R), Assigned(d), Vars # {}, NEW r, r.a \in Terms, r.c \in Terms,
         cp_prop_abs(d, r) = d
  PROVE  Val(Leaf(d), r.c) = Abs(Val(Leaf(d), r.a))
<1> DEFINE x == Abs(Val(Leaf(d), r.a))
<1>0. cp_fixed(d, r.a) /\ cp_dmin(d, r.a) = Val(Leaf(d), r.a) /\ d # Dead /\ x \in Int
  <2>1. Val(Leaf(d), r.a) \in Int /\ cp_fixed(d, r.a) /\ cp_dmin(d, r.a) = Val(Leaf(d), r.a)
    BY LeafIs
  <2>2. \A z \in Int : Abs(z) \in Int
    BY DEF Abs
  <2> QED BY <2>1, <2>2, LeafSteps
<1>1. cp_equate(d, r.c, x) = d
  BY <1>0 DEF cp_prop_abs
<1> HIDE DEF x
<1>2. Val(Leaf(d), r.c) = x
  BY <1>0, <1>1, LeafSteps
<1> QED BY <1>2 DEF x

(* c = a ^ e.                                                              *)
LEMMA PowDecides ==
  ASSUME NEW R \in Ranges, NEW d \in Boxes(R), Assigned(d), Vars # {}, NEW r, r.a \in Terms, r.c \in Terms,
         r.e \in Nat, cp_prop_pow(d, r) = d
  PROVE  Val(Leaf(d), r.c) = PowOf(Val(Leaf(d), r.a), r.e)
<1> DEFINE x == Val(Leaf(d), r.a)
<1>0. /\ cp_fixed(d, r.a) /\ cp_fixed(d, r.c) /\ cp_dmin(d, r.a) = x /\ x \in Int /\ d # Dead
  BY LeafIs, LeafSteps
<1>1. CASE r.e = 0
  <2>1. cp_equate(d, r.c, 1) = d
    BY <1>1 DEF cp_prop_pow
  <2>2. Val(Leaf(d), r.c) = 1
    BY <2>1, <1>0, LeafSteps
  <2> HIDE DEF x
  <2>3. PowOf(x, 0) = 1
    BY <1>0, FirstPowers
  <2> QED BY <2>2, <2>3, <1>1 DEF x
<1>2. CASE r.e > 0
  <2>1. cp_prop_pow(d, r) = IF PowOf(x, r.e) \in MinWord .. MaxWord THEN cp_equate(d, r.c, PowOf(x, r.e)) ELSE Dead
    BY <1>0, <1>2 DEF cp_prop_pow
  <2> HIDE DEF x
  <2>2. PowOf(x, r.e) \in MinWord .. MaxWord /\ cp_equate(d, r.c, PowOf(x, r.e)) = d
    BY <2>1, <1>0
  <2>3. PowOf(x, r.e) \in Int
    BY <2>2
  <2>4. Val(Leaf(d), r.c) = PowOf(x, r.e)
    BY <2>2, <2>3, <1>0, LeafSteps
  <2> QED BY <2>4 DEF x
<1> QED BY <1>1, <1>2

(* y = arr[index - offset].                                                *)
LEMMA ElemDecides ==
  ASSUME NEW R \in Ranges, NEW d \in Boxes(R), Assigned(d), Vars # {}, NEW r, r.index \in Terms, r.y \in Terms,
         r.arr \in Seq(Terms), r.offset \in Int, cp_prop_elem(d, r) = d
  PROVE  LET k == Val(Leaf(d), r.index) - r.offset + 1
         IN k \in DOMAIN r.arr /\ Val(Leaf(d), r.y) = Val(Leaf(d), r.arr[k])
<1> DEFINE p == Leaf(d)
           i == Val(p, r.index)
           k == i - r.offset + 1
           last == r.offset + Len(r.arr) - 1
           y == cp_dmin(d, r.arr[k])
<1>0. cp_fixed(d, r.index) /\ cp_dmin(d, r.index) = i /\ i \in Int /\ d # Dead
  BY LeafIs, LeafSteps
<1>1. /\ y = cp_dmin(d, r.arr[k])
      /\ cp_prop_elem(d, r) =
           IF i \notin r.offset .. last THEN Dead
           ELSE IF cp_fixed(d, r.arr[k]) THEN cp_equate(d, r.y, y)
           ELSE EquateTerms(d, r.arr[k], r.y)
  BY <1>0 DEF cp_prop_elem
<1> HIDE DEF i, y
<1>2. i \in r.offset .. last
  BY <1>0, <1>1
<1>3. k \in DOMAIN r.arr /\ r.arr[k] \in Terms
  <2>1. Len(r.arr) \in Nat /\ DOMAIN r.arr = 1 .. Len(r.arr)
    OBVIOUS
  <2>2. k \in 1 .. Len(r.arr)
    BY <1>0, <1>2, <2>1
  <2> QED BY <2>1, <2>2
<1> HIDE DEF k
<1>4. cp_fixed(d, r.arr[k]) /\ y = Val(p, r.arr[k]) /\ y \in Int
  <2> HIDE DEF p
  <2>1. \A t \in Terms : cp_fixed(d, t) /\ Val(p, t) \in Int /\ cp_dmin(d, t) = Val(p, t)
    BY LeafIs DEF p
  <2> QED BY <2>1, <1>1, <1>3
<1>5. cp_equate(d, r.y, y) = d
  BY <1>1, <1>2, <1>4
<1>6. Val(p, r.y) = y
  BY <1>0, <1>4, <1>5, LeafSteps
<1> QED BY <1>3, <1>4, <1>6 DEF k, i

(* x in set.                                                               *)
LEMMA SetInDecides ==
  ASSUME NEW R \in Ranges, NEW d \in Boxes(R), Assigned(d), Vars # {}, NEW r, r.x \in Terms,
         cp_prop_setin(d, r) = d
  PROVE  Val(Leaf(d), r.x) \in r.set
<1>1. CASE isc(r.x)
  BY <1>1, LeafSteps DEF cp_prop_setin, Val
<1>2. CASE ~isc(r.x)
  <2>1. r.x \in Vars /\ Listed(d, r.x) /\ Leaf(d)[r.x] = Val(Leaf(d), r.x)
    BY <1>2, LeafIs DEF isc, Listed
  <2>2. cp_set_vals(d, r.x, r.set) = d
    BY <1>2, <2>1 DEF cp_prop_setin
  <2> QED BY <2>1, <2>2, LeafSteps
<1> QED BY <1>1, <1>2

(* m = min or max of a and b.                                              *)
LEMMA MinMaxDecides ==
  ASSUME NEW R \in Ranges, NEW d \in Boxes(R), Assigned(d), Vars # {}, NEW r, r.a \in Terms, r.b \in Terms,
         r.m \in Terms, cp_prop_minmax(d, r) = d
  PROVE  Val(Leaf(d), r.m) = IF r.ismax THEN Larger(Val(Leaf(d), r.a), Val(Leaf(d), r.b))
                             ELSE Smaller(Val(Leaf(d), r.a), Val(Leaf(d), r.b))
<1> DEFINE p == Leaf(d)
           a == Val(p, r.a)
           b == Val(p, r.b)
           m == Val(p, r.m)
           In(t, lo, hi) == lo <= Val(p, t) /\ Val(p, t) <= hi
<1>0. /\ cp_fixed(d, r.m) /\ cp_dmin(d, r.m) = m
      /\ cp_dmin(d, r.a) = a /\ cp_dmax(d, r.a) = a /\ Values(d, r.a) = {a}
      /\ cp_dmin(d, r.b) = b /\ cp_dmax(d, r.b) = b /\ Values(d, r.b) = {b}
      /\ a \in Int /\ b \in Int /\ m \in Int
  <2> HIDE DEF p
  <2>1. \A t \in Terms : /\ cp_fixed(d, t) /\ Values(d, t) = {Val(p, t)} /\ Val(p, t) \in Int
                          /\ cp_dmin(d, t) = Val(p, t) /\ cp_dmax(d, t) = Val(p, t)
    BY LeafIs DEF p
  <2> QED BY <2>1
<1>1. /\ d # Dead
      /\ \A t \in Terms : \A lo, hi : cp_intersect(d, t, lo, hi) = IF In(t, lo, hi) THEN d ELSE Dead
      /\ \A t, lo, hi : cp_intersect(Dead, t, lo, hi) = Dead
      /\ \A t \in Terms : \A x \in Int : cp_equate(d, t, x) = IF Val(p, t) = x THEN d ELSE Dead
      /\ \A t, x : cp_equate(Dead, t, x) = Dead
  <2>1. /\ d # Dead
        /\ \A t \in Terms : \A lo, hi : cp_intersect(d, t, lo, hi) = IF In(t, lo, hi) THEN d ELSE Dead
        /\ \A t, lo, hi : cp_intersect(Dead, t, lo, hi) = Dead
        /\ \A t \in Terms : \A x \in Int : cp_equate(d, t, x) = IF Val(p, t) = x THEN d ELSE Dead
    BY LeafSteps
  <2> QED BY <2>1 DEF cp_equate
<1>2. CASE isc(r.a) /\ isc(r.b)
  <2> DEFINE best == IF r.ismax THEN Larger(a, b) ELSE Smaller(a, b)
  <2>1. cp_prop_minmax(d, r) = cp_intersect(d, r.m, best, best)
    BY <1>0, <1>2 DEF cp_prop_minmax
  <2>2. best \in Int
    <3> HIDE DEF a, b
    <3> QED BY <1>0 DEF Larger, Smaller
  <2> HIDE DEF best
  <2>3. best <= m /\ m <= best
    BY <1>1, <2>1
  <2> HIDE DEF m
  <2>4. m = best
    BY <1>0, <2>2, <2>3
  <2> QED BY <2>4 DEF best, m
<1>3. CASE ~(isc(r.a) /\ isc(r.b)) /\ r.ismax
  <2> DEFINE first == Within(d, r.a, a, m)
             capped == Within(first, r.b, cp_dmin(d, r.b), m)
  <2>1. d = IF ~(a >= m) /\ ~(b >= m) THEN Dead
            ELSE IF ~(a >= m) THEN cp_equate(capped, r.b, m)
            ELSE IF ~(b >= m) THEN cp_equate(capped, r.a, m)
            ELSE capped
    BY <1>0, <1>3 DEF cp_prop_minmax, MaxBoundedBy
  <2>2. first = IF a <= m THEN d ELSE Dead
    <3>1. first = IF {a} \subseteq a .. m THEN d ELSE cp_intersect(d, r.a, a, m)
      BY <1>0 DEF Within
    <3>2. cp_intersect(d, r.a, a, m) = IF a <= a /\ a <= m THEN d ELSE Dead
      BY <1>1
    <3> HIDE DEF first, a, m
    <3>3. {a} \subseteq a .. m <=> a <= m
      BY <1>0
    <3> QED BY <3>1, <3>2, <3>3, <1>0
  <2>3. capped \in {d, Dead} /\ (capped = d => a <= m /\ b <= m)
    <3>1. CASE first = Dead
      <4>1. capped \in {Dead}
        <5>1. cp_intersect(Dead, r.b, b, m) = Dead
          BY <1>1
        <5>2. capped \in {first, cp_intersect(first, r.b, b, m)}
          BY <1>0 DEF Within
        <5> HIDE DEF capped, first
        <5> QED BY <5>1, <5>2, <3>1
      <4> HIDE DEF capped
      <4> QED BY <4>1, <1>1
    <3>2. CASE first = d
      <4>1. capped = IF {b} \subseteq b .. m THEN d ELSE cp_intersect(d, r.b, b, m)
        <5>1. capped = Within(d, r.b, b, m)
          BY <1>0, <3>2
        <5> HIDE DEF capped, first
        <5> QED BY <5>1, <1>0 DEF Within
      <4>2. cp_intersect(d, r.b, b, m) = IF b <= b /\ b <= m THEN d ELSE Dead
        BY <1>1
      <4> HIDE DEF first, capped, a, b, m
      <4>3. {b} \subseteq b .. m <=> b <= m
        BY <1>0
      <4>4. a <= m
        BY <2>2, <3>2, <1>1
      <4> QED BY <4>1, <4>2, <4>3, <4>4, <1>0, <1>1
    <3> HIDE DEF first, capped
    <3> QED BY <2>2, <3>1, <3>2
  <2> HIDE DEF first, capped
  <2>4. capped # Dead
    BY <1>1, <2>1
  <2>5. a <= m /\ b <= m /\ (a >= m \/ b >= m)
    BY <1>1, <2>1, <2>3, <2>4
  <2> HIDE DEF a, b, m
  <2>6. m = Larger(a, b)
    BY <2>5, <1>0 DEF Larger
  <2> QED BY <2>6, <1>3 DEF a, b, m
<1>4. CASE ~(isc(r.a) /\ isc(r.b)) /\ ~r.ismax
  <2> DEFINE first == Within(d, r.a, m, cp_dmax(d, r.a))
             capped == Within(first, r.b, m, cp_dmax(d, r.b))
  <2>1. d = IF ~(a <= m) /\ ~(b <= m) THEN Dead
            ELSE IF ~(a <= m) THEN cp_equate(capped, r.b, m)
            ELSE IF ~(b <= m) THEN cp_equate(capped, r.a, m)
            ELSE capped
    BY <1>0, <1>4 DEF cp_prop_minmax, MinBoundedBy
  <2>2. first = IF m <= a THEN d ELSE Dead
    <3>1. first = IF {a} \subseteq m .. a THEN d ELSE cp_intersect(d, r.a, m, a)
      BY <1>0 DEF Within
    <3>2. cp_intersect(d, r.a, m, a) = IF m <= a /\ a <= a THEN d ELSE Dead
      BY <1>1
    <3> HIDE DEF first, a, m
    <3>3. {a} \subseteq m .. a <=> m <= a
      BY <1>0
    <3> QED BY <3>1, <3>2, <3>3, <1>0
  <2>3. capped \in {d, Dead} /\ (capped = d => m <= a /\ m <= b)
    <3>1. CASE first = Dead
      <4>1. capped \in {Dead}
        <5>1. cp_intersect(Dead, r.b, m, b) = Dead
          BY <1>1
        <5>2. capped \in {first, cp_intersect(first, r.b, m, b)}
          BY <1>0 DEF Within
        <5> HIDE DEF capped, first
        <5> QED BY <5>1, <5>2, <3>1
      <4> HIDE DEF capped
      <4> QED BY <4>1, <1>1
    <3>2. CASE first = d
      <4>1. capped = IF {b} \subseteq m .. b THEN d ELSE cp_intersect(d, r.b, m, b)
        <5>1. capped = Within(d, r.b, m, b)
          BY <1>0, <3>2
        <5> HIDE DEF capped, first
        <5> QED BY <5>1, <1>0 DEF Within
      <4>2. cp_intersect(d, r.b, m, b) = IF m <= b /\ b <= b THEN d ELSE Dead
        BY <1>1
      <4> HIDE DEF first, capped, a, b, m
      <4>3. {b} \subseteq m .. b <=> m <= b
        BY <1>0
      <4>4. m <= a
        BY <2>2, <3>2, <1>1
      <4> QED BY <4>1, <4>2, <4>3, <4>4, <1>0, <1>1
    <3> HIDE DEF first, capped
    <3> QED BY <2>2, <3>1, <3>2
  <2> HIDE DEF first, capped
  <2>4. capped # Dead
    BY <1>1, <2>1
  <2>5. m <= a /\ m <= b /\ (a <= m \/ b <= m)
    BY <1>1, <2>1, <2>3, <2>4
  <2> HIDE DEF a, b, m
  <2>6. m = Smaller(a, b)
    BY <2>5, <1>0 DEF Smaller
  <2> QED BY <2>6, <1>4 DEF a, b, m
<1> QED BY <1>2, <1>3, <1>4

(* At least one of pos or not one of neg.                                  *)
LEMMA ClauseDecides ==
  ASSUME NEW R \in Ranges, NEW d \in Boxes(R), Assigned(d), Vars # {}, NEW c, c.pos \in Seq(Terms),
         c.neg \in Seq(Terms), cp_prop_clause(d, c) = d
  PROVE  \/ \E i \in DOMAIN c.pos : Val(Leaf(d), c.pos[i]) = 1
         \/ \E i \in DOMAIN c.neg : Val(Leaf(d), c.neg[i]) = 0
<1> DEFINE Sat == \/ \E i \in DOMAIN c.pos : Values(d, c.pos[i]) = {1}
                  \/ \E i \in DOMAIN c.neg : Values(d, c.neg[i]) = {0}
           Open(lits) == {i \in DOMAIN lits : ~cp_fixed(d, lits[i])}
           open == Cardinality(Open(c.pos)) + Cardinality(Open(c.neg))
<1>1. /\ \A i \in DOMAIN c.pos : cp_fixed(d, c.pos[i]) /\ Values(d, c.pos[i]) = {Val(Leaf(d), c.pos[i])}
      /\ \A i \in DOMAIN c.neg : cp_fixed(d, c.neg[i]) /\ Values(d, c.neg[i]) = {Val(Leaf(d), c.neg[i])}
  <2>1. (\A i \in DOMAIN c.pos : c.pos[i] \in Terms) /\ (\A i \in DOMAIN c.neg : c.neg[i] \in Terms)
    BY PlacesFinite
  <2> QED BY <2>1, LeafIs
<1>2. open = 0
  <2>1. Open(c.pos) = {} /\ Open(c.neg) = {}
    BY <1>1
  <2> HIDE DEF Open
  <2>2. Cardinality(Open(c.pos)) = 0 /\ Cardinality(Open(c.neg)) = 0
    BY <2>1, FS_EmptySet
  <2> QED BY <2>2
<1>3. d = IF Sat \/ open > 1 THEN d
          ELSE IF open = 0 THEN Dead
          ELSE IF Open(c.pos) # {} THEN cp_assign(d, c.pos[CHOOSE i \in Open(c.pos) : TRUE], 1)
          ELSE cp_assign(d, c.neg[CHOOSE i \in Open(c.neg) : TRUE], 0)
  BY DEF cp_prop_clause
<1>4. Sat
  <2> HIDE DEF Sat, open, Open
  <2>1. ~(open > 1) /\ d # Dead
    BY <1>2, LeafSteps
  <2> QED BY <2>1, <1>2, <1>3
<1> QED BY <1>1, <1>4

(* The same bounds on all inputs are accepted only if all are within them. *)
LEMMA AllInputsAtLeaf ==
  ASSUME NEW R \in Ranges, NEW d \in Boxes(R), Assigned(d), Vars # {}, NEW ins, ins \in Seq(Terms), NEW lo, NEW hi
  PROVE  /\ AllInputs(d, ins, lo, hi) \in {d, Dead}
         /\ AllInputs(d, ins, lo, hi) = d =>
              \A i \in DOMAIN ins : lo <= Val(Leaf(d), ins[i]) /\ Val(Leaf(d), ins[i]) <= hi
<1> DEFINE n == Len(ins)
           D == DOMAIN ins
           U == {d, Dead}
           In(t) == lo <= Val(Leaf(d), t) /\ Val(Leaf(d), t) <= hi
           op(e, t) == IF Failed(e) THEN e ELSE cp_intersect(e, t, lo, hi)
           Solves(h) == h = [s \in SUBSET D |-> IF s = {} THEN d
                                               ELSE op(h[s \ {Max(s)}], ins[Max(s)])]
           g == AllInputs(d, ins, lo, hi)
<1>0. Places(D) /\ (\A i \in D : ins[i] \in Terms) /\ n \in Nat /\ D = 1 .. n
  <2>1. n \in Nat /\ D = 1 .. n
    OBVIOUS
  <2>2. IsFiniteSet(1 .. n) /\ 1 .. n \subseteq Nat
    BY <2>1, FS_Interval
  <2> QED BY <2>1, <2>2 DEF Places
<1>1. g = (CHOOSE h : Solves(h))[D]
  BY DEF AllInputs, FoldLeft, MapThenFoldSet
<1>2. /\ d # Dead /\ ~Below(Dead, d)
      /\ \A i \in D : op(d, ins[i]) = IF In(ins[i]) THEN d ELSE Dead
      /\ \A t : op(Dead, t) = Dead
  <2>1. d # Dead /\ Failed(Dead) /\ ~Failed(d)
    BY LeafIs, LeafSteps
  <2>2. ~Below(Dead, d)
    <3>1. d # Crashed
      BY <2>1, EmptyEnds
    <3>2. PICK v \in Vars : TRUE
      OBVIOUS
    <3>3. ~(d[v].vals \subseteq Dead[v].vals)
      BY <2>1 DEF Failed, Dead, Domain
    <3> QED BY <3>1, <3>3 DEF Below, Narrows
  <2>3. \A i \in D : op(d, ins[i]) = IF In(ins[i]) THEN d ELSE Dead
    <3> TAKE i \in D
    <3>1. cp_intersect(d, ins[i], lo, hi) = IF In(ins[i]) THEN d ELSE Dead
      BY <1>0, LeafSteps
    <3> QED BY <2>1, <3>1
  <2> QED BY <2>1, <2>2, <2>3
<1> HIDE DEF op, U, D, n, g
<1> DEFINE G == [k \in D \X U |-> op(k[2], ins[k[1]])]
<1>3. G \in [D \X U -> U] /\ (\A i \in D, e \in U : G[<<i, e>>] = op(e, ins[i])) /\ d \in U
  <2>1. \A i \in D, e \in U : op(e, ins[i]) \in U
    BY <1>2 DEF U
  <2> QED BY <2>1 DEF U
<1> HIDE DEF G
<1>4. \E h : Solves(h)
  <2>1. PICK h \in [SUBSET D -> U] : FoldsLast(h, D, d, G)
    BY <1>0, <1>3, FoldExists
  <2>2. \A s \in SUBSET D : s # {} => Max(s) \in D
    BY <1>0, LastIs
  <2>3. \A s \in SUBSET D : h[s] = IF s = {} THEN d ELSE op(h[s \ {Max(s)}], ins[Max(s)])
    BY <2>1, <2>2, <1>3 DEF FoldsLast
  <2> QED BY <2>3
<1> DEFINE f == CHOOSE h : Solves(h)
<1>5. Solves(f)
  BY <1>4
<1> HIDE DEF f
<1>6. FoldsIn(f, n, U, d, G)
  <2>1. \A s \in SUBSET D : s # {} => Max(s) \in D
    BY <1>0, LastIs
  <2>2. f[{}] = d /\ \A s \in SUBSET D : s # {} => f[s] = op(f[s \ {Max(s)}], ins[Max(s)])
    BY <1>5
  <2> QED BY <2>1, <2>2, <1>0, <1>3 DEF FoldsIn
<1>7. PICK s : ChainTo(s, n, U, d, G, f[1 .. n])
  BY <1>0, <1>3, <1>6, ChainIs
<1>8. /\ s[0] = d /\ s[n] = g /\ \A k \in 0 .. n : s[k] \in {d, Dead}
      /\ \A k \in 1 .. n : k - 1 \in 0 .. n /\ k \in 0 .. n /\ s[k] = op(s[k - 1], ins[k])
  <2>1. \A k \in 1 .. n : k - 1 \in 0 .. n /\ k \in 0 .. n
    BY <1>0
  <2>2. s \in [0 .. n -> U] /\ s[0] = d /\ s[n] = f[1 .. n] /\ \A k \in 1 .. n : s[k] = G[<<k, s[k - 1]>>]
    BY <1>7 DEF ChainTo
  <2>3. s[n] = g
    BY <2>2, <1>0, <1>1 DEF f
  <2>4. \A k \in 0 .. n : s[k] \in U
    BY <2>2
  <2>5. \A k \in 1 .. n : s[k] = op(s[k - 1], ins[k])
    BY <2>1, <2>2, <2>4, <1>0, <1>3
  <2>6. \A k \in 0 .. n : s[k] \in {d, Dead}
    BY <2>4 DEF U
  <2> QED BY <2>1, <2>2, <2>3, <2>5, <2>6
<1>9. g \in {d, Dead}
  <2>1. n \in 0 .. n
    BY <1>0
  <2> QED BY <2>1, <1>8
<1>10. ASSUME g = d, NEW i \in D PROVE In(ins[i])
  <2> HIDE DEF In
  <2>1. i \in 1 .. n /\ i - 1 \in 0 .. n /\ i \in 0 .. n
    BY <1>0, <1>8
  <2>2. \A k \in 1 .. n : Below(s[k - 1], s[k])
    <3> TAKE k \in 1 .. n
    <3>1. s[k - 1] \in {d, Dead} /\ s[k] \in {d, Dead} /\ s[k] = op(s[k - 1], ins[k])
      BY <1>8
    <3>2. Below(d, d) /\ Below(Dead, Dead) /\ Below(d, Dead)
      <4>1. d # Crashed
        BY LeafIs, EmptyEnds
      <4> QED BY <4>1, BelowIsOrder, DeadIsBelow
    <3> QED BY <3>1, <3>2, <1>2
  <2>3. Below(s[i - 1], d) /\ Below(s[i], d)
    BY <2>1, <2>2, <1>0, <1>8, <1>10, ChainIsBelow
  <2>4. s[i - 1] = d /\ s[i] = d
    BY <2>1, <2>3, <1>2, <1>8
  <2>5. d = op(d, ins[i])
    BY <2>1, <2>4, <1>8
  <2> QED BY <2>5, <1>2
<1> QED BY <1>9, <1>10 DEF g, D

(* out <-> conjunction of ins.                                             *)
LEMMA AndDecides ==
  ASSUME NEW R \in Ranges, NEW d \in Boxes(R), Assigned(d), Vars # {}, NEW c, c.out \in Terms, c.ins \in Seq(Terms),
         cp_prop_and(d, c) = d
  PROVE  Val(Leaf(d), c.out) = IF \A i \in DOMAIN c.ins : Val(Leaf(d), c.ins[i]) = 1 THEN 1 ELSE 0
<1> DEFINE v(t) == Val(Leaf(d), t)
           out == cp_intersect(d, c.out, 0, 1)
           ins == AllInputs(out, c.ins, 0, 1)
           Open == {i \in DOMAIN c.ins : ~cp_fixed(ins, c.ins[i])}
<1>0. /\ v(c.out) \in Int /\ Values(d, c.out) = {v(c.out)} /\ d # Dead /\ Failed(Dead) /\ ~Failed(d)
      /\ \A i \in DOMAIN c.ins : c.ins[i] \in Terms
      /\ \A i \in DOMAIN c.ins : cp_fixed(d, c.ins[i]) /\ Values(d, c.ins[i]) = {v(c.ins[i])} /\ v(c.ins[i]) \in Int
  <2>1. \A i \in DOMAIN c.ins : c.ins[i] \in Terms
    BY PlacesFinite
  <2> QED BY <2>1, LeafIs, LeafSteps
<1>1. out = IF 0 <= v(c.out) /\ v(c.out) <= 1 THEN d ELSE Dead
  BY LeafSteps
<1>2. d =
        IF Failed(out) THEN Dead
        ELSE IF Values(out, c.out) = {1} THEN AllInputs(out, c.ins, 1, 1)
        ELSE IF Failed(ins) THEN Dead
        ELSE IF \E i \in DOMAIN c.ins : Values(ins, c.ins[i]) = {0} THEN cp_equate(ins, c.out, 0)
        ELSE IF Open = {} THEN cp_equate(ins, c.out, 1)
        ELSE IF Values(ins, c.out) = {0} /\ Cardinality(Open) = 1
        THEN cp_equate(ins, c.ins[CHOOSE i \in Open : TRUE], 0)
        ELSE ins
  BY DEF cp_prop_and
<1>3. out = d /\ v(c.out) \in {0, 1}
  <2> HIDE DEF v, out, ins, Open
  <2>1. out = d
    BY <1>0, <1>1, <1>2
  <2>2. 0 <= v(c.out) /\ v(c.out) <= 1
    BY <2>1, <1>0, <1>1
  <2> QED BY <2>1, <2>2, <1>0
<1> DEFINE truth == Values(out, c.out)
           zero == \E i \in DOMAIN c.ins : Values(ins, c.ins[i]) = {0}
           other == IF Values(ins, c.out) = {0} /\ Cardinality(Open) = 1
                    THEN cp_equate(ins, c.ins[CHOOSE i \in Open : TRUE], 0) ELSE ins
<1>4. d = IF truth = {1} THEN AllInputs(out, c.ins, 1, 1)
          ELSE IF Failed(ins) THEN Dead
          ELSE IF zero THEN cp_equate(ins, c.out, 0)
          ELSE IF Open = {} THEN cp_equate(ins, c.out, 1)
          ELSE other
  <2>1. ~Failed(out)
    <3> HIDE DEF out
    <3> QED BY <1>0, <1>3
  <2> QED BY <1>2, <2>1
<1>5. truth = {v(c.out)}
  BY <1>0, <1>3
<1> HIDE DEF truth, other
<1>6. CASE v(c.out) = 1
  <2>1. AllInputs(d, c.ins, 1, 1) = d
    <3> HIDE DEF v, out, ins, Open, zero
    <3> QED BY <1>3, <1>6, <1>4, <1>5
  <2>2. \A i \in DOMAIN c.ins : 1 <= v(c.ins[i]) /\ v(c.ins[i]) <= 1
    BY <2>1, AllInputsAtLeaf
  <2>3. \A i \in DOMAIN c.ins : v(c.ins[i]) = 1
    <3> HIDE DEF v
    <3> QED BY <2>2, <1>0
  <2> QED BY <2>3, <1>6
<1>7. CASE v(c.out) = 0
  <2>1. ins = d
    <3>1. ins \in {d, Dead}
      BY <1>3, AllInputsAtLeaf
    <3> HIDE DEF v, out, ins, Open, zero
    <3>2. truth # {1}
      BY <1>5, <1>7
    <3> QED BY <3>1, <3>2, <1>0, <1>4
  <2>2. Open = {}
    <3> HIDE DEF out, ins, v
    <3> QED BY <2>1, <1>0
  <2>3. cp_equate(d, c.out, 1) = Dead
    BY <1>7, LeafSteps
  <2>4. \E i \in DOMAIN c.ins : Values(d, c.ins[i]) = {0}
    <3>1. zero
      <4> HIDE DEF v, out, ins, Open, zero
      <4> QED BY <2>1, <2>2, <2>3, <1>0, <1>7, <1>4, <1>5
    <3> HIDE DEF ins
    <3> QED BY <2>1, <3>1
  <2>5. \E i \in DOMAIN c.ins : v(c.ins[i]) = 0
    <3> HIDE DEF v
    <3> QED BY <2>4, <1>0
  <2> QED BY <2>5, <1>7
<1> QED BY <1>3, <1>6, <1>7

(* What an orbit constraint starts from accepts the state.                 *)
LEMMA OrbitStartsAtLeaf ==
  ASSUME NEW R \in Ranges, NEW d \in Boxes(R), Assigned(d), Vars # {}, NEW c, c.s \in Terms,
         c.kind # "oncycle" => c.y \in Terms, Table(problem.next),
         DOMAIN problem.next = 0 .. Cardinality(DOMAIN problem.next) - 1
  PROVE  /\ OrbitDomains(d, c) \in {d, Dead}
         /\ OrbitDomains(d, c) = d => Val(Leaf(d), c.s) \in DOMAIN problem.next
<1> DEFINE n == States
           s == Val(Leaf(d), c.s)
           start == cp_intersect(d, c.s, 0, n - 1)
           second == cp_intersect(start, c.y, FactRange(c)[1], FactRange(c)[2])
<1>0. n \in Nat /\ DOMAIN problem.next = 0 .. n - 1 /\ s \in Int /\ d # Dead
  BY LeafIs, LeafSteps, FS_CardinalityType DEF States, Table
<1>1. start = IF 0 <= s /\ s <= n - 1 THEN d ELSE Dead
  BY LeafSteps
<1>2. OrbitDomains(d, c) = IF c.kind = "oncycle" THEN start ELSE second
  BY DEF OrbitDomains
<1>3. c.kind # "oncycle" => second \in {d, Dead} /\ (second = d => start = d)
  <2> SUFFICES ASSUME c.kind # "oncycle" PROVE second \in {d, Dead} /\ (second = d => start = d)
    OBVIOUS
  <2>1. CASE start = Dead
    <3>1. second = Dead
      <4> HIDE DEF start
      <4> QED BY <2>1, LeafSteps
    <3> QED BY <3>1, <1>0
  <2>2. CASE start = d
    <3>1. second \in {d, Dead}
      <4> HIDE DEF start
      <4> QED BY <2>2, LeafSteps
    <3> QED BY <3>1, <2>2
  <2> HIDE DEF start, second, s, n
  <2> QED BY <1>1, <2>1, <2>2
<1> HIDE DEF start, second, s, n
<1>4. OrbitDomains(d, c) \in {d, Dead} /\ (OrbitDomains(d, c) = d => start = d)
  BY <1>1, <1>2, <1>3
<1>5. start = d => s \in DOMAIN problem.next
  BY <1>0, <1>1
<1> QED BY <1>4, <1>5 DEF s

(* The functional-graph kinds: with a truthful memo the answer accepted is *)
(* the true one.                                                           *)
LEMMA OrbitDecides ==
  ASSUME NEW R \in Ranges, NEW d \in Boxes(R), Assigned(d), Vars # {}, NEW c, TameConstraint(R, c),
         c.kind \in OrbitLikeKinds, Table(problem.next),
         DOMAIN problem.next = 0 .. Cardinality(DOMAIN problem.next) - 1,
         NEW memo, Answers(memo, OrbitDomains(d, c), c),
         c.kind \in OrbitKinds => cp_prop_orbit_gen(OrbitDomains(d, c), c, memo) = d,
         c.kind = "oncycle" => cp_prop_oncycle(OrbitDomains(d, c), c, memo) = d
  PROVE  Satisfies(Leaf(d), c, problem.next)
<1> DEFINE e == OrbitDomains(d, c)
           s == Val(Leaf(d), c.s)
<1>0. c.s \in Terms /\ (c.kind # "oncycle" => c.y \in Terms) /\ (c.kind = "capped" => c.cap \in Nat \ {0})
  BY DEF TameConstraint, OrbitLikeKinds, OrbitKinds
<1>1. d # Dead /\ Failed(Dead) /\ ~Failed(d) /\ cp_fixed(d, c.s) /\ cp_dmin(d, c.s) = s /\ Values(d, c.s) = {s}
  <2>1. d # Dead /\ Failed(Dead) /\ ~Failed(d)
    BY LeafIs, LeafSteps
  <2>2. cp_fixed(d, c.s) /\ cp_dmin(d, c.s) = s /\ Values(d, c.s) = {s}
    BY <1>0, LeafIs
  <2> QED BY <2>1, <2>2
<1>2. e = d /\ s \in DOMAIN problem.next
  <2>1. e \in {d, Dead} /\ (e = d => s \in DOMAIN problem.next)
    BY <1>0, OrbitStartsAtLeaf
  <2>2. e # Dead
    <3>1. cp_prop_orbit_gen(Dead, c, memo) = Dead /\ cp_prop_oncycle(Dead, c, memo) = Dead
      BY <1>1 DEF cp_prop_orbit_gen, cp_prop_oncycle
    <3> HIDE DEF e
    <3> QED BY <3>1, <1>1 DEF OrbitLikeKinds, e
  <2> QED BY <2>1, <2>2
<1>3. memo[s] = TrueFact(problem.next, s)
  <2>1. s \in Asked(d, c)
    BY <1>1 DEF Asked
  <2>2. Answers(memo, d, c)
    BY <1>2
  <2> QED BY <2>1, <2>2, <1>2 DEF Answers
<1>4. CASE c.kind \in OrbitKinds
  <2> DEFINE a == fg_fact(memo, s, c.kind, c.cap)
  <2>1. cp_equate(d, c.y, a) = d
    <3>1. cp_prop_orbit_gen(d, c, memo) = d
      BY <1>2, <1>4
    <3> QED BY <3>1, <1>1 DEF cp_prop_orbit_gen
  <2>2. a = TrueAnswer(c, s)
    BY <1>3, <1>4 DEF fg_fact, TrueAnswer, Smaller, OrbitKinds
  <2>3. a \in Int
    <3>1. LET t == TrueFact(problem.next, s) IN t.orb \in Int /\ t.cl \in Int /\ t.tr \in Int
      BY <1>2, FactsWithin
    <3> QED BY <2>2, <3>1, <1>0, <1>4 DEF TrueAnswer, Smaller, OrbitKinds
  <2> HIDE DEF a
  <2>4. c.y \in Terms
    BY <1>0, <1>4 DEF OrbitKinds
  <2>5. Val(Leaf(d), c.y) = a
    BY <2>1, <2>3, <2>4, <1>1, LeafSteps
  <2>6. Val(Leaf(d), c.y) = TrueAnswer(c, s)
    BY <2>2, <2>5
  <2> QED BY <2>6, <1>2, <1>4 DEF Satisfies, TrueAnswer, Val, OrbitKinds
<1>5. CASE c.kind = "oncycle"
  <2>1. TrueFact(problem.next, s).tr = 0
    <3>1. cp_prop_oncycle(d, c, memo) = d
      BY <1>2, <1>5
    <3>2. {x \in Values(d, c.s) : memo[x].tr = 0} # {}
      BY <3>1, <1>1 DEF cp_prop_oncycle
    <3> QED BY <3>2, <1>1, <1>3
  <2> QED BY <2>1, <1>2, <1>5 DEF Satisfies, Val
<1> QED BY <1>4, <1>5 DEF OrbitLikeKinds

(* all_different, of terms whose constants are different.                  *)
LEMMA AllDiffDecides ==
  ASSUME NEW R \in Ranges, NEW d \in Boxes(R), Assigned(d), NEW c, c.term \in Seq(Terms), OneEach(d, c),
         \A i, j \in DOMAIN c.term : i # j /\ isc(c.term[i]) /\ isc(c.term[j]) => c.term[i] # c.term[j]
  PROVE  Apart(Leaf(d), c)
<1> DEFINE p == Leaf(d)
<1>1. \A i \in DOMAIN c.term : c.term[i] \in Terms
  BY PlacesFinite
<1>2. \A t \in Terms : cp_fixed(d, t) /\ cp_dmin(d, t) = Val(p, t) /\ Values(d, t) = {Val(p, t)}
  BY LeafIs
<1>3. \A t \in Terms : ~isc(t) => Listed(d, t) /\ d[t].vals = {Val(p, t)}
  BY <1>2, LeafIs DEF isc, Listed, Values
<1> HIDE DEF p
<1>4. ASSUME NEW i \in DOMAIN c.term, NEW j \in DOMAIN c.term, i # j, ~isc(c.term[j])
      PROVE  Val(p, c.term[i]) # Val(p, c.term[j])
  <2>1. cp_fixed(d, c.term[i]) /\ (isc(c.term[i]) \/ Listed(d, c.term[i])) /\ Listed(d, c.term[j])
    BY <1>1, <1>2, <1>3, <1>4
  <2>2. cp_dmin(d, c.term[i]) \notin d[c.term[j]].vals
    BY <2>1, <1>4 DEF OneEach
  <2> QED BY <2>2, <1>1, <1>2, <1>3, <1>4
<1>5. ASSUME NEW i \in DOMAIN c.term, NEW j \in DOMAIN c.term, i # j, isc(c.term[i]), isc(c.term[j])
      PROVE  Val(p, c.term[i]) # Val(p, c.term[j])
  BY <1>5 DEF Val
<1> QED BY <1>4, <1>5 DEF Apart, p

(* What a problem must be to be decided at a leaf, besides tame: no two    *)
(* constants of an all_different are equal, and a reified truth value is   *)
(* 0 or 1.                                                                 *)
Definite(R, c) ==
  /\ c.kind = "alldiff" =>
       \A i, j \in DOMAIN c.term : i # j /\ isc(c.term[i]) /\ isc(c.term[j]) => c.term[i] # c.term[j]
  /\ c.kind = "reif" => ~isc(c.r) /\ R[c.r] = {0, 1}
  /\ c.kind \in {"div", "mod"} => c.k \in Int

(* The propagator of each kind but the functional-graph ones.              *)
Propagated(d, c) ==
  CASE c.kind = "lin" -> cp_prop_lin(d, c)
    [] c.kind = "reif" -> cp_prop_reif(d, c)
    [] c.kind = "alldiff" -> cp_prop_alldiff(d, c)
    [] c.kind = "times" -> cp_prop_times(d, c)
    [] c.kind \in {"div", "mod"} -> cp_prop_divmod(d, c)
    [] c.kind = "abs" -> cp_prop_abs(d, c)
    [] c.kind = "pow" -> cp_prop_pow(d, c)
    [] c.kind = "elem" -> cp_prop_elem(d, c)
    [] c.kind = "setin" -> cp_prop_setin(d, c)
    [] c.kind = "minmax" -> cp_prop_minmax(d, c)
    [] c.kind = "clause" -> cp_prop_clause(d, c)
    [] c.kind = "and" -> cp_prop_and(d, c)
PlainKinds ==
  {"lin", "reif", "alldiff", "times", "div", "mod", "abs", "pow", "elem", "setin", "minmax", "clause", "and"}

(* A propagator that leaves a leaf as it is has found its constraint       *)
(* satisfied there.                                                        *)
LEMMA PropagatorDecides ==
  ASSUME NEW R \in Ranges, NEW d \in Boxes(R), Assigned(d), Vars # {}, NEW c, TameConstraint(R, c), Definite(R, c),
         c.kind \in PlainKinds, Propagated(d, c) = d, c.kind = "alldiff" => OneEach(d, c), NEW next
  PROVE  Satisfies(Leaf(d), c, next)
<1> DEFINE p == Leaf(d)
<1> HIDE DEF p
<1>1. CASE c.kind = "lin"
  <2>1. c.rel \in Rels /\ LinShape(c) /\ cp_prop_lin(d, c) = d
    BY <1>1 DEF TameConstraint, Propagated, OrbitLikeKinds, OrbitKinds
  <2>2. Holds(c.rel, Sum(p, c), c.rhs)
    BY <2>1, LinDecides DEF p
  <2>3. Holds(c.rel, MapThenSumSet(LAMBDA i : c.coef[i] * p[c.var[i]], DOMAIN c.var), c.rhs)
    BY <2>2, SumIs
  <2>4. Satisfies(p, c, next)
    BY <2>3, <1>1 DEF Satisfies
  <2> QED BY <2>4 DEF p
<1>2. CASE c.kind = "reif"
  <2>1. c \in Reifs /\ LinShape(c) /\ cp_prop_reif(d, c) = d /\ ~isc(c.r) /\ R[c.r] = {0, 1}
    BY <1>2 DEF TameConstraint, Propagated, Definite, OrbitLikeKinds, OrbitKinds
  <2>2. Val(p, c.r) = IF Holds(c.rel, Sum(p, c), c.rhs) THEN 1 ELSE 0
    BY <2>1, ReifDecides DEF p
  <2>3. Val(p, c.r) = IF Holds(c.rel, MapThenSumSet(LAMBDA i : c.coef[i] * p[c.var[i]], DOMAIN c.var), c.rhs)
                      THEN 1 ELSE 0
    BY <2>2, SumIs
  <2>4. Satisfies(p, c, next)
    BY <2>3, <1>2 DEF Satisfies, Val
  <2> QED BY <2>4 DEF p
<1>3. CASE c.kind = "alldiff"
  <2>1. /\ c.term \in Seq(Terms) /\ OneEach(d, c)
        /\ \A i, j \in DOMAIN c.term : i # j /\ isc(c.term[i]) /\ isc(c.term[j]) => c.term[i] # c.term[j]
    BY <1>3 DEF TameConstraint, Definite, OrbitLikeKinds, OrbitKinds
  <2>2. Apart(p, c)
    BY <2>1, AllDiffDecides DEF p
  <2>3. Satisfies(p, c, next)
    BY <2>2, <1>3 DEF Satisfies, Apart, Val
  <2> QED BY <2>3 DEF p
<1>4. CASE c.kind = "times"
  <2>1. c.a \in Terms /\ c.b \in Terms /\ c.c \in Terms /\ cp_prop_times(d, c) = d
    BY <1>4 DEF TameConstraint, Propagated, OrbitLikeKinds, OrbitKinds
  <2>2. Val(p, c.c) = Val(p, c.a) * Val(p, c.b)
    BY <2>1, TimesDecides DEF p
  <2>3. Satisfies(p, c, next)
    BY <2>2, <1>4 DEF Satisfies, Val
  <2> QED BY <2>3 DEF p
<1>5. CASE c.kind \in {"div", "mod"}
  <2>1. c.a \in Terms /\ c.c \in Terms /\ c.k \in Int /\ cp_prop_divmod(d, c) = d
    BY <1>5 DEF TameConstraint, Propagated, Definite, OrbitLikeKinds, OrbitKinds
  <2>2. Val(p, c.c) = IF c.kind = "div" THEN Quotient(Val(p, c.a), c.k) ELSE Remainder(Val(p, c.a), c.k)
    BY <2>1, DivModDecides DEF p
  <2>3. Satisfies(p, c, next)
    BY <2>2, <1>5 DEF Satisfies, Val
  <2> QED BY <2>3 DEF p
<1>6. CASE c.kind = "abs"
  <2>1. c.a \in Terms /\ c.c \in Terms /\ cp_prop_abs(d, c) = d
    BY <1>6 DEF TameConstraint, Propagated, OrbitLikeKinds, OrbitKinds
  <2>2. Val(p, c.c) = Abs(Val(p, c.a))
    BY <2>1, AbsDecides DEF p
  <2>3. Satisfies(p, c, next)
    BY <2>2, <1>6 DEF Satisfies, Val
  <2> QED BY <2>3 DEF p
<1>7. CASE c.kind = "pow"
  <2>1. c.a \in Terms /\ c.c \in Terms /\ c.e \in Nat /\ cp_prop_pow(d, c) = d
    BY <1>7 DEF TameConstraint, Propagated, PowFits, OrbitLikeKinds, OrbitKinds
  <2>2. Val(p, c.c) = PowOf(Val(p, c.a), c.e)
    BY <2>1, PowDecides DEF p
  <2>3. Satisfies(p, c, next)
    BY <2>2, <1>7 DEF Satisfies, Val
  <2> QED BY <2>3 DEF p
<1>8. CASE c.kind = "elem"
  <2>1. c.index \in Terms /\ c.y \in Terms /\ c.arr \in Seq(Terms) /\ c.offset \in Int /\ cp_prop_elem(d, c) = d
    BY <1>8 DEF TameConstraint, Propagated, OrbitLikeKinds, OrbitKinds
  <2>2. /\ Val(p, c.index) - c.offset + 1 \in DOMAIN c.arr
        /\ Val(p, c.y) = Val(p, c.arr[Val(p, c.index) - c.offset + 1])
    BY <2>1, ElemDecides DEF p
  <2>3. Satisfies(p, c, next)
    BY <2>2, <1>8 DEF Satisfies, Val
  <2> QED BY <2>3 DEF p
<1>9. CASE c.kind = "setin"
  <2>1. c.x \in Terms /\ cp_prop_setin(d, c) = d
    BY <1>9 DEF TameConstraint, Propagated, OrbitLikeKinds, OrbitKinds
  <2>2. Val(p, c.x) \in c.set
    BY <2>1, SetInDecides DEF p
  <2>3. Satisfies(p, c, next)
    BY <2>2, <1>9 DEF Satisfies, Val
  <2> QED BY <2>3 DEF p
<1>10. CASE c.kind = "minmax"
  <2>1. c.a \in Terms /\ c.b \in Terms /\ c.m \in Terms /\ cp_prop_minmax(d, c) = d
    BY <1>10 DEF TameConstraint, Propagated, OrbitLikeKinds, OrbitKinds
  <2>2. Val(p, c.m) = IF c.ismax THEN Larger(Val(p, c.a), Val(p, c.b)) ELSE Smaller(Val(p, c.a), Val(p, c.b))
    BY <2>1, MinMaxDecides DEF p
  <2>3. Satisfies(p, c, next)
    BY <2>2, <1>10 DEF Satisfies, Val
  <2> QED BY <2>3 DEF p
<1>11. CASE c.kind = "clause"
  <2>1. c.pos \in Seq(Terms) /\ c.neg \in Seq(Terms) /\ cp_prop_clause(d, c) = d
    BY <1>11 DEF TameConstraint, Propagated, OrbitLikeKinds, OrbitKinds
  <2>2. \/ \E i \in DOMAIN c.pos : Val(p, c.pos[i]) = 1
        \/ \E i \in DOMAIN c.neg : Val(p, c.neg[i]) = 0
    BY <2>1, ClauseDecides DEF p
  <2>3. Satisfies(p, c, next)
    BY <2>2, <1>11 DEF Satisfies, Val
  <2> QED BY <2>3 DEF p
<1>12. CASE c.kind = "and"
  <2>1. c.out \in Terms /\ c.ins \in Seq(Terms) /\ cp_prop_and(d, c) = d
    BY <1>12 DEF TameConstraint, Propagated, OrbitLikeKinds, OrbitKinds
  <2>2. Val(p, c.out) = IF \A i \in DOMAIN c.ins : Val(p, c.ins[i]) = 1 THEN 1 ELSE 0
    BY <2>1, AndDecides DEF p
  <2>3. Satisfies(p, c, next)
    BY <2>2, <1>12 DEF Satisfies, Val
  <2> QED BY <2>3 DEF p
<1> QED BY <1>1, <1>2, <1>3, <1>4, <1>5, <1>6, <1>7, <1>8, <1>9, <1>10, <1>11, <1>12 DEF PlainKinds

----------------------------------------------------------------------------
(* The whole run: a pass that counts no write settles every constraint it  *)
(* has been over, for the lists that are there when it ends.               *)

(* The removals that CP.mutations may miss only narrow.                    *)
LEMMA DisequalityIsBelow ==
  ASSUME NEW R \in Ranges, NEW d \in Boxes(R), d # Crashed, NEW c, LinShape(c), c.rel = "ne"
  PROVE  Below(d, cp_prop_lin(d, c))
<1> DEFINE e == LinDisequality(d, c)
           F == FreeTerms(d, c)
           k == CHOOSE i \in F : TRUE
           x == Wrap(Quotient(c.rhs - FixedSum(d, c), c.coef[k]))
<1>1. cp_prop_lin(d, c) \in {d, Dead, e}
  BY DEF cp_prop_lin
<1>2. e = d \/ (Cardinality(F) = 1 /\ e = cp_remove_val(d, c.var[k], x))
  <2>1. e = IF Cardinality(F) # 1 THEN d
            ELSE IF Divides(c.coef[k], c.rhs - FixedSum(d, c)) THEN cp_remove_val(d, c.var[k], x) ELSE d
    BY DEF LinDisequality
  <2> HIDE DEF e, F, k, x
  <2> QED BY <2>1
<1>3. Below(d, e)
  <2>1. CASE e = d
    BY <2>1, BelowIsOrder
  <2>2. CASE Cardinality(F) = 1 /\ e = cp_remove_val(d, c.var[k], x)
    <3>1. F # {}
      BY <2>2, FS_EmptySet
    <3>2. F \subseteq DOMAIN c.var
      BY DEF FreeTerms
    <3>3. k \in DOMAIN c.var
      BY <3>1, <3>2
    <3>4. c.var[k] \in Vars
      BY <3>3 DEF LinShape
    <3> HIDE DEF x, k, e
    <3> QED BY <2>2, <3>4, RemoveIsBelow
  <2> QED BY <1>2, <2>1, <2>2
<1> HIDE DEF e
<1> QED BY <1>1, <1>3, BelowIsOrder, DeadIsBelow

(* So does every propagator that Removes.                                  *)
LEMMA RemovesIsBelow ==
  ASSUME NEW R \in Ranges, NEW d \in Boxes(R), d # Crashed, NEW c, TameConstraint(R, c), Removes(d, c)
  PROVE  c.kind \in PlainKinds /\ Below(d, Propagated(d, c))
<1>1. CASE c.kind = "alldiff"
  <2>1. c.term \in Seq(Terms)
    BY <1>1 DEF TameConstraint, OrbitLikeKinds, OrbitKinds
  <2>2. Below(d, cp_prop_alldiff(d, c))
    BY <2>1, AllDiffIs
  <2> QED BY <2>2, <1>1 DEF Propagated, PlainKinds
<1>2. CASE c.kind = "lin" /\ c.rel = "ne"
  <2>1. LinShape(c)
    BY <1>2 DEF TameConstraint, OrbitLikeKinds, OrbitKinds
  <2>2. Below(d, cp_prop_lin(d, c))
    BY <2>1, <1>2, DisequalityIsBelow
  <2> QED BY <2>2, <1>2 DEF Propagated, PlainKinds
<1>3. CASE c.kind = "reif" /\ ((c.rel = "ne" /\ Values(d, c.r) = {1}) \/ (c.rel = "eq" /\ Values(d, c.r) = {0}))
  <2> DEFINE n == [c EXCEPT !.rel = Negation(c.rel)]
  <2>1. LinShape(c) /\ c \in Reifs
    BY <1>3 DEF TameConstraint, OrbitLikeKinds, OrbitKinds
  <2>2. n.var = c.var /\ n.coef = c.coef /\ n.rhs = c.rhs /\ n.rel = Negation(c.rel)
    BY <2>1 DEF Reifs
  <2>3. cp_prop_reif(d, c) \in {d, cp_prop_lin(d, IF Values(d, c.r) = {1} THEN c ELSE n)}
          \/ ~cp_fixed(d, c.r)
    BY DEF cp_prop_reif
  <2> HIDE DEF n
  <2>4. LinShape(n) /\ (c.rel = "eq" => n.rel = "ne")
    BY <2>1, <2>2 DEF LinShape, Negation
  <2>5. cp_fixed(d, c.r)
    BY <1>3, FS_Singleton DEF cp_fixed
  <2>6. Below(d, cp_prop_lin(d, IF Values(d, c.r) = {1} THEN c ELSE n))
    <3>1. CASE Values(d, c.r) = {1}
      <4>1. c.rel = "ne"
        BY <1>3, <3>1
      <4> QED BY <4>1, <3>1, <2>1, DisequalityIsBelow
    <3>2. CASE Values(d, c.r) # {1}
      <4>1. n.rel = "ne"
        BY <1>3, <3>2, <2>4
      <4> QED BY <4>1, <3>2, <2>4, DisequalityIsBelow
    <3> QED BY <3>1, <3>2
  <2>7. Below(d, cp_prop_reif(d, c))
    BY <2>3, <2>5, <2>6, BelowIsOrder
  <2> QED BY <2>7, <1>3 DEF Propagated, PlainKinds
<1>4. \/ c.kind = "alldiff"
      \/ c.kind = "lin" /\ c.rel = "ne"
      \/ c.kind = "reif" /\ ((c.rel = "ne" /\ Values(d, c.r) = {1}) \/ (c.rel = "eq" /\ Values(d, c.r) = {0}))
  BY DEF Removes
<1> QED BY <1>1, <1>2, <1>3, <1>4

(* What a turn that counts no write leaves: the lists, and of a leaf       *)
(* everything.                                                             *)
Frozen(d, e) == SameLists(d, e) /\ (Assigned(e) => e = d)

(* Every such turn does.                                                   *)
LEMMA QuietTurn ==
  ASSUME NEW R \in Ranges, NEW d \in Boxes(R), NEW e \in Boxes(R), d # Crashed, e # Crashed,
         NEW c, TameConstraint(R, c), ~Mutates(d, e, c), Removes(d, c) => e = Propagated(d, c)
  PROVE  Frozen(d, e)
<1>0. DOMAIN d = Vars /\ DOMAIN e = Vars /\ d = [v \in Vars |-> d[v]] /\ e = [v \in Vars |-> e[v]]
  BY DEF Boxes
<1>1. CASE ~Removes(d, c)
  <2>1. \A v \in Vars : d[v] = e[v]
    BY <1>1 DEF Mutates
  <2>2. d = e
    BY <2>1, <1>0
  <2> QED BY <2>2 DEF Frozen, SameLists
<1>2. CASE Removes(d, c)
  <2>1. \A v \in Vars : e[v].listed => d[v] = e[v]
    BY DEF Mutates
  <2>2. Narrows(d, e)
    <3>1. Below(d, e)
      BY <1>2, RemovesIsBelow
    <3> QED BY <3>1 DEF Below
  <2>3. ASSUME NEW v \in Vars PROVE d[v].listed = e[v].listed /\ (d[v].listed => d[v] = e[v])
    <3>1. d[v].listed \in BOOLEAN /\ e[v].listed \in BOOLEAN
      BY BoxVals
    <3>2. d[v].listed => e[v].listed
      BY <2>2 DEF Narrows
    <3> QED BY <3>1, <3>2, <2>1
  <2>4. ASSUME Assigned(e) PROVE e = d
    <3>1. \A v \in Vars : e[v].listed
      BY <2>4 DEF Assigned, Unreadable, isc
    <3>2. \A v \in Vars : d[v] = e[v]
      BY <3>1, <2>1
    <3> QED BY <3>2, <1>0
  <2> QED BY <2>3, <2>4 DEF Frozen, SameLists
<1> QED BY <1>1, <1>2

(* What a constraint that a quiet pass has been over says of the domains.  *)
Settled(d, c) ==
  /\ Definite(RangesOf(problem), c) /\ Assigned(d) => Satisfies(Leaf(d), c, problem.next)
  /\ c.kind = "alldiff" => Consistent(d, c)

(* Later turns that count no write leave it so.                            *)
LEMMA SettledStays ==
  ASSUME NEW d, NEW e, Frozen(d, e), NEW c, Settled(d, c)
  PROVE  Settled(e, c)
<1>1. Assigned(e) => e = d
  BY DEF Frozen
<1>2. Consistent(d, c) <=> Consistent(e, c)
  BY SameListsAgree DEF Frozen
<1> QED BY <1>1, <1>2 DEF Settled

(* A turn that counts no write settles its own constraint.                 *)
LEMMA PlainSettles ==
  ASSUME problem \in Problems, NEW d \in Boxes(RangesOf(problem)), NEW e \in Boxes(RangesOf(problem)),
         e # Crashed, ~Failed(e), Vars # {}, NEW c, TameConstraint(RangesOf(problem), c),
         Frozen(d, e), c.kind \in PlainKinds, e = Propagated(d, c)
  PROVE  Settled(e, c)
<1> DEFINE R == RangesOf(problem)
<1>0. R \in Ranges
  BY RangesAre
<1> HIDE DEF R
<1>1. c.kind = "alldiff" => OneEach(d, c) /\ Consistent(d, c)
  <2> SUFFICES ASSUME c.kind = "alldiff" PROVE OneEach(d, c) /\ Consistent(d, c)
    OBVIOUS
  <2>1. c.term \in Seq(Terms)
    BY DEF TameConstraint, OrbitLikeKinds, OrbitKinds
  <2>2. e = cp_prop_alldiff(d, c) /\ SameLists(d, e)
    BY DEF Propagated, Frozen
  <2> QED BY <2>1, <2>2, <1>0, AllDiffIs DEF R
<1>2. c.kind = "alldiff" => Consistent(e, c)
  BY <1>1, SameListsAgree DEF Frozen
<1>3. ASSUME Definite(R, c), Assigned(e) PROVE Satisfies(Leaf(e), c, problem.next)
  <2>1. e = d
    BY <1>3 DEF Frozen
  <2> QED BY <2>1, <1>0, <1>1, <1>3, PropagatorDecides DEF R
<1> QED BY <1>2, <1>3 DEF Settled, R

(* So does a turn of a functional-graph constraint.                        *)
LEMMA OrbitSettles ==
  ASSUME problem \in Problems, NEW d \in Boxes(RangesOf(problem)), NEW e \in Boxes(RangesOf(problem)),
         Vars # {}, NEW c, TameConstraint(RangesOf(problem), c), Frozen(d, e), c.kind \in OrbitLikeKinds,
         NEW memo, Answers(memo, OrbitDomains(d, c), c),
         c.kind \in OrbitKinds => e = cp_prop_orbit_gen(OrbitDomains(d, c), c, memo),
         c.kind = "oncycle" => e = cp_prop_oncycle(OrbitDomains(d, c), c, memo)
  PROVE  Settled(e, c)
<1>0. /\ RangesOf(problem) \in Ranges /\ Table(problem.next)
      /\ DOMAIN problem.next = 0 .. Cardinality(DOMAIN problem.next) - 1
  BY RangesAre, ProblemsAssumption DEF Table
<1>1. c.kind # "alldiff"
  BY DEF OrbitLikeKinds, OrbitKinds
<1>2. ASSUME Assigned(e) PROVE Satisfies(Leaf(e), c, problem.next)
  <2>1. e = d
    BY <1>2 DEF Frozen
  <2> QED BY <2>1, <1>0, <1>2, OrbitDecides
<1> QED BY <1>1, <1>2 DEF Settled

(* The inductive invariant, beside KeepInv: while a pass has counted no    *)
(* write, the constraints before at are settled; a fixpoint is the end of  *)
(* such a pass.                                                            *)
Quiet == verdict \in {"running", "fixpoint"} /\ ~changed
Deciding ==
  /\ at \in Nat \ {0} /\ changed \in BOOLEAN
  /\ verdict = "chain" => at = 1
  /\ verdict \in {"running", "fixpoint"} => dom # Crashed
  /\ verdict = "fixpoint" => ~changed /\ at \notin DOMAIN problem.cons
  /\ Quiet => \A k \in DOMAIN problem.cons : k < at => Settled(dom, problem.cons[k])
DecideInv == KeepInv /\ (Tame(problem) => Deciding)

(* At first nothing has been gone over.                                    *)
LEMMA DecideInit == Init => DecideInv
<1>1. Init => Deciding
  <2> SUFFICES ASSUME Init PROVE Deciding
    OBVIOUS
  <2>1. at = 1 /\ changed = FALSE /\ verdict = "chain"
    BY DEF Init
  <2>2. at \in Nat \ {0} /\ verdict \notin {"running", "fixpoint"}
    BY <2>1
  <2> QED BY <2>1, <2>2 DEF Deciding, Quiet
<1> QED BY <1>1, KeepInit DEF DecideInv

(* Every step keeps it: a turn that counts a write is on no account of the *)
(* invariant, one that counts none leaves what is settled and settles its  *)
(* own constraint; a new pass, or a branch, begins with nothing settled.   *)
LEMMA DecideStep == DecideInv /\ [Next]_vars => DecideInv'
<1> SUFFICES ASSUME DecideInv, [Next]_vars PROVE DecideInv'
  OBVIOUS
<1>1. KeepInv /\ KeepInv'
  BY KeepStep DEF DecideInv
<1>2. problem' = problem
  BY DEF Next, Propagate, BoundChain, NextPass, Lin, AllDiff, Times, Div, Mod, AbsVal, Elem,
    SetIn, Pow, Reif, Clause, MinMax, And, OrbitLike, Plain, Run, Branch, vars
<1> SUFFICES ASSUME Tame(problem) PROVE Deciding'
  BY <1>1, <1>2 DEF DecideInv
<1> DEFINE R == RangesOf(problem)
<1>3. /\ Deciding /\ problem \in Problems /\ R \in Ranges
      /\ DOMAIN problem.cons = 1 .. Len(problem.cons) /\ Len(problem.cons) \in Nat
      /\ \A i \in DOMAIN problem.cons : TameConstraint(R, problem.cons[i])
  <2>1. problem \in Problems
    BY <1>1 DEF KeepInv, MemoInv
  <2> QED BY <2>1, RangesAre DEF DecideInv, Tame
<1>4. /\ verdict # "crash" => dom \in Boxes(R)
      /\ verdict' # "crash" => dom' \in Boxes(R)
  <2>1. Keeping /\ Keeping'
    BY <1>1, <1>2 DEF KeepInv
  <2> QED BY <2>1, <1>2 DEF Keeping, Good
<1> HIDE DEF R
<1>5. dom' # Crashed /\ verdict' # "crash" => Vars # {}
  BY <1>3, <1>4, EmptyEnds
<1>6. \A d, k : Settled(d, problem.cons[k])' <=> Settled(d, problem.cons[k])
  BY <1>2 DEF Settled
<1>7. ASSUME verdict = "running", at \in DOMAIN problem.cons, at' = at + 1, verdict' = Verdict(dom', "running"),
             changed' = (changed \/ Mutates(dom, dom', constraint)),
             dom' # Crashed => (Removes(dom, constraint) => dom' = Propagated(dom, constraint)),
             dom' # Crashed /\ ~Failed(dom') /\ Frozen(dom, dom') /\ Vars # {} /\ dom' \in Boxes(R) =>
               Settled(dom', constraint)
      PROVE  Deciding'
  <2>1. verdict' = IF dom' = Crashed THEN "crash" ELSE IF Failed(dom') THEN "unsat" ELSE "running"
    BY <1>7 DEF Verdict
  <2>2. at' \in Nat \ {0} /\ changed' \in BOOLEAN
    BY <1>3, <1>7 DEF Deciding, Mutates
  <2>3. ASSUME Quiet', NEW k \in DOMAIN problem.cons, k < at' PROVE Settled(dom', problem.cons[k])
    <3>1. dom' # Crashed /\ ~Failed(dom') /\ verdict' = "running" /\ ~changed /\ ~Mutates(dom, dom', constraint)
      BY <2>1, <2>3, <1>7 DEF Quiet
    <3>2. dom \in Boxes(R) /\ dom' \in Boxes(R) /\ Vars # {} /\ dom # Crashed
      BY <3>1, <1>3, <1>4, <1>5, <1>7 DEF Deciding
    <3>3. TameConstraint(R, constraint)
      BY <1>3, <1>7 DEF constraint
    <3>4. Frozen(dom, dom')
      BY <3>1, <3>2, <3>3, <1>3, <1>7, QuietTurn
    <3>5. CASE k = at
      BY <3>1, <3>2, <3>4, <3>5, <1>7 DEF constraint
    <3>6. CASE k # at
      <4>1. k < at
        BY <2>3, <3>6, <1>3, <1>7
      <4>2. Settled(dom, problem.cons[k])
        BY <4>1, <3>1, <1>3, <1>7 DEF Deciding, Quiet
      <4> QED BY <4>2, <3>4, SettledStays
    <3> QED BY <3>5, <3>6
  <2>4. verdict' \in {"running", "fixpoint"} => dom' # Crashed
    BY <2>1
  <2>5. verdict' # "chain" /\ verdict' # "fixpoint"
    BY <2>1
  <2> QED BY <2>2, <2>3, <2>4, <2>5, <1>2, <1>6 DEF Deciding
<1>8. ASSUME at' = 1, changed' \in BOOLEAN, verdict' \notin {"fixpoint"},
             verdict' \in {"running", "fixpoint"} => dom' # Crashed
      PROVE  Deciding'
  <2>1. \A k \in DOMAIN problem.cons : ~(k < at')
    BY <1>3, <1>8
  <2> QED BY <2>1, <1>2, <1>8 DEF Deciding
<1>9. CASE UNCHANGED vars
  BY <1>3, <1>6, <1>9 DEF Deciding, Quiet, vars
<1>10. CASE BoundChain
  <2>1. at' = at /\ changed' = changed /\ verdict = "chain" /\ verdict' = Verdict(dom', "running")
    BY <1>10 DEF BoundChain
  <2> QED BY <2>1, <1>3, <1>8 DEF Deciding, Verdict
<1>11. CASE NextPass
  <2>1. verdict = "running" /\ at \notin DOMAIN problem.cons /\ dom' = dom /\ changed' = FALSE
    BY <1>11 DEF NextPass
  <2>2. CASE changed
    <3>1. at' = 1 /\ verdict' = verdict
      BY <1>11, <2>2 DEF NextPass
    <3> QED BY <3>1, <2>1, <1>3, <1>8 DEF Deciding
  <2>3. CASE ~changed
    <3>1. at' = at /\ verdict' = "fixpoint"
      BY <1>11, <2>3 DEF NextPass
    <3>2. \A k \in DOMAIN problem.cons : k < at => Settled(dom, problem.cons[k])
      BY <2>1, <2>3, <1>3 DEF Deciding, Quiet
    <3> QED BY <3>1, <3>2, <2>1, <2>3, <1>2, <1>3, <1>6 DEF Deciding
  <2> QED BY <2>2, <2>3
<1>12. CASE Branch
  <2>1. PICK v \in Vars : \E x \in dom[v].vals : dom' = cp_assign(dom, v, x)
    BY <1>12 DEF Branch
  <2>2. at' = 1 /\ verdict' = "running" /\ changed' = changed /\ dom \in Boxes(R)
    BY <1>12, <1>4 DEF Branch
  <2>3. dom' # Crashed
    <3>1. dom'[v].listed
      BY <2>1, <2>2 DEF cp_assign, Domain, Boxes
    <3> QED BY <3>1 DEF Crashed, Domain
  <2> QED BY <2>2, <2>3, <1>3, <1>8 DEF Deciding
<1>13. CASE Lin \/ AllDiff \/ Times \/ Div \/ Mod \/ AbsVal \/ Elem \/ SetIn \/ Pow \/ Reif \/ Clause \/ MinMax \/ And
  <2> DEFINE c == constraint
  <2>1. /\ verdict = "running" /\ at \in DOMAIN problem.cons /\ at' = at + 1
        /\ verdict' = Verdict(dom', "running") /\ changed' = (changed \/ Mutates(dom, dom', c))
    BY <1>13 DEF Lin, AllDiff, Times, Div, Mod, AbsVal, Elem, SetIn, Pow, Reif, Clause, MinMax, And, Plain, Run
  <2>2. /\ Lin => c.kind = "lin" /\ dom' \in {Crashed, cp_prop_lin(dom, c)}
        /\ AllDiff => c.kind = "alldiff" /\ dom' \in {Crashed, cp_prop_alldiff(dom, c)}
        /\ Times => c.kind = "times" /\ dom' \in {Crashed, cp_prop_times(dom, c)}
        /\ Div => c.kind = "div" /\ dom' \in {Crashed, cp_prop_divmod(dom, c)}
        /\ Mod => c.kind = "mod" /\ dom' \in {Crashed, cp_prop_divmod(dom, c)}
        /\ AbsVal => c.kind = "abs" /\ dom' \in {Crashed, cp_prop_abs(dom, c)}
        /\ Elem => c.kind = "elem" /\ dom' \in {Crashed, cp_prop_elem(dom, c)}
        /\ SetIn => c.kind = "setin" /\ dom' \in {Crashed, cp_prop_setin(dom, c)}
        /\ Pow => c.kind = "pow" /\ dom' \in {Crashed, cp_prop_pow(dom, c)}
        /\ Reif => c.kind = "reif" /\ dom' \in {Crashed, cp_prop_reif(dom, c)}
        /\ Clause => c.kind = "clause" /\ dom' \in {Crashed, cp_prop_clause(dom, c)}
        /\ MinMax => c.kind = "minmax" /\ dom' \in {Crashed, cp_prop_minmax(dom, c)}
        /\ And => c.kind = "and" /\ dom' \in {Crashed, cp_prop_and(dom, c)}
    BY DEF Lin, AllDiff, Times, Div, Mod, AbsVal, Elem, SetIn, Pow, Reif, Clause, MinMax, And, Plain, Run
  <2>3. TameConstraint(R, c)
    BY <2>1, <1>3 DEF constraint
  <2> HIDE DEF c
  <2>4. c.kind \in PlainKinds /\ (dom' # Crashed => dom' = Propagated(dom, c))
    BY <1>13, <2>2 DEF PlainKinds, Propagated
  <2>5. ASSUME dom' # Crashed, ~Failed(dom'), Frozen(dom, dom'), Vars # {}, dom' \in Boxes(R)
        PROVE  Settled(dom', c)
    <3>1. dom \in Boxes(R)
      BY <2>1, <1>4
    <3> QED BY <3>1, <2>3, <2>4, <2>5, <1>3, PlainSettles DEF R
  <2> QED BY <2>1, <2>4, <2>5, <1>7 DEF c
<1>14. CASE OrbitLike
  <2> DEFINE c == constraint
             start == OrbitDomains(dom, c)
  <2>1. /\ verdict = "running" /\ at \in DOMAIN problem.cons /\ at' = at + 1 /\ c.kind \in OrbitLikeKinds
        /\ facts' = Learn(facts, problem.next, Asked(start, c))
        /\ verdict' = Verdict(dom', "running") /\ changed' = (changed \/ Mutates(dom, dom', c))
    BY <1>14 DEF OrbitLike, OrbitLikeKinds, OrbitKinds, Run
  <2>2. \/ c.kind \in OrbitKinds /\ dom' \in {Crashed, cp_prop_orbit_gen(start, c, facts')}
        \/ c.kind = "oncycle" /\ dom' \in {Crashed, cp_prop_oncycle(start, c, facts')}
    BY <1>14 DEF OrbitLike, Run, OrbitKinds
  <2>3. TameConstraint(R, c)
    BY <2>1, <1>3 DEF constraint
  <2>4. Answers(facts', start, c)
    <3> DEFINE S == Asked(start, c)   memo == Learn(facts, problem.next, S)
    <3>1. /\ Truthful(problem.next, facts) /\ Table(problem.next)
          /\ DOMAIN problem.next = 0 .. Cardinality(DOMAIN problem.next) - 1
      BY <1>1, <1>3, ProblemsAssumption DEF KeepInv, MemoInv, Table
    <3>2. Truthful(problem.next, memo) /\ S \cap DOMAIN problem.next \subseteq DOMAIN memo
      <4> HIDE DEF S
      <4> QED BY <3>1, LearnIsTruthful
    <3>3. facts' = memo
      BY <2>1
    <3> HIDE DEF memo, start, c
    <3> QED BY <3>2, <3>3 DEF Answers, Truthful
  <2>5. ~Removes(dom, c)
    BY <2>1 DEF Removes, OrbitLikeKinds, OrbitKinds
  <2> HIDE DEF c
  <2>6. ASSUME dom' # Crashed, Frozen(dom, dom'), Vars # {}, dom' \in Boxes(R) PROVE Settled(dom', c)
    <3>1. dom \in Boxes(R)
      BY <2>1, <1>4
    <3>2. /\ c.kind \in OrbitKinds => dom' = cp_prop_orbit_gen(start, c, facts')
          /\ c.kind = "oncycle" => dom' = cp_prop_oncycle(start, c, facts')
      BY <2>2, <2>6 DEF OrbitKinds
    <3> QED BY <3>1, <3>2, <2>1, <2>3, <2>4, <2>6, <1>3, OrbitSettles DEF R
  <2> QED BY <2>1, <2>5, <2>6, <1>7 DEF c
<1> QED BY <1>9, <1>10, <1>11, <1>12, <1>13, <1>14 DEF Next, Propagate

(* "maximum-matching arc consistency": at every fixpoint of every tame     *)
(* problem, each value on the list of a variable of an all_different is    *)
(* part of a choice of different values for all its listed variables -     *)
(* though CP.mutations misses the removals that leave a variable without   *)
(* a list, and the pass may have ended on one.                             *)
THEOREM FixpointIsConsistent == Spec => [](Tame(problem) => AllDiffIsConsistent)
<1>1. DecideInv => (Tame(problem) => AllDiffIsConsistent)
  <2> SUFFICES ASSUME DecideInv, Tame(problem), verdict = "fixpoint",
                      NEW k \in DOMAIN problem.cons, problem.cons[k].kind = "alldiff"
               PROVE  LET c == problem.cons[k]
                          L == {i \in DOMAIN c.term : Listed(dom, c.term[i])}
                      IN \A i \in L : \A x \in dom[c.term[i]].vals :
                           \E f \in [L -> UNION {dom[c.term[j]].vals : j \in L}] :
                              /\ f[i] = x
                              /\ \A j \in L : f[j] \in dom[c.term[j]].vals
                              /\ \A j, l \in L : j # l => f[j] # f[l]
    BY DEF AllDiffIsConsistent
  <2> DEFINE c == problem.cons[k]
             L == {i \in DOMAIN c.term : Listed(dom, c.term[i])}
  <2>1. Settled(dom, c)
    <3>1. k \in 1 .. Len(problem.cons) /\ Len(problem.cons) \in Nat /\ DOMAIN problem.cons = 1 .. Len(problem.cons)
      BY DEF Tame
    <3>2. /\ at \in Nat \ {0} /\ ~changed /\ at \notin 1 .. Len(problem.cons)
          /\ \A j \in DOMAIN problem.cons : j < at => Settled(dom, problem.cons[j])
      BY <3>1 DEF DecideInv, Deciding, Quiet
    <3>3. k < at
      BY <3>1, <3>2
    <3> QED BY <3>2, <3>3
  <2>2. AllUsed(Lists(dom, c))
    BY <2>1 DEF Settled, Consistent
  <2> DEFINE o == Lists(dom, c)
  <2>3. DOMAIN o = L /\ \A j \in L : o[j] = dom[c.term[j]].vals
    BY DEF Lists
  <2> HIDE DEF o, L, c
  <2>4. UNION {o[j] : j \in DOMAIN o} = UNION {dom[c.term[j]].vals : j \in L}
    BY <2>3
  <2>5. ASSUME NEW i \in L, NEW x \in dom[c.term[i]].vals
        PROVE  \E f \in [L -> UNION {dom[c.term[j]].vals : j \in L}] :
                  /\ f[i] = x
                  /\ \A j \in L : f[j] \in dom[c.term[j]].vals
                  /\ \A j, l \in L : j # l => f[j] # f[l]
    <3>1. PICK f : Uses(f, o, i, x)
      BY <2>2, <2>3, <2>5 DEF AllUsed, o
    <3>2. f \in [L -> UNION {dom[c.term[j]].vals : j \in L}]
      BY <3>1, <2>3, <2>4 DEF Uses
    <3>3. /\ f[i] = x
          /\ \A j \in L : f[j] \in dom[c.term[j]].vals
          /\ \A j, l \in L : j # l => f[j] # f[l]
      BY <3>1, <2>3 DEF Uses
    <3> QED BY <3>2, <3>3
  <2> QED BY <2>5 DEF L, c
<1> QED BY <1>1, DecideInit, DecideStep, PTL DEF Spec

(* The problems whose leaves are decided.                                  *)
Decidable(m) == Tame(m) /\ \A i \in DOMAIN m.cons : Definite(RangesOf(m), m.cons[i])

(* What a fixpoint decides: when propagation ends with one value left to   *)
(* every variable, on its list, that point is a solution - cp_verify has   *)
(* nothing to reject, whatever constraints the problem has and by whatever *)
(* order of turns, passes and branches the search has come there.          *)
THEOREM FixpointIsDecided == Spec => [](Decidable(problem) => FixpointDecides)
<1>1. DecideInv => (Decidable(problem) /\ verdict = "fixpoint" /\ Assigned(dom) => cp_verify(Leaf(dom)))
  <2> SUFFICES ASSUME DecideInv, Decidable(problem), verdict = "fixpoint", Assigned(dom),
                      NEW k \in DOMAIN problem.cons
               PROVE  Satisfies(Leaf(dom), problem.cons[k], problem.next)
    BY DEF cp_verify
  <2>1. Deciding /\ Definite(RangesOf(problem), problem.cons[k])
    BY DEF DecideInv, Decidable
  <2>2. Settled(dom, problem.cons[k])
    <3>1. k \in 1 .. Len(problem.cons) /\ Len(problem.cons) \in Nat /\ DOMAIN problem.cons = 1 .. Len(problem.cons)
      BY DEF Decidable, Tame
    <3>2. /\ at \in Nat \ {0} /\ ~changed /\ at \notin 1 .. Len(problem.cons)
          /\ \A j \in DOMAIN problem.cons : j < at => Settled(dom, problem.cons[j])
      BY <2>1, <3>1 DEF Deciding, Quiet
    <3>3. k < at
      BY <3>1, <3>2
    <3> QED BY <3>2, <3>3
  <2> QED BY <2>1, <2>2 DEF Settled
<1>2. Spec => [](Tame(problem) => AllDiffIsConsistent)
  BY FixpointIsConsistent
<1>3. /\ Decidable(problem) => Tame(problem)
      /\ FixpointDecides <=> ((verdict = "fixpoint" /\ Assigned(dom) => cp_verify(Leaf(dom))) /\ AllDiffIsConsistent)
  BY DEF Decidable, FixpointDecides
<1> QED BY <1>1, <1>2, <1>3, DecideInit, DecideStep, PTL DEF Spec
=============================================================================
