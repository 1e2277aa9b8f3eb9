---------------------------- MODULE FrontProofs ----------------------------
(***************************************************************************)
(* Proofs about the two fronts of the engine: the WebAssembly bridge, with *)
(* the error frames and arenas it stands on, and the LP command line, with *)
(* the presolve it calls.  They share no state; the first part speaks of   *)
(* the variables of WebBridge, the second of those of LpCli.               *)
(***************************************************************************)
EXTENDS WebBridge, LpCli, SumFacts, SequenceTheorems

(***************************************************************************)
(* Proofs about error frames, arenas and the WebAssembly bridge.           *)
(*                                                                         *)
(* A failure always lands in the innermost try that is still running       *)
(* (ErrArena!ChainIsCallStack).  The invariant says of the chain what      *)
(* ChainIsCallStack says, but names the frame by a witness instead of      *)
(* CHOOSE; each way in which the call stack changes has one lemma, stated  *)
(* for entries of any set E so that hosts with further kinds of entries    *)
(* can use it.                                                             *)
(*                                                                         *)
(* Then the bridge: whatever calls a host makes, with and without budgets, *)
(* returning and failing in any order and at any depth of its own frames,  *)
(* nothing one call leaves behind decides about another -- as long as its  *)
(* handlers disarm the budget first.                                       *)
(*                                                                         *)
(* Last the arenas: that use and end nest (Held says by a witness what     *)
(* InUse says by a recursive function) and that blocks go home, both for a *)
(* host that uses err.h itself and for one that calls the bridge.          *)
(***************************************************************************)

(* The innermost try of s below position i is that of frame f.             *)
Encloses(s, i, f) ==
  \/ f = None /\ \A p \in 1 .. i - 1 : s[p].at # "body"
  \/ \E k \in 1 .. i - 1 :
       /\ s[k].at = "body" /\ s[k].frame = f
       /\ \A p \in 1 .. i - 1 : s[p].at = "body" => p <= k

StackInv(E) ==
  /\ calls \in Seq(E) /\ calls # << >> /\ calls[1].at = "base"
  /\ prev \in [Frames -> Frames \union {None}]
  /\ \A i \in 1 .. Len(calls) : calls[i].at = "body" => calls[i].frame \in Frames
  /\ \A i, k \in 1 .. Len(calls) :
       calls[i].frame # None /\ calls[i].frame = calls[k].frame => i = k

ChainInv ==
  /\ Encloses(calls, Len(calls) + 1, psv_frame_top)
  /\ \A i \in 1 .. Len(calls) :
       calls[i].at = "body" => Encloses(calls, i, prev[calls[i].frame])

(* Only the entries below i matter.                                        *)
LEMMA EnclosesPrefix ==
  ASSUME NEW s, NEW t, NEW i \in Nat, NEW f, Encloses(s, i, f),
         \A p \in 1 .. i - 1 : t[p] = s[p]
  PROVE  Encloses(t, i, f)
BY DEF Encloses

(* The witness is the frame that CHOOSE finds.                             *)
LEMMA EnclosesIsUnique ==
  ASSUME NEW i \in Nat, NEW f, Encloses(calls, i, f)
  PROVE  EnclosingFrame(i) = f
<1> DEFINE outer == {k \in 1 .. i - 1 : Trying(k)}
           top(k) == k \in outer /\ \A p \in outer : p <= k
<1>1. CASE \A p \in 1 .. i - 1 : calls[p].at # "body"
  <2>1. outer = {}  BY <1>1 DEF Trying
  <2>2. f = None  BY <1>1 DEF Encloses
  <2> QED BY <2>1, <2>2 DEF EnclosingFrame
<1>2. CASE \E p \in 1 .. i - 1 : calls[p].at = "body"
  <2>1. PICK k \in 1 .. i - 1 : calls[k].frame = f /\ top(k)
    BY <1>2 DEF Encloses, Trying
  <2>2. \A j : top(j) => j = k  BY <2>1
  <2>3. (CHOOSE j \in outer : \A p \in outer : p <= j) = k  BY <2>1, <2>2
  <2>4. outer # {}  BY <2>1
  <2> HIDE DEF outer
  <2> QED BY <2>1, <2>3, <2>4 DEF EnclosingFrame, outer
<1> QED BY <1>1, <1>2

LEMMA ChainFromInv ==
  ASSUME NEW E, StackInv(E), ChainInv
  PROVE  ChainIsCallStack
<1>1. Len(calls) \in Nat /\ DOMAIN calls = 1 .. Len(calls)
  BY LenProperties DEF StackInv
<1>2. psv_frame_top = EnclosingFrame(Len(calls) + 1)
  BY <1>1, EnclosesIsUnique DEF ChainInv
<1>3. ASSUME NEW i \in 1 .. Len(calls), Trying(i)
      PROVE  prev[calls[i].frame] = EnclosingFrame(i)
  BY <1>1, <1>3, EnclosesIsUnique DEF ChainInv, Trying
<1> QED BY <1>1, <1>2, <1>3 DEF ChainIsCallStack

----------------------------------------------------------------------------
(* The ways in which the call stack changes.                               *)

(* A function pushes its frame.                                            *)
LEMMA PushKeeps ==
  ASSUME NEW E, StackInv(E), ChainInv, NEW f \in Frames, NEW e \in E,
         e.frame = f, e.at = "body",
         f \notin {calls[i].frame : i \in DOMAIN calls},
         psv_frame_top \in Frames \union {None},
         prev' = [prev EXCEPT ![f] = psv_frame_top], psv_frame_top' = f,
         calls' = Append(calls, e)
  PROVE  StackInv(E)' /\ ChainInv'
<1> DEFINE z == Len(calls)
<1>1. z \in Nat /\ DOMAIN calls = 1 .. z  BY LenProperties DEF StackInv
<1>2. /\ calls' \in Seq(E) /\ calls' # << >> /\ Len(calls') = z + 1
      /\ \A i \in 1 .. z : calls'[i] = calls[i]
      /\ calls'[z + 1] = e
  BY AppendProperties DEF StackInv
<1>3. \A i \in 1 .. z : calls[i].frame # f  BY <1>1
<1>4. StackInv(E)'
  <2>1. prev' \in [Frames -> Frames \union {None}]  BY DEF StackInv
  <2>2. \A i \in 1 .. z + 1 : i = z + 1 \/ i \in 1 .. z  BY <1>1
  <2>3. \A i \in 1 .. z + 1 : calls'[i].at = "body" => calls'[i].frame \in Frames
    BY <1>2, <2>2 DEF StackInv
  <2>4. \A i, k \in 1 .. z + 1 :
          calls'[i].frame # None /\ calls'[i].frame = calls'[k].frame => i = k
    BY <1>2, <1>3, <2>2 DEF StackInv
  <2> QED BY <1>2, <2>1, <2>3, <2>4 DEF StackInv
<1>5. Encloses(calls', z + 2, f)
  BY <1>1, <1>2 DEF Encloses
<1>6. ASSUME NEW i \in 1 .. z + 1, calls'[i].at = "body"
      PROVE  Encloses(calls', i, prev'[calls'[i].frame])
  <2>1. CASE i = z + 1
    <3>1. prev'[calls'[i].frame] = psv_frame_top  BY <1>2, <2>1 DEF StackInv
    <3>2. Encloses(calls', z + 1, psv_frame_top)
      <4>1. Encloses(calls, z + 1, psv_frame_top)  BY DEF ChainInv
      <4>2. z + 1 \in Nat /\ \A p \in 1 .. (z + 1) - 1 : calls'[p] = calls[p]
        BY <1>1, <1>2
      <4> HIDE DEF z
      <4> QED BY <4>1, <4>2, EnclosesPrefix
    <3> QED BY <2>1, <3>1, <3>2
  <2>2. CASE i \in 1 .. z
    <3>1. calls'[i] = calls[i] /\ calls[i].frame \in Frames  BY <1>2, <1>6, <2>2 DEF StackInv
    <3>2. prev'[calls'[i].frame] = prev[calls[i].frame]  BY <1>3, <2>2, <3>1 DEF StackInv
    <3>3. Encloses(calls, i, prev[calls[i].frame])  BY <1>6, <2>2, <3>1 DEF ChainInv
    <3>4. \A p \in 1 .. i - 1 : calls'[p] = calls[p]  BY <1>1, <1>2, <2>2
    <3>5. i \in Nat  BY <1>1, <2>2
    <3>6. Encloses(calls', i, prev[calls[i].frame])  BY <3>3, <3>4, <3>5, EnclosesPrefix
    <3> QED BY <3>2, <3>6
  <2> QED BY <1>1, <2>1, <2>2
<1> HIDE DEF z
<1> QED BY <1>1, <1>2, <1>4, <1>5, <1>6 DEF ChainInv

(* A function without a frame is entered.                                  *)
LEMMA EnterKeeps ==
  ASSUME NEW E, StackInv(E), ChainInv, NEW e \in E, e.frame = None, e.at # "body",
         UNCHANGED <<psv_frame_top, prev>>, calls' = Append(calls, e)
  PROVE  StackInv(E)' /\ ChainInv'
<1> DEFINE z == Len(calls)
<1>1. z \in Nat  BY LenProperties DEF StackInv
<1>2. /\ calls' \in Seq(E) /\ calls' # << >> /\ Len(calls') = z + 1
      /\ \A i \in 1 .. z : calls'[i] = calls[i]
      /\ calls'[z + 1] = e
  BY AppendProperties DEF StackInv
<1>3. \A i \in 1 .. z + 1 : i = z + 1 \/ i \in 1 .. z  BY <1>1
<1>4. StackInv(E)'  BY <1>2, <1>3 DEF StackInv
<1>5. Encloses(calls', z + 2, psv_frame_top)
  BY <1>1, <1>2, <1>3 DEF Encloses, ChainInv
<1>6. ASSUME NEW i \in 1 .. z + 1, calls'[i].at = "body"
      PROVE  Encloses(calls', i, prev[calls'[i].frame])
  <2>1. i \in 1 .. z /\ calls'[i] = calls[i]  BY <1>2, <1>3, <1>6
  <2>2. i \in Nat /\ \A p \in 1 .. i - 1 : calls'[p] = calls[p]
    BY <1>1, <1>2, <2>1
  <2>3. Encloses(calls, i, prev[calls[i].frame])  BY <1>6, <2>1 DEF ChainInv
  <2>4. Encloses(calls', i, prev[calls[i].frame])  BY <2>2, <2>3, EnclosesPrefix
  <2> QED BY <2>1, <2>4
<1> HIDE DEF z
<1> QED BY <1>1, <1>2, <1>4, <1>5, <1>6 DEF ChainInv

(* The innermost function returns, popping its frame if it is in a try.    *)
LEMMA ReturnKeeps ==
  ASSUME NEW E, StackInv(E), ChainInv, Caller.at # "base", UNCHANGED prev,
         psv_frame_top' = IF Caller.at = "body" THEN prev[Caller.frame] ELSE psv_frame_top,
         calls' = Front(calls)
  PROVE  StackInv(E)' /\ ChainInv'
<1> DEFINE z == Len(calls)
<1>1. z \in Nat /\ z > 1
  <2>1. z \in Nat /\ z > 0  BY LenProperties, EmptySeq DEF StackInv
  <2>2. Caller = calls[z] /\ calls[1].at = "base"  BY DEF Caller, Last, StackInv
  <2>3. z # 1  BY <2>2
  <2> QED BY <2>1, <2>3
<1>2. \A i \in 1 .. z : calls[i] \in E  BY ElementOfSeq DEF StackInv
<1>3. /\ calls' \in Seq(E) /\ Len(calls') = z - 1
      /\ \A i \in 1 .. z - 1 : calls'[i] = calls[i]
  <2>1. calls' = SubSeq(calls, 1, z - 1)  BY DEF Front
  <2>2. \A i \in 1 .. z - 1 : calls[i] \in E  BY <1>1, <1>2
  <2> HIDE DEF z
  <2>3. /\ SubSeq(calls, 1, z - 1) \in Seq(E)
        /\ Len(SubSeq(calls, 1, z - 1)) = z - 1
        /\ \A i \in 1 .. z - 1 : SubSeq(calls, 1, z - 1)[i] = calls[i]
    BY <1>1, <2>2, SubSeqProperties
  <2> QED BY <2>1, <2>3
<1>4. calls' # << >>  BY <1>1, <1>3, EmptySeq
<1>5. StackInv(E)'  BY <1>1, <1>3, <1>4 DEF StackInv
<1>6. Encloses(calls', z, psv_frame_top')
  <2>1. Encloses(calls, z, psv_frame_top')
    <3>1. CASE Caller.at = "body"  BY <1>1, <3>1 DEF Caller, Last, ChainInv
    <3>2. CASE Caller.at # "body"  BY <1>1, <3>2 DEF Caller, Last, ChainInv, Encloses
    <3> QED BY <3>1, <3>2
  <2> QED BY <1>1, <1>3, <2>1, EnclosesPrefix
<1>7. ASSUME NEW i \in 1 .. z - 1, calls'[i].at = "body"
      PROVE  Encloses(calls', i, prev[calls'[i].frame])
  <2>1. i \in 1 .. z /\ calls'[i] = calls[i]  BY <1>1, <1>3
  <2>2. \A p \in 1 .. i - 1 : calls'[p] = calls[p]  BY <1>1, <1>3
  <2> QED BY <1>1, <1>7, <2>1, <2>2, EnclosesPrefix DEF ChainInv
<1> HIDE DEF z
<1> QED BY <1>1, <1>3, <1>5, <1>6, <1>7 DEF ChainInv

(* The innermost function changes nothing about its frame.                 *)
LEMMA WorkKeeps ==
  ASSUME NEW E, StackInv(E), ChainInv, NEW e \in E,
         e.frame = Caller.frame, e.at = Caller.at,
         UNCHANGED <<psv_frame_top, prev>>,
         calls' = [calls EXCEPT ![Len(calls)] = e]
  PROVE  StackInv(E)' /\ ChainInv'
<1> DEFINE z == Len(calls)
<1>1. z \in Nat /\ z > 0  BY LenProperties, EmptySeq DEF StackInv
<1>2. /\ calls' \in Seq(E) /\ Len(calls') = z
      /\ \A i \in 1 .. z : calls'[i] = IF i = z THEN e ELSE calls[i]
  BY <1>1, ExceptSeq DEF StackInv
<1>3. calls' # << >>  BY <1>1, <1>2, EmptySeq
<1>4. \A i \in 1 .. z : calls'[i].frame = calls[i].frame /\ calls'[i].at = calls[i].at
  BY <1>2 DEF Caller, Last
<1>5. StackInv(E)'
  <2>1. prev' \in [Frames -> Frames \union {None}]  BY DEF StackInv
  <2>2. \A i \in 1 .. z : calls'[i].at = "body" => calls'[i].frame \in Frames
    BY <1>4 DEF StackInv
  <2>3. \A i, k \in 1 .. z :
          calls'[i].frame # None /\ calls'[i].frame = calls'[k].frame => i = k
    BY <1>4 DEF StackInv
  <2>4. calls'[1].at = "base"  BY <1>1, <1>4 DEF StackInv
  <2> QED BY <1>2, <1>3, <2>1, <2>2, <2>3, <2>4 DEF StackInv
<1>6. ASSUME NEW i \in 1 .. z + 1, NEW f, Encloses(calls, i, f)
      PROVE  Encloses(calls', i, f)
  <2>1. \A p \in 1 .. i - 1 : p \in 1 .. z  BY <1>1
  <2>2. \A p \in 1 .. i - 1 : calls'[p].frame = calls[p].frame /\ calls'[p].at = calls[p].at
    BY <1>4, <2>1
  <2> HIDE DEF z
  <2>3. CASE f = None /\ \A p \in 1 .. i - 1 : calls[p].at # "body"
    BY <2>2, <2>3 DEF Encloses
  <2>4. CASE \E k \in 1 .. i - 1 :
               /\ calls[k].at = "body" /\ calls[k].frame = f
               /\ \A p \in 1 .. i - 1 : calls[p].at = "body" => p <= k
    BY <2>2, <2>4 DEF Encloses
  <2> QED BY <1>6, <2>3, <2>4 DEF Encloses
<1>7. Encloses(calls', z + 1, psv_frame_top)
  <2>1. Encloses(calls, z + 1, psv_frame_top) /\ z + 1 \in 1 .. z + 1
    BY <1>1 DEF ChainInv
  <2> QED BY <1>6, <2>1
<1>8. ASSUME NEW i \in 1 .. z, calls'[i].at = "body"
      PROVE  Encloses(calls', i, prev[calls'[i].frame])
  <2>1. calls[i].at = "body" /\ calls'[i].frame = calls[i].frame  BY <1>4, <1>8
  <2>2. Encloses(calls, i, prev[calls[i].frame])  BY <2>1 DEF ChainInv
  <2>3. i \in 1 .. z + 1  BY <1>1
  <2>4. Encloses(calls', i, prev[calls[i].frame])  BY <1>6, <2>2, <2>3
  <2> QED BY <2>1, <2>4
<1>9. Len(calls') = z /\ psv_frame_top' = psv_frame_top /\ prev' = prev  BY <1>2
<1> HIDE DEF z
<1>10. ChainInv'  BY <1>7, <1>8, <1>9 DEF ChainInv
<1> QED BY <1>5, <1>10

(* The stack is cut at some function, which is in its handler now.         *)
CutAtHandler ==
  \E i \in 1 .. Len(calls) :
    /\ Len(calls') = i /\ calls'[i].at = "handler"
    /\ \A p \in 1 .. i - 1 : calls'[p] = calls[p]

(* A failure: without a frame nothing changes, with one the stack ends in  *)
(* the handler of the innermost try.                                       *)
LEMMA UnwindKeeps ==
  ASSUME NEW E, StackInv(E), ChainInv, NEW code, Unwind(code),
         \A e \in E : e.at = "body" =>
           /\ [e EXCEPT !.at = "handler"] \in E
           /\ [e EXCEPT !.at = "handler"].at = "handler"
           /\ [e EXCEPT !.at = "handler"].frame = e.frame
  PROVE  /\ StackInv(E)' /\ ChainInv'
         /\ calls' = calls \/ CutAtHandler
<1>z. Len(calls) \in Nat /\ DOMAIN calls = 1 .. Len(calls)  BY LenProperties DEF StackInv
<1>1. CASE psv_frame_top = None
  BY <1>1 DEF Unwind, StackInv, ChainInv
<1>2. CASE psv_frame_top # None
  <2>1. PICK i \in 1 .. Len(calls) :
          /\ calls[i].frame = psv_frame_top
          /\ calls' = Append(SubSeq(calls, 1, i - 1), [calls[i] EXCEPT !.at = "handler"])
    BY <1>z, <1>2 DEF Unwind
  <2>2. calls[i].at = "body"
    <3>1. PICK k \in 1 .. Len(calls) : calls[k].at = "body" /\ calls[k].frame = psv_frame_top
      BY <1>z, <1>2 DEF ChainInv, Encloses
    <3> QED BY <1>2, <2>1, <3>1 DEF StackInv
  <2>3. psv_frame_top' = prev[calls[i].frame] /\ prev' = prev
    BY <1>2, <2>1 DEF Unwind
  <2> DEFINE h == [calls[i] EXCEPT !.at = "handler"]
             below == SubSeq(calls, 1, i - 1)
  <2>4. \A p \in 1 .. Len(calls) : calls[p] \in E  BY ElementOfSeq DEF StackInv
  <2>5. h \in E /\ h.at = "handler" /\ h.frame = calls[i].frame  BY <2>2, <2>4
  <2>6. below \in Seq(E) /\ Len(below) = i - 1 /\ \A p \in 1 .. i - 1 : below[p] = calls[p]
    <3>1. \A p \in 1 .. i - 1 : calls[p] \in E  BY <1>z, <2>4
    <3> QED BY <1>z, <3>1, SubSeqProperties
  <2> HIDE DEF h, below
  <2>7. /\ calls' \in Seq(E) /\ calls' # << >> /\ Len(calls') = i
        /\ \A p \in 1 .. i - 1 : calls'[p] = calls[p]
        /\ calls'[i] = h
    <3>1. calls' = Append(below, h)  BY <2>1 DEF below, h
    <3>2. Len(below) + 1 = i  BY <2>6
    <3> QED BY <2>5, <2>6, <3>1, <3>2, AppendProperties
  <2>8. \A p \in 1 .. i : p = i \/ p \in 1 .. i - 1  BY <1>z
  <2>9. 1 .. i - 1 \subseteq 1 .. Len(calls)  BY <1>z
  <2>10. StackInv(E)'
    <3>1. \A p \in 1 .. i : calls'[p].at = "body" => calls'[p].frame \in Frames
      BY <2>5, <2>7, <2>8, <2>9 DEF StackInv
    <3>2. \A p \in 1 .. i : calls'[p].frame = calls[p].frame  BY <2>5, <2>7, <2>8
    <3>3. 1 .. i \subseteq 1 .. Len(calls)  BY <1>z
    <3>4. \A p, k \in 1 .. i :
            calls'[p].frame # None /\ calls'[p].frame = calls'[k].frame => p = k
      BY <3>2, <3>3 DEF StackInv
    <3>5. calls'[1].at = "base"
      <4>1. i # 1  BY <2>2 DEF StackInv
      <4>2. 1 \in 1 .. i - 1  BY <1>z, <4>1
      <4> QED BY <2>7, <4>2 DEF StackInv
    <3> QED BY <2>3, <2>7, <3>1, <3>4, <3>5 DEF StackInv
  <2>11. Encloses(calls', i + 1, psv_frame_top')
    <3>1. Encloses(calls, i, psv_frame_top')  BY <2>2, <2>3 DEF ChainInv
    <3>2. Encloses(calls', i, psv_frame_top')  BY <1>z, <2>7, <3>1, EnclosesPrefix
    <3>3. calls'[i].at # "body"  BY <2>5, <2>7
    <3> QED BY <1>z, <2>8, <3>2, <3>3 DEF Encloses
  <2>12. ASSUME NEW p \in 1 .. i, calls'[p].at = "body"
         PROVE  Encloses(calls', p, prev'[calls'[p].frame])
    <3>1. p \in 1 .. i - 1 /\ p \in 1 .. Len(calls) /\ calls'[p] = calls[p]
      BY <2>5, <2>7, <2>8, <2>9, <2>12
    <3>2. Encloses(calls, p, prev[calls[p].frame])  BY <2>12, <3>1 DEF ChainInv
    <3>3. \A k \in 1 .. p - 1 : calls'[k] = calls[k]  BY <1>z, <2>7, <3>1
    <3> QED BY <1>z, <2>3, <3>1, <3>2, <3>3, EnclosesPrefix
  <2>13. CutAtHandler  BY <2>5, <2>7 DEF CutAtHandler
  <2> QED BY <2>7, <2>10, <2>11, <2>12, <2>13 DEF ChainInv
<1> QED BY <1>1, <1>2
----------------------------------------------------------------------------
(* The call stack of this module's host.                                   *)
FrameEntries == [frame : Frames \union {None}, at : {"base", "body", "handler"},
            uses : Seq(Arenas)]

FrameInv == StackInv(FrameEntries) /\ ChainInv

LEMMA FrameInit == Init => FrameInv
<1> SUFFICES ASSUME Init PROVE FrameInv
  OBVIOUS
<1> DEFINE base == [frame |-> None, at |-> "base", uses |-> << >>]
<1>1. base \in FrameEntries  BY DEF FrameEntries
<1>2. calls = <<base>> /\ Len(calls) = 1 /\ calls[1] = base  BY DEF Init
<1>3. base.at = "base" /\ base.frame = None  OBVIOUS
<1> HIDE DEF base
<1>4. calls \in Seq(FrameEntries) /\ calls # << >>  BY <1>1, <1>2
<1>5. StackInv(FrameEntries)  BY <1>2, <1>3, <1>4 DEF StackInv, Init
<1>6. ChainInv  BY <1>2, <1>3 DEF ChainInv, Encloses, Init
<1> QED BY <1>5, <1>6 DEF FrameInv

(* The head of the chain is a frame of some running try.                   *)
LEMMA TopIsAFrame ==
  ASSUME NEW E, StackInv(E), ChainInv
  PROVE  psv_frame_top \in Frames \union {None}
<1>1. Len(calls) \in Nat  BY LenProperties DEF StackInv
<1> QED BY <1>1 DEF StackInv, ChainInv, Encloses

(* A function that runs is on the stack; in a try, its frame heads the     *)
(* chain.                                                                  *)
LEMMA CallerOnTop ==
  ASSUME NEW E, StackInv(E), ChainInv
  PROVE  /\ Len(calls) \in Nat \ {0}
         /\ Caller = calls[Len(calls)] /\ Caller \in E
         /\ Caller.at = "body" => psv_frame_top = Caller.frame
<1>1. Len(calls) \in Nat \ {0}  BY LenProperties, EmptySeq DEF StackInv
<1>2. Caller = calls[Len(calls)]  BY DEF Caller, Last
<1>3. Caller \in E  BY <1>1, <1>2, ElementOfSeq DEF StackInv
<1>4. ASSUME Caller.at = "body"  PROVE psv_frame_top = Caller.frame
  <2>1. PICK k \in 1 .. Len(calls) :
          /\ calls[k].at = "body" /\ calls[k].frame = psv_frame_top
          /\ \A p \in 1 .. Len(calls) : calls[p].at = "body" => p <= k
    BY <1>1, <1>2, <1>4 DEF ChainInv, Encloses
  <2>2. k = Len(calls)  BY <1>1, <1>2, <1>4, <2>1
  <2> QED BY <1>2, <2>1, <2>2
<1> QED BY <1>1, <1>2, <1>3, <1>4


LEMMA FrontInSeq ==
  ASSUME NEW S, NEW u \in Seq(S), u # << >>
  PROVE  Front(u) \in Seq(S)
<1>1. Len(u) \in Nat /\ Len(u) > 0  BY LenProperties, EmptySeq
<1>2. \A p \in 1 .. Len(u) - 1 : u[p] \in S  BY <1>1, ElementOfSeq
<1>3. SubSeq(u, 1, Len(u) - 1) \in Seq(S)  BY <1>1, <1>2, SubSeqProperties
<1> QED BY <1>3 DEF Front

(* An entry of this host that changes only its uses is another one.        *)
LEMMA UsesKeep ==
  ASSUME StackInv(FrameEntries), ChainInv, NEW u \in Seq(Arenas),
         UNCHANGED <<psv_frame_top, prev>>,
         calls' = [calls EXCEPT ![Len(calls)].uses = u]
  PROVE  FrameInv'
<1> DEFINE e == [calls[Len(calls)] EXCEPT !.uses = u]
<1>1. Caller = calls[Len(calls)] /\ Caller \in FrameEntries  BY CallerOnTop
<1>2. e \in FrameEntries /\ e.frame = Caller.frame /\ e.at = Caller.at
  BY <1>1 DEF FrameEntries
<1>3. calls' = [calls EXCEPT ![Len(calls)] = e]  OBVIOUS
<1> HIDE DEF e
<1> QED BY <1>2, <1>3, WorkKeeps DEF FrameInv

LEMMA FailKeeps ==
  ASSUME FrameInv, NEW code, Unwind(code)
  PROVE  FrameInv'
<1>1. ASSUME NEW e \in FrameEntries, e.at = "body"
      PROVE  /\ [e EXCEPT !.at = "handler"] \in FrameEntries
             /\ [e EXCEPT !.at = "handler"].at = "handler"
             /\ [e EXCEPT !.at = "handler"].frame = e.frame
  BY DEF FrameEntries
<1> QED BY <1>1, UnwindKeeps DEF FrameInv

LEMMA FrameStep == FrameInv /\ [Next]_vars => FrameInv'
<1> SUFFICES ASSUME FrameInv, [Next]_vars PROVE FrameInv'
  OBVIOUS
<1> USE DEF FrameInv
<1>0. ASSUME UNCHANGED <<psv_frame_top, prev, calls>>
      PROVE  FrameInv'
  BY <1>0 DEF StackInv, ChainInv
<1>c. /\ Caller = calls[Len(calls)] /\ Caller \in FrameEntries
      /\ Caller.at = "body" => psv_frame_top = Caller.frame
  BY CallerOnTop
<1>1. ASSUME NEW f \in Frames, psolve_frame_push(f)  PROVE FrameInv'
  <2> DEFINE e == [frame |-> f, at |-> "body", uses |-> << >>]
  <2>1. e \in FrameEntries /\ e.frame = f /\ e.at = "body"  BY DEF FrameEntries
  <2>2. calls' = Append(calls, e)  BY <1>1 DEF psolve_frame_push
  <2> HIDE DEF e
  <2>3. psv_frame_top \in Frames \union {None}  BY TopIsAFrame
  <2> QED BY <1>1, <2>1, <2>2, <2>3, PushKeeps DEF psolve_frame_push
<1>2. CASE psolve_frame_pop
  <2>1. psv_frame_top = Caller.frame  BY <1>2, <1>c DEF psolve_frame_pop
  <2>2. /\ Caller.at # "base" /\ prev' = prev /\ calls' = Front(calls)
        /\ psv_frame_top' = IF Caller.at = "body" THEN prev[Caller.frame] ELSE psv_frame_top
    BY <1>2, <2>1 DEF psolve_frame_pop
  <2> QED BY <2>2, ReturnKeeps
<1>3. CASE HandlerReturns
  <2>1. /\ Caller.at # "base" /\ prev' = prev /\ calls' = Front(calls)
        /\ psv_frame_top' = IF Caller.at = "body" THEN prev[Caller.frame] ELSE psv_frame_top
    BY <1>3 DEF HandlerReturns
  <2> QED BY <2>1, ReturnKeeps
<1>4. CASE psolve_fail
  BY <1>4, FailKeeps DEF psolve_fail
<1>5. ASSUME NEW a \in Arenas, psolve_arena_use(a)  PROVE FrameInv'
  <2>1. Append(calls[Len(calls)].uses, a) \in Seq(Arenas)
    BY <1>c, AppendProperties DEF FrameEntries
  <2>2. calls' = [calls EXCEPT ![Len(calls)].uses = Append(calls[Len(calls)].uses, a)]
    BY <1>5 DEF psolve_arena_use
  <2> QED BY <1>5, <2>1, <2>2, UsesKeep DEF psolve_arena_use
<1>6. ASSUME NEW a \in Arenas, psolve_arena_reset(a)  PROVE FrameInv'
  BY <1>0, <1>6 DEF psolve_arena_reset, frameVars
<1>7. CASE psolve_arena_end
  <2>1. Front(calls[Len(calls)].uses) \in Seq(Arenas)
    BY <1>7, <1>c, FrontInSeq DEF psolve_arena_end, FrameEntries
  <2>2. calls' = [calls EXCEPT ![Len(calls)].uses = Front(calls[Len(calls)].uses)]
    BY <1>7 DEF psolve_arena_end
  <2> QED BY <1>7, <2>1, <2>2, UsesKeep DEF psolve_arena_end
<1>8. ASSUME NEW k \in Sizes, psolve_malloc(k)  PROVE FrameInv'
  <2>1. CASE UNCHANGED frameVars  BY <1>0, <2>1 DEF frameVars
  <2>2. CASE Unwind(PSOLVE_ERR_OOM)  BY <2>2, FailKeeps
  <2> QED BY <1>8, <2>1, <2>2 DEF psolve_malloc
<1>9. ASSUME NEW b \in blocks, psolve_free(b)  PROVE FrameInv'
  BY <1>0, <1>9 DEF psolve_free, frameVars
<1>10. ASSUME NEW b \in blocks, NEW k \in Sizes, psolve_realloc(b, k)  PROVE FrameInv'
  <2>1. CASE UNCHANGED frameVars  BY <1>0, <2>1 DEF frameVars
  <2>2. CASE Unwind(PSOLVE_ERR_OOM)  BY <2>2, FailKeeps
  <2> QED BY <1>10, <2>1, <2>2 DEF psolve_realloc
<1>11. CASE UNCHANGED vars
  BY <1>0, <1>11 DEF vars, frameVars
<1> QED BY <1>1, <1>2, <1>3, <1>4, <1>5, <1>6, <1>7, <1>8, <1>9, <1>10, <1>11 DEF Next

(* err.h: whatever functions push, pop, fail, recover and allocate in, the *)
(* chain that psolve_fail unwinds is exactly the host's running tries,     *)
(* innermost first: no failure longjmps into a function that has returned. *)
THEOREM FailuresLandInLiveTries == Spec => []ChainIsCallStack
<1>1. FrameInv => ChainIsCallStack  BY ChainFromInv DEF FrameInv
<1> QED BY <1>1, FrameInit, FrameStep, PTL DEF Spec

(* err.h: every function that pops is the one whose frame heads the chain, *)
(* so a well-behaved host never meets the abort of psolve_frame_pop.       *)
THEOREM PopsNeverAbort == Spec => [](ended # "abort")
<1> DEFINE Inv == FrameInv /\ ended # "abort"
<1>1. Init => Inv  BY FrameInit DEF Init
<1>2. Inv /\ [Next]_vars => Inv'
  <2> SUFFICES ASSUME Inv, [Next]_vars PROVE ended' # "abort"
    BY FrameStep
  <2>1. Caller.at = "body" => psv_frame_top = Caller.frame
    BY CallerOnTop DEF FrameInv
  <2>2. ASSUME NEW code, Unwind(code)  PROVE ended' # "abort"
    BY <2>2 DEF Unwind
  <2> QED BY <2>1, <2>2 DEF Next, vars, psolve_frame_push, psolve_frame_pop,
       HandlerReturns, psolve_fail, psolve_arena_use, psolve_arena_reset,
       psolve_arena_end, psolve_malloc, psolve_free, psolve_realloc
<1> QED BY <1>1, <1>2, PTL DEF Spec

----------------------------------------------------------------------------
(* The bridge.                                                             *)

(* The entries of calls into the bridge, beside those of the host.         *)
BridgeEntries ==
  FrameEntries \union
  [frame : {None}, at : {"solve"}, uses : {<< >>}, entry : {"lp", "lp_b", "qp"},
   qp : QPs \union {None}, mine : BOOLEAN]

(* The bridge does not call the host: a call is the innermost entry.       *)
CallsAreInnermost == \A i \in 1 .. Len(calls) - 1 : calls[i].at # "solve"

ArmedInv ==
  psolve_arena_stack \in Seq(Arenas) /\ (g_arena_armed => psolve_arena_stack # << >>)

(* The slot is the bridge's while a deadline is armed, by whomever and for *)
(* however long; a host with a callback of its own never asked for one.    *)
BudgetInv ==
  /\ g_deadline \in BOOLEAN /\ g_stop_mine = g_deadline
  /\ asked \in BOOLEAN /\ hook \in BOOLEAN
  /\ g_deadline => asked /\ psv_stop_fn = "budget"
  /\ hook => ~asked /\ psv_stop_fn = "host"
  /\ Solving /\ Caller.entry # "lp" => Caller.mine = g_deadline

CertInv ==
  /\ last \in [qp : QPs \union {None}, refuted : BOOLEAN] /\ g_proven \in BOOLEAN
  /\ g_proven => last.refuted /\ g_lam = last.qp
  /\ Solving /\ Caller.entry = "qp" => last.qp = Caller.qp

ShapeInv == StackInv(BridgeEntries) /\ ChainInv /\ CallsAreInnermost
BridgeInv == ShapeInv /\ ArmedInv /\ BudgetInv /\ CertInv

LEMMA BridgeStarts == BridgeInit => BridgeInv
<1> SUFFICES ASSUME BridgeInit PROVE BridgeInv
  OBVIOUS
<1>1. StackInv(FrameEntries) /\ ChainInv  BY FrameInit DEF BridgeInit, FrameInv
<1>2. calls = << [frame |-> None, at |-> "base", uses |-> << >>] >>
  BY DEF BridgeInit, Init
<1>3. Len(calls) = 1 /\ calls[1].at = "base" /\ Caller.at = "base"
  BY <1>2 DEF Caller, Last
<1>4. calls \in Seq(BridgeEntries)
  BY <1>2 DEF BridgeEntries, FrameEntries
<1>5. ShapeInv
  BY <1>1, <1>3, <1>4 DEF ShapeInv, StackInv, CallsAreInnermost
<1>6. ArmedInv  BY DEF ArmedInv, BridgeInit, Init
<1>7. BudgetInv  BY <1>3 DEF BudgetInv, BridgeInit, Solving
<1>8. CertInv  BY <1>3 DEF CertInv, BridgeInit, Solving
<1> QED BY <1>5, <1>6, <1>7, <1>8 DEF BridgeInv

----------------------------------------------------------------------------
(* The three ways in which the stack changes, and its innermost entry.     *)

LEMMA AfterEntering ==
  ASSUME ShapeInv, ~Solving, NEW e \in BridgeEntries, calls' = Append(calls, e)
  PROVE  Caller' = e /\ CallsAreInnermost'
<1>1. calls \in Seq(BridgeEntries) /\ Len(calls) \in Nat \ {0} /\ Caller = calls[Len(calls)]
  BY CallerOnTop DEF ShapeInv, StackInv
<1>2. /\ Len(calls') = Len(calls) + 1 /\ calls'[Len(calls) + 1] = e
      /\ \A i \in 1 .. Len(calls) : calls'[i] = calls[i]
  BY <1>1, AppendProperties
<1>3. Caller' = e  BY <1>2 DEF Caller, Last
<1>4. CallsAreInnermost'
  BY <1>1, <1>2 DEF ShapeInv, CallsAreInnermost, Solving
<1> QED BY <1>3, <1>4

LEMMA AfterReturning ==
  ASSUME ShapeInv, Caller.at # "base", calls' = Front(calls)
  PROVE  ~Solving' /\ CallsAreInnermost'
<1>1. /\ calls \in Seq(BridgeEntries) /\ Len(calls) \in Nat \ {0} /\ Caller = calls[Len(calls)]
      /\ calls[1].at = "base"
  BY CallerOnTop DEF ShapeInv, StackInv
<1>2. Len(calls) > 1  BY <1>1
<1>3. \A i \in 1 .. Len(calls) - 1 : calls[i] \in BridgeEntries  BY <1>1, ElementOfSeq
<1>4. /\ Len(calls') = Len(calls) - 1
      /\ \A i \in 1 .. Len(calls) - 1 : calls'[i] = calls[i]
  <2>1. calls' = SubSeq(calls, 1, Len(calls) - 1)  BY DEF Front
  <2> QED BY <1>1, <1>2, <1>3, <2>1, SubSeqProperties
<1>5. Caller' = calls[Len(calls) - 1]  BY <1>2, <1>1, <1>4 DEF Caller, Last
<1> QED BY <1>1, <1>2, <1>4, <1>5 DEF ShapeInv, CallsAreInnermost, Solving

LEMMA AfterFailing ==
  ASSUME ShapeInv, CutAtHandler
  PROVE  Caller'.at = "handler" /\ ~Solving' /\ CallsAreInnermost'
<1>1. Len(calls) \in Nat  BY CallerOnTop DEF ShapeInv
<1>2. PICK i \in 1 .. Len(calls) :
        /\ Len(calls') = i /\ calls'[i].at = "handler"
        /\ \A p \in 1 .. i - 1 : calls'[p] = calls[p]
  BY DEF CutAtHandler
<1>3. Caller' = calls'[i]  BY <1>2 DEF Caller, Last
<1>4. Caller'.at = "handler" /\ ~Solving'  BY <1>2, <1>3 DEF Solving
<1>5. \A p \in 1 .. i - 1 : p \in 1 .. Len(calls) - 1  BY <1>1
<1>6. CallsAreInnermost'  BY <1>2, <1>5 DEF ShapeInv, CallsAreInnermost
<1> QED BY <1>4, <1>6

(* The solver's work: it keeps the stack, or fails out of it.              *)
LEMMA InsideKeeps ==
  ASSUME BridgeInv, Inside
  PROVE  ShapeInv' /\ (UNCHANGED frameVars \/ Caller'.at = "handler" \/ calls' = calls)
<1>1. ASSUME NEW e \in BridgeEntries, e.at = "body"
      PROVE  /\ [e EXCEPT !.at = "handler"] \in BridgeEntries
             /\ [e EXCEPT !.at = "handler"].at = "handler"
             /\ [e EXCEPT !.at = "handler"].frame = e.frame
  <2>1. e \in FrameEntries  BY <1>1 DEF BridgeEntries
  <2> QED BY <2>1 DEF BridgeEntries, FrameEntries
<1>2. CASE UNCHANGED frameVars
  BY <1>2 DEF BridgeInv, ShapeInv, StackInv, ChainInv, CallsAreInnermost, frameVars
<1>3. ASSUME NEW code, Unwind(code)
      PROVE  ShapeInv' /\ (Caller'.at = "handler" \/ calls' = calls)
  <2>1. /\ StackInv(BridgeEntries)' /\ ChainInv'
        /\ calls' = calls \/ CutAtHandler
    BY <1>1, <1>3, UnwindKeeps DEF BridgeInv, ShapeInv
  <2>2. CASE calls' = calls
    BY <2>1, <2>2 DEF BridgeInv, ShapeInv, CallsAreInnermost
  <2>3. CASE CutAtHandler
    BY <2>1, <2>3, AfterFailing DEF BridgeInv, ShapeInv
  <2> QED BY <2>1, <2>2, <2>3
<1>4. \/ UNCHANGED frameVars
      \/ \E code : Unwind(code)
  BY DEF Inside, psolve_malloc, psolve_free, psolve_fail
<1> QED BY <1>2, <1>3, <1>4

----------------------------------------------------------------------------
(* Steps of the host, and of calls, one by one.                            *)

LEMMA PassBy ==    \* the stack and its frames stay as they are
  ASSUME ShapeInv, UNCHANGED <<psv_frame_top, prev, calls>>
  PROVE  ShapeInv' /\ Caller' = Caller /\ (Solving' <=> Solving)
BY DEF ShapeInv, StackInv, ChainInv, CallsAreInnermost, Caller, Last, Solving

LEMMA EnterStep ==
  ASSUME BridgeInv, NEW entry \in {"lp", "lp_b", "qp"}, NEW qp \in QPs \union {None},
         NEW mine \in BOOLEAN, Enter(entry, qp, mine)
  PROVE  /\ ShapeInv' /\ ArmedInv' /\ Solving' /\ ~Solving
         /\ Caller'.entry = entry /\ Caller'.qp = qp /\ Caller'.mine = mine
<1> DEFINE e == [frame |-> None, at |-> "solve", uses |-> << >>,
                 entry |-> entry, qp |-> qp, mine |-> mine]
<1>1. e \in BridgeEntries  BY DEF BridgeEntries
<1>2. /\ e.frame = None /\ e.at = "solve" /\ e.entry = entry /\ e.qp = qp /\ e.mine = mine
  OBVIOUS
<1>3. calls' = Append(calls, e) /\ UNCHANGED <<psv_frame_top, prev>> /\ ~Solving
  BY DEF Enter, HostsTurn
<1>4. ArmedInv'  BY DEF Enter, BridgeInv, ArmedInv, arenaVars
<1> HIDE DEF e
<1>5. StackInv(BridgeEntries)' /\ ChainInv'
  BY <1>1, <1>2, <1>3, EnterKeeps DEF BridgeInv, ShapeInv
<1>6. Caller' = e /\ CallsAreInnermost'
  BY <1>1, <1>3, AfterEntering DEF BridgeInv
<1> QED BY <1>2, <1>3, <1>4, <1>5, <1>6 DEF ShapeInv, Solving

LEMMA LeaveStep ==
  ASSUME BridgeInv, NEW entry, Leave(entry)
  PROVE  ShapeInv' /\ ArmedInv' /\ ~Solving' /\ Solving /\ Caller.entry = entry
<1>1. /\ Caller.at # "base" /\ Caller.at # "body" /\ calls' = Front(calls)
      /\ UNCHANGED <<psv_frame_top, prev>>
  BY DEF Leave, Solving
<1>2. StackInv(BridgeEntries)' /\ ChainInv'
  BY <1>1, ReturnKeeps DEF BridgeInv, ShapeInv
<1>3. ~Solving' /\ CallsAreInnermost'  BY <1>1, AfterReturning DEF BridgeInv
<1>4. ArmedInv'  BY DEF Leave, BridgeInv, ArmedInv, arenaVars
<1> QED BY <1>2, <1>3, <1>4 DEF ShapeInv, Leave

LEMMA HostFramesStep ==
  ASSUME BridgeInv, HostFrames
  PROVE  ShapeInv' /\ ArmedInv' /\ ~Solving' /\ ~Solving
<1>1. ~Solving /\ ArmedInv'
  BY DEF HostFrames, HostsTurn, BridgeInv, ArmedInv, psolve_frame_push,
         psolve_frame_pop, HandlerReturns, arenaVars, bridgeVars
<1>2. Caller.at = "body" => psv_frame_top = Caller.frame
  BY CallerOnTop DEF BridgeInv, ShapeInv
<1>3. ASSUME NEW f \in Frames, psolve_frame_push(f)  PROVE ShapeInv' /\ ~Solving'
  <2> DEFINE e == [frame |-> f, at |-> "body", uses |-> << >>]
  <2>1. e \in BridgeEntries /\ e.frame = f /\ e.at = "body"
    BY DEF BridgeEntries, FrameEntries
  <2>2. calls' = Append(calls, e)  BY <1>3 DEF psolve_frame_push
  <2> HIDE DEF e
  <2>3. psv_frame_top \in Frames \union {None}  BY TopIsAFrame DEF BridgeInv, ShapeInv
  <2>4. StackInv(BridgeEntries)' /\ ChainInv'
    BY <1>3, <2>1, <2>2, <2>3, PushKeeps DEF BridgeInv, ShapeInv, psolve_frame_push
  <2>5. Caller' = e /\ CallsAreInnermost'
    BY <1>1, <2>1, <2>2, AfterEntering DEF BridgeInv
  <2> QED BY <2>1, <2>4, <2>5 DEF ShapeInv, Solving
<1>4. ASSUME psolve_frame_pop \/ HandlerReturns  PROVE ShapeInv' /\ ~Solving'
  <2>1. /\ Caller.at # "base" /\ prev' = prev /\ calls' = Front(calls)
        /\ psv_frame_top' = IF Caller.at = "body" THEN prev[Caller.frame] ELSE psv_frame_top
    BY <1>2, <1>4 DEF psolve_frame_pop, HandlerReturns
  <2>2. StackInv(BridgeEntries)' /\ ChainInv'
    BY <2>1, ReturnKeeps DEF BridgeInv, ShapeInv
  <2>3. ~Solving' /\ CallsAreInnermost'  BY <2>1, AfterReturning DEF BridgeInv
  <2> QED BY <2>2, <2>3 DEF ShapeInv
<1> QED BY <1>1, <1>3, <1>4 DEF HostFrames

LEMMA ArenaSetStep ==
  ASSUME BridgeInv, NEW on \in BOOLEAN, psw_arena_set(on)
  PROVE  ShapeInv' /\ ArmedInv' /\ ~Solving' /\ ~Solving
<1> DEFINE left == IF g_arena_armed THEN Front(psolve_arena_stack) ELSE psolve_arena_stack
           now == IF on THEN Append(left, g_arena) ELSE left
           e == [calls[Len(calls)] EXCEPT !.uses = now]
<1>1. left \in Seq(Arenas)
  <2>1. CASE ~g_arena_armed  BY <2>1 DEF BridgeInv, ArmedInv
  <2>2. CASE g_arena_armed
    BY <2>2, FrontInSeq DEF BridgeInv, ArmedInv
  <2> QED BY <2>1, <2>2
<1>2. now \in Seq(Arenas) /\ (on => now # << >>)
  <2>1. Append(left, g_arena) \in Seq(Arenas) /\ Append(left, g_arena) # << >>
    BY <1>1, AppendProperties, BridgeAssumption
  <2> QED BY <1>1, <2>1
<1>3. /\ psolve_arena_stack' = now /\ calls' = [calls EXCEPT ![Len(calls)].uses = now]
      /\ g_arena_armed' = on /\ UNCHANGED <<psv_frame_top, prev>>
      /\ Caller.at = "base"
  BY DEF psw_arena_set
<1>4. ArmedInv'  BY <1>2, <1>3 DEF ArmedInv
<1>5. /\ Caller = calls[Len(calls)] /\ Caller \in BridgeEntries
      /\ Len(calls) \in Nat \ {0} /\ calls \in Seq(BridgeEntries)
  BY CallerOnTop DEF BridgeInv, ShapeInv, StackInv
<1> HIDE DEF now
<1>6. e \in BridgeEntries /\ e.frame = Caller.frame /\ e.at = "base"
  <2>1. Caller \in FrameEntries  BY <1>3, <1>5 DEF BridgeEntries
  <2>2. e \in FrameEntries /\ e.frame = Caller.frame /\ e.at = Caller.at
    BY <1>2, <1>5, <2>1 DEF FrameEntries
  <2> QED BY <1>3, <2>2 DEF BridgeEntries
<1>7. calls' = [calls EXCEPT ![Len(calls)] = e]  BY <1>3
<1> HIDE DEF e
<1>8. StackInv(BridgeEntries)' /\ ChainInv'
  BY <1>3, <1>6, <1>7, WorkKeeps DEF BridgeInv, ShapeInv
<1>9. /\ Len(calls') = Len(calls)
      /\ \A i \in 1 .. Len(calls) : calls'[i] = IF i = Len(calls) THEN e ELSE calls[i]
  BY <1>5, <1>6, <1>7, ExceptSeq
<1>10. Caller' = e  BY <1>5, <1>9 DEF Caller, Last
<1>11. CallsAreInnermost'
  BY <1>5, <1>9 DEF BridgeInv, ShapeInv, CallsAreInnermost
<1> QED BY <1>3, <1>4, <1>6, <1>8, <1>10, <1>11 DEF ShapeInv, Solving

(* A deadline armed or disarmed as a call begins.                          *)
LEMMA BudgetStep ==
  ASSUME BridgeInv, NEW positive \in BOOLEAN, Ask(positive)
  PROVE  /\ g_deadline' = positive /\ g_stop_mine' = positive
         /\ asked' \in BOOLEAN /\ (positive => asked' /\ psv_stop_fn' = "budget")
         /\ hook => ~asked' /\ psv_stop_fn' = "host" /\ ~positive
BY DEF BridgeInv, BudgetInv, Ask, Budget, Arm, Disarm

LEMMA BridgeStep == BridgeInv /\ [BridgeNext]_<<vars, bridgeVars>> => BridgeInv'
<1> SUFFICES ASSUME BridgeInv, [BridgeNext]_<<vars, bridgeVars>>
             PROVE  BridgeInv'
  OBVIOUS
<1>0. ShapeInv /\ ArmedInv /\ BudgetInv /\ CertInv  BY DEF BridgeInv
<1>1. CASE HostFrames
  <2>1. ShapeInv' /\ ArmedInv' /\ ~Solving' /\ ~Solving  BY <1>1, HostFramesStep
  <2>2. UNCHANGED bridgeVars  BY <1>1 DEF HostFrames
  <2>3. BudgetInv'
    BY <1>0, <2>1, <2>2 DEF BudgetInv, bridgeVars, stopVars, proofVars, hostVars
  <2>4. CertInv'
    BY <1>0, <2>1, <2>2 DEF CertInv, bridgeVars, stopVars, proofVars, hostVars
  <2> QED BY <2>1, <2>3, <2>4 DEF BridgeInv
<1>2. CASE Inside
  <2>1. /\ ShapeInv' /\ Solving /\ UNCHANGED bridgeVars
        /\ UNCHANGED frameVars \/ Caller'.at = "handler" \/ calls' = calls
    BY <1>2, InsideKeeps DEF Inside
  <2>2. ArmedInv'
    BY <1>0, <1>2 DEF ArmedInv, Inside, psolve_malloc, psolve_free, psolve_fail,
                      arenaVars, bridgeVars, stopVars, proofVars
  <2>3. CASE calls' = calls
    <3>1. Caller' = Caller /\ Solving'  BY <2>1, <2>3 DEF Caller, Last, Solving
    <3>2. BudgetInv'
      BY <1>0, <2>1, <3>1 DEF BudgetInv, bridgeVars, stopVars, proofVars, hostVars
    <3>3. CertInv'
      BY <1>0, <2>1, <3>1 DEF CertInv, bridgeVars, stopVars, proofVars, hostVars
    <3> QED BY <2>1, <2>2, <3>2, <3>3 DEF BridgeInv
  <2>4. CASE Caller'.at = "handler"
    <3>1. ~Solving'  BY <2>4 DEF Solving
    <3>2. BudgetInv'
      BY <1>0, <2>1, <2>4, <3>1 DEF BudgetInv, bridgeVars, stopVars, proofVars, hostVars
    <3>3. CertInv'
      BY <1>0, <2>1, <3>1 DEF CertInv, bridgeVars, stopVars, proofVars, hostVars
    <3> QED BY <2>1, <2>2, <3>2, <3>3 DEF BridgeInv
  <2> QED BY <2>1, <2>3, <2>4 DEF frameVars
<1>3. CASE Abandon
  <2>1. /\ UNCHANGED <<frameVars, psolve_arena_stack, bridgeVars>>
    BY <1>3 DEF Abandon
  <2>2. ShapeInv' /\ Caller' = Caller /\ (Solving' <=> Solving)
    BY <1>0, <2>1, PassBy DEF frameVars
  <2>3. ArmedInv' /\ BudgetInv' /\ CertInv'
    BY <1>0, <2>1, <2>2 DEF ArmedInv, BudgetInv, CertInv, bridgeVars, stopVars, proofVars, hostVars
  <2> QED BY <2>2, <2>3 DEF BridgeInv
<1>4. ASSUME NEW positive \in BOOLEAN, psw_set_time_budget_ms(positive)  PROVE BridgeInv'
  <2>1. /\ ~Solving /\ Ask(positive)
        /\ UNCHANGED <<vars, proofVars, g_arena_armed, hook>>
    BY <1>4 DEF psw_set_time_budget_ms, HostsTurn
  <2>2. ShapeInv' /\ Caller' = Caller /\ ~Solving'
    BY <1>0, <2>1, PassBy DEF vars, frameVars
  <2>3. BudgetInv'
    BY <1>0, <2>1, <2>2, BudgetStep DEF BudgetInv
  <2>4. ArmedInv' /\ CertInv'
    BY <1>0, <2>1, <2>2 DEF ArmedInv, CertInv, vars, arenaVars, proofVars
  <2> QED BY <2>2, <2>3, <2>4 DEF BridgeInv
<1>5. CASE psw_lp_solve
  <2>1. /\ Enter("lp", None, FALSE) /\ UNCHANGED <<stopVars, proofVars, asked>>
        /\ hook' = hook
    BY <1>5 DEF psw_lp_solve, Enter
  <2>2. /\ ShapeInv' /\ ArmedInv' /\ Solving' /\ Caller'.entry = "lp"
    BY <2>1, EnterStep
  <2>3. BudgetInv'  BY <1>0, <2>1, <2>2 DEF BudgetInv, stopVars
  <2>4. CertInv'  BY <1>0, <2>1, <2>2 DEF CertInv, proofVars
  <2> QED BY <2>2, <2>3, <2>4 DEF BridgeInv
<1>6. ASSUME NEW positive \in BOOLEAN, psw_lp_solve_b(positive)  PROVE BridgeInv'
  <2>1. /\ Enter("lp_b", None, positive) /\ Ask(positive)
        /\ UNCHANGED proofVars /\ hook' = hook
    BY <1>6 DEF psw_lp_solve_b, Enter
  <2>2. /\ ShapeInv' /\ ArmedInv' /\ Solving'
        /\ Caller'.entry = "lp_b" /\ Caller'.mine = positive
    BY <2>1, EnterStep
  <2>3. BudgetInv'  BY <1>0, <2>1, <2>2, BudgetStep DEF BudgetInv
  <2>4. CertInv'  BY <1>0, <2>1, <2>2 DEF CertInv, proofVars
  <2> QED BY <2>2, <2>3, <2>4 DEF BridgeInv
<1>7. ASSUME NEW positive \in BOOLEAN, NEW qp \in QPs, psw_qp_solve2(qp, positive)
      PROVE  BridgeInv'
  <2>1. /\ Enter("qp", qp, positive) /\ Ask(positive) /\ hook' = hook
        /\ g_proven' = FALSE /\ last' = [qp |-> qp, refuted |-> FALSE]
    BY <1>7 DEF psw_qp_solve2, Enter
  <2>2. /\ ShapeInv' /\ ArmedInv' /\ Solving'
        /\ Caller'.entry = "qp" /\ Caller'.mine = positive /\ Caller'.qp = qp
    BY <2>1, EnterStep
  <2>3. BudgetInv'  BY <1>0, <2>1, <2>2, BudgetStep DEF BudgetInv
  <2>4. CertInv'  BY <1>0, <2>1, <2>2 DEF CertInv
  <2> QED BY <2>2, <2>3, <2>4 DEF BridgeInv
<1>8. CASE LpReturns
  <2>1. PICK entry \in {"lp", "lp_b"} :
          /\ Leave(entry) /\ UNCHANGED proofVars
          /\ entry = "lp" => UNCHANGED stopVars
          /\ entry = "lp_b" => Disarm
    BY <1>8 DEF LpReturns
  <2>2. /\ ShapeInv' /\ ArmedInv' /\ ~Solving' /\ Solving /\ Caller.entry = entry
        /\ UNCHANGED hostVars
    BY <2>1, LeaveStep DEF Leave
  <2>3. BudgetInv'
    <3>1. CASE entry = "lp"
      BY <1>0, <2>1, <2>2, <3>1 DEF BudgetInv, stopVars, hostVars
    <3>2. CASE entry = "lp_b"
      BY <1>0, <2>1, <2>2, <3>2 DEF BudgetInv, Disarm, hostVars
    <3> QED BY <3>1, <3>2
  <2>4. CertInv'  BY <1>0, <2>1, <2>2 DEF CertInv, proofVars
  <2> QED BY <2>2, <2>3, <2>4 DEF BridgeInv
<1>9. CASE QpReturns
  <2>1. Leave("qp") /\ Disarm /\ UNCHANGED hostVars
    BY <1>9 DEF QpReturns, Leave
  <2>2. ShapeInv' /\ ArmedInv' /\ ~Solving' /\ Solving /\ Caller.entry = "qp"
    BY <2>1, LeaveStep
  <2>3. BudgetInv'  BY <1>0, <2>1, <2>2 DEF BudgetInv, Disarm, hostVars
  <2>4. CASE UNCHANGED proofVars
    <3>1. CertInv'  BY <1>0, <2>2, <2>4 DEF CertInv, proofVars
    <3> QED BY <2>2, <2>3, <3>1 DEF BridgeInv
  <2>5. CASE /\ last' = [last EXCEPT !.refuted = TRUE]
             /\ \/ g_proven' = TRUE /\ g_lam' = Caller.qp
                \/ UNCHANGED <<g_proven, g_lam>>
    <3> DEFINE Record == [qp : QPs \union {None}, refuted : BOOLEAN]
    <3>0. last \in Record  BY <1>0 DEF CertInv
    <3>1. last'.refuted = TRUE /\ last'.qp = last.qp /\ last' \in Record
      BY <2>5, <3>0
    <3>2. last.qp = Caller.qp /\ (g_proven => g_lam = last.qp)
      BY <1>0, <2>2 DEF CertInv
    <3> HIDE DEF Record
    <3>3. g_proven' \in BOOLEAN /\ (g_proven' => g_lam' = last.qp)
      <4>1. CASE g_proven' = TRUE /\ g_lam' = Caller.qp  BY <3>2, <4>1
      <4>2. CASE UNCHANGED <<g_proven, g_lam>>  BY <1>0, <3>2, <4>2 DEF CertInv
      <4> QED BY <2>5, <4>1, <4>2
    <3>4. CertInv'  BY <2>2, <3>1, <3>3 DEF CertInv, Record
    <3> QED BY <2>2, <2>3, <3>4 DEF BridgeInv
  <2> QED BY <1>9, <2>4, <2>5 DEF QpReturns
<1>10. CASE psw_free_scratch
  <2>1. /\ UNCHANGED <<vars, stopVars, last, g_arena_armed, hostVars>>
        /\ g_proven' = FALSE
    BY <1>10 DEF psw_free_scratch
  <2>2. ShapeInv' /\ Caller' = Caller /\ (Solving' <=> Solving)
    BY <1>0, <2>1, PassBy DEF vars, frameVars
  <2>3. ArmedInv' /\ BudgetInv' /\ CertInv'
    BY <1>0, <2>1, <2>2 DEF ArmedInv, BudgetInv, CertInv, vars, arenaVars, stopVars, hostVars
  <2> QED BY <2>2, <2>3 DEF BridgeInv
<1>11. ASSUME NEW on \in BOOLEAN, psolve_stop_set(on)  PROVE BridgeInv'
  <2>1. /\ ~Solving /\ ~asked /\ psv_stop_fn' = (IF on THEN "host" ELSE "null") /\ hook' = on
        /\ UNCHANGED <<vars, g_deadline, g_stop_mine, proofVars, g_arena_armed, direct, asked>>
    BY <1>11 DEF psolve_stop_set, HostsTurn
  <2>2. ShapeInv' /\ Caller' = Caller /\ ~Solving'
    BY <1>0, <2>1, PassBy DEF vars, frameVars
  <2>3. BudgetInv'  BY <1>0, <2>1, <2>2 DEF BudgetInv
  <2>4. ArmedInv' /\ CertInv'
    BY <1>0, <2>1, <2>2 DEF ArmedInv, CertInv, vars, arenaVars, proofVars
  <2> QED BY <2>2, <2>3, <2>4 DEF BridgeInv
<1>12. ASSUME NEW on \in BOOLEAN, psw_arena_set(on)  PROVE BridgeInv'
  <2>1. ShapeInv' /\ ArmedInv' /\ ~Solving' /\ ~Solving  BY <1>12, ArenaSetStep
  <2>2. UNCHANGED <<stopVars, proofVars, hostVars>>
    BY <1>12 DEF psw_arena_set
  <2>3. BudgetInv' /\ CertInv'
    BY <1>0, <2>1, <2>2 DEF BudgetInv, CertInv, stopVars, proofVars, hostVars
  <2> QED BY <2>1, <2>3 DEF BridgeInv
<1>13. CASE psw_arena_reset
  <2>1. UNCHANGED <<frameVars, psolve_arena_stack, bridgeVars>>
    BY <1>13 DEF psw_arena_reset, psolve_arena_reset
  <2>2. ShapeInv' /\ Caller' = Caller /\ (Solving' <=> Solving)
    BY <1>0, <2>1, PassBy DEF frameVars
  <2>3. ArmedInv' /\ BudgetInv' /\ CertInv'
    BY <1>0, <2>1, <2>2 DEF ArmedInv, BudgetInv, CertInv, bridgeVars, stopVars, proofVars, hostVars
  <2> QED BY <2>2, <2>3 DEF BridgeInv
<1>14. CASE UNCHANGED <<vars, bridgeVars>>
  <2>1. ShapeInv' /\ Caller' = Caller /\ (Solving' <=> Solving)
    BY <1>0, <1>14, PassBy DEF vars, frameVars
  <2>2. ArmedInv' /\ BudgetInv' /\ CertInv'
    BY <1>0, <1>14, <2>1 DEF ArmedInv, BudgetInv, CertInv, vars, arenaVars,
                              bridgeVars, stopVars, proofVars, hostVars
  <2> QED BY <2>1, <2>2 DEF BridgeInv
<1> QED BY <1>1, <1>2, <1>3, <1>4, <1>5, <1>6, <1>7, <1>8, <1>9, <1>10, <1>11,
           <1>12, <1>13, <1>14 DEF BridgeNext

(* psolve_web.h: the budget passed to a call is the one it runs under, a   *)
(* host's own callback stays in place, and a certificate is the last       *)
(* call's, whatever earlier calls and handlers left armed.                 *)
THEOREM NothingLeaks == BridgeSpec => []NothingLeaksBetweenCalls
<1>1. BridgeInv => NothingLeaksBetweenCalls
  <2> SUFFICES ASSUME BridgeInv PROVE NothingLeaksBetweenCalls
    OBVIOUS
  <2>1. PassedBudgetApplies /\ HookIsTheHosts
    BY DEF BridgeInv, BudgetInv, PassedBudgetApplies, HookIsTheHosts, Timed
  <2>2. ProofIsTheLastCalls  BY DEF BridgeInv, CertInv, ProofIsTheLastCalls
  <2> QED BY <2>1, <2>2 DEF NothingLeaksBetweenCalls
<1>2. BridgeInv /\ [BridgeNext]_<<vars, bridgeVars>> => BridgeInv'  BY BridgeStep
<1> QED BY <1>1, <1>2, BridgeStarts, PTL DEF BridgeSpec

(* With calls on the stack a failure still lands in the host's innermost   *)
(* running try.                                                            *)
THEOREM CallsFailIntoLiveTries == BridgeSpec => []ChainIsCallStack
<1>1. BridgeInv => ChainIsCallStack  BY ChainFromInv DEF BridgeInv, ShapeInv
<1>2. BridgeInv /\ [BridgeNext]_<<vars, bridgeVars>> => BridgeInv'  BY BridgeStep
<1> QED BY <1>1, <1>2, BridgeStarts, PTL DEF BridgeSpec

----------------------------------------------------------------------------
(* Arenas nest.                                                            *)

(* The arenas that the functions of s have in use, outermost first, are u: *)
(* h[i] are those of the first i functions.                                *)
Held(s, u) ==
  \E h \in [0 .. Len(s) -> Seq(Arenas)] :
    /\ h[0] = << >> /\ h[Len(s)] = u
    /\ \A i \in 1 .. Len(s) : h[i] = h[i - 1] \o s[i].uses

(* Flattening the uses of a stack gathers them.                            *)
LEMMA HeldIsFlat ==
  ASSUME NEW E, calls \in Seq(E), NEW u, Held(calls, u)
  PROVE  InUse = u
<1> DEFINE z == Len(calls)
           v0 == [i \in DOMAIN calls |-> calls[i].uses]
           Flat(f) == f = [i \in 1 .. z |-> IF i = 1 THEN v0[i] ELSE f[i - 1] \o v0[i]]
<1>1. z \in Nat /\ DOMAIN calls = 1 .. z
  BY LenProperties
<1>2. v0 \in Seq({calls[i].uses : i \in 1 .. z}) /\ Len(v0) = z
  BY <1>1, IsASeq
<1>3. PICK h \in [0 .. z -> Seq(Arenas)] :
        /\ h[0] = << >> /\ h[z] = u
        /\ \A i \in 1 .. z : h[i] = h[i - 1] \o calls[i].uses
  BY DEF Held
<1>4. CASE z = 0
  <2>1. v0 = << >>  BY <1>1, <1>2, <1>4, EmptySeq
  <2> QED BY <1>2, <1>3, <1>4, <2>1 DEF InUse, FlattenSeq
<1>5. CASE z # 0
  <2>1. ASSUME NEW f, NEW g, Flat(f), Flat(g)  PROVE f = g
    <3> DEFINE bad == {i \in 1 .. z : f[i] # g[i]}
    <3>1. ASSUME bad # {}  PROVE FALSE
      <4>1. bad \subseteq Nat  OBVIOUS
      <4>2. PICK k \in bad : \A j \in bad : k <= j  BY <3>1, <4>1, LeastNumber
      <4>3. CASE k = 1  BY <2>1, <4>2, <4>3
      <4>4. CASE k # 1
        <5>1. k - 1 \in 1 .. z /\ k - 1 \notin bad  BY <1>1, <4>2, <4>4
        <5>2. f[k] = f[k - 1] \o v0[k] /\ g[k] = g[k - 1] \o v0[k]
          BY <2>1, <4>2, <4>4
        <5> QED BY <4>2, <5>1, <5>2
      <4> QED BY <4>3, <4>4
    <3>2. \A i \in 1 .. z : f[i] = g[i]  BY <3>1
    <3> HIDE DEF z, v0
    <3> QED BY <2>1, <3>2
  <2> DEFINE g == [i \in 1 .. z |-> h[i]]
  <2>2. Flat(g)
    <3>1. ASSUME NEW i \in 1 .. z
          PROVE  g[i] = IF i = 1 THEN v0[i] ELSE g[i - 1] \o v0[i]
      <4>1. h[i] = h[i - 1] \o v0[i]  BY <1>1, <1>3
      <4>2. CASE i = 1
        <5>0. i - 1 = 0 /\ i = 1  BY <4>2
        <5> HIDE DEF v0, z
        <5>1. h[1] = h[0] \o v0[1]  BY <4>1, <5>0, Zenon
        <5>2. h[1] = << >> \o v0[1]  BY <1>3, <5>1
        <5> QED BY <5>2, <4>2
      <4>3. CASE i # 1
        <5>1. i - 1 \in 1 .. z  BY <1>1, <4>3
        <5> QED BY <4>1, <4>3, <5>1
      <4> QED BY <4>2, <4>3
    <3> HIDE DEF z, v0
    <3>2. g = [i \in 1 .. z |-> g[i]]  OBVIOUS
    <3> HIDE DEF g
    <3> QED BY <3>1, <3>2
  <2>3. (CHOOSE f : Flat(f)) = g
    <3> HIDE DEF g, z, v0
    <3>1. \A f : Flat(f) => f = g  BY <2>1, <2>2
    <3> QED BY <2>2, <3>1
  <2>4. InUse = (CHOOSE f : Flat(f))[z]
    BY <1>2, <1>5 DEF InUse, FlattenSeq
  <2>5. g[z] = u  BY <1>1, <1>3, <1>5
  <2> QED BY <2>3, <2>4, <2>5
<1> QED BY <1>4, <1>5

(* A stack cut above i, or one with more functions on top, holds the same  *)
(* as long as those functions use none.                                    *)
LEMMA HeldCut ==
  ASSUME NEW z \in Nat, NEW i \in 0 .. z, NEW s, NEW t, NEW u,
         Len(s) = z, Len(t) = i, Held(s, u),
         \A p \in 1 .. i : t[p].uses = s[p].uses,
         \A p \in i + 1 .. z : s[p].uses = << >>
  PROVE  Held(t, u)
<1>1. PICK h \in [0 .. z -> Seq(Arenas)] :
        /\ h[0] = << >> /\ h[z] = u
        /\ \A p \in 1 .. z : h[p] = h[p - 1] \o s[p].uses
  BY DEF Held
<1> DEFINE bad == {p \in i .. z : h[p] # h[i]}
<1>2. ASSUME bad # {}  PROVE FALSE
  <2>1. bad \subseteq Nat  OBVIOUS
  <2>2. PICK k \in bad : \A j \in bad : k <= j  BY <1>2, <2>1, LeastNumber
  <2>3. k # i /\ k \in i + 1 .. z /\ k - 1 \in i .. z /\ k - 1 \notin bad  BY <2>2
  <2>4. h[k - 1] = h[i] /\ h[i] \in Seq(Arenas)  BY <1>1, <2>3
  <2>5. h[k] = h[k - 1] \o << >>
    <3>1. k \in 1 .. z /\ s[k].uses = << >>  BY <2>3
    <3>2. h[k] = h[k - 1] \o s[k].uses  BY <1>1, <3>1
    <3> QED BY <3>1, <3>2
  <2>6. h[i] \o << >> = h[i]  BY <2>4, ConcatEmptySeq
  <2> QED BY <2>2, <2>4, <2>5, <2>6
<1>3. h[i] = u
  <2>1. z \in i .. z  OBVIOUS
  <2>2. h[z] = h[i]  BY <1>2, <2>1
  <2> QED BY <1>1, <2>2
<1> DEFINE g == [p \in 0 .. i |-> h[p]]
<1>4. g \in [0 .. i -> Seq(Arenas)] /\ g[0] = << >> /\ g[i] = u
  BY <1>1, <1>3
<1>5. ASSUME NEW p \in 1 .. i  PROVE g[p] = g[p - 1] \o t[p].uses
  <2>1. p \in 1 .. z /\ p \in 0 .. i /\ p - 1 \in 0 .. i  OBVIOUS
  <2>2. h[p] = h[p - 1] \o s[p].uses  BY <1>1, <2>1
  <2>3. g[p] = h[p] /\ g[p - 1] = h[p - 1] /\ t[p].uses = s[p].uses  BY <2>1
  <2> HIDE DEF g
  <2> QED BY <2>2, <2>3
<1> HIDE DEF g
<1> QED BY <1>4, <1>5 DEF Held

(* A function that uses no arena is entered.                               *)
LEMMA HeldPush ==
  ASSUME NEW z \in Nat, NEW s, NEW t, NEW u,
         Len(s) = z, Len(t) = z + 1, Held(s, u),
         \A p \in 1 .. z : t[p].uses = s[p].uses, t[z + 1].uses = << >>
  PROVE  Held(t, u)
<1>1. PICK h \in [0 .. z -> Seq(Arenas)] :
        /\ h[0] = << >> /\ h[z] = u
        /\ \A p \in 1 .. z : h[p] = h[p - 1] \o s[p].uses
  BY DEF Held
<1> DEFINE g == [p \in 0 .. z + 1 |-> IF p = z + 1 THEN u ELSE h[p]]
<1>2. g \in [0 .. z + 1 -> Seq(Arenas)] /\ g[0] = << >> /\ g[z + 1] = u
  BY <1>1
<1>3. ASSUME NEW p \in 1 .. z + 1  PROVE g[p] = g[p - 1] \o t[p].uses
  <2>1. CASE p = z + 1
    <3>1. g[p - 1] = u /\ u \in Seq(Arenas)  BY <1>1, <2>1
    <3> QED BY <1>2, <2>1, <3>1, ConcatEmptySeq
  <2>2. CASE p # z + 1
    <3>1. p \in 1 .. z /\ p \in 0 .. z + 1 /\ p - 1 \in 0 .. z + 1 /\ p - 1 # z + 1
      BY <2>2
    <3>2. h[p] = h[p - 1] \o s[p].uses  BY <1>1, <3>1
    <3>3. g[p] = h[p] /\ g[p - 1] = h[p - 1] /\ t[p].uses = s[p].uses  BY <2>2, <3>1
    <3> HIDE DEF g
    <3> QED BY <3>2, <3>3
  <2> QED BY <2>1, <2>2
<1> HIDE DEF g
<1> QED BY <1>2, <1>3 DEF Held

(* A host that has just started holds nothing.                             *)
LEMMA HeldStart == Init => Held(calls, psolve_arena_stack)
<1> SUFFICES ASSUME Init PROVE Held(calls, psolve_arena_stack)
  OBVIOUS
<1>1. Len(calls) = 1 /\ calls[1].uses = << >> /\ psolve_arena_stack = << >>  BY DEF Init
<1> DEFINE h == [i \in 0 .. 1 |-> << >>]
<1>2. h \in [0 .. 1 -> Seq(Arenas)] /\ h[0] = << >> /\ h[1] = << >>  OBVIOUS
<1>3. \A i \in 1 .. 1 : h[i] = h[i - 1] \o calls[i].uses
  <2>1. << >> = << >> \o << >>  OBVIOUS
  <2>2. h[1] = h[1 - 1] \o calls[1].uses  BY <1>1, <2>1
  <2> HIDE DEF h
  <2>3. \A i \in 1 .. 1 : i = 1  OBVIOUS
  <2> QED BY <2>2, <2>3, Zenon
<1> HIDE DEF h
<1> QED BY <1>1, <1>2, <1>3 DEF Held

----------------------------------------------------------------------------
(* Blocks never overlap.                                                   *)

Block == [home : Arenas \union {None}, at : Nat, size : Nat]

(* Blocks of an arena lie below its mark, apart from each other.           *)
BlockInv ==
  /\ used \in [Arenas -> Nat] /\ \A a \in Arenas : used[a] <= Cap
  /\ psolve_arena_stack \in Seq(Arenas)
  /\ \A b \in blocks : b \in Block
  /\ \A b \in blocks : b.home # None => b.at + b.size <= used[b.home]
  /\ \A b \in blocks : b.home # None =>
       \A o \in blocks : o.home = b.home /\ o # b =>
         b.at + b.size < o.at \/ o.at + o.size < b.at

(* The invariant implies the property.                                     *)
LEMMA BlocksApart == BlockInv => BlocksDisjoint
<1> SUFFICES ASSUME BlockInv PROVE BlocksDisjoint
  OBVIOUS
<1>1. ASSUME NEW b \in blocks, b.home # None  PROVE b.at + b.size <= Cap
  <2>1. b \in Block /\ b.at + b.size <= used[b.home]  BY <1>1 DEF BlockInv
  <2>2. b.home \in Arenas /\ b.at \in Nat /\ b.size \in Nat  BY <1>1, <2>1 DEF Block
  <2>3. used[b.home] \in Nat /\ used[b.home] <= Cap  BY <2>2 DEF BlockInv
  <2> QED BY <2>1, <2>2, <2>3, MemoryAssumption
<1> QED BY <1>1 DEF BlocksDisjoint, BlockInv

(* At the start there are no blocks.                                       *)
LEMMA BlockStart == Init => BlockInv
BY MemoryAssumption DEF Init, BlockInv

(* A new block starts one unit past everything the arena has handed out.   *)
LEMMA NewBlockKeeps ==
  ASSUME BlockInv, NEW a \in Arenas, NEW k \in Nat, NEW B \in SUBSET blocks,
         Fits(a, k), blocks' = B \union {ArenaBlock(a, k)}, Bump(a, k),
         UNCHANGED psolve_arena_stack
  PROVE  BlockInv'
<1> DEFINE x == ArenaBlock(a, k)
<1>1. x \in Block /\ x.home = a /\ x.at = used[a] + 1 /\ x.size = k /\ used[a] \in Nat
  BY DEF ArenaBlock, Block, BlockInv
<1>2. a # None  BY NoneAssumption
<1>3. /\ used' \in [Arenas -> Nat] /\ used'[a] = used[a] + 1 + k
      /\ \A c \in Arenas : c # a => used'[c] = used[c]
      /\ \A c \in Arenas : used'[c] <= Cap
  BY <1>1 DEF Bump, BlockInv, Fits
<1>4. /\ \A b \in blocks' : b = x \/ b \in blocks
      /\ \A b \in blocks : b \in Block
  BY DEF BlockInv
<1>5. ASSUME NEW b \in blocks, b.home # None
      PROVE  /\ b.at + b.size <= used[b.home] /\ b.at + b.size <= used'[b.home]
             /\ b.home \in Arenas /\ b.at \in Nat /\ b.size \in Nat
  <2>1. b.home \in Arenas /\ b.at \in Nat /\ b.size \in Nat  BY <1>4, <1>5 DEF Block
  <2>2. b.at + b.size <= used[b.home]  BY <1>5 DEF BlockInv
  <2>3. used[b.home] <= used'[b.home]
    <3>1. used[b.home] \in Nat  BY <2>1 DEF BlockInv
    <3>2. CASE b.home = a  BY <1>1, <1>3, <3>2
    <3>3. CASE b.home # a  BY <1>3, <2>1, <3>1, <3>3
    <3> QED BY <3>2, <3>3
  <2>4. used[b.home] \in Nat /\ used'[b.home] \in Nat  BY <1>3, <2>1 DEF BlockInv
  <2> QED BY <2>1, <2>2, <2>3, <2>4
<1> HIDE DEF x
<1>6. \A b \in blocks' : b.home # None => b.at + b.size <= used'[b.home]
  BY <1>1, <1>3, <1>4, <1>5
<1>7. ASSUME NEW b \in blocks', b.home # None, NEW o \in blocks', o.home = b.home, o # b
      PROVE  b.at + b.size < o.at \/ o.at + o.size < b.at
  <2>1. CASE b = x /\ o \in blocks  BY <1>1, <1>5, <1>7, <2>1
  <2>2. CASE o = x /\ b \in blocks  BY <1>1, <1>5, <1>7, <2>2
  <2>3. CASE o \in blocks /\ b \in blocks  BY <1>7, <2>3 DEF BlockInv
  <2> QED BY <1>4, <1>7, <2>1, <2>2, <2>3
<1>8. \A b \in blocks' : b \in Block  BY <1>1, <1>4
<1> QED BY <1>3, <1>6, <1>7, <1>8 DEF BlockInv

(* Fewer blocks, or a block of libc.                                       *)
LEMMA OtherBlocksKeep ==
  ASSUME BlockInv,
         \A b \in blocks' : b \in blocks \/ (b \in Block /\ b.home = None),
         UNCHANGED used, psolve_arena_stack' \in Seq(Arenas)
  PROVE  BlockInv'
BY DEF BlockInv

(* The active arena is one of the host's, if there is one.                 *)
LEMMA ActiveType ==
  ASSUME BlockInv
  PROVE  active_arena \in Arenas \union {None}
<1>1. CASE psolve_arena_stack = << >>  BY <1>1 DEF active_arena
<1>2. CASE psolve_arena_stack # << >>
  <2>1. psolve_arena_stack \in Seq(Arenas)  BY DEF BlockInv
  <2>2. Len(psolve_arena_stack) \in 1 .. Len(psolve_arena_stack)
    BY <1>2, <2>1, LenProperties, EmptySeq
  <2>3. psolve_arena_stack[Len(psolve_arena_stack)] \in Arenas
    BY <2>1, <2>2, ElementOfSeq
  <2> QED BY <1>2, <2>3 DEF active_arena, Last
<1> QED BY <1>1, <1>2

(* An owned block is one of the active arena's.                            *)
LEMMA OwnedType ==
  ASSUME BlockInv, NEW b \in blocks, Owned(b)
  PROVE  b.home \in Arenas
BY ActiveType DEF Owned

(* A request is served from the active arena, from libc, or fails.         *)
LEMMA MallocKeeps ==
  ASSUME BlockInv, NEW k \in Sizes, psolve_malloc(k)
  PROVE  BlockInv'
<1>0. k \in Nat /\ psolve_arena_stack \in Seq(Arenas) /\ UNCHANGED psolve_arena_stack
  BY MemoryAssumption DEF BlockInv, psolve_malloc
<1>1. CASE /\ active_arena # None /\ Fits(active_arena, k)
           /\ blocks' = blocks \union {ArenaBlock(active_arena, k)}
           /\ Bump(active_arena, k)
  <2>1. active_arena \in Arenas  BY <1>1, ActiveType
  <2> QED BY <1>0, <1>1, <2>1, NewBlockKeeps
<1>2. CASE /\ active_arena = None
           /\ \E a0 \in 1 .. MaxBlocks :
                blocks' = blocks \union {[home |-> None, at |-> a0, size |-> k]}
           /\ UNCHANGED used
  <2>1. PICK a0 \in 1 .. MaxBlocks :
          blocks' = blocks \union {[home |-> None, at |-> a0, size |-> k]}
    BY <1>2
  <2> DEFINE x == [home |-> None, at |-> a0, size |-> k]
  <2>2. x \in Block /\ x.home = None  BY <1>0, HostAssumption DEF Block
  <2>3. blocks' = blocks \union {x}  BY <2>1
  <2> HIDE DEF x
  <2>4. \A y \in blocks' : y \in blocks \/ (y \in Block /\ y.home = None)  BY <2>2, <2>3
  <2>5. psolve_arena_stack' \in Seq(Arenas)  BY <1>0
  <2> QED BY <1>2, <2>4, <2>5, OtherBlocksKeep, Zenon
<1>3. CASE UNCHANGED <<blocks, used>>  BY <1>0, <1>3 DEF BlockInv
<1> QED BY <1>1, <1>2, <1>3 DEF psolve_malloc

(* Giving a block back leaves the others where they are.                   *)
LEMMA FreeKeeps ==
  ASSUME BlockInv, NEW b \in blocks, psolve_free(b)
  PROVE  BlockInv'
<1>1. (\A y \in blocks' : y \in blocks) /\ UNCHANGED <<used, psolve_arena_stack>>
  BY DEF psolve_free
<1>2. psolve_arena_stack' \in Seq(Arenas)  BY <1>1 DEF BlockInv
<1> QED BY <1>1, <1>2, OtherBlocksKeep, Zenon

(* A block moves within its arena, or stays with libc.                     *)
LEMMA ReallocKeeps ==
  ASSUME BlockInv, NEW b \in blocks, NEW k \in Sizes, psolve_realloc(b, k)
  PROVE  BlockInv'
<1>0. k \in Nat /\ psolve_arena_stack \in Seq(Arenas)
      /\ b \in Block /\ UNCHANGED psolve_arena_stack
  BY MemoryAssumption DEF BlockInv, psolve_realloc
<1>1. CASE /\ Owned(b) /\ Fits(b.home, k) /\ Bump(b.home, k)
           /\ blocks' = (blocks \ {b}) \union {ArenaBlock(b.home, k)}
  <2>1. b.home \in Arenas  BY <1>1, OwnedType
  <2> QED BY <1>0, <1>1, <2>1, NewBlockKeeps
<1>2. CASE UNCHANGED <<blocks, used>>  BY <1>0, <1>2 DEF BlockInv
<1>3. CASE /\ FromLibc(b) /\ UNCHANGED used
           /\ \/ blocks' = (blocks \ {b}) \union {[b EXCEPT !.size = k]}
              \/ blocks' = blocks \ {b}
  <2> DEFINE x == [b EXCEPT !.size = k]
  <2>1. x \in Block /\ x.home = None  BY <1>0, <1>3 DEF Block, FromLibc
  <2>2. blocks' \subseteq blocks \union {x}  BY <1>3
  <2> HIDE DEF x
  <2>3. \A y \in blocks' : y \in blocks \/ (y \in Block /\ y.home = None)  BY <2>1, <2>2
  <2>4. psolve_arena_stack' \in Seq(Arenas)  BY <1>0
  <2> QED BY <1>3, <2>3, <2>4, OtherBlocksKeep, Zenon
<1> QED BY <1>1, <1>2, <1>3 DEF psolve_realloc

(* An arena with no blocks left is emptied.                                *)
LEMMA EmptyingKeeps ==
  ASSUME BlockInv, NEW a \in Arenas, \A b \in blocks : b.home # a,
         used' = [used EXCEPT ![a] = 0], UNCHANGED blocks,
         psolve_arena_stack' \in Seq(Arenas)
  PROVE  BlockInv'
<1>1. used' \in [Arenas -> Nat] /\ used'[a] = 0 /\ \A c \in Arenas : c # a => used'[c] = used[c]
  BY DEF BlockInv
<1>2. \A c \in Arenas : used'[c] <= Cap  BY <1>1, MemoryAssumption DEF BlockInv
<1>3. \A b \in blocks : b \in Block  BY DEF BlockInv
<1>4. ASSUME NEW b \in blocks, b.home # None  PROVE used'[b.home] = used[b.home]
  <2>1. b.home \in Arenas  BY <1>3, <1>4 DEF Block
  <2> QED BY <1>1, <2>1
<1> QED BY <1>1, <1>2, <1>4 DEF BlockInv

(* Every step of the host keeps the invariant.                             *)
LEMMA BlockStep == BlockInv /\ [Next]_vars => BlockInv'
<1> SUFFICES ASSUME BlockInv, [Next]_vars PROVE BlockInv'
  OBVIOUS
<1>0. ASSUME UNCHANGED arenaVars  PROVE BlockInv'
  BY <1>0 DEF BlockInv, arenaVars
<1>s. psolve_arena_stack \in Seq(Arenas)  BY DEF BlockInv
<1>1. ASSUME UNCHANGED <<used, blocks>>, psolve_arena_stack' \in Seq(Arenas)
      PROVE  BlockInv'
  BY <1>1 DEF BlockInv
<1>2. ASSUME NEW a \in Arenas, psolve_arena_use(a)  PROVE BlockInv'
  <2>1. Append(psolve_arena_stack, a) \in Seq(Arenas)  BY <1>s, AppendProperties
  <2> QED BY <1>1, <1>2, <1>s, <2>1 DEF psolve_arena_use
<1>3. CASE psolve_arena_end
  <2>1. psolve_arena_stack # << >> => Front(psolve_arena_stack) \in Seq(Arenas)
    BY <1>s, FrontInSeq
  <2> QED BY <1>1, <1>3, <1>s, <2>1 DEF psolve_arena_end
<1>4. ASSUME NEW a \in Arenas, psolve_arena_reset(a)  PROVE BlockInv'
  BY <1>4, <1>s, EmptyingKeeps DEF psolve_arena_reset
<1>5. ASSUME NEW k \in Sizes, psolve_malloc(k)  PROVE BlockInv'
  BY <1>5, MallocKeeps
<1>6. ASSUME NEW b \in blocks, psolve_free(b)  PROVE BlockInv'
  BY <1>6, FreeKeeps
<1>7. ASSUME NEW b \in blocks, NEW k \in Sizes, psolve_realloc(b, k)  PROVE BlockInv'
  BY <1>7, ReallocKeeps
<1>8. ASSUME \/ \E f \in Frames : psolve_frame_push(f)
             \/ psolve_frame_pop \/ HandlerReturns \/ psolve_fail \/ UNCHANGED vars
      PROVE  BlockInv'
  BY <1>0, <1>8 DEF psolve_frame_push, psolve_frame_pop, HandlerReturns, psolve_fail, vars
<1> QED BY <1>2, <1>3, <1>4, <1>5, <1>6, <1>7, <1>8 DEF Next

(* err.c: blocks of an arena never share memory, headers included, however *)
(* deep arenas nest, whatever sizes are asked for and whichever arena is   *)
(* active when a block is resized or given back, across moves, resets and  *)
(* failures.                                                               *)
THEOREM BlocksNeverOverlap == Spec => []BlocksDisjoint
<1>1. BlockInv /\ [Next]_vars => BlockInv'  BY BlockStep
<1> QED BY <1>1, BlocksApart, BlockStart, PTL DEF Spec

(* The same of every host of the bridge: what a failed call leaves behind  *)
(* is abandoned before the arena it came from is emptied or put away.      *)
THEOREM CallsNeverOverlap == BridgeSpec => []BlocksDisjoint
<1> DEFINE Inv == BridgeInv /\ BlockInv
<1>1. BridgeInit => Inv  BY BridgeStarts, BlockStart DEF BridgeInit
<1>2. Inv /\ [BridgeNext]_<<vars, bridgeVars>> => Inv'
  <2> SUFFICES ASSUME Inv, [BridgeNext]_<<vars, bridgeVars>> PROVE BlockInv'
    BY BridgeStep
  <2>s. psolve_arena_stack \in Seq(Arenas)  BY DEF BlockInv
  <2>0. ASSUME UNCHANGED arenaVars  PROVE BlockInv'
    BY <2>0 DEF BlockInv, arenaVars
  <2>1. CASE Inside
    BY <2>0, <2>1, MallocKeeps, FreeKeeps DEF Inside, psolve_fail
  <2>2. CASE Abandon
    <3>1. (\A b \in blocks' : b \in blocks)  BY <2>2 DEF Abandon
    <3>2. UNCHANGED <<used, psolve_arena_stack>>  BY <2>2 DEF Abandon
    <3>3. psolve_arena_stack' \in Seq(Arenas)  BY <2>s, <3>2
    <3> QED BY <3>1, <3>2, <3>3, OtherBlocksKeep, Zenon
  <2>3. ASSUME NEW on \in BOOLEAN, psw_arena_set(on)  PROVE BlockInv'
    <3>1. psolve_arena_stack' \in Seq(Arenas)
      BY <2>3, ArenaSetStep DEF ArmedInv
    <3>2. blocks = {} /\ used' = [used EXCEPT ![g_arena] = 0] /\ UNCHANGED blocks
      BY <2>3 DEF psw_arena_set, HostsTurn
    <3> QED BY <3>1, <3>2, BridgeAssumption, EmptyingKeeps
  <2>4. CASE psw_arena_reset
    BY <2>4, <2>s, BridgeAssumption, EmptyingKeeps DEF psw_arena_reset, psolve_arena_reset
  <2>5. CASE HostFrames
    BY <2>0, <2>5 DEF HostFrames, psolve_frame_push, psolve_frame_pop, HandlerReturns
  <2>6. ASSUME NEW positive \in BOOLEAN,
               \/ psw_set_time_budget_ms(positive) \/ psw_lp_solve_b(positive)
               \/ \E qp \in QPs : psw_qp_solve2(qp, positive)
        PROVE  BlockInv'
    BY <2>0, <2>6 DEF psw_set_time_budget_ms, psw_lp_solve_b, psw_qp_solve2, Enter, vars
  <2>7. CASE psw_lp_solve \/ LpReturns \/ QpReturns
    BY <2>0, <2>7 DEF psw_lp_solve, LpReturns, QpReturns, Enter, Leave
  <2>8. CASE psw_free_scratch  BY <2>0, <2>8 DEF psw_free_scratch, vars
  <2>9. ASSUME NEW on \in BOOLEAN, psolve_stop_set(on)  PROVE BlockInv'
    BY <2>0, <2>9 DEF psolve_stop_set, vars
  <2>10. CASE UNCHANGED <<vars, bridgeVars>>  BY <2>0, <2>10 DEF vars
  <2> QED BY <2>1, <2>2, <2>3, <2>4, <2>5, <2>6, <2>7, <2>8, <2>9, <2>10 DEF BridgeNext
<1>3. Inv => BlocksDisjoint  BY BlocksApart
<1> QED BY <1>1, <1>2, <1>3, PTL DEF BridgeSpec

----------------------------------------------------------------------------
(* The bridge's arena is the base's, below every frame and every call.     *)
BaseInv ==
  /\ BridgeInv
  /\ Held(calls, psolve_arena_stack)
  /\ \A i \in 2 .. Len(calls) : calls[i].uses = << >> /\ calls[i].at # "base"

(* The bridge starts with no arena armed.                                  *)
LEMMA BaseStart == BridgeInit => BaseInv
BY BridgeStarts, HeldStart DEF BridgeInit, BaseInv, Init

(* A function that uses no arena is entered.                               *)
LEMMA BaseGrows ==
  ASSUME BaseInv, BridgeInv', NEW e \in BridgeEntries, e.uses = << >>, e.at # "base",
         calls' = Append(calls, e), psolve_arena_stack' = psolve_arena_stack
  PROVE  BaseInv'
<1> DEFINE z == Len(calls)
<1>1. z \in Nat \ {0} /\ calls \in Seq(BridgeEntries) /\ Len(calls) = z
  BY CallerOnTop DEF BaseInv, BridgeInv, ShapeInv, StackInv
<1>2. /\ Len(calls') = z + 1 /\ calls'[z + 1] = e
      /\ \A p \in 1 .. z : calls'[p] = calls[p]
  BY <1>1, AppendProperties
<1> HIDE DEF z
<1>3. Held(calls', psolve_arena_stack)
  <2>1. \A p \in 1 .. z : calls'[p].uses = calls[p].uses  BY <1>2
  <2>2. calls'[z + 1].uses = << >> /\ Len(calls') = z + 1 /\ z \in Nat  BY <1>1, <1>2
  <2>3. Held(calls, psolve_arena_stack)  BY DEF BaseInv
  <2> QED BY <1>1, <2>1, <2>2, <2>3, HeldPush, Zenon
<1>4. \A i \in 2 .. z + 1 : calls'[i].uses = << >> /\ calls'[i].at # "base"
  <2> SUFFICES ASSUME NEW i \in 2 .. z + 1
               PROVE  calls'[i].uses = << >> /\ calls'[i].at # "base"
    OBVIOUS
  <2>1. CASE i = z + 1  BY <1>2, <2>1
  <2>2. CASE i # z + 1
    <3>1. i \in 1 .. z /\ i \in 2 .. Len(calls)  BY <1>1, <2>2
    <3> QED BY <1>2, <3>1 DEF BaseInv
  <2> QED BY <2>1, <2>2
<1> QED BY <1>2, <1>3, <1>4 DEF BaseInv

(* The stack is cut back to its first i entries, the last of which may     *)
(* change from a body to a handler.                                        *)
LEMMA BaseShrinks ==
  ASSUME BaseInv, BridgeInv', NEW i \in 1 .. Len(calls), Len(calls') = i,
         \A p \in 1 .. i : calls'[p].uses = calls[p].uses,
         \A p \in 2 .. i : calls'[p].at # "base",
         psolve_arena_stack' = psolve_arena_stack
  PROVE  BaseInv'
<1>1. Len(calls) \in Nat \ {0}
  BY CallerOnTop DEF BaseInv, BridgeInv, ShapeInv, StackInv
<1>2. Held(calls', psolve_arena_stack)
  <2>1. \A p \in i + 1 .. Len(calls) : calls[p].uses = << >>  BY <1>1 DEF BaseInv
  <2>2. Held(calls, psolve_arena_stack) /\ i \in 0 .. Len(calls)  BY <1>1 DEF BaseInv
  <2> QED BY <1>1, <2>1, <2>2, HeldCut
<1>3. \A p \in 2 .. i : calls'[p].uses = << >>  BY <1>1 DEF BaseInv
<1> QED BY <1>2, <1>3 DEF BaseInv

(* The innermost function returns; it had no arena to end.                 *)
LEMMA BaseReturns ==
  ASSUME BaseInv, BridgeInv', Caller.at # "base", calls' = Front(calls),
         psolve_arena_stack' = psolve_arena_stack
  PROVE  BaseInv'
<1> DEFINE z == Len(calls)
<1>1. /\ z \in Nat \ {0} /\ calls \in Seq(BridgeEntries) /\ Caller = calls[z]
      /\ calls[1].at = "base"
  BY CallerOnTop DEF BaseInv, BridgeInv, ShapeInv, StackInv
<1>2. z - 1 \in 1 .. z  BY <1>1
<1>3. \A p \in 1 .. z - 1 : calls[p] \in BridgeEntries  BY <1>1, ElementOfSeq
<1>4. Len(calls') = z - 1 /\ \A p \in 1 .. z - 1 : calls'[p] = calls[p]
  <2>1. calls' = SubSeq(calls, 1, z - 1)  BY DEF Front
  <2> HIDE DEF z
  <2> QED BY <1>1, <1>2, <1>3, <2>1, SubSeqProperties
<1>5. \A p \in 2 .. z - 1 : calls'[p].at # "base"  BY <1>1, <1>4 DEF BaseInv
<1> QED BY <1>2, <1>4, <1>5, BaseShrinks

(* A failure drops only functions without arenas.                          *)
LEMMA BaseUnwinds ==
  ASSUME BaseInv, BridgeInv', NEW code, Unwind(code),
         psolve_arena_stack' = psolve_arena_stack
  PROVE  BaseInv'
<1> DEFINE z == Len(calls)
<1>1. z \in Nat \ {0} /\ DOMAIN calls = 1 .. z /\ calls \in Seq(BridgeEntries)
  BY CallerOnTop, LenProperties DEF BaseInv, BridgeInv, ShapeInv, StackInv
<1>2. CASE psv_frame_top = None
  <2>1. calls' = calls  BY <1>2 DEF Unwind
  <2> QED BY <2>1 DEF BaseInv, Held
<1>3. CASE psv_frame_top # None
  <2>1. PICK i \in 1 .. z :
          calls' = Append(SubSeq(calls, 1, i - 1), [calls[i] EXCEPT !.at = "handler"])
    BY <1>1, <1>3 DEF Unwind
  <2> DEFINE top == [calls[i] EXCEPT !.at = "handler"]
             below == SubSeq(calls, 1, i - 1)
  <2>2. \A p \in 1 .. z : calls[p] \in BridgeEntries  BY <1>1, ElementOfSeq
  <2>3. top.uses = calls[i].uses /\ top.at = "handler"
    <3>1. calls[i] \in BridgeEntries  BY <2>2
    <3>2. CASE calls[i] \in FrameEntries  BY <3>2 DEF FrameEntries
    <3>3. CASE calls[i] \notin FrameEntries  BY <3>1, <3>3 DEF BridgeEntries
    <3> QED BY <3>2, <3>3
  <2>4. /\ below \in Seq(BridgeEntries) /\ Len(below) = i - 1
        /\ \A p \in 1 .. i - 1 : below[p] = calls[p]
    <3>1. \A p \in 1 .. i - 1 : calls[p] \in BridgeEntries  BY <1>1, <2>2
    <3> QED BY <1>1, <3>1, SubSeqProperties
  <2>5. calls' = Append(below, top)  BY <2>1
  <2> HIDE DEF top, below, z
  <2>6. below \in Seq(BridgeEntries \union {top})  BY <2>4, SeqMonotonic
  <2>7. /\ Len(calls') = i /\ calls'[i] = top
        /\ \A p \in 1 .. i - 1 : calls'[p] = calls[p]
    <3>1. Len(below) + 1 = i  BY <2>4, <1>1
    <3> QED BY <2>4, <2>5, <2>6, <3>1, AppendProperties
  <2>8. \A p \in 1 .. i : calls'[p].uses = calls[p].uses
    BY <1>1, <2>3, <2>7
  <2>9. \A p \in 2 .. i : calls'[p].at # "base"
    BY <1>1, <2>3, <2>7 DEF BaseInv, z
  <2> QED BY <2>7, <2>8, <2>9, BaseShrinks DEF z
<1> QED BY <1>2, <1>3

(* The page arms or puts away the arena at the base.                       *)
LEMMA BaseSets ==
  ASSUME BaseInv, BridgeInv', NEW on \in BOOLEAN, psw_arena_set(on)
  PROVE  BaseInv'
<1>1. /\ Len(calls) \in Nat \ {0} /\ Caller = calls[Len(calls)]
      /\ calls \in Seq(BridgeEntries)
  BY CallerOnTop DEF BaseInv, BridgeInv, ShapeInv, StackInv
<1>2. Len(calls) = 1
  <2>1. calls[Len(calls)].at = "base"  BY <1>1 DEF psw_arena_set
  <2>2. ASSUME Len(calls) # 1  PROVE FALSE
    <3>0. \A k \in Nat \ {0} : k # 1 => k \in 2 .. k  OBVIOUS
    <3>1. Len(calls) \in 2 .. Len(calls)  BY <1>1, <2>2, <3>0, Zenon
    <3> QED BY <2>1, <3>1 DEF BaseInv
  <2> QED BY <2>2
<1>3. calls' = [calls EXCEPT ![1].uses = psolve_arena_stack']
  BY <1>2 DEF psw_arena_set
<1>4. psolve_arena_stack' \in Seq(Arenas)  BY DEF BaseInv, BridgeInv, ArmedInv
<1> DEFINE e == [calls[1] EXCEPT !.uses = psolve_arena_stack']
<1>5. e.uses = psolve_arena_stack'
  <2>1. calls[1] \in BridgeEntries  BY <1>1, <1>2, ElementOfSeq
  <2>2. CASE calls[1] \in FrameEntries  BY <2>2 DEF FrameEntries
  <2>3. CASE calls[1] \notin FrameEntries  BY <2>1, <2>3 DEF BridgeEntries
  <2> QED BY <2>2, <2>3
<1>6. calls' = [calls EXCEPT ![1] = e]  BY <1>3
<1> HIDE DEF e
<1>7. Len(calls') = 1 /\ calls'[1] = e
  <2>1. calls \in Seq(BridgeEntries \union {e})  BY <1>1, SeqMonotonic
  <2> QED BY <1>2, <1>6, <2>1, ExceptSeq
<1>8. Held(calls', psolve_arena_stack')
  <2> DEFINE h == [i \in 0 .. 1 |-> IF i = 0 THEN << >> ELSE psolve_arena_stack']
  <2>1. h \in [0 .. 1 -> Seq(Arenas)] /\ h[0] = << >> /\ h[1] = psolve_arena_stack'
    BY <1>4
  <2> HIDE DEF h
  <2>2. \A i \in 1 .. 1 : h[i] = h[i - 1] \o calls'[i].uses
    <3>1. psolve_arena_stack' = << >> \o psolve_arena_stack'  BY <1>4, ConcatEmptySeq
    <3>2. \A i \in 1 .. 1 : i = 1 /\ i - 1 = 0  OBVIOUS
    <3> QED BY <1>5, <1>7, <2>1, <3>1, <3>2, Zenon
  <2> QED BY <1>7, <2>1, <2>2 DEF Held
<1> QED BY <1>7, <1>8 DEF BaseInv

(* err.h: the arena that the bridge armed at start-up stays the active one *)
(* through every call, failure and frame of the host, until the page puts  *)
(* it away.                                                                *)
THEOREM ArenaOutlivesCalls == BridgeSpec => []ArenasNest
<1>1. BaseInv => ArenasNest
  BY HeldIsFlat DEF BaseInv, BridgeInv, ShapeInv, StackInv, ArenasNest
<1>2. BaseInv /\ [BridgeNext]_<<vars, bridgeVars>> => BaseInv'
  <2> SUFFICES ASSUME BaseInv, [BridgeNext]_<<vars, bridgeVars>> PROVE BaseInv'
    OBVIOUS
  <2>b. BridgeInv'  BY BridgeStep DEF BaseInv
  <2>0. ASSUME UNCHANGED <<calls, psolve_arena_stack>>  PROVE BaseInv'
    BY <2>0, <2>b DEF BaseInv, Held
  <2>1. CASE Inside
    <3>1. ASSUME NEW code, Unwind(code), UNCHANGED psolve_arena_stack  PROVE BaseInv'
      BY <2>b, <3>1, BaseUnwinds
    <3> QED BY <2>0, <2>1, <3>1 DEF Inside, psolve_malloc, psolve_free, psolve_fail,
                                    frameVars, arenaVars
  <2>2. CASE HostFrames
    <3>1. ASSUME NEW f \in Frames, psolve_frame_push(f)  PROVE BaseInv'
      <4> DEFINE e == [frame |-> f, at |-> "body", uses |-> << >>]
      <4>1. e \in BridgeEntries /\ e.uses = << >> /\ e.at # "base"
        BY DEF BridgeEntries, FrameEntries
      <4>2. calls' = Append(calls, e) /\ psolve_arena_stack' = psolve_arena_stack
        BY <3>1 DEF psolve_frame_push, arenaVars
      <4> HIDE DEF e
      <4> QED BY <2>b, <4>1, <4>2, BaseGrows
    <3>2. ASSUME psolve_frame_pop \/ HandlerReturns  PROVE BaseInv'
      <4>1. Caller.at = "body" => psv_frame_top = Caller.frame
        BY CallerOnTop DEF BaseInv, BridgeInv, ShapeInv
      <4> QED BY <2>b, <3>2, <4>1, BaseReturns
              DEF psolve_frame_pop, HandlerReturns, arenaVars
    <3> QED BY <2>2, <3>1, <3>2 DEF HostFrames
  <2>3. ASSUME NEW entry \in {"lp", "lp_b", "qp"}, NEW qp \in QPs \union {None},
               NEW mine \in BOOLEAN, Enter(entry, qp, mine)
        PROVE  BaseInv'
    <3> DEFINE e == [frame |-> None, at |-> "solve", uses |-> << >>,
                     entry |-> entry, qp |-> qp, mine |-> mine]
    <3>1. e \in BridgeEntries /\ e.uses = << >> /\ e.at # "base"  BY DEF BridgeEntries
    <3>2. calls' = Append(calls, e) /\ psolve_arena_stack' = psolve_arena_stack
      BY <2>3 DEF Enter, arenaVars
    <3> HIDE DEF e
    <3> QED BY <2>b, <3>1, <3>2, BaseGrows
  <2>4. CASE psw_lp_solve
    BY <2>3, <2>4 DEF psw_lp_solve
  <2>5. ASSUME NEW positive \in BOOLEAN,
               \/ psw_lp_solve_b(positive) \/ \E qp \in QPs : psw_qp_solve2(qp, positive)
        PROVE  BaseInv'
    BY <2>3, <2>5 DEF psw_lp_solve_b, psw_qp_solve2
  <2>6. CASE LpReturns \/ QpReturns
    <3>1. Caller.at # "base" /\ calls' = Front(calls) /\ UNCHANGED psolve_arena_stack
      BY <2>6 DEF LpReturns, QpReturns, Leave, Solving, arenaVars
    <3> QED BY <2>b, <3>1, BaseReturns
  <2>7. ASSUME NEW on \in BOOLEAN, psw_arena_set(on)  PROVE BaseInv'
    BY <2>b, <2>7, BaseSets
  <2>8. ASSUME \/ Abandon \/ psw_free_scratch \/ psw_arena_reset
               \/ \E positive \in BOOLEAN : psw_set_time_budget_ms(positive)
               \/ \E on \in BOOLEAN : psolve_stop_set(on)
               \/ UNCHANGED <<vars, bridgeVars>>
        PROVE  BaseInv'
    BY <2>0, <2>8 DEF Abandon, psw_free_scratch, psw_arena_reset, psolve_arena_reset,
       psw_set_time_budget_ms, psolve_stop_set, vars, frameVars, arenaVars
  <2> QED BY <2>1, <2>2, <2>4, <2>5, <2>6, <2>7, <2>8 DEF BridgeNext
<1> QED BY <1>1, <1>2, BaseStart, PTL DEF BridgeSpec

-----------------------------------------------------------------------------
(***************************************************************************)
(* What lpsolve prints is real, for every linear program over any finite   *)
(* sets of rows and columns, every option and every outcome of presolve    *)
(* and engine: an accepted optimum is one (weak duality on the exact       *)
(* certificate), an accepted ray refutes or escapes, and no retry, degraded*)
(* attempt or interrupt prints more than that.                             *)
(* And presolve, which sees that program first, loses none of its points.  *)
(***************************************************************************)

(* A linear program: finitely many rows and columns, numbers for data, and *)
(* in each column entries for some of the rows.                            *)
Relations == {"<", ">", "="}
IsLp(p) ==
  /\ IsFiniteSet(p.cols) /\ IsFiniteSet(p.rows)
  /\ Finite(p.cols, p.c) /\ Finite(p.cols, p.l) /\ Finite(p.cols, p.u) /\ Finite(p.rows, p.b)
  /\ \A i \in p.rows : p.rel[i] \in Relations
  /\ \A j \in p.cols : DOMAIN p.A[j] \subseteq p.rows /\ Finite(DOMAIN p.A[j], p.A[j])

(* The model's sums, each as the sum of one function over one set.         *)
LEMMA ObjectiveIsTotal ==
  ASSUME NEW p, NEW x
  PROVE  Objective(p, x) = Total([j \in p.cols |-> p.c[j] * x[j]], p.cols)
BY DEF Objective, Total, MapThenSumSet, MapThenFoldSet

(* The dual objective of a vector of multipliers.                          *)
LEMMA YbIsTotal ==
  ASSUME NEW p, NEW y
  PROVE  Yb(p, y) = Total([i \in p.rows |-> y[i] * p.b[i]], p.rows)
BY DEF Yb, Total, MapThenSumSet, MapThenFoldSet

(* A row's value; columns without an entry in the row add zero.            *)
LEMMA RowValueIsTotal ==
  ASSUME NEW p, IsLp(p), NEW i, NEW x, Finite(p.cols, x)
  PROVE  RowValue(p, i, x)
           = Total([j \in p.cols |-> IF j \in Entries(p, i) THEN p.A[j][i] * x[j] ELSE 0], p.cols)
<1> DEFINE E == Entries(p, i)
           e == [j \in E |-> p.A[j][i] * x[j]]
           wide == [j \in p.cols |-> IF j \in E THEN p.A[j][i] * x[j] ELSE 0]
<1>1. RowValue(p, i, x) = Total(e, E)
  BY DEF RowValue, Total, MapThenSumSet, MapThenFoldSet
<1>2. IsFiniteSet(p.cols) /\ E \in SUBSET p.cols /\ IsFiniteSet(E)
  BY FS_Subset DEF IsLp, Entries
<1>3. \A j \in p.cols : wide[j] \in Int
  BY DEF IsLp, Finite, Entries
<1>4. \A j \in E : e[j] = wide[j]
  BY <1>2
<1>5. \A j \in p.cols \ E : wide[j] = 0
  OBVIOUS
<1> HIDE DEF e, wide, E
<1>6. Total(e, E) = Total(wide, E)
  BY <1>2, <1>4, TotalAgrees
<1>7. Total(wide, p.cols) = Total(wide, E)
  BY <1>2, <1>3, <1>5, TotalSkipsZeros
<1> QED BY <1>1, <1>6, <1>7 DEF wide, E

(* A column's share of the multipliers; rows without an entry add zero.    *)
LEMMA ATyIsTotal ==
  ASSUME NEW p, IsLp(p), NEW j \in p.cols, NEW y, Finite(p.rows, y)
  PROVE  ATy(p, y, j)
           = Total([i \in p.rows |-> IF i \in DOMAIN p.A[j] THEN p.A[j][i] * y[i] ELSE 0], p.rows)
<1> DEFINE E == DOMAIN p.A[j] \cap p.rows
           e == [i \in E |-> p.A[j][i] * y[i]]
           wide == [i \in p.rows |-> IF i \in DOMAIN p.A[j] THEN p.A[j][i] * y[i] ELSE 0]
<1>1. ATy(p, y, j) = Total(e, E)
  BY TotalOfProducts DEF ATy
<1>2. IsFiniteSet(p.rows) /\ E \in SUBSET p.rows /\ IsFiniteSet(E)
  BY FS_Subset DEF IsLp
<1>3. \A i \in p.rows : wide[i] \in Int
  BY DEF IsLp, Finite
<1>4. \A i \in E : e[i] = wide[i]
  BY <1>2
<1>5. \A i \in p.rows \ E : wide[i] = 0
  OBVIOUS
<1> HIDE DEF e, wide, E
<1>6. Total(e, E) = Total(wide, E)
  BY <1>2, <1>4, TotalAgrees
<1>7. Total(wide, p.rows) = Total(wide, E)
  BY <1>2, <1>3, <1>5, TotalSkipsZeros
<1> QED BY <1>1, <1>6, <1>7 DEF wide

(* All of these are integers.                                              *)
LEMMA SumsAreIntegers ==
  ASSUME NEW p, IsLp(p), NEW x, Finite(p.cols, x), NEW y, Finite(p.rows, y)
  PROVE  /\ Objective(p, x) \in Int
         /\ Yb(p, y) \in Int
         /\ \A i \in p.rows : RowValue(p, i, x) \in Int
         /\ \A j \in p.cols : ATy(p, y, j) \in Int
<1>1. Objective(p, x) \in Int
  <2> DEFINE f == [j \in p.cols |-> p.c[j] * x[j]]
  <2>1. IsFiniteSet(p.cols) /\ \A j \in p.cols : f[j] \in Int
    BY DEF IsLp, Finite
  <2> HIDE DEF f
  <2>2. Total(f, p.cols) \in Int
    BY <2>1, TotalInt
  <2> QED BY <2>2, ObjectiveIsTotal DEF f
<1>2. Yb(p, y) \in Int
  <2> DEFINE f == [i \in p.rows |-> y[i] * p.b[i]]
  <2>1. IsFiniteSet(p.rows) /\ \A i \in p.rows : f[i] \in Int
    BY DEF IsLp, Finite
  <2> HIDE DEF f
  <2>2. Total(f, p.rows) \in Int
    BY <2>1, TotalInt
  <2> QED BY <2>2, YbIsTotal DEF f
<1>3. ASSUME NEW i \in p.rows PROVE RowValue(p, i, x) \in Int
  <2> DEFINE f == [j \in p.cols |-> IF j \in Entries(p, i) THEN p.A[j][i] * x[j] ELSE 0]
  <2>1. IsFiniteSet(p.cols) /\ \A j \in p.cols : f[j] \in Int
    BY DEF IsLp, Finite, Entries
  <2> HIDE DEF f
  <2>2. Total(f, p.cols) \in Int
    BY <2>1, TotalInt
  <2> QED BY <2>2, RowValueIsTotal DEF f
<1>4. ASSUME NEW j \in p.cols PROVE ATy(p, y, j) \in Int
  <2> DEFINE f == [i \in p.rows |-> IF i \in DOMAIN p.A[j] THEN p.A[j][i] * y[i] ELSE 0]
  <2>1. IsFiniteSet(p.rows) /\ \A i \in p.rows : f[i] \in Int
    BY DEF IsLp, Finite
  <2> HIDE DEF f
  <2>2. Total(f, p.rows) \in Int
    BY <2>1, TotalInt
  <2> QED BY <2>2, ATyIsTotal DEF f
<1> QED BY <1>1, <1>2, <1>3, <1>4

(* y'(Ax) = (A'y)'x. *)
LEMMA RowsAreColumns ==
  ASSUME NEW p, IsLp(p), NEW x, Finite(p.cols, x), NEW y, Finite(p.rows, y)
  PROVE  Total([i \in p.rows |-> y[i] * RowValue(p, i, x)], p.rows)
           = Total([j \in p.cols |-> x[j] * ATy(p, y, j)], p.cols)
<1> DEFINE a(i, j) == IF i \in DOMAIN p.A[j] THEN p.A[j][i] ELSE 0
           F == [i \in p.rows |-> [j \in p.cols |-> y[i] * (a(i, j) * x[j])]]
           byRow == [i \in p.rows |-> y[i] * RowValue(p, i, x)]
           byColumn == [j \in p.cols |-> x[j] * ATy(p, y, j)]
<1>0. IsFiniteSet(p.rows) /\ IsFiniteSet(p.cols)
  BY DEF IsLp
<1>1. /\ \A i \in p.rows : y[i] \in Int
      /\ \A j \in p.cols : x[j] \in Int
      /\ \A i \in p.rows, j \in p.cols : a(i, j) \in Int
  BY DEF IsLp, Finite
<1>2. \A i \in p.rows, j \in p.cols : F[i][j] = y[i] * (a(i, j) * x[j]) /\ F[i][j] \in Int
  <2>1. \A i \in p.rows, j \in p.cols : F[i][j] = y[i] * (a(i, j) * x[j])
    OBVIOUS
  <2> HIDE DEF a, F
  <2> QED BY <2>1, <1>1
<1>3. ASSUME NEW i \in p.rows
      PROVE  Total(F[i], p.cols) = byRow[i]
  <2> DEFINE row == [j \in p.cols |-> IF j \in Entries(p, i) THEN p.A[j][i] * x[j] ELSE 0]
  <2>1. \A j \in p.cols : row[j] = a(i, j) * x[j]
    BY <1>1 DEF Entries
  <2>2. \A j \in p.cols : row[j] \in Int /\ F[i][j] = y[i] * row[j]
    <3> TAKE j \in p.cols
    <3>1. F[i][j] = y[i] * (a(i, j) * x[j]) /\ row[j] = a(i, j) * x[j]
      BY <1>2, <2>1
    <3>2. y[i] \in Int /\ a(i, j) \in Int /\ x[j] \in Int
      BY <1>1
    <3> HIDE DEF a, F, row
    <3> QED BY <3>1, <3>2
  <2>3. RowValue(p, i, x) = Total(row, p.cols)
    BY RowValueIsTotal
  <2> HIDE DEF row, F
  <2>4. Total(F[i], p.cols) = y[i] * Total(row, p.cols)
    BY <1>0, <1>1, <2>2, TotalScales
  <2> QED BY <2>3, <2>4
<1> DEFINE G == [j \in p.cols |-> [i \in p.rows |-> F[i][j]]]
<1>4. \A i \in p.rows, j \in p.cols : G[j][i] = F[i][j]
  OBVIOUS
<1>5. ASSUME NEW j \in p.cols
      PROVE  Total(G[j], p.rows) = byColumn[j]
  <2> DEFINE column == [i \in p.rows |-> IF i \in DOMAIN p.A[j] THEN p.A[j][i] * y[i] ELSE 0]
  <2>1. \A i \in p.rows : column[i] = a(i, j) * y[i]
    BY <1>1
  <2>2. \A i \in p.rows : column[i] \in Int /\ G[j][i] = x[j] * column[i]
    <3> TAKE i \in p.rows
    <3>1. G[j][i] = y[i] * (a(i, j) * x[j]) /\ column[i] = a(i, j) * y[i]
      BY <1>2, <1>4, <2>1
    <3>2. y[i] \in Int /\ a(i, j) \in Int /\ x[j] \in Int
      BY <1>1
    <3> HIDE DEF a, G, column
    <3> QED BY <3>1, <3>2
  <2>3. ATy(p, y, j) = Total(column, p.rows)
    BY ATyIsTotal
  <2> HIDE DEF column, G
  <2>4. Total(G[j], p.rows) = x[j] * Total(column, p.rows)
    BY <1>0, <1>1, <2>2, TotalScales
  <2> QED BY <2>3, <2>4
<1>6. \A i \in p.rows, j \in p.cols : F[i][j] \in Int /\ G[j][i] = F[i][j]
  BY <1>2, <1>4
<1>7. \A i \in p.rows : byRow[i] = Total(F[i], p.cols)
  BY <1>3
<1>8. \A j \in p.cols : byColumn[j] = Total(G[j], p.rows)
  BY <1>5
<1> HIDE DEF F, G, byRow, byColumn
<1>9. Total(byRow, p.rows) = Total(byColumn, p.cols)
  BY <1>0, <1>6, <1>7, <1>8, TotalExchange
<1> QED BY <1>9 DEF byRow, byColumn

(* Multipliers of the sign that the relations ask for.                     *)
Signed(p, y) ==
  \A i \in p.rows : /\ y[i] \in Int
                    /\ p.rel[i] = "<" => y[i] >= 0
                    /\ p.rel[i] = ">" => y[i] <= 0

(* Clipping leaves multipliers whose signs fit their rows.                 *)
LEMMA ClippedIsSigned ==
  ASSUME NEW p, IsLp(p), NEW v, Finite(p.rows, v)
  PROVE  Signed(p, Clipped(p, v))
BY DEF Signed, Clipped, IsLp, Relations, Finite

(* Weak duality, row by row: what the columns add up to under multipliers  *)
(* of the right signs never exceeds the dual objective.                    *)
LEMMA RowsBound ==
  ASSUME NEW p, IsLp(p), NEW z, lp_primal_ok(p, z), NEW y, Signed(p, y)
  PROVE  Total([j \in p.cols |-> z[j] * ATy(p, y, j)], p.cols) <= Yb(p, y) * U
<1> DEFINE value == [i \in p.rows |-> y[i] * RowValue(p, i, z)]
           side == [i \in p.rows |-> y[i] * p.b[i]]
           bound == [i \in p.rows |-> U * side[i]]
<1>1. Finite(p.cols, z) /\ Finite(p.rows, y) /\ IsFiniteSet(p.rows) /\ U \in Int
  BY LpCertAssumption DEF lp_primal_ok, Signed, Finite, IsLp
<1>2. Total(value, p.rows) = Total([j \in p.cols |-> z[j] * ATy(p, y, j)], p.cols)
  BY <1>1, RowsAreColumns
<1>3. ASSUME NEW i \in p.rows
      PROVE  /\ value[i] \in Int /\ bound[i] \in Int /\ side[i] \in Int
             /\ value[i] <= bound[i]
  <2>1. RowValue(p, i, z) \in Int /\ y[i] \in Int /\ p.b[i] \in Int
    BY <1>1, SumsAreIntegers DEF Finite, IsLp
  <2>2. Meets(p.rel[i], RowValue(p, i, z), p.b[i] * U)
    BY DEF lp_primal_ok
  <2>3. \/ y[i] >= 0 /\ RowValue(p, i, z) <= p.b[i] * U
        \/ y[i] <= 0 /\ RowValue(p, i, z) >= p.b[i] * U
    <3>1. CASE p.rel[i] = "<"
      BY <2>2, <3>1 DEF Meets, Signed
    <3>2. CASE p.rel[i] = ">"
      BY <2>2, <3>2 DEF Meets, Signed
    <3>3. CASE p.rel[i] = "="
      BY <2>1, <1>1, <2>2, <3>3 DEF Meets
    <3> QED BY <3>1, <3>2, <3>3 DEF IsLp, Relations
  <2>4. \A a, b, c, d \in Int :
          (a >= 0 /\ b <= c * d) \/ (a <= 0 /\ b >= c * d) => a * b <= d * (a * c)
    <3> TAKE a, b, c, d \in Int
    <3>1. a * (c * d) = d * (a * c)
      OBVIOUS
    <3>2. ASSUME NEW e \in Int, (a >= 0 /\ b <= e) \/ (a <= 0 /\ b >= e) PROVE a * b <= a * e
      BY <3>2
    <3> QED BY <3>1, <3>2
  <2>5. y[i] * RowValue(p, i, z) <= U * (y[i] * p.b[i])
    BY <1>1, <2>1, <2>3, <2>4
  <2> QED BY <2>1, <2>5, <1>1
<1>4. Yb(p, y) = Total(side, p.rows)
  BY YbIsTotal
<1> HIDE DEF value, side
<1>5. Total(bound, p.rows) = U * Total(side, p.rows)
  BY <1>1, <1>3, TotalScales
<1> HIDE DEF bound
<1>6. Total(value, p.rows) <= Total(bound, p.rows)
  BY <1>1, <1>3, TotalGrows
<1>7. Total(side, p.rows) \in Int
  BY <1>1, <1>3, TotalInt
<1> QED BY <1>1, <1>2, <1>4, <1>5, <1>6, <1>7


(* Over the box, d.z lies between the sums of its corners.                 *)
LEMMA BoxBounds ==
  ASSUME NEW p, IsLp(p), NEW z, lp_primal_ok(p, z), NEW d, Finite(p.cols, d)
  PROVE  LET value == Total([j \in p.cols |-> z[j] * d[j]], p.cols)
         IN  /\ (\A j \in p.cols : /\ d[j] > 0 => ~OpenAbove(p.u[j])
                                   /\ d[j] < 0 => ~OpenBelow(p.l[j]))
                  => value <= LargestOnBox(p, d) /\ LargestOnBox(p, d) \in Int
             /\ (\A j \in p.cols : d[j] # 0 => ~OpenAbove(p.u[j]) /\ ~OpenBelow(p.l[j]))
                  => LeastOnBox(p, d) <= value /\ LeastOnBox(p, d) \in Int
<1> DEFINE S == {j \in p.cols : d[j] # 0}
           f == [j \in p.cols |-> z[j] * d[j]]
           up == [j \in S |-> IF d[j] > 0 THEN d[j] * p.u[j] ELSE d[j] * p.l[j]]
           down == [j \in S |-> IF d[j] > 0 THEN d[j] * p.l[j] ELSE d[j] * p.u[j]]
<1>1. LargestOnBox(p, d) = Total(up, S)
  BY DEF LargestOnBox, Total, MapThenSumSet, MapThenFoldSet
<1>2. LeastOnBox(p, d) = Total(down, S)
  BY DEF LeastOnBox, Total, MapThenSumSet, MapThenFoldSet
<1>3. IsFiniteSet(p.cols) /\ S \in SUBSET p.cols /\ IsFiniteSet(S)
  BY FS_Subset DEF IsLp
<1>4. \A j \in p.cols : z[j] \in Int /\ d[j] \in Int /\ p.l[j] \in Int /\ p.u[j] \in Int
  BY DEF lp_primal_ok, IsLp, Finite
<1>5. \A j \in p.cols : f[j] \in Int
  BY <1>4
<1>6. \A j \in p.cols \ S : f[j] = 0
  BY <1>4
<1>7. \A j \in S : up[j] \in Int /\ down[j] \in Int
  BY <1>3, <1>4
<1>8. \A j \in p.cols : /\ ~OpenBelow(p.l[j]) => p.l[j] <= z[j]
                        /\ ~OpenAbove(p.u[j]) => z[j] <= p.u[j]
  BY <1>4 DEF lp_primal_ok
<1>9. \A a, b, c \in Int : /\ a > 0 /\ b <= c => b * a <= a * c /\ a * b <= c * a
                           /\ a < 0 /\ c <= b => b * a <= a * c /\ a * b <= c * a
  OBVIOUS
<1>10. Total(f, p.cols) = Total(f, S)
  <2> HIDE DEF f, S
  <2> QED BY <1>3, <1>5, <1>6, TotalSkipsZeros
<1>11. ASSUME \A j \in p.cols : /\ d[j] > 0 => ~OpenAbove(p.u[j])
                                /\ d[j] < 0 => ~OpenBelow(p.l[j])
       PROVE  Total(f, S) <= Total(up, S) /\ Total(up, S) \in Int
  <2>1. ASSUME NEW j \in S PROVE f[j] <= up[j]
    <3>1. CASE d[j] > 0
      BY <1>3, <1>4, <1>8, <1>9, <1>11, <3>1
    <3>2. CASE d[j] < 0
      BY <1>3, <1>4, <1>8, <1>9, <1>11, <3>2
    <3> QED BY <1>3, <1>4, <3>1, <3>2
  <2> HIDE DEF f, up, S
  <2> QED BY <1>3, <1>5, <1>7, <2>1, TotalGrows, TotalInt
<1>12. ASSUME \A j \in p.cols : d[j] # 0 => ~OpenAbove(p.u[j]) /\ ~OpenBelow(p.l[j])
       PROVE  Total(down, S) <= Total(f, S) /\ Total(down, S) \in Int
  <2>1. ASSUME NEW j \in S PROVE down[j] <= f[j]
    <3>1. CASE d[j] > 0
      BY <1>3, <1>4, <1>8, <1>9, <1>12, <3>1
    <3>2. CASE d[j] < 0
      BY <1>3, <1>4, <1>8, <1>9, <1>12, <3>2
    <3> QED BY <1>3, <1>4, <3>1, <3>2
  <2> HIDE DEF f, down, S
  <2> QED BY <1>3, <1>5, <1>7, <2>1, TotalGrows, TotalInt
<1> HIDE DEF f, up, down, S
<1>13. Total(f, p.cols) = Total([j \in p.cols |-> z[j] * d[j]], p.cols)
  BY DEF f
<1> QED BY <1>1, <1>2, <1>10, <1>11, <1>12, <1>13

(* Weak duality: no point of the model beats one whose claim of optimality *)
(* psv_cert_check accepts, whoever found the duals.                        *)
THEOREM AcceptedOptimumIsOptimal ==
  ASSUME NEW p, IsLp(p), NEW x, NEW y, check_lp_optimal(p, x, y),
         NEW z, lp_primal_ok(p, z)
  PROVE  Sense(p) * Objective(p, z) <= Sense(p) * Objective(p, x)
<1> DEFINE s == Sense(p)
           yc == Clipped(p, [i \in p.rows |-> s * y[i]])
           d == ReducedCosts(p, yc)
           earned == [j \in p.cols |-> z[j] * d[j]]
           priced == [j \in p.cols |-> z[j] * ATy(p, yc, j)]
           cost == [j \in p.cols |-> p.c[j] * z[j]]
           scaled == [j \in p.cols |-> (s * U) * cost[j]]
<1>1. s \in {1, -1} /\ s \in Int /\ U \in Nat \ {0} /\ IsFiniteSet(p.cols)
  BY LpCertAssumption DEF Sense, IsLp
<1>2. /\ lp_primal_ok(p, x) /\ Finite(p.rows, y)
      /\ \A j \in p.cols : /\ d[j] > 0 => ~OpenAbove(p.u[j])
                           /\ d[j] < 0 => ~OpenBelow(p.l[j])
      /\ Yb(p, yc) * U + LargestOnBox(p, d) = s * Objective(p, x) * U
  BY DEF check_lp_optimal
<1>3. Finite(p.cols, x) /\ Finite(p.cols, z)
  BY <1>2 DEF lp_primal_ok
<1>4. Signed(p, yc)
  <2> DEFINE v == [i \in p.rows |-> s * y[i]]
  <2>1. Finite(p.rows, v)
    BY <1>1, <1>2 DEF Finite
  <2> HIDE DEF v
  <2>2. Signed(p, Clipped(p, v))
    BY <2>1, ClippedIsSigned
  <2> QED BY <2>2 DEF v
<1> HIDE DEF yc
<1>5. Finite(p.rows, yc)
  BY <1>4 DEF Signed, Finite
<1>6. /\ Objective(p, x) \in Int /\ Objective(p, z) \in Int /\ Yb(p, yc) \in Int
      /\ \A j \in p.cols : ATy(p, yc, j) \in Int
  BY <1>3, <1>5, SumsAreIntegers
<1>7. \A j \in p.cols : z[j] \in Int /\ p.c[j] \in Int
  BY <1>3 DEF Finite, IsLp
<1>8. \A j \in p.cols : d[j] = s * p.c[j] * U - ATy(p, yc, j) /\ d[j] \in Int
  BY <1>1, <1>6, <1>7 DEF ReducedCosts
<1> HIDE DEF d, s
<1>9. \A j \in p.cols : /\ earned[j] \in Int /\ priced[j] \in Int /\ cost[j] \in Int
                        /\ scaled[j] = (s * U) * cost[j]
                        /\ scaled[j] = earned[j] + priced[j]
  <2> TAKE j \in p.cols
  <2>1. /\ s \in Int /\ p.c[j] \in Int /\ U \in Int /\ z[j] \in Int
        /\ ATy(p, yc, j) \in Int /\ d[j] \in Int
    BY <1>1, <1>6, <1>7, <1>8
  <2>2. d[j] + ATy(p, yc, j) = s * p.c[j] * U
    BY <2>1, <1>8
  <2>3. (s * U) * (p.c[j] * z[j]) = z[j] * d[j] + z[j] * ATy(p, yc, j)
    <3>1. z[j] * (d[j] + ATy(p, yc, j)) = z[j] * d[j] + z[j] * ATy(p, yc, j)
      BY <2>1
    <3>2. z[j] * (s * p.c[j] * U) = (s * U) * (p.c[j] * z[j])
      BY <2>1
    <3> QED BY <2>2, <3>1, <3>2
  <2>4. z[j] * d[j] \in Int /\ z[j] * ATy(p, yc, j) \in Int /\ p.c[j] * z[j] \in Int
    BY <1>6, <1>7, <1>8
  <2> QED BY <2>3, <2>4
<1>10. Objective(p, z) = Total(cost, p.cols)
  BY ObjectiveIsTotal
<1>11. Total(earned, p.cols) <= LargestOnBox(p, d) /\ LargestOnBox(p, d) \in Int
  <2>1. Finite(p.cols, d)
    BY <1>8 DEF Finite
  <2> QED BY <1>2, <2>1, BoxBounds
<1>12. Total(priced, p.cols) <= Yb(p, yc) * U
  BY <1>4, RowsBound
<1> HIDE DEF earned, priced, cost, scaled
<1>13. Total(scaled, p.cols) = (s * U) * Total(cost, p.cols)
  BY <1>1, <1>9, TotalScales
<1>14. Total(scaled, p.cols) = Total(earned, p.cols) + Total(priced, p.cols)
  BY <1>1, <1>9, TotalAdds
<1>15. Total(earned, p.cols) \in Int /\ Total(priced, p.cols) \in Int
  BY <1>1, <1>9, TotalInt
<1>16. (s * U) * Objective(p, z) <= s * Objective(p, x) * U
  <2>1. (s * U) * Objective(p, z) <= LargestOnBox(p, d) + Yb(p, yc) * U
    BY <1>1, <1>6, <1>10, <1>11, <1>12, <1>13, <1>14, <1>15
  <2> QED BY <1>1, <1>2, <1>6, <1>11, <2>1
<1>17. \A t, a, b \in Int, u \in Nat \ {0} : (t * u) * a <= t * b * u => t * a <= t * b
  <2> TAKE t, a, b \in Int, u \in Nat \ {0}
  <2>1. (t * u) * a = u * (t * a) /\ t * b * u = u * (t * b)
    OBVIOUS
  <2>2. \A e, g \in Int : u * e <= u * g => e <= g
    OBVIOUS
  <2> QED BY <2>1, <2>2
<1> QED BY <1>1, <1>6, <1>16, <1>17 DEF s

(* Farkas: a model whose separating ray psv_cert_check accepts has no      *)
(* point at all.                                                           *)
THEOREM AcceptedRayIsProof ==
  ASSUME NEW p, IsLp(p), NEW y, check_lp_infeasible(p, y), NEW z, lp_primal_ok(p, z)
  PROVE  FALSE
<1> DEFINE yc == Clipped(p, y)
           d == [j \in p.cols |-> ATy(p, yc, j)]
           left == [j \in p.cols |-> z[j] * d[j]]
           right == [j \in p.cols |-> z[j] * ATy(p, yc, j)]
<1>1. /\ Finite(p.rows, y) /\ LeastOnBox(p, d) > Yb(p, yc) * U
      /\ \A j \in p.cols : d[j] # 0 => ~OpenAbove(p.u[j]) /\ ~OpenBelow(p.l[j])
  BY DEF check_lp_infeasible
<1>2. Signed(p, yc)
  BY <1>1, ClippedIsSigned
<1> HIDE DEF yc
<1>3. Finite(p.rows, yc) /\ Finite(p.cols, z) /\ U \in Nat
  BY <1>2, LpCertAssumption DEF Signed, Finite, lp_primal_ok
<1>4. Yb(p, yc) \in Int /\ \A j \in p.cols : ATy(p, yc, j) \in Int
  BY <1>3, SumsAreIntegers
<1>5. Finite(p.cols, d)
  BY <1>4 DEF Finite
<1>6. Total(right, p.cols) <= Yb(p, yc) * U
  BY <1>2, RowsBound
<1>7. LeastOnBox(p, d) <= Total(left, p.cols) /\ LeastOnBox(p, d) \in Int
  <2> HIDE DEF d
  <2> QED BY <1>1, <1>5, BoxBounds
<1>8. IsFiniteSet(p.cols) /\ \A j \in p.cols : left[j] = right[j] /\ left[j] \in Int
  BY <1>3, <1>4 DEF IsLp, Finite
<1> HIDE DEF left, right, d
<1>9. Total(left, p.cols) = Total(right, p.cols) /\ Total(left, p.cols) \in Int
  BY <1>8, TotalAgrees, TotalInt
<1> QED BY <1>1, <1>3, <1>4, <1>6, <1>7, <1>9

(* Sums of the model are linear along a ray.                               *)
LEMMA AlongRay ==
  ASSUME NEW p, IsLp(p), NEW x, Finite(p.cols, x), NEW d, Finite(p.cols, d), NEW t \in Int,
         NEW far, \A j \in p.cols : far[j] = x[j] + t * d[j]
  PROVE  /\ Finite(p.cols, far)
         /\ Objective(p, far) = Objective(p, x) + t * Objective(p, d)
         /\ \A i \in p.rows : RowValue(p, i, far) = RowValue(p, i, x) + t * RowValue(p, i, d)
<1>0. IsFiniteSet(p.cols)
  BY DEF IsLp
<1>1. \A j \in p.cols : x[j] \in Int /\ d[j] \in Int /\ far[j] \in Int
  BY DEF Finite
<1>2. ASSUME NEW a, \A j \in p.cols : a[j] \in Int,
             NEW f, \A j \in p.cols : f[j] = a[j] * far[j],
             NEW g, \A j \in p.cols : g[j] = a[j] * x[j],
             NEW h, \A j \in p.cols : h[j] = a[j] * d[j]
      PROVE  Total(f, p.cols) = Total(g, p.cols) + t * Total(h, p.cols)
  <2> DEFINE k == [j \in p.cols |-> t * h[j]]
  <2>1. \A j \in p.cols : /\ g[j] \in Int /\ h[j] \in Int
                          /\ k[j] \in Int /\ k[j] = t * h[j] /\ f[j] = g[j] + k[j]
    <3> TAKE j \in p.cols
    <3>1. a[j] \in Int /\ x[j] \in Int /\ d[j] \in Int
      BY <1>1, <1>2
    <3>2. a[j] * (x[j] + t * d[j]) = a[j] * x[j] + t * (a[j] * d[j])
      BY <3>1
    <3>3. f[j] = a[j] * (x[j] + t * d[j]) /\ g[j] = a[j] * x[j] /\ h[j] = a[j] * d[j]
      BY <1>2
    <3> QED BY <3>1, <3>2, <3>3
  <2> HIDE DEF k
  <2>2. Total(k, p.cols) = t * Total(h, p.cols)
    BY <1>0, <2>1, TotalScales
  <2>3. Total(f, p.cols) = Total(g, p.cols) + Total(k, p.cols)
    BY <1>0, <2>1, TotalAdds
  <2> QED BY <2>2, <2>3
<1>3. Objective(p, far) = Objective(p, x) + t * Objective(p, d)
  <2> DEFINE f(v) == [j \in p.cols |-> p.c[j] * v[j]]
  <2>1. \A v : \A j \in p.cols : f(v)[j] = p.c[j] * v[j]
    OBVIOUS
  <2>2. \A j \in p.cols : p.c[j] \in Int
    BY DEF IsLp, Finite
  <2>3. \A v : Objective(p, v) = Total(f(v), p.cols)
    BY ObjectiveIsTotal
  <2> HIDE DEF f
  <2>4. Total(f(far), p.cols) = Total(f(x), p.cols) + t * Total(f(d), p.cols)
    BY <1>2, <2>1, <2>2
  <2> QED BY <2>3, <2>4
<1>4. ASSUME NEW i \in p.rows
      PROVE  RowValue(p, i, far) = RowValue(p, i, x) + t * RowValue(p, i, d)
  <2> DEFINE E == Entries(p, i)
             a == [j \in p.cols |-> IF j \in E THEN p.A[j][i] ELSE 0]
             f(v) == [j \in p.cols |-> IF j \in E THEN p.A[j][i] * v[j] ELSE 0]
  <2>1. \A j \in p.cols : a[j] \in Int
    BY DEF IsLp, Finite, Entries
  <2>2. \A v : Finite(p.cols, v) => \A j \in p.cols : f(v)[j] = a[j] * v[j]
    BY DEF Finite
  <2>3. \A v : Finite(p.cols, v) => RowValue(p, i, v) = Total(f(v), p.cols)
    BY RowValueIsTotal
  <2>4. Finite(p.cols, far)
    BY <1>1 DEF Finite
  <2> HIDE DEF a, f, E
  <2>5. Total(f(far), p.cols) = Total(f(x), p.cols) + t * Total(f(d), p.cols)
    BY <1>2, <2>1, <2>2, <2>4
  <2> QED BY <2>3, <2>4, <2>5
<1> QED BY <1>1, <1>3, <1>4 DEF Finite

(* An accepted ray leaves the model from a point of it: every point on it  *)
(* satisfies the model, and the objective gains with each step.            *)
THEOREM AcceptedRayEscapes ==
  ASSUME NEW p, IsLp(p), NEW x, NEW d, check_lp_unbounded(p, x, d),
         NEW t \in Nat \ {0}, NEW far, \A j \in p.cols : far[j] = x[j] + t * d[j]
  PROVE  /\ lp_primal_ok(p, far)
         /\ Sense(p) * Objective(p, far) >= Sense(p) * Objective(p, x) + t
<1>1. /\ lp_primal_ok(p, x) /\ Finite(p.cols, x) /\ Finite(p.cols, d)
      /\ \A j \in p.cols : /\ d[j] > 0 => OpenAbove(p.u[j])
                           /\ d[j] < 0 => OpenBelow(p.l[j])
      /\ \A i \in p.rows : Meets(p.rel[i], RowValue(p, i, d), 0)
      /\ Sense(p) * Objective(p, d) > 0
  BY DEF check_lp_unbounded, lp_primal_ok
<1>2. /\ Finite(p.cols, far)
      /\ Objective(p, far) = Objective(p, x) + t * Objective(p, d)
      /\ \A i \in p.rows : RowValue(p, i, far) = RowValue(p, i, x) + t * RowValue(p, i, d)
  BY <1>1, AlongRay
<1>3. /\ Objective(p, x) \in Int /\ Objective(p, d) \in Int
      /\ \A i \in p.rows : RowValue(p, i, x) \in Int /\ RowValue(p, i, d) \in Int
  <2> DEFINE y == [i \in p.rows |-> 0]
  <2>1. Finite(p.rows, y)
    BY DEF Finite
  <2> HIDE DEF y
  <2> QED BY <1>1, <2>1, SumsAreIntegers
<1>4. \A a \in Int : /\ a > 0 => t * a >= t
                     /\ a >= 0 => t * a >= 0
                     /\ a <= 0 => t * a <= 0
                     /\ a = 0 => t * a = 0
  OBVIOUS
<1>5. ASSUME NEW j \in p.cols
      PROVE  /\ OpenBelow(p.l[j]) \/ far[j] >= p.l[j]
             /\ OpenAbove(p.u[j]) \/ far[j] <= p.u[j]
  <2>1. /\ x[j] \in Int /\ d[j] \in Int /\ p.l[j] \in Int /\ p.u[j] \in Int
        /\ far[j] = x[j] + t * d[j] /\ t * d[j] \in Int
    BY <1>1 DEF Finite, IsLp
  <2>2. /\ OpenBelow(p.l[j]) \/ x[j] >= p.l[j]
        /\ OpenAbove(p.u[j]) \/ x[j] <= p.u[j]
    BY <1>1 DEF lp_primal_ok
  <2>3. CASE d[j] > 0
    BY <1>1, <1>4, <2>1, <2>2, <2>3
  <2>4. CASE d[j] < 0
    BY <1>1, <1>4, <2>1, <2>2, <2>4
  <2>5. CASE d[j] = 0
    BY <1>4, <2>1, <2>2, <2>5
  <2> QED BY <2>1, <2>3, <2>4, <2>5
<1>6. ASSUME NEW i \in p.rows
      PROVE  Meets(p.rel[i], RowValue(p, i, far), p.b[i] * U)
  <2>1. /\ RowValue(p, i, x) \in Int /\ RowValue(p, i, d) \in Int
        /\ t * RowValue(p, i, d) \in Int /\ p.b[i] * U \in Int
        /\ RowValue(p, i, far) = RowValue(p, i, x) + t * RowValue(p, i, d)
    BY <1>2, <1>3, LpCertAssumption DEF IsLp, Finite
  <2>2. Meets(p.rel[i], RowValue(p, i, x), p.b[i] * U) /\ Meets(p.rel[i], RowValue(p, i, d), 0)
    BY <1>1 DEF lp_primal_ok
  <2>3. \A r, g, b \in Int : /\ r <= b /\ g <= 0 => r + g <= b
                             /\ r >= b /\ g >= 0 => r + g >= b
    OBVIOUS
  <2>4. CASE p.rel[i] = "<"
    BY <1>4, <2>1, <2>2, <2>4 DEF Meets
  <2>5. CASE p.rel[i] = ">"
    BY <1>4, <2>1, <2>2, <2>5 DEF Meets
  <2>6. CASE p.rel[i] = "="
    BY <1>4, <2>1, <2>2, <2>6 DEF Meets
  <2> QED BY <2>4, <2>5, <2>6 DEF IsLp, Relations
<1>7. Sense(p) * Objective(p, far) >= Sense(p) * Objective(p, x) + t
  <2> DEFINE a == Objective(p, x)
             b == Objective(p, d)
  <2>1. a \in Int /\ b \in Int /\ t * b \in Int /\ Objective(p, far) = a + t * b
    BY <1>2, <1>3
  <2> HIDE DEF a, b
  <2>2. CASE Sense(p) = 1
    <3>1. t * b >= t
      <4>1. b > 0
        BY <1>1, <2>1, <2>2 DEF b
      <4> QED BY <4>1, <1>4, <2>1
    <3> QED BY <2>1, <2>2, <3>1 DEF a
  <2>3. CASE Sense(p) = -1
    <3>1. t * b <= -t
      <4>1. -b > 0
        BY <1>1, <2>1, <2>3 DEF b
      <4>2. t * (-b) >= t
        BY <4>1, <1>4, <2>1
      <4> QED BY <4>2, <2>1
    <3> QED BY <2>1, <2>3, <3>1 DEF a
  <2> QED BY <2>2, <2>3 DEF Sense
<1> QED BY <1>2, <1>5, <1>6, <1>7 DEF lp_primal_ok

----------------------------------------------------------------------------
(* The ladder of attempts.                                                 *)

(* A line with a verdict carries the evidence that the checks accepted.    *)
Backed(p, line) ==
  /\ line.word = "OPTIMAL" => \E y : check_lp_optimal(p, line.proof, y)
  /\ line.word = "INFEASIBLE" /\ line.proof # << >> => check_lp_infeasible(p, line.proof)
  /\ line.word = "UNBOUNDED" => check_lp_unbounded(p, line.proof.x, line.proof.d)

Raw == Config(FALSE, FALSE)
Busy == stage \in {"presolve", "empty", "engine"}

(* Where the ladder stands, and what is left of it while nothing stops it. *)
LadderInv ==
  /\ IsLp(lp)
  /\ options \in [pre : BOOLEAN, scale : BOOLEAN]
  /\ attempt \in 0 .. Len(cfgs)
  /\ stage \in {"ladder", "presolve", "empty", "engine", "exit"}
  /\ Busy => attempt >= 1 /\ Current \in covered
  /\ stage \in {"presolve", "empty"} => Current.pre
  /\ \E S : out \in Seq(S)
  /\ \A k \in DOMAIN out : Backed(lp, out[k])
  /\ ~stop /\ options.scale =>
       /\ stage # "exit" => out = << >>
       /\ stage = "ladder" => attempt < Len(cfgs)
       /\ attempt < Len(cfgs) => Raw \notin covered
       /\ Busy => (can_retry <=> attempt < Len(cfgs))
       /\ OneVerdict

(* Presolving works on its own copy of the program.                        *)
LEMMA PresolveKeepsLp == PresolveStep => lp' = lp
BY DEF PresolveStep, EmptyColumn, StartPass, EmptyRow, SingletonRow, RedundantRow,
       FixedColumn, DoubletonRow, PassOver, EndPass, Finish, Reduce, Skip, Decide, Decline,
       Infeasible, OneRow, OneRowIfOriginal, SeparatePair, DoubletonConflict

(* With equilibration on, the raw data are the last position and only that.*)
LEMMA LastIsRaw ==
  ASSUME options \in [pre : BOOLEAN, scale : BOOLEAN]
  PROVE  /\ Len(cfgs) \in Nat \ {0}
         /\ options.scale => \A q \in 1 .. Len(cfgs) : /\ cfgs[q] = Raw <=> q = Len(cfgs)
                                                       /\ q < Len(cfgs) => cfgs[q].scale
                                                       /\ cfgs[q].pre => q < Len(cfgs)
<1> DEFINE Configs == [pre : BOOLEAN, scale : BOOLEAN]
           one == Config(options.pre, options.scale)
           two == Config(FALSE, options.scale)
           first == << one >>
           second == IF options.pre THEN << two >> ELSE << >>
           third == IF options.pre \/ options.scale THEN << Raw >> ELSE << >>
<1>0. /\ one \in Configs /\ two \in Configs /\ Raw \in Configs /\ ~Raw.pre
      /\ options.scale => one.scale /\ two.scale /\ one # Raw /\ two # Raw
      /\ ~options.pre => ~one.pre
      /\ ~two.pre
  BY DEF Config, Raw
<1>4. cfgs = (first \o second) \o third
  BY DEF cfgs, Raw
<1> HIDE DEF Configs, one, two
<1>1. first \in Seq(Configs) /\ Len(first) = 1 /\ first[1] = one
  BY <1>0
<1>2. second \in Seq(Configs) /\ (options.pre => Len(second) = 1 /\ second[1] = two)
                              /\ (~options.pre => Len(second) = 0)
  <2>1. CASE options.pre
    <3>1. second = << two >>
      BY <2>1
    <3>2. second \in Seq(Configs) /\ Len(second) = 1 /\ second[1] = two
      BY <3>1, <1>0
    <3> QED BY <3>2, <2>1, Zenon
  <2>2. CASE ~options.pre
    <3>1. second = << >>
      BY <2>2
    <3> QED BY <3>1, <2>2
  <2> QED BY <2>1, <2>2
<1>3. third \in Seq(Configs) /\ (options.pre \/ options.scale => Len(third) = 1 /\ third[1] = Raw)
                             /\ (~(options.pre \/ options.scale) => Len(third) = 0)
  <2>1. CASE options.pre \/ options.scale
    <3>1. third = << Raw >>
      BY <2>1
    <3>2. third \in Seq(Configs) /\ Len(third) = 1 /\ third[1] = Raw
      BY <3>1, <1>0
    <3> QED BY <3>2, <2>1, Zenon
  <2>2. CASE ~(options.pre \/ options.scale)
    <3>1. third = << >>
      BY <2>2
    <3> QED BY <3>1, <2>2
  <2> QED BY <2>1, <2>2
<1> HIDE DEF first, second, third
<1> DEFINE half == first \o second
<1>5. /\ half \in Seq(Configs) /\ Len(half) = 1 + Len(second)
      /\ \A q \in 1 .. 1 + Len(second) : half[q] = IF q <= 1 THEN first[q] ELSE second[q - 1]
  <2>1. second \in Seq(Configs) /\ first \in Seq(Configs) /\ Len(first) = 1
    BY <1>1, <1>2, Zenon
  <2>2. /\ first \o second \in Seq(Configs) /\ Len(first \o second) = Len(first) + Len(second)
        /\ \A q \in 1 .. Len(first) + Len(second) :
             (first \o second)[q] = IF q <= Len(first) THEN first[q] ELSE second[q - Len(first)]
    BY <2>1, ConcatProperties, Zenon
  <2> QED BY <2>1, <2>2
<1> HIDE DEF half
<1>6. /\ Len(half \o third) = Len(half) + Len(third)
      /\ \A q \in 1 .. Len(half) + Len(third) :
           (half \o third)[q] = IF q <= Len(half) THEN half[q] ELSE third[q - Len(half)]
  BY <1>3, <1>5, ConcatProperties
<1>7. /\ Len(cfgs) = 1 + Len(second) + Len(third)
      /\ \A q \in 1 .. Len(cfgs) :
           cfgs[q] = IF q <= 1 THEN first[q] ELSE IF q <= 1 + Len(second) THEN second[q - 1]
                                             ELSE third[q - (1 + Len(second))]
  <2>1. second \in Seq(Configs) /\ third \in Seq(Configs)
    BY <1>2, <1>3, Zenon
  <2>2. Len(second) \in Nat /\ Len(third) \in Nat /\ cfgs = half \o third
    BY <2>1, <1>4 DEF half
  <2> QED BY <1>5, <1>6, <2>2
<1>9. Len(cfgs) \in Nat \ {0}
  <2>1. second \in Seq(Configs) /\ third \in Seq(Configs)
    BY <1>2, <1>3, Zenon
  <2> QED BY <2>1, <1>7
<1>10. ASSUME options.scale, NEW q \in 1 .. Len(cfgs)
       PROVE  /\ cfgs[q] = Raw <=> q = Len(cfgs)
              /\ q < Len(cfgs) => cfgs[q].scale
              /\ cfgs[q].pre => q < Len(cfgs)
  <2>0. one.scale /\ one # Raw /\ two.scale /\ two # Raw /\ ~two.pre /\ ~Raw.pre
    BY <1>10, <1>0, Zenon
  <2>a. one = cfgs[1]
    <3>1. Len(second) \in Nat /\ Len(third) \in Nat
      <4>1. second \in Seq(Configs) /\ third \in Seq(Configs)
        BY <1>2, <1>3, Zenon
      <4> QED BY <4>1
    <3> QED BY <1>1, <1>7, <3>1
  <2>1. CASE options.pre
    <3>0. Len(second) = 1 /\ Len(third) = 1 /\ second[1] = two /\ third[1] = Raw
      BY <1>2, <1>3, <2>1, Zenon
    <3>1. Len(cfgs) = 3
      BY <3>0, <1>7
    <3>2. cfgs[2] = second[1] /\ cfgs[3] = third[1]
      BY <1>7, <3>0, <3>1
    <3>3. q = 1 \/ q = 2 \/ q = 3
      BY <3>1
    <3>4. CASE q = 1
      BY <3>4, <2>a, <2>0, <3>1
    <3>5. CASE q = 2
      BY <3>5, <2>0, <3>0, <3>1, <3>2
    <3>6. CASE q = 3
      BY <3>6, <2>0, <3>0, <3>1, <3>2
    <3> QED BY <3>3, <3>4, <3>5, <3>6
  <2>2. CASE ~options.pre
    <3>0. Len(second) = 0 /\ Len(third) = 1 /\ third[1] = Raw
      BY <1>2, <1>3, <1>10, <2>2, Zenon
    <3>1. Len(cfgs) = 2
      BY <3>0, <1>7
    <3>2. cfgs[2] = third[1]
      BY <1>7, <3>0, <3>1
    <3>3. q = 1 \/ q = 2
      BY <3>1
    <3>4. CASE q = 1
      BY <3>4, <2>a, <2>0, <2>2, <1>0, <3>1
    <3>5. CASE q = 2
      BY <3>5, <2>0, <3>0, <3>1, <3>2
    <3> QED BY <3>3, <3>4, <3>5
  <2> QED BY <2>1, <2>2
<1> QED BY <1>9, <1>10

(* The start of the command line satisfies the invariant.                  *)
LEMMA LadderStarts ==
  ASSUME NEW p, IsLp(p), CliInit(p)
  PROVE  LadderInv
<1>1. options \in [pre : BOOLEAN, scale : BOOLEAN] /\ lp = p /\ out = << >> /\ stage = "ladder"
      /\ attempt = 0 /\ covered = {}
  BY DEF CliInit, PresolveInit
<1>2. Len(cfgs) \in Nat \ {0}
  BY <1>1, LastIsRaw
<1>3. out \in Seq({}) /\ DOMAIN out = {}
  BY <1>1
<1> QED BY <1>1, <1>2, <1>3 DEF LadderInv, Busy, OneVerdict

Still == UNCHANGED <<lp, options, attempt, covered, can_retry, stop>>

(* A line that the model backs may be printed.                             *)
LEMMA AnswerKeeps ==
  ASSUME LadderInv, Busy, Still, NEW word, NEW proof, Answer(word, proof),
         Backed(lp, Line(word, proof)), word = "NUMERICAL_FAILURE" => ~can_retry
  PROVE  LadderInv'
<1>1. out' = Append(out, Line(word, proof)) /\ stage' = "exit"
  BY DEF Answer
<1>2. PICK S : out \in Seq(S)
  BY DEF LadderInv
<1>3. out' \in Seq(S \cup {Line(word, proof)})
  BY <1>1, <1>2
<1>4. \A k \in DOMAIN out' : Backed(lp', out'[k])
  <2> TAKE k \in DOMAIN out'
  <2>1. (k \in DOMAIN out /\ out'[k] = out[k]) \/ out'[k] = Line(word, proof)
    BY <1>1, <1>2
  <2> QED BY <2>1 DEF LadderInv, Still
<1>5. cfgs' = cfgs
  BY DEF cfgs, Still
<1>6. ASSUME ~stop /\ options.scale
      PROVE  Len(out') = 1 /\ (out'[1].word = "NUMERICAL_FAILURE" => Raw \in covered)
  <2>1. out = << >>
    BY <1>6 DEF LadderInv, Busy
  <2>2. Len(out') = 1 /\ out'[1].word = word
    BY <1>1, <2>1 DEF Line
  <2>3. ASSUME word = "NUMERICAL_FAILURE" PROVE Raw \in covered
    <3>1. attempt = Len(cfgs) /\ attempt \in 1 .. Len(cfgs)
      BY <1>6, <2>3, LastIsRaw DEF LadderInv, Busy
    <3>2. Current = Raw
      BY <1>6, <3>1, LastIsRaw DEF LadderInv, Current
    <3> QED BY <3>2 DEF LadderInv
  <2> QED BY <2>2, <2>3
<1>7. ~stop' /\ options'.scale =>
        /\ attempt' < Len(cfgs') => Raw \notin covered'
        /\ OneVerdict'
  BY <1>5, <1>6 DEF LadderInv, OneVerdict, Still, Raw
<1> QED BY <1>1, <1>3, <1>4, <1>5, <1>7 DEF LadderInv, Still, Busy

(* A step down the ladder forgets the attempt, never a line.               *)
LEMMA DegradeKeeps ==
  ASSUME LadderInv, Busy, Still, Degrade, ~stop /\ options.scale => attempt < Len(cfgs)
  PROVE  LadderInv'
<1>1. cfgs' = cfgs
  BY DEF cfgs, Still
<1>2. out' = out /\ stage' = "ladder" /\ stage # "exit"
  BY DEF Degrade, Busy
<1> QED BY <1>1, <1>2 DEF LadderInv, Still, Busy, OneVerdict

(* A failed attempt is either retried or owned up to.                      *)
LEMMA FailureKeeps ==
  ASSUME LadderInv, Busy, Still, Failure
  PROVE  LadderInv'
<1>1. CASE can_retry
  BY <1>1, DegradeKeeps DEF Failure, LadderInv
<1>2. CASE ~can_retry
  <2>1. Answer("NUMERICAL_FAILURE", << >>)
    BY <1>2 DEF Failure
  <2>2. Backed(lp, Line("NUMERICAL_FAILURE", << >>))
    BY DEF Backed, Line
  <2> QED BY <1>2, <2>1, <2>2, AnswerKeeps
<1> QED BY <1>1, <1>2

(* The next attempt starts from the program as read.                       *)
LEMMA NextAttemptKeeps == LadderInv /\ NextAttempt => LadderInv'
<1> SUFFICES ASSUME LadderInv, NextAttempt PROVE LadderInv'
  OBVIOUS
<1> DEFINE c == cfgs[attempt + 1]
<1>1. /\ stage = "ladder" /\ attempt < Len(cfgs) /\ attempt' = attempt + 1
      /\ lp' = lp /\ options' = options /\ stop' = stop /\ out' = out
  BY DEF NextAttempt, pvars
<1>2. cfgs' = cfgs /\ Len(cfgs) \in Nat \ {0} /\ attempt \in Nat
  BY <1>1, LastIsRaw DEF cfgs, LadderInv
<1>3. Current' = c
  BY <1>1, <1>2 DEF Current
<1>4. attempt + 1 \in 1 .. Len(cfgs)
  BY <1>1, <1>2
<1>5. CASE c \in covered
  <2>1. UNCHANGED <<covered, can_retry, stage>>
    BY <1>5 DEF NextAttempt
  <2>2. ASSUME ~stop /\ options.scale PROVE attempt + 1 < Len(cfgs)
    <3>1. Raw \notin covered
      BY <1>1, <2>2 DEF LadderInv
    <3>2. c # Raw
      BY <1>5, <3>1
    <3> QED BY <1>2, <1>4, <2>2, <3>2, LastIsRaw DEF LadderInv
  <2> QED BY <1>1, <1>2, <1>4, <2>1, <2>2 DEF LadderInv, Busy, OneVerdict
<1>6. CASE c \notin covered
  <2>1. /\ covered' = covered \cup {c}
        /\ can_retry' = /\ \E q \in attempt + 2 .. Len(cfgs) : cfgs[q] \notin covered \cup {c}
                        /\ ~stop
        /\ stage' = IF c.pre THEN "presolve" ELSE "engine"
    BY <1>6 DEF NextAttempt
  <2>2. ASSUME ~stop /\ options.scale
        PROVE  /\ attempt + 1 < Len(cfgs) => Raw \notin covered'
               /\ can_retry' <=> attempt + 1 < Len(cfgs)
    <3>1. attempt + 1 < Len(cfgs) => Raw \notin covered'
      <4>1. Raw \notin covered
        BY <1>1, <2>2 DEF LadderInv
      <4>2. attempt + 1 < Len(cfgs) => c # Raw
        BY <1>2, <1>4, <2>2, LastIsRaw DEF LadderInv
      <4> QED BY <2>1, <4>1, <4>2
    <3>2. ASSUME attempt + 1 < Len(cfgs) PROVE can_retry'
      <4>1. Len(cfgs) \in attempt + 2 .. Len(cfgs) /\ cfgs[Len(cfgs)] = Raw
        BY <1>2, <2>2, <3>2, LastIsRaw DEF LadderInv
      <4> QED BY <2>1, <2>2, <3>1, <3>2, <4>1
    <3>3. ASSUME ~(attempt + 1 < Len(cfgs)) PROVE ~can_retry'
      <4>1. attempt + 2 .. Len(cfgs) = {}
        BY <1>2, <3>3
      <4> QED BY <2>1, <4>1
    <3> QED BY <3>1, <3>2, <3>3, <2>1
  <2>3. stage' \in {"presolve", "engine"} /\ (stage' = "presolve" => c.pre)
    BY <2>1
  <2> QED BY <1>1, <1>2, <1>3, <1>4, <2>1, <2>2, <2>3 DEF LadderInv, Busy, OneVerdict
<1> QED BY <1>5, <1>6

(* What presolve decides by itself is backed by the model.                 *)
LEMMA AfterPresolveKeeps == LadderInv /\ AfterPresolve => LadderInv'
<1> SUFFICES ASSUME LadderInv, AfterPresolve PROVE LadderInv'
  OBVIOUS
<1>1. /\ stage = "presolve" /\ Busy
      /\ lp' = lp /\ options' = options /\ attempt' = attempt /\ can_retry' = can_retry /\ stop' = stop
  BY DEF AfterPresolve, pvars, Busy
<1>2. cfgs' = cfgs /\ Current' = Current /\ Len(cfgs) \in Nat \ {0}
  BY <1>1, LastIsRaw DEF cfgs, Current, LadderInv
<1>3. attempt \in 1 .. Len(cfgs) /\ Current.pre
  BY <1>1, <1>2 DEF LadderInv
<1>4. ~stop /\ options.scale => attempt < Len(cfgs) /\ Current.scale
  BY <1>2, <1>3, LastIsRaw DEF LadderInv, Current
<1>5. CASE rc = "infeasible"
  <2>1. Still
    BY <1>1, <1>5 DEF AfterPresolve, Still
  <2>2. CASE check_lp_infeasible(lp, ray)
    <3>1. Answer("INFEASIBLE", ray)
      BY <1>5, <2>2 DEF AfterPresolve
    <3>2. Backed(lp, Line("INFEASIBLE", ray))
      BY <2>2 DEF Backed, Line
    <3> QED BY <1>1, <2>1, <3>1, <3>2, AnswerKeeps
  <2>3. CASE ~check_lp_infeasible(lp, ray)
    <3>1. Degrade
      BY <1>5, <2>3 DEF AfterPresolve
    <3> QED BY <1>1, <1>4, <2>1, <3>1, DegradeKeeps
  <2> QED BY <2>2, <2>3
<1>6. CASE rc # "infeasible"
  <2>1. /\ covered' = IF rc = "declined" THEN covered \cup {Config(FALSE, Current.scale)} ELSE covered
        /\ stage' \in {"empty", "engine"} /\ out' = out
    BY <1>6 DEF AfterPresolve
  <2>2. ~stop /\ options.scale => Config(FALSE, Current.scale) # Raw
    BY <1>4 DEF Config, Raw
  <2>3. ASSUME ~stop /\ options.scale PROVE Raw \notin covered'
    BY <1>4, <2>1, <2>2, <2>3 DEF LadderInv
  <2>4. Current \in covered'
    BY <1>1, <2>1 DEF LadderInv, Busy
  <2> QED BY <1>1, <1>2, <1>3, <2>1, <2>3, <2>4 DEF LadderInv, Busy, OneVerdict
<1> QED BY <1>5, <1>6

(* A program that presolve solved completely.                              *)
LEMMA FullyPresolvedKeeps == LadderInv /\ FullyPresolved => LadderInv'
<1> SUFFICES ASSUME LadderInv, FullyPresolved PROVE LadderInv'
  OBVIOUS
<1> DEFINE x == postsolve_x(<< >>)
           d == postsolve_duals([i \in w.rows |-> 0], x)
<1>1. /\ stage = "empty" /\ Busy /\ Still
      /\ \/ check_lp_optimal(lp, x, d.y) /\ Answer("OPTIMAL", x)
         \/ check_lp_unbounded(lp, x, Drift) /\ Answer("UNBOUNDED", Escape(x, Drift))
         \/ /\ out' = IF can_retry THEN out ELSE Append(out, Line("NUMERICAL_FAILURE", << >>))
            /\ stage' = "ladder"
  BY DEF FullyPresolved, Busy, Still, pvars, ladder_vars
<1> HIDE DEF x, d
<1>2. CASE check_lp_optimal(lp, x, d.y) /\ Answer("OPTIMAL", x)
  <2>1. Backed(lp, Line("OPTIMAL", x))
    BY <1>2 DEF Backed, Line
  <2> QED BY <1>1, <1>2, <2>1, AnswerKeeps
<1>3. CASE check_lp_unbounded(lp, x, Drift) /\ Answer("UNBOUNDED", Escape(x, Drift))
  <2>1. Backed(lp, Line("UNBOUNDED", Escape(x, Drift)))
    BY <1>3 DEF Backed, Line, Escape
  <2> QED BY <1>1, <1>3, <2>1, AnswerKeeps
<1>4. CASE /\ out' = IF can_retry THEN out ELSE Append(out, Line("NUMERICAL_FAILURE", << >>))
           /\ stage' = "ladder"
  <2>1. ~stop /\ options.scale => attempt < Len(cfgs) /\ can_retry
    <3>1. Len(cfgs) \in Nat \ {0} /\ attempt \in 1 .. Len(cfgs) /\ Current.pre
      BY <1>1, LastIsRaw DEF LadderInv
    <3>2. ~stop /\ options.scale => attempt < Len(cfgs)
      BY <3>1, LastIsRaw DEF LadderInv, Current
    <3> QED BY <1>1, <3>2 DEF LadderInv
  <2>2. cfgs' = cfgs
    BY <1>1 DEF cfgs, Still
  <2>3. (\E S : out' \in Seq(S)) /\ \A k \in DOMAIN out' : Backed(lp, out'[k])
    <3> DEFINE line == Line("NUMERICAL_FAILURE", << >>)
    <3>1. PICK S : out \in Seq(S)
      BY DEF LadderInv
    <3>2. Backed(lp, line) /\ \A k \in DOMAIN out : Backed(lp, out[k])
      BY DEF Backed, Line, LadderInv
    <3> HIDE DEF line
    <3>3. out' = out \/ out' = Append(out, line)
      BY <1>4 DEF line
    <3>4. out' \in Seq(S \cup {line})
      BY <3>1, <3>3
    <3>5. \A k \in DOMAIN out' : (k \in DOMAIN out /\ out'[k] = out[k]) \/ out'[k] = line
      BY <3>1, <3>3
    <3> QED BY <3>2, <3>4, <3>5
  <2> QED BY <1>1, <1>4, <2>1, <2>2, <2>3 DEF LadderInv, Still, Busy, OneVerdict
<1> QED BY <1>1, <1>2, <1>3, <1>4

(* Each way in which the engine ends an attempt.                           *)
LEMMA EngineKeeps ==
  LadderInv /\ (\/ EngineRefuses \/ EngineOptimal \/ EngineUnbounded \/ EngineInfeasible
                \/ EngineUnconfirmed \/ EngineStops) => LadderInv'
<1> SUFFICES ASSUME LadderInv,
                    \/ EngineRefuses \/ EngineOptimal \/ EngineUnbounded \/ EngineInfeasible
                    \/ EngineUnconfirmed \/ EngineStops
             PROVE  LadderInv'
  OBVIOUS
<1>1. stage = "engine" /\ Busy /\ Still
  BY DEF EngineRefuses, EngineOptimal, EngineUnbounded, EngineInfeasible, EngineUnconfirmed,
         EngineStops, Solves, Busy, Still, pvars, ladder_vars
<1>2. CASE EngineRefuses
  <2>1. ~WellFormed(Model) /\ stage' = "exit" /\ UNCHANGED <<pvars, ladder_vars, stop, out>>
    BY <1>2 DEF EngineRefuses
  <2>2. cfgs' = cfgs /\ Model' = Model
    BY <2>1 DEF cfgs, Model, Presolved, Current, Reduced, ladder_vars, pvars
  <2>3. ~OneVerdict' => FALSE
    BY <2>1, <2>2 DEF OneVerdict, WellFormed
  <2> QED BY <1>1, <2>1, <2>2, <2>3 DEF LadderInv, Busy, Still
<1>3. CASE EngineOptimal
  <2>1. PICK x \in Points(Model), y \in Duals(Model) :
          \/ check_lp_optimal(lp, Restored(x), RestoredDuals(y, x)) /\ Answer("OPTIMAL", Restored(x))
          \/ check_lp_unbounded(lp, Restored(x), Drift)
               /\ Answer("UNBOUNDED", Escape(Restored(x), Drift))
          \/ Failure
    BY <1>3 DEF EngineOptimal
  <2>2. CASE check_lp_optimal(lp, Restored(x), RestoredDuals(y, x)) /\ Answer("OPTIMAL", Restored(x))
    <3>1. Backed(lp, Line("OPTIMAL", Restored(x)))
      BY <2>2 DEF Backed, Line
    <3> QED BY <1>1, <2>2, <3>1, AnswerKeeps
  <2>3. CASE check_lp_unbounded(lp, Restored(x), Drift)
               /\ Answer("UNBOUNDED", Escape(Restored(x), Drift))
    <3>1. Backed(lp, Line("UNBOUNDED", Escape(Restored(x), Drift)))
      BY <2>3 DEF Backed, Line, Escape
    <3> QED BY <1>1, <2>3, <3>1, AnswerKeeps
  <2>4. CASE Failure
    BY <1>1, <2>4, FailureKeeps
  <2> QED BY <2>1, <2>2, <2>3, <2>4
<1>4. CASE EngineUnbounded
  <2>1. PICK x \in Points(Model), d \in Directions(Model) :
          LET back == IF Presolved THEN postsolve_ray(d) ELSE d
          IN  IF check_lp_unbounded(lp, Restored(x), back)
              THEN Answer("UNBOUNDED", Escape(Restored(x), back)) ELSE Failure
    BY <1>4 DEF EngineUnbounded
  <2> DEFINE back == IF Presolved THEN postsolve_ray(d) ELSE d
  <2>2. CASE check_lp_unbounded(lp, Restored(x), back)
    <3>1. Backed(lp, Line("UNBOUNDED", Escape(Restored(x), back)))
      BY <2>2 DEF Backed, Line, Escape
    <3>2. Answer("UNBOUNDED", Escape(Restored(x), back))
      BY <2>1, <2>2
    <3> QED BY <1>1, <3>1, <3>2, AnswerKeeps
  <2>3. CASE ~check_lp_unbounded(lp, Restored(x), back)
    BY <1>1, <2>1, <2>3, FailureKeeps
  <2> QED BY <2>2, <2>3
<1>5. CASE EngineInfeasible
  <2>1. CASE Presolved
    <3>1. Degrade
      BY <1>5, <2>1 DEF EngineInfeasible
    <3>2. ~stop /\ options.scale => attempt < Len(cfgs)
      <4>1. Len(cfgs) \in Nat \ {0} /\ attempt \in 1 .. Len(cfgs) /\ Current.pre
        BY <1>1, <2>1, LastIsRaw DEF LadderInv, Presolved
      <4> QED BY <4>1, LastIsRaw DEF LadderInv, Current
    <3> QED BY <1>1, <3>1, <3>2, DegradeKeeps
  <2>2. CASE ~Presolved
    <3>1. \/ \E y : check_lp_infeasible(lp, y) /\ Answer("INFEASIBLE", y)
          \/ Answer("INFEASIBLE", << >>)
          \/ Failure
      BY <1>5, <2>2 DEF EngineInfeasible
    <3>2. ASSUME NEW y, check_lp_infeasible(lp, y), Answer("INFEASIBLE", y)
          PROVE  LadderInv'
      <4>1. Backed(lp, Line("INFEASIBLE", y))
        BY <3>2 DEF Backed, Line
      <4> QED BY <1>1, <3>2, <4>1, AnswerKeeps
    <3>3. CASE Answer("INFEASIBLE", << >>)
      <4>1. Backed(lp, Line("INFEASIBLE", << >>))
        BY DEF Backed, Line
      <4> QED BY <1>1, <3>3, <4>1, AnswerKeeps
    <3> QED BY <1>1, <3>1, <3>2, <3>3, FailureKeeps
  <2> QED BY <2>1, <2>2
<1>6. CASE EngineUnconfirmed
  BY <1>1, <1>6, FailureKeeps DEF EngineUnconfirmed
<1>7. CASE EngineStops
  <2>1. PICK word \in {"ITERATION_LIMIT", "INVALID_MODEL", "STOPPED"} : Answer(word, << >>)
    BY <1>7 DEF EngineStops
  <2>2. Backed(lp, Line(word, << >>))
    BY <2>1 DEF Backed, Line
  <2> QED BY <1>1, <2>1, <2>2, AnswerKeeps
<1> QED BY <1>2, <1>3, <1>4, <1>5, <1>6, <1>7

(* Every step of the command line keeps the invariant.                     *)
LEMMA LadderSteps == LadderInv /\ [CliStep \/ Exited]_cvars => LadderInv'
<1> SUFFICES ASSUME LadderInv, [CliStep \/ Exited]_cvars PROVE LadderInv'
  OBVIOUS
<1>1. CASE NextAttempt
  BY <1>1, NextAttemptKeeps
<1>2. CASE LeaveLadder
  <2>1. /\ stage = "ladder" /\ attempt = Len(cfgs) /\ stage' = "exit"
        /\ UNCHANGED <<lp, options, attempt, covered, can_retry, stop, out>>
    BY <1>2 DEF LeaveLadder, pvars, ladder_vars
  <2>2. cfgs' = cfgs /\ Len(cfgs) \in Nat
    BY <2>1, LastIsRaw DEF cfgs, LadderInv
  <2>3. ~(~stop /\ options.scale)
    BY <2>1, <2>2 DEF LadderInv
  <2> QED BY <2>1, <2>2, <2>3 DEF LadderInv, Busy
<1>3. CASE RunPresolve
  <2>1. stage = "presolve" /\ lp' = lp /\ UNCHANGED <<options, attempt, covered, can_retry, stop, stage, out>>
    BY <1>3, PresolveKeepsLp DEF RunPresolve, ladder_vars
  <2>2. cfgs' = cfgs /\ Current' = Current
    BY <2>1 DEF cfgs, Current
  <2> QED BY <2>1, <2>2 DEF LadderInv, Busy, OneVerdict
<1>4. CASE AfterPresolve
  BY <1>4, AfterPresolveKeeps
<1>5. CASE FullyPresolved
  BY <1>5, FullyPresolvedKeeps
<1>6. CASE \/ EngineRefuses \/ EngineOptimal \/ EngineUnbounded \/ EngineInfeasible
           \/ EngineUnconfirmed \/ EngineStops
  BY <1>6, EngineKeeps
<1>7. CASE StopArrives
  <2>1. stop' = TRUE /\ UNCHANGED <<lp, options, attempt, covered, can_retry, stage, out>>
    BY <1>7 DEF StopArrives, pvars, ladder_vars
  <2>2. cfgs' = cfgs /\ Current' = Current
    BY <2>1 DEF cfgs, Current
  <2> QED BY <2>1, <2>2 DEF LadderInv, Busy
<1>8. CASE UNCHANGED cvars
  <2>1. UNCHANGED <<lp, w, rc, options, attempt, covered, can_retry, stop, stage, out>>
    BY <1>8 DEF cvars, pvars
  <2>2. cfgs' = cfgs /\ Current' = Current /\ Model' = Model
    BY <2>1 DEF cfgs, Current, Model, Presolved, Reduced
  <2> QED BY <2>1, <2>2 DEF LadderInv, Busy, OneVerdict, WellFormed
<1> QED BY <1>1, <1>2, <1>3, <1>4, <1>5, <1>6, <1>7, <1>8 DEF CliStep, Exited

(* A verdict with evidence is true of the LP that was read: weak duality,  *)
(* Farkas and the ray say so of any evidence that the checks accept.       *)
LEMMA BackedIsReal ==
  ASSUME LadderInv, NEW k \in DOMAIN out
  PROVE  LET word == out[k].word
             proof == out[k].proof
         IN  /\ word = "OPTIMAL" =>
                  /\ lp_primal_ok(lp, proof)
                  /\ \A z \in Feasible : Sense(lp) * Objective(lp, z) <= Sense(lp) * Objective(lp, proof)
             /\ word = "INFEASIBLE" /\ proof # << >> => Feasible = {}
             /\ word = "UNBOUNDED" =>
                  LET far == [j \in lp.cols |-> proof.x[j] + 100 * proof.d[j]]
                  IN  lp_primal_ok(lp, far)
                      /\ Sense(lp) * Objective(lp, far) > Sense(lp) * Objective(lp, proof.x)
<1> DEFINE word == out[k].word
           proof == out[k].proof
           far == [j \in lp.cols |-> proof.x[j] + 100 * proof.d[j]]
<1>1. IsLp(lp) /\ Backed(lp, out[k])
  BY DEF LadderInv
<1>2. ASSUME word = "OPTIMAL"
      PROVE  /\ lp_primal_ok(lp, proof)
             /\ \A z \in Feasible : Sense(lp) * Objective(lp, z) <= Sense(lp) * Objective(lp, proof)
  <2>1. PICK y : check_lp_optimal(lp, proof, y)
    BY <1>1, <1>2 DEF Backed
  <2>2. lp_primal_ok(lp, proof)
    BY <2>1 DEF check_lp_optimal
  <2>3. ASSUME NEW z \in Feasible
        PROVE  Sense(lp) * Objective(lp, z) <= Sense(lp) * Objective(lp, proof)
    <3>1. lp_primal_ok(lp, z)
      BY DEF Feasible
    <3> HIDE DEF proof
    <3> QED BY <1>1, <2>1, <3>1, AcceptedOptimumIsOptimal
  <2> QED BY <2>2, <2>3
<1>3. ASSUME word = "INFEASIBLE", proof # << >>
      PROVE  Feasible = {}
  <2>1. check_lp_infeasible(lp, proof)
    BY <1>1, <1>3 DEF Backed
  <2> HIDE DEF proof
  <2> QED BY <1>1, <2>1, AcceptedRayIsProof DEF Feasible
<1>4. ASSUME word = "UNBOUNDED"
      PROVE  lp_primal_ok(lp, far)
             /\ Sense(lp) * Objective(lp, far) > Sense(lp) * Objective(lp, proof.x)
  <2>1. check_lp_unbounded(lp, proof.x, proof.d)
    BY <1>1, <1>4 DEF Backed
  <2>2. \A j \in lp.cols : far[j] = proof.x[j] + 100 * proof.d[j]
    OBVIOUS
  <2> HIDE DEF proof, far
  <2>3. /\ lp_primal_ok(lp, far)
        /\ Sense(lp) * Objective(lp, far) >= Sense(lp) * Objective(lp, proof.x) + 100
    BY <1>1, <2>1, <2>2, AcceptedRayEscapes
  <2>4. Sense(lp) * Objective(lp, proof.x) \in Int /\ Sense(lp) * Objective(lp, far) \in Int
    <3> DEFINE y == [i \in lp.rows |-> 0]
    <3>1. Finite(lp.rows, y) /\ Finite(lp.cols, far) /\ Finite(lp.cols, proof.x)
      BY <2>1, <2>3 DEF Finite, lp_primal_ok, check_lp_unbounded
    <3> HIDE DEF y
    <3>2. Objective(lp, proof.x) \in Int /\ Objective(lp, far) \in Int
      BY <1>1, <3>1, SumsAreIntegers
    <3> QED BY <3>2 DEF Sense
  <2> QED BY <2>3, <2>4
<1> QED BY <1>2, <1>3, <1>4

(* main.c: whatever presolve, the engine and the ladder of attempts do, for*)
(* any program p: one verdict at most is printed, OPTIMAL only with an     *)
(* optimal point, an INFEASIBLE that carries a proof only of a program     *)
(* without points, and UNBOUNDED only with a way out.                      *)
THEOREM PrintedAnswersAreReal ==
  ASSUME NEW CONSTANT p, IsLp(p)
  PROVE  CliInit(p) /\ [][CliStep \/ Exited]_cvars => []PrintedIsReal
<1>1. CliInit(p) => LadderInv
  BY LadderStarts
<1>2. LadderInv => PrintedIsReal
  <2> SUFFICES ASSUME LadderInv PROVE PrintedIsReal
    OBVIOUS
  <2>1. OneVerdict
    BY DEF LadderInv, OneVerdict
  <2> QED BY <2>1, BackedIsReal DEF PrintedIsReal
<1> QED BY <1>1, <1>2, LadderSteps, PTL

----------------------------------------------------------------------------
(* Presolve loses no point.                                                *)

(* The data of a program as tables, and the images of presolve.            *)
Column(p) == UNION {[R -> Int] : R \in SUBSET p.rows}
Tables(p) ==
  /\ p.cols \subseteq Int
  /\ p.c \in [p.cols -> Int] /\ p.l \in [p.cols -> Int] /\ p.u \in [p.cols -> Int]
  /\ p.b \in [p.rows -> Int] /\ p.A \in [p.cols -> Column(p)]

Image ==
  [c : [lp.cols -> Int], lo : [lp.cols -> Int], hi : [lp.cols -> Int], b : [lp.rows -> Int],
   A : [lp.cols -> Column(lp)],
   lo_src : [lp.cols -> lp.rows \cup {0}], hi_src : [lp.cols -> lp.rows \cup {0}],
   cols : SUBSET lp.cols, rows : SUBSET lp.rows, touched : SUBSET lp.rows,
   objconst : Int, nnz : Int]

(* A row and the cost of an image as sums over the columns of the program; *)
(* a column that has left adds zero.                                       *)
RowPart(v, i, x) ==
  [j \in lp.cols |-> IF j \in v.cols /\ i \in DOMAIN v.A[j] THEN v.A[j][i] * x[j] ELSE 0]
RowSum(v, i, x) == Total(RowPart(v, i, x), lp.cols)
CostPart(v, x) == [j \in lp.cols |-> IF j \in v.cols THEN v.c[j] * x[j] ELSE 0]
CostSum(v, x) == Total(CostPart(v, x), lp.cols)

(* A point of the image: in its box and on its rows.                       *)
Within(v, x) == \A j \in v.cols : v.lo[j] <= x[j] /\ x[j] <= v.hi[j]
OnRows(v, x) == \A i \in v.rows : Meets(lp.rel[i], RowSum(v, i, x), v.b[i] * U)

(* A sum with one term that is not zero is that term.                      *)
LEMMA TotalOfOne ==
  ASSUME NEW f, NEW S, IsFiniteSet(S), NEW j \in S, f[j] \in Int, \A k \in S \ {j} : f[k] = 0
  PROVE  Total(f, S) = f[j]
<1>1. \A k \in S : f[k] \in Int
  OBVIOUS
<1>2. Total(f, S) = f[j] + Total(f, S \ {j})
  BY <1>1, TotalTakesOut
<1>3. IsFiniteSet(S \ {j})
  BY FS_Subset
<1>4. Total(f, S \ {j}) = 0
  BY <1>3, TotalOfZeros
<1> QED BY <1>2, <1>4

(* Two terms can be taken out of a sum.                                    *)
LEMMA TotalOfTwo ==
  ASSUME NEW f, NEW S, IsFiniteSet(S), NEW j \in S, NEW k \in S, j # k, \A q \in S : f[q] \in Int
  PROVE  /\ Total(f, S) = f[j] + f[k] + Total(f, S \ {j, k})
         /\ Total(f, S \ {j, k}) \in Int
<1>1. Total(f, S) = f[j] + Total(f, S \ {j})
  BY TotalTakesOut
<1>2. IsFiniteSet(S \ {j}) /\ k \in S \ {j} /\ IsFiniteSet(S \ {j, k}) /\ (S \ {j}) \ {k} = S \ {j, k}
  <2>1. (S \ {j}) \ {k} = S \ {j, k}
    OBVIOUS
  <2> QED BY <2>1, FS_Subset
<1>3. Total(f, S \ {j}) = f[k] + Total(f, S \ {j, k})
  BY <1>2, TotalTakesOut
<1>4. Total(f, S \ {j, k}) \in Int
  BY <1>2, TotalInt
<1> QED BY <1>1, <1>3, <1>4

(* A sum whose other terms are zero is the sum of two.                     *)
LEMMA TotalOfJustTwo ==
  ASSUME NEW f, NEW S, IsFiniteSet(S), NEW j \in S, NEW k \in S, j # k, \A q \in S : f[q] \in Int,
         \A q \in S \ {j, k} : f[q] = 0
  PROVE  Total(f, S) = f[j] + f[k]
<1>1. Total(f, S) = f[j] + f[k] + Total(f, S \ {j, k})
  BY TotalOfTwo
<1>2. IsFiniteSet(S \ {j, k})
  BY FS_Subset
<1>3. Total(f, S \ {j, k}) = 0
  BY <1>2, TotalOfZeros
<1> QED BY <1>1, <1>3

(* The entries and bounds of an image are numbers.                         *)
LEMMA EntriesAre ==
  ASSUME NEW v \in Image, NEW j \in lp.cols
  PROVE  /\ DOMAIN v.A[j] \subseteq lp.rows /\ \A i \in DOMAIN v.A[j] : v.A[j][i] \in Int
         /\ v.A[j] \in Column(lp)
         /\ v.lo[j] \in Int /\ v.hi[j] \in Int /\ v.c[j] \in Int
BY DEF Image, Column

(* So are the terms of its row sums and costs, and the sums.               *)
LEMMA PartsAre ==
  ASSUME NEW v \in Image, NEW x \in [lp.cols -> Int]
  PROVE  /\ \A j \in lp.cols : CostPart(v, x)[j] \in Int
         /\ \A i : \A j \in lp.cols : RowPart(v, i, x)[j] \in Int
         /\ IsFiniteSet(lp.cols) => CostSum(v, x) \in Int /\ \A i : RowSum(v, i, x) \in Int
<1>1. \A j \in lp.cols : CostPart(v, x)[j] \in Int
  BY EntriesAre DEF CostPart
<1>2. ASSUME NEW i, NEW j \in lp.cols PROVE RowPart(v, i, x)[j] \in Int
  BY EntriesAre DEF RowPart
<1>3. ASSUME IsFiniteSet(lp.cols) PROVE CostSum(v, x) \in Int /\ \A i : RowSum(v, i, x) \in Int
  BY <1>1, <1>2, <1>3, TotalInt DEF CostSum, RowSum
<1> QED BY <1>1, <1>2, <1>3

(* A row's value as the sum of one function over its entries.              *)
LEMMA RowValueIs ==
  ASSUME NEW v, NEW i, NEW x
  PROVE  RowValue(v, i, x) = Total([j \in Entries(v, i) |-> v.A[j][i] * x[j]], Entries(v, i))
BY DEF RowValue, Total, MapThenSumSet, MapThenFoldSet

(* The value of a row is its sum over all columns, as the proofs use it.   *)
LEMMA RowValueIsRowSum ==
  ASSUME IsFiniteSet(lp.cols), NEW v \in Image, NEW x \in [lp.cols -> Int], NEW i
  PROVE  RowValue(v, i, x) = RowSum(v, i, x)
<1> DEFINE E == Entries(v, i)
           e == [j \in E |-> v.A[j][i] * x[j]]
           f == RowPart(v, i, x)
<1>1. RowValue(v, i, x) = Total(e, E)
  BY RowValueIs
<1>2. E \in SUBSET lp.cols /\ IsFiniteSet(E)
  BY FS_Subset DEF Image, Entries
<1>3. \A j \in E : e[j] = f[j]
  BY <1>2 DEF RowPart, Entries
<1>4. \A j \in lp.cols \ E : f[j] = 0
  BY DEF RowPart, Entries
<1>5. \A j \in lp.cols : f[j] \in Int
  BY PartsAre
<1> HIDE DEF e, E, f
<1>6. Total(e, E) = Total(f, E)
  BY <1>2, <1>3, TotalAgrees
<1>7. Total(f, lp.cols) = Total(f, E)
  BY <1>2, <1>4, <1>5, TotalSkipsZeros
<1> QED BY <1>1, <1>6, <1>7 DEF RowSum, E, f

(* And the objective the sum of the costs.                                 *)
LEMMA ObjectiveIsCostSum ==
  ASSUME IsFiniteSet(lp.cols), NEW v \in Image, NEW x \in [lp.cols -> Int]
  PROVE  Objective(v, x) = CostSum(v, x)
<1> DEFINE E == v.cols
           e == [j \in E |-> v.c[j] * x[j]]
           f == CostPart(v, x)
<1>1. Objective(v, x) = Total(e, E)
  BY ObjectiveIsTotal
<1>2. E \in SUBSET lp.cols /\ IsFiniteSet(E)
  BY FS_Subset DEF Image
<1>3. \A j \in E : e[j] = f[j]
  BY <1>2 DEF CostPart
<1>4. \A j \in lp.cols \ E : f[j] = 0
  BY DEF CostPart
<1>5. \A j \in lp.cols : f[j] \in Int
  BY PartsAre
<1> HIDE DEF e, E, f
<1>6. Total(e, E) = Total(f, E)
  BY <1>2, <1>3, TotalAgrees
<1>7. Total(f, lp.cols) = Total(f, E)
  BY <1>2, <1>4, <1>5, TotalSkipsZeros
<1> QED BY <1>1, <1>6, <1>7 DEF CostSum, f

(* What NothingLost says of the image, in terms of these sums.             *)
LEMMA ImageIs ==
  ASSUME IsFiniteSet(lp.cols), w \in Image, NEW x \in [lp.cols -> Int]
  PROVE  /\ Within(w, x) /\ OnRows(w, x) => InImage(x)
         /\ ImageObjective(x) = CostSum(w, x)
<1>1. ASSUME NEW i
      PROVE  MapThenSumSet(LAMBDA j : w.A[j][i] * x[j], {j \in w.cols : i \in DOMAIN w.A[j]}) = RowSum(w, i, x)
  BY RowValueIsRowSum DEF RowValue, Entries
<1>2. ImageObjective(x) = CostSum(w, x)
  BY ObjectiveIsCostSum DEF ImageObjective, Objective
<1> QED BY <1>1, <1>2 DEF InImage, Within, OnRows

(* Two sums that agree but in one term differ as the terms do.             *)
LEMMA TotalsDifferAt ==
  ASSUME NEW f, NEW g, NEW S, IsFiniteSet(S), NEW j \in S,
         \A q \in S : f[q] \in Int /\ g[q] \in Int, \A q \in S \ {j} : f[q] = g[q]
  PROVE  Total(f, S) - f[j] = Total(g, S) - g[j]
<1>1. Total(f, S) = f[j] + Total(f, S \ {j}) /\ Total(g, S) = g[j] + Total(g, S \ {j})
  BY TotalTakesOut
<1>2. IsFiniteSet(S \ {j})
  BY FS_Subset
<1>3. Total(f, S \ {j}) = Total(g, S \ {j}) /\ Total(f, S \ {j}) \in Int
  BY <1>2, TotalAgrees, TotalInt
<1> QED BY <1>1, <1>3

(* Two sums that agree but in two terms differ as the terms do.            *)
LEMMA TotalsDifferAtTwo ==
  ASSUME NEW f, NEW g, NEW S, IsFiniteSet(S), NEW j \in S, NEW k \in S, j # k,
         \A q \in S : f[q] \in Int /\ g[q] \in Int, \A q \in S \ {j, k} : f[q] = g[q]
  PROVE  Total(f, S) - f[j] - f[k] = Total(g, S) - g[j] - g[k]
<1>1. Total(f, S) = f[j] + f[k] + Total(f, S \ {j, k}) /\ Total(f, S \ {j, k}) \in Int
  <2>1. \A q \in S : f[q] \in Int
    OBVIOUS
  <2> QED BY <2>1, TotalOfTwo
<1>2. Total(g, S) = g[j] + g[k] + Total(g, S \ {j, k})
  <2>1. \A q \in S : g[q] \in Int
    OBVIOUS
  <2> QED BY <2>1, TotalOfTwo
<1>3. IsFiniteSet(S \ {j, k})
  BY FS_Subset
<1>4. Total(f, S \ {j, k}) = Total(g, S \ {j, k})
  BY <1>3, TotalAgrees
<1> QED BY <1>1, <1>2, <1>4

(* The row sums and costs look at the columns and entries only.            *)
LEMMA SameEntries ==
  ASSUME NEW v, NEW u, NEW x, u.cols = v.cols, u.A = v.A, u.c = v.c
  PROVE  CostSum(u, x) = CostSum(v, x) /\ \A i : RowSum(u, i, x) = RowSum(v, i, x)
BY DEF CostSum, CostPart, RowSum, RowPart

(* A column that leaves the image takes its cost and its entries along.    *)
LEMMA ColumnOut ==
  ASSUME IsFiniteSet(lp.cols), NEW v \in Image, NEW u \in Image, NEW x \in [lp.cols -> Int],
         NEW j \in v.cols, u.cols = v.cols \ {j}, u.A = v.A, u.c = v.c
  PROVE  /\ CostSum(u, x) = CostSum(v, x) - v.c[j] * x[j]
         /\ \A i : RowSum(u, i, x) =
              RowSum(v, i, x) - (IF i \in DOMAIN v.A[j] THEN v.A[j][i] * x[j] ELSE 0)
<1>0. j \in lp.cols
  BY DEF Image
<1>1. CostSum(u, x) = CostSum(v, x) - v.c[j] * x[j]
  <2> DEFINE f == CostPart(u, x)
             g == CostPart(v, x)
  <2>1. /\ \A q \in lp.cols : f[q] \in Int /\ g[q] \in Int
        /\ \A q \in lp.cols \ {j} : f[q] = g[q]
        /\ f[j] = 0 /\ g[j] = v.c[j] * x[j]
    BY <1>0, PartsAre DEF CostPart
  <2> HIDE DEF f, g
  <2>2. Total(f, lp.cols) - f[j] = Total(g, lp.cols) - g[j]
    BY <1>0, <2>1, TotalsDifferAt
  <2>3. Total(f, lp.cols) \in Int /\ Total(g, lp.cols) \in Int /\ g[j] \in Int
    BY <1>0, <2>1, TotalInt
  <2>4. Total(f, lp.cols) = Total(g, lp.cols) - g[j]
    BY <2>1, <2>2, <2>3
  <2> QED BY <2>1, <2>4 DEF CostSum, f, g
<1>2. ASSUME NEW i
      PROVE  RowSum(u, i, x) = RowSum(v, i, x) - (IF i \in DOMAIN v.A[j] THEN v.A[j][i] * x[j] ELSE 0)
  <2> DEFINE f == RowPart(u, i, x)
             g == RowPart(v, i, x)
  <2>1. /\ \A q \in lp.cols : f[q] \in Int /\ g[q] \in Int
        /\ \A q \in lp.cols \ {j} : f[q] = g[q]
        /\ f[j] = 0 /\ g[j] = IF i \in DOMAIN v.A[j] THEN v.A[j][i] * x[j] ELSE 0
    BY <1>0, PartsAre DEF RowPart
  <2> HIDE DEF f, g
  <2>2. Total(f, lp.cols) - f[j] = Total(g, lp.cols) - g[j]
    BY <1>0, <2>1, TotalsDifferAt
  <2>3. Total(f, lp.cols) \in Int /\ Total(g, lp.cols) \in Int /\ g[j] \in Int
    BY <1>0, <2>1, TotalInt
  <2>4. Total(f, lp.cols) = Total(g, lp.cols) - g[j]
    BY <2>1, <2>2, <2>3
  <2> QED BY <2>1, <2>4 DEF RowSum, f, g
<1> QED BY <1>1, <1>2

(* A program with integer columns and data.                                *)
Program(p) == IsLp(p) /\ Tables(p)

(* pw_init makes an image of every program.                                *)
LEMMA InitImage == ASSUME NEW p, Program(p), lp = p PROVE pw_init(p) \in Image
BY DEF Program, Tables, Image, pw_init, Column

(* The count of entries, as a sum.                                         *)
LEMMA NnzIsTotal ==
  ASSUME NEW A, NEW C
  PROVE  Nnz(A, C) = Total([j \in C |-> Cardinality(DOMAIN A[j])], C)
BY DEF Nnz, Total, MapThenSumSet, MapThenFoldSet

(* The count of entries is a number.                                       *)
LEMMA NnzInt == ASSUME IsFiniteSet(lp.cols), IsFiniteSet(lp.rows), NEW A \in [lp.cols -> Column(lp)], NEW C \in SUBSET lp.cols
                PROVE Nnz(A, C) \in Int
<1> DEFINE f == [j \in C |-> Cardinality(DOMAIN A[j])]
<1>1. IsFiniteSet(C)
  BY FS_Subset
<1>2. \A j \in C : f[j] \in Int
  <2> TAKE j \in C
  <2>1. DOMAIN A[j] \subseteq lp.rows
    BY DEF Column
  <2> QED BY <2>1, FS_Subset, FS_CardinalityType
<1>3. Nnz(A, C) = Total(f, C)
  BY NnzIsTotal
<1> HIDE DEF f
<1> QED BY <1>1, <1>2, <1>3, TotalInt

(* pw_rebuild drops zeros and dead rows; the sums over live ones stay.     *)
LEMMA RebuildKeeps ==
  ASSUME IsFiniteSet(lp.cols), IsFiniteSet(lp.rows), NEW v \in Image
  PROVE  LET u == pw_rebuild(v)
         IN  /\ u \in Image
             /\ u.cols = v.cols /\ u.rows = v.rows /\ u.lo = v.lo /\ u.hi = v.hi /\ u.b = v.b
             /\ u.c = v.c /\ u.objconst = v.objconst
             /\ \A j \in u.cols : \A i \in DOMAIN u.A[j] : u.A[j][i] # 0
             /\ \A x \in [lp.cols -> Int] :
                  /\ CostSum(u, x) = CostSum(v, x)
                  /\ \A i \in v.rows : RowSum(u, i, x) = RowSum(v, i, x)
<1> DEFINE A == [j \in lp.cols |->
                   [i \in {r \in DOMAIN v.A[j] \cap v.rows : j \in v.cols /\ v.A[j][r] # 0} |-> v.A[j][i]]]
           u == pw_rebuild(v)
<1>1. A \in [lp.cols -> Column(lp)]
  <2> SUFFICES ASSUME NEW j \in lp.cols PROVE A[j] \in Column(lp)
    OBVIOUS
  <2> DEFINE R == {r \in DOMAIN v.A[j] \cap v.rows : j \in v.cols /\ v.A[j][r] # 0}
  <2>1. R \in SUBSET lp.rows /\ \A r \in R : v.A[j][r] \in Int
    BY EntriesAre
  <2>2. A[j] = [i \in R |-> v.A[j][i]]
    OBVIOUS
  <2> HIDE DEF A, R
  <2>3. A[j] \in [R -> Int]
    BY <2>1, <2>2
  <2> QED BY <2>1, <2>3 DEF Column
<1>2. Nnz(A, v.cols) \in Int
  <2>1. v.cols \in SUBSET lp.cols
    BY DEF Image
  <2> HIDE DEF A
  <2> QED BY <1>1, <2>1, NnzInt
<1>3. u = [v EXCEPT !.A = A, !.nnz = Nnz(A, v.cols)]
  BY DEF pw_rebuild
<1> HIDE DEF u
<1>4. /\ u.cols = v.cols /\ u.rows = v.rows /\ u.lo = v.lo /\ u.hi = v.hi /\ u.b = v.b
      /\ u.c = v.c /\ u.objconst = v.objconst /\ u.A = A
  BY <1>3 DEF Image
<1>5. u \in Image
  <2> HIDE DEF A
  <2> QED BY <1>1, <1>2, <1>3 DEF Image
<1>6. \A j \in u.cols : \A i \in DOMAIN u.A[j] : u.A[j][i] # 0
  BY <1>4 DEF Image
<1>7. ASSUME NEW x \in [lp.cols -> Int]
      PROVE  CostSum(u, x) = CostSum(v, x) /\ \A i \in v.rows : RowSum(u, i, x) = RowSum(v, i, x)
  <2>1. CostSum(u, x) = CostSum(v, x)
    BY <1>4 DEF CostSum, CostPart
  <2>2. ASSUME NEW i \in v.rows
        PROVE  RowSum(u, i, x) = RowSum(v, i, x)
    <3>1. ASSUME NEW j \in lp.cols
          PROVE  RowPart(u, i, x)[j] = RowPart(v, i, x)[j]
      <4>1. u.A[j] = A[j] /\ x[j] \in Int
        BY <1>4
      <4>2. CASE j \in v.cols /\ i \in DOMAIN v.A[j] /\ v.A[j][i] = 0
        BY <1>4, <4>1, <4>2 DEF RowPart
      <4>3. CASE j \in v.cols /\ i \in DOMAIN v.A[j] /\ v.A[j][i] # 0
        BY <1>4, <4>1, <4>3 DEF RowPart
      <4>4. CASE ~(j \in v.cols /\ i \in DOMAIN v.A[j])
        BY <1>4, <4>1, <4>4 DEF RowPart
      <4> QED BY <4>2, <4>3, <4>4
    <3>2. RowPart(u, i, x) = RowPart(v, i, x)
      BY <3>1 DEF RowPart
    <3> QED BY <3>2 DEF RowSum
  <2> QED BY <2>1, <2>2
<1> QED BY <1>4, <1>5, <1>6, <1>7 DEF u

(* A positive factor can be cancelled on both sides of an inequality.      *)
LEMMA TimesMonotone ==
  ASSUME NEW q \in Int, q > 0, NEW a \in Int, NEW b \in Int
  PROVE  q * a <= q * b => a <= b
<1>1. ASSUME ~(a <= b) PROVE q * a > q * b
  <2>1. PICK d \in Nat \ {0} : a = b + d
    <3>1. a - b \in Nat \ {0} /\ a = b + (a - b)
      BY <1>1
    <3> QED BY <3>1
  <2>2. q * a = q * b + q * d /\ q * d \in Nat \ {0} /\ q * b \in Int
    BY <2>1
  <2> QED BY <2>2
<1> QED BY <1>1

(* Integer division rounds down, and past no integer quotient.             *)
LEMMA DivisionRounds ==
  ASSUME NEW p \in Int, NEW q \in Int, q > 0, NEW x \in Int
  PROVE  /\ p \div q \in Int /\ q * (p \div q) <= p
         /\ p <= q * x => p \div q <= x
<1> DEFINE f == p \div q
           r == p % q
<1>1. f \in Int /\ r \in Int /\ p = q * f + r /\ 0 <= r /\ r < q
  OBVIOUS
<1> HIDE DEF f, r
<1>2. q * f \in Int /\ q * x \in Int /\ q * f <= p
  BY <1>1
<1>3. p <= q * x => f <= x
  BY <1>1, <1>2, TimesMonotone
<1> QED BY <1>1, <1>2, <1>3 DEF f

(* Floor is at most any number that the quotient allows.                   *)
LEMMA FloorIs ==
  ASSUME NEW p \in Int, NEW q \in Int, q # 0, NEW x \in Int
  PROVE  /\ Floor(p, q) \in Int
         /\ q > 0 /\ q * x >= p => Floor(p, q) <= x
         /\ q < 0 /\ q * x <= p => Floor(p, q) <= x
<1>1. CASE q > 0
  <2>1. Floor(p, q) = p \div q /\ q * x \in Int
    BY <1>1 DEF Floor
  <2>2. p \div q \in Int /\ (p <= q * x => p \div q <= x)
    BY <1>1, DivisionRounds
  <2> QED BY <1>1, <2>1, <2>2
<1>2. CASE q < 0
  <2> DEFINE r == -q
             s == -p
  <2>1. Floor(p, q) = s \div r
    BY <1>2 DEF Floor
  <2>2. r \in Int /\ r > 0 /\ s \in Int /\ r * x = -(q * x) /\ q * x \in Int
    BY <1>2
  <2>3. q * x <= p => s <= r * x
    BY <2>2
  <2> HIDE DEF r, s
  <2>4. s \div r \in Int /\ (s <= r * x => s \div r <= x)
    BY <2>2, DivisionRounds
  <2> QED BY <1>2, <2>1, <2>3, <2>4
<1> QED BY <1>1, <1>2

(* Ceil is at least any number that the quotient allows.                   *)
LEMMA CeilIs ==
  ASSUME NEW p \in Int, NEW q \in Int, q # 0, NEW x \in Int
  PROVE  /\ Ceil(p, q) \in Int
         /\ q > 0 /\ q * x <= p => x <= Ceil(p, q)
         /\ q < 0 /\ q * x >= p => x <= Ceil(p, q)
<1> DEFINE s == -p
           y == -x
<1>1. s \in Int /\ y \in Int /\ q * y = -(q * x) /\ q * x \in Int
  OBVIOUS
<1>2. Ceil(p, q) = -Floor(s, q) /\ s = -p /\ y = -x
  BY DEF Ceil
<1> HIDE DEF s, y
<1>3. /\ Floor(s, q) \in Int
      /\ q > 0 /\ q * y >= s => Floor(s, q) <= y
      /\ q < 0 /\ q * y <= s => Floor(s, q) <= y
  BY <1>1, FloorIs
<1> QED BY <1>1, <1>2, <1>3

(* The unit and the limits are positive numbers.                           *)
LEMMA UnitIs == U \in Int /\ U > 0 /\ Inf \in Int /\ Inf > 0 /\ Huge \in Int /\ Inf < Huge
BY LpCertAssumption DEF Huge

(* A product on the grid is rounded down.                                  *)
LEMMA MulIs ==
  ASSUME NEW a \in Int, NEW b \in Int
  PROVE  Mul(a, b) \in Int /\ U * Mul(a, b) <= a * b
<1> DEFINE p == a * b
<1>1. p \in Int
  OBVIOUS
<1> HIDE DEF p
<1>2. p \div U \in Int /\ U * (p \div U) <= p
  BY <1>1, UnitIs, DivisionRounds
<1> QED BY <1>2 DEF Mul, p

(* The image u is v but for the box.                                       *)
Narrowed(v, u) ==
  /\ u.c = v.c /\ u.b = v.b /\ u.A = v.A /\ u.cols = v.cols /\ u.rows = v.rows
  /\ u.objconst = v.objconst /\ u.nnz = v.nnz /\ u.touched = v.touched

(* The parts of a result of fold_bounds.                                   *)
LEMMA FoldedIs == ASSUME NEW v, NEW r PROVE Folded(v, r).w = v /\ Folded(v, r).result = r
BY DEF Folded

(* A conflict leaves the image as it is.                                   *)
LEMMA ConflictIs ==
  ASSUME NEW v, NEW other, NEW kind, NEW both, NEW side
  PROVE  Conflict(v, other, kind, both, side).w = v
BY FoldedIs, Zenon DEF Conflict

(* fold_bounds keeps every point that respects the candidates, and reports *)
(* a conflict only if there is no such point.                              *)
LEMMA FoldKeeps ==
  ASSUME NEW v \in Image, NEW j \in v.cols, NEW vlo \in Int, NEW vhi \in Int,
         NEW src \in lp.rows, NEW kind, NEW both
  PROVE  LET fold == fold_bounds(v, j, vlo, vhi, src, kind, both)
         IN  /\ fold.w \in Image /\ Narrowed(v, fold.w)
             /\ \A x \in [lp.cols -> Int] :
                  /\ Within(v, x)
                  /\ vlo > -Inf /\ vlo < Inf => vlo <= x[j]
                  /\ vhi > -Inf /\ vhi < Inf => x[j] <= vhi
                  => Within(fold.w, x)
             /\ \A x \in [lp.cols -> Int] :
                  Within(v, x) /\ vlo <= x[j] /\ x[j] <= vhi => fold.result \in {"folded", "unchanged"}
<1> DEFINE fold == fold_bounds(v, j, vlo, vhi, src, kind, both)
           low == [v EXCEPT !.lo[j] = vlo, !.lo_src[j] = src]
           high == [v EXCEPT !.hi[j] = vhi, !.hi_src[j] = src]
<1>0. j \in lp.cols /\ v.lo[j] \in Int /\ v.hi[j] \in Int
  BY DEF Image
<1>1. low \in Image /\ Narrowed(v, low) /\ low.hi = v.hi
      /\ \A k \in lp.cols : low.lo[k] = IF k = j THEN vlo ELSE v.lo[k]
  BY <1>0 DEF Image, Narrowed
<1>2. high \in Image /\ Narrowed(v, high) /\ high.lo = v.lo
      /\ \A k \in lp.cols : high.hi[k] = IF k = j THEN vhi ELSE v.hi[k]
  BY <1>0 DEF Image, Narrowed
<1>3. \/ /\ \/ vlo > v.lo[j] /\ vlo > v.hi[j]
            \/ vlo <= v.lo[j] /\ vhi < v.hi[j] /\ vhi < v.lo[j]
         /\ fold.w = v
      \/ vlo > v.lo[j] /\ vlo <= v.hi[j] /\ vlo > -Inf /\ vlo < Inf /\ fold = Folded(low, "folded")
      \/ vhi < v.hi[j] /\ vhi > -Inf /\ vhi < Inf /\ fold = Folded(high, "folded")
      \/ fold = Folded(v, "folded")
      \/ fold = Folded(v, "unchanged")
  <2>1. CASE vlo > v.lo[j] /\ vlo > v.hi[j]
    <3>1. fold = Conflict(v, v.hi_src[j], kind, both, "low")
      BY <2>1, <1>0 DEF fold_bounds
    <3>2. fold.w = v
      BY <3>1, ConflictIs
    <3> HIDE DEF fold, low, high
    <3> QED BY <2>1, <3>2
  <2>2. CASE vlo > v.lo[j] /\ vlo <= v.hi[j]
    <3>1. fold = Folded(IF vlo > -Inf /\ vlo < Inf THEN low ELSE v, "folded")
      BY <2>2, <1>0 DEF fold_bounds
    <3> HIDE DEF fold, low
    <3> QED BY <2>2, <3>1
  <2>3. CASE vlo <= v.lo[j] /\ vhi < v.hi[j] /\ vhi < v.lo[j]
    <3>1. fold = Conflict(v, v.lo_src[j], kind, both, "high")
      BY <2>3, <1>0 DEF fold_bounds
    <3>2. fold.w = v
      BY <3>1, ConflictIs
    <3> HIDE DEF fold, low, high
    <3> QED BY <2>3, <3>2
  <2>4. CASE vlo <= v.lo[j] /\ vhi < v.hi[j] /\ vhi >= v.lo[j]
    <3>1. fold = Folded(IF vhi > -Inf /\ vhi < Inf THEN high ELSE v, "folded")
      BY <2>4, <1>0 DEF fold_bounds
    <3> HIDE DEF fold, high
    <3> QED BY <2>4, <3>1
  <2>5. CASE vlo <= v.lo[j] /\ vhi >= v.hi[j]
    <3>1. fold = Folded(v, "unchanged")
      BY <2>5, <1>0 DEF fold_bounds
    <3> QED BY <3>1
  <2> QED BY <1>0, <2>1, <2>2, <2>3, <2>4, <2>5
<1> HIDE DEF fold
<1>4. fold.w \in {v, low, high} /\ (fold.w = v \/ fold.w = low \/ fold.w = high)
  BY <1>3 DEF Folded
<1>5. Narrowed(v, v)
  BY DEF Narrowed
<1>6. ASSUME NEW x \in [lp.cols -> Int], Within(v, x),
             vlo > -Inf /\ vlo < Inf => vlo <= x[j], vhi > -Inf /\ vhi < Inf => x[j] <= vhi
      PROVE  Within(fold.w, x)
  <2>1. CASE fold.w = v
    BY <1>6, <2>1
  <2>2. CASE fold = Folded(low, "folded") /\ vlo > -Inf /\ vlo < Inf
    <3>1. fold.w = low /\ v.cols \subseteq lp.cols
      BY <2>2 DEF Folded, Image
    <3> HIDE DEF low
    <3> QED BY <1>1, <1>6, <2>2, <3>1 DEF Within, Narrowed
  <2>3. CASE fold = Folded(high, "folded") /\ vhi > -Inf /\ vhi < Inf
    <3>1. fold.w = high /\ v.cols \subseteq lp.cols
      BY <2>3 DEF Folded, Image
    <3> HIDE DEF high
    <3> QED BY <1>2, <1>6, <2>3, <3>1 DEF Within, Narrowed
  <2> HIDE DEF low, high
  <2> QED BY <1>3, <2>1, <2>2, <2>3 DEF Folded
<1>7. ASSUME NEW x \in [lp.cols -> Int], Within(v, x), vlo <= x[j], x[j] <= vhi
      PROVE  fold.result \in {"folded", "unchanged"}
  <2>1. v.lo[j] <= x[j] /\ x[j] <= v.hi[j] /\ x[j] \in Int
    BY <1>0, <1>7 DEF Within
  <2> HIDE DEF low, high
  <2> QED BY <1>0, <1>3, <1>7, <2>1 DEF Folded
<1> HIDE DEF low, high
<1> QED BY <1>1, <1>2, <1>4, <1>5, <1>6, <1>7 DEF fold

(* The sides of the box that make row i least and greatest.                *)
LowSide(v, i, j) == IF v.A[j][i] > 0 THEN v.lo[j] ELSE v.hi[j]
HighSide(v, i, j) == IF v.A[j][i] > 0 THEN v.hi[j] ELSE v.lo[j]
IsOpen(b) == OpenBelow(b) \/ OpenAbove(b)

LowSum(v, i, E) == MapThenSumSet(LAMBDA j : Mul(v.A[j][i], LowSide(v, i, j)), E)
HighSum(v, i, E) == MapThenSumSet(LAMBDA j : -Mul(-v.A[j][i], HighSide(v, i, j)), E)

(* The sums of row_activity, as sums of one function.                      *)
LEMMA LowSumIs ==
  ASSUME NEW v, NEW i, NEW E
  PROVE  LowSum(v, i, E) = Total([j \in E |-> Mul(v.A[j][i], LowSide(v, i, j))], E)
BY DEF LowSum, Total, MapThenSumSet, MapThenFoldSet

(* The same for the upper end.                                             *)
LEMMA HighSumIs ==
  ASSUME NEW v, NEW i, NEW E
  PROVE  HighSum(v, i, E) = Total([j \in E |-> -Mul(-v.A[j][i], HighSide(v, i, j))], E)
BY DEF HighSum, Total, MapThenSumSet, MapThenFoldSet

(* row_activity, as a pair of sums or of infinite ends.                    *)
LEMMA ActivityIs ==
  ASSUME NEW v, NEW i
  PROVE  LET act == row_activity(v, i)
             E == Entries(v, i)
         IN  /\ act.min = IF \E j \in E : IsOpen(LowSide(v, i, j)) THEN -Huge
                          ELSE Total([j \in E |-> Mul(v.A[j][i], LowSide(v, i, j))], E)
             /\ act.max = IF \E j \in E : IsOpen(HighSide(v, i, j)) THEN Huge
                          ELSE Total([j \in E |-> -Mul(-v.A[j][i], HighSide(v, i, j))], E)
<1> DEFINE E == Entries(v, i)
<1>1. row_activity(v, i) =
        [min |-> IF \E j \in E : IsOpen(LowSide(v, i, j)) THEN -Huge ELSE LowSum(v, i, E),
         max |-> IF \E j \in E : IsOpen(HighSide(v, i, j)) THEN Huge ELSE HighSum(v, i, E)]
  BY DEF row_activity, Entries, LowSide, HighSide, IsOpen, LowSum, HighSum
<1> HIDE DEF E
<1>2. /\ row_activity(v, i).min = IF \E j \in E : IsOpen(LowSide(v, i, j)) THEN -Huge ELSE LowSum(v, i, E)
      /\ row_activity(v, i).max = IF \E j \in E : IsOpen(HighSide(v, i, j)) THEN Huge ELSE HighSum(v, i, E)
  BY <1>1
<1> QED BY <1>2, LowSumIs, HighSumIs DEF E

(* A finite end of row_activity bounds the row at every point of the box.  *)
LEMMA ActivityBounds ==
  ASSUME IsFiniteSet(lp.cols), NEW v \in Image, NEW i, NEW x \in [lp.cols -> Int], Within(v, x)
  PROVE  LET act == row_activity(v, i)
         IN  /\ act.min \in Int /\ act.max \in Int /\ RowSum(v, i, x) \in Int
             /\ act.min = -Huge \/ act.min * U <= RowSum(v, i, x)
             /\ act.max = Huge \/ RowSum(v, i, x) <= act.max * U
<1> DEFINE E == Entries(v, i)
           act == row_activity(v, i)
           e == [j \in E |-> v.A[j][i] * x[j]]
           lows == [j \in E |-> Mul(v.A[j][i], LowSide(v, i, j))]
           highs == [j \in E |-> -Mul(-v.A[j][i], HighSide(v, i, j))]
           lowsU == [j \in E |-> U * lows[j]]
           highsU == [j \in E |-> U * highs[j]]
<1>1. E \in SUBSET lp.cols /\ IsFiniteSet(E) /\ E \subseteq v.cols
  BY FS_Subset DEF Image, Entries
<1>2. ASSUME NEW j \in E
      PROVE  /\ lows[j] \in Int /\ highs[j] \in Int /\ e[j] \in Int
             /\ lowsU[j] = U * lows[j] /\ highsU[j] = U * highs[j]
             /\ U * lows[j] <= e[j] /\ e[j] <= U * highs[j]
             /\ U * lows[j] \in Int /\ U * highs[j] \in Int
  <2> DEFINE a == v.A[j][i]
             lo == v.lo[j]
             hi == v.hi[j]
             y == x[j]
             ll == LowSide(v, i, j)
             hh == HighSide(v, i, j)
             na == -a
  <2>1. a \in Int /\ lo \in Int /\ hi \in Int /\ y \in Int /\ lo <= y /\ y <= hi
    BY <1>1, EntriesAre DEF Within, Entries
  <2>2. ll = (IF a > 0 THEN lo ELSE hi) /\ hh = (IF a > 0 THEN hi ELSE lo)
    BY DEF LowSide, HighSide
  <2>3. lows[j] = Mul(a, ll) /\ highs[j] = -Mul(na, hh) /\ e[j] = a * y
    OBVIOUS
  <2>8. lowsU[j] = U * lows[j] /\ highsU[j] = U * highs[j]
    OBVIOUS
  <2> HIDE DEF a, lo, hi, y, ll, hh, lows, highs, e, lowsU, highsU
  <2>4. a * ll <= a * y /\ a * y <= a * hh /\ a * ll \in Int /\ a * hh \in Int /\ a * y \in Int
    <3>1. CASE a > 0
      <4>1. ll = lo /\ hh = hi
        BY <2>2, <3>1
      <4>2. a * (y - lo) >= 0 /\ a * (hi - y) >= 0
        <5>1. y - lo \in Nat /\ hi - y \in Nat /\ a \in Nat
          BY <2>1, <3>1
        <5> QED BY <5>1
      <4>3. a * (y - lo) = a * y - a * lo /\ a * (hi - y) = a * hi - a * y
        BY <2>1
      <4> QED BY <2>1, <4>1, <4>2, <4>3
    <3>2. CASE ~(a > 0)
      <4>1. ll = hi /\ hh = lo
        BY <2>2, <3>2
      <4>2. na * (y - lo) >= 0 /\ na * (hi - y) >= 0
        <5>1. y - lo \in Nat /\ hi - y \in Nat /\ na \in Nat
          BY <2>1, <3>2
        <5> HIDE DEF na
        <5> QED BY <5>1
      <4>3. na * (y - lo) = a * lo - a * y /\ na * (hi - y) = a * y - a * hi
        BY <2>1
      <4> QED BY <2>1, <4>1, <4>2, <4>3
    <3> QED BY <3>1, <3>2
  <2>5. ll \in Int /\ hh \in Int /\ na \in Int /\ na * hh = -(a * hh)
    BY <2>1, <2>2
  <2> HIDE DEF na
  <2>6. Mul(a, ll) \in Int /\ U * Mul(a, ll) <= a * ll /\ Mul(na, hh) \in Int /\ U * Mul(na, hh) <= na * hh
    BY <2>1, <2>5, MulIs
  <2>7. U * (-Mul(na, hh)) = -(U * Mul(na, hh)) /\ U * Mul(na, hh) \in Int /\ U * Mul(a, ll) \in Int
    BY <2>6, UnitIs
  <2> QED BY <2>3, <2>4, <2>5, <2>6, <2>7, <2>8
<1>3. RowSum(v, i, x) = Total(e, E)
  BY RowValueIsRowSum, RowValueIs
<1>4. /\ act.min = IF \E j \in E : IsOpen(LowSide(v, i, j)) THEN -Huge ELSE Total(lows, E)
      /\ act.max = IF \E j \in E : IsOpen(HighSide(v, i, j)) THEN Huge ELSE Total(highs, E)
  BY ActivityIs
<1> HIDE DEF E, act, e, lows, highs, lowsU, highsU
<1>5. Total(lows, E) \in Int /\ Total(highs, E) \in Int /\ Total(e, E) \in Int
  BY <1>1, <1>2, TotalInt
<1>6. Total(lowsU, E) = U * Total(lows, E) /\ Total(highsU, E) = U * Total(highs, E)
  BY <1>1, <1>2, UnitIs, TotalScales
<1>7. Total(lowsU, E) <= Total(e, E) /\ Total(e, E) <= Total(highsU, E)
  BY <1>1, <1>2, TotalGrows
<1>8. U * Total(lows, E) = Total(lows, E) * U /\ U * Total(highs, E) = Total(highs, E) * U
  BY <1>5, UnitIs
<1>9. act.min \in Int /\ act.max \in Int
  BY <1>4, <1>5, UnitIs
<1> QED BY <1>3, <1>4, <1>5, <1>6, <1>7, <1>8, <1>9 DEF act

(* A point of image v, and one that costs there what it costs in the LP.   *)
Point(v, x) == Within(v, x) /\ OnRows(v, x)
Costs(v, x) == Objective(lp, x) = CostSum(v, x) + v.objconst * U

(* Rows and costs do not depend on the box.                                *)
LEMMA NarrowedKeeps ==
  ASSUME NEW v, NEW u, Narrowed(v, u), NEW x
  PROVE  /\ OnRows(v, x) => OnRows(u, x)
         /\ Costs(v, x) => Costs(u, x)
<1>1. CostSum(u, x) = CostSum(v, x) /\ \A i : RowSum(u, i, x) = RowSum(v, i, x)
  BY SameEntries DEF Narrowed
<1> QED BY <1>1 DEF Narrowed, OnRows, Costs

(* A row less loses no point and changes no cost.                          *)
LEMMA RowOutKeeps ==
  ASSUME NEW v \in Image, NEW i
  PROVE  LET u == [v EXCEPT !.rows = @ \ {i}]
         IN  /\ u \in Image
             /\ u.A = v.A /\ u.cols = v.cols
             /\ \A x : (Point(v, x) => Point(u, x)) /\ (Costs(v, x) => Costs(u, x))
<1> DEFINE u == [v EXCEPT !.rows = @ \ {i}]
<1>1. u \in Image
  BY DEF Image
<1>2. /\ u.A = v.A /\ u.cols = v.cols /\ u.c = v.c /\ u.lo = v.lo /\ u.hi = v.hi /\ u.b = v.b
      /\ u.objconst = v.objconst /\ u.rows = v.rows \ {i}
  BY DEF Image
<1> HIDE DEF u
<1>3. ASSUME NEW x
      PROVE  CostSum(u, x) = CostSum(v, x) /\ \A q : RowSum(u, q, x) = RowSum(v, q, x)
  BY <1>2, SameEntries
<1> QED BY <1>1, <1>2, <1>3 DEF Point, Costs, Within, OnRows, u

(* A difference of two right-hand sides is one of two products.            *)
LEMMA MeetsShifts ==
  ASSUME NEW rel, NEW s \in Int, NEW b \in Int, NEW d \in Int, NEW t \in Int, t = s - d * U, Meets(rel, s, b * U)
  PROVE  Meets(rel, t, (b - d) * U)
<1>1. (b - d) * U = b * U - d * U /\ b * U \in Int /\ d * U \in Int
  BY UnitIs
<1> QED BY <1>1 DEF Meets

(* Setting an empty column costs what the point pays for it.               *)
LEMMA EmptyColumnKeeps ==
  ASSUME IsFiniteSet(lp.cols), NEW v \in Image, NEW j \in v.cols, v.A[j] = << >>,
         NEW val \in Int, ExactMul(v.c[j], val)
  PROVE  LET u == [v EXCEPT !.cols = @ \ {j}, !.objconst = @ + Mul(v.c[j], val)]
         IN  /\ u \in Image
             /\ u.cols = v.cols \ {j}
             /\ \A x \in [lp.cols -> Int] :
                  (Point(v, x) => Point(u, x)) /\ (x[j] = val /\ Costs(v, x) => Costs(u, x))
<1> DEFINE d == Mul(v.c[j], val)
           u == [v EXCEPT !.cols = @ \ {j}, !.objconst = @ + d]
<1>1. d \in Int /\ d * U = v.c[j] * val /\ v.c[j] \in Int /\ j \in lp.cols /\ v.objconst \in Int
  BY MulIs DEF Image, ExactMul
<1> HIDE DEF d
<1>2. u \in Image
  <2>1. v.objconst + d \in Int /\ v.cols \ {j} \in SUBSET lp.cols
    BY <1>1 DEF Image
  <2> QED BY <2>1 DEF Image
<1>3. /\ u.A = v.A /\ u.cols = v.cols \ {j} /\ u.c = v.c /\ u.lo = v.lo /\ u.hi = v.hi /\ u.b = v.b
      /\ u.objconst = v.objconst + d /\ u.rows = v.rows
  BY DEF Image
<1> HIDE DEF u
<1>4. ASSUME NEW x \in [lp.cols -> Int]
      PROVE  (Point(v, x) => Point(u, x)) /\ (x[j] = val /\ Costs(v, x) => Costs(u, x))
  <2>1. /\ CostSum(u, x) = CostSum(v, x) - v.c[j] * x[j]
        /\ \A i : RowSum(u, i, x) = RowSum(v, i, x) - (IF i \in DOMAIN v.A[j] THEN v.A[j][i] * x[j] ELSE 0)
    BY <1>2, <1>3, ColumnOut
  <2>2. CostSum(v, x) \in Int /\ \A i : RowSum(v, i, x) \in Int
    BY PartsAre
  <2>3. \A i : RowSum(u, i, x) = RowSum(v, i, x)
    <3>1. DOMAIN v.A[j] = {}
      OBVIOUS
    <3> QED BY <2>1, <2>2, <3>1
  <2>4. Point(v, x) => Point(u, x)
    BY <1>3, <2>3 DEF Point, Within, OnRows
  <2>5. ASSUME x[j] = val, Costs(v, x) PROVE Costs(u, x)
    <3>1. CostSum(u, x) = CostSum(v, x) - d * U
      BY <1>1, <2>1, <2>5
    <3>2. (v.objconst + d) * U = v.objconst * U + d * U /\ v.objconst * U \in Int /\ d * U \in Int
      BY <1>1, UnitIs
    <3> QED BY <1>3, <2>2, <2>5, <3>1, <3>2 DEF Costs
  <2> QED BY <2>4, <2>5
<1> QED BY <1>2, <1>3, <1>4 DEF u, d

(* Folding a fixed column into the right-hand sides loses no point.        *)
LEMMA FixedColumnKeeps ==
  ASSUME IsFiniteSet(lp.cols), NEW v \in Image, NEW j \in v.cols, v.lo[j] = v.hi[j],
         ExactMul(v.c[j], v.lo[j]), \A i \in DOMAIN v.A[j] : ExactMul(v.A[j][i], v.lo[j])
  PROVE  LET val == v.lo[j]
             rows == DOMAIN v.A[j]
             u == [v EXCEPT !.cols = @ \ {j},
                            !.objconst = @ + Mul(v.c[j], val),
                            !.b = [i \in lp.rows |-> IF i \in rows THEN @[i] - Mul(v.A[j][i], val) ELSE @[i]],
                            !.touched = @ \cup rows]
         IN  /\ u \in Image
             /\ \A x \in [lp.cols -> Int] :
                  Point(v, x) => Point(u, x) /\ (Costs(v, x) => Costs(u, x))
<1> DEFINE val == v.lo[j]
           rows == DOMAIN v.A[j]
           d == Mul(v.c[j], val)
           B == [i \in lp.rows |-> IF i \in rows THEN v.b[i] - Mul(v.A[j][i], val) ELSE v.b[i]]
           u == [v EXCEPT !.cols = @ \ {j}, !.objconst = @ + d, !.b = B, !.touched = @ \cup rows]
<1>0. j \in lp.cols /\ val \in Int /\ v.c[j] \in Int /\ v.objconst \in Int /\ v.hi[j] = val
      /\ rows \in SUBSET lp.rows /\ \A i \in rows : v.A[j][i] \in Int
  BY EntriesAre DEF Image
<1> HIDE DEF val
<1>1. d \in Int /\ d * U = v.c[j] * val
  BY <1>0, MulIs DEF ExactMul, val
<1>2. \A i \in rows : Mul(v.A[j][i], val) \in Int /\ Mul(v.A[j][i], val) * U = v.A[j][i] * val
  BY <1>0, MulIs DEF ExactMul, val
<1>3. B \in [lp.rows -> Int]
  <2>1. \A i \in lp.rows : v.b[i] \in Int
    BY DEF Image
  <2> QED BY <1>2, <2>1
<1> HIDE DEF d, rows
<1>4. u \in Image
  <2>1. /\ v.objconst + d \in Int /\ v.cols \ {j} \in SUBSET lp.cols
        /\ v.touched \cup rows \in SUBSET lp.rows
    BY <1>0, <1>1 DEF Image
  <2> HIDE DEF B
  <2> QED BY <1>3, <2>1 DEF Image
<1>5. /\ u.A = v.A /\ u.cols = v.cols \ {j} /\ u.c = v.c /\ u.lo = v.lo /\ u.hi = v.hi /\ u.b = B
      /\ u.objconst = v.objconst + d /\ u.rows = v.rows
  BY DEF Image
<1>6. u = [v EXCEPT !.cols = @ \ {j},
                    !.objconst = @ + Mul(v.c[j], val),
                    !.b = [i \in lp.rows |-> IF i \in rows THEN @[i] - Mul(v.A[j][i], val) ELSE @[i]],
                    !.touched = @ \cup rows]
  BY DEF d
<1> HIDE DEF u
<1>7. ASSUME NEW x \in [lp.cols -> Int], Point(v, x)
      PROVE  Point(u, x) /\ (Costs(v, x) => Costs(u, x))
  <2>1. /\ CostSum(u, x) = CostSum(v, x) - v.c[j] * x[j]
        /\ \A i : RowSum(u, i, x) = RowSum(v, i, x) - (IF i \in rows THEN v.A[j][i] * x[j] ELSE 0)
    BY <1>4, <1>5, ColumnOut DEF rows
  <2>2. CostSum(v, x) \in Int /\ \A i : RowSum(v, i, x) \in Int
    BY PartsAre
  <2>3. x[j] = val
    <3>1. x[j] \in Int /\ val <= x[j] /\ x[j] <= val
      BY <1>0, <1>7 DEF Point, Within, val
    <3> QED BY <1>0, <3>1
  <2>4. OnRows(u, x)
    <3> SUFFICES ASSUME NEW i \in v.rows PROVE Meets(lp.rel[i], RowSum(u, i, x), B[i] * U)
      BY <1>5 DEF OnRows
    <3>1. i \in lp.rows /\ v.b[i] \in Int /\ Meets(lp.rel[i], RowSum(v, i, x), v.b[i] * U)
      BY <1>7 DEF Image, Point, OnRows
    <3>2. CASE i \in rows
      <4> DEFINE e == Mul(v.A[j][i], val)
      <4>1. e \in Int /\ B[i] = v.b[i] - e /\ RowSum(u, i, x) = RowSum(v, i, x) - e * U
        BY <1>2, <2>1, <2>3, <3>1, <3>2
      <4> HIDE DEF e, B
      <4>2. RowSum(u, i, x) \in Int
        BY <2>2, <4>1, UnitIs
      <4> QED BY <2>2, <3>1, <4>1, <4>2, MeetsShifts
    <3>3. CASE i \notin rows
      BY <2>1, <2>2, <3>1, <3>3
    <3> QED BY <3>2, <3>3
  <2>5. ASSUME Costs(v, x) PROVE Costs(u, x)
    <3>1. CostSum(u, x) = CostSum(v, x) - d * U
      BY <1>1, <2>1, <2>3
    <3>2. (v.objconst + d) * U = v.objconst * U + d * U /\ v.objconst * U \in Int /\ d * U \in Int
      BY <1>0, <1>1, UnitIs
    <3> QED BY <1>5, <2>2, <2>5, <3>1, <3>2 DEF Costs
  <2>6. Within(u, x)
    BY <1>5, <1>7 DEF Point, Within
  <2> QED BY <2>4, <2>5, <2>6 DEF Point
<1> QED BY <1>4, <1>6, <1>7 DEF val, rows

(* A factor that is not zero can be cancelled.                             *)
LEMMA Cancels ==
  ASSUME NEW a \in Int, a # 0, NEW p \in Int, NEW q \in Int, a * p = a * q
  PROVE  p = q
<1>1. CASE a > 0
  <2>1. a * p <= a * q /\ a * q <= a * p
    OBVIOUS
  <2>2. p <= q /\ q <= p
    BY <1>1, <2>1, TimesMonotone
  <2> QED BY <2>2
<1>2. CASE a < 0
  <2> DEFINE neg == -a
  <2>1. neg \in Int /\ neg > 0 /\ neg * p = -(a * p) /\ neg * q = -(a * q) /\ a * p \in Int /\ a * q \in Int
    BY <1>2
  <2>2. neg * p <= neg * q /\ neg * q <= neg * p
    BY <2>1
  <2> HIDE DEF neg
  <2>3. p <= q /\ q <= p
    BY <2>1, <2>2, TimesMonotone
  <2> QED BY <2>3
<1> QED BY <1>1, <1>2

(* The pivot column on the row: x_j = bover + tcoef x_k.                   *)
OnPivotRow(a, e, b, bover, t, xj, xk) ==
  /\ a \in Int /\ a # 0 /\ e \in Int /\ b \in Int /\ bover \in Int /\ t \in Int
  /\ a * bover = b * U /\ a * t = -e * U
  /\ xj \in Int /\ xk \in Int /\ a * xj + e * xk = b * U

(* On the row, the pivot is the combination that replaces it.              *)
LEMMA PivotIs ==
  ASSUME NEW a, NEW e, NEW b, NEW bover, NEW t, NEW xj, NEW xk, OnPivotRow(a, e, b, bover, t, xj, xk)
  PROVE  xj * U = bover * U + t * xk
<1> USE DEF OnPivotRow
<1> DEFINE p == xj * U
           q == bover * U + t * xk
<1>0. U \in Int
  BY UnitIs
<1>1. p \in Int /\ q \in Int
  BY <1>0
<1>2. a * p = (a * xj) * U
  BY <1>0
<1>3. a * q = (a * bover) * U + (a * t) * xk
  <2>1. a * q = a * (bover * U) + a * (t * xk)
    BY <1>0
  <2>2. a * (bover * U) = (a * bover) * U /\ a * (t * xk) = (a * t) * xk
    BY <1>0
  <2> QED BY <2>1, <2>2
<1>4. a * xj = a * bover - e * xk
  <2>1. a * xj \in Int /\ e * xk \in Int /\ a * bover \in Int
    OBVIOUS
  <2> QED BY <2>1
<1>5. (a * xj) * U = (a * bover) * U - (e * xk) * U
  BY <1>0, <1>4
<1>6. (a * t) * xk = -((e * xk) * U)
  <2>1. (a * t) * xk = (-e * U) * xk
    OBVIOUS
  <2>2. (-e * U) * xk = -((e * xk) * U)
    BY <1>0
  <2> QED BY <2>1, <2>2
<1>7. a * p = a * q
  <2> DEFINE z == (e * xk) * U
             y == (a * bover) * U
  <2>1. z \in Int /\ y \in Int
    BY <1>0
  <2>2. a * p = y - z /\ a * q = y + (-z)
    BY <1>2, <1>3, <1>5, <1>6
  <2> HIDE DEF z, y, p, q
  <2> QED BY <2>1, <2>2
<1> HIDE DEF p, q
<1>8. p = q
  BY <1>1, <1>7, Cancels
<1> QED BY <1>8 DEF p, q

(* What the substitution takes out of a sum that has g times x_j in it.    *)
Substituted(g, t, bover, xj, xk, mm, e) ==
  /\ g \in Int /\ t \in Int /\ bover \in Int /\ xj \in Int /\ xk \in Int /\ mm \in Int /\ e \in Int
  /\ mm * U = g * t /\ e * U = g * bover /\ xj * U = bover * U + t * xk

(* Taking the combination for the pivot shifts the sum by a constant.      *)
LEMMA SubstitutionShifts ==
  ASSUME NEW g, NEW t, NEW bover, NEW xj, NEW xk, NEW mm, NEW e,
         Substituted(g, t, bover, xj, xk, mm, e)
  PROVE  g * xj - mm * xk = e * U
<1> USE DEF Substituted
<1> DEFINE p == g * xj - mm * xk
           q == e * U
<1>0. U \in Int /\ U # 0
  BY UnitIs
<1>1. p \in Int /\ q \in Int
  BY <1>0
<1>2. U * p = g * (xj * U) - (mm * U) * xk
  <2>1. U * p = U * (g * xj) - U * (mm * xk)
    BY <1>0
  <2>2. U * (g * xj) = g * (xj * U) /\ U * (mm * xk) = (mm * U) * xk
    BY <1>0
  <2> QED BY <2>1, <2>2
<1>3. g * (xj * U) = g * (bover * U) + g * (t * xk)
  <2>1. g * (bover * U + t * xk) = g * (bover * U) + g * (t * xk)
    BY <1>0
  <2> QED BY <2>1
<1>4. (mm * U) * xk = g * (t * xk)
  <2>1. (mm * U) * xk = (g * t) * xk
    OBVIOUS
  <2>2. (g * t) * xk = g * (t * xk)
    OBVIOUS
  <2> QED BY <2>1, <2>2
<1>5. g * (bover * U) = U * q
  <2>1. g * (bover * U) = (g * bover) * U
    BY <1>0
  <2>2. (g * bover) * U = (e * U) * U
    OBVIOUS
  <2>3. (e * U) * U = U * (e * U)
    BY <1>0
  <2> QED BY <2>1, <2>2, <2>3
<1>6. U * p = U * q
  <2> DEFINE z == g * (t * xk)
             y == U * q
  <2>1. z \in Int /\ y \in Int
    BY <1>0
  <2>2. U * p = (y + z) - z
    BY <1>2, <1>3, <1>4, <1>5
  <2> HIDE DEF z, p, q
  <2>3. U * p = y
    <3> HIDE DEF y
    <3> QED BY <2>1, <2>2
  <2> QED BY <2>3
<1> HIDE DEF p, q
<1>7. p = q
  BY <1>0, <1>1, <1>6, Cancels
<1> QED BY <1>7 DEF p, q

(* The column of k after the substitution, with the fill.                  *)
Filled(v, i, j, k, tcoef) ==
  LET rows == (DOMAIN v.A[j] \cap v.rows) \ {i}
  IN  [r \in DOMAIN v.A[k] \cup rows |->
         IF r \in rows THEN (IF r \in DOMAIN v.A[k] THEN v.A[k][r] ELSE 0) + Mul(v.A[j][r], tcoef)
                       ELSE v.A[k][r]]

(* The filled column is one of the program's rows.                         *)
LEMMA FilledIs ==
  ASSUME NEW v \in Image, NEW i, NEW j \in lp.cols, NEW k \in lp.cols, NEW t \in Int
  PROVE  Filled(v, i, j, k, t) \in Column(lp)
<1> DEFINE rows == (DOMAIN v.A[j] \cap v.rows) \ {i}
           D == DOMAIN v.A[k] \cup rows
           F == Filled(v, i, j, k, t)
<1>1. /\ DOMAIN v.A[j] \subseteq lp.rows /\ \A r \in DOMAIN v.A[j] : v.A[j][r] \in Int
      /\ DOMAIN v.A[k] \subseteq lp.rows /\ \A r \in DOMAIN v.A[k] : v.A[k][r] \in Int
  BY EntriesAre
<1>2. F = [r \in D |-> IF r \in rows THEN (IF r \in DOMAIN v.A[k] THEN v.A[k][r] ELSE 0) + Mul(v.A[j][r], t)
                                     ELSE v.A[k][r]]
  BY DEF Filled
<1>3. \A r \in rows : Mul(v.A[j][r], t) \in Int
  BY <1>1, MulIs
<1>4. D \in SUBSET lp.rows
  BY <1>1
<1>5. \A r \in D : F[r] \in Int
  BY <1>1, <1>2, <1>3
<1> HIDE DEF F, rows, D
<1>6. F \in [D -> Int]
  BY <1>2, <1>5
<1> QED BY <1>4, <1>6 DEF Column, F

(* What Substitute changes, component by component.                        *)
LEMMA SubstituteIs ==
  ASSUME IsFiniteSet(lp.rows), NEW v \in Image, NEW i \in v.rows, NEW j \in v.cols, NEW k \in v.cols, j # k,
         NEW bover \in Int, NEW t \in Int
  PROVE  LET u == Substitute(v, i, j, k, bover, t)
             rows == (DOMAIN v.A[j] \cap v.rows) \ {i}
         IN  /\ u \in Image
             /\ u.cols = v.cols \ {j} /\ u.rows = v.rows \ {i} /\ u.lo = v.lo /\ u.hi = v.hi
             /\ u.objconst = v.objconst + Mul(v.c[j], bover)
             /\ \A q \in lp.cols : /\ u.A[q] = IF q = k THEN Filled(v, i, j, k, t) ELSE v.A[q]
                                   /\ q # j => u.c[q] = v.c[q] + (IF q = k THEN Mul(v.c[j], t) ELSE 0)
             /\ \A r \in lp.rows : u.b[r] = v.b[r] - (IF r \in rows THEN Mul(v.A[j][r], bover) ELSE 0)
<1> DEFINE rows == (DOMAIN v.A[j] \cap v.rows) \ {i}
           F == Filled(v, i, j, k, t)
           c == [v.c EXCEPT ![k] = @ + Mul(v.c[j], t), ![j] = 0]
           B == [r \in lp.rows |-> IF r \in rows THEN v.b[r] - Mul(v.A[j][r], bover) ELSE v.b[r]]
           d == Mul(v.c[j], bover)
           fill == Cardinality(rows \ DOMAIN v.A[k])
           u == [v EXCEPT !.A[k] = F, !.c = c, !.objconst = @ + d, !.b = B, !.touched = @ \cup rows,
                          !.nnz = @ + fill, !.rows = @ \ {i}, !.cols = @ \ {j}]
<1>1. Substitute(v, i, j, k, bover, t) = u
  BY Zenon DEF Substitute, Filled
<1>2. j \in lp.cols /\ k \in lp.cols /\ v.c \in [lp.cols -> Int] /\ v.b \in [lp.rows -> Int]
      /\ v.A \in [lp.cols -> Column(lp)]
  BY DEF Image
<1>3. DOMAIN v.A[j] \subseteq lp.rows /\ \A r \in DOMAIN v.A[j] : v.A[j][r] \in Int
  BY <1>2, EntriesAre
<1>4. F \in Column(lp)
  BY <1>2, FilledIs
<1>5. Mul(v.c[j], t) \in Int /\ d \in Int
  BY <1>2, MulIs
<1>6. \A r \in rows : Mul(v.A[j][r], bover) \in Int
  BY <1>3, MulIs
<1>7. c \in [lp.cols -> Int] /\ B \in [lp.rows -> Int]
  BY <1>2, <1>5, <1>6
<1>8. fill \in Int
  <2>1. rows \ DOMAIN v.A[k] \subseteq lp.rows
    BY <1>3
  <2>2. IsFiniteSet(rows \ DOMAIN v.A[k])
    BY <2>1, FS_Subset
  <2> HIDE DEF rows
  <2> QED BY <2>2, FS_CardinalityType
<1>9. \A q \in lp.cols : q # j => c[q] = v.c[q] + (IF q = k THEN Mul(v.c[j], t) ELSE 0)
  BY <1>2
<1>10. \A r \in lp.rows : B[r] = v.b[r] - (IF r \in rows THEN Mul(v.A[j][r], bover) ELSE 0)
  BY <1>2
<1>11. rows \in SUBSET lp.rows
  BY <1>3
<1> HIDE DEF F, c, B, d, fill, rows
<1>12. u \in Image
  <2>1. /\ v.objconst + d \in Int /\ v.nnz + fill \in Int /\ v.cols \ {j} \in SUBSET lp.cols
        /\ v.rows \ {i} \in SUBSET lp.rows /\ v.touched \cup rows \in SUBSET lp.rows
        /\ [v.A EXCEPT ![k] = F] \in [lp.cols -> Column(lp)]
    BY <1>2, <1>4, <1>5, <1>8, <1>11 DEF Image
  <2> QED BY <1>7, <2>1 DEF Image
<1>13. /\ u.cols = v.cols \ {j} /\ u.rows = v.rows \ {i} /\ u.lo = v.lo /\ u.hi = v.hi
       /\ u.objconst = v.objconst + d /\ u.c = c /\ u.b = B
       /\ \A q \in lp.cols : u.A[q] = IF q = k THEN F ELSE v.A[q]
  BY <1>2 DEF Image
<1> HIDE DEF u
<1> QED BY <1>1, <1>9, <1>10, <1>12, <1>13 DEF rows, d, F

(* Exact quotients for a substitution.                                     *)
Quotients(v, i, j, k, bover, t) ==
  v.A[j][i] * bover = v.b[i] * U /\ v.A[j][i] * t = -v.A[k][i] * U
(* The substitution loses no point and changes no cost, for exact          *)
(* quotients.                                                              *)
LEMMA SubstituteKeeps ==
  ASSUME IsFiniteSet(lp.cols), IsFiniteSet(lp.rows), NEW v \in Image,
         NEW i \in v.rows, NEW j \in v.cols, NEW k \in v.cols, j # k,
         Entries(v, i) = {j, k}, v.A[j][i] # 0, lp.rel[i] = "=",
         NEW bover \in Int, NEW t \in Int,
         Quotients(v, i, j, k, bover, t), ExactProducts(v, j, bover, t),
         NEW x \in [lp.cols -> Int], Point(v, x)
  PROVE  LET u == Substitute(v, i, j, k, bover, t)
         IN  Point(u, x) /\ (Costs(v, x) => Costs(u, x))
<1> DEFINE rows == (DOMAIN v.A[j] \cap v.rows) \ {i}
           u == Substitute(v, i, j, k, bover, t)
           xj == x[j]
           xk == x[k]
           F == Filled(v, i, j, k, t)
<1>1. /\ u \in Image
      /\ u.cols = v.cols \ {j} /\ u.rows = v.rows \ {i} /\ u.lo = v.lo /\ u.hi = v.hi
      /\ u.objconst = v.objconst + Mul(v.c[j], bover)
      /\ \A q \in lp.cols : /\ u.A[q] = IF q = k THEN F ELSE v.A[q]
                            /\ q # j => u.c[q] = v.c[q] + (IF q = k THEN Mul(v.c[j], t) ELSE 0)
      /\ \A r \in lp.rows : u.b[r] = v.b[r] - (IF r \in rows THEN Mul(v.A[j][r], bover) ELSE 0)
  BY SubstituteIs
<1>2. /\ j \in lp.cols /\ k \in lp.cols /\ i \in lp.rows /\ xj \in Int /\ xk \in Int
      /\ v.c[j] \in Int /\ v.c[k] \in Int /\ v.objconst \in Int /\ v.cols \subseteq lp.cols
      /\ v.rows \subseteq lp.rows /\ v.b[i] \in Int
  BY DEF Image
<1>3. /\ \A r \in DOMAIN v.A[j] : v.A[j][r] \in Int
      /\ \A r \in DOMAIN v.A[k] : v.A[k][r] \in Int
      /\ i \in DOMAIN v.A[j] /\ i \in DOMAIN v.A[k]
  BY <1>2, EntriesAre DEF Entries
<1>4. DOMAIN F = DOMAIN v.A[k] \cup rows
      /\ \A r \in DOMAIN v.A[k] \cup rows :
           F[r] = IF r \in rows THEN (IF r \in DOMAIN v.A[k] THEN v.A[k][r] ELSE 0) + Mul(v.A[j][r], t)
                  ELSE v.A[k][r]
  BY DEF Filled
<1> HIDE DEF u, xj, xk, F, rows
<1>5. xj * U = bover * U + t * xk
  <2> DEFINE a == v.A[j][i]
             e == v.A[k][i]
             b == v.b[i]
             f == RowPart(v, i, x)
  <2>1. a \in Int /\ e \in Int /\ b \in Int
    BY <1>2, <1>3
  <2>2. /\ \A q \in lp.cols : f[q] \in Int
        /\ f[j] = a * xj /\ f[k] = e * xk
        /\ \A q \in lp.cols \ {j, k} : f[q] = 0
    BY <1>2, <1>3, PartsAre DEF RowPart, Entries, xj, xk
  <2>3. a # 0 /\ a * bover = b * U /\ a * t = -e * U
    BY DEF Quotients
  <2>4. Meets(lp.rel[i], RowSum(v, i, x), b * U)
    BY DEF Point, OnRows
  <2>5. RowSum(v, i, x) = Total(f, lp.cols)
    BY DEF RowSum
  <2> HIDE DEF a, e, b, f
  <2>6. Total(f, lp.cols) = f[j] + f[k]
    <3>1. j \in lp.cols /\ k \in lp.cols /\ (\A q \in lp.cols : f[q] \in Int)
          /\ \A q \in lp.cols \ {j, k} : f[q] = 0
      BY <1>2, <2>2
    <3> QED BY <3>1, TotalOfJustTwo
  <2>7. Total(f, lp.cols) = b * U
    BY <2>4, <2>5 DEF Meets
  <2>8. a * xj + e * xk = b * U
    BY <2>2, <2>6, <2>7
  <2>9. OnPivotRow(a, e, b, bover, t, xj, xk)
    BY <1>2, <2>1, <2>3, <2>8 DEF OnPivotRow
  <2> QED BY <2>9, PivotIs
<1>6. Within(u, x)
  BY <1>1 DEF Point, Within
<1>7. OnRows(u, x)
  <2> SUFFICES ASSUME NEW r \in u.rows PROVE Meets(lp.rel[r], RowSum(u, r, x), u.b[r] * U)
    BY DEF OnRows
  <2>1. r \in v.rows /\ r # i /\ r \in lp.rows /\ v.b[r] \in Int
    BY <1>1, <1>2 DEF Image
  <2>2. Meets(lp.rel[r], RowSum(v, r, x), v.b[r] * U)
    BY <2>1 DEF Point, OnRows
  <2> DEFINE f == RowPart(v, r, x)
             g == RowPart(u, r, x)
             old == IF r \in DOMAIN v.A[k] THEN v.A[k][r] ELSE 0
             aj == v.A[j][r]
             e == Mul(aj, bover)
             mm == Mul(aj, t)
  <2>3. \A q \in lp.cols : f[q] \in Int /\ g[q] \in Int
    BY <1>1, PartsAre
  <2>4. \A q \in lp.cols \ {j, k} : f[q] = g[q]
    BY <1>1 DEF RowPart
  <2>5. g[j] = 0 /\ f[k] = old * xk
    BY <1>1, <1>2 DEF RowPart, xk
  <2>6. RowSum(v, r, x) = Total(f, lp.cols) /\ RowSum(u, r, x) = Total(g, lp.cols)
        /\ Total(f, lp.cols) \in Int /\ Total(g, lp.cols) \in Int
    BY <1>1, PartsAre DEF RowSum
  <2>7. old \in Int
    BY <1>3
  <2>8. g[k] = (IF r \in DOMAIN F THEN F[r] * xk ELSE 0)
    BY <1>1, <1>2 DEF RowPart, xk
  <2>9. f[j] = (IF r \in DOMAIN v.A[j] THEN aj * xj ELSE 0)
    BY <1>2 DEF RowPart, xj
  <2>10. r \in rows <=> r \in DOMAIN v.A[j]
    BY <2>1 DEF rows
  <2> HIDE DEF f, g
  <2>11. Total(f, lp.cols) - f[j] - f[k] = Total(g, lp.cols) - g[j] - g[k]
    BY <1>2, <2>3, <2>4, TotalsDifferAtTwo
  <2>12. CASE r \in rows
    <3>1. aj \in Int /\ e \in Int /\ mm \in Int /\ mm * U = aj * t /\ e * U = aj * bover
      BY <1>3, <2>10, <2>12, MulIs DEF ExactMul, ExactProducts
    <3>2. F[r] = old + mm /\ r \in DOMAIN F
      BY <1>4, <2>12
    <3>3. u.b[r] = v.b[r] - e
      BY <1>1, <2>1, <2>12
    <3>10. f[j] = aj * xj /\ g[k] = F[r] * xk
      BY <2>8, <2>9, <2>10, <2>12, <3>2
    <3> HIDE DEF old, aj, e, mm
    <3>11. Substituted(aj, t, bover, xj, xk, mm, e)
      BY <1>2, <1>5, <3>1 DEF Substituted
    <3>4. aj * xj - mm * xk = e * U
      BY <3>11, SubstitutionShifts
    <3>5. g[k] = old * xk + mm * xk
      BY <1>2, <2>7, <3>1, <3>2, <3>10
    <3> DEFINE p1 == aj * xj
               p2 == old * xk
               p3 == mm * xk
               p4 == e * U
    <3>6. p1 \in Int /\ p2 \in Int /\ p3 \in Int /\ p4 \in Int
      BY <1>2, <2>7, <3>1, UnitIs
    <3>7. f[j] = p1 /\ f[k] = p2 /\ g[k] = p2 + p3 /\ p1 - p3 = p4
      BY <2>5, <3>4, <3>5, <3>10
    <3> HIDE DEF p1, p2, p3, p4
    <3>8. Total(g, lp.cols) = Total(f, lp.cols) - p4
      BY <2>5, <2>6, <2>11, <3>6, <3>7
    <3>9. RowSum(u, r, x) = RowSum(v, r, x) - e * U
      BY <2>6, <3>8 DEF p4
    <3> QED BY <2>1, <2>2, <2>6, <3>1, <3>3, <3>9, MeetsShifts
  <2>13. CASE r \notin rows
    <3>1. f[j] = 0 /\ u.b[r] = v.b[r]
      BY <1>1, <2>1, <2>9, <2>10, <2>13
    <3>2. g[k] = f[k]
      BY <1>2, <1>4, <2>5, <2>8, <2>13
    <3>3. Total(g, lp.cols) = Total(f, lp.cols)
      BY <1>2, <2>3, <2>5, <2>6, <2>11, <3>1, <3>2
    <3> QED BY <2>2, <2>6, <3>1, <3>3
  <2> QED BY <2>12, <2>13
<1>8. ASSUME Costs(v, x) PROVE Costs(u, x)
  <2> DEFINE f == CostPart(v, x)
             g == CostPart(u, x)
             cj == v.c[j]
             ck == v.c[k]
             e == Mul(cj, bover)
             mm == Mul(cj, t)
  <2>1. \A q \in lp.cols : f[q] \in Int /\ g[q] \in Int
    BY <1>1, PartsAre
  <2>2. \A q \in lp.cols \ {j, k} : f[q] = g[q]
    <3> SUFFICES ASSUME NEW q \in lp.cols \ {j, k} PROVE f[q] = g[q]
      OBVIOUS
    <3>1. u.c[q] = v.c[q] + 0 /\ v.c[q] \in Int
      BY <1>1 DEF Image
    <3> QED BY <1>1, <3>1 DEF CostPart
  <2>3. g[j] = 0 /\ f[j] = cj * xj /\ f[k] = ck * xk
    BY <1>1, <1>2 DEF CostPart, xj, xk
  <2>4. g[k] = (ck + mm) * xk
    BY <1>1, <1>2 DEF CostPart, xk
  <2>5. /\ CostSum(v, x) = Total(f, lp.cols) /\ CostSum(u, x) = Total(g, lp.cols)
        /\ Total(f, lp.cols) \in Int /\ Total(g, lp.cols) \in Int
    BY <1>1, PartsAre DEF CostSum
  <2>6. cj \in Int /\ ck \in Int /\ e \in Int /\ mm \in Int /\ mm * U = cj * t /\ e * U = cj * bover
    BY <1>2, MulIs DEF ExactMul, ExactProducts
  <2>7. u.objconst = v.objconst + e
    BY <1>1
  <2> HIDE DEF f, g, cj, ck, e, mm
  <2>8. Total(f, lp.cols) - f[j] - f[k] = Total(g, lp.cols) - g[j] - g[k]
    BY <1>2, <2>1, <2>2, TotalsDifferAtTwo
  <2>14. Substituted(cj, t, bover, xj, xk, mm, e)
    BY <1>2, <1>5, <2>6 DEF Substituted
  <2>9. cj * xj - mm * xk = e * U
    BY <2>14, SubstitutionShifts
  <2>10. g[k] = ck * xk + mm * xk
    BY <1>2, <2>4, <2>6
  <2> DEFINE p1 == cj * xj
             p2 == ck * xk
             p3 == mm * xk
             p4 == e * U
  <2>11. p1 \in Int /\ p2 \in Int /\ p3 \in Int /\ p4 \in Int /\ v.objconst * U \in Int
         /\ (v.objconst + e) * U = v.objconst * U + p4
    BY <1>2, <2>6, UnitIs
  <2>12. f[j] = p1 /\ f[k] = p2 /\ g[k] = p2 + p3 /\ p1 - p3 = p4
    BY <2>3, <2>9, <2>10
  <2> HIDE DEF p1, p2, p3, p4
  <2>13. Total(g, lp.cols) = Total(f, lp.cols) - p4
    BY <2>3, <2>5, <2>8, <2>11, <2>12
  <2> QED BY <1>8, <2>5, <2>7, <2>11, <2>13 DEF Costs
<1> QED BY <1>6, <1>7, <1>8 DEF Point, u

(* row_collect is the set of columns with an entry in the row.             *)
LEMMA CollectIs ==
  ASSUME IsFiniteSet(lp.cols), w \in Image, NEW i
  PROVE  /\ row_collect(w, i) = Entries(w, i) /\ row_collect(w, i) \subseteq w.cols
         /\ row_collect(w, i) \subseteq lp.cols /\ IsFiniteSet(row_collect(w, i))
BY FS_Subset DEF row_collect, Entries, Image

(* Zero compares with a right-hand side in either unit alike.              *)
LEMMA ZeroSideIs ==
  ASSUME NEW b \in Int, NEW rel
  PROVE  Meets(rel, 0, b * U) => Meets(rel, 0, b)
<1>1. CASE b > 0
  <2>1. b * U > 0 /\ b * U \in Int
    BY <1>1, UnitIs
  <2> QED BY <1>1, <2>1 DEF Meets
<1>2. CASE b = 0
  BY <1>2, UnitIs DEF Meets
<1>3. CASE b < 0
  <2> DEFINE c == -b
  <2>1. c \in Int /\ c > 0 /\ b * U = -(c * U)
    BY <1>3, UnitIs
  <2> HIDE DEF c
  <2>2. c * U > 0 /\ c * U \in Int
    BY <2>1, UnitIs
  <2> QED BY <1>3, <2>1, <2>2 DEF Meets
<1> QED BY <1>1, <1>2, <1>3

(* A row without entries has the value zero.                               *)
LEMMA EmptyRowSum ==
  ASSUME IsFiniteSet(lp.cols), w \in Image, NEW i, row_collect(w, i) = {}, NEW x \in [lp.cols -> Int]
  PROVE  RowSum(w, i, x) = 0
<1>1. \A j \in lp.cols : RowPart(w, i, x)[j] = 0
  BY DEF RowPart, row_collect
<1> QED BY <1>1, TotalOfZeros DEF RowSum

(* A row with one entry is a product.                                      *)
LEMMA SingleRowSum ==
  ASSUME IsFiniteSet(lp.cols), w \in Image, NEW i, NEW j, row_collect(w, i) = {j}, NEW x \in [lp.cols -> Int]
  PROVE  RowSum(w, i, x) = w.A[j][i] * x[j]
<1> DEFINE f == RowPart(w, i, x)
<1>1. j \in lp.cols /\ j \in w.cols /\ i \in DOMAIN w.A[j]
  BY DEF Image, row_collect
<1>2. /\ \A q \in lp.cols : f[q] \in Int
      /\ f[j] = w.A[j][i] * x[j]
      /\ \A q \in lp.cols \ {j} : f[q] = 0
  BY <1>1, PartsAre DEF RowPart, row_collect
<1> HIDE DEF f
<1>3. Total(f, lp.cols) = f[j]
  BY <1>1, <1>2, TotalOfOne
<1> QED BY <1>2, <1>3 DEF RowSum, f

(* The row has two entries.                                                *)
TwoEntries(i, j, k) == j # k /\ row_collect(w, i) = {j, k}

(* A row with two entries is the sum of two products.                      *)
LEMMA PairRowSum ==
  ASSUME IsFiniteSet(lp.cols), w \in Image, NEW i, NEW j, NEW k, TwoEntries(i, j, k), NEW x \in [lp.cols -> Int]
  PROVE  RowSum(w, i, x) = w.A[j][i] * x[j] + w.A[k][i] * x[k]
<1> DEFINE f == RowPart(w, i, x)
<1>1. /\ j \in lp.cols /\ j \in w.cols /\ i \in DOMAIN w.A[j]
      /\ k \in lp.cols /\ k \in w.cols /\ i \in DOMAIN w.A[k]
  BY DEF Image, row_collect, TwoEntries
<1>2. /\ \A q \in lp.cols : f[q] \in Int
      /\ f[j] = w.A[j][i] * x[j] /\ f[k] = w.A[k][i] * x[k]
      /\ \A q \in lp.cols \ {j, k} : f[q] = 0
  BY <1>1, PartsAre DEF RowPart, row_collect, TwoEntries
<1> HIDE DEF f
<1>3. Total(f, lp.cols) = f[j] + f[k]
  BY <1>1, <1>2, TotalOfJustTwo DEF TwoEntries
<1> QED BY <1>2, <1>3 DEF RowSum, f

(* The bound that a row with one entry becomes.                            *)
LEMMA SingletonBounds ==
  ASSUME NEW a \in Int, a # 0, NEW b \in Int, NEW y \in Int, NEW rel, Meets(rel, a * y, b * U)
  PROVE  LET upper == rel = "=" \/ (rel = "<") = (a > 0)
             lower == rel = "=" \/ ~upper
         IN  /\ lower => Div(b, a) <= y
             /\ upper => y <= Ceil(b * U, a)
<1> DEFINE p == b * U
           s == a * y
           upper == rel = "=" \/ (rel = "<") = (a > 0)
           lower == rel = "=" \/ ~upper
<1>1. p \in Int /\ s \in Int
  BY UnitIs
<1>2. Div(b, a) = Floor(p, a)
  BY DEF Div
<1>3. Meets(rel, s, p)
  OBVIOUS
<1> HIDE DEF p
<1>4. /\ Floor(p, a) \in Int /\ Ceil(p, a) \in Int
      /\ a > 0 /\ s >= p => Floor(p, a) <= y
      /\ a < 0 /\ s <= p => Floor(p, a) <= y
      /\ a > 0 /\ s <= p => y <= Ceil(p, a)
      /\ a < 0 /\ s >= p => y <= Ceil(p, a)
  BY <1>1, FloorIs, CeilIs
<1> HIDE DEF s
<1>5. (rel = "=" => s = p) /\ (rel = "<" => s <= p) /\ (rel # "<" /\ rel # "=" => s >= p)
  BY <1>1, <1>3 DEF Meets
<1>6. lower => Div(b, a) <= y
  <2>1. CASE a > 0
    BY <1>1, <1>2, <1>4, <1>5, <2>1
  <2>2. CASE a < 0
    BY <1>1, <1>2, <1>4, <1>5, <2>2
  <2> QED BY <2>1, <2>2
<1>7. upper => y <= Ceil(p, a)
  <2>1. CASE a > 0
    BY <1>1, <1>4, <1>5, <2>1
  <2>2. CASE a < 0
    BY <1>1, <1>4, <1>5, <2>2
  <2> QED BY <2>1, <2>2
<1> QED BY <1>6, <1>7 DEF p

(* Least and greatest of two numbers.                                      *)
LEMMA EndsAre ==
  ASSUME NEW m1 \in Int, NEW m2 \in Int
  PROVE  /\ Min({m1, m2}) \in {m1, m2} /\ Min({m1, m2}) <= m1 /\ Min({m1, m2}) <= m2
         /\ Max({m1, m2}) \in {m1, m2} /\ m1 <= Max({m1, m2}) /\ m2 <= Max({m1, m2})
<1>1. \E q \in {m1, m2} : \A r \in {m1, m2} : q <= r
  OBVIOUS
<1>2. \E q \in {m1, m2} : \A r \in {m1, m2} : q >= r
  OBVIOUS
<1>3. Min({m1, m2}) \in {m1, m2} /\ \A r \in {m1, m2} : Min({m1, m2}) <= r
  BY <1>1 DEF Min
<1>4. Max({m1, m2}) \in {m1, m2} /\ \A r \in {m1, m2} : Max({m1, m2}) >= r
  BY <1>2 DEF Max
<1> QED BY <1>3, <1>4

(* What the box of one column leaves the other column of an equality.      *)
LEMMA QuotientsBound ==
  ASSUME NEW low \in Int, NEW high \in Int, NEW e \in Int, NEW y \in Int
  PROVE  LET int == IF e > 0 THEN [lo |-> DivDown(low, e, -Huge), hi |-> DivUp(high, e, Huge)]
                             ELSE [lo |-> DivDown(high, e, -Huge), hi |-> DivUp(low, e, Huge)]
         IN  /\ int.lo \in Int /\ int.hi \in Int
             /\ low * U <= e * y /\ e * y <= high * U =>
                  /\ int.lo > -Inf /\ int.lo < Inf => int.lo <= y
                  /\ int.hi > -Inf /\ int.hi < Inf => y <= int.hi
<1> DEFINE p == low * U
           q == high * U
           s == e * y
           int == IF e > 0 THEN [lo |-> DivDown(low, e, -Huge), hi |-> DivUp(high, e, Huge)]
                           ELSE [lo |-> DivDown(high, e, -Huge), hi |-> DivUp(low, e, Huge)]
<1>1. p \in Int /\ q \in Int /\ s \in Int
  BY UnitIs
<1>2. CASE e # 0
  <2>1. /\ int.lo = (IF e > 0 THEN Floor(p, e) ELSE Floor(q, e))
        /\ int.hi = (IF e > 0 THEN Ceil(q, e) ELSE Ceil(p, e))
    BY <1>2 DEF DivDown, DivUp, Div
  <2> HIDE DEF p, q
  <2>2. /\ Floor(p, e) \in Int /\ Floor(q, e) \in Int /\ Ceil(p, e) \in Int /\ Ceil(q, e) \in Int
        /\ e > 0 /\ s >= p => Floor(p, e) <= y
        /\ e < 0 /\ s <= q => Floor(q, e) <= y
        /\ e > 0 /\ s <= q => y <= Ceil(q, e)
        /\ e < 0 /\ s >= p => y <= Ceil(p, e)
    BY <1>1, <1>2, FloorIs, CeilIs
  <2> HIDE DEF s, int
  <2>3. p <= s /\ s <= q => int.lo <= y /\ y <= int.hi
    BY <1>1, <1>2, <2>1, <2>2
  <2> QED BY <1>1, <2>1, <2>2, <2>3 DEF p, q, s, int
<1>3. CASE e = 0
  <2>1. int.lo \in {Huge, -Huge} /\ int.hi \in {Huge, -Huge}
    BY <1>3 DEF DivDown, DivUp
  <2> HIDE DEF int
  <2>2. int.lo \in Int /\ int.hi \in Int /\ ~(int.lo > -Inf /\ int.lo < Inf)
        /\ ~(int.hi > -Inf /\ int.hi < Inf)
    BY <2>1, UnitIs
  <2> QED BY <2>2 DEF int
<1> QED BY <1>2, <1>3

(* A point of the image lies within the implied interval.                  *)
LEMMA ImpliedIs ==
  ASSUME IsFiniteSet(lp.cols), w \in Image, NEW i \in w.rows, NEW j, NEW k, TwoEntries(i, j, k), lp.rel[i] = "=",
         ExactMul(-w.A[j][i], w.lo[j]), ExactMul(-w.A[j][i], w.hi[j])
  PROVE  LET implied == ImpliedInterval(i, j, k)
         IN  /\ implied.lo \in Int /\ implied.hi \in Int
             /\ \A x \in [lp.cols -> Int] : Point(w, x) =>
                  /\ implied.lo > -Inf /\ implied.lo < Inf => implied.lo <= x[k]
                  /\ implied.hi > -Inf /\ implied.hi < Inf => x[k] <= implied.hi
<1> DEFINE a == w.A[j][i]
           e == w.A[k][i]
           b == w.b[i]
           lo == w.lo[j]
           hi == w.hi[j]
           m1 == Mul(-a, lo)
           m2 == Mul(-a, hi)
           mn == Min({m1, m2})
           mx == Max({m1, m2})
           low == b + mn
           high == b + mx
           implied == ImpliedInterval(i, j, k)
<1>1. /\ j \in lp.cols /\ j \in w.cols /\ i \in DOMAIN w.A[j]
      /\ k \in lp.cols /\ k \in w.cols /\ i \in DOMAIN w.A[k]
      /\ i \in lp.rows /\ b \in Int
  BY DEF Image, row_collect, TwoEntries
<1>2. a \in Int /\ e \in Int /\ lo \in Int /\ hi \in Int /\ -a \in Int
  BY <1>1, EntriesAre
<1>3. implied = IF e > 0 THEN [lo |-> DivDown(low, e, -Huge), hi |-> DivUp(high, e, Huge)]
                ELSE [lo |-> DivDown(high, e, -Huge), hi |-> DivUp(low, e, Huge)]
  BY DEF ImpliedInterval
<1>4. m1 \in Int /\ m1 * U = (-a) * lo /\ m2 \in Int /\ m2 * U = (-a) * hi
  BY <1>2, MulIs DEF ExactMul
<1> HIDE DEF m1, m2
<1>5. mn \in {m1, m2} /\ mn <= m1 /\ mn <= m2 /\ mx \in {m1, m2} /\ m1 <= mx /\ m2 <= mx
  BY <1>4, EndsAre
<1> HIDE DEF mn, mx
<1>6. mn \in Int /\ mx \in Int /\ low \in Int /\ high \in Int /\ low = b + mn /\ high = b + mx
  BY <1>1, <1>4, <1>5
<1> HIDE DEF low, high
<1>7. implied.lo \in Int /\ implied.hi \in Int
  <2> HIDE DEF e, implied
  <2>1. 0 \in Int
    OBVIOUS
  <2> QED BY <1>2, <1>3, <1>6, <2>1, QuotientsBound
<1>8. ASSUME NEW x \in [lp.cols -> Int], Point(w, x)
      PROVE  /\ implied.lo > -Inf /\ implied.lo < Inf => implied.lo <= x[k]
             /\ implied.hi > -Inf /\ implied.hi < Inf => x[k] <= implied.hi
  <2> DEFINE xj == x[j]
             xk == x[k]
  <2>1. xj \in Int /\ xk \in Int /\ lo <= xj /\ xj <= hi
    BY <1>1, <1>8 DEF Point, Within
  <2>2. RowSum(w, i, x) = w.A[j][i] * x[j] + w.A[k][i] * x[k]
    <3> HIDE DEF a, e, b, lo, hi, xj, xk, implied
    <3> QED BY PairRowSum
  <2>3. RowSum(w, i, x) = b * U
    BY <1>8 DEF Point, OnRows, Meets
  <2> HIDE DEF a, e, b, lo, hi, xj, implied
  <2>4. low * U <= e * xk /\ e * xk <= high * U
    <3> HIDE DEF xk
    <3>1. low * U = b * U + mn * U /\ high * U = b * U + mx * U /\ b * U \in Int
          /\ mn * U \in Int /\ mx * U \in Int /\ m1 * U \in Int /\ m2 * U \in Int
          /\ a * xj \in Int /\ e * xk \in Int
      BY <1>1, <1>2, <1>4, <1>6, <2>1, UnitIs
    <3>2. mn * U <= m1 * U /\ mn * U <= m2 * U /\ m1 * U <= mx * U /\ m2 * U <= mx * U
      <4>1. \A p, q \in Int : p <= q => p * U <= q * U
        <5>1. ASSUME NEW p \in Int, NEW q \in Int, p <= q PROVE p * U <= q * U
          <6>1. q - p \in Nat /\ U \in Nat /\ (q - p) * U = q * U - p * U /\ p * U \in Int /\ q * U \in Int
            BY <5>1, UnitIs
          <6>2. (q - p) * U >= 0
            BY <6>1
          <6> QED BY <6>1, <6>2
        <5> QED BY <5>1
      <4> QED BY <1>4, <1>5, <1>6, <4>1
    <3> DEFINE t1 == (-a) * lo
               t2 == (-a) * hi
               y == a * xj
    <3>3. t1 \in Int /\ t2 \in Int /\ y \in Int /\ ((t1 <= -y /\ -y <= t2) \/ (t2 <= -y /\ -y <= t1))
      <4>1. CASE a >= 0
        <5>1. a * (xj - lo) >= 0 /\ a * (hi - xj) >= 0
          <6>1. xj - lo \in Nat /\ hi - xj \in Nat /\ a \in Nat
            BY <1>2, <2>1, <4>1
          <6> QED BY <6>1
        <5>2. a * (xj - lo) = y + t1 /\ a * (hi - xj) = -t2 - y /\ t1 \in Int /\ t2 \in Int /\ y \in Int
          BY <1>2, <2>1
        <5> HIDE DEF t1, t2, y
        <5> QED BY <5>1, <5>2
      <4>2. CASE a < 0
        <5>1. (-a) * (xj - lo) >= 0 /\ (-a) * (hi - xj) >= 0
          <6>1. xj - lo \in Nat /\ hi - xj \in Nat /\ -a \in Nat
            BY <1>2, <2>1, <4>2
          <6> QED BY <6>1
        <5>2. (-a) * (xj - lo) = -y - t1 /\ (-a) * (hi - xj) = t2 + y /\ t1 \in Int /\ t2 \in Int /\ y \in Int
          BY <1>2, <2>1
        <5> HIDE DEF t1, t2, y
        <5> QED BY <5>1, <5>2
      <4> QED BY <1>2, <4>1, <4>2
    <3>4. m1 * U = t1 /\ m2 * U = t2
      BY <1>4
    <3>5. y + e * xk = b * U
      BY <2>2, <2>3 DEF a, e, b, xj, xk
    <3> DEFINE z == e * xk
               bu == b * U
               p1 == m1 * U
               p2 == m2 * U
               pn == mn * U
               px == mx * U
               pl == low * U
               ph == high * U
    <3>6. /\ pl = bu + pn /\ ph = bu + px /\ bu \in Int /\ pn \in Int /\ px \in Int
          /\ p1 \in Int /\ p2 \in Int /\ z \in Int
          /\ pn <= p1 /\ pn <= p2 /\ p1 <= px /\ p2 <= px
          /\ p1 = t1 /\ p2 = t2 /\ y + z = bu
      BY <3>1, <3>2, <3>4, <3>5
    <3> HIDE DEF t1, t2, y, z, bu, p1, p2, pn, px, pl, ph
    <3>7. pl <= z /\ z <= ph
      BY <3>3, <3>6
    <3> QED BY <3>7 DEF pl, ph, z
  <2> HIDE DEF xk
  <2>5. /\ implied.lo > -Inf /\ implied.lo < Inf => implied.lo <= xk
        /\ implied.hi > -Inf /\ implied.hi < Inf => xk <= implied.hi
    BY <1>2, <1>3, <1>6, <2>1, <2>4, QuotientsBound
  <2> QED BY <2>5 DEF xk
<1> QED BY <1>7, <1>8 DEF implied

(* The pivot and its partner are the two columns of the row.               *)
LEMMA PivotRowIs ==
  ASSUME IsFiniteSet(lp.cols), lp.cols \subseteq Int, w \in Image, NEW i, IsDoubleton(i)
  PROVE  LET j == Pivot(i)
             k == CHOOSE e \in row_collect(w, i) : e # j
         IN  TwoEntries(i, j, k) /\ w.A[j][i] # 0
<1> DEFINE S == row_collect(w, i)
           j == Pivot(i)
           k == CHOOSE e \in S : e # j
<1>1. IsFiniteSet(S) /\ Cardinality(S) = 2 /\ S \subseteq lp.cols /\ S \subseteq Int
  BY CollectIs DEF IsDoubleton
<1>2. \A q \in S : w.A[q][i] \in Int
  <2> TAKE q \in S
  <2>1. q \in lp.cols /\ i \in DOMAIN w.A[q]
    BY <1>1 DEF row_collect
  <2> QED BY <2>1, EntriesAre
<1>3. \E q \in S : w.A[q][i] # 0
  BY DEF IsDoubleton
<1> HIDE DEF S
<1>4. PICK p \in S : TRUE
  BY <1>3
<1>5. IsFiniteSet(S \ {p}) /\ Cardinality(S \ {p}) = 1
  BY <1>1, FS_RemoveElement
<1>6. PICK q : S \ {p} = {q}
  BY <1>5, FS_Singleton
<1>7. S = {p, q} /\ p # q /\ p \in Int /\ q \in Int
  BY <1>1, <1>4, <1>6
<1>8. Min(S) \in S /\ Max(S) \in S /\ Min(S) # Max(S) /\ S = {Min(S), Max(S)}
  <2>1. Min({p, q}) \in {p, q} /\ Min({p, q}) <= p /\ Min({p, q}) <= q
        /\ Max({p, q}) \in {p, q} /\ p <= Max({p, q}) /\ q <= Max({p, q})
    BY <1>7, EndsAre
  <2> QED BY <1>7, <2>1
<1>9. j \in S /\ w.A[j][i] # 0
  <2> DEFINE j0 == Min(S)
             j1 == Max(S)
  <2>1. j = (IF Mag(w.A[j1][i]) > Mag(w.A[j0][i])
                \/ /\ Mag(w.A[j1][i]) = Mag(w.A[j0][i])
                   /\ Cardinality(DOMAIN w.A[j1]) < Cardinality(DOMAIN w.A[j0])
             THEN j1 ELSE j0)
    BY DEF Pivot, S
  <2>2. j0 \in S /\ j1 \in S /\ S = {j0, j1}
    BY <1>8
  <2> HIDE DEF j, j0, j1
  <2>3. j \in {j0, j1}
    BY <2>1
  <2>4. w.A[j0][i] \in Int /\ w.A[j1][i] \in Int
    BY <1>2, <2>2
  <2>5. w.A[j0][i] # 0 \/ w.A[j1][i] # 0
    BY <1>3, <2>2
  <2>6. w.A[j][i] # 0
    BY <2>1, <2>4, <2>5 DEF Mag
  <2> QED BY <2>2, <2>3, <2>6
<1> HIDE DEF j
<1>10. \E e \in S : e # j
  BY <1>8
<1>11. k \in S /\ k # j
  BY <1>10
<1> HIDE DEF k
<1>12. S = {j, k}
  BY <1>7, <1>9, <1>11
<1> QED BY <1>9, <1>11, <1>12 DEF j, k, S, TwoEntries

(* No entry that cancelled is left, as after a rebuild.                    *)
NoZeros(v) == \A j \in v.cols : \A i \in DOMAIN v.A[j] : v.A[j][i] # 0

(* The inductive invariant.  Every point of the LP is one of the image, at *)
(* its cost if the empty columns are where presolve set them.  The first   *)
(* scan has not reached the columns ahead of it, and the scan of rows      *)
(* meets no cancelled entry: a fold would divide by it.                    *)
PresolveInv ==
  /\ Program(lp)
  /\ w \in Image
  /\ \E S : recs \in Seq(S)
  /\ phase = "rows" => NoZeros(w)
  /\ phase = "empty" => at \in Int /\ \A j \in lp.cols : j >= at => j \in w.cols
  /\ \A x \in Feasible : Point(w, x)
  /\ \A x \in Settled : Costs(w, x)
  /\ rc = "infeasible" => Feasible = {}

(* What the invariant needs of a program and of its points.                *)
LEMMA ProgramIs ==
  ASSUME Program(lp)
  PROVE  /\ IsFiniteSet(lp.cols) /\ IsFiniteSet(lp.rows) /\ lp.cols \subseteq Int
         /\ \A x \in Feasible : x \in [lp.cols -> Int]
<1>1. IsFiniteSet(lp.cols) /\ IsFiniteSet(lp.rows) /\ lp.cols \subseteq Int
  BY DEF Program, IsLp, Tables
<1>2. Grid \subseteq Int
  BY GridAssumption, UnitIs
<1> QED BY <1>1, <1>2 DEF Feasible

(* A record more keeps the ones before it.                                 *)
LEMMA AppendIs ==
  ASSUME NEW S, NEW s \in Seq(S), NEW r
  PROVE  /\ \E T : Append(s, r) \in Seq(T)
         /\ \A t \in DOMAIN s : t \in DOMAIN Append(s, r) /\ Append(s, r)[t] = s[t]
<1>1. s \in Seq(S \cup {r}) /\ r \in S \cup {r}
  OBVIOUS
<1>2. Append(s, r) \in Seq(S \cup {r})
  BY <1>1
<1> QED BY <1>1, <1>2

(* Records are only appended.                                              *)
Grows == recs' = recs \/ \E r : recs' = Append(recs, r)

(* The original and what has been set stay.                                *)
LEMMA SameProgram ==
  ASSUME PresolveInv, lp' = lp, Grows
  PROVE  /\ Program(lp)' /\ Image' = Image /\ Feasible' = Feasible
         /\ (\E S : recs \in Seq(S))' /\ \A x \in Settled' : x \in Settled
<1>1. Program(lp)' /\ Image' = Image /\ Feasible' = Feasible
  BY DEF PresolveInv, Image, Feasible
<1>2. PICK S : recs \in Seq(S)
  BY DEF PresolveInv
<1>3. /\ (\E T : recs \in Seq(T))'
      /\ \A t \in DOMAIN recs : t \in DOMAIN recs' /\ recs'[t] = recs[t]
  <2>1. CASE recs' = recs
    BY <1>2, <2>1
  <2>2. CASE \E r : recs' = Append(recs, r)
    <3>1. PICK r : recs' = Append(recs, r)
      BY <2>2
    <3>2. /\ \E T : Append(recs, r) \in Seq(T)
          /\ \A t \in DOMAIN recs : t \in DOMAIN Append(recs, r) /\ Append(recs, r)[t] = recs[t]
      BY <1>2, AppendIs, Zenon
    <3> QED BY <3>1, <3>2
  <2> QED BY <2>1, <2>2 DEF Grows
<1>4. \A x \in Settled' : x \in Settled
  <2> SUFFICES ASSUME NEW x \in Settled' PROVE x \in Settled
    OBVIOUS
  <2>1. x \in Feasible /\ \A t \in DOMAIN recs' : recs'[t].kind = "col_empty" => x[recs'[t].j] = recs'[t].v
    BY <1>1 DEF Settled
  <2>2. \A t \in DOMAIN recs : recs[t].kind = "col_empty" => x[recs[t].j] = recs[t].v
    BY <1>3, <2>1
  <2> QED BY <2>1, <2>2 DEF Settled
<1> QED BY <1>1, <1>3, <1>4

(* A point of the next image is one of the image that MoveOn is given.     *)
LEMMA MovedImage ==
  ASSUME lp' = lp, NEW v, w' = v, NEW x
  PROVE  Point(w, x)' = Point(v, x) /\ Costs(w, x)' = Costs(v, x)
BY DEF Point, Within, OnRows, RowSum, RowPart, Costs, CostSum, CostPart

(* A decision keeps the invariant if an infeasible verdict is true.        *)
LEMMA DecideKeeps ==
  ASSUME PresolveInv, NEW code, NEW y, Decide(code, y), code = "infeasible" => Feasible = {}
  PROVE  PresolveInv'
<1>1. lp' = lp /\ w' = w /\ recs' = recs /\ phase' = "done" /\ rc' = code
  BY DEF Decide
<1>2. Grows
  BY <1>1 DEF Grows
<1>3. /\ Program(lp)' /\ Image' = Image /\ Feasible' = Feasible
      /\ (\E S : recs \in Seq(S))' /\ \A x \in Settled' : x \in Settled
  BY <1>1, <1>2, SameProgram
<1>4. (w \in Image)' /\ (\A x \in Feasible : Point(w, x))' /\ (\A x \in Settled : Costs(w, x))'
  <2>1. w \in Image /\ (\A x \in Feasible : Point(w, x)) /\ (\A x \in Settled : Costs(w, x))
    BY DEF PresolveInv
  <2>3. \A x : Point(w, x)' = Point(w, x) /\ Costs(w, x)' = Costs(w, x)
    BY <1>1, MovedImage
  <2> QED BY <1>1, <1>3, <2>1, <2>3
<1> QED BY <1>1, <1>3, <1>4 DEF PresolveInv

(* Moving on keeps it if the new image has every point at the same cost.   *)
LEMMA MoveKeeps ==
  ASSUME PresolveInv, NEW v \in Image, MoveOn(v), lp' = lp, rc' = rc, Grows,
         phase \in {"rows", "redundant", "fixed", "doubleton"},
         phase = "rows" => NoZeros(v),
         \A x \in Feasible : Point(v, x) /\ (Costs(w, x) => Costs(v, x))
  PROVE  PresolveInv'
<1>1. w' = v /\ phase' \in {phase, "redundant", "fixed", "doubleton", "end"}
  BY DEF MoveOn, NextPhase
<1>2. /\ Program(lp)' /\ Image' = Image /\ Feasible' = Feasible
      /\ (\E S : recs \in Seq(S))' /\ \A x \in Settled' : x \in Settled
  BY SameProgram
<1>3. (phase = "rows" => NoZeros(w))'
  BY <1>1 DEF NoZeros
<1>4. (phase = "empty" => at \in Int /\ \A j \in lp.cols : j >= at => j \in w.cols)'
  BY <1>1
<1>5. \A x : Point(w, x)' = Point(v, x) /\ Costs(w, x)' = Costs(v, x)
  BY <1>1, MovedImage
<1>6. \A x \in Feasible' : Point(w, x)'
  BY <1>2, <1>5
<1>7. \A x \in Settled' : Costs(w, x)'
  <2> SUFFICES ASSUME NEW x \in Settled' PROVE Costs(w, x)'
    OBVIOUS
  <2>1. x \in Settled /\ x \in Feasible
    BY <1>2 DEF Settled
  <2>2. Costs(w, x)
    BY <2>1 DEF PresolveInv
  <2> QED BY <1>5, <2>1, <2>2
<1>8. (rc = "infeasible" => Feasible = {})'
  BY <1>2 DEF PresolveInv
<1> QED BY <1>1, <1>2, <1>3, <1>4, <1>6, <1>7, <1>8 DEF PresolveInv

(* A verdict on one row ends the run, with its ray or without one.         *)
LEMMA OneRowDecides ==
  ASSUME NEW i, NEW s, OneRowIfOriginal(i, s) \/ OneRow(i, s)
  PROVE  \E code, y : Decide(code, y)
BY DEF OneRowIfOriginal, OneRow, Infeasible, Decline

(* A program without points can be given any verdict.                      *)
LEMMA NoPointKeeps ==
  ASSUME PresolveInv, Feasible = {}, \E code, y : Decide(code, y)
  PROVE  PresolveInv'
BY DecideKeeps

(* Declining is always safe.                                               *)
LEMMA DeclineKeeps == ASSUME PresolveInv, Decline PROVE PresolveInv'
<1>1. "declined" # "infeasible"
  OBVIOUS
<1> QED BY <1>1, DecideKeeps DEF Decline

(* A reduction keeps the invariant if the new image has every point at the *)
(* same cost.                                                              *)
LEMMA ReduceKeeps ==
  ASSUME PresolveInv, NEW v \in Image, NEW rec, Reduce(v, rec),
         phase \in {"rows", "redundant", "fixed", "doubleton"},
         phase = "rows" => NoZeros(v),
         \A x \in Feasible : Point(v, x) /\ (Costs(w, x) => Costs(v, x))
  PROVE  PresolveInv'
<1>1. MoveOn(v) /\ lp' = lp /\ rc' = rc /\ recs' = Append(recs, rec)
  BY DEF Reduce
<1>2. Grows
  BY <1>1 DEF Grows
<1> QED BY <1>1, <1>2, MoveKeeps

(* EmptyRow: zero meets the row, or no point does.                         *)
LEMMA EmptyRowKeeps == ASSUME PresolveInv, EmptyRow PROVE PresolveInv'
<1> DEFINE i == at
           v == [w EXCEPT !.rows = @ \ {i}]
<1>1. /\ phase = "rows" /\ i \in w.rows /\ row_collect(w, i) = {}
      /\ \/ Meets(lp.rel[i], 0, w.b[i]) /\ Reduce(v, [kind |-> "row_empty", i |-> i])
         \/ ~Meets(lp.rel[i], 0, w.b[i]) /\ \E s : OneRowIfOriginal(i, s)
  BY DEF EmptyRow, Scans
<1>2. Program(lp) /\ w \in Image /\ NoZeros(w)
  BY <1>1 DEF PresolveInv
<1>3. CASE Meets(lp.rel[i], 0, w.b[i]) /\ Reduce(v, [kind |-> "row_empty", i |-> i])
  <2>1. /\ v \in Image /\ v.A = w.A /\ v.cols = w.cols
        /\ \A x : (Point(w, x) => Point(v, x)) /\ (Costs(w, x) => Costs(v, x))
    BY <1>2, RowOutKeeps
  <2>2. NoZeros(v)
    BY <1>2, <2>1 DEF NoZeros
  <2>3. \A x \in Feasible : Point(v, x) /\ (Costs(w, x) => Costs(v, x))
    BY <2>1 DEF PresolveInv
  <2> HIDE DEF v
  <2> QED BY <1>1, <1>3, <2>1, <2>2, <2>3, ReduceKeeps
<1>4. CASE ~Meets(lp.rel[i], 0, w.b[i]) /\ \E s : OneRowIfOriginal(i, s)
  <2>1. ASSUME NEW x \in Feasible PROVE FALSE
    <3>1. x \in [lp.cols -> Int] /\ IsFiniteSet(lp.cols)
      BY <1>2, ProgramIs
    <3>2. RowSum(w, i, x) = 0
      BY <1>1, <1>2, <3>1, EmptyRowSum
    <3>3. Meets(lp.rel[i], 0, w.b[i] * U)
      BY <1>1, <3>2 DEF PresolveInv, Point, OnRows
    <3>4. w.b[i] \in Int
      BY <1>1, <1>2 DEF Image
    <3> QED BY <1>4, <3>3, <3>4, ZeroSideIs
  <2>2. Feasible = {}
    BY <2>1
  <2>3. \E code, y : Decide(code, y)
    BY <1>4, OneRowDecides
  <2> QED BY <2>2, <2>3, NoPointKeeps
<1> QED BY <1>1, <1>3, <1>4

(* RedundantRow: every point violates the row, or the others imply it.     *)
LEMMA RedundantRowKeeps == ASSUME PresolveInv, ExactHere, RedundantRow PROVE PresolveInv'
<1> DEFINE i == at
           v == [w EXCEPT !.rows = @ \ {i}]
           act == row_activity(w, i)
<1>1. /\ phase = "redundant" /\ i \in w.rows
      /\ \/ NeverMet(i) /\ \E s : OneRowIfOriginal(i, s)
         \/ Reduce(v, [kind |-> "row_redundant", i |-> i])
  BY DEF RedundantRow, Scans
<1>2. Program(lp) /\ w \in Image
  BY DEF PresolveInv
<1>3. CASE Reduce(v, [kind |-> "row_redundant", i |-> i])
  <2>1. /\ v \in Image /\ v.A = w.A /\ v.cols = w.cols
        /\ \A x : (Point(w, x) => Point(v, x)) /\ (Costs(w, x) => Costs(v, x))
    BY <1>2, RowOutKeeps
  <2>3. \A x \in Feasible : Point(v, x) /\ (Costs(w, x) => Costs(v, x))
    BY <2>1 DEF PresolveInv
  <2> HIDE DEF v
  <2> QED BY <1>1, <1>3, <2>1, <2>3, ReduceKeeps
<1>4. CASE NeverMet(i) /\ \E s : OneRowIfOriginal(i, s)
  <2>1. ASSUME NEW x \in Feasible PROVE FALSE
    <3>1. x \in [lp.cols -> Int] /\ IsFiniteSet(lp.cols)
      BY <1>2, ProgramIs
    <3>2. Point(w, x)
      BY DEF PresolveInv
    <3>3. /\ act.min \in Int /\ act.max \in Int /\ RowSum(w, i, x) \in Int
          /\ act.min = -Huge \/ act.min * U <= RowSum(w, i, x)
          /\ act.max = Huge \/ RowSum(w, i, x) <= act.max * U
      BY <1>2, <3>1, <3>2, ActivityBounds DEF Point
    <3>4. Meets(lp.rel[i], RowSum(w, i, x), w.b[i] * U)
      BY <1>1, <3>2 DEF Point, OnRows
    <3>5. w.b[i] \in Int /\ -Huge < w.b[i] /\ w.b[i] < Huge
      BY <1>1, <1>2 DEF Image, ExactHere
    <3>6. \/ lp.rel[i] = "<" /\ act.min > w.b[i]
          \/ lp.rel[i] = ">" /\ act.max < w.b[i]
      BY <1>4 DEF NeverMet
    <3> HIDE DEF act, i
    <3>7. CASE lp.rel[i] = "<" /\ act.min > w.b[i]
      <4>1. act.min * U <= w.b[i] * U
        BY <3>3, <3>4, <3>5, <3>7, UnitIs DEF Meets
      <4>2. act.min <= w.b[i]
        <5>1. U * act.min <= U * w.b[i]
          BY <3>3, <3>5, <4>1, UnitIs
        <5> QED BY <3>3, <3>5, <5>1, UnitIs, TimesMonotone
      <4> QED BY <3>3, <3>5, <3>7, <4>2
    <3>8. CASE lp.rel[i] = ">" /\ act.max < w.b[i]
      <4>1. w.b[i] * U <= act.max * U
        BY <3>3, <3>4, <3>5, <3>8, UnitIs DEF Meets
      <4>2. w.b[i] <= act.max
        <5>1. U * w.b[i] <= U * act.max
          BY <3>3, <3>5, <4>1, UnitIs
        <5> QED BY <3>3, <3>5, <5>1, UnitIs, TimesMonotone
      <4> QED BY <3>3, <3>5, <3>8, <4>2
    <3> QED BY <3>6, <3>7, <3>8
  <2>2. Feasible = {}
    BY <2>1
  <2>3. \E code, y : Decide(code, y)
    BY <1>4, OneRowDecides
  <2> QED BY <2>2, <2>3, NoPointKeeps
<1> QED BY <1>1, <1>3, <1>4

(* FixedColumn: every point has the value of the fixed column.             *)
LEMMA FixedColumnStep == ASSUME PresolveInv, ExactHere, FixedColumn PROVE PresolveInv'
<1> DEFINE j == at
           val == w.lo[j]
           rows == DOMAIN w.A[j]
           v == [w EXCEPT !.cols = @ \ {j},
                          !.objconst = @ + Mul(w.c[j], val),
                          !.b = [i \in lp.rows |-> IF i \in rows THEN @[i] - Mul(w.A[j][i], val) ELSE @[i]],
                          !.touched = @ \cup rows]
<1>1. /\ phase = "fixed" /\ j \in w.cols /\ Fixed(j)
      /\ Reduce(v, [kind |-> "col_fixed", j |-> j, v |-> val])
  BY DEF FixedColumn, Scans
<1>2. Program(lp) /\ w \in Image /\ IsFiniteSet(lp.cols) /\ \A x \in Feasible : x \in [lp.cols -> Int]
  BY ProgramIs DEF PresolveInv
<1>3. /\ w.lo[j] = w.hi[j] /\ ExactMul(w.c[j], w.lo[j])
      /\ \A i \in DOMAIN w.A[j] : ExactMul(w.A[j][i], w.lo[j])
  BY <1>1 DEF ExactHere, Fixed
<1>4. /\ v \in Image
      /\ \A x \in [lp.cols -> Int] : Point(w, x) => Point(v, x) /\ (Costs(w, x) => Costs(v, x))
  BY <1>1, <1>2, <1>3, FixedColumnKeeps
<1> HIDE DEF v
<1>5. \A x \in Feasible : Point(v, x) /\ (Costs(w, x) => Costs(v, x))
  BY <1>2, <1>4 DEF PresolveInv
<1> QED BY <1>1, <1>4, <1>5, ReduceKeeps

(* SingletonRow: the row's bound holds at every point, whatever            *)
(* fold_bounds does with it, and a conflict means that there is no point.  *)
LEMMA SingletonRowStep == ASSUME PresolveInv, SingletonRow PROVE PresolveInv'
<1> DEFINE i == at
           j == CHOOSE e \in row_collect(w, i) : TRUE
           a == w.A[j][i]
           upper == lp.rel[i] = "=" \/ (lp.rel[i] = "<") = (a > 0)
           lower == lp.rel[i] = "=" \/ ~upper
           vlo == IF lower THEN Div(w.b[i], a) ELSE w.lo[j]
           vhi == IF upper THEN Ceil(w.b[i] * U, a) ELSE w.hi[j]
           fold == fold_bounds(w, j, vlo, vhi, i, "singleton", FALSE)
           v == [fold.w EXCEPT !.rows = @ \ {i}]
<1>1. /\ phase = "rows" /\ i \in w.rows /\ Cardinality(row_collect(w, i)) = 1
      /\ \/ fold.result \in {"low", "high", "pair low", "pair high"} /\ \E code, y : Decide(code, y)
         \/ Decline
         \/ fold.result \notin {"low", "high", "pair low", "pair high"} /\ \E rec : Reduce(v, rec)
  <2>1. phase = "rows" /\ i \in w.rows /\ Cardinality(row_collect(w, i)) = 1
    BY DEF SingletonRow, Scans
  <2>2. \E rec, side :
          CASE fold.result = "low" -> OneRowIfOriginal(i, -side)
            [] fold.result = "high" -> OneRowIfOriginal(i, side)
            [] fold.result = "pair low" -> SeparatePair(i, j, a, w.hi_src[j])
            [] fold.result = "pair high" -> SeparatePair(i, j, a, w.lo_src[j])
            [] OTHER -> IF fold.result = "abort" \/ ~SnapshotFits(rec) THEN Decline
                        ELSE Reduce(v, rec)
    BY DEF SingletonRow
  <2>3. \A s : OneRowIfOriginal(i, s) => \E code, y : Decide(code, y)
    BY OneRowDecides
  <2>4. \A src : SeparatePair(i, j, a, src) => \E code, y : Decide(code, y)
    BY DEF SeparatePair, Decline, Infeasible
  <2> HIDE DEF fold, v, a, j
  <2> QED BY <2>1, <2>2, <2>3, <2>4
<1>2. Program(lp) /\ w \in Image /\ IsFiniteSet(lp.cols) /\ (\A x \in Feasible : x \in [lp.cols -> Int])
      /\ NoZeros(w)
  BY <1>1, ProgramIs DEF PresolveInv
<1>3. row_collect(w, i) = {j} /\ j \in w.cols /\ j \in lp.cols /\ i \in DOMAIN w.A[j] /\ i \in lp.rows
  <2>1. IsFiniteSet(row_collect(w, i))
    BY <1>2, CollectIs
  <2>2. PICK e : row_collect(w, i) = {e}
    BY <1>1, <2>1, FS_Singleton
  <2>3. row_collect(w, i) = {j}
    BY <2>2
  <2> HIDE DEF j
  <2> QED BY <1>1, <1>2, <2>3 DEF row_collect, Image
<1> HIDE DEF j
<1>4. a \in Int /\ a # 0 /\ w.b[i] \in Int /\ w.lo[j] \in Int /\ w.hi[j] \in Int
  <2>1. w.b[i] \in Int
    BY <1>2, <1>3 DEF Image
  <2> QED BY <1>2, <1>3, <2>1, EntriesAre DEF NoZeros
<1>5. vlo \in Int /\ vhi \in Int
  <2> DEFINE b == w.b[i]
             p == b * U
  <2>1. p \in Int /\ 0 \in Int
    BY <1>4, UnitIs
  <2>2. Div(b, a) = Floor(p, a)
    BY DEF Div
  <2> HIDE DEF p, a
  <2>3. Floor(p, a) \in Int /\ Ceil(p, a) \in Int
    BY <1>4, <2>1, FloorIs, CeilIs
  <2> QED BY <1>4, <2>2, <2>3 DEF p
<1>6. ASSUME NEW x \in Feasible
      PROVE  vlo <= x[j] /\ x[j] <= vhi
  <2>1. x \in [lp.cols -> Int] /\ Point(w, x) /\ x[j] \in Int
    BY <1>2, <1>3 DEF PresolveInv
  <2>2. RowSum(w, i, x) = a * x[j]
    BY <1>2, <1>3, <2>1, SingleRowSum
  <2>3. Meets(lp.rel[i], a * x[j], w.b[i] * U) /\ w.lo[j] <= x[j] /\ x[j] <= w.hi[j]
    BY <1>1, <1>3, <2>1, <2>2 DEF Point, OnRows, Within
  <2> DEFINE rel == lp.rel[i]
             b == w.b[i]
             y == x[j]
             uppr == rel = "=" \/ (rel = "<") = (a > 0)
             lowr == rel = "=" \/ ~uppr
  <2>4. (lowr => Div(b, a) <= y) /\ (uppr => y <= Ceil(b * U, a))
    <3>1. a \in Int /\ a # 0 /\ b \in Int /\ y \in Int /\ Meets(rel, a * y, b * U)
      BY <1>4, <2>1, <2>3
    <3> HIDE DEF a, b, y, rel
    <3> QED BY <3>1, SingletonBounds
  <2>5. (lower <=> lowr) /\ (upper <=> uppr)
    OBVIOUS
  <2> HIDE DEF lowr, uppr, a
  <2> QED BY <2>3, <2>4, <2>5
<1> HIDE DEF vlo, vhi
<1>7. /\ fold.w \in Image /\ Narrowed(w, fold.w)
      /\ \A x \in [lp.cols -> Int] :
           /\ Within(w, x)
           /\ vlo > -Inf /\ vlo < Inf => vlo <= x[j]
           /\ vhi > -Inf /\ vhi < Inf => x[j] <= vhi
           => Within(fold.w, x)
      /\ \A x \in [lp.cols -> Int] :
           Within(w, x) /\ vlo <= x[j] /\ x[j] <= vhi => fold.result \in {"folded", "unchanged"}
  BY <1>2, <1>3, <1>5, FoldKeeps
<1> HIDE DEF fold
<1>8. /\ v \in Image /\ v.A = w.A /\ v.cols = w.cols
      /\ \A x : (Point(fold.w, x) => Point(v, x)) /\ (Costs(fold.w, x) => Costs(v, x))
  BY <1>7, RowOutKeeps DEF Narrowed
<1>9. CASE \E rec : Reduce(v, rec)
  <2>1. NoZeros(v)
    BY <1>2, <1>8 DEF NoZeros
  <2>2. ASSUME NEW x \in Feasible PROVE Point(v, x) /\ (Costs(w, x) => Costs(v, x))
    <3>1. x \in [lp.cols -> Int] /\ Point(w, x)
      BY <1>2 DEF PresolveInv
    <3>2. Within(fold.w, x)
      BY <1>6, <1>7, <3>1 DEF Point
    <3>3. (OnRows(w, x) => OnRows(fold.w, x)) /\ (Costs(w, x) => Costs(fold.w, x))
      BY <1>7, NarrowedKeeps
    <3> QED BY <1>8, <3>1, <3>2, <3>3 DEF Point
  <2>3. PICK rec : Reduce(v, rec)
    BY <1>9
  <2> HIDE DEF v
  <2> QED BY <1>1, <1>8, <2>1, <2>2, <2>3, ReduceKeeps
<1>10. CASE fold.result \in {"low", "high", "pair low", "pair high"} /\ \E code, y : Decide(code, y)
  <2>1. ASSUME NEW x \in Feasible PROVE FALSE
    <3>1. x \in [lp.cols -> Int] /\ Within(w, x)
      BY <1>2 DEF PresolveInv, Point
    <3>2. fold.result \in {"folded", "unchanged"}
      BY <1>6, <1>7, <3>1
    <3> QED BY <1>10, <3>2
  <2>2. Feasible = {}
    BY <2>1
  <2> QED BY <1>10, <2>2, NoPointKeeps
<1>11. CASE Decline
  BY <1>11, DeclineKeeps
<1> QED BY <1>1, <1>9, <1>10, <1>11

(* DoubletonConflict: a ray only if no point meets the row.                *)
LEMMA ConflictDecides ==
  ASSUME PresolveInv, NEW i \in w.rows, lp.rel[i] = "=", ExactHere, DoubletonConflict(i)
  PROVE  PresolveInv'
<1> DEFINE act == row_activity(w, i)
<1>1. \/ Decline
      \/ (act.min > w.b[i] \/ act.max < w.b[i]) /\ \E code, y : Decide(code, y)
  <2>1. \A s : OneRow(i, s) => \E code, y : Decide(code, y)
    BY OneRowDecides
  <2> QED BY <2>1 DEF DoubletonConflict
<1>2. Program(lp) /\ w \in Image /\ IsFiniteSet(lp.cols) /\ (\A x \in Feasible : x \in [lp.cols -> Int])
  BY ProgramIs DEF PresolveInv
<1>3. CASE Decline
  BY <1>3, DeclineKeeps
<1>4. CASE (act.min > w.b[i] \/ act.max < w.b[i]) /\ \E code, y : Decide(code, y)
  <2>1. ASSUME NEW x \in Feasible PROVE FALSE
    <3>1. x \in [lp.cols -> Int] /\ Point(w, x)
      BY <1>2 DEF PresolveInv
    <3>2. /\ act.min \in Int /\ act.max \in Int /\ RowSum(w, i, x) \in Int
          /\ act.min = -Huge \/ act.min * U <= RowSum(w, i, x)
          /\ act.max = Huge \/ RowSum(w, i, x) <= act.max * U
      BY <1>2, <3>1, ActivityBounds DEF Point
    <3>3. RowSum(w, i, x) = w.b[i] * U
      BY <3>1 DEF Point, OnRows, Meets
    <3>4. w.b[i] \in Int /\ -Huge < w.b[i] /\ w.b[i] < Huge
      BY <1>2 DEF Image, ExactHere
    <3> HIDE DEF act
    <3>5. CASE act.min > w.b[i]
      <4>1. U * act.min <= U * w.b[i]
        BY <3>2, <3>3, <3>4, <3>5, UnitIs
      <4> QED BY <3>2, <3>4, <3>5, <4>1, UnitIs, TimesMonotone
    <3>6. CASE act.max < w.b[i]
      <4>1. U * w.b[i] <= U * act.max
        BY <3>2, <3>3, <3>4, <3>6, UnitIs
      <4> QED BY <3>2, <3>4, <3>6, <4>1, UnitIs, TimesMonotone
    <3> QED BY <1>4, <3>5, <3>6
  <2>2. Feasible = {}
    BY <2>1
  <2> QED BY <1>4, <2>2, NoPointKeeps
<1> QED BY <1>1, <1>3, <1>4

(* DoubletonRow: the implied interval and the substitution hold at every   *)
(* point of the row.                                                       *)
LEMMA DoubletonRowStep == ASSUME PresolveInv, ExactHere, DoubletonRow PROVE PresolveInv'
<1> DEFINE i == at
           j == Pivot(i)
           k == CHOOSE e \in row_collect(w, i) : e # j
           a == w.A[j][i]
           boxed == ~OpenBelow(w.lo[j]) /\ ~OpenAbove(w.hi[j])
           implied == ImpliedInterval(i, j, k)
           both == w.lo_src[j] = 0 /\ w.hi_src[j] = 0
           fold == IF boxed THEN fold_bounds(w, k, implied.lo, implied.hi, i, "doubleton", both)
                   ELSE Folded(w, "unchanged")
           bover == Div(w.b[i], a)
           t == Div(-w.A[k][i], a)
           v == Substitute(fold.w, i, j, k, bover, t)
<1>1. /\ phase = "doubleton" /\ i \in w.rows /\ IsDoubleton(i)
      /\ \/ DoubletonConflict(i)
         \/ Decline
         \/ \E rec : Reduce(v, rec)
  <2>1. phase = "doubleton" /\ i \in w.rows /\ IsDoubleton(i)
    BY DEF DoubletonRow, Scans
  <2> DEFINE rec == [kind |-> "row_doubleton", i |-> i, j |-> j, k |-> k, a_ij |-> a,
                     bover |-> Div(w.b[i], a), tcoef |-> Div(-w.A[k][i], a), cj |-> w.c[j],
                     snap |-> ps_snapshot(w, j)]
  <2>2. \/ DoubletonConflict(i)
        \/ Decline
        \/ Reduce(Substitute(fold.w, i, j, k, rec.bover, rec.tcoef), rec)
    BY DEF DoubletonRow
  <2>3. rec.bover = bover /\ rec.tcoef = t
    OBVIOUS
  <2> HIDE DEF rec, fold, bover, t
  <2> QED BY <2>1, <2>2, <2>3
<1>2. Program(lp) /\ w \in Image /\ IsFiniteSet(lp.cols) /\ IsFiniteSet(lp.rows) /\ lp.cols \subseteq Int
      /\ (\A x \in Feasible : x \in [lp.cols -> Int])
  BY ProgramIs DEF PresolveInv
<1>3. TwoEntries(i, j, k) /\ a # 0 /\ lp.rel[i] = "=" /\ ExactDoubleton(i, j, k)
  BY <1>1, <1>2, PivotRowIs DEF IsDoubleton, ExactHere
<1> HIDE DEF j, k
<1>4. /\ j \in lp.cols /\ j \in w.cols /\ i \in DOMAIN w.A[j]
      /\ k \in lp.cols /\ k \in w.cols /\ i \in DOMAIN w.A[k]
      /\ j # k /\ i \in lp.rows /\ w.b[i] \in Int
      /\ row_collect(w, i) = {j, k}
  BY <1>1, <1>2, <1>3 DEF Image, row_collect, TwoEntries
<1>5. a \in Int /\ w.A[k][i] \in Int
  BY <1>2, <1>4, EntriesAre
<1>6. bover \in Int /\ t \in Int
  <2> DEFINE e == -w.A[k][i]
             b == w.b[i]
             p == b * U
             q == e * U
  <2>1. p \in Int /\ q \in Int /\ 0 \in Int
    BY <1>4, <1>5, UnitIs
  <2>2. bover = Floor(p, a) /\ t = Floor(q, a)
    BY DEF Div
  <2> HIDE DEF p, q, a
  <2>3. Floor(p, a) \in Int /\ Floor(q, a) \in Int
    BY <1>3, <1>5, <2>1, FloorIs
  <2> QED BY <2>2, <2>3
<1>7. boxed => /\ implied.lo \in Int /\ implied.hi \in Int
               /\ \A x \in [lp.cols -> Int] : Point(w, x) =>
                    /\ implied.lo > -Inf /\ implied.lo < Inf => implied.lo <= x[k]
                    /\ implied.hi > -Inf /\ implied.hi < Inf => x[k] <= implied.hi
  <2>1. boxed => ExactMul(-w.A[j][i], w.lo[j]) /\ ExactMul(-w.A[j][i], w.hi[j])
    BY <1>3 DEF ExactDoubleton
  <2> QED BY <1>1, <1>2, <1>3, <2>1, ImpliedIs
<1>8. /\ fold.w \in Image /\ Narrowed(w, fold.w)
      /\ \A x \in [lp.cols -> Int] : Point(w, x) => Within(fold.w, x)
  <2>1. CASE boxed
    <3> HIDE DEF implied, both
    <3>1. fold = fold_bounds(w, k, implied.lo, implied.hi, i, "doubleton", both)
      BY <2>1
    <3> HIDE DEF fold
    <3>2. LET f == fold_bounds(w, k, implied.lo, implied.hi, i, "doubleton", both)
          IN  /\ f.w \in Image /\ Narrowed(w, f.w)
              /\ \A x \in [lp.cols -> Int] :
                  /\ Within(w, x)
                  /\ implied.lo > -Inf /\ implied.lo < Inf => implied.lo <= x[k]
                  /\ implied.hi > -Inf /\ implied.hi < Inf => x[k] <= implied.hi
                  => Within(f.w, x)
      BY <1>2, <1>4, <1>7, <2>1, FoldKeeps
    <3> QED BY <1>7, <2>1, <3>1, <3>2 DEF Point
  <2>2. CASE ~boxed
    <3>1. fold.w = w
      BY <2>2, FoldedIs
    <3> HIDE DEF fold
    <3> QED BY <1>2, <3>1 DEF Narrowed, Point
  <2> QED BY <2>1, <2>2
<1> HIDE DEF fold
<1>9. CASE DoubletonConflict(i)
  BY <1>1, <1>3, <1>9, ConflictDecides
<1>10. CASE Decline
  BY <1>10, DeclineKeeps
<1>11. CASE \E rec : Reduce(v, rec)
  <2> DEFINE z == fold.w
  <2>1. /\ z \in Image /\ z.A = w.A /\ z.b = w.b /\ z.c = w.c /\ z.cols = w.cols /\ z.rows = w.rows
    BY <1>8 DEF Narrowed
  <2>2. Quotients(z, i, j, k, bover, t) /\ ExactProducts(z, j, bover, t)
    <3>1. w.A[j][i] * bover = w.b[i] * U /\ w.A[j][i] * t = -w.A[k][i] * U
      <4>1. ExactDiv(w.b[i], a) /\ ExactDiv(-w.A[k][i], a)
        BY <1>3 DEF ExactDoubleton
      <4> DEFINE e == w.A[k][i]
      <4>2. a * bover = w.b[i] * U /\ a * t = (-e) * U
        BY <4>1 DEF ExactDiv
      <4>3. (-e) * U = -e * U
        <5>1. e \in Int
          BY <1>5
        <5> HIDE DEF e
        <5> QED BY <5>1, UnitIs
      <4> HIDE DEF bover, t
      <4> QED BY <4>2, <4>3
    <3>2. ExactProducts(w, j, bover, t)
      BY <1>3 DEF ExactDoubleton
    <3> HIDE DEF z, bover, t, a
    <3>3. Quotients(z, i, j, k, bover, t)
      BY <2>1, <3>1 DEF Quotients
    <3>4. ExactProducts(z, j, bover, t)
      BY <2>1, <3>2 DEF ExactProducts
    <3> QED BY <3>3, <3>4
  <2>3. Entries(z, i) = {j, k} /\ z.A[j][i] # 0
    BY <1>3, <1>4, <2>1 DEF Entries, row_collect
  <2> HIDE DEF z, bover, t
  <2>4. v = Substitute(z, i, j, k, bover, t)
    BY DEF z
  <2> HIDE DEF v
  <2>5. v \in Image
    BY <1>1, <1>2, <1>4, <1>6, <2>1, <2>4, SubstituteIs
  <2>6. ASSUME NEW x \in Feasible PROVE Point(v, x) /\ (Costs(w, x) => Costs(v, x))
    <3>1. x \in [lp.cols -> Int] /\ Point(w, x)
      BY <1>2 DEF PresolveInv
    <3>2. Within(z, x)
      BY <1>8, <3>1 DEF z
    <3>3. (OnRows(w, x) => OnRows(z, x)) /\ (Costs(w, x) => Costs(z, x))
      BY <1>8, NarrowedKeeps DEF z
    <3>4. Point(z, x)
      BY <3>1, <3>2, <3>3 DEF Point
    <3>5. Point(v, x) /\ (Costs(z, x) => Costs(v, x))
      BY <1>1, <1>2, <1>3, <1>4, <1>6, <2>1, <2>2, <2>3, <2>4, <3>1, <3>4, SubstituteKeeps
    <3> QED BY <3>3, <3>5
  <2>7. PICK rec : Reduce(v, rec)
    BY <1>11
  <2> QED BY <1>1, <2>5, <2>6, <2>7, ReduceKeeps
<1> QED BY <1>1, <1>9, <1>10, <1>11

(* The first scan leaves the columns ahead of it alone.                    *)
LEMMA FirstScanKeeps ==
  ASSUME PresolveInv, phase = "empty", NEW v \in Image, MoveOn(v), lp' = lp, rc' = rc, Grows,
         \A j \in lp.cols : j > at => (j \in w.cols => j \in v.cols),
         \A x \in Feasible : Point(v, x),
         \A x \in Settled' : Costs(w, x) => Costs(v, x)
  PROVE  PresolveInv'
<1>1. /\ w' = v
      /\ \/ phase' = "empty" /\ at' = at + 1
         \/ phase' = "pass"
  BY DEF MoveOn, NextPhase
<1>2. /\ Program(lp)' /\ Image' = Image /\ Feasible' = Feasible
      /\ (\E S : recs \in Seq(S))' /\ \A x \in Settled' : x \in Settled
  BY SameProgram
<1>3. at \in Int /\ (\A j \in lp.cols : j >= at => j \in w.cols) /\ lp.cols \subseteq Int
  BY ProgramIs DEF PresolveInv
<1>4. (phase = "empty" => at \in Int /\ \A j \in lp.cols : j >= at => j \in w.cols)'
  <2>1. CASE phase' = "pass"
    BY <2>1
  <2>2. CASE phase' = "empty" /\ at' = at + 1
    <3>1. at' \in Int
      BY <1>3, <2>2
    <3>2. ASSUME NEW j \in lp.cols, j >= at' PROVE j \in v.cols
      <4>1. j \in Int /\ j > at /\ j >= at
        BY <1>3, <2>2, <3>2
      <4> QED BY <1>3, <4>1
    <3> QED BY <1>1, <3>1, <3>2
  <2> QED BY <1>1, <2>1, <2>2
<1>5. \A x : Point(w, x)' = Point(v, x) /\ Costs(w, x)' = Costs(v, x)
  BY <1>1, MovedImage
<1>6. \A x \in Feasible' : Point(w, x)'
  BY <1>2, <1>5
<1>7. \A x \in Settled' : Costs(w, x)'
  <2> SUFFICES ASSUME NEW x \in Settled' PROVE Costs(w, x)'
    OBVIOUS
  <2>1. Costs(w, x)
    BY <1>2 DEF PresolveInv
  <2> QED BY <1>5, <2>1
<1>8. (rc = "infeasible" => Feasible = {})'
  BY <1>2 DEF PresolveInv
<1>9. phase' # "rows"
  BY <1>1
<1> QED BY <1>1, <1>2, <1>4, <1>6, <1>7, <1>8, <1>9 DEF PresolveInv

(* The last record is the one appended.                                    *)
LEMMA LastIs ==
  ASSUME NEW S, NEW s \in Seq(S), NEW r
  PROVE  Len(s) + 1 \in DOMAIN Append(s, r) /\ Append(s, r)[Len(s) + 1] = r
OBVIOUS

(* EmptyColumn: points stay, and those with the column where presolve set  *)
(* it keep their cost.                                                     *)
LEMMA EmptyColumnStep == ASSUME PresolveInv, ExactHere, EmptyColumn PROVE PresolveInv'
<1> DEFINE j == at
           val == IF Sense(lp) * w.c[j] > 0 THEN FarEnd(j) ELSE NearEnd(j)
           v == [w EXCEPT !.cols = @ \ {j}, !.objconst = @ + Mul(w.c[j], val)]
           rec == [kind |-> "col_empty", j |-> j, v |-> val]
<1>1. /\ phase = "empty" /\ j \in lp.cols /\ w.A[j] = << >>
      /\ MoveOn(v) /\ recs' = Append(recs, rec) /\ lp' = lp /\ rc' = rc
  BY DEF EmptyColumn, Scans, NearEnd, FarEnd
<1>2. Program(lp) /\ w \in Image /\ IsFiniteSet(lp.cols) /\ lp.cols \subseteq Int
      /\ (\A x \in Feasible : x \in [lp.cols -> Int])
  BY ProgramIs DEF PresolveInv
<1>3. j \in w.cols
  BY <1>1, <1>2 DEF PresolveInv
<1>4. val \in Int /\ ExactMul(w.c[j], val)
  <2>1. ExactMul(w.c[j], NearEnd(j)) /\ ExactMul(w.c[j], FarEnd(j))
    BY <1>1 DEF ExactHere
  <2>2. NearEnd(j) \in Int /\ FarEnd(j) \in Int
    BY <1>1, <1>2, EntriesAre DEF NearEnd, FarEnd
  <2> QED BY <2>1, <2>2
<1> HIDE DEF val
<1>5. /\ v \in Image
      /\ v.cols = w.cols \ {j}
      /\ \A x \in [lp.cols -> Int] :
           (Point(w, x) => Point(v, x)) /\ (x[j] = val /\ Costs(w, x) => Costs(v, x))
  BY <1>1, <1>2, <1>3, <1>4, EmptyColumnKeeps
<1> HIDE DEF v
<1>6. Grows
  BY <1>1 DEF Grows
<1>7. \A x \in Feasible : Point(v, x)
  BY <1>2, <1>5 DEF PresolveInv
<1>8. ASSUME NEW x \in Settled', Costs(w, x) PROVE Costs(v, x)
  <2>1. x \in Settled /\ x \in Feasible
    BY <1>1, <1>6, SameProgram DEF Settled
  <2>2. PICK S : recs \in Seq(S)
    BY DEF PresolveInv
  <2>3. Len(recs) + 1 \in DOMAIN recs' /\ recs'[Len(recs) + 1] = rec
    <3> HIDE DEF rec
    <3>1. Len(recs) + 1 \in DOMAIN Append(recs, rec) /\ Append(recs, rec)[Len(recs) + 1] = rec
      BY <2>2, LastIs, Zenon
    <3> QED BY <1>1, <3>1
  <2>4. \A t \in DOMAIN recs' : recs'[t].kind = "col_empty" => x[recs'[t].j] = recs'[t].v
    BY DEF Settled
  <2>5. rec.kind = "col_empty" /\ rec.j = j /\ rec.v = val
    OBVIOUS
  <2> HIDE DEF rec
  <2>6. x[j] = val
    BY <2>3, <2>4, <2>5
  <2> QED BY <1>2, <1>5, <1>8, <2>1, <2>6
<1>9. \A q \in lp.cols : q > at => (q \in w.cols => q \in v.cols)
  BY <1>1, <1>2, <1>5
<1> QED BY <1>1, <1>5, <1>6, <1>7, <1>8, <1>9, FirstScanKeeps

(* StartPass: the rebuild loses nothing, and leaves no zero.               *)
LEMMA StartPassStep == ASSUME PresolveInv, StartPass PROVE PresolveInv'
<1> DEFINE v == pw_rebuild(w)
<1>1. /\ w' = v /\ lp' = lp /\ recs' = recs /\ phase' \in {"done", "rows"}
      /\ rc' \in {rc, "declined"}
  BY DEF StartPass
<1>2. Program(lp) /\ w \in Image /\ IsFiniteSet(lp.cols) /\ IsFiniteSet(lp.rows)
      /\ (\A x \in Feasible : x \in [lp.cols -> Int])
  BY ProgramIs DEF PresolveInv
<1>3. /\ v \in Image
      /\ v.cols = w.cols /\ v.rows = w.rows /\ v.lo = w.lo /\ v.hi = w.hi /\ v.b = w.b
      /\ v.c = w.c /\ v.objconst = w.objconst
      /\ \A j \in v.cols : \A i \in DOMAIN v.A[j] : v.A[j][i] # 0
      /\ \A x \in [lp.cols -> Int] :
           /\ CostSum(v, x) = CostSum(w, x)
           /\ \A i \in w.rows : RowSum(v, i, x) = RowSum(w, i, x)
  BY <1>2, RebuildKeeps
<1> HIDE DEF v
<1>4. ASSUME NEW x \in Feasible PROVE Point(v, x) /\ (Costs(w, x) => Costs(v, x))
  <2>1. x \in [lp.cols -> Int] /\ Point(w, x)
    BY <1>2 DEF PresolveInv
  <2> QED BY <1>3, <2>1 DEF Point, Within, OnRows, Costs
<1>5. Grows
  BY <1>1 DEF Grows
<1>6. /\ Program(lp)' /\ Image' = Image /\ Feasible' = Feasible
      /\ (\E S : recs \in Seq(S))' /\ \A x \in Settled' : x \in Settled
  BY <1>1, <1>5, SameProgram
<1>7. \A x : Point(w, x)' = Point(v, x) /\ Costs(w, x)' = Costs(v, x)
  BY <1>1, MovedImage
<1>8. \A x \in Feasible' : Point(w, x)'
  BY <1>4, <1>6, <1>7
<1>9. \A x \in Settled' : Costs(w, x)'
  <2> SUFFICES ASSUME NEW x \in Settled' PROVE Costs(w, x)'
    OBVIOUS
  <2>1. x \in Settled /\ x \in Feasible
    BY <1>6 DEF Settled
  <2>2. Costs(w, x)
    BY <2>1 DEF PresolveInv
  <2> QED BY <1>4, <1>7, <2>1, <2>2
<1>10. (phase = "rows" => NoZeros(w))'
  BY <1>1, <1>3 DEF NoZeros
<1>11. (rc = "infeasible" => Feasible = {})' /\ phase' # "empty"
  BY <1>1, <1>6 DEF PresolveInv
<1> QED BY <1>1, <1>3, <1>6, <1>8, <1>9, <1>10, <1>11 DEF PresolveInv

(* The scans that pass over an index change the scan only.                 *)
LEMMA PassOverStep == ASSUME PresolveInv, PassOver PROVE PresolveInv'
<1>1. /\ MoveOn(w) /\ lp' = lp /\ rc' = rc /\ recs' = recs
      /\ phase \in {"empty", "rows", "redundant", "fixed", "doubleton"}
  BY DEF PassOver, Skip
<1>2. Grows
  BY <1>1 DEF Grows
<1>3. w \in Image /\ (\A x \in Feasible : Point(w, x)) /\ (phase = "rows" => NoZeros(w))
  BY DEF PresolveInv
<1>4. CASE phase = "empty"
  BY <1>1, <1>2, <1>3, <1>4, FirstScanKeeps
<1>5. CASE phase # "empty"
  BY <1>1, <1>2, <1>3, <1>5, MoveKeeps
<1> QED BY <1>4, <1>5

(* Nothing but the scan moves at the end of a pass.                        *)
LEMMA EndPassStep == ASSUME PresolveInv, EndPass PROVE PresolveInv'
<1>1. lp' = lp /\ w' = w /\ recs' = recs /\ rc' = rc /\ phase' = "pass"
  BY DEF EndPass
<1>2. Grows
  BY <1>1 DEF Grows
<1>3. /\ Program(lp)' /\ Image' = Image /\ Feasible' = Feasible
      /\ (\E S : recs \in Seq(S))' /\ \A x \in Settled' : x \in Settled
  BY <1>1, <1>2, SameProgram
<1>4. \A x : Point(w, x)' = Point(w, x) /\ Costs(w, x)' = Costs(w, x)
  BY <1>1, MovedImage
<1>5. w \in Image /\ (\A x \in Feasible : Point(w, x)) /\ (\A x \in Settled : Costs(w, x))
  BY DEF PresolveInv
<1>6. (rc = "infeasible" => Feasible = {})'
  BY <1>1, <1>3 DEF PresolveInv
<1> QED BY <1>1, <1>3, <1>4, <1>5, <1>6 DEF PresolveInv

(* The two verdicts of the last step say nothing of points.                *)
LEMMA FinishStep == ASSUME PresolveInv, Finish PROVE PresolveInv'
<1>1. PICK code \in {"declined", "reduced"} : Decide(code, << >>)
  BY DEF Finish
<1> QED BY <1>1, DecideKeeps

(* What presolve does loses no point, step by step.                        *)
LEMMA PresolveKeeps == ASSUME PresolveInv, ExactHere, PresolveStep PROVE PresolveInv'
BY EmptyColumnStep, StartPassStep, EmptyRowKeeps, SingletonRowStep, RedundantRowKeeps,
   FixedColumnStep, DoubletonRowStep, PassOverStep, EndPassStep, FinishStep DEF PresolveStep

(* The rest of the command leaves presolve's state alone.                  *)
LEMMA StillKeeps == ASSUME PresolveInv, UNCHANGED pvars PROVE PresolveInv'
<1>1. lp' = lp /\ w' = w /\ recs' = recs /\ rc' = rc /\ phase' = phase /\ at' = at
  BY DEF pvars
<1>2. Grows
  BY <1>1 DEF Grows
<1>3. /\ Program(lp)' /\ Image' = Image /\ Feasible' = Feasible
      /\ (\E S : recs \in Seq(S))' /\ \A x \in Settled' : x \in Settled
  BY <1>1, <1>2, SameProgram
<1>4. \A x : Point(w, x)' = Point(w, x) /\ Costs(w, x)' = Costs(w, x)
  BY <1>1, MovedImage
<1>5. w \in Image /\ (\A x \in Feasible : Point(w, x)) /\ (\A x \in Settled : Costs(w, x))
  BY DEF PresolveInv
<1>6. (rc = "infeasible" => Feasible = {})'
  BY <1>1, <1>3 DEF PresolveInv
<1>7. (phase = "rows" => NoZeros(w))'
  BY <1>1 DEF PresolveInv, NoZeros
<1>8. (phase = "empty" => at \in Int /\ \A j \in lp.cols : j >= at => j \in w.cols)'
  BY <1>1 DEF PresolveInv
<1> QED BY <1>1, <1>3, <1>4, <1>5, <1>6, <1>7, <1>8 DEF PresolveInv

(* Every step of the command keeps the invariant.                          *)
LEMMA CommandKeeps == ASSUME PresolveInv, ExactHere, [CliStep \/ Exited]_cvars PROVE PresolveInv'
<1>1. CASE RunPresolve
  BY <1>1, PresolveKeeps DEF RunPresolve
<1>2. CASE ~RunPresolve
  <2>1. UNCHANGED pvars
    BY <1>2 DEF CliStep, NextAttempt, LeaveLadder, AfterPresolve, FullyPresolved, EngineRefuses,
                EngineOptimal, EngineUnbounded, EngineInfeasible, EngineUnconfirmed, EngineStops,
                Solves, StopArrives, Exited, cvars
  <2> QED BY <2>1, StillKeeps
<1> QED BY <1>1, <1>2

(* Before the first reduction the image is the program.                    *)
LEMMA PresolveStarts == ASSUME NEW p, Program(p), CliInit(p) PROVE PresolveInv
<1>1. /\ lp = p /\ w = pw_init(p) /\ recs = << >> /\ phase = "empty" /\ at = 1 /\ rc = "running"
  BY DEF CliInit, PresolveInit
<1>2. Program(lp) /\ w \in Image /\ IsFiniteSet(lp.cols)
  BY <1>1, InitImage DEF Program, IsLp
<1>3. /\ w.cols = lp.cols /\ w.rows = lp.rows /\ w.lo = lp.l /\ w.hi = lp.u /\ w.b = lp.b
      /\ w.A = lp.A /\ w.c = lp.c /\ w.objconst = 0
  BY <1>1 DEF pw_init
<1>4. \A x \in Feasible : x \in [lp.cols -> Int] /\ \A j \in lp.cols : -Inf <= x[j] /\ x[j] <= Inf
  <2> SUFFICES ASSUME NEW x \in Feasible
               PROVE  x \in [lp.cols -> Int] /\ \A j \in lp.cols : -Inf <= x[j] /\ x[j] <= Inf
    OBVIOUS
  <2>1. x \in [lp.cols -> Grid] /\ Inf \in Int
    BY UnitIs DEF Feasible
  <2>2. ASSUME NEW g \in Grid PROVE g \in Int /\ -Inf <= g /\ g <= Inf
    BY <2>1, GridAssumption
  <2>3. \A j \in lp.cols : x[j] \in Grid
    BY <2>1
  <2>4. x \in [lp.cols -> Int]
    BY <2>1, <2>2
  <2> HIDE DEF Feasible
  <2> QED BY <2>2, <2>3, <2>4
<1>5. ASSUME NEW x \in Feasible PROVE Point(w, x) /\ Costs(w, x)
  <2>1. x \in [lp.cols -> Int] /\ lp_primal_ok(lp, x)
    BY <1>4 DEF Feasible
  <2>2. /\ Objective(w, x) = Objective(lp, x)
        /\ \A i : RowValue(w, i, x) = RowValue(lp, i, x)
    <3>1. Objective(w, x) = Objective(lp, x)
      BY <1>3, ObjectiveIsTotal
    <3>2. ASSUME NEW i PROVE RowValue(w, i, x) = RowValue(lp, i, x)
      <4>1. Entries(w, i) = Entries(lp, i)
        BY <1>3 DEF Entries
      <4> QED BY <1>3, <4>1, RowValueIs
    <3> QED BY <3>1, <3>2
  <2>3. Objective(lp, x) = CostSum(w, x) /\ \A i : RowValue(lp, i, x) = RowSum(w, i, x)
    BY <1>2, <2>1, <2>2, RowValueIsRowSum, ObjectiveIsCostSum
  <2>4. Within(w, x)
    <3> SUFFICES ASSUME NEW j \in lp.cols PROVE w.lo[j] <= x[j] /\ x[j] <= w.hi[j]
      BY <1>3 DEF Within
    <3>1. w.lo[j] \in Int /\ w.hi[j] \in Int /\ x[j] \in Int /\ Inf \in Int
      BY <1>2, <2>1, EntriesAre, UnitIs
    <3>2. /\ OpenBelow(w.lo[j]) \/ x[j] >= w.lo[j]
          /\ OpenAbove(w.hi[j]) \/ x[j] <= w.hi[j]
      BY <1>3, <2>1 DEF lp_primal_ok
    <3> QED BY <1>4, <3>1, <3>2 DEF OpenBelow, OpenAbove
  <2>5. OnRows(w, x)
    BY <1>3, <2>1, <2>3 DEF OnRows, lp_primal_ok
  <2>6. Costs(w, x)
    <3>1. CostSum(w, x) \in Int /\ U \in Int
      BY <1>2, <2>1, PartsAre, UnitIs
    <3> QED BY <1>3, <2>3, <3>1 DEF Costs
  <2> QED BY <2>4, <2>5, <2>6 DEF Point
<1>6. \A x \in Settled : Costs(w, x)
  BY <1>5 DEF Settled
<1>7. \E S : recs \in Seq(S)
  <2>1. << >> \in Seq({})
    OBVIOUS
  <2> QED BY <1>1, <2>1
<1> QED BY <1>1, <1>2, <1>3, <1>5, <1>6, <1>7 DEF PresolveInv

(* The invariant says what the run checks.                                 *)
LEMMA InvariantLosesNothing == PresolveInv => NothingLost
<1> SUFFICES ASSUME PresolveInv PROVE NothingLost
  OBVIOUS
<1>1. w \in Image /\ IsFiniteSet(lp.cols) /\ \A x \in Feasible : x \in [lp.cols -> Int]
  BY ProgramIs DEF PresolveInv
<1>2. \A x \in Feasible : InImage(x)
  BY <1>1, ImageIs DEF PresolveInv, Point
<1>3. \A x \in Settled : Objective(lp, x) = ImageObjective(x) + w.objconst * U
  <2> SUFFICES ASSUME NEW x \in Settled PROVE Objective(lp, x) = ImageObjective(x) + w.objconst * U
    OBVIOUS
  <2>1. x \in Feasible /\ Costs(w, x)
    BY DEF PresolveInv, Settled
  <2> QED BY <1>1, <2>1, ImageIs DEF Costs
<1> QED BY <1>2, <1>3 DEF PresolveInv, NothingLost

(* For every program over any finite set of rows and columns, whatever is  *)
(* reduced in whatever order and pass: each point of the original LP is in *)
(* the working image with the objective it had, and an infeasible verdict  *)
(* is true (presolve.c).  The products and quotients of the reductions at  *)
(* hand have to be exact, which they are in every state of the run; the    *)
(* outward rounding of folds and the sums of row_activity need nothing of  *)
(* the kind.                                                               *)
THEOREM PresolveLosesNothing ==
  ASSUME NEW CONSTANT p, Program(p)
  PROVE  CliInit(p) /\ [][CliStep \/ Exited]_cvars /\ []ExactHere => []NothingLost
<1>1. CliInit(p) => PresolveInv
  BY PresolveStarts
<1>2. PresolveInv /\ ExactHere /\ [CliStep \/ Exited]_cvars => PresolveInv'
  BY CommandKeeps
<1> QED BY <1>1, <1>2, InvariantLosesNothing, PTL

----------------------------------------------------------------------------
(* The replays of presolve's records.  One step of either: what a record   *)
(* does to a point on its way back, or to the duals known so far, along    *)
(* the point x.                                                            *)
Undo(what, x, r, d) == IF what = "points" THEN UndoPoint(r, d) ELSE UndoDual(x, r, d)

(* h is the replay of the records rs, which starts from base: on a set of  *)
(* records what the earliest makes of the replay of the others.            *)
Replays(h, rs, D, base, what, x) ==
  h = [s \in SUBSET D |-> IF s = {} THEN base
                          ELSE Undo(what, x, rs[Min(s)], h[s \ {Min(s)}])]

(* The least of a set of positions.                                        *)
LEMMA FirstIs ==
  ASSUME NEW s \in SUBSET Nat, s # {}
  PROVE  Min(s) \in s /\ \A k \in s : Min(s) <= k
<1>1. \E k \in s : \A q \in s : k <= q
  BY LeastNumber
<1> QED BY <1>1 DEF Min

(* There is such a replay, however many records there are.                 *)
LEMMA ReplayExists ==
  ASSUME NEW n1 \in Nat, NEW rs, NEW base, NEW what, NEW x
  PROVE  \E h : Replays(h, rs, 1 .. n1, base, what, x)
<1> DEFINE D == 1 .. n1
           Step(h, s) == Undo(what, x, rs[Min(s)], h[s \ {Min(s)}])
           Eq(h, s) == h[s] = IF s = {} THEN base ELSE Step(h, s)
           Solvable(k) == \E h : \A s \in SUBSET D : Cardinality(s) <= k => Eq(h, s)
           B == {k \in Nat : ~Solvable(k)}
<1>1. IsFiniteSet(D) /\ Cardinality(D) = n1
  BY FS_Interval
<1>2. \A s \in SUBSET D : /\ Cardinality(s) \in Nat /\ (Cardinality(s) = 0 <=> s = {})
                          /\ s # {} => /\ Min(s) \in s
                                       /\ s \ {Min(s)} \in SUBSET D
                                       /\ Cardinality(s \ {Min(s)}) = Cardinality(s) - 1
  <2> SUFFICES ASSUME NEW s \in SUBSET D
               PROVE  /\ Cardinality(s) \in Nat /\ (Cardinality(s) = 0 <=> s = {})
                      /\ s # {} => /\ Min(s) \in s
                                   /\ s \ {Min(s)} \in SUBSET D
                                   /\ Cardinality(s \ {Min(s)}) = Cardinality(s) - 1
    OBVIOUS
  <2>1. IsFiniteSet(s) /\ s \in SUBSET Nat
    <3>1. D \subseteq Nat /\ s \subseteq D
      OBVIOUS
    <3> HIDE DEF D
    <3> QED BY <1>1, <3>1, FS_Subset
  <2>2. s # {} => Min(s) \in s
    BY <2>1, FirstIs
  <2> QED BY <2>1, <2>2, FS_CardinalityType, FS_EmptySet, FS_RemoveElement
<1> HIDE DEF D
<1>3. ASSUME B # {} PROVE FALSE
  <2>1. PICK k \in B : \A q \in B : k <= q
    <3>1. B \subseteq Nat /\ B # {}
      BY <1>3
    <3> HIDE DEF B
    <3> QED BY <3>1, LeastNumber
  <2>2. k \in Nat /\ ~Solvable(k)
    BY <2>1
  <2>3. CASE k = 0
    <3> DEFINE h == [s \in SUBSET D |-> base]
    <3>1. ASSUME NEW s \in SUBSET D, Cardinality(s) <= 0 PROVE Eq(h, s)
      <4>1. s = {}
        <5>1. Cardinality(s) \in Nat /\ (Cardinality(s) = 0 <=> s = {}) /\ Cardinality(s) <= 0
          BY <1>2, <3>1
        <5> QED BY <5>1
      <4> QED BY <4>1
    <3> HIDE DEF h, Eq
    <3>2. Solvable(0)
      BY <3>1
    <3> QED BY <3>2, <2>2, <2>3
  <2>4. CASE k # 0
    <3>1. k - 1 \in Nat /\ k - 1 \notin B
      <4>1. k - 1 \in Nat /\ ~(k <= k - 1)
        BY <2>2, <2>4
      <4> HIDE DEF B
      <4> QED BY <4>1, <2>1
    <3>2. PICK g : \A s \in SUBSET D : Cardinality(s) <= k - 1 => Eq(g, s)
      BY <3>1
    <3> DEFINE h == [s \in SUBSET D |-> IF Cardinality(s) <= k - 1 THEN g[s] ELSE Step(g, s)]
    <3>3. ASSUME NEW s \in SUBSET D, Cardinality(s) <= k PROVE Eq(h, s)
      <4>1. CASE s = {}
        <5>1. Cardinality(s) <= k - 1
          <6>1. Cardinality(s) = 0 /\ k - 1 \in Nat
            BY <1>2, <3>1, <4>1
          <6> QED BY <6>1
        <5>2. h[s] = g[s] /\ Eq(g, s)
          BY <3>2, <5>1
        <5> HIDE DEF h
        <5> QED BY <4>1, <5>2
      <4>2. CASE s # {}
        <5> DEFINE t == s \ {Min(s)}
        <5>1. t \in SUBSET D /\ Cardinality(t) = Cardinality(s) - 1 /\ Cardinality(s) \in Nat
          BY <1>2, <4>2
        <5>2. Cardinality(t) <= k - 1
          BY <2>2, <3>3, <5>1
        <5>3. h[t] = g[t]
          BY <5>1, <5>2
        <5>4. h[s] = Step(g, s)
          <6>1. CASE Cardinality(s) <= k - 1
            <7>1. h[s] = g[s] /\ Eq(g, s)
              BY <3>2, <6>1
            <7> HIDE DEF h, Step
            <7> QED BY <4>2, <7>1
          <6>2. CASE ~(Cardinality(s) <= k - 1)
            BY <6>2
          <6> QED BY <6>1, <6>2
        <5> HIDE DEF h
        <5> QED BY <4>2, <5>3, <5>4
      <4> QED BY <4>1, <4>2
    <3> HIDE DEF h, Eq
    <3>4. Solvable(k)
      BY <3>3
    <3> QED BY <3>4, <2>2
  <2> QED BY <2>3, <2>4
<1>4. n1 \in Nat /\ \A s \in SUBSET D : Cardinality(s) <= n1
  BY <1>1, FS_Subset
<1>5. Solvable(n1)
  BY <1>3
<1> HIDE DEF Eq
<1>6. PICK h : \A s \in SUBSET D : Eq(h, s)
  BY <1>4, <1>5
<1> DEFINE f == [s \in SUBSET D |-> h[s]]
<1>7. f = [s \in SUBSET D |-> IF s = {} THEN base ELSE Step(f, s)]
  <2>1. ASSUME NEW s \in SUBSET D PROVE h[s] = IF s = {} THEN base ELSE Step(f, s)
    <3>1. h[s] = IF s = {} THEN base ELSE Step(h, s)
      BY <1>6 DEF Eq
    <3>2. s # {} => f[s \ {Min(s)}] = h[s \ {Min(s)}]
      BY <1>2
    <3> HIDE DEF f
    <3> QED BY <3>1, <3>2
  <2> QED BY <2>1
<1> HIDE DEF f
<1>8. Replays(f, rs, D, base, what, x)
  BY <1>7 DEF Replays
<1> QED BY <1>8 DEF D

(* The replay of the records from t on is what record t makes of the       *)
(* replay of those after it.                                               *)
LEMMA ReplayUnfolds ==
  ASSUME NEW n1 \in Nat, NEW rs, NEW base, NEW what, NEW x, NEW h,
         Replays(h, rs, 1 .. n1, base, what, x)
  PROVE  /\ h[n1 + 1 .. n1] = base
         /\ \A t \in 1 .. n1 : h[t .. n1] = Undo(what, x, rs[t], h[t + 1 .. n1])
<1> DEFINE D == 1 .. n1
<1>1. \A s \in SUBSET D : h[s] = IF s = {} THEN base ELSE Undo(what, x, rs[Min(s)], h[s \ {Min(s)}])
  BY Zenon DEF Replays
<1>2. n1 + 1 .. n1 = {}
  OBVIOUS
<1>3. ASSUME NEW t \in 1 .. n1 PROVE h[t .. n1] = Undo(what, x, rs[t], h[t + 1 .. n1])
  <2> DEFINE s == t .. n1
  <2>1. s \in SUBSET D /\ s \in SUBSET Nat /\ s # {} /\ t \in s /\ \A k \in s : t <= k
    <3>1. t \in s /\ \A k \in s : k \in D /\ k \in Nat /\ t <= k
      OBVIOUS
    <3> HIDE DEF s, D
    <3> QED BY <3>1
  <2>2. Min(s) = t
    <3>1. Min(s) \in s /\ \A k \in s : Min(s) <= k
      BY <2>1, FirstIs
    <3>2. Min(s) \in Nat /\ t \in Nat
      BY <2>1, <3>1
    <3> HIDE DEF s
    <3> QED BY <2>1, <3>1, <3>2
  <2>3. s \ {t} = t + 1 .. n1
    OBVIOUS
  <2> HIDE DEF s, D
  <2>4. h[s] = Undo(what, x, rs[t], h[s \ {t}])
    BY <1>1, <2>1, <2>2
  <2> QED BY <2>3, <2>4 DEF s
<1>4. {} \in SUBSET D
  OBVIOUS
<1> HIDE DEF D
<1> QED BY <1>1, <1>2, <1>3, <1>4

(* The records that eliminate a column, and those that drop a row; the     *)
(* columns and the rows that are known once the records after t have been  *)
(* replayed from those of the image, C and R.                              *)
Eliminates(r) == r.kind \in {"col_fixed", "col_empty", "row_doubleton"}
DropsRow(r) == r.kind \in {"row_empty", "row_redundant", "row_singleton", "row_doubleton"}
ColsAfter(rs, C, t) == C \cup {rs[s].j : s \in {s \in DOMAIN rs : s > t /\ Eliminates(rs[s])}}
RowsAfter(rs, R, t) == R \cup {rs[s].i : s \in {s \in DOMAIN rs : s > t /\ DropsRow(rs[s])}}

(* A record can be undone at the points X: a column has the value that the *)
(* replay will compute, from a column that is known by then, and the       *)
(* prices of the rows in its snapshot are known.                           *)
Undone(r, C, R, D, X) ==
  /\ r.kind \in {"col_fixed", "col_empty"} => \A x \in X : x[r.j] = r.v
  /\ r.kind = "row_doubleton" =>
       r.k \in C \cap D /\ \A x \in X : x[r.j] = r.bover + Mul(r.tcoef, x[r.k])
  /\ r.kind \in {"row_singleton", "row_doubleton"} => DOMAIN r.snap \ {r.i} \subseteq R

Chained(rs, C, R, D, X) ==
  /\ D \subseteq ColsAfter(rs, C, 0)
  /\ \A t \in DOMAIN rs : Undone(rs[t], ColsAfter(rs, C, t), RowsAfter(rs, R, t), D, X)

(* What the record r takes away from the columns and the rows, it brings   *)
(* back.                                                                   *)
TakesAway(r, C, R, C1, R1) ==
  /\ \A j \in C \ C1 : Eliminates(r) /\ j = r.j
  /\ \A i \in R \ R1 : DropsRow(r) /\ i = r.i

(* Fewer points are undone by the same records.                            *)
LEMMA ChainHolds ==
  ASSUME NEW rs, NEW C, NEW R, NEW D, NEW X, NEW Y \in SUBSET X, Chained(rs, C, R, D, X)
  PROVE  Chained(rs, C, R, D, Y)
<1>1. ASSUME NEW t \in DOMAIN rs
      PROVE  Undone(rs[t], ColsAfter(rs, C, t), RowsAfter(rs, R, t), D, Y)
  <2>1. Undone(rs[t], ColsAfter(rs, C, t), RowsAfter(rs, R, t), D, X)
    BY DEF Chained
  <2> QED BY <2>1 DEF Undone
<1> QED BY <1>1 DEF Chained

(* A record more is undone first, and makes up for what it took away.      *)
LEMMA ChainGrows ==
  ASSUME NEW S, NEW rs \in Seq(S), NEW r, NEW C, NEW R, NEW C1, NEW R1, NEW D, NEW X, NEW Y \in SUBSET X,
         Chained(rs, C, R, D, X), TakesAway(r, C, R, C1, R1), Undone(r, C1, R1, D, Y)
  PROVE  Chained(Append(rs, r), C1, R1, D, Y)
<1> DEFINE n1 == Len(rs)
           rs1 == Append(rs, r)
<1>1. /\ n1 \in Nat /\ DOMAIN rs = 1 .. n1 /\ DOMAIN rs1 = 1 .. n1 + 1 /\ rs1[n1 + 1] = r
      /\ \A s \in 1 .. n1 : rs1[s] = rs[s]
  <2>1. rs \in Seq(S \cup {r}) /\ r \in S \cup {r}
    OBVIOUS
  <2> QED BY <2>1
<1> HIDE DEF n1, rs1
<1>2. ASSUME NEW t \in 0 .. n1
      PROVE  ColsAfter(rs, C, t) \subseteq ColsAfter(rs1, C1, t)
  <2> SUFFICES ASSUME NEW j \in ColsAfter(rs, C, t) PROVE j \in ColsAfter(rs1, C1, t)
    OBVIOUS
  <2>1. CASE j \in C1
    BY <2>1 DEF ColsAfter
  <2>2. CASE j \in C \ C1
    <3>1. n1 + 1 \in DOMAIN rs1 /\ n1 + 1 > t /\ Eliminates(rs1[n1 + 1]) /\ j = rs1[n1 + 1].j
      BY <1>1, <2>2 DEF TakesAway
    <3> QED BY <3>1 DEF ColsAfter
  <2>3. CASE j \notin C
    <3>1. PICK s \in DOMAIN rs : s > t /\ Eliminates(rs[s]) /\ j = rs[s].j
      BY <2>3 DEF ColsAfter
    <3>2. s \in DOMAIN rs1 /\ rs1[s] = rs[s]
      BY <1>1
    <3> QED BY <3>1, <3>2 DEF ColsAfter
  <2> QED BY <2>1, <2>2, <2>3
<1>3. ASSUME NEW t \in 0 .. n1
      PROVE  RowsAfter(rs, R, t) \subseteq RowsAfter(rs1, R1, t)
  <2> SUFFICES ASSUME NEW i \in RowsAfter(rs, R, t) PROVE i \in RowsAfter(rs1, R1, t)
    OBVIOUS
  <2>1. CASE i \in R1
    BY <2>1 DEF RowsAfter
  <2>2. CASE i \in R \ R1
    <3>1. n1 + 1 \in DOMAIN rs1 /\ n1 + 1 > t /\ DropsRow(rs1[n1 + 1]) /\ i = rs1[n1 + 1].i
      BY <1>1, <2>2 DEF TakesAway
    <3> QED BY <3>1 DEF RowsAfter
  <2>3. CASE i \notin R
    <3>1. PICK s \in DOMAIN rs : s > t /\ DropsRow(rs[s]) /\ i = rs[s].i
      BY <2>3 DEF RowsAfter
    <3>2. s \in DOMAIN rs1 /\ rs1[s] = rs[s]
      BY <1>1
    <3> QED BY <3>1, <3>2 DEF RowsAfter
  <2> QED BY <2>1, <2>2, <2>3
<1>4. D \subseteq ColsAfter(rs1, C1, 0)
  <2>1. 0 \in 0 .. n1 /\ D \subseteq ColsAfter(rs, C, 0)
    BY <1>1 DEF Chained
  <2> QED BY <1>2, <2>1
<1>5. ASSUME NEW t \in DOMAIN rs1
      PROVE  Undone(rs1[t], ColsAfter(rs1, C1, t), RowsAfter(rs1, R1, t), D, Y)
  <2>1. CASE t \in 1 .. n1
    <3>1. Undone(rs[t], ColsAfter(rs, C, t), RowsAfter(rs, R, t), D, X) /\ rs1[t] = rs[t]
      BY <1>1, <2>1 DEF Chained
    <3>2. t \in 0 .. n1
      BY <1>1, <2>1
    <3>3. /\ ColsAfter(rs, C, t) \subseteq ColsAfter(rs1, C1, t)
          /\ RowsAfter(rs, R, t) \subseteq RowsAfter(rs1, R1, t)
      BY <1>2, <1>3, <3>2
    <3> QED BY <3>1, <3>3 DEF Undone
  <2>2. CASE t = n1 + 1
    <3>1. C1 \subseteq ColsAfter(rs1, C1, t) /\ R1 \subseteq RowsAfter(rs1, R1, t)
      BY DEF ColsAfter, RowsAfter
    <3>2. rs1[t] = r
      BY <1>1, <2>2
    <3> QED BY <3>1, <3>2 DEF Undone
  <2>3. t \in 1 .. n1 \/ t = n1 + 1
    BY <1>1
  <2> QED BY <2>1, <2>2, <2>3
<1> QED BY <1>4, <1>5 DEF Chained, rs1

(* One record on the way back: it makes its own column known, or its row.  *)
LEMMA AfterIs ==
  ASSUME NEW S, NEW rs \in Seq(S), NEW C, NEW t \in 1 .. Len(rs)
  PROVE  /\ ColsAfter(rs, C, t - 1) = ColsAfter(rs, C, t) \cup {j \in {rs[t].j} : Eliminates(rs[t])}
         /\ RowsAfter(rs, C, t - 1) = RowsAfter(rs, C, t) \cup {i \in {rs[t].i} : DropsRow(rs[t])}
<1>1. /\ t \in DOMAIN rs /\ t > t - 1 /\ ~(t > t)
      /\ \A s \in DOMAIN rs : s > t - 1 <=> s > t \/ s = t
  OBVIOUS
<1>2. ColsAfter(rs, C, t - 1) = ColsAfter(rs, C, t) \cup {j \in {rs[t].j} : Eliminates(rs[t])}
  BY <1>1 DEF ColsAfter
<1>3. RowsAfter(rs, C, t - 1) = RowsAfter(rs, C, t) \cup {i \in {rs[t].i} : DropsRow(rs[t])}
  BY <1>1 DEF RowsAfter
<1> QED BY <1>2, <1>3

(* Along the replay, from the last record to the first, what holds of what *)
(* is known stays true: no position is the last at which it fails.         *)
LEMMA BackwardsAlways ==
  ASSUME NEW n1 \in Nat, NEW G, n1 \in G, \A t \in 1 .. n1 : t \in G => t - 1 \in G
  PROVE  0 \in G
<1> DEFINE B == {d \in 0 .. n1 : n1 - d \notin G}
<1>1. ASSUME B # {} PROVE FALSE
  <2>1. PICK d \in B : \A q \in B : d <= q
    <3>1. B \subseteq Nat
      OBVIOUS
    <3> HIDE DEF B
    <3> QED BY <1>1, <3>1, LeastNumber
  <2>2. d \in 0 .. n1 /\ n1 - d \notin G
    BY <2>1
  <2>3. d # 0
    BY <2>2
  <2>4. d - 1 \in 0 .. n1 /\ n1 - (d - 1) \in 1 .. n1 /\ n1 - (d - 1) - 1 = n1 - d /\ ~(d <= d - 1)
    BY <2>2, <2>3
  <2>5. d - 1 \notin B
    BY <2>1, <2>4
  <2>6. n1 - (d - 1) \in G
    BY <2>4, <2>5
  <2>7. n1 - (d - 1) - 1 \in G
    BY <2>4, <2>6
  <2> QED BY <2>2, <2>4, <2>7
<1>2. n1 \in 0 .. n1 /\ n1 - n1 = 0
  OBVIOUS
<1> QED BY <1>1, <1>2

(* A point where only the columns of C are known.                          *)
Known(C, D, x) == [j \in D |-> IF j \in C THEN x[j] ELSE 0]

(* One record undone makes one column more known, with its value.          *)
LEMMA UndoPointIs ==
  ASSUME NEW r, NEW C, NEW R, NEW D, NEW X, NEW x \in X, Undone(r, C, R, D, X)
  PROVE  UndoPoint(r, Known(C, D, x)) = Known(C \cup {j \in {r.j} : Eliminates(r)}, D, x)
<1>1. CASE r.kind \in {"col_fixed", "col_empty"}
  <2>1. UndoPoint(r, Known(C, D, x)) = [Known(C, D, x) EXCEPT ![r.j] = r.v]
    BY <1>1 DEF UndoPoint
  <2>2. Eliminates(r) /\ r.v = x[r.j]
    BY <1>1 DEF Eliminates, Undone
  <2> QED BY <2>1, <2>2 DEF Known
<1>2. CASE r.kind = "row_doubleton"
  <2>1. UndoPoint(r, Known(C, D, x)) = [Known(C, D, x) EXCEPT ![r.j] = r.bover + Mul(r.tcoef, Known(C, D, x)[r.k])]
    BY <1>2 DEF UndoPoint
  <2>2. Eliminates(r) /\ r.k \in C /\ r.k \in D /\ r.bover + Mul(r.tcoef, x[r.k]) = x[r.j]
    BY <1>2 DEF Eliminates, Undone
  <2>3. Known(C, D, x)[r.k] = x[r.k]
    BY <2>2 DEF Known
  <2> QED BY <2>1, <2>2, <2>3 DEF Known
<1>3. CASE ~Eliminates(r)
  <2>1. UndoPoint(r, Known(C, D, x)) = Known(C, D, x)
    BY <1>3 DEF UndoPoint, Eliminates
  <2> QED BY <1>3, <2>1
<1> QED BY <1>1, <1>2, <1>3 DEF Eliminates

(* The replay of points ends at the point it started from.                 *)
LEMMA PointsReplay ==
  ASSUME NEW S, NEW rs \in Seq(S), NEW C, NEW R, NEW D, NEW X, NEW x \in X, x = [j \in D |-> x[j]],
         Chained(rs, C, R, D, X), NEW y,
         NEW h, Replays(h, rs, 1 .. Len(rs), Known(C, D, x), "points", y)
  PROVE  h[1 .. Len(rs)] = x
<1> DEFINE n1 == Len(rs)
           At(t) == h[t + 1 .. n1] = Known(ColsAfter(rs, C, t), D, x)
           G == {t \in 0 .. n1 : At(t)}
<1>1. n1 \in Nat /\ DOMAIN rs = 1 .. n1
  OBVIOUS
<1>2. /\ h[n1 + 1 .. n1] = Known(C, D, x)
      /\ \A t \in 1 .. n1 : h[t .. n1] = Undo("points", y, rs[t], h[t + 1 .. n1])
  <2>1. Replays(h, rs, 1 .. n1, Known(C, D, x), "points", y)
    OBVIOUS
  <2> HIDE DEF n1
  <2> QED BY <1>1, <2>1, ReplayUnfolds
<1>3. n1 \in G
  <2>1. ColsAfter(rs, C, n1) = C
    BY <1>1 DEF ColsAfter
  <2> QED BY <1>1, <1>2, <2>1
<1>4. ASSUME NEW t \in 1 .. n1, t \in G PROVE t - 1 \in G
  <2>1. h[t + 1 .. n1] = Known(ColsAfter(rs, C, t), D, x)
    BY <1>4
  <2>2. h[t .. n1] = UndoPoint(rs[t], Known(ColsAfter(rs, C, t), D, x))
    BY <1>2, <2>1 DEF Undo
  <2>3. Undone(rs[t], ColsAfter(rs, C, t), RowsAfter(rs, R, t), D, X)
    BY <1>1 DEF Chained
  <2>4. UndoPoint(rs[t], Known(ColsAfter(rs, C, t), D, x))
          = Known(ColsAfter(rs, C, t) \cup {j \in {rs[t].j} : Eliminates(rs[t])}, D, x)
    BY <2>3, UndoPointIs
  <2>5. ColsAfter(rs, C, t - 1) = ColsAfter(rs, C, t) \cup {j \in {rs[t].j} : Eliminates(rs[t])}
    BY AfterIs
  <2>6. t - 1 \in 0 .. n1 /\ (t - 1) + 1 = t
    BY <1>1
  <2> QED BY <2>2, <2>4, <2>5, <2>6
<1> HIDE DEF At
<1>5. 0 \in G
  <2> HIDE DEF G, n1
  <2> QED BY <1>1, <1>3, <1>4, BackwardsAlways
<1>6. h[0 + 1 .. n1] = Known(ColsAfter(rs, C, 0), D, x)
  BY <1>5 DEF At
<1>7. Known(ColsAfter(rs, C, 0), D, x) = x
  BY DEF Chained, Known
<1> QED BY <1>6, <1>7

(* The dual of every row of R is known.                                    *)
Prices(d, R) == d.failed = FALSE /\ R \subseteq d.known

(* One record undone makes one row more known.                             *)
LEMMA UndoDualIs ==
  ASSUME NEW r, NEW C, NEW R, NEW D, NEW X, NEW x, NEW d, Undone(r, C, R, D, X), Prices(d, R)
  PROVE  Prices(UndoDual(x, r, d), R \cup {i \in {r.i} : DropsRow(r)})
<1>1. ASSUME NEW v, NEW exact PROVE Prices(Dual(r.i, v, exact, d), R \cup {i \in {r.i} : DropsRow(r)})
  BY DEF Prices, Dual
<1>2. CASE r.kind \in {"row_empty", "row_redundant"} \/ Slack(r, x)
  <2>1. UndoDual(x, r, d) = Dual(r.i, 0, TRUE, d)
    BY <1>2 DEF UndoDual, Prices, Slack
  <2> QED BY <1>1, <2>1
<1>3. CASE r.kind \in {"row_singleton", "row_doubleton"} /\ ~Slack(r, x)
  <2>1. UndoDual(x, r, d) = Priced(r, d)
    BY <1>3 DEF UndoDual, Prices
  <2>2. DOMAIN r.snap \ {r.i} \subseteq d.known
    BY <1>3 DEF Undone, Prices
  <2>3. \E v, exact : Priced(r, d) = Dual(r.i, v, exact, d)
    BY <2>2 DEF Priced
  <2> QED BY <1>1, <2>1, <2>3
<1>4. CASE ~DropsRow(r)
  <2>1. UndoDual(x, r, d) = d
    BY <1>4 DEF UndoDual, DropsRow, Slack
  <2> QED BY <1>4, <2>1
<1> QED BY <1>2, <1>3, <1>4 DEF DropsRow

(* The replay of duals never meets a dual that it does not know.           *)
LEMMA DualsReplayed ==
  ASSUME NEW S, NEW rs \in Seq(S), NEW C, NEW R, NEW D, NEW X, NEW x, NEW base, Prices(base, R),
         Chained(rs, C, R, D, X),
         NEW h, Replays(h, rs, 1 .. Len(rs), base, "duals", x)
  PROVE  Prices(h[1 .. Len(rs)], RowsAfter(rs, R, 0))
<1> DEFINE n1 == Len(rs)
           At(t) == Prices(h[t + 1 .. n1], RowsAfter(rs, R, t))
           G == {t \in 0 .. n1 : At(t)}
<1>1. n1 \in Nat /\ DOMAIN rs = 1 .. n1
  OBVIOUS
<1>2. /\ h[n1 + 1 .. n1] = base
      /\ \A t \in 1 .. n1 : h[t .. n1] = Undo("duals", x, rs[t], h[t + 1 .. n1])
  <2>1. Replays(h, rs, 1 .. n1, base, "duals", x)
    OBVIOUS
  <2> HIDE DEF n1
  <2> QED BY <1>1, <2>1, ReplayUnfolds
<1>3. n1 \in G
  <2>1. RowsAfter(rs, R, n1) = R
    BY <1>1 DEF RowsAfter
  <2> QED BY <1>1, <1>2, <2>1
<1>4. ASSUME NEW t \in 1 .. n1, t \in G PROVE t - 1 \in G
  <2>1. Prices(h[t + 1 .. n1], RowsAfter(rs, R, t))
    BY <1>4
  <2>2. h[t .. n1] = UndoDual(x, rs[t], h[t + 1 .. n1])
    BY <1>2 DEF Undo
  <2>3. Undone(rs[t], ColsAfter(rs, C, t), RowsAfter(rs, R, t), D, X)
    BY <1>1 DEF Chained
  <2>4. Prices(h[t .. n1], RowsAfter(rs, R, t) \cup {i \in {rs[t].i} : DropsRow(rs[t])})
    BY <2>1, <2>2, <2>3, UndoDualIs
  <2>5. RowsAfter(rs, R, t - 1) = RowsAfter(rs, R, t) \cup {i \in {rs[t].i} : DropsRow(rs[t])}
    BY AfterIs
  <2>6. t - 1 \in 0 .. n1 /\ (t - 1) + 1 = t
    BY <1>1
  <2> QED BY <2>4, <2>5, <2>6
<1> HIDE DEF At
<1>5. 0 \in G
  <2> HIDE DEF G, n1
  <2> QED BY <1>1, <1>3, <1>4, BackwardsAlways
<1>6. Prices(h[0 + 1 .. n1], RowsAfter(rs, R, 0))
  BY <1>5 DEF At
<1> QED BY <1>6

(* The replay of duals on the data of the program p: what the duals y      *)
(* charge column j of the image v, and that this is its cost.              *)
PricePart(p, v, y, j) ==
  [i \in p.rows |-> IF i \in v.rows /\ i \in DOMAIN v.A[j] THEN v.A[j][i] * y[i] ELSE 0]
PriceSum(p, v, y, j) == Total(PricePart(p, v, y, j), p.rows)
PricesOut(p, v, y, j) == PriceSum(p, v, y, j) = v.c[j] * U

(* The duals of the rows R are there, and f runs the replay along rs.      *)
Ready(p, d, R) == Prices(d, R) /\ d.y \in [p.rows -> Int]
DualRun(f, rs, x) == \A t \in 1 .. Len(rs) : f[t - 1] = UndoDual(x, rs[t], f[t])

(* The records rs lead back from the image v: a column that prices out in  *)
(* the image prices out on the data of p at the end of the replay, if no   *)
(* price was rounded, and so does every column that a doubleton row        *)
(* eliminated.                                                             *)
AtCost(p, y, j) == ATy(p, y, j) = p.c[j] * U
Backs(p, rs, v) ==
  \A f, x : DualRun(f, rs, x) /\ Ready(p, f[Len(rs)], v.rows) /\ ~f[0].rounded =>
    /\ ~f[Len(rs)].rounded
    /\ \A j \in v.cols : PricesOut(p, v, f[Len(rs)].y, j) => AtCost(p, f[0].y, j)
    /\ \A t \in DOMAIN rs : rs[t].kind = "row_doubleton" => AtCost(p, f[0].y, rs[t].j)

(* The record r leads back from the image u to the image v before it.      *)
StepsBack(p, r, v, u, d, e) ==
  /\ ~d.rounded
  /\ \A j \in u.cols : j \in v.cols /\ (PricesOut(p, u, d.y, j) => PricesOut(p, v, e.y, j))
  /\ r.kind = "row_doubleton" => r.j \in v.cols /\ PricesOut(p, v, e.y, r.j)
StepBack(p, r, v, u) ==
  \A x, d : Ready(p, d, u.rows) =>
    /\ Ready(p, UndoDual(x, r, d), v.rows)
    /\ ~UndoDual(x, r, d).rounded => StepsBack(p, r, v, u, d, UndoDual(x, r, d))

(* A record more is undone first.                                          *)
LEMMA BacksGrow ==
  ASSUME NEW p, NEW S, NEW rs \in Seq(S), NEW r, NEW v, NEW u, Backs(p, rs, v), StepBack(p, r, v, u)
  PROVE  Backs(p, Append(rs, r), u)
<1> DEFINE n1 == Len(rs)
           rs1 == Append(rs, r)
<1>1. /\ n1 \in Nat /\ DOMAIN rs = 1 .. n1 /\ DOMAIN rs1 = 1 .. n1 + 1 /\ Len(rs1) = n1 + 1
      /\ rs1[n1 + 1] = r /\ \A s \in 1 .. n1 : rs1[s] = rs[s]
  <2>1. rs \in Seq(S \cup {r}) /\ r \in S \cup {r}
    OBVIOUS
  <2> QED BY <2>1
<1> HIDE DEF n1, rs1
<1> SUFFICES ASSUME NEW f, NEW x, DualRun(f, rs1, x), Ready(p, f[n1 + 1], u.rows), ~f[0].rounded
             PROVE  /\ ~f[n1 + 1].rounded
                    /\ \A j \in u.cols : PricesOut(p, u, f[n1 + 1].y, j) => AtCost(p, f[0].y, j)
                    /\ \A t \in DOMAIN rs1 :
                         rs1[t].kind = "row_doubleton" => AtCost(p, f[0].y, rs1[t].j)
  <2>1. Len(rs1) = n1 + 1
    BY <1>1
  <2> QED BY <2>1 DEF Backs, rs1
<1>2. f[n1] = UndoDual(x, r, f[n1 + 1])
  <2>1. n1 + 1 \in 1 .. Len(rs1) /\ (n1 + 1) - 1 = n1
    BY <1>1
  <2> QED BY <1>1, <2>1 DEF DualRun
<1>3. DualRun(f, rs, x)
  <2>1. \A t \in 1 .. n1 : t \in 1 .. Len(rs1) /\ rs1[t] = rs[t]
    BY <1>1
  <2> QED BY <2>1 DEF DualRun, n1
<1>4. Ready(p, f[n1], v.rows) /\ (~f[n1].rounded => StepsBack(p, r, v, u, f[n1 + 1], f[n1]))
  BY <1>2 DEF StepBack
<1>5. /\ ~f[n1].rounded
      /\ \A j \in v.cols : PricesOut(p, v, f[n1].y, j) => AtCost(p, f[0].y, j)
      /\ \A t \in DOMAIN rs : rs[t].kind = "row_doubleton" => AtCost(p, f[0].y, rs[t].j)
  BY <1>3, <1>4 DEF Backs, n1
<1>6. StepsBack(p, r, v, u, f[n1 + 1], f[n1])
  BY <1>4, <1>5
<1>7. ASSUME NEW t \in DOMAIN rs1, rs1[t].kind = "row_doubleton" PROVE AtCost(p, f[0].y, rs1[t].j)
  <2>1. CASE t \in 1 .. n1
    BY <1>1, <1>5, <1>7, <2>1
  <2>2. CASE t = n1 + 1
    BY <1>1, <1>5, <1>6, <1>7, <2>2 DEF StepsBack
  <2> QED BY <1>1, <2>1, <2>2
<1> QED BY <1>5, <1>6, <1>7 DEF StepsBack

(* Images that price alike are led back from by the same records.          *)
SamePrices(p, v, u) ==
  /\ u.cols = v.cols /\ u.rows = v.rows
  /\ \A j \in v.cols : \A y \in [p.rows -> Int] : PricesOut(p, u, y, j) => PricesOut(p, v, y, j)

LEMMA BacksStay ==
  ASSUME NEW p, NEW rs, NEW v, NEW u, Backs(p, rs, v), SamePrices(p, v, u) PROVE Backs(p, rs, u)
<1> SUFFICES ASSUME NEW f, NEW x, DualRun(f, rs, x), Ready(p, f[Len(rs)], u.rows), ~f[0].rounded
             PROVE  /\ ~f[Len(rs)].rounded
                    /\ \A j \in u.cols : PricesOut(p, u, f[Len(rs)].y, j) => AtCost(p, f[0].y, j)
                    /\ \A t \in DOMAIN rs : rs[t].kind = "row_doubleton" => AtCost(p, f[0].y, rs[t].j)
  BY DEF Backs
<1>1. /\ ~f[Len(rs)].rounded
      /\ \A j \in v.cols : PricesOut(p, v, f[Len(rs)].y, j) => AtCost(p, f[0].y, j)
      /\ \A t \in DOMAIN rs : rs[t].kind = "row_doubleton" => AtCost(p, f[0].y, rs[t].j)
  BY DEF Backs, SamePrices
<1>2. f[Len(rs)].y \in [p.rows -> Int]
  BY DEF Ready
<1> QED BY <1>1, <1>2 DEF SamePrices

(* Columns that price out at the end do so in the image that is the        *)
(* program itself.                                                         *)
LEMMA BacksStart ==
  ASSUME NEW p, Program(p) PROVE Backs(p, << >>, pw_init(p))
<1> SUFFICES ASSUME NEW f, Ready(p, f[0], p.rows), ~f[0].rounded, NEW j \in p.cols,
                    PricesOut(p, pw_init(p), f[0].y, j)
             PROVE  AtCost(p, f[0].y, j)
  <2>1. Len(<< >>) = 0 /\ DOMAIN << >> = {} /\ pw_init(p).rows = p.rows /\ pw_init(p).cols = p.cols
    BY DEF pw_init
  <2> QED BY <2>1 DEF Backs
<1> DEFINE y == f[0].y
<1>1. IsLp(p) /\ y \in [p.rows -> Int] /\ Finite(p.rows, y)
  BY DEF Program, Ready, Finite
<1>2. PricePart(p, pw_init(p), y, j) = [i \in p.rows |-> IF i \in DOMAIN p.A[j] THEN p.A[j][i] * y[i] ELSE 0]
  BY DEF PricePart, pw_init
<1>3. ATy(p, y, j) = PriceSum(p, pw_init(p), y, j)
  BY <1>1, <1>2, ATyIsTotal DEF PriceSum
<1>4. pw_init(p).c = p.c
  BY DEF pw_init
<1> QED BY <1>3, <1>4 DEF PricesOut, AtCost

(* The terms of a price and the price are numbers.                         *)
LEMMA PricesAre ==
  ASSUME IsFiniteSet(lp.rows), NEW v \in Image, NEW j \in lp.cols, NEW y \in [lp.rows -> Int]
  PROVE  (\A i \in lp.rows : PricePart(lp, v, y, j)[i] \in Int) /\ PriceSum(lp, v, y, j) \in Int
<1>1. \A i \in lp.rows : PricePart(lp, v, y, j)[i] \in Int
  BY EntriesAre DEF PricePart
<1> QED BY <1>1, TotalInt DEF PriceSum

(* A row that leaves takes its term out of the price.                      *)
LEMMA PriceMoves ==
  ASSUME IsFiniteSet(lp.rows), NEW v \in Image, NEW i \in lp.rows, i \in v.rows,
         NEW j \in lp.cols, NEW u, u.rows = v.rows \ {i}, u.A[j] = v.A[j],
         NEW y, NEW y1 \in [lp.rows -> Int], \A q \in lp.rows \ {i} : y1[q] = y[q]
  PROVE  /\ i \in DOMAIN v.A[j] => PriceSum(lp, v, y1, j) = PriceSum(lp, u, y, j) + v.A[j][i] * y1[i]
         /\ i \notin DOMAIN v.A[j] => PriceSum(lp, v, y1, j) = PriceSum(lp, u, y, j)
<1> DEFINE f == PricePart(lp, v, y1, j)
           g == PricePart(lp, u, y, j)
           D == lp.rows \ {i}
<1>1. \A q \in lp.rows : f[q] \in Int
  BY PricesAre
<1>2. f[i] = IF i \in DOMAIN v.A[j] THEN v.A[j][i] * y1[i] ELSE 0
  BY DEF PricePart
<1>3. g[i] = 0 /\ \A q \in D : g[q] = f[q]
  BY DEF PricePart
<1>4. IsFiniteSet(D) /\ D \subseteq lp.rows
  BY FS_RemoveElement
<1> HIDE DEF f, g
<1>5. Total(f, lp.rows) = f[i] + Total(f, D)
  <2> HIDE DEF D
  <2> QED BY <1>1, TotalTakesOut DEF D
<1>6. \A q \in lp.rows : g[q] \in Int
  BY <1>1, <1>3
<1>7. Total(g, lp.rows) = Total(g, D)
  <2>1. \A q \in lp.rows \ D : g[q] = 0
    BY <1>3
  <2> HIDE DEF D
  <2> QED BY <1>4, <1>6, <2>1, TotalSkipsZeros
<1>8. Total(f, D) = Total(g, D)
  BY <1>3, <1>4, TotalAgrees
<1>9. Total(f, lp.rows) \in Int /\ Total(g, lp.rows) \in Int /\ f[i] \in Int
  BY <1>1, <1>6, TotalInt
<1>10. Total(f, lp.rows) = Total(g, lp.rows) + f[i]
  BY <1>5, <1>7, <1>8, <1>9
<1>11. f[i] = 0 => Total(f, lp.rows) = Total(g, lp.rows)
  BY <1>9, <1>10
<1> QED BY <1>2, <1>10, <1>11 DEF PriceSum, f, g

(* A sum of rounded products.                                              *)
LEMMA TotalOfRounded ==
  ASSUME NEW a, NEW b, NEW S
  PROVE  MapThenSumSet(LAMBDA q : Mul(a[q], b[q]), S) = Total([q \in S |-> Mul(a[q], b[q])], S)
BY DEF Total, MapThenSumSet, MapThenFoldSet

(* The price of the pivot of row i in column j.  If nothing is rounded,    *)
(* the column prices out with it.                                          *)
LEMMA PivotPrices ==
  ASSUME IsFiniteSet(lp.rows), NEW v \in Image, NEW i \in lp.rows, i \in v.rows, NEW j \in lp.cols,
         i \in DOMAIN v.A[j], v.A[j][i] # 0, NEW r, r.i = i, r.a_ij = v.A[j][i], r.cj = v.c[j],
         r.snap = ps_snapshot(v, j), NEW d, NEW R, R = v.rows \ {i}, Ready(lp, d, R), NEW e, e = Priced(r, d)
  PROVE  /\ Ready(lp, e, v.rows)
         /\ \E z \in Int : e.y = [d.y EXCEPT ![i] = z]
         /\ ~e.rounded => ~d.rounded /\ PricesOut(lp, v, e.y, j)
<1> DEFINE a == v.A[j][i]
           y == d.y
           others == DOMAIN r.snap \ {i}
           part == [q \in others |-> Mul(y[q], r.snap[q])]
           total == MapThenSumSet(LAMBDA q : Mul(y[q], r.snap[q]), others)
           left == v.c[j] - total
           z == Div(left, a)
           exact == ExactDiv(left, a) /\ \A q \in others : ExactMul(y[q], r.snap[q])
           y1 == [y EXCEPT ![i] = z]
<1>1. /\ y \in [lp.rows -> Int] /\ a \in Int /\ a # 0 /\ v.c[j] \in Int
      /\ d.failed = FALSE /\ v.rows \ {i} \subseteq d.known
      /\ DOMAIN v.A[j] \subseteq lp.rows /\ \A q \in DOMAIN v.A[j] : v.A[j][q] \in Int
  BY EntriesAre DEF Ready, Prices
<1>2. /\ others = {q \in DOMAIN v.A[j] : v.A[j][q] # 0 /\ q \in v.rows /\ q # i}
      /\ \A q \in others : r.snap[q] = v.A[j][q]
  BY DEF ps_snapshot
<1>3. others \subseteq d.known /\ others \in SUBSET lp.rows /\ IsFiniteSet(others)
  <2>1. others \subseteq d.known /\ others \subseteq lp.rows
    BY <1>1, <1>2
  <2> HIDE DEF others
  <2> QED BY <2>1, FS_Subset
<1>4. total = Total(part, others)
  <2> DEFINE snap == r.snap
  <2>1. total = MapThenSumSet(LAMBDA q : Mul(y[q], snap[q]), others) /\ part = [q \in others |-> Mul(y[q], snap[q])]
    OBVIOUS
  <2> HIDE DEF snap, y, others, total, part
  <2> QED BY <2>1, TotalOfRounded, Zenon
<1>5. e = Dual(i, z, exact, d)
  <2>1. r.cj - total = left
    OBVIOUS
  <2> QED BY <1>3 DEF Priced
<1> HIDE DEF total
<1>6. \A q \in others : y[q] \in Int /\ v.A[j][q] \in Int /\ part[q] \in Int
  <2> TAKE q \in others
  <2>1. y[q] \in Int /\ v.A[j][q] \in Int /\ part[q] = Mul(y[q], v.A[j][q])
    BY <1>1, <1>2
  <2> HIDE DEF part
  <2> QED BY <2>1, MulIs
<1> HIDE DEF part
<1>7. total \in Int /\ left \in Int /\ z \in Int
  <2>1. total \in Int
    BY <1>3, <1>4, <1>6, TotalInt
  <2>2. left \in Int /\ left * U \in Int
    BY <1>1, <2>1, UnitIs
  <2> HIDE DEF left, a
  <2>3. z \in Int
    BY <1>1, <2>2, FloorIs DEF Div
  <2> QED BY <2>1, <2>2, <2>3
<1> HIDE DEF left, z, exact
<1>8. /\ e.y = y1 /\ (~e.rounded <=> ~d.rounded /\ exact) /\ e.failed = d.failed
      /\ e.known = d.known \cup {i}
  <2> DEFINE new == Dual(i, z, exact, d)
  <2>1. /\ new.y = y1 /\ (~new.rounded <=> ~d.rounded /\ exact) /\ new.failed = d.failed
        /\ new.known = d.known \cup {i}
    BY DEF Dual
  <2>2. e = new
    BY <1>5
  <2> HIDE DEF new
  <2> QED BY <2>1, <2>2
<1>9. Ready(lp, e, v.rows)
  BY <1>1, <1>7, <1>8 DEF Ready, Prices
<1>10. ASSUME exact PROVE PricesOut(lp, v, y1, j)
  <2> DEFINE u == [rows |-> v.rows \ {i}, A |-> v.A]
             f == PricePart(lp, u, y, j)
  <2>1. PriceSum(lp, v, y1, j) = PriceSum(lp, u, y, j) + a * z
    <3>1. u.rows = v.rows \ {i} /\ u.A[j] = v.A[j]
      OBVIOUS
    <3>2. y1 \in [lp.rows -> Int] /\ y1[i] = z /\ \A q \in lp.rows \ {i} : y1[q] = y[q]
      BY <1>1, <1>7
    <3> HIDE DEF u, y, y1
    <3> QED BY <3>1, <3>2, PriceMoves
  <2>2. \A q \in others : f[q] \in Int /\ f[q] = U * part[q]
    <3> TAKE q \in others
    <3>1. f[q] = v.A[j][q] * y[q]
      BY <1>2, <1>3 DEF PricePart
    <3>2. ExactMul(y[q], v.A[j][q])
      BY <1>2, <1>10 DEF exact
    <3>3. part[q] = Mul(y[q], v.A[j][q])
      BY <1>2 DEF part
    <3>4. part[q] * U = y[q] * v.A[j][q]
      BY <3>2, <3>3 DEF ExactMul
    <3>5. part[q] * U = U * part[q] /\ y[q] * v.A[j][q] = v.A[j][q] * y[q] /\ v.A[j][q] * y[q] \in Int
      BY <1>6, UnitIs
    <3> HIDE DEF f
    <3> QED BY <3>1, <3>4, <3>5
  <2>3. \A q \in lp.rows \ others : f[q] = 0
    <3> TAKE q \in lp.rows \ others
    <3>1. q \in v.rows \ {i} /\ q \in DOMAIN v.A[j] => v.A[j][q] = 0
      BY <1>2
    <3>2. y[q] \in Int /\ 0 * y[q] = 0
      BY <1>1
    <3> QED BY <3>1, <3>2 DEF PricePart
  <2>4. PriceSum(lp, u, y, j) = Total(f, lp.rows)
    BY DEF PriceSum
  <2> HIDE DEF f, u, others
  <2>5. Total(f, lp.rows) = Total(f, others)
    <3>1. \A q \in lp.rows : f[q] \in Int
      BY <2>2, <2>3
    <3> QED BY <1>3, <2>3, <3>1, TotalSkipsZeros
  <2>6. Total(f, others) = U * total
    BY <1>3, <1>4, <1>6, <2>2, UnitIs, TotalScales
  <2>7. a * z = left * U
    BY <1>10 DEF exact, ExactDiv, z
  <2>8. left * U = v.c[j] * U - U * total
    <3>1. left = v.c[j] - total
      BY DEF left
    <3> QED BY <1>1, <1>7, <3>1, UnitIs
  <2>9. U * total \in Int /\ v.c[j] * U \in Int
    BY <1>1, <1>7, UnitIs
  <2>10. PriceSum(lp, v, y1, j) = v.c[j] * U
    BY <2>1, <2>4, <2>5, <2>6, <2>7, <2>8, <2>9
  <2> QED BY <2>10 DEF PricesOut
<1>11. ~e.rounded => ~d.rounded /\ PricesOut(lp, v, e.y, j)
  BY <1>8, <1>10
<1> QED BY <1>7, <1>8, <1>9, <1>11

(* A column that leaves has no dual of its own.                            *)
LEMMA ColumnBack ==
  ASSUME NEW p, NEW r, r.kind \in {"col_fixed", "col_empty"}, NEW v, NEW u,
         u.cols \subseteq v.cols, u.rows = v.rows, u.A = v.A, u.c = v.c
  PROVE  StepBack(p, r, v, u)
<1> SUFFICES ASSUME NEW x, NEW d, Ready(p, d, u.rows)
             PROVE  LET e == UndoDual(x, r, d)
                    IN  /\ Ready(p, e, v.rows)
                        /\ ~e.rounded => StepsBack(p, r, v, u, d, e)
  BY DEF StepBack
<1>1. UndoDual(x, r, d) = d
  BY DEF UndoDual, Slack
<1>2. \A j : PricesOut(p, u, d.y, j) => PricesOut(p, v, d.y, j)
  BY DEF PricesOut, PriceSum, PricePart
<1> QED BY <1>1, <1>2 DEF StepsBack

(* A row without a price gets the dual zero.                               *)
LEMMA ZeroDual ==
  ASSUME NEW v \in Image, IsFiniteSet(lp.rows), NEW i \in lp.rows, i \in v.rows, NEW r, r.i = i, NEW x, NEW d,
         NEW u, u.rows = v.rows \ {i}, u.A = v.A,
         Ready(lp, d, u.rows), r.kind \in {"row_empty", "row_redundant"} \/ Slack(r, x),
         NEW e, e = UndoDual(x, r, d)
  PROVE  /\ Ready(lp, e, v.rows) /\ (~e.rounded => ~d.rounded)
         /\ \A j \in lp.cols : PriceSum(lp, v, e.y, j) = PriceSum(lp, u, d.y, j)
<1>1. d.failed = FALSE /\ v.rows \ {i} \subseteq d.known /\ d.y \in [lp.rows -> Int]
  BY DEF Ready, Prices
<1>2. e = Dual(i, 0, TRUE, d)
  BY <1>1 DEF UndoDual, Slack
<1>3. /\ e.y = [d.y EXCEPT ![i] = 0] /\ (~e.rounded => ~d.rounded) /\ e.failed = d.failed
      /\ e.known = d.known \cup {i}
  <2> DEFINE new == Dual(i, 0, TRUE, d)
  <2>1. /\ new.y = [d.y EXCEPT ![i] = 0] /\ (~new.rounded => ~d.rounded) /\ new.failed = d.failed
        /\ new.known = d.known \cup {i}
    BY DEF Dual
  <2>2. e = new
    BY <1>2
  <2> HIDE DEF new
  <2> QED BY <2>1, <2>2
<1>4. Ready(lp, e, v.rows)
  BY <1>1, <1>3 DEF Ready, Prices
<1>5. ASSUME NEW j \in lp.cols
      PROVE  PriceSum(lp, v, e.y, j) = PriceSum(lp, u, d.y, j)
  <2> DEFINE y1 == e.y
             y == d.y
  <2>1. y1 \in [lp.rows -> Int] /\ y1[i] = 0 /\ \A q \in lp.rows \ {i} : y1[q] = y[q]
    BY <1>1, <1>3
  <2> HIDE DEF y1, y
  <2>2. /\ i \in DOMAIN v.A[j] => PriceSum(lp, v, y1, j) = PriceSum(lp, u, y, j) + v.A[j][i] * y1[i]
        /\ i \notin DOMAIN v.A[j] => PriceSum(lp, v, y1, j) = PriceSum(lp, u, y, j)
    BY <2>1, PriceMoves
  <2>3. PriceSum(lp, u, y, j) \in Int
    <3>1. PricePart(lp, u, y, j) = [q \in lp.rows |-> IF q = i THEN 0 ELSE PricePart(lp, v, y1, j)[q]]
      BY <2>1 DEF PricePart
    <3>2. \A q \in lp.rows : PricePart(lp, u, y, j)[q] \in Int
      BY <2>1, <3>1, PricesAre
    <3> QED BY <3>2, TotalInt DEF PriceSum
  <2>4. i \in DOMAIN v.A[j] => v.A[j][i] * y1[i] = 0
    BY <2>1, EntriesAre
  <2>5. PriceSum(lp, v, y1, j) = PriceSum(lp, u, y, j)
    BY <2>2, <2>3, <2>4
  <2> QED BY <2>5 DEF y1, y
<1> QED BY <1>3, <1>4, <1>5

LEMMA RowBack ==
  ASSUME IsFiniteSet(lp.rows), NEW v \in Image, NEW i \in lp.rows, i \in v.rows,
         NEW r, r.kind \in {"row_empty", "row_redundant"}, r.i = i,
         NEW u, u.cols = v.cols, u.rows = v.rows \ {i}, u.A = v.A, u.c = v.c
  PROVE  StepBack(lp, r, v, u)
<1> SUFFICES ASSUME NEW x, NEW d, Ready(lp, d, u.rows)
             PROVE  LET e == UndoDual(x, r, d)
                    IN  /\ Ready(lp, e, v.rows)
                        /\ ~e.rounded => StepsBack(lp, r, v, u, d, e)
  BY DEF StepBack
<1> DEFINE e == UndoDual(x, r, d)
<1>1. /\ Ready(lp, e, v.rows) /\ (~e.rounded => ~d.rounded)
      /\ \A j \in lp.cols : PriceSum(lp, v, e.y, j) = PriceSum(lp, u, d.y, j)
  <2>1. e = UndoDual(x, r, d)
    OBVIOUS
  <2> HIDE DEF e
  <2> QED BY <2>1, ZeroDual
<1> HIDE DEF e
<1>2. \A j \in u.cols : j \in lp.cols /\ (PricesOut(lp, u, d.y, j) => PricesOut(lp, v, e.y, j))
  BY <1>1 DEF PricesOut, Image
<1>3. ~e.rounded => StepsBack(lp, r, v, u, d, e)
  BY <1>1, <1>2 DEF StepsBack
<1> QED BY <1>1, <1>3 DEF e

(* A singleton row carries no dual where it is slack, and otherwise makes  *)
(* its column price out; it has no entry in another column.                *)
LEMMA SingletonBack ==
  ASSUME IsFiniteSet(lp.rows), NEW v \in Image, NEW i \in lp.rows, i \in v.rows, NEW j, row_collect(v, i) = {j},
         v.A[j][i] # 0, NEW r, r.kind = "row_singleton", r.i = i, r.a_ij = v.A[j][i], r.cj = v.c[j],
         r.snap = ps_snapshot(v, j),
         NEW u, u.cols = v.cols, u.rows = v.rows \ {i}, u.A = v.A, u.c = v.c
  PROVE  StepBack(lp, r, v, u)
<1> SUFFICES ASSUME NEW x, NEW d, Ready(lp, d, u.rows)
             PROVE  LET e == UndoDual(x, r, d)
                    IN  /\ Ready(lp, e, v.rows)
                        /\ ~e.rounded => StepsBack(lp, r, v, u, d, e)
  BY DEF StepBack
<1> DEFINE e == UndoDual(x, r, d)
<1>0. j \in lp.cols /\ j \in v.cols /\ i \in DOMAIN v.A[j] /\ v.cols \subseteq lp.cols
      /\ \A q \in v.cols : q # j => i \notin DOMAIN v.A[q]
  BY DEF row_collect, Image
<1>1. CASE Slack(r, x)
  <2>1. /\ Ready(lp, e, v.rows) /\ (~e.rounded => ~d.rounded)
        /\ \A q \in lp.cols : PriceSum(lp, v, e.y, q) = PriceSum(lp, u, d.y, q)
    <3>1. e = UndoDual(x, r, d)
      OBVIOUS
    <3> HIDE DEF e
    <3> QED BY <1>1, <3>1, ZeroDual
  <2> HIDE DEF e
  <2>2. \A q \in u.cols : PricesOut(lp, u, d.y, q) => PricesOut(lp, v, e.y, q)
    BY <1>0, <2>1 DEF PricesOut
  <2>3. ~e.rounded => StepsBack(lp, r, v, u, d, e)
    BY <2>1, <2>2 DEF StepsBack
  <2> QED BY <2>1, <2>3 DEF e
<1>2. CASE ~Slack(r, x)
  <2>1. e = Priced(r, d)
    BY <1>2 DEF UndoDual, Ready, Prices
  <2> HIDE DEF e
  <2>2. /\ Ready(lp, e, v.rows)
        /\ \E z \in Int : e.y = [d.y EXCEPT ![i] = z]
        /\ ~e.rounded => ~d.rounded /\ PricesOut(lp, v, e.y, j)
    <3>1. Ready(lp, d, v.rows \ {i})
      OBVIOUS
    <3> QED BY <1>0, <2>1, <3>1, PivotPrices
  <2>3. ASSUME NEW q \in v.cols, q # j PROVE PriceSum(lp, v, e.y, q) = PriceSum(lp, u, d.y, q)
    <3> DEFINE y1 == e.y
               y == d.y
    <3>1. y1 \in [lp.rows -> Int] /\ \A s \in lp.rows \ {i} : y1[s] = y[s]
      BY <2>2 DEF Ready
    <3>2. q \in lp.cols /\ i \notin DOMAIN v.A[q] /\ u.A[q] = v.A[q]
      BY <1>0, <2>3
    <3> HIDE DEF y, y1
    <3>3. PriceSum(lp, v, y1, q) = PriceSum(lp, u, y, q)
      BY <3>1, <3>2, PriceMoves
    <3> QED BY <3>3 DEF y, y1
  <2>4. ~e.rounded => \A q \in u.cols : PricesOut(lp, u, d.y, q) => PricesOut(lp, v, e.y, q)
    BY <2>2, <2>3 DEF PricesOut
  <2>5. ~e.rounded => StepsBack(lp, r, v, u, d, e)
    BY <2>2, <2>4 DEF StepsBack
  <2> QED BY <2>2, <2>5 DEF e
<1> QED BY <1>1, <1>2

(* The prices of the partner before and after a substitution.              *)
LEMMA FilledPrices ==
  ASSUME IsFiniteSet(lp.rows), NEW v \in Image, NEW i \in lp.rows, NEW j \in lp.cols, NEW k \in lp.cols,
         NEW t \in Int, \A q \in DOMAIN v.A[j] : ExactMul(v.A[j][q], t),
         NEW u, u.rows = v.rows \ {i}, u.A[k] = Filled(v, i, j, k, t),
         NEW cut, cut.rows = v.rows \ {i}, cut.A = v.A, NEW y \in [lp.rows -> Int]
  PROVE  /\ PriceSum(lp, u, y, k) \in Int /\ PriceSum(lp, cut, y, k) \in Int /\ PriceSum(lp, cut, y, j) \in Int
         /\ U * PriceSum(lp, u, y, k) = U * PriceSum(lp, cut, y, k) + t * PriceSum(lp, cut, y, j)
<1> DEFINE f == PricePart(lp, u, y, k)
           g == PricePart(lp, cut, y, k)
           h == PricePart(lp, cut, y, j)
           uf == [s \in lp.rows |-> U * f[s]]
           ug == [s \in lp.rows |-> U * g[s]]
           th == [s \in lp.rows |-> t * h[s]]
<1>1. /\ DOMAIN v.A[j] \subseteq lp.rows /\ \A r \in DOMAIN v.A[j] : v.A[j][r] \in Int
      /\ DOMAIN v.A[k] \subseteq lp.rows /\ \A r \in DOMAIN v.A[k] : v.A[k][r] \in Int
      /\ U \in Int
  BY EntriesAre, UnitIs
<1>2. ASSUME NEW s \in lp.rows
      PROVE  f[s] \in Int /\ g[s] \in Int /\ h[s] \in Int /\ U * f[s] = U * g[s] + t * h[s]
  <2> DEFINE old == IF s \in DOMAIN v.A[k] THEN v.A[k][s] ELSE 0
             more == IF s \in DOMAIN v.A[j] THEN v.A[j][s] ELSE 0
             M == Mul(more, t)
             z == y[s]
  <2>1. old \in Int /\ more \in Int /\ z \in Int
    BY <1>1
  <2>2. CASE s \notin v.rows \ {i}
    <3>1. f[s] = 0 /\ g[s] = 0 /\ h[s] = 0
      BY <2>2 DEF PricePart
    <3> HIDE DEF f, g, h
    <3> QED BY <1>1, <3>1
  <2>3. CASE s \in v.rows \ {i}
    <3>1. g[s] = old * z /\ h[s] = more * z
      <4>1. g[s] = (IF s \in DOMAIN v.A[k] THEN v.A[k][s] * z ELSE 0)
            /\ h[s] = (IF s \in DOMAIN v.A[j] THEN v.A[j][s] * z ELSE 0)
        BY <2>3 DEF PricePart
      <4>2. 0 * z = 0
        BY <2>1
      <4> HIDE DEF g, h, z
      <4> QED BY <4>1, <4>2
    <3>2. CASE s \in DOMAIN v.A[j]
      <4>1. f[s] = (old + M) * z
        BY <2>3, <3>2 DEF PricePart, Filled
      <4>2. M \in Int /\ M * U = more * t
        <5>1. M \in Int
          <6> HIDE DEF more
          <6> QED BY <2>1, MulIs
        <5>2. M * U = more * t
          BY <3>2 DEF ExactMul
        <5> QED BY <5>1, <5>2
      <4> HIDE DEF f, g, h, old, more, M, z
      <4>3. f[s] \in Int /\ g[s] \in Int /\ h[s] \in Int
        BY <2>1, <3>1, <4>1, <4>2
      <4>4. U * ((old + M) * z) = U * (old * z) + (M * U) * z
        BY <1>1, <2>1, <4>2
      <4>5. (more * t) * z = t * (more * z)
        BY <2>1
      <4> QED BY <3>1, <4>1, <4>2, <4>3, <4>4, <4>5
    <3>3. CASE s \notin DOMAIN v.A[j]
      <4>1. f[s] = old * z
        <5>1. f[s] = IF s \in DOMAIN v.A[k] THEN v.A[k][s] * z ELSE 0
          BY <2>3, <3>3 DEF PricePart, Filled
        <5>2. 0 * z = 0
          BY <2>1
        <5> HIDE DEF f, z
        <5> QED BY <5>1, <5>2
      <4>2. more = 0
        BY <3>3
      <4> HIDE DEF f, g, h, old, more, z
      <4>3. h[s] = 0
        BY <2>1, <3>1, <4>2
      <4> QED BY <1>1, <2>1, <3>1, <4>1, <4>3
    <3> QED BY <3>2, <3>3
  <2> QED BY <2>2, <2>3
<1> HIDE DEF f, g, h
<1>3. /\ Total(uf, lp.rows) = U * Total(f, lp.rows) /\ Total(ug, lp.rows) = U * Total(g, lp.rows)
      /\ Total(th, lp.rows) = t * Total(h, lp.rows)
  <2>1. Total(uf, lp.rows) = U * Total(f, lp.rows)
    BY <1>1, <1>2, TotalScales
  <2>2. Total(ug, lp.rows) = U * Total(g, lp.rows)
    BY <1>1, <1>2, TotalScales
  <2>3. Total(th, lp.rows) = t * Total(h, lp.rows)
    BY <1>1, <1>2, TotalScales
  <2> QED BY <2>1, <2>2, <2>3
<1>4. Total(uf, lp.rows) = Total(ug, lp.rows) + Total(th, lp.rows)
  <2>1. \A s \in lp.rows : ug[s] \in Int /\ th[s] \in Int /\ uf[s] = ug[s] + th[s]
    BY <1>1, <1>2
  <2> HIDE DEF uf, ug, th
  <2> QED BY <2>1, TotalAdds
<1>5. Total(f, lp.rows) \in Int /\ Total(g, lp.rows) \in Int /\ Total(h, lp.rows) \in Int
  BY <1>2, TotalInt
<1> HIDE DEF uf, ug, th
<1> QED BY <1>3, <1>4, <1>5 DEF PriceSum, f, g, h

(* The arithmetic of the partner: pivot a and partner entry b of the row,  *)
(* costs cj and ck, the row's dual z, sums tj and tk over the other rows,  *)
(* and the sum tu of the filled column, which prices out at ck + mm.       *)
Partners(a, b, t, cj, ck, mm, z, tj, tk, tu) ==
  /\ a \in Int /\ b \in Int /\ t \in Int /\ cj \in Int /\ ck \in Int /\ mm \in Int /\ z \in Int
  /\ tj \in Int /\ tk \in Int /\ tu \in Int
  /\ a * t = (-b) * U /\ mm * U = cj * t
  /\ tj + a * z = cj * U
  /\ U * tu = U * tk + t * tj
  /\ tu = (ck + mm) * U

LEMMA PartnerPrices ==
  ASSUME NEW a, NEW b, NEW t, NEW cj, NEW ck, NEW mm, NEW z, NEW tj, NEW tk, NEW tu,
         Partners(a, b, t, cj, ck, mm, z, tj, tk, tu)
  PROVE  tk + b * z = ck * U
<1> DEFINE unit == U
<1>0. /\ unit \in Int /\ unit > 0
      /\ a \in Int /\ b \in Int /\ t \in Int /\ cj \in Int /\ ck \in Int /\ mm \in Int /\ z \in Int
      /\ tj \in Int /\ tk \in Int /\ tu \in Int
      /\ a * t = (-b) * unit /\ mm * unit = cj * t
      /\ tj + a * z = cj * unit
      /\ unit * tu = unit * tk + t * tj
      /\ tu = (ck + mm) * unit
  BY UnitIs DEF Partners
<1> HIDE DEF unit
<1> DEFINE p == tk + b * z
           q == ck * unit
<1>1. p \in Int /\ q \in Int
  BY <1>0
<1>2. t * tj = t * (cj * unit) - t * (a * z)
  <2>1. tj = cj * unit - a * z
    BY <1>0
  <2>2. t * (cj * unit - a * z) = t * (cj * unit) - t * (a * z)
    BY <1>0
  <2> QED BY <1>0, <2>1, <2>2
<1>3. t * (a * z) = -(unit * (b * z))
  <2>1. t * (a * z) = (a * t) * z
    BY <1>0
  <2>2. ((-b) * unit) * z = -(unit * (b * z))
    BY <1>0
  <2> QED BY <1>0, <2>1, <2>2
<1>4. unit * tu = unit * q + unit * (mm * unit)
  BY <1>0
<1>5. unit * (mm * unit) = t * (cj * unit)
  <2>1. unit * (mm * unit) = unit * (cj * t)
    BY <1>0
  <2> QED BY <1>0, <2>1
<1>6. unit * p = unit * tk + unit * (b * z)
  BY <1>0
<1>7. unit * p = unit * q
  <2> DEFINE s1 == unit * tk
             s2 == unit * (b * z)
             s3 == t * (cj * unit)
             s4 == unit * q
             s5 == t * tj
             s6 == unit * tu
             s7 == unit * p
             s8 == t * (a * z)
             s9 == unit * (mm * unit)
  <2>1. s1 \in Int /\ s2 \in Int /\ s3 \in Int /\ s4 \in Int /\ s5 \in Int
    BY <1>0, <1>1
  <2>2. s6 = s1 + s5
    BY <1>0
  <2>3. s5 = s3 - s8 /\ s8 = -s2 /\ s6 = s4 + s9 /\ s9 = s3 /\ s7 = s1 + s2
    BY <1>2, <1>3, <1>4, <1>5, <1>6
  <2> HIDE DEF s1, s2, s3, s4, s5, s6, s7, s8, s9
  <2>4. s7 = s4
    BY <2>1, <2>2, <2>3
  <2> QED BY <2>4 DEF s7, s4
<1> HIDE DEF p, q
<1>8. p = q
  BY <1>0, <1>1, <1>7, Cancels
<1> QED BY <1>8 DEF p, q, unit

(* The image z is v but for the box, and u is v after the substitution.    *)
OnlyBox(v, z) == DOMAIN z = DOMAIN v /\ z.A = v.A /\ z.c = v.c /\ z.rows = v.rows /\ z.cols = v.cols
SubstitutedIn(v, u, i, j, k, t) ==
  /\ u.cols = v.cols \ {j} /\ u.rows = v.rows \ {i}
  /\ \A q \in lp.cols : /\ u.A[q] = IF q = k THEN Filled(v, i, j, k, t) ELSE v.A[q]
                        /\ q # j => u.c[q] = v.c[q] + (IF q = k THEN Mul(v.c[j], t) ELSE 0)

(* A doubleton row makes its pivot column price out, and then its partner  *)
(* does if it did after the substitution.                                  *)
LEMMA DoubletonBack ==
  ASSUME IsFiniteSet(lp.rows), NEW v \in Image, NEW i \in lp.rows, i \in v.rows, NEW j \in lp.cols, NEW k \in lp.cols,
         j # k, row_collect(v, i) = {j, k}, v.A[j][i] # 0, NEW t \in Int,
         ExactDiv(-v.A[k][i], v.A[j][i]), t = Div(-v.A[k][i], v.A[j][i]),
         ExactMul(v.c[j], t), \A q \in DOMAIN v.A[j] : ExactMul(v.A[j][q], t),
         NEW r, r.kind = "row_doubleton", r.i = i, r.j = j, r.a_ij = v.A[j][i], r.cj = v.c[j],
         r.snap = ps_snapshot(v, j),
         NEW u, SubstitutedIn(v, u, i, j, k, t)
  PROVE  StepBack(lp, r, v, u)
<1>0. /\ u.cols = v.cols \ {j} /\ u.rows = v.rows \ {i}
      /\ \A q \in lp.cols : /\ u.A[q] = IF q = k THEN Filled(v, i, j, k, t) ELSE v.A[q]
                            /\ q # j => u.c[q] = v.c[q] + (IF q = k THEN Mul(v.c[j], t) ELSE 0)
  BY DEF SubstitutedIn
<1> SUFFICES ASSUME NEW x, NEW d, Ready(lp, d, u.rows), NEW e, e = UndoDual(x, r, d)
             PROVE  /\ Ready(lp, e, v.rows)
                    /\ ~e.rounded => StepsBack(lp, r, v, u, d, e)
  BY DEF StepBack
<1>1. /\ j \in v.cols /\ i \in DOMAIN v.A[j] /\ k \in v.cols /\ i \in DOMAIN v.A[k] /\ v.cols \subseteq lp.cols
      /\ \A q \in v.cols : q \notin {j, k} => i \notin DOMAIN v.A[q]
  BY DEF row_collect, Image
<1>2. e = Priced(r, d)
  BY DEF UndoDual, Ready, Prices, Slack
<1>3. /\ Ready(lp, e, v.rows)
      /\ \E z \in Int : e.y = [d.y EXCEPT ![i] = z]
      /\ ~e.rounded => ~d.rounded /\ PricesOut(lp, v, e.y, j)
  BY <1>0, <1>1, <1>2, PivotPrices
<1> DEFINE y == d.y
           y1 == e.y
           z == y1[i]
<1>4. /\ y \in [lp.rows -> Int] /\ y1 \in [lp.rows -> Int] /\ z \in Int
      /\ \A s \in lp.rows \ {i} : y1[s] = y[s]
  BY <1>3 DEF Ready
<1> HIDE DEF y, y1
<1>5. ASSUME NEW q \in u.cols, q # k, PricesOut(lp, u, y, q) PROVE PricesOut(lp, v, y1, q)
  <2>1. q \in lp.cols /\ i \notin DOMAIN v.A[q] /\ u.A[q] = v.A[q] /\ u.c[q] = v.c[q] + 0
    BY <1>0, <1>1, <1>5
  <2>2. PriceSum(lp, v, y1, q) = PriceSum(lp, u, y, q)
    BY <1>0, <1>4, <2>1, PriceMoves
  <2>3. v.c[q] \in Int
    BY <2>1, EntriesAre
  <2> QED BY <1>5, <2>1, <2>2, <2>3 DEF PricesOut
<1>6. ASSUME PricesOut(lp, v, y1, j), PricesOut(lp, u, y, k) PROVE PricesOut(lp, v, y1, k)
  <2> DEFINE cut == [rows |-> v.rows \ {i}, A |-> v.A]
             a == v.A[j][i]
             b == v.A[k][i]
             cj == v.c[j]
             ck == v.c[k]
             mm == Mul(cj, t)
             tj == PriceSum(lp, cut, y, j)
             tk == PriceSum(lp, cut, y, k)
             tu == PriceSum(lp, u, y, k)
  <2>1. a \in Int /\ b \in Int /\ cj \in Int /\ ck \in Int /\ U \in Int /\ U > 0
    BY <1>1, EntriesAre, UnitIs
  <2>2. mm \in Int
    <3> HIDE DEF cj
    <3> QED BY <2>1, MulIs
  <2>3. cut.rows = v.rows \ {i} /\ cut.A = v.A
    OBVIOUS
  <2> HIDE DEF cut
  <2>4. tu \in Int /\ tk \in Int /\ tj \in Int /\ U * tu = U * tk + t * tj
    <3>1. u.A[k] = Filled(v, i, j, k, t) /\ u.rows = v.rows \ {i}
      BY <1>0
    <3> QED BY <1>4, <2>3, <3>1, FilledPrices
  <2>5. PriceSum(lp, v, y1, j) = tj + a * z /\ PriceSum(lp, v, y1, k) = tk + b * z
    <3>1. PriceSum(lp, v, y1, j) = tj + a * z
      BY <1>1, <1>4, <2>3, PriceMoves
    <3>2. PriceSum(lp, v, y1, k) = tk + b * z
      BY <1>1, <1>4, <2>3, PriceMoves
    <3> QED BY <3>1, <3>2
  <2>6. tj + a * z = cj * U
    BY <1>6, <2>5 DEF PricesOut
  <2>7. tu = (ck + mm) * U
    <3>1. u.c[k] = ck + mm
      BY <1>0
    <3>2. tu = u.c[k] * U
      BY <1>6 DEF PricesOut
    <3> HIDE DEF tu, ck, mm
    <3> QED BY <3>1, <3>2
  <2>8. a * t = (-b) * U /\ mm * U = cj * t
    BY DEF ExactDiv, ExactMul
  <2> HIDE DEF a, b, cj, ck, mm, tj, tk, tu, z
  <2>9. tk + b * z = ck * U
    <3>1. Partners(a, b, t, cj, ck, mm, z, tj, tk, tu)
      BY <1>4, <2>1, <2>2, <2>4, <2>6, <2>7, <2>8 DEF Partners
    <3> QED BY <3>1, PartnerPrices
  <2>10. PriceSum(lp, v, y1, k) = ck * U
    BY <2>5, <2>9
  <2> QED BY <2>10 DEF PricesOut, ck
<1>7. ASSUME ~e.rounded PROVE StepsBack(lp, r, v, u, d, e)
  <2>1. ~d.rounded /\ PricesOut(lp, v, y1, j)
    BY <1>3, <1>7 DEF y1
  <2>2. \A q \in u.cols : q \in v.cols /\ (PricesOut(lp, u, y, q) => PricesOut(lp, v, y1, q))
    BY <1>0, <1>1, <1>5, <1>6, <2>1
  <2> QED BY <1>1, <2>1, <2>2 DEF StepsBack, y, y1
<1> QED BY <1>3, <1>7

(* What a substitution makes of an image whose box was folded.             *)
LEMMA SubstitutedIs ==
  ASSUME NEW v, v \in Image, NEW z, OnlyBox(v, z), NEW i, NEW j, NEW k, k \in lp.cols, NEW bover, NEW t
  PROVE  SubstitutedIn(v, Substitute(z, i, j, k, bover, t), i, j, k, t)
<1> DEFINE u == Substitute(z, i, j, k, bover, t)
           rows == (DOMAIN v.A[j] \cap v.rows) \ {i}
           F == Filled(v, i, j, k, t)
           c == [v.c EXCEPT ![k] = @ + Mul(v.c[j], t), ![j] = 0]
           B == [s \in lp.rows |-> IF s \in rows THEN z.b[s] - Mul(v.A[j][s], bover) ELSE z.b[s]]
           more == Mul(v.c[j], bover)
           fill == Cardinality(rows \ DOMAIN v.A[k])
<1>0. DOMAIN z = DOMAIN v /\ z.A = v.A /\ z.c = v.c /\ z.rows = v.rows /\ z.cols = v.cols
  BY DEF OnlyBox
<1>1. u = [z EXCEPT !.A[k] = F, !.c = c, !.objconst = @ + more, !.b = B, !.touched = @ \cup rows,
                    !.nnz = @ + fill, !.rows = @ \ {i}, !.cols = @ \ {j}]
  BY <1>0, Zenon DEF Substitute, Filled
<1>2. v.c \in [lp.cols -> Int] /\ v.A \in [lp.cols -> Column(lp)]
      /\ {"A", "c", "objconst", "b", "touched", "nnz", "rows", "cols"} \subseteq DOMAIN z
  BY <1>0 DEF Image
<1> HIDE DEF u, F, c, B, more, fill, rows
<1>3. u.cols = v.cols \ {j} /\ u.rows = v.rows \ {i} /\ u.c = c /\ u.A = [v.A EXCEPT ![k] = F]
  BY <1>0, <1>1, <1>2
<1>4. ASSUME NEW q \in lp.cols, q # j PROVE c[q] = v.c[q] + (IF q = k THEN Mul(v.c[j], t) ELSE 0)
  BY <1>2, <1>4 DEF c
<1>5. SubstitutedIn(v, u, i, j, k, t)
  BY <1>2, <1>3, <1>4 DEF F, SubstitutedIn
<1> QED BY <1>5 DEF u

(* The rebuild drops entries that do not count.                            *)
LEMMA RebuildPrices ==
  ASSUME IsFiniteSet(lp.rows), NEW v \in Image, NEW u, u = pw_rebuild(v)
  PROVE  SamePrices(lp, v, u)
<1>1. u.cols = v.cols /\ u.rows = v.rows /\ u.c = v.c /\ v.cols \subseteq lp.cols
      /\ \A j \in v.cols : /\ DOMAIN u.A[j] = {r \in DOMAIN v.A[j] \cap v.rows : v.A[j][r] # 0}
                           /\ \A r \in DOMAIN u.A[j] : u.A[j][r] = v.A[j][r]
  BY DEF pw_rebuild, Image
<1>2. ASSUME NEW j \in v.cols, NEW y \in [lp.rows -> Int]
      PROVE  PriceSum(lp, u, y, j) = PriceSum(lp, v, y, j)
  <2>1. ASSUME NEW i \in lp.rows PROVE PricePart(lp, u, y, j)[i] = PricePart(lp, v, y, j)[i]
    <3>1. y[i] \in Int /\ 0 * y[i] = 0
      OBVIOUS
    <3> QED BY <1>1, <3>1 DEF PricePart
  <2> HIDE DEF PricePart
  <2> QED BY <2>1, TotalAgrees DEF PriceSum
<1> QED BY <1>1, <1>2 DEF SamePrices, PricesOut

(* The records so far can be undone at every point that is settled, and    *)
(* they lead the duals of the image back to those of the LP.               *)
Undoes == Chained(recs, w.cols, w.rows, lp.cols, Settled)
LeadsBack == Backs(lp, recs, w)

(* What a step does to the records.                                        *)
SameRecords == recs' = recs /\ SamePrices(lp, w, w')
Records(r) ==
  /\ recs' = Append(recs, r)
  /\ TakesAway(r, w.cols, w.rows, w'.cols, w'.rows)
  /\ Undone(r, w'.cols, w'.rows, lp.cols, Settled')
  /\ StepBack(lp, r, w, w')

(* Such a step leaves records that can be undone.                          *)
LEMMA RecordsUndo ==
  ASSUME PresolveInv, Undoes, lp' = lp, SameRecords \/ \E r : Records(r)
  PROVE  Undoes'
<1>1. Grows
  BY DEF Grows, SameRecords, Records
<1>2. Settled' \in SUBSET Settled
  BY <1>1, SameProgram
<1>3. PICK S : recs \in Seq(S)
  BY DEF PresolveInv
<1>4. CASE SameRecords
  <2>1. Chained(recs, w.cols, w.rows, lp.cols, Settled')
    BY <1>2, ChainHolds DEF Undoes
  <2> QED BY <1>4, <2>1 DEF Undoes, SameRecords, SamePrices, Chained, ColsAfter, RowsAfter, Undone
<1>5. CASE \E r : Records(r)
  <2>1. PICK r : Records(r)
    BY <1>5
  <2>2. Chained(Append(recs, r), w'.cols, w'.rows, lp.cols, Settled')
    BY <1>2, <1>3, <2>1, ChainGrows DEF Undoes, Records
  <2> QED BY <2>1, <2>2 DEF Undoes, Records
<1> QED BY <1>4, <1>5

LEMMA RecordsLeadBack ==
  ASSUME PresolveInv, LeadsBack, lp' = lp, SameRecords \/ \E r : Records(r)
  PROVE  LeadsBack'
<1>1. CASE SameRecords
  <2>1. Backs(lp, recs, w')
    BY <1>1, BacksStay DEF LeadsBack, SameRecords
  <2> QED BY <1>1, <2>1 DEF LeadsBack, SameRecords
<1>2. CASE \E r : Records(r)
  <2>1. PICK r : Records(r)
    BY <1>2
  <2>2. PICK S : recs \in Seq(S)
    BY DEF PresolveInv
  <2>3. Backs(lp, Append(recs, r), w')
    BY <2>1, <2>2, BacksGrow DEF LeadsBack, Records
  <2> QED BY <2>1, <2>3 DEF LeadsBack, Records
<1> QED BY <1>1, <1>2

(* A step that leaves the image and the records alone, such as a verdict.  *)
LEMMA StillRecords == ASSUME recs' = recs, w' = w PROVE SameRecords
BY DEF SameRecords, SamePrices

LEMMA DecideRecords ==
  ASSUME \E code, y : Decide(code, y)
  PROVE  SameRecords
BY StillRecords DEF Decide

(* A row that leaves without a snapshot needs nothing.                     *)
LEMMA RowRecords ==
  ASSUME IsFiniteSet(lp.rows), w \in Image, NEW i \in w.rows, NEW kind \in {"row_empty", "row_redundant"},
         Reduce([w EXCEPT !.rows = @ \ {i}], [kind |-> kind, i |-> i])
  PROVE  \E r : Records(r)
<1> DEFINE r == [kind |-> kind, i |-> i]
<1>1. /\ recs' = Append(recs, r) /\ w'.cols = w.cols /\ w'.rows = w.rows \ {i}
      /\ w'.A = w.A /\ w'.c = w.c /\ i \in lp.rows
  BY DEF Reduce, MoveOn, Image
<1>2. r.kind = kind /\ r.i = i
  OBVIOUS
<1> HIDE DEF r
<1>3. TakesAway(r, w.cols, w.rows, w'.cols, w'.rows)
  BY <1>1, <1>2 DEF TakesAway, DropsRow
<1>4. Undone(r, w'.cols, w'.rows, lp.cols, Settled')
  BY <1>2 DEF Undone
<1>5. StepBack(lp, r, w, w')
  BY <1>1, <1>2, RowBack
<1> QED BY <1>1, <1>3, <1>4, <1>5 DEF Records

LEMMA EmptyRowRecords == ASSUME PresolveInv, EmptyRow PROVE SameRecords \/ \E r : Records(r)
<1> DEFINE i == at
           v == [w EXCEPT !.rows = @ \ {i}]
<1>1. \/ Reduce(v, [kind |-> "row_empty", i |-> i])
      \/ \E s : OneRowIfOriginal(i, s)
  BY DEF EmptyRow
<1>2. w \in Image /\ i \in w.rows /\ IsFiniteSet(lp.rows)
  BY ProgramIs DEF PresolveInv, EmptyRow, Scans
<1> HIDE DEF i
<1> QED BY <1>1, <1>2, RowRecords, OneRowDecides, DecideRecords

LEMMA RedundantRowRecords == ASSUME PresolveInv, RedundantRow PROVE SameRecords \/ \E r : Records(r)
<1> DEFINE i == at
           v == [w EXCEPT !.rows = @ \ {i}]
<1>1. \/ Reduce(v, [kind |-> "row_redundant", i |-> i])
      \/ \E s : OneRowIfOriginal(i, s)
  BY DEF RedundantRow
<1>2. w \in Image /\ i \in w.rows /\ IsFiniteSet(lp.rows)
  BY ProgramIs DEF PresolveInv, RedundantRow, Scans
<1> HIDE DEF i
<1> QED BY <1>1, <1>2, RowRecords, OneRowDecides, DecideRecords

(* A fixed column has its value at every point.                            *)
LEMMA FixedColumnRecords == ASSUME PresolveInv, FixedColumn PROVE \E r : Records(r)
<1> DEFINE j == at
           val == w.lo[j]
           rows == DOMAIN w.A[j]
           v == [w EXCEPT !.cols = @ \ {j},
                          !.objconst = @ + Mul(w.c[j], val),
                          !.b = [i \in lp.rows |-> IF i \in rows THEN @[i] - Mul(w.A[j][i], val) ELSE @[i]],
                          !.touched = @ \cup rows]
           r == [kind |-> "col_fixed", j |-> j, v |-> val]
<1>1. j \in w.cols /\ Fixed(j) /\ Reduce(v, r)
  BY DEF FixedColumn, Scans
<1>2. w \in Image /\ (\A x \in Feasible : x \in [lp.cols -> Int] /\ Point(w, x)) /\ j \in lp.cols
  BY <1>1, ProgramIs DEF PresolveInv, Image
<1>3. /\ recs' = Append(recs, r) /\ w'.cols = w.cols \ {j} /\ w'.rows = w.rows /\ lp' = lp
      /\ w'.A = w.A /\ w'.c = w.c
  <2>1. w' = v /\ recs' = Append(recs, r) /\ lp' = lp
    BY <1>1 DEF Reduce, MoveOn
  <2>2. v.cols = w.cols \ {j} /\ v.rows = w.rows /\ v.A = w.A /\ v.c = w.c
    BY <1>2 DEF Image
  <2> QED BY <2>1, <2>2
<1>4. r.kind = "col_fixed" /\ r.j = j /\ r.v = val
  OBVIOUS
<1>5. w.lo[j] = w.hi[j] /\ val \in Int
  BY <1>1, <1>2, EntriesAre DEF Fixed
<1> HIDE DEF r, val
<1>6. \A x \in Settled' : x[j] = val
  <2> TAKE x \in Settled'
  <2>1. x \in Feasible
    BY <1>3, SameProgram DEF Settled, Grows
  <2>2. x[j] \in Int /\ w.lo[j] <= x[j] /\ x[j] <= w.hi[j]
    BY <1>1, <1>2, <2>1 DEF Point, Within
  <2> QED BY <1>5, <2>2 DEF val
<1>7. TakesAway(r, w.cols, w.rows, w'.cols, w'.rows)
  BY <1>3, <1>4 DEF TakesAway, Eliminates
<1>8. Undone(r, w'.cols, w'.rows, lp.cols, Settled')
  BY <1>4, <1>6 DEF Undone
<1>9. StepBack(lp, r, w, w')
  BY <1>3, <1>4, ColumnBack
<1> QED BY <1>3, <1>7, <1>8, <1>9 DEF Records

(* An empty column has its value at every point that is settled.           *)
LEMMA EmptyColumnRecords == ASSUME PresolveInv, EmptyColumn PROVE \E r : Records(r)
<1> DEFINE j == at
           val == IF Sense(lp) * w.c[j] > 0 THEN FarEnd(j) ELSE NearEnd(j)
           v == [w EXCEPT !.cols = @ \ {j}, !.objconst = @ + Mul(w.c[j], val)]
           r == [kind |-> "col_empty", j |-> j, v |-> val]
<1>1. w \in Image
  BY DEF PresolveInv
<1>2. MoveOn(v) /\ recs' = Append(recs, r) /\ lp' = lp
  BY DEF EmptyColumn, NearEnd, FarEnd
<1> HIDE DEF val
<1>3. w'.cols = w.cols \ {j} /\ w'.rows = w.rows /\ w'.A = w.A /\ w'.c = w.c
  BY <1>1, <1>2 DEF MoveOn, Image
<1>4. r.kind = "col_empty" /\ r.j = j /\ r.v = val
  OBVIOUS
<1> HIDE DEF r
<1>5. \A x \in Settled' : x[j] = val
  <2> TAKE x \in Settled'
  <2>1. PICK S : recs \in Seq(S)
    BY DEF PresolveInv
  <2>2. Len(recs) + 1 \in DOMAIN recs' /\ recs'[Len(recs) + 1] = r
    <3>1. Len(recs) + 1 \in DOMAIN Append(recs, r) /\ Append(recs, r)[Len(recs) + 1] = r
      BY <2>1, LastIs, Zenon
    <3> QED BY <1>2, <3>1
  <2>3. \A t \in DOMAIN recs' : recs'[t].kind = "col_empty" => x[recs'[t].j] = recs'[t].v
    BY DEF Settled
  <2> QED BY <1>4, <2>2, <2>3
<1>6. TakesAway(r, w.cols, w.rows, w'.cols, w'.rows)
  BY <1>3, <1>4 DEF TakesAway, Eliminates
<1>7. Undone(r, w'.cols, w'.rows, lp.cols, Settled')
  BY <1>4, <1>5 DEF Undone
<1>8. StepBack(lp, r, w, w')
  BY <1>3, <1>4, ColumnBack
<1> QED BY <1>2, <1>6, <1>7, <1>8 DEF Records

(* fold_bounds moves sides of the box only.                                *)
LEMMA FoldFrame ==
  ASSUME NEW v \in Image, NEW j, NEW vlo, NEW vhi, NEW src, NEW kind, NEW both
  PROVE  LET u == fold_bounds(v, j, vlo, vhi, src, kind, both).w
         IN  u.cols = v.cols /\ u.rows = v.rows /\ u.A = v.A /\ u.c = v.c /\ DOMAIN u = DOMAIN v
<1> DEFINE f == fold_bounds(v, j, vlo, vhi, src, kind, both)
           low == [v EXCEPT !.lo[j] = vlo, !.lo_src[j] = src]
           high == [v EXCEPT !.hi[j] = vhi, !.hi_src[j] = src]
<1>1. low.cols = v.cols /\ low.rows = v.rows /\ low.A = v.A /\ low.c = v.c /\ DOMAIN low = DOMAIN v
  BY DEF Image
<1>2. high.cols = v.cols /\ high.rows = v.rows /\ high.A = v.A /\ high.c = v.c /\ DOMAIN high = DOMAIN v
  BY DEF Image
<1> DEFINE c1 == vlo > v.lo[j] /\ vlo > v.hi[j]
           c2 == vlo > v.lo[j] /\ vlo <= v.hi[j]
           c3 == vlo <= v.lo[j] /\ vhi < v.hi[j] /\ vhi < v.lo[j]
           c4 == vlo <= v.lo[j] /\ vhi < v.hi[j] /\ vhi >= v.lo[j]
           f1 == Conflict(v, v.hi_src[j], kind, both, "low")
           f2 == Folded(IF vlo > -Inf /\ vlo < Inf THEN low ELSE v, "folded")
           f3 == Conflict(v, v.lo_src[j], kind, both, "high")
           f4 == Folded(IF vhi > -Inf /\ vhi < Inf THEN high ELSE v, "folded")
           f5 == Folded(v, "unchanged")
<1>3. f = CASE c1 -> f1 [] c2 -> f2 [] c3 -> f3 [] c4 -> f4 [] OTHER -> f5
  BY DEF fold_bounds
<1>4. f1.w = v /\ f3.w = v /\ f5.w = v
  BY ConflictIs, FoldedIs
<1>5. f2.w \in {low, v} /\ f4.w \in {high, v}
  BY FoldedIs
<1> HIDE DEF f, f1, f2, f3, f4, f5, low, high, c1, c2, c3, c4
<1>6. f \in {f1, f2, f3, f4, f5}
  BY <1>3
<1>7. f.w \in {v, low, high}
  BY <1>4, <1>5, <1>6
<1> QED BY <1>1, <1>2, <1>7 DEF f

(* The snapshot of a column holds rows of the image only.                  *)
LEMMA SnapshotIs == ASSUME NEW v, NEW j PROVE DOMAIN ps_snapshot(v, j) \subseteq v.rows
BY DEF ps_snapshot

LEMMA SingletonRowRecords == ASSUME PresolveInv, SingletonRow PROVE SameRecords \/ \E r : Records(r)
<1> DEFINE i == at
           j == CHOOSE e \in row_collect(w, i) : TRUE
           a == w.A[j][i]
           upper == lp.rel[i] = "=" \/ (lp.rel[i] = "<") = (a > 0)
           lower == lp.rel[i] = "=" \/ ~upper
           vlo == IF lower THEN Div(w.b[i], a) ELSE w.lo[j]
           vhi == IF upper THEN Ceil(w.b[i] * U, a) ELSE w.hi[j]
           fold == fold_bounds(w, j, vlo, vhi, i, "singleton", FALSE)
           v == [fold.w EXCEPT !.rows = @ \ {i}]
           rec == [kind |-> "row_singleton", i |-> i, j |-> j, a_ij |-> a, rel_i |-> lp.rel[i],
                   bi |-> w.b[i], cj |-> w.c[j], snap |-> ps_snapshot(w, j)]
           side == IF a > 0 THEN 1 ELSE -1
<1>1. (\E code, y : Decide(code, y)) \/ Reduce(v, rec)
  <2>2. (CASE fold.result = "low" -> OneRowIfOriginal(i, -side)
           [] fold.result = "high" -> OneRowIfOriginal(i, side)
           [] fold.result = "pair low" -> SeparatePair(i, j, a, w.hi_src[j])
           [] fold.result = "pair high" -> SeparatePair(i, j, a, w.lo_src[j])
           [] OTHER -> IF fold.result = "abort" \/ ~SnapshotFits(rec) THEN Decline
                       ELSE Reduce(v, rec))
    BY DEF SingletonRow
  <2>3. \A s : OneRowIfOriginal(i, s) => \E code, y : Decide(code, y)
    BY OneRowDecides
  <2>4. \A src : SeparatePair(i, j, a, src) => \E code, y : Decide(code, y)
    BY DEF SeparatePair, Decline, Infeasible
  <2>5. Decline => \E code, y : Decide(code, y)
    BY DEF Decline
  <2> HIDE DEF fold, v, a, j, rec, side
  <2> QED BY <2>2, <2>3, <2>4, <2>5
<1>2. CASE Reduce(v, rec)
  <2>1. /\ w \in Image /\ IsFiniteSet(lp.rows) /\ IsFiniteSet(lp.cols) /\ i \in w.rows /\ NoZeros(w)
        /\ Cardinality(row_collect(w, i)) = 1
    BY ProgramIs DEF PresolveInv, SingletonRow, Scans
  <2>2. /\ fold.w.cols = w.cols /\ fold.w.rows = w.rows /\ DOMAIN fold.w = DOMAIN w
        /\ fold.w.A = w.A /\ fold.w.c = w.c
    <3>1. \E both : fold = fold_bounds(w, j, vlo, vhi, i, "singleton", both)
      OBVIOUS
    <3> HIDE DEF fold, j, vlo, vhi
    <3> QED BY <2>1, <3>1, FoldFrame
  <2>3. /\ rec.kind = "row_singleton" /\ rec.i = i /\ rec.snap = ps_snapshot(w, j)
        /\ rec.a_ij = w.A[j][i] /\ rec.cj = w.c[j]
    OBVIOUS
  <2>8. row_collect(w, i) = {j}
    <3>1. IsFiniteSet(row_collect(w, i))
      BY <2>1, CollectIs
    <3>2. PICK e : row_collect(w, i) = {e}
      BY <2>1, <3>1, FS_Singleton
    <3> QED BY <3>2
  <2> HIDE DEF rec, fold, j
  <2>4. w' = v /\ recs' = Append(recs, rec)
    BY <1>2 DEF Reduce, MoveOn
  <2>5. w'.cols = w.cols /\ w'.rows = w.rows \ {i} /\ w'.A = w.A /\ w'.c = w.c
    BY <2>1, <2>2, <2>4 DEF Image
  <2>6. TakesAway(rec, w.cols, w.rows, w'.cols, w'.rows)
    BY <2>3, <2>5 DEF TakesAway, DropsRow
  <2>7. Undone(rec, w'.cols, w'.rows, lp.cols, Settled')
    BY <2>3, <2>5, SnapshotIs DEF Undone
  <2>9. i \in lp.rows /\ w.A[j][i] # 0
    BY <2>1, <2>8 DEF Image, NoZeros, row_collect
  <2>10. StepBack(lp, rec, w, w')
    BY <2>1, <2>3, <2>5, <2>8, <2>9, SingletonBack
  <2> QED BY <2>4, <2>6, <2>7, <2>10 DEF Records
<1>3. CASE \E code, y : Decide(code, y)
  BY <1>3, DecideRecords
<1> QED BY <1>1, <1>2, <1>3

(* The pivot column is what the row makes of its partner.                  *)
LEMMA PivotValue ==
  ASSUME IsFiniteSet(lp.cols), w \in Image, NEW i \in w.rows, NEW j, NEW k, TwoEntries(i, j, k),
         lp.rel[i] = "=", w.A[j][i] # 0, ExactDoubleton(i, j, k),
         NEW x \in [lp.cols -> Int], Point(w, x)
  PROVE  x[j] = Div(w.b[i], w.A[j][i]) + Mul(Div(-w.A[k][i], w.A[j][i]), x[k])
<1> DEFINE a == w.A[j][i]
           e == w.A[k][i]
           b == w.b[i]
           bover == Div(b, a)
           t == Div(-e, a)
           y == x[j]
           z == x[k]
<1>1. /\ j \in lp.cols /\ i \in DOMAIN w.A[j] /\ k \in lp.cols /\ i \in DOMAIN w.A[k]
      /\ i \in lp.rows
  BY DEF Image, row_collect, TwoEntries
<1>2. a \in Int /\ a # 0 /\ e \in Int /\ b \in Int /\ y \in Int /\ z \in Int
  <2>1. b \in Int
    BY <1>1 DEF Image
  <2> QED BY <1>1, <2>1, EntriesAre
<1>3. RowSum(w, i, x) = a * y + e * z
  BY PairRowSum
<1>4. a * y + e * z = b * U
  BY <1>3 DEF Point, OnRows, Meets
<1>5. bover \in Int /\ t \in Int
  <2> DEFINE neg == -e
             p == b * U
             q == neg * U
  <2>1. p \in Int /\ q \in Int /\ 0 \in Int
    BY <1>2, UnitIs
  <2>2. bover = Floor(p, a) /\ t = Floor(q, a)
    BY DEF Div
  <2> HIDE DEF p, q, a
  <2>3. Floor(p, a) \in Int /\ Floor(q, a) \in Int
    BY <1>2, <2>1, FloorIs
  <2> QED BY <2>2, <2>3
<1>6. a * bover = b * U /\ a * t = -e * U
  <2>1. a * bover = b * U /\ a * t = (-e) * U
    BY DEF ExactDoubleton, ExactDiv
  <2>2. (-e) * U = -e * U
    <3> HIDE DEF e
    <3> QED BY <1>2, UnitIs
  <2> HIDE DEF bover, t, a, b, e
  <2> QED BY <2>1, <2>2
<1>7. bover + Mul(t, z) = y
  <2> HIDE DEF a, e, b, bover, t, y, z
  <2>1. OnPivotRow(a, e, b, bover, t, y, z)
    BY <1>2, <1>4, <1>5, <1>6 DEF OnPivotRow
  <2>2. y * U = bover * U + t * z
    BY <2>1, PivotIs
  <2> DEFINE p == t * z
             d == y - bover
  <2>3. p \in Int /\ d \in Int /\ bover + d = y
    BY <1>2, <1>5
  <2>4. p = U * d
    BY <1>2, <1>5, <2>2, UnitIs
  <2>5. p \div U = d
    <3> HIDE DEF p, d
    <3>1. p \div U \in Int /\ U * (p \div U) <= p /\ p \div U <= d
      BY <2>3, <2>4, UnitIs, DivisionRounds
    <3>2. (U * d) \div U = d
      BY <2>3, UnitIs
    <3> QED BY <2>4, <3>2
  <2> HIDE DEF p, d
  <2>6. Mul(t, z) = d
    BY <2>5 DEF Mul, p
  <2> QED BY <2>3, <2>6
<1> QED BY <1>7

LEMMA DoubletonRowRecords ==
  ASSUME PresolveInv, ExactHere, DoubletonRow PROVE SameRecords \/ \E r : Records(r)
<1> DEFINE i == at
           j == Pivot(i)
           k == CHOOSE e \in row_collect(w, i) : e # j
           a == w.A[j][i]
           boxed == ~OpenBelow(w.lo[j]) /\ ~OpenAbove(w.hi[j])
           implied == ImpliedInterval(i, j, k)
           both == w.lo_src[j] = 0 /\ w.hi_src[j] = 0
           fold == IF boxed THEN fold_bounds(w, k, implied.lo, implied.hi, i, "doubleton", both)
                   ELSE Folded(w, "unchanged")
           rec == [kind |-> "row_doubleton", i |-> i, j |-> j, k |-> k, a_ij |-> a,
                   bover |-> Div(w.b[i], a), tcoef |-> Div(-w.A[k][i], a), cj |-> w.c[j],
                   snap |-> ps_snapshot(w, j)]
           v == Substitute(fold.w, i, j, k, rec.bover, rec.tcoef)
<1>1. /\ phase = "doubleton" /\ i \in w.rows /\ IsDoubleton(i)
      /\ \/ DoubletonConflict(i)
         \/ Decline
         \/ Reduce(v, rec)
  <2>1. phase = "doubleton" /\ i \in w.rows /\ IsDoubleton(i)
    BY DEF DoubletonRow, Scans
  <2>2. DoubletonConflict(i) \/ Decline \/ Reduce(v, rec)
    BY DEF DoubletonRow
  <2> HIDE DEF rec, fold, v
  <2> QED BY <2>1, <2>2
<1>2. CASE DoubletonConflict(i) \/ Decline
  <2>1. \E code, y : Decide(code, y)
    BY <1>2, OneRowDecides DEF DoubletonConflict, Decline
  <2> QED BY <2>1, DecideRecords
<1>3. CASE Reduce(v, rec)
  <2>1. Program(lp) /\ w \in Image /\ IsFiniteSet(lp.cols) /\ IsFiniteSet(lp.rows) /\ lp.cols \subseteq Int
        /\ (\A x \in Feasible : x \in [lp.cols -> Int] /\ Point(w, x))
    BY ProgramIs DEF PresolveInv
  <2>2. TwoEntries(i, j, k) /\ a # 0 /\ lp.rel[i] = "=" /\ ExactDoubleton(i, j, k)
    BY <1>1, <2>1, PivotRowIs DEF IsDoubleton, ExactHere
  <2>3. /\ fold.w.cols = w.cols /\ fold.w.rows = w.rows /\ DOMAIN fold.w = DOMAIN w
        /\ fold.w.A = w.A /\ fold.w.c = w.c
    BY <2>1, FoldFrame, FoldedIs
  <2>4. /\ rec.kind = "row_doubleton" /\ rec.i = i /\ rec.j = j /\ rec.k = k
        /\ rec.bover = Div(w.b[i], a) /\ rec.tcoef = Div(-w.A[k][i], a)
        /\ rec.snap = ps_snapshot(w, j) /\ rec.a_ij = a /\ rec.cj = w.c[j]
    OBVIOUS
  <2> HIDE DEF rec, fold, j, k
  <2>5. w' = v /\ recs' = Append(recs, rec) /\ lp' = lp
    BY <1>3 DEF Reduce, MoveOn
  <2>6. w'.cols = w.cols \ {j} /\ w'.rows = w.rows \ {i}
    BY <2>1, <2>3, <2>5 DEF Image, Substitute
  <2>7. k \in w'.cols /\ k \in lp.cols
    BY <2>1, <2>2, <2>6 DEF TwoEntries, row_collect, Image
  <2>8. \A x \in Settled' : x[j] = Div(w.b[i], a) + Mul(Div(-w.A[k][i], a), x[k])
    <3> TAKE x \in Settled'
    <3>1. x \in Feasible
      BY <2>5, SameProgram DEF Settled, Grows
    <3>2. x \in [lp.cols -> Int] /\ Point(w, x)
      BY <2>1, <3>1
    <3> QED BY <1>1, <2>1, <2>2, <3>2, PivotValue
  <2>9. TakesAway(rec, w.cols, w.rows, w'.cols, w'.rows)
    BY <2>4, <2>6 DEF TakesAway, DropsRow, Eliminates
  <2>10. Undone(rec, w'.cols, w'.rows, lp.cols, Settled')
    BY <2>4, <2>6, <2>7, <2>8, SnapshotIs DEF Undone
  <2>11. StepBack(lp, rec, w, w')
    <3> DEFINE t == rec.tcoef
    <3>1. /\ j \in lp.cols /\ k \in lp.cols /\ i \in lp.rows /\ j # k /\ row_collect(w, i) = {j, k}
          /\ i \in DOMAIN w.A[j] /\ i \in DOMAIN w.A[k]
      BY <1>1, <2>1, <2>2 DEF TwoEntries, row_collect, Image
    <3>2. /\ ExactDiv(-w.A[k][i], a) /\ t = Div(-w.A[k][i], a)
          /\ ExactMul(w.c[j], t) /\ \A q \in DOMAIN w.A[j] : ExactMul(w.A[j][q], t)
      BY <2>2, <2>4 DEF ExactDoubleton, ExactProducts
    <3> HIDE DEF t
    <3>3. t \in Int
      <4> DEFINE e == -w.A[k][i]
                 p == e * U
      <4>1. e \in Int /\ p \in Int /\ a \in Int
        BY <2>1, <3>1, EntriesAre, UnitIs
      <4>2. t = Floor(p, a)
        BY <3>2 DEF Div
      <4> HIDE DEF p, a
      <4> QED BY <2>2, <4>1, <4>2, FloorIs
    <3>4. w' = Substitute(fold.w, i, j, k, rec.bover, t)
      BY <2>5 DEF t
    <3>5. SubstitutedIn(w, w', i, j, k, t)
      <4>1. OnlyBox(w, fold.w)
        BY <2>3 DEF OnlyBox
      <4>2. SubstitutedIn(w, Substitute(fold.w, i, j, k, rec.bover, t), i, j, k, t)
        BY <2>1, <3>1, <4>1, SubstitutedIs
      <4> QED BY <3>4, <4>2
    <3> QED BY <1>1, <2>1, <2>2, <2>4, <3>1, <3>2, <3>3, <3>5, DoubletonBack
  <2> QED BY <2>5, <2>9, <2>10, <2>11 DEF Records
<1> QED BY <1>1, <1>2, <1>3

(* The other steps of presolve keep the records and the prices.            *)
LEMMA OtherRecords ==
  ASSUME PresolveInv, StartPass \/ PassOver \/ EndPass \/ Finish \/ UNCHANGED pvars
  PROVE  SameRecords
<1>1. w \in Image
  BY DEF PresolveInv
<1>2. CASE StartPass
  <2>1. IsFiniteSet(lp.rows)
    BY ProgramIs DEF PresolveInv
  <2>2. w' = pw_rebuild(w) /\ recs' = recs
    BY <1>2 DEF StartPass
  <2> QED BY <1>1, <2>1, <2>2, RebuildPrices DEF SameRecords
<1>3. CASE PassOver
  BY <1>3, StillRecords DEF PassOver, Skip, MoveOn
<1>4. CASE EndPass \/ UNCHANGED pvars
  BY <1>4, StillRecords DEF EndPass, pvars
<1>5. CASE Finish
  <2>1. \E code, y : Decide(code, y)
    BY <1>5 DEF Finish
  <2> QED BY <2>1, DecideRecords
<1> QED BY <1>2, <1>3, <1>4, <1>5

(* The inductive invariant of the records, which needs that of presolve.   *)
ReplayInv == PresolveInv /\ Undoes /\ LeadsBack

LEMMA ReplayKept == ASSUME ReplayInv, ExactHere, [CliStep \/ Exited]_cvars PROVE ReplayInv'
<1>1. PresolveInv /\ Undoes /\ LeadsBack
  BY DEF ReplayInv
<1>2. PresolveInv'
  BY <1>1, CommandKeeps
<1>3. (PresolveStep \/ UNCHANGED pvars)
  <2>1. CASE RunPresolve
    BY <2>1 DEF RunPresolve
  <2>2. CASE ~RunPresolve
    BY <2>2 DEF CliStep, NextAttempt, LeaveLadder, AfterPresolve, FullyPresolved, EngineRefuses,
                EngineOptimal, EngineUnbounded, EngineInfeasible, EngineUnconfirmed, EngineStops,
                Solves, StopArrives, Exited, cvars
  <2> QED BY <2>1, <2>2
<1>4. lp' = lp
  BY <1>3, PresolveKeepsLp DEF pvars
<1>5. SameRecords \/ \E r : Records(r)
  BY <1>1, <1>3, EmptyColumnRecords, EmptyRowRecords, SingletonRowRecords, RedundantRowRecords,
     FixedColumnRecords, DoubletonRowRecords, OtherRecords DEF PresolveStep
<1> QED BY <1>1, <1>2, <1>4, <1>5, RecordsUndo, RecordsLeadBack DEF ReplayInv

LEMMA ReplayStarts == ASSUME NEW p, Program(p), CliInit(p) PROVE ReplayInv
<1>1. PresolveInv
  BY PresolveStarts
<1>2. recs = << >> /\ w.cols = lp.cols
  BY DEF CliInit, PresolveInit, pw_init
<1>3. Undoes
  BY <1>2 DEF Undoes, Chained, ColsAfter
<1>4. LeadsBack
  <2>1. Backs(p, << >>, pw_init(p))
    BY BacksStart
  <2>2. lp = p /\ w = pw_init(p)
    BY DEF CliInit, PresolveInit
  <2> QED BY <1>2, <2>1, <2>2 DEF LeadsBack
<1> QED BY <1>1, <1>3, <1>4 DEF ReplayInv

LEMMA InvariantRestores == ReplayInv => PostsolveInverts
<1> SUFFICES ASSUME ReplayInv, NEW x \in Settled PROVE postsolve_x(x) = x
  BY DEF PostsolveInverts
<1>1. PresolveInv /\ Chained(recs, w.cols, w.rows, lp.cols, Settled)
  BY DEF ReplayInv, Undoes
<1>2. PICK S : recs \in Seq(S)
  BY <1>1 DEF PresolveInv
<1>3. x = [j \in lp.cols |-> x[j]]
  BY DEF Settled, Feasible
<1> DEFINE base == Known(w.cols, lp.cols, x)
<1> DEFINE h == CHOOSE g : Replays(g, recs, 1 .. Len(recs), base, "points", x)
<1>4. postsolve_x(x) = h[1 .. Len(recs)]
  <2>1. DOMAIN recs = 1 .. Len(recs)
    BY <1>2
  <2> QED BY <2>1 DEF postsolve_x, UndoPoint, Known, Replay, FoldRight, MapThenFoldSet, Replays, Undo
<1> HIDE DEF base
<1>5. Replays(h, recs, 1 .. Len(recs), base, "points", x)
  <2>1. Len(recs) \in Nat
    BY <1>2
  <2> QED BY <2>1, ReplayExists
<1> HIDE DEF h
<1>6. h[1 .. Len(recs)] = x
  BY <1>1, <1>2, <1>3, <1>5, PointsReplay DEF base
<1> QED BY <1>4, <1>6

(* The replay of duals y of the reduced LP along any point, from what is   *)
(* known before the first record is undone.                                *)
DualsKnown == \A x, y : ~postsolve_duals(y, x).failed
ReducedDuals(y) == [known |-> w.rows, failed |-> FALSE, rounded |-> FALSE,
                    y |-> [i \in lp.rows |-> IF i \in w.rows THEN y[i] ELSE 0]]

LEMMA DualReplayIs ==
  ASSUME ReplayInv, NEW x, NEW y
  PROVE  \E h : /\ Replays(h, recs, 1 .. Len(recs), ReducedDuals(y), "duals", x)
               /\ postsolve_duals(y, x) = h[1 .. Len(recs)]
<1>1. PICK S : recs \in Seq(S)
  BY DEF ReplayInv, PresolveInv
<1> DEFINE base == ReducedDuals(y)
           h == CHOOSE g : Replays(g, recs, 1 .. Len(recs), base, "duals", x)
<1>2. postsolve_duals(y, x) = h[1 .. Len(recs)]
  <2>1. DOMAIN recs = 1 .. Len(recs)
    BY <1>1
  <2> QED BY <2>1 DEF postsolve_duals, ReducedDuals, Replay, FoldRight, MapThenFoldSet, Replays, Undo
<1> HIDE DEF base
<1>3. Replays(h, recs, 1 .. Len(recs), base, "duals", x)
  <2>1. Len(recs) \in Nat
    BY <1>1
  <2> QED BY <2>1, ReplayExists
<1> HIDE DEF h
<1> QED BY <1>2, <1>3 DEF base

LEMMA InvariantPrices == ReplayInv => DualsKnown
<1> SUFFICES ASSUME ReplayInv, NEW x, NEW y PROVE ~postsolve_duals(y, x).failed
  BY DEF DualsKnown
<1>1. PresolveInv /\ Chained(recs, w.cols, w.rows, lp.cols, Settled)
  BY DEF ReplayInv, Undoes
<1>2. PICK S : recs \in Seq(S)
  BY <1>1 DEF PresolveInv
<1> DEFINE base == ReducedDuals(y)
<1>3. Prices(base, w.rows)
  BY DEF Prices, ReducedDuals
<1> HIDE DEF base
<1>4. PICK h : /\ Replays(h, recs, 1 .. Len(recs), base, "duals", x)
               /\ postsolve_duals(y, x) = h[1 .. Len(recs)]
  BY DualReplayIs DEF base
<1>5. Prices(h[1 .. Len(recs)], RowsAfter(recs, w.rows, 0))
  BY <1>1, <1>2, <1>3, <1>4, DualsReplayed
<1>6. postsolve_duals(y, x).failed = FALSE
  BY <1>4, <1>5 DEF Prices
<1> QED BY <1>6

LEMMA InvariantReprices == ReplayInv /\ ExactDuals => DualsReplay
<1> SUFFICES ASSUME ReplayInv, ExactDuals, rc = "reduced", NEW x \in Settled, NEW y \in [w.rows -> DualGrid]
             PROVE  LET back == postsolve_duals(y, x)
                    IN  /\ ~back.failed
                        /\ \A t \in DOMAIN recs :
                             recs[t].kind = "row_doubleton" => ATy(lp, back.y, recs[t].j) = lp.c[recs[t].j] * U
  BY DEF DualsReplay
<1> DEFINE back == postsolve_duals(y, x)
           base == ReducedDuals(y)
           n1 == Len(recs)
<1>1. ~back.failed
  BY InvariantPrices DEF DualsKnown
<1>2. PICK S : recs \in Seq(S)
  BY DEF ReplayInv, PresolveInv
<1>3. n1 \in Nat /\ DOMAIN recs = 1 .. n1
  BY <1>2
<1>4. Ready(lp, base, w.rows)
  <2>1. Prices(base, w.rows)
    BY DEF Prices, ReducedDuals
  <2>2. base.y = [i \in lp.rows |-> IF i \in w.rows THEN y[i] ELSE 0]
    BY DEF ReducedDuals
  <2>3. \A i \in w.rows : y[i] \in Int
    BY DualGridAssumption
  <2> HIDE DEF base
  <2> QED BY <2>1, <2>2, <2>3 DEF Ready
<1>5. ~back.rounded
  BY DEF ExactDuals
<1> HIDE DEF base, back
<1>6. PICK h : Replays(h, recs, 1 .. n1, base, "duals", x) /\ back = h[1 .. n1]
  BY DualReplayIs DEF base, back
<1>7. /\ h[n1 + 1 .. n1] = base
      /\ \A t \in 1 .. n1 : h[t .. n1] = UndoDual(x, recs[t], h[t + 1 .. n1])
  <2>1. /\ h[n1 + 1 .. n1] = base
        /\ \A t \in 1 .. n1 : h[t .. n1] = Undo("duals", x, recs[t], h[t + 1 .. n1])
    <3> HIDE DEF n1
    <3> QED BY <1>3, <1>6, ReplayUnfolds
  <2> QED BY <2>1 DEF Undo
<1> DEFINE f == [t \in 0 .. n1 |-> h[t + 1 .. n1]]
<1>8. f[0] = back /\ f[n1] = base
  BY <1>3, <1>6, <1>7
<1>9. DualRun(f, recs, x)
  <2>1. ASSUME NEW t \in 1 .. n1 PROVE f[t - 1] = UndoDual(x, recs[t], f[t])
    <3>1. t - 1 \in 0 .. n1 /\ t \in 0 .. n1 /\ (t - 1) + 1 = t
      BY <1>3
    <3>2. f[t - 1] = h[t .. n1] /\ f[t] = h[t + 1 .. n1]
      BY <3>1
    <3> HIDE DEF f
    <3> QED BY <1>7, <3>2
  <2> QED BY <2>1 DEF DualRun
<1> HIDE DEF f
<1>10. \A t \in DOMAIN recs : recs[t].kind = "row_doubleton" => AtCost(lp, back.y, recs[t].j)
  <2>1. Backs(lp, recs, w)
    BY DEF ReplayInv, LeadsBack
  <2> QED BY <1>4, <1>5, <1>8, <1>9, <2>1 DEF Backs
<1> QED BY <1>1, <1>10 DEF AtCost, back

(* For every program over any finite set of rows and columns, whatever is  *)
(* reduced in whatever order and pass: a point of the original LP that is  *)
(* cut down to the surviving columns is restored by the replay of the      *)
(* records (postsolve_x of presolve.c), on the hypothesis of               *)
(* PresolveLosesNothing.                                                   *)
THEOREM ReplayRestoresPoints ==
  ASSUME NEW CONSTANT p, Program(p)
  PROVE  CliInit(p) /\ [][CliStep \/ Exited]_cvars /\ []ExactHere => []PostsolveInverts
<1>1. CliInit(p) => ReplayInv
  BY ReplayStarts
<1>2. ReplayInv /\ ExactHere /\ [CliStep \/ Exited]_cvars => ReplayInv'
  BY ReplayKept
<1> QED BY <1>1, <1>2, InvariantRestores, PTL

(* And the replay of duals never needs the dual of a row before its record *)
(* has been replayed: a snapshot holds rows that are active when it is     *)
(* taken and that later records, replayed first, or the reduced LP price.  *)
THEOREM ReplayKnowsDuals ==
  ASSUME NEW CONSTANT p, Program(p)
  PROVE  CliInit(p) /\ [][CliStep \/ Exited]_cvars /\ []ExactHere => []DualsKnown
<1>1. CliInit(p) => ReplayInv
  BY ReplayStarts
<1>2. ReplayInv /\ ExactHere /\ [CliStep \/ Exited]_cvars => ReplayInv'
  BY ReplayKept
<1> QED BY <1>1, <1>2, InvariantPrices, PTL

(* If no price is rounded either (ExactDuals, which the run checks on its  *)
(* programs), the duals of the LP that postsolve_duals makes of any duals  *)
(* of the reduced one price out every column that a doubleton row          *)
(* eliminated, on the data of the original LP: whatever was substituted    *)
(* into its partner, and however often that was substituted in turn.       *)
THEOREM ReplaysRestore ==
  ASSUME NEW CONSTANT p, Program(p)
  PROVE  CliInit(p) /\ [][CliStep \/ Exited]_cvars /\ []ExactHere /\ []ExactDuals => []ReplayRestores
<1>1. CliInit(p) => ReplayInv
  BY ReplayStarts
<1>2. ReplayInv /\ ExactHere /\ [CliStep \/ Exited]_cvars => ReplayInv'
  BY ReplayKept
<1>3. ReplayInv /\ ExactHere /\ ExactDuals => ReplayRestores
  BY InvariantRestores, InvariantReprices DEF ReplayRestores
<1> QED BY <1>1, <1>2, <1>3, PTL
=============================================================================
