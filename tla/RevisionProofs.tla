--------------------------- MODULE RevisionProofs ---------------------------
(***************************************************************************)
(* Proofs about the components of the sum MCServices that count and walk   *)
(* sequences: the targets planned from an evaluation (Planner), the        *)
(* revision of a text (Revision), and the calls of the models that write   *)
(* it (ModelRouter).  They share induction on the numbers, stated of a set *)
(* of numbers, from which the properties of sums over finite sets and of   *)
(* recursive functions follow.                                             *)
(***************************************************************************)
EXTENDS MCServices, FiniteSetTheorems, WellFoundedInduction, TLAPS

-----------------------------------------------------------------------------
(* Sums over finite sets (Functions).                                       *)

\* Induction, of a set of numbers.
LEMMA FromZero ==
  ASSUME NEW S, 0 \in S, \A n \in Nat : n \in S => n + 1 \in S
  PROVE  Nat \subseteq S
<1> DEFINE Rest == Nat \ S
<1>1. ASSUME Rest # {} PROVE FALSE
  <2>1. PICK x \in Rest : \A y \in Rest : ~(<<y, x>> \in OpToRel(<, Nat))
    BY <1>1, WFMin, NatLessThanWellFounded, Zenon
  <2>2. \A y \in Rest : ~(y < x)
    BY <2>1 DEF OpToRel
  <2>3. x # 0 /\ x \in Nat
    OBVIOUS
  <2>4. x - 1 \in Nat /\ x - 1 < x /\ (x - 1) + 1 = x
    BY <2>3
  <2> QED
    BY <2>2, <2>3, <2>4
<1> QED
  BY <1>1

\* Induction, of a set of subsets of a finite set, an element more at a time.
LEMMA FromEmpty ==
  ASSUME NEW S, IsFiniteSet(S), NEW Q, {} \in Q,
         \A s \in SUBSET S : s # {} /\ (\A x \in s : s \ {x} \in Q) => s \in Q
  PROVE  SUBSET S \subseteq Q
<1> DEFINE Sized(n) == {s \in SUBSET S : Cardinality(s) = n}
           N == {n \in Nat : Sized(n) \subseteq Q}
<1>1. \A s \in SUBSET S : IsFiniteSet(s) /\ Cardinality(s) \in Nat
  BY FS_Subset, FS_CardinalityType
<1>2. 0 \in N
  <2>1. \A s \in Sized(0) : s = {}
    BY <1>1, FS_EmptySet
  <2> QED
    BY <2>1
<1>3. ASSUME NEW n \in Nat, n \in N PROVE n + 1 \in N
  <2>1. ASSUME NEW s \in Sized(n + 1) PROVE s \in Q
    <3>1. s # {}
      BY <1>1, FS_EmptySet
    <3>2. ASSUME NEW x \in s PROVE s \ {x} \in Q
      <4>1. s \ {x} \in SUBSET S
        OBVIOUS
      <4>2. Cardinality(s \ {x}) = n
        BY <1>1, FS_RemoveElement
      <4> QED
        BY <1>3, <4>1, <4>2
    <3> QED
      BY <3>1, <3>2
  <2> QED
    BY <2>1
<1>4. Nat \subseteq N
  <2> HIDE DEF N
  <2> QED
    BY <1>2, <1>3, FromZero
<1> QED
  BY <1>1, <1>4

FirstOf(s) == CHOOSE x \in s : TRUE
Sums(iter, fun, S) ==
  iter = [s \in SUBSET S |-> IF s = {} THEN 0 ELSE fun[FirstOf(s)] + iter[s \ {FirstOf(s)}]]
SumOf(fun, S) == CHOOSE iter : Sums(iter, fun, S)
LEMMA SumIs == ASSUME NEW fun, NEW S PROVE P!SumFunctionOnSet(fun, S) = SumOf(fun, S)[S]
BY DEF P!SumFunctionOnSet, P!FoldFunctionOnSet, P!MapThenFoldSet, SumOf, Sums, FirstOf

\* The recursion of the sum has a solution.
LEMMA SumExists ==
  ASSUME NEW fun, NEW S, IsFiniteSet(S), \A i \in S : fun[i] \in Nat
  PROVE  Sums(SumOf(fun, S), fun, S)
<1> DEFINE L(n) == {s \in SUBSET S : Cardinality(s) <= n}
           Body(g, s) == IF s = {} THEN 0 ELSE fun[FirstOf(s)] + g[s \ {FirstOf(s)}]
           Solves(g, n) == g \in [SUBSET S -> Nat] /\ \A s \in L(n) : g[s] = Body(g, s)
           N == {n \in Nat : \E g : Solves(g, n)}
<1>1. \A s \in SUBSET S : IsFiniteSet(s) /\ Cardinality(s) \in Nat
  BY FS_Subset, FS_CardinalityType
<1>2. ASSUME NEW s \in SUBSET S, s # {}
      PROVE  FirstOf(s) \in s /\ s \ {FirstOf(s)} \in SUBSET S /\ Cardinality(s \ {FirstOf(s)}) = Cardinality(s) - 1
  <2>1. FirstOf(s) \in s
    BY <1>2 DEF FirstOf
  <2> QED
    BY <1>1, <2>1, FS_RemoveElement
<1>3. 0 \in N
  <2> DEFINE g == [s \in SUBSET S |-> 0]
  <2>1. \A s \in L(0) : s = {}
    BY <1>1, FS_EmptySet
  <2>2. Solves(g, 0)
    BY <2>1
  <2> QED
    BY <2>2
<1>4. ASSUME NEW n \in Nat, n \in N PROVE n + 1 \in N
  <2>1. PICK g : Solves(g, n)
    BY <1>4
  <2> DEFINE h == [s \in SUBSET S |-> Body(g, s)]
  <2>2. ASSUME NEW s \in SUBSET S PROVE Body(g, s) \in Nat
    <3>1. CASE s = {}
      BY <3>1
    <3>2. CASE s # {}
      <4>1. FirstOf(s) \in S /\ s \ {FirstOf(s)} \in SUBSET S
        BY <1>2, <3>2
      <4>2. fun[FirstOf(s)] \in Nat /\ g[s \ {FirstOf(s)}] \in Nat
        BY <2>1, <4>1
      <4> QED
        BY <3>2, <4>2
    <3> QED
      BY <3>1, <3>2
  <2>3. h \in [SUBSET S -> Nat]
    BY <2>2
  <2>4. \A s \in L(n) : h[s] = g[s]
    BY <2>1
  <2>5. ASSUME NEW s \in L(n + 1) PROVE h[s] = Body(h, s)
    <3>1. CASE s = {}
      BY <3>1
    <3>2. CASE s # {}
      <4>1. s \ {FirstOf(s)} \in L(n)
        BY <1>1, <1>2, <3>2
      <4>2. h[s \ {FirstOf(s)}] = g[s \ {FirstOf(s)}]
        BY <2>4, <4>1
      <4> QED
        BY <3>2, <4>2
    <3> QED
      BY <3>1, <3>2
  <2>6. Solves(h, n + 1)
    BY <2>3, <2>5
  <2> HIDE DEF Solves, h
  <2> QED
    BY <2>6
<1>5. Nat \subseteq N
  <2> HIDE DEF N
  <2> QED
    BY <1>3, <1>4, FromZero
<1>6. PICK g : Solves(g, Cardinality(S))
  BY <1>1, <1>5
<1>7. \A s \in SUBSET S : s \in L(Cardinality(S))
  BY FS_Subset
<1>8. Sums(g, fun, S)
  BY <1>6, <1>7 DEF Sums
<1> QED
  BY <1>8 DEF SumOf

Summed(h, fun, S) ==
  /\ h \in [SUBSET S -> Nat] /\ h[{}] = 0
  /\ \A s \in SUBSET S : s # {} => FirstOf(s) \in s /\ h[s] = fun[FirstOf(s)] + h[s \ {FirstOf(s)}]
LEMMA SumNat ==
  ASSUME NEW fun, NEW S, IsFiniteSet(S), \A i \in S : fun[i] \in Nat
  PROVE  Summed(SumOf(fun, S), fun, S)
<1> DEFINE h == SumOf(fun, S)
           Q == {s \in SUBSET S : h[s] \in Nat}
<1>0. Sums(h, fun, S)
  BY SumExists
<1> HIDE DEF h
<1>1. /\ h = [s \in SUBSET S |-> IF s = {} THEN 0 ELSE fun[FirstOf(s)] + h[s \ {FirstOf(s)}]]
      /\ \A s \in SUBSET S : s # {} => FirstOf(s) \in s
  BY <1>0 DEF Sums, FirstOf
<1>2. /\ h[{}] = 0
      /\ \A s \in SUBSET S : s # {} => FirstOf(s) \in s /\ h[s] = fun[FirstOf(s)] + h[s \ {FirstOf(s)}]
  BY <1>1
<1>3. ASSUME NEW s \in SUBSET S, s # {}, \A x \in s : s \ {x} \in Q
      PROVE  s \in Q
  <2>1. FirstOf(s) \in S /\ h[s] = fun[FirstOf(s)] + h[s \ {FirstOf(s)}] /\ h[s \ {FirstOf(s)}] \in Nat
    BY <1>2, <1>3
  <2> QED
    BY <2>1
<1>4. SUBSET S \subseteq Q
  <2> HIDE DEF Q
  <2>1. {} \in Q
    BY <1>2 DEF Q
  <2> QED
    BY <1>3, <2>1, FromEmpty
<1>5. h \in [SUBSET S -> Nat]
  BY <1>1, <1>4
<1> QED
  BY <1>2, <1>5 DEF h, Summed

LEMMA SumPositive ==
  ASSUME NEW fun, NEW S, IsFiniteSet(S), \A i \in S : fun[i] \in Nat
  PROVE  SumOf(fun, S)[S] > 0 <=> \E i \in S : fun[i] > 0
<1> DEFINE h == SumOf(fun, S)
           Q == {s \in SUBSET S : h[s] > 0 <=> \E i \in s : fun[i] > 0}
<1>1. Summed(h, fun, S)
  BY SumNat
<1> HIDE DEF h
<1>2. ASSUME NEW s \in SUBSET S, s # {}, \A x \in s : s \ {x} \in Q
      PROVE  s \in Q
  <2> DEFINE x == FirstOf(s)
  <2>1. x \in s /\ h[s] = fun[x] + h[s \ {x}] /\ s \ {x} \in SUBSET S
    BY <1>1, <1>2 DEF Summed
  <2>2. fun[x] \in Nat /\ h[s \ {x}] \in Nat
    BY <1>1, <2>1 DEF Summed
  <2>3. h[s \ {x}] > 0 <=> \E i \in s \ {x} : fun[i] > 0
    BY <1>2, <2>1
  <2> HIDE DEF x
  <2>4. h[s] > 0 <=> fun[x] > 0 \/ h[s \ {x}] > 0
    BY <2>1, <2>2
  <2> QED
    BY <2>1, <2>3, <2>4
<1>3. SUBSET S \subseteq Q
  <2>1. {} \in Q
    BY <1>1 DEF Summed
  <2> HIDE DEF Q
  <2> QED
    BY <1>2, <2>1, FromEmpty
<1> QED
  BY <1>3 DEF h

\* One more of an element is one more in the sum.
OneMore(fun, more, i, S) == \A j \in S : fun[j] \in Nat /\ more[j] = IF j = i THEN fun[j] + 1 ELSE fun[j]
LEMMA SumAdds ==
  ASSUME NEW fun, NEW more, NEW S, NEW i, IsFiniteSet(S), OneMore(fun, more, i, S)
  PROVE  SumOf(more, S)[S] = IF i \in S THEN SumOf(fun, S)[S] + 1 ELSE SumOf(fun, S)[S]
<1> DEFINE h == SumOf(fun, S)
           k == SumOf(more, S)
           Q == {s \in SUBSET S : k[s] = IF i \in s THEN h[s] + 1 ELSE h[s]}
<1>0. \A j \in S : fun[j] \in Nat /\ more[j] = IF j = i THEN fun[j] + 1 ELSE fun[j]
  BY DEF OneMore
<1>1. Summed(h, fun, S)
  BY <1>0, SumNat
<1>2. Summed(k, more, S)
  <2>1. \A j \in S : more[j] \in Nat
    BY <1>0
  <2> QED
    BY <2>1, SumNat
<1> HIDE DEF h, k
<1>3. ASSUME NEW s \in SUBSET S, s # {}, \A x \in s : s \ {x} \in Q
      PROVE  s \in Q
  <2> DEFINE x == FirstOf(s)
  <2>1. x \in s /\ h[s] = fun[x] + h[s \ {x}] /\ k[s] = more[x] + k[s \ {x}] /\ s \ {x} \in SUBSET S
    BY <1>1, <1>2, <1>3 DEF Summed
  <2>2. fun[x] \in Nat /\ h[s \ {x}] \in Nat /\ more[x] = IF x = i THEN fun[x] + 1 ELSE fun[x]
    BY <1>0, <1>1, <2>1 DEF Summed
  <2>3. k[s \ {x}] = IF i \in s \ {x} THEN h[s \ {x}] + 1 ELSE h[s \ {x}]
    BY <1>3, <2>1
  <2> HIDE DEF x
  <2>4. CASE x = i
    BY <2>1, <2>2, <2>3, <2>4
  <2>5. CASE x # i /\ i \in s
    BY <2>1, <2>2, <2>3, <2>5
  <2>6. CASE x # i /\ i \notin s
    BY <2>1, <2>2, <2>3, <2>6
  <2> QED
    BY <2>4, <2>5, <2>6
<1>4. SUBSET S \subseteq Q
  <2>1. {} \in Q
    BY <1>1, <1>2 DEF Summed
  <2> HIDE DEF Q
  <2> QED
    BY <1>3, <2>1, FromEmpty
<1> QED
  BY <1>4 DEF h, k

-----------------------------------------------------------------------------
(* The targets of an evaluation (Planner).                                  *)
LEMMA IssuesFinite == ASSUME P!PlannerAssumption PROVE IsFiniteSet(P!Issues)
<1> DEFINE Dims == {"plot", "figure", "other"}
           Cells == Dims \X (BOOLEAN \X SUBSET Figures)
           issue == [p \in Cells |-> [dim |-> p[1], contract |-> p[2][1], names |-> p[2][2]]]
<1>1. IsFiniteSet(Dims) /\ IsFiniteSet(BOOLEAN)
  <2>1. IsFiniteSet({"plot"}) /\ IsFiniteSet({TRUE})
    BY FS_Singleton
  <2>2. IsFiniteSet({"plot"} \cup {"figure"}) /\ IsFiniteSet({TRUE} \cup {FALSE})
    BY <2>1, FS_AddElement
  <2>3. IsFiniteSet(({"plot"} \cup {"figure"}) \cup {"other"})
    BY <2>2, FS_AddElement
  <2>4. Dims = ({"plot"} \cup {"figure"}) \cup {"other"} /\ BOOLEAN = {TRUE} \cup {FALSE}
    OBVIOUS
  <2> QED
    BY <2>2, <2>3, <2>4
<1>2. IsFiniteSet(SUBSET Figures)
  BY FS_SUBSET DEF P!PlannerAssumption, P!IsFiniteSet, IsFiniteSet
<1>3. IsFiniteSet(BOOLEAN \X SUBSET Figures)
  BY <1>1, <1>2, FS_Product
<1>4. IsFiniteSet(Cells)
  <2> HIDE DEF Dims
  <2> QED
    BY <1>1, <1>3, FS_Product
<1>5. issue \in Surjection(Cells, P!Issues)
  <2>1. issue \in [Cells -> P!Issues]
    BY DEF P!Issues
  <2>2. ASSUME NEW i \in P!Issues PROVE \E p \in Cells : issue[p] = i
    <3>1. <<i.dim, <<i.contract, i.names>>>> \in Cells
      BY DEF P!Issues
    <3>2. issue[<<i.dim, <<i.contract, i.names>>>>] = i
      BY <3>1 DEF P!Issues
    <3> QED
      BY <3>1, <3>2
  <2> HIDE DEF issue
  <2> QED
    BY <2>1, <2>2 DEF Surjection
<1> QED
  BY <1>4, <1>5, FS_Surjection

Ch == <<"chapter">>
Ol == <<"outline">>
Fig(k) == <<"character", k>>
LEMMA TargetsDiffer ==
  /\ P!Targets = {Ch, Ol} \cup {Fig(k) : k \in Figures} /\ Ch # Ol
  /\ \A k : Ch # Fig(k) /\ Ol # Fig(k) /\ (\A j : Fig(k) = Fig(j) => k = j)
<1>1. Len(<<"chapter">>) = 1 /\ Len(<<"outline">>) = 1 /\ \A k : Len(<<"character", k>>) = 2
  OBVIOUS
<1>2. \A k : <<"character", k>>[2] = k
  OBVIOUS
<1>3. <<"chapter">>[1] = "chapter" /\ <<"outline">>[1] = "outline"
  OBVIOUS
<1> QED
  BY <1>1, <1>2, <1>3 DEF P!Targets, Ch, Ol, Fig

\* The issues that count for a target when there is an outline.
About(t) ==
  {i \in P!Issues : CASE t = Ch -> i.contract [] t = Ol -> i.dim = "plot"
                      [] OTHER -> i.dim = "figure" /\ ~i.contract}
Asks(k, i) == i.dim = "figure" /\ ~i.contract /\ (k \in i.names \/ i.names \cap figures = {})

PlanTypes ==
  /\ outline \in BOOLEAN /\ figures \subseteq Figures
  /\ found \in [P!Issues -> Nat] /\ bucket \in [P!Targets -> Nat]
ReachInv ==
  /\ (\E i \in P!Issues : found[i] > 0 /\ i.contract) => bucket[Ch] > 0
  /\ (\E i \in P!Issues : found[i] > 0 /\ i.dim = "plot") => bucket[Ch] > 0 \/ bucket[Ol] > 0
FigureInv == \A k \in figures : (\E i \in P!Issues : found[i] > 0 /\ Asks(k, i)) <=> bucket[Fig(k)] > 0
BucketInv == outline => \A t \in P!Targets : bucket[t] <= SumOf(found, About(t))[About(t)]
PlanInv == PlanTypes /\ ReachInv /\ FigureInv /\ BucketInv

\* What an issue adds to each target.
LEMMA AddsWhat ==
  ASSUME NEW i \in P!Issues, outline \in BOOLEAN
  PROVE  /\ P!Adds(i, Ch) = (IF i.contract THEN 1 ELSE 0) + (IF i.dim = "plot" /\ ~outline THEN 1 ELSE 0)
         /\ P!Adds(i, Ol) = IF i.dim = "plot" /\ outline THEN 1 ELSE 0
         /\ \A k : P!Adds(i, Fig(k)) = IF i.dim = "figure" /\ ~i.contract /\ k \in P!Matched(i) THEN 1 ELSE 0
<1>1. \A t : P!Adds(i, t) =
        (IF i.contract /\ t = Ch THEN 1 ELSE 0)
        + (IF i.dim = "plot" /\ t = (IF outline THEN Ol ELSE Ch) THEN 1 ELSE 0)
        + (IF i.dim = "figure" /\ ~i.contract /\ \E k \in P!Matched(i) : t = Fig(k) THEN 1 ELSE 0)
  BY DEF P!Adds, Ch, Ol, Fig
<1>2. P!Adds(i, Ch) = (IF i.contract THEN 1 ELSE 0) + (IF i.dim = "plot" /\ ~outline THEN 1 ELSE 0)
  BY <1>1, TargetsDiffer
<1>3. P!Adds(i, Ol) = IF i.dim = "plot" /\ outline THEN 1 ELSE 0
  BY <1>1, TargetsDiffer
<1>4. ASSUME NEW k
      PROVE  P!Adds(i, Fig(k)) = IF i.dim = "figure" /\ ~i.contract /\ k \in P!Matched(i) THEN 1 ELSE 0
  BY <1>1, TargetsDiffer
<1> QED
  BY <1>2, <1>3, <1>4

LEMMA PlanStarts == ASSUME P!PlannerAssumption, P!PlannerInit PROVE PlanInv
<1>1. PlanTypes /\ (\A i \in P!Issues : found[i] = 0) /\ (\A t \in P!Targets : bucket[t] = 0)
  BY DEF P!PlannerInit, PlanTypes
<1>2. ReachInv /\ FigureInv
  BY <1>1, TargetsDiffer DEF ReachInv, FigureInv, PlanTypes
<1>3. ASSUME NEW t \in P!Targets PROVE SumOf(found, About(t))[About(t)] \in Nat
  <2>1. IsFiniteSet(About(t)) /\ \A i \in About(t) : found[i] \in Nat
    BY <1>1, IssuesFinite, FS_Subset DEF About
  <2>2. Summed(SumOf(found, About(t)), found, About(t))
    BY <2>1, SumNat
  <2> QED
    BY <2>2 DEF Summed
<1>4. BucketInv
  BY <1>1, <1>3 DEF BucketInv
<1> QED
  BY <1>1, <1>2, <1>4 DEF PlanInv

LEMMA IssueAdded ==
  ASSUME PlanInv, P!PlannerAssumption, P!AddIssue
  PROVE  PlanInv'
<1> PICK i \in P!Issues :
      /\ found' = [found EXCEPT ![i] = @ + 1]
      /\ bucket' = IF P!InScope(i) THEN [t \in P!Targets |-> bucket[t] + P!Adds(i, t)] ELSE bucket
  BY DEF P!AddIssue
<1>1. UNCHANGED <<outline, figures>> /\ outline \in BOOLEAN /\ figures \subseteq Figures
  BY DEF P!AddIssue, PlanInv, PlanTypes
<1>2. /\ found \in [P!Issues -> Nat] /\ found' \in [P!Issues -> Nat]
      /\ \A j \in P!Issues : found'[j] = IF j = i THEN found[j] + 1 ELSE found[j]
  BY DEF PlanInv, PlanTypes
<1>3. \A j \in P!Issues : found'[j] > 0 <=> j = i \/ found[j] > 0
  BY <1>2
<1>4. /\ bucket[Ch] \in Nat /\ bucket[Ol] \in Nat /\ \A k \in Figures : bucket[Fig(k)] \in Nat
      /\ Ch \in P!Targets /\ Ol \in P!Targets /\ \A k \in Figures : Fig(k) \in P!Targets
  BY TargetsDiffer DEF PlanInv, PlanTypes
<1>5. /\ bucket'[Ch] = bucket[Ch] + (IF i.contract THEN 1 ELSE 0) + (IF i.dim = "plot" /\ ~outline THEN 1 ELSE 0)
      /\ bucket'[Ol] = bucket[Ol] + (IF i.dim = "plot" /\ outline THEN 1 ELSE 0)
      /\ \A k \in Figures : bucket'[Fig(k)] =
           bucket[Fig(k)] + (IF i.dim = "figure" /\ ~i.contract /\ k \in P!Matched(i) THEN 1 ELSE 0)
  <2>1. CASE P!InScope(i)
    BY <1>1, <1>4, <2>1, AddsWhat
  <2>2. CASE ~P!InScope(i)
    BY <1>4, <2>2 DEF P!InScope
  <2> QED
    BY <2>1, <2>2
<1>6. bucket' \in [P!Targets -> Nat]
  <2>1. CASE P!InScope(i)
    <3>1. \A t \in P!Targets : bucket[t] + P!Adds(i, t) \in Nat
      <4>1. \A t \in P!Targets : P!Adds(i, t) \in Nat
        BY DEF P!Adds
      <4> QED
        BY <4>1 DEF PlanInv, PlanTypes
    <3> QED
      BY <2>1, <3>1
  <2>2. CASE ~P!InScope(i)
    BY <2>2 DEF PlanInv, PlanTypes
  <2> QED
    BY <2>1, <2>2
<1>7. ReachInv'
  BY <1>1, <1>3, <1>4, <1>5 DEF PlanInv, ReachInv
<1>8. FigureInv'
  <2> SUFFICES ASSUME NEW k \in figures
               PROVE  (\E j \in P!Issues : found'[j] > 0 /\ Asks(k, j)) <=> bucket'[Fig(k)] > 0
    BY <1>1 DEF FigureInv, Asks
  <2>1. Asks(k, i) <=> i.dim = "figure" /\ ~i.contract /\ k \in P!Matched(i)
    BY DEF Asks, P!Matched
  <2>2. (\E j \in P!Issues : found[j] > 0 /\ Asks(k, j)) <=> bucket[Fig(k)] > 0
    BY DEF PlanInv, FigureInv
  <2>3. bucket'[Fig(k)] > 0 <=> Asks(k, i) \/ bucket[Fig(k)] > 0
    BY <1>1, <1>4, <1>5, <2>1
  <2> QED
    BY <1>3, <2>2, <2>3
<1>9. BucketInv'
  <2> SUFFICES ASSUME outline, NEW t \in P!Targets
               PROVE  bucket'[t] <= SumOf(found', About(t))[About(t)]
    BY <1>1 DEF BucketInv, About
  <2> DEFINE S == About(t)
             n == SumOf(found, S)[S]
  <2>1. IsFiniteSet(S) /\ \A j \in S : found[j] \in Nat /\ found'[j] = IF j = i THEN found[j] + 1 ELSE found[j]
    BY <1>2, IssuesFinite, FS_Subset DEF About
  <2>2. n \in Nat
    <3>1. Summed(SumOf(found, S), found, S)
      BY <2>1, SumNat
    <3> QED
      BY <3>1 DEF Summed
  <2>3. SumOf(found', S)[S] = IF i \in S THEN n + 1 ELSE n
    <3> HIDE DEF S
    <3>1. OneMore(found, found', i, S)
      BY <2>1 DEF OneMore
    <3> QED
      BY <2>1, <3>1, SumAdds
  <2>4. bucket[t] <= n /\ bucket[t] \in Nat
    BY DEF PlanInv, PlanTypes, BucketInv
  <2>5. bucket'[t] = bucket[t] \/ (bucket'[t] = bucket[t] + 1 /\ i \in S)
    <3>1. CASE t = Ch
      BY <1>4, <1>5, <3>1 DEF About
    <3>2. CASE t = Ol
      BY <1>4, <1>5, <3>2, TargetsDiffer DEF About
    <3>3. CASE t \in {Fig(k) : k \in Figures}
      <4>1. PICK k \in Figures : t = Fig(k)
        BY <3>3
      <4>2. t # Ch /\ t # Ol
        BY <4>1, TargetsDiffer
      <4> QED
        BY <1>4, <1>5, <4>1, <4>2 DEF About
    <3> QED
      BY <3>1, <3>2, <3>3, TargetsDiffer
  <2> HIDE DEF S, n
  <2>6. SumOf(found', S)[S] \in {n, n + 1} /\ (i \in S => SumOf(found', S)[S] = n + 1)
    BY <2>3
  <2>7. bucket'[t] <= SumOf(found', S)[S]
    BY <2>2, <2>4, <2>5, <2>6
  <2> QED
    BY <2>7 DEF S
<1> QED
  BY <1>1, <1>2, <1>6, <1>7, <1>8, <1>9 DEF PlanInv, PlanTypes

LEMMA PlanHolds == ASSUME PlanInv, P!PlannerAssumption PROVE P!PlanSound
<1>1. ASSUME NEW S, S \subseteq P!Issues
      PROVE  /\ P!SumFunctionOnSet(found, S) = SumOf(found, S)[S]
             /\ SumOf(found, S)[S] \in Nat
             /\ SumOf(found, S)[S] > 0 <=> \E i \in S : found[i] > 0
  <2>1. IsFiniteSet(S) /\ \A i \in S : found[i] \in Nat
    BY <1>1, IssuesFinite, FS_Subset DEF PlanInv, PlanTypes
  <2>2. Summed(SumOf(found, S), found, S)
    BY <2>1, SumNat
  <2>3. SumOf(found, S)[S] \in Nat
    BY <2>2 DEF Summed
  <2> QED
    BY <2>1, <2>3, SumIs, SumPositive
<1>2. /\ P!Candidates = {t \in P!Targets : bucket[t] > 0}
      /\ Ch \in P!Candidates <=> bucket[Ch] > 0
      /\ Ol \in P!Candidates <=> bucket[Ol] > 0
      /\ \A k \in figures : Fig(k) \in P!Candidates <=> bucket[Fig(k)] > 0
  BY TargetsDiffer DEF P!Candidates, PlanInv, PlanTypes
<1> DEFINE Contract == {i \in P!Issues : i.contract}
           Plot == {i \in P!Issues : i.dim = "plot"}
           Named(k) == {i \in P!Issues : i.dim = "figure" /\ ~i.contract /\ (k \in i.names \/ i.names \cap figures = {})}
           N(S) == P!SumFunctionOnSet(found, S)
<1>3. N(Contract) > 0 => Ch \in P!Candidates
  <2>1. N(Contract) > 0 => \E i \in Contract : found[i] > 0
    BY <1>1
  <2> QED
    BY <1>2, <2>1 DEF PlanInv, ReachInv
<1>4. N(Plot) > 0 => P!Candidates \cap {Ch, Ol} # {}
  <2>1. N(Plot) > 0 => \E i \in Plot : found[i] > 0
    BY <1>1
  <2> QED
    BY <1>2, <2>1 DEF PlanInv, ReachInv
<1>5. ASSUME NEW k \in figures PROVE N(Named(k)) > 0 <=> Fig(k) \in P!Candidates
  <2>1. N(Named(k)) > 0 <=> \E i \in Named(k) : found[i] > 0
    BY <1>1
  <2> QED
    BY <1>2, <2>1 DEF PlanInv, FigureInv, Asks
<1>6. ASSUME outline, NEW t \in P!Candidates, bucket[t] >= Critical PROVE N(About(t)) >= Critical
  <2>1. About(t) \subseteq P!Issues /\ t \in P!Targets
    BY DEF About, P!Candidates
  <2>2. N(About(t)) \in Nat /\ bucket[t] <= N(About(t)) /\ bucket[t] \in Nat
    BY <1>1, <1>6, <2>1 DEF PlanInv, PlanTypes, BucketInv
  <2> HIDE DEF N
  <2> QED
    BY <1>6, <2>2 DEF P!PlannerAssumption
<1>7. ASSUME outline, NEW t \in P!Candidates, P!Severity(t) = "critical" PROVE N(About(t)) >= Critical
  BY <1>6, <1>7 DEF P!Severity
<1> QED
  BY <1>3, <1>4, <1>5, <1>7 DEF P!PlanSound, P!Count, About, Ch, Ol, Fig

LEMMA PlanRests == ASSUME PlanInv, UNCHANGED plannerVars PROVE PlanInv'
BY DEF plannerVars, PlanInv, PlanTypes, ReachInv, FigureInv, BucketInv, Asks

\* Whatever the issues, the figures and the bounds: a broken contract reaches the
\* chapter, an issue of the plot the chapter or the outline, an issue of
\* characters those that it names or else all of them, and with an outline no
\* target is critical before that many issues were about it
\* (cascade_planner.py).
THEOREM PlanIsSound == ServicesSpec => []PlanSound
<1> DEFINE Inv == focus = "planner" => PlanInv
           Vars == <<focus, chapterVars, revisionVars, routerVars, decompileVars,
                     timelineVars, foreshadowVars, usageVars, plannerVars, outlinesVars>>
<1>1. P!PlannerAssumption
  BY ServicesAssumption DEF ServicesAssumption
<1>2. ServicesInit => Inv
  BY <1>1, PlanStarts DEF ServicesInit, InitP
<1>3. ASSUME Inv, [ServicesNext]_Vars
      PROVE  Inv'
  <2>1. CASE focus = "planner" /\ P!PlannerNext
    BY <1>1, <1>3, <2>1, IssueAdded DEF P!PlannerNext, ServicesNext, OthersRest
  <2>2. CASE UNCHANGED focus /\ UNCHANGED plannerVars
    BY <1>3, <2>2, PlanRests
  <2> QED
    BY <1>3, <2>1, <2>2 DEF ServicesNext, OthersRest
<1>4. Inv => PlanSound
  BY <1>1, PlanHolds DEF PlanSound
<1> QED
  BY <1>2, <1>3, <1>4, PTL DEF ServicesSpec

-----------------------------------------------------------------------------
(* Recursion on the numbers up to N: a step function of values has a        *)
(* solution that stays among the values.                                    *)
Stepwise(f, N, S, b, Onto) == f \in [0 .. N -> S] /\ f[0] = b /\ \A n \in 1 .. N : f[n] = Onto[<<n, f[n - 1]>>]
LEMMA StepsExist ==
  ASSUME NEW N \in Nat, NEW S, NEW b \in S, NEW Onto \in [Nat \X S -> S]
  PROVE  \E f : Stepwise(f, N, S, b, Onto)
<1> DEFINE Solves(f, m) == f \in [0 .. m -> S] /\ f[0] = b /\ \A n \in 1 .. m : f[n] = Onto[<<n, f[n - 1]>>]
           Z == {m \in Nat : \E f : Solves(f, m)}
<1>1. 0 \in Z
  <2> DEFINE f == [n \in 0 .. 0 |-> b]
  <2>1. Solves(f, 0)
    OBVIOUS
  <2> HIDE DEF Solves, f
  <2> QED
    BY <2>1
<1>2. ASSUME NEW m \in Nat, m \in Z PROVE m + 1 \in Z
  <2>1. PICK f : Solves(f, m)
    BY <1>2
  <2> DEFINE g == [n \in 0 .. (m + 1) |-> IF n = m + 1 THEN Onto[<<n, f[m]>>] ELSE f[n]]
  <2>2. f[m] \in S /\ Onto[<<m + 1, f[m]>>] \in S /\ \A n \in 0 .. m : f[n] \in S
    BY <2>1
  <2>3. g \in [0 .. (m + 1) -> S]
    BY <2>2
  <2>4. g[0] = b /\ \A n \in 0 .. m : g[n] = f[n]
    BY <2>1
  <2>5. g[m + 1] = Onto[<<m + 1, f[m]>>] /\ g[m] = f[m]
    OBVIOUS
  <2>6. ASSUME NEW n \in 1 .. (m + 1) PROVE g[n] = Onto[<<n, g[n - 1]>>]
    <3> HIDE DEF g
    <3>1. CASE n = m + 1
      BY <2>5, <3>1
    <3>2. CASE n # m + 1
      <4>1. n \in 1 .. m /\ n \in 0 .. m /\ n - 1 \in 0 .. m
        BY <3>2
      <4> QED
        BY <2>1, <2>4, <4>1
    <3> QED
      BY <3>1, <3>2
  <2>7. Solves(g, m + 1)
    <3> HIDE DEF g
    <3> QED
      BY <2>3, <2>4, <2>6
  <2> HIDE DEF Solves, g
  <2> QED
    BY <2>7
<1>3. Nat \subseteq Z
  <2> HIDE DEF Z
  <2> QED
    BY <1>1, <1>2, FromZero
<1> QED
  BY <1>3 DEF Stepwise

\* The greater and the lesser of two numbers (FiniteSetsExt).
LEMMA Extremes ==
  ASSUME NEW a \in Int, NEW b \in Int
  PROVE  /\ R!Max({a, b}) = IF a >= b THEN a ELSE b
         /\ R!Min({a, b}) = IF a <= b THEN a ELSE b
<1>1. \A x \in {a, b} : (\A y \in {a, b} : x >= y) <=> x = IF a >= b THEN a ELSE b
  OBVIOUS
<1>2. \A x \in {a, b} : (\A y \in {a, b} : x <= y) <=> x = IF a <= b THEN a ELSE b
  OBVIOUS
<1> QED
  BY <1>1, <1>2 DEF R!Max, R!Min

-----------------------------------------------------------------------------
(* The gates and the spans of a revision (Revision).                        *)
TextLen == 3 * Paragraphs - 2
Covered(i, s) == s[1] < i /\ i <= s[2]
Quoted(found_, i) == \E p \in found_ : Covered(i, R!SpanAt(p))

\* Spans in the text, one after the other, that cover no more than the quotes.
GoodSpans(found_) ==
  {m \in Seq((0 .. TextLen) \X (0 .. TextLen)) :
     /\ \A k \in 1 .. Len(m) : /\ m[k][1] <= m[k][2]
                               /\ \A i \in 1 .. TextLen : Covered(i, m[k]) => Quoted(found_, i)
     /\ \A k, l \in 1 .. Len(m) : k < l => m[k][2] <= m[l][1]}

LEMMA SpanOfQuote ==
  ASSUME R!RevisionAssumption, NEW p \in 1 .. Paragraphs
  PROVE  /\ R!SpanAt(p) \in (0 .. TextLen) \X (0 .. TextLen)
         /\ R!SpanAt(p)[1] <= R!SpanAt(p)[2]
<1>1. Paragraphs \in Nat /\ p \in Nat /\ 1 <= p /\ p <= Paragraphs
  BY DEF R!RevisionAssumption
<1> DEFINE a == R!Max({1, p - 1})
           b == R!Min({Paragraphs, p + 1})
<1>2. a \in Int /\ 1 <= a /\ a <= p /\ b \in Int /\ p <= b /\ b <= Paragraphs
  BY <1>1, Extremes
<1>3. R!SpanAt(p) = <<3 * a - 3, 3 * b - 2>>
  BY DEF R!SpanAt
<1> HIDE DEF a, b
<1>4. 3 * a - 3 \in 0 .. TextLen /\ 3 * b - 2 \in 0 .. TextLen /\ 3 * a - 3 <= 3 * b - 2
  BY <1>1, <1>2 DEF TextLen
<1> QED
  BY <1>3, <1>4

LEMMA SecondChanged ==
  ASSUME NEW B, NEW x \in B \X B, NEW t
  PROVE  [x EXCEPT ![2] = t] = <<x[1], t>>
<1>1. PICK a \in B, b \in B : x = <<a, b>>
  OBVIOUS
<1>2. [<<a, b>> EXCEPT ![2] = t] = <<a, t>>
  OBVIOUS
<1> QED
  BY <1>1, <1>2

LEMMA MergeStep ==
  ASSUME R!RevisionAssumption, NEW q \in SUBSET (1 .. Paragraphs), NEW p \in q, NEW m \in GoodSpans(q)
  PROVE  R!MergeInto(m, R!SpanAt(p)) \in GoodSpans(q)
<1> DEFINE B == 0 .. TextLen
           s == R!SpanAt(p)
           n == Len(m)
<1>1. s \in B \X B /\ s[1] <= s[2] /\ s[1] \in B /\ s[2] \in B
  BY SpanOfQuote
<1>2. m \in Seq(B \X B) /\ n \in Nat /\ \A k \in 1 .. n : m[k] \in B \X B /\ m[k][1] \in B /\ m[k][2] \in B
  BY DEF GoodSpans
<1>3. /\ \A k \in 1 .. n : m[k][1] <= m[k][2] /\ \A i \in 1 .. TextLen : Covered(i, m[k]) => Quoted(q, i)
      /\ \A k, l \in 1 .. n : k < l => m[k][2] <= m[l][1]
  BY DEF GoodSpans
<1>4. \A i : Covered(i, s) => Quoted(q, i)
  BY DEF Quoted
<1> HIDE DEF s
<1>5. TextLen \in Int
  BY DEF TextLen, R!RevisionAssumption
<1>6. ASSUME n > 0 /\ s[1] <= m[n][2] PROVE R!MergeInto(m, s) \in GoodSpans(q)
  <2> DEFINE t == R!Max({m[n][2], s[2]})
             r == [m EXCEPT ![n][2] = t]
  <2>1. m # <<>> /\ R!Last(m) = m[n]
    BY <1>2, <1>6 DEF R!Last
  <2>2. R!MergeInto(m, s) = r
    BY <1>6, <2>1 DEF R!MergeInto
  <2>3. t = (IF m[n][2] >= s[2] THEN m[n][2] ELSE s[2]) /\ t \in B
    BY <1>1, <1>2, <1>6, Extremes
  <2> HIDE DEF t
  <2>4. /\ r \in Seq(B \X B) /\ Len(r) = n /\ \A k \in 1 .. n : k # n => r[k] = m[k]
        /\ r[n][1] = m[n][1] /\ r[n][2] = t
    <3>1. [m[n] EXCEPT ![2] = t] = <<m[n][1], t>>
      <4>1. m[n] \in B \X B
        BY <1>2, <1>6
      <4> QED
        BY <4>1, SecondChanged
    <3>2. r = [m EXCEPT ![n] = <<m[n][1], t>>]
      BY <3>1
    <3>3. <<m[n][1], t>> \in B \X B
      BY <1>2, <1>6, <2>3
    <3> HIDE DEF r
    <3> QED
      BY <1>2, <1>6, <3>2, <3>3
  <2> HIDE DEF r
  <2>5. ASSUME NEW k \in 1 .. n PROVE r[k][1] <= r[k][2] /\ \A i \in 1 .. TextLen : Covered(i, r[k]) => Quoted(q, i)
    <3>1. CASE k # n
      BY <1>3, <2>4, <3>1
    <3>2. CASE k = n
      <4>1. r[k][1] <= r[k][2]
        BY <1>1, <1>2, <1>3, <1>6, <2>3, <2>4, <3>2
      <4>2. ASSUME NEW i \in 1 .. TextLen, Covered(i, r[k]) PROVE Covered(i, m[n]) \/ Covered(i, s)
        BY <1>1, <1>2, <1>3, <1>5, <1>6, <2>3, <2>4, <3>2, <4>2 DEF Covered
      <4> QED
        BY <1>2, <1>3, <1>4, <1>6, <3>2, <4>1, <4>2
    <3> QED
      BY <3>1, <3>2
  <2>6. ASSUME NEW k \in 1 .. n, NEW l \in 1 .. n, k < l PROVE r[k][2] <= r[l][1]
    <3>1. k # n
      BY <1>2, <2>6
    <3> QED
      BY <1>3, <2>4, <2>6, <3>1
  <2> QED
    BY <2>2, <2>4, <2>5, <2>6 DEF GoodSpans
<1>7. ASSUME ~(n > 0 /\ s[1] <= m[n][2]) PROVE R!MergeInto(m, s) \in GoodSpans(q)
  <2> DEFINE r == Append(m, s)
  <2>1. R!MergeInto(m, s) = r
    BY <1>2, <1>7 DEF R!MergeInto, R!Last
  <2>2. r \in Seq(B \X B) /\ Len(r) = n + 1 /\ r[n + 1] = s /\ \A k \in 1 .. n : r[k] = m[k]
    BY <1>1, <1>2
  <2> HIDE DEF r
  <2>3. ASSUME NEW k \in 1 .. (n + 1)
        PROVE  r[k][1] <= r[k][2] /\ \A i \in 1 .. TextLen : Covered(i, r[k]) => Quoted(q, i)
    <3>1. CASE k \in 1 .. n
      BY <1>3, <2>2, <3>1
    <3>2. CASE k = n + 1
      BY <1>1, <1>4, <2>2, <3>2
    <3> QED
      BY <1>2, <3>1, <3>2
  <2>4. ASSUME NEW k \in 1 .. (n + 1), NEW l \in 1 .. (n + 1), k < l PROVE r[k][2] <= r[l][1]
    <3>1. CASE l \in 1 .. n
      <4>1. k \in 1 .. n
        BY <1>2, <2>4, <3>1
      <4> QED
        BY <1>3, <2>2, <2>4, <3>1, <4>1
    <3>2. CASE l = n + 1
      <4>1. k \in 1 .. n /\ n \in 1 .. n /\ n > 0
        BY <1>2, <2>4, <3>2
      <4>2. k = n \/ k < n
        BY <1>2, <4>1
      <4>3. m[k][2] <= m[n][2]
        <5>1. CASE k = n
          BY <1>2, <4>1, <5>1
        <5>2. CASE k < n
          <6>1. m[k][2] <= m[n][1] /\ m[n][1] <= m[n][2]
            BY <1>3, <4>1, <5>2
          <6> QED
            BY <1>2, <1>5, <4>1, <6>1
        <5> QED
          BY <4>2, <5>1, <5>2
      <4>4. m[n][2] <= s[1]
        BY <1>1, <1>2, <1>5, <1>7, <4>1
      <4> QED
        <5>1. m[k][2] \in Int /\ m[n][2] \in Int /\ s[1] \in Int
          BY <1>1, <1>2, <1>5, <4>1
        <5>2. r[k][2] = m[k][2] /\ r[l][1] = s[1]
          BY <2>2, <3>2, <4>1
        <5> QED
          BY <4>3, <4>4, <5>1, <5>2
    <3> QED
      BY <1>2, <3>1, <3>2
  <2> QED
    BY <2>1, <2>2, <2>3, <2>4 DEF GoodSpans
<1> QED
  BY <1>6, <1>7 DEF s

LEMMA SpansMerged ==
  ASSUME R!RevisionAssumption, NEW q \in SUBSET (1 .. Paragraphs)
  PROVE  R!MergeSpans(q) \in GoodSpans(q)
<1> DEFINE N == Paragraphs
           S == GoodSpans(q)
           Into(p, m) == IF p \in q THEN R!MergeInto(m, R!SpanAt(p)) ELSE m
           Upto(f) == f = [p \in 0 .. N |-> IF p = 0 THEN <<>> ELSE Into(p, f[p - 1])]
           Onto == [x \in Nat \X S |-> Into(x[1], x[2])]
           Sol == CHOOSE f : Upto(f)
<1>1. N \in Nat
  BY DEF R!RevisionAssumption
<1>2. <<>> \in S
  <2>1. <<>> \in Seq((0 .. TextLen) \X (0 .. TextLen)) /\ Len(<<>>) = 0
    OBVIOUS
  <2> QED
    BY <2>1 DEF GoodSpans
<1>3. \A p \in Nat, m \in S : Into(p, m) \in S
  BY MergeStep
<1> HIDE DEF N, S, Into
<1>4. Onto \in [Nat \X S -> S]
  BY <1>3
<1>5. PICK g \in [0 .. N -> S] : g[0] = <<>> /\ \A n \in 1 .. N : g[n] = Onto[<<n, g[n - 1]>>]
  <2> HIDE DEF Onto
  <2>1. \E f : Stepwise(f, N, S, <<>>, Onto)
    BY <1>1, <1>2, <1>4, StepsExist
  <2> QED
    BY <2>1 DEF Stepwise
<1>6. Upto(g)
  <2>1. ASSUME NEW n \in 1 .. N PROVE g[n] = Into(n, g[n - 1])
    <3>1. n \in Nat /\ n - 1 \in 0 .. N
      BY <1>1
    <3>2. g[n - 1] \in S
      BY <3>1
    <3> QED
      BY <1>5, <3>1, <3>2
  <2>2. \A n \in 0 .. N : g[n] = IF n = 0 THEN <<>> ELSE Into(n, g[n - 1])
    BY <1>1, <1>5, <2>1
  <2> QED
    BY <2>2
<1>7. Upto(Sol)
  <2> HIDE DEF Upto
  <2> QED
    BY <1>6
<1>8. Sol[0] = <<>> /\ \A n \in Nat : n + 1 <= N => Sol[n + 1] = Into(n + 1, Sol[n])
  <2> HIDE DEF Sol
  <2>1. \A p \in 0 .. N : Sol[p] = IF p = 0 THEN <<>> ELSE Into(p, Sol[p - 1])
    BY <1>7
  <2>2. 0 \in 0 .. N
    BY <1>1
  <2>3. ASSUME NEW n \in Nat, n + 1 <= N PROVE Sol[n + 1] = Into(n + 1, Sol[n])
    <3>1. n + 1 \in 0 .. N /\ n + 1 # 0 /\ (n + 1) - 1 = n
      BY <1>1, <2>3
    <3> QED
      BY <2>1, <3>1
  <2> QED
    BY <2>1, <2>2, <2>3
<1> HIDE DEF Sol
<1>9. Nat \subseteq {n \in Nat : n <= N => Sol[n] \in S}
  <2> DEFINE Z == {n \in Nat : n <= N => Sol[n] \in S}
  <2>1. 0 \in Z
    BY <1>2, <1>8
  <2>2. ASSUME NEW n \in Nat, n \in Z PROVE n + 1 \in Z
    <3>1. ASSUME n + 1 <= N PROVE Sol[n + 1] \in S
      <4>1. Sol[n] \in S
        BY <1>1, <2>2, <3>1
      <4> QED
        BY <1>3, <1>8, <3>1, <4>1
    <3> QED
      BY <3>1
  <2>3. Nat \subseteq Z
    <3> HIDE DEF Z
    <3> QED
      BY <2>1, <2>2, FromZero
  <2> QED
    BY <2>3
<1>10. Sol[N] \in S
  BY <1>1, <1>9
<1>11. R!MergeSpans(q) = Sol[N]
  BY DEF R!MergeSpans, Sol, N, Into
<1> QED
  BY <1>10, <1>11 DEF S

Joins(u, s, t) ==
  /\ Len(u) = Len(s) + Len(t)
  /\ \A j \in 1 .. (Len(s) + Len(t)) : u[j] = IF j <= Len(s) THEN s[j] ELSE t[j - Len(s)]
LEMMA Joined ==
  ASSUME NEW A, NEW s \in Seq(A), NEW t \in Seq(A)
  PROVE  s \o t \in Seq(A) /\ Joins(s \o t, s, t)
BY DEF Joins

\* A splice keeps what is before and after the span.
AroundSpan(t, s, a, b, n) ==
  /\ t \in Seq(Nat) /\ Len(t) = Len(s) - b + a + n
  /\ \A j \in 1 .. (Len(s) - b + a + n) :
       t[j] = IF j <= a THEN s[j] ELSE IF j <= a + n THEN 0 ELSE s[j - a - n + b]

LEMMA Spliced ==
  ASSUME NEW s \in Seq(Nat), NEW span \in Nat \X Nat, NEW n \in Nat, span[1] <= span[2], span[2] <= Len(s)
  PROVE  AroundSpan(R!Splice(s, span, n), s, span[1], span[2], n)
<1> DEFINE a == span[1]
           b == span[2]
           x == SubSeq(s, 1, a)
           y == [i \in 1 .. n |-> 0]
           z == SubSeq(s, b + 1, Len(s))
<1>1. a \in Nat /\ b \in Nat /\ Len(s) \in Nat /\ a <= b /\ b <= Len(s)
  OBVIOUS
<1> HIDE DEF a, b
<1>2. x \in Seq(Nat) /\ Len(x) = a /\ \A j \in 1 .. a : x[j] = s[j]
  BY <1>1
<1>3. y \in Seq(Nat) /\ Len(y) = n /\ \A j \in 1 .. n : y[j] = 0
  OBVIOUS
<1>4. z \in Seq(Nat) /\ Len(z) = Len(s) - b /\ \A j \in 1 .. (Len(s) - b) : z[j] = s[b + j]
  BY <1>1
<1>5. R!Splice(s, span, n) = x \o y \o z
  BY DEF R!Splice, a, b
<1> HIDE DEF x, y, z
<1> DEFINE w == x \o y
<1>6. w \in Seq(Nat) /\ Len(w) = a + n /\ \A j \in 1 .. (a + n) : w[j] = IF j <= a THEN s[j] ELSE 0
  <2>1. /\ w \in Seq(Nat) /\ Len(w) = a + n
        /\ \A j \in 1 .. (a + n) : w[j] = IF j <= a THEN x[j] ELSE y[j - a]
    <3>1. w \in Seq(Nat) /\ Joins(w, x, y)
      BY <1>2, <1>3, Joined
    <3> HIDE DEF w
    <3> QED
      BY <1>2, <1>3, <3>1 DEF Joins
  <2>2. ASSUME NEW j \in 1 .. (a + n) PROVE w[j] = IF j <= a THEN s[j] ELSE 0
    <3>1. CASE j <= a
      <4>1. j \in 1 .. a
        BY <1>1, <3>1
      <4> QED
        BY <1>2, <2>1, <3>1, <4>1
    <3>2. CASE ~(j <= a)
      <4>1. j - a \in 1 .. n
        BY <1>1, <3>2
      <4> QED
        BY <1>3, <2>1, <3>2, <4>1
    <3> QED
      BY <3>1, <3>2
  <2> QED
    BY <2>1, <2>2
<1> HIDE DEF w
<1>7. /\ w \o z \in Seq(Nat) /\ Len(w \o z) = a + n + (Len(s) - b)
      /\ \A j \in 1 .. (a + n + (Len(s) - b)) : (w \o z)[j] = IF j <= a + n THEN w[j] ELSE z[j - (a + n)]
  <2>1. w \o z \in Seq(Nat) /\ Joins(w \o z, w, z)
    BY <1>4, <1>6, Joined
  <2> QED
    BY <1>4, <1>6, <2>1 DEF Joins
<1>8. ASSUME NEW j \in 1 .. (Len(s) - b + a + n)
      PROVE  (w \o z)[j] = IF j <= a THEN s[j] ELSE IF j <= a + n THEN 0 ELSE s[j - a - n + b]
  <2>1. CASE j <= a + n
    <3>1. j \in 1 .. (a + n) /\ j \in 1 .. (a + n + (Len(s) - b))
      BY <1>1, <2>1
    <3> QED
      BY <1>6, <1>7, <2>1, <3>1
  <2>2. CASE ~(j <= a + n)
    <3>1. j - (a + n) \in 1 .. (Len(s) - b) /\ b + (j - (a + n)) = j - a - n + b /\ ~(j <= a)
      BY <1>1, <2>2
    <3>2. z[j - (a + n)] = s[j - a - n + b]
      BY <1>4, <3>1
    <3>3. j \in 1 .. (a + n + (Len(s) - b))
      BY <1>1
    <3> QED
      BY <1>7, <2>2, <3>1, <3>2, <3>3
  <2> QED
    BY <2>1, <2>2
<1>9. a + n + (Len(s) - b) = Len(s) - b + a + n
  BY <1>1
<1>10. AroundSpan(w \o z, s, a, b, n)
  BY <1>7, <1>8, <1>9 DEF AroundSpan
<1> QED
  BY <1>5, <1>10 DEF a, b, w

LEMMA TextIs ==
  ASSUME R!RevisionAssumption
  PROVE  /\ R!Text \in Seq(Nat) /\ DOMAIN R!Text = 1 .. TextLen /\ (TextLen >= 0 => Len(R!Text) = TextLen)
         /\ \A i \in 1 .. TextLen : R!Text[i] = i
<1>1. R!Text = [i \in 1 .. TextLen |-> i] /\ TextLen \in Int /\ Paragraphs \in Nat
  BY DEF R!Text, TextLen, R!RevisionAssumption
<1>2. CASE TextLen >= 0
  BY <1>1, <1>2
<1>3. CASE ~(TextLen >= 0)
  <2>1. 1 .. TextLen = 1 .. 0
    BY <1>1, <1>3
  <2>2. R!Text \in Seq(Nat)
    BY <1>1, <2>1
  <2> QED
    BY <1>1, <1>3, <2>2
<1> QED
  BY <1>2, <1>3

\* What the gate keeps is long enough, and no worse unless it passes.
GateInv ==
  /\ best \in R!Draft /\ given \in R!Draft
  /\ phase = "passed" => best.ok /\ best.len >= MinTarget
  /\ phase = "gate" => ~best.ok
  /\ phase \in {"gate", "passed", "blocked", "skipped"} =>
       /\ best = given \/ best.len >= R!Floor70(given.len)
       /\ best.ok \/ best.penalty <= given.penalty

\* Up to the next span the text is as it was; what no quote asks for is there.
OutInv ==
  /\ hits \in SUBSET (1 .. Paragraphs) /\ spans \in GoodSpans(hits) /\ out \in Seq(Nat)
  /\ \A k \in 1 .. Len(spans) : spans[k][2] <= Len(out) /\ \A j \in 1 .. spans[k][2] : out[j] = j
  /\ \A i \in 1 .. TextLen : ~Quoted(hits, i) => \E j \in 1 .. Len(out) : out[j] = i
  /\ \A i, j \in 1 .. Len(out) : i < j /\ out[i] # 0 /\ out[j] # 0 => out[i] < out[j]
ReviseInv == GateInv /\ OutInv

LEMMA RevisionStarts == ASSUME R!RevisionAssumption, R!RevisionInit PROVE ReviseInv
<1>1. GateInv
  BY DEF R!RevisionInit, GateInv
<1>2. hits \in SUBSET (1 .. Paragraphs) /\ spans = R!MergeSpans(hits) /\ out = R!Text
  BY DEF R!RevisionInit
<1>3. spans \in GoodSpans(hits)
  BY <1>2, SpansMerged
<1>4. out \in Seq(Nat) /\ 1 .. Len(out) = 1 .. TextLen /\ \A i \in 1 .. TextLen : out[i] = i
  BY <1>2, TextIs
<1>5. ASSUME NEW k \in 1 .. Len(spans) PROVE spans[k][2] <= Len(out) /\ \A j \in 1 .. spans[k][2] : out[j] = j
  <2>1. spans[k][2] \in 0 .. TextLen /\ TextLen \in Int
    <3>1. spans \in Seq((0 .. TextLen) \X (0 .. TextLen))
      BY <1>3 DEF GoodSpans
    <3>2. spans[k] \in (0 .. TextLen) \X (0 .. TextLen)
      BY <3>1
    <3> QED
      BY <3>2 DEF TextLen, R!RevisionAssumption
  <2>2. Len(out) = TextLen
    BY <1>2, <2>1, TextIs
  <2> QED
    BY <1>4, <2>1, <2>2
<1>6. OutInv
  BY <1>2, <1>3, <1>4, <1>5 DEF OutInv
<1> QED
  BY <1>1, <1>6 DEF ReviseInv

LEMMA RevisionHolds == ASSUME R!RevisionAssumption, ReviseInv PROVE R!GateSound /\ R!RestSurvives
<1>1. R!GateSound
  BY DEF ReviseInv, GateInv, R!GateSound
<1>2. DOMAIN out = 1 .. Len(out) /\ DOMAIN R!Text = 1 .. TextLen
  BY TextIs DEF ReviseInv, OutInv
<1>3. ASSUME NEW i \in 1 .. TextLen, \A p \in hits : i \notin (R!SpanAt(p)[1] + 1) .. R!SpanAt(p)[2]
      PROVE  \E j \in 1 .. Len(out) : out[j] = i
  <2>1. ASSUME NEW p \in hits PROVE ~Covered(i, R!SpanAt(p))
    <3>1. R!SpanAt(p) \in (0 .. TextLen) \X (0 .. TextLen)
      BY SpanOfQuote DEF ReviseInv, OutInv
    <3>2. R!SpanAt(p)[1] \in Int /\ R!SpanAt(p)[2] \in Int
      BY <3>1
    <3>3. i \notin (R!SpanAt(p)[1] + 1) .. R!SpanAt(p)[2]
      BY <1>3
    <3> QED
      BY <3>2, <3>3 DEF Covered
  <2>2. ~Quoted(hits, i)
    BY <2>1 DEF Quoted
  <2> QED
    BY <2>2 DEF ReviseInv, OutInv
<1>4. ASSUME spans # <<>>
      PROVE  SubSeq(out, 1, R!Last(spans)[2]) = SubSeq(R!Text, 1, R!Last(spans)[2])
  <2> DEFINE e == spans[Len(spans)][2]
  <2>1. Len(spans) \in 1 .. Len(spans) /\ spans[Len(spans)] \in (0 .. TextLen) \X (0 .. TextLen)
    BY <1>4 DEF ReviseInv, OutInv, GoodSpans
  <2>2. e \in 0 .. TextLen /\ TextLen \in Int
    BY <2>1 DEF TextLen, R!RevisionAssumption
  <2>3. e <= Len(out) /\ \A j \in 1 .. e : out[j] = j
    BY <2>1 DEF ReviseInv, OutInv
  <2>4. e <= Len(R!Text) /\ R!Text \in Seq(Nat) /\ out \in Seq(Nat) /\ \A j \in 1 .. e : R!Text[j] = j
    BY <2>2, TextIs DEF ReviseInv, OutInv
  <2>5. R!Last(spans)[2] = e
    BY DEF R!Last
  <2> HIDE DEF e
  <2>6. SubSeq(out, 1, e) = [j \in 1 .. e |-> j] /\ SubSeq(R!Text, 1, e) = [j \in 1 .. e |-> j]
    BY <2>2, <2>3, <2>4
  <2> QED
    BY <2>5, <2>6
<1>5. R!RestSurvives
  BY <1>2, <1>3, <1>4 DEF R!RestSurvives, ReviseInv, OutInv
<1> QED
  BY <1>1, <1>5

LEMMA GateSteps ==
  ASSUME R!RevisionAssumption, ReviseInv, R!LogicRound \/ R!EnterGate \/ R!RewriteRound \/ R!GiveUp
  PROVE  ReviseInv'
<1>1. UNCHANGED <<hits, spans, out>>
  BY DEF R!LogicRound, R!EnterGate, R!RewriteRound, R!GiveUp, R!spanVars
<1>2. OutInv'
  BY <1>1 DEF ReviseInv, OutInv
<1>3. GateInv
  BY DEF ReviseInv
<1>4. ASSUME R!LogicRound PROVE GateInv'
  BY <1>3, <1>4 DEF R!LogicRound, GateInv
<1>5. ASSUME R!EnterGate PROVE GateInv'
  <2>1. best.penalty \in Nat
    BY <1>3 DEF GateInv, R!Draft, R!RevisionAssumption
  <2>2. best' = best /\ given' = best /\ phase' \in {"skipped", "gate", "blocked", "passed"}
    BY <1>5 DEF R!EnterGate
  <2>3. /\ phase' = "passed" => best.ok /\ ~(best.len < MinTarget)
        /\ phase' = "gate" => ~best.ok
    BY <1>5 DEF R!EnterGate
  <2>4. best.len \in Nat /\ MinTarget \in Nat
    BY <1>3 DEF GateInv, R!Draft, R!RevisionAssumption
  <2> QED
    BY <1>3, <2>1, <2>2, <2>3, <2>4 DEF GateInv
<1>6. ASSUME R!RewriteRound PROVE GateInv'
  <2> PICK x \in R!Draft :
        /\ best' = IF R!Acceptable(x) THEN x ELSE best
        /\ phase' = IF R!Acceptable(x) /\ x.ok THEN "passed" ELSE "gate"
    BY <1>6 DEF R!RewriteRound
  <2>1. given' = given /\ phase = "gate" /\ best.penalty <= given.penalty /\ ~best.ok
    BY <1>3, <1>6 DEF R!RewriteRound, GateInv
  <2>2. best.penalty \in Nat /\ given.penalty \in Nat /\ x.penalty \in Nat
    BY <1>3 DEF GateInv, R!Draft, R!RevisionAssumption
  <2>3. CASE R!Acceptable(x)
    <3>1. x.len >= R!Floor70(given.len) /\ x.len >= MinTarget /\ (x.ok \/ x.penalty <= given.penalty)
      BY <2>1, <2>2, <2>3 DEF R!Acceptable
    <3> QED
      BY <1>2, <1>3, <2>1, <2>3, <3>1 DEF GateInv
  <2>4. CASE ~R!Acceptable(x)
    BY <1>2, <1>3, <2>1, <2>4 DEF GateInv
  <2> QED
    BY <2>3, <2>4
<1>7. ASSUME R!GiveUp PROVE GateInv'
  BY <1>3, <1>7 DEF R!GiveUp, GateInv
<1> QED
  BY <1>2, <1>4, <1>5, <1>6, <1>7 DEF ReviseInv

\* The first n members of a sequence.
Prefix(t, s, n, A) == t \in Seq(A) /\ Len(t) = n /\ \A k \in 1 .. n : t[k] = s[k]

LEMMA PrefixIs ==
  ASSUME NEW A, NEW s \in Seq(A), NEW n \in 0 .. Len(s)
  PROVE  Prefix(SubSeq(s, 1, n), s, n, A)
BY DEF Prefix

LEMMA SpanSteps == ASSUME R!RevisionAssumption, ReviseInv, R!RewriteSpan PROVE ReviseInv'
<1> DEFINE n0 == Len(spans)
           span == spans[n0]
<1>1. /\ UNCHANGED <<hits, phase, given, best, round, high>> /\ spans # <<>> /\ spans' = SubSeq(spans, 1, n0 - 1)
  BY DEF R!RewriteSpan, R!gateVars, R!Front
<1>2. /\ hits \in SUBSET (1 .. Paragraphs) /\ spans \in GoodSpans(hits) /\ out \in Seq(Nat)
      /\ \A k \in 1 .. n0 : spans[k][2] <= Len(out) /\ \A j \in 1 .. spans[k][2] : out[j] = j
      /\ \A i \in 1 .. TextLen : ~Quoted(hits, i) => \E j \in 1 .. Len(out) : out[j] = i
      /\ \A i, j \in 1 .. Len(out) : i < j /\ out[i] # 0 /\ out[j] # 0 => out[i] < out[j]
  BY DEF ReviseInv, OutInv
<1>3. /\ spans \in Seq((0 .. TextLen) \X (0 .. TextLen))
      /\ \A k \in 1 .. n0 : /\ spans[k][1] <= spans[k][2]
                            /\ \A i \in 1 .. TextLen : Covered(i, spans[k]) => Quoted(hits, i)
      /\ \A k, l \in 1 .. n0 : k < l => spans[k][2] <= spans[l][1]
  BY <1>2 DEF GoodSpans
<1>4. n0 \in Nat /\ n0 \in 1 .. n0 /\ TextLen \in Int
  BY <1>1, <1>3 DEF TextLen, R!RevisionAssumption
<1>5. \A k \in 1 .. n0 : spans[k] \in (0 .. TextLen) \X (0 .. TextLen) /\ spans[k][1] \in Nat /\ spans[k][2] \in Nat
  BY <1>3, <1>4
<1>6. /\ Len(spans') = n0 - 1 /\ spans' \in Seq((0 .. TextLen) \X (0 .. TextLen))
      /\ \A k \in 1 .. (n0 - 1) : spans'[k] = spans[k] /\ k \in 1 .. n0
  <2>1. n0 - 1 \in 0 .. Len(spans)
    BY <1>4
  <2>2. Prefix(SubSeq(spans, 1, n0 - 1), spans, n0 - 1, (0 .. TextLen) \X (0 .. TextLen))
    BY <1>3, <2>1, PrefixIs
  <2>3. \A k \in 1 .. (n0 - 1) : k \in 1 .. n0
    BY <1>4
  <2> QED
    BY <1>1, <2>2, <2>3 DEF Prefix
<1>7. spans' \in GoodSpans(hits)
  BY <1>3, <1>6 DEF GoodSpans
<1>8. PICK n \in SpanLengths :
        out' = IF R!Eligible(span) /\ n > 0 THEN R!Splice(out, span, n) ELSE out
  BY DEF R!RewriteSpan, R!Last
<1> DEFINE a == span[1]
           b == span[2]
<1>9. /\ a \in Nat /\ b \in Nat /\ a <= b /\ b <= Len(out) /\ (\A j \in 1 .. b : out[j] = j) /\ n \in Nat
      /\ span \in Nat \X Nat /\ Len(out) \in Nat /\ b <= TextLen
      /\ \A i \in 1 .. TextLen : a < i /\ i <= b => Quoted(hits, i)
  <2>1. span \in (0 .. TextLen) \X (0 .. TextLen) /\ a \in Nat /\ b \in Nat /\ b <= TextLen
    BY <1>4, <1>5
  <2>2. a <= b /\ b <= Len(out) /\ (\A j \in 1 .. b : out[j] = j)
    BY <1>2, <1>3, <1>4
  <2>3. \A i \in 1 .. TextLen : a < i /\ i <= b => Quoted(hits, i)
    BY <1>3, <1>4 DEF Covered
  <2>4. span \in Nat \X Nat /\ n \in Nat /\ Len(out) \in Nat
    BY <1>2, <2>1 DEF R!RevisionAssumption
  <2> QED
    BY <2>1, <2>2, <2>3, <2>4
<1>10. CASE out' = out
  <2>1. OutInv'
    BY <1>1, <1>2, <1>6, <1>7, <1>10 DEF OutInv
  <2>2. GateInv'
    BY <1>1 DEF ReviseInv, GateInv
  <2> QED
    BY <2>1, <2>2 DEF ReviseInv
<1>11. CASE out' = R!Splice(out, span, n)
  <2> DEFINE N == Len(out) - b + a + n
             d == b - a - n
  <2>1. /\ out' \in Seq(Nat) /\ Len(out') = N
        /\ \A j \in 1 .. N : out'[j] = IF j <= a THEN out[j] ELSE IF j <= a + n THEN 0 ELSE out[j - a - n + b]
    <3>1. AroundSpan(R!Splice(out, span, n), out, a, b, n)
      <4>1. out \in Seq(Nat) /\ span \in Nat \X Nat /\ n \in Nat /\ span[1] <= span[2] /\ span[2] <= Len(out)
        BY <1>2, <1>9
      <4> HIDE DEF span
      <4> QED
        BY <4>1, Spliced
    <3> HIDE DEF span
    <3> QED
      BY <1>11, <3>1 DEF AroundSpan
  <2>2. N \in Nat /\ a <= N
    BY <1>9
  <2> HIDE DEF span, a, b, n0
  \* Where a character that stayed came from.
  <2>3. ASSUME NEW j \in 1 .. N, out'[j] # 0
        PROVE  \/ j <= a /\ j \in 1 .. Len(out) /\ out'[j] = out[j]
               \/ j > a + n /\ j + d \in 1 .. Len(out) /\ j + d > b /\ out'[j] = out[j + d]
    <3>1. j - a - n + b = j + d
      BY <1>9
    <3>2. CASE j <= a
      BY <1>9, <2>1, <2>3, <3>2
    <3>3. CASE ~(j <= a)
      <4>1. j > a + n
        BY <1>9, <2>1, <2>3, <3>3
      <4>2. out'[j] = out[j + d]
        BY <1>9, <2>1, <2>3, <3>1, <3>3, <4>1
      <4> QED
        BY <1>9, <2>2, <4>1, <4>2
    <3> QED
      BY <3>2, <3>3
  <2>4. ASSUME NEW k \in 1 .. Len(spans')
        PROVE  spans'[k][2] <= Len(out') /\ \A j \in 1 .. spans'[k][2] : out'[j] = j
    <3>1. k \in 1 .. (n0 - 1) /\ spans'[k] = spans[k] /\ k \in 1 .. n0 /\ k < n0
      BY <1>4, <1>6
    <3>2. spans[k][2] <= a /\ spans[k][2] \in Nat
      BY <1>3, <1>4, <1>5, <3>1 DEF a, span
    <3>3. ASSUME NEW j \in 1 .. spans[k][2] PROVE out'[j] = j
      <4>1. j \in 1 .. N /\ j <= a /\ j \in 1 .. b
        BY <1>9, <2>2, <3>2
      <4> QED
        BY <1>9, <2>1, <4>1
    <3> HIDE DEF N
    <3> QED
      BY <1>9, <2>1, <2>2, <3>1, <3>2, <3>3
  <2>5. ASSUME NEW i \in 1 .. TextLen, ~Quoted(hits, i) PROVE \E j \in 1 .. Len(out') : out'[j] = i
    <3>1. PICK j \in 1 .. Len(out) : out[j] = i
      BY <1>2, <2>5
    <3>2. j <= a \/ j > b
      BY <1>9, <2>5, <3>1
    <3>3. CASE j <= a
      <4>1. j \in 1 .. N
        BY <1>9, <2>2, <3>1, <3>3
      <4>2. out'[j] = out[j]
        BY <2>1, <3>3, <4>1
      <4> HIDE DEF N
      <4> QED
        BY <2>1, <3>1, <4>1, <4>2
    <3>4. CASE j > b
      <4>1. j - d \in 1 .. N /\ ~(j - d <= a) /\ ~(j - d <= a + n) /\ j - d - a - n + b = j
        BY <1>9, <3>4
      <4>2. out'[j - d] = out[j]
        BY <2>1, <4>1
      <4> QED
        BY <2>1, <3>1, <4>1, <4>2
    <3> QED
      BY <3>2, <3>3, <3>4
  <2>6. ASSUME NEW i \in 1 .. Len(out'), NEW j \in 1 .. Len(out'), i < j, out'[i] # 0, out'[j] # 0
        PROVE  out'[i] < out'[j]
    <3>1. i \in 1 .. N /\ j \in 1 .. N
      BY <2>1
    <3>2. /\ \/ i <= a /\ i \in 1 .. Len(out) /\ out'[i] = out[i]
             \/ i > a + n /\ i + d \in 1 .. Len(out) /\ i + d > b /\ out'[i] = out[i + d]
          /\ \/ j <= a /\ j \in 1 .. Len(out) /\ out'[j] = out[j]
             \/ j > a + n /\ j + d \in 1 .. Len(out) /\ j + d > b /\ out'[j] = out[j + d]
      BY <2>3, <2>6, <3>1
    <3>3. PICK k \in 1 .. Len(out), l \in 1 .. Len(out) : out'[i] = out[k] /\ out'[j] = out[l] /\ k < l
      <4>1. d \in Int /\ i \in Int /\ j \in Int
        BY <1>9, <3>1
      <4>2. CASE i <= a /\ i \in 1 .. Len(out) /\ out'[i] = out[i] /\ j <= a /\ j \in 1 .. Len(out) /\ out'[j] = out[j]
        BY <2>6, <4>2
      <4>3. CASE /\ i <= a /\ i \in 1 .. Len(out) /\ out'[i] = out[i]
                 /\ j > a + n /\ j + d \in 1 .. Len(out) /\ j + d > b /\ out'[j] = out[j + d]
        <5>1. i < j + d
          BY <1>9, <4>1, <4>3
        <5> QED
          BY <4>3, <5>1
      <4>4. CASE /\ i > a + n /\ i + d \in 1 .. Len(out) /\ i + d > b /\ out'[i] = out[i + d]
                 /\ j > a + n /\ j + d \in 1 .. Len(out) /\ j + d > b /\ out'[j] = out[j + d]
        <5>1. i + d < j + d
          BY <2>6, <4>1
        <5> QED
          BY <4>4, <5>1
      <4>5. ~(i > a + n /\ j <= a)
        BY <1>9, <2>6, <4>1
      <4> QED
        BY <3>2, <4>2, <4>3, <4>4, <4>5
    <3> QED
      BY <1>2, <2>6, <3>3
  <2>7. OutInv'
    BY <1>1, <1>2, <1>7, <2>1, <2>4, <2>5, <2>6 DEF OutInv
  <2>8. GateInv'
    BY <1>1 DEF ReviseInv, GateInv
  <2> QED
    BY <2>7, <2>8 DEF ReviseInv
<1> QED
  BY <1>8, <1>10, <1>11

LEMMA RevisionRests == ASSUME ReviseInv, UNCHANGED revisionVars PROVE ReviseInv'
BY DEF revisionVars, ReviseInv, GateInv, OutInv

\* Whatever the lengths and penalties of the rewrites, the number of paragraphs,
\* the quotes and the bounds: the gate passes only what the checker passes and
\* is long enough, what it keeps lost at most the tolerated share and is no worse
\* unless it passes, and a rewrite of spans leaves every character in place that
\* is not next to a quote (chapter_quality_gate.py, auto_revise.py).
THEOREM RevisionIsSound == ServicesSpec => []RevisionSound
<1> DEFINE Inv == focus = "revision" => ReviseInv
           Vars == <<focus, chapterVars, revisionVars, routerVars, decompileVars,
                     timelineVars, foreshadowVars, usageVars, plannerVars, outlinesVars>>
<1>1. R!RevisionAssumption
  BY ServicesAssumption DEF ServicesAssumption
<1>2. ServicesInit => Inv
  BY <1>1, RevisionStarts DEF ServicesInit, InitR
<1>3. ASSUME Inv, [ServicesNext]_Vars
      PROVE  Inv'
  <2>1. CASE focus = "revision" /\ R!RevisionNext
    BY <1>1, <1>3, <2>1, GateSteps, SpanSteps DEF R!RevisionNext, ServicesNext, OthersRest
  <2>2. CASE UNCHANGED focus /\ UNCHANGED revisionVars
    BY <1>3, <2>2, RevisionRests
  <2> QED
    BY <1>3, <2>1, <2>2 DEF ServicesNext, OthersRest
<1>4. Inv => RevisionSound
  BY <1>1, RevisionHolds DEF RevisionSound
<1> QED
  BY <1>2, <1>3, <1>4, PTL DEF ServicesSpec

-----------------------------------------------------------------------------
(* ModelRouter: the list of endpoints, and the queue of a lock.             *)

NoTwice(s) == \A i, j \in 1 .. Len(s) : s[i] = s[j] => i = j
Lists == {s \in Seq(Providers) : NoTwice(s)}
ChatSet == {e \in M!ToSet(Registry) \cap Providers : Tier[e] # "embedding"}

Adds(t, s, x) == t \in Lists /\ M!ToSet(t) = M!ToSet(s) \cup {x}
LEMMA OneAppended ==
  ASSUME NEW s \in Lists, NEW x \in Providers \ M!ToSet(s)
  PROVE  Adds(Append(s, x), s, x)
<1> DEFINE t == Append(s, x)
<1>1. s \in Seq(Providers) /\ NoTwice(s) /\ Len(s) \in Nat /\ \A i \in 1 .. Len(s) : s[i] # x
  BY DEF Lists, M!ToSet
<1>2. t \in Seq(Providers) /\ Len(t) = Len(s) + 1 /\ t[Len(s) + 1] = x /\ \A i \in 1 .. Len(s) : t[i] = s[i]
  BY <1>1
<1> HIDE DEF t
<1>3. NoTwice(t)
  <2>1. ASSUME NEW i \in 1 .. Len(t), NEW j \in 1 .. Len(t), t[i] = t[j] PROVE i = j
    <3>1. i \in 1 .. Len(s) \/ i = Len(s) + 1
      BY <1>1, <1>2
    <3>2. j \in 1 .. Len(s) \/ j = Len(s) + 1
      BY <1>1, <1>2
    <3> QED
      BY <1>1, <1>2, <2>1, <3>1, <3>2 DEF NoTwice
  <2> QED
    BY <2>1 DEF NoTwice
<1>4. M!ToSet(t) = M!ToSet(s) \cup {x}
  <2>1. DOMAIN t = 1 .. (Len(s) + 1) /\ DOMAIN s = 1 .. Len(s)
    BY <1>1, <1>2
  <2>2. 1 .. (Len(s) + 1) = (1 .. Len(s)) \cup {Len(s) + 1}
    BY <1>1
  <2> QED
    BY <1>2, <2>1, <2>2 DEF M!ToSet
<1> QED
  BY <1>2, <1>3, <1>4 DEF Adds, Lists, t

\* A pass keeps the list, and lists all that it looks for.
AfterPass(t, s, S) ==
  t \in Lists /\ M!ToSet(s) \subseteq M!ToSet(t) /\ M!ToSet(Registry) \cap S \subseteq M!ToSet(t)
LEMMA PassDone ==
  ASSUME M!RouterAssumption, NEW s \in Lists, NEW S \in SUBSET Providers
  PROVE  AfterPass(M!Pass(s, S), s, S)
<1> DEFINE N == Len(Registry)
           Into(i, t) == IF Registry[i] \in S \ M!ToSet(t) THEN Append(t, Registry[i]) ELSE t
           Upto(f) == f = [i \in 0 .. N |-> IF i = 0 THEN s ELSE Into(i, f[i - 1])]
           Onto == [x \in Nat \X Lists |-> Into(x[1], x[2])]
           Sol == CHOOSE f : Upto(f)
<1>1. N \in Nat /\ DOMAIN Registry = 1 .. N
  BY DEF M!RouterAssumption
<1>2. ASSUME NEW i \in Nat, NEW t \in Lists
      PROVE  Into(i, t) \in Lists /\ M!ToSet(t) \subseteq M!ToSet(Into(i, t))
             /\ (Registry[i] \in S => Registry[i] \in M!ToSet(Into(i, t)))
  <2>1. CASE Registry[i] \in S \ M!ToSet(t)
    <3>1. Adds(Append(t, Registry[i]), t, Registry[i])
      BY <2>1, OneAppended
    <3> QED
      BY <2>1, <3>1 DEF Adds
  <2>2. CASE Registry[i] \notin S \ M!ToSet(t)
    BY <2>2
  <2> QED
    BY <2>1, <2>2
<1> HIDE DEF N, Into
<1>3. Onto \in [Nat \X Lists -> Lists]
  BY <1>2
<1>4. PICK g \in [0 .. N -> Lists] : g[0] = s /\ \A n \in 1 .. N : g[n] = Onto[<<n, g[n - 1]>>]
  <2> HIDE DEF Onto
  <2>1. \E f : Stepwise(f, N, Lists, s, Onto)
    BY <1>1, <1>3, StepsExist
  <2> QED
    BY <2>1 DEF Stepwise
<1>5. Upto(g)
  <2>1. ASSUME NEW n \in 1 .. N PROVE g[n] = Into(n, g[n - 1])
    <3>1. n \in Nat /\ n - 1 \in 0 .. N
      BY <1>1
    <3>2. g[n - 1] \in Lists
      BY <3>1
    <3> QED
      BY <1>4, <3>1, <3>2
  <2>2. \A n \in 0 .. N : g[n] = IF n = 0 THEN s ELSE Into(n, g[n - 1])
    BY <1>1, <1>4, <2>1
  <2> QED
    BY <2>2
<1>6. Upto(Sol)
  <2> HIDE DEF Upto
  <2> QED
    BY <1>5
<1>7. Sol[0] = s /\ \A n \in Nat : n + 1 <= N => Sol[n + 1] = Into(n + 1, Sol[n])
  <2> HIDE DEF Sol
  <2>1. \A p \in 0 .. N : Sol[p] = IF p = 0 THEN s ELSE Into(p, Sol[p - 1])
    BY <1>6
  <2>2. 0 \in 0 .. N
    BY <1>1
  <2>3. ASSUME NEW n \in Nat, n + 1 <= N PROVE Sol[n + 1] = Into(n + 1, Sol[n])
    <3>1. n + 1 \in 0 .. N /\ n + 1 # 0 /\ (n + 1) - 1 = n
      BY <1>1, <2>3
    <3> QED
      BY <2>1, <3>1
  <2> QED
    BY <2>1, <2>2, <2>3
<1> HIDE DEF Sol
<1> DEFINE Far(n) == /\ Sol[n] \in Lists /\ M!ToSet(s) \subseteq M!ToSet(Sol[n])
                     /\ \A j \in 1 .. n : Registry[j] \in S => Registry[j] \in M!ToSet(Sol[n])
<1>8. Nat \subseteq {n \in Nat : n <= N => Far(n)}
  <2> DEFINE Z == {n \in Nat : n <= N => Far(n)}
  <2>1. 0 \in Z
    BY <1>7
  <2>2. ASSUME NEW n \in Nat, n \in Z PROVE n + 1 \in Z
    <3>1. ASSUME n + 1 <= N PROVE Far(n + 1)
      <4>1. Far(n)
        BY <1>1, <2>2, <3>1
      <4>2. Sol[n + 1] = Into(n + 1, Sol[n])
        BY <1>7, <3>1
      <4>3. /\ Sol[n + 1] \in Lists /\ M!ToSet(Sol[n]) \subseteq M!ToSet(Sol[n + 1])
            /\ Registry[n + 1] \in S => Registry[n + 1] \in M!ToSet(Sol[n + 1])
        BY <1>2, <4>1, <4>2
      <4>4. \A j \in 1 .. (n + 1) : j \in 1 .. n \/ j = n + 1
        OBVIOUS
      <4> QED
        BY <4>1, <4>3, <4>4
    <3> HIDE DEF Far
    <3> QED
      BY <3>1
  <2>3. Nat \subseteq Z
    <3> HIDE DEF Z
    <3> QED
      BY <2>1, <2>2, FromZero
  <2> QED
    BY <2>3
<1>9. Far(N)
  <2> HIDE DEF Far
  <2> QED
    BY <1>1, <1>8
<1>10. M!Pass(s, S) = Sol[N]
  BY DEF M!Pass, Sol, N, Into
<1> HIDE DEF N
<1>11. M!ToSet(Registry) \cap S \subseteq M!ToSet(Sol[N])
  BY <1>1, <1>9 DEF M!ToSet
<1> QED
  BY <1>9, <1>10, <1>11 DEF AfterPass

\* However many tiers the chain has.
Tries(t) == t \in Lists /\ ChatSet \subseteq M!ToSet(t)
LEMMA AttemptsBuilt ==
  ASSUME M!RouterAssumption, NEW route, NEW chain, Len(chain) \in Nat
  PROVE  Tries(M!BuildTierAttempts(route, chain))
<1> DEFINE N == Len(chain)
           s == M!Routed(route)
           Into(k, t) == M!Pass(t, M!OfTier(chain[k]))
           Upto(f) == f = [k \in 0 .. N |-> IF k = 0 THEN s ELSE Into(k, f[k - 1])]
           Onto == [x \in Nat \X Lists |-> Into(x[1], x[2])]
           Sol == CHOOSE f : Upto(f)
<1>1. N \in Nat
  OBVIOUS
<1>2. s \in Lists
  BY DEF M!Routed, Lists, NoTwice
<1>3. ASSUME NEW k \in Nat, NEW t \in Lists PROVE Into(k, t) \in Lists
  <2>1. M!OfTier(chain[k]) \in SUBSET Providers
    BY DEF M!OfTier
  <2>2. AfterPass(Into(k, t), t, M!OfTier(chain[k]))
    BY <2>1, PassDone
  <2> QED
    BY <2>2 DEF AfterPass
<1> HIDE DEF N, Into, s
<1>4. Onto \in [Nat \X Lists -> Lists]
  BY <1>3
<1>5. PICK g \in [0 .. N -> Lists] : g[0] = s /\ \A n \in 1 .. N : g[n] = Onto[<<n, g[n - 1]>>]
  <2> HIDE DEF Onto
  <2>1. \E f : Stepwise(f, N, Lists, s, Onto)
    BY <1>1, <1>2, <1>4, StepsExist
  <2> QED
    BY <2>1 DEF Stepwise
<1>6. Upto(g)
  <2>1. ASSUME NEW n \in 1 .. N PROVE g[n] = Into(n, g[n - 1])
    <3>1. n \in Nat /\ n - 1 \in 0 .. N
      BY <1>1
    <3>2. g[n - 1] \in Lists
      BY <3>1
    <3> QED
      BY <1>5, <3>1, <3>2
  <2>2. \A n \in 0 .. N : g[n] = IF n = 0 THEN s ELSE Into(n, g[n - 1])
    BY <1>1, <1>5, <2>1
  <2> QED
    BY <2>2
<1>7. Upto(Sol)
  <2> HIDE DEF Upto
  <2> QED
    BY <1>6
<1>8. Sol[0] = s /\ \A n \in Nat : n + 1 <= N => Sol[n + 1] = Into(n + 1, Sol[n])
  <2> HIDE DEF Sol
  <2>1. \A p \in 0 .. N : Sol[p] = IF p = 0 THEN s ELSE Into(p, Sol[p - 1])
    BY <1>7
  <2>2. 0 \in 0 .. N
    BY <1>1
  <2>3. ASSUME NEW n \in Nat, n + 1 <= N PROVE Sol[n + 1] = Into(n + 1, Sol[n])
    <3>1. n + 1 \in 0 .. N /\ n + 1 # 0 /\ (n + 1) - 1 = n
      BY <1>1, <2>3
    <3> QED
      BY <2>1, <3>1
  <2> QED
    BY <2>1, <2>2, <2>3
<1> HIDE DEF Sol
<1>9. Nat \subseteq {n \in Nat : n <= N => Sol[n] \in Lists}
  <2> DEFINE Z == {n \in Nat : n <= N => Sol[n] \in Lists}
  <2>1. 0 \in Z
    BY <1>2, <1>8
  <2>2. ASSUME NEW n \in Nat, n \in Z PROVE n + 1 \in Z
    <3>1. ASSUME n + 1 <= N PROVE Sol[n + 1] \in Lists
      <4>1. Sol[n] \in Lists
        BY <1>1, <2>2, <3>1
      <4> QED
        BY <1>3, <1>8, <3>1, <4>1
    <3> QED
      BY <3>1
  <2>3. Nat \subseteq Z
    <3> HIDE DEF Z
    <3> QED
      BY <2>1, <2>2, FromZero
  <2> QED
    BY <2>3
<1>10. Sol[N] \in Lists
  BY <1>1, <1>9
<1>11. M!BuildTierAttempts(route, chain) = M!Pass(Sol[N], M!Chat)
  BY DEF M!BuildTierAttempts, Sol, N, Into, s
<1>12. M!Chat \in SUBSET Providers /\ ChatSet \subseteq M!ToSet(Registry) \cap M!Chat
  BY DEF M!Chat, ChatSet
<1>13. AfterPass(M!Pass(Sol[N], M!Chat), Sol[N], M!Chat)
  BY <1>10, <1>12, PassDone
<1> QED
  BY <1>11, <1>12, <1>13 DEF AfterPass, Tries

LEMMA OneRouted == ASSUME M!RouterAssumption, NEW route PROVE M!GetRoute(route) \in Lists
<1> DEFINE chat == M!Pass(<<>>, M!Chat)
<1>1. <<>> \in Lists /\ M!Chat \in SUBSET Providers
  BY DEF Lists, NoTwice, M!Chat
<1>2. AfterPass(chat, <<>>, M!Chat)
  BY <1>1, PassDone
<1>3. chat \in Seq(Providers) /\ (chat # <<>> => Head(chat) \in Providers)
  BY <1>2 DEF AfterPass, Lists
<1>4. ASSUME NEW e \in Providers PROVE <<e>> \in Lists
  BY DEF Lists, NoTwice
<1> HIDE DEF chat
<1>5. M!GetRoute(route) = IF route \in Providers THEN <<route>> ELSE IF chat = <<>> THEN <<>> ELSE <<Head(chat)>>
  BY DEF M!GetRoute, chat
<1> QED
  BY <1>1, <1>3, <1>4, <1>5

Behind(t, s) ==
  /\ t \in Lists /\ Head(s) \in Providers /\ M!ToSet(s) = {Head(s)} \cup M!ToSet(t) /\ Head(s) \notin M!ToSet(t)
  /\ Len(s) = 1 => M!ToSet(s) = {Head(s)}
LEMMA NextInList == ASSUME NEW s \in Lists, s # <<>> PROVE Behind(Tail(s), s)
<1> DEFINE t == Tail(s)
<1>1. s \in Seq(Providers) /\ NoTwice(s) /\ Len(s) \in Nat /\ Len(s) >= 1 /\ DOMAIN s = 1 .. Len(s)
  BY DEF Lists
<1>2. t \in Seq(Providers) /\ Len(t) = Len(s) - 1 /\ DOMAIN t = 1 .. (Len(s) - 1)
      /\ \A i \in 1 .. (Len(s) - 1) : t[i] = s[i + 1]
  BY <1>1
<1>3. Head(s) = s[1] /\ s[1] \in Providers
  BY <1>1
<1> HIDE DEF t
<1>4. NoTwice(t)
  BY <1>1, <1>2 DEF NoTwice
<1>5. M!ToSet(s) = {s[1]} \cup M!ToSet(t)
  <2>1. ASSUME NEW i \in 1 .. Len(s) PROVE s[i] = s[1] \/ s[i] \in M!ToSet(t)
    <3>1. CASE i = 1
      BY <3>1
    <3>2. CASE i # 1
      <4>1. i - 1 \in 1 .. (Len(s) - 1) /\ (i - 1) + 1 = i
        BY <1>1, <3>2
      <4> QED
        BY <1>2, <4>1 DEF M!ToSet
    <3> QED
      BY <3>1, <3>2
  <2>2. ASSUME NEW i \in 1 .. (Len(s) - 1) PROVE t[i] \in M!ToSet(s)
    <3>1. i + 1 \in 1 .. Len(s)
      BY <1>1
    <3> QED
      BY <1>1, <1>2, <3>1 DEF M!ToSet
  <2>3. s[1] \in M!ToSet(s)
    BY <1>1 DEF M!ToSet
  <2> QED
    BY <1>1, <1>2, <2>1, <2>2, <2>3 DEF M!ToSet
<1>6. s[1] \notin M!ToSet(t)
  <2>1. ASSUME NEW i \in 1 .. (Len(s) - 1) PROVE t[i] # s[1]
    <3>1. i + 1 \in 1 .. Len(s) /\ 1 \in 1 .. Len(s) /\ i + 1 # 1
      BY <1>1
    <3> QED
      BY <1>1, <1>2, <3>1 DEF NoTwice
  <2> QED
    BY <1>2, <2>1 DEF M!ToSet
<1>7. ASSUME Len(s) = 1 PROVE M!ToSet(s) = {s[1]}
  <2>1. DOMAIN s = {1}
    BY <1>1, <1>7
  <2> QED
    BY <2>1 DEF M!ToSet
<1> QED
  BY <1>2, <1>3, <1>4, <1>5, <1>6, <1>7 DEF Behind, Lists, t

LEMMA LeastOf == ASSUME NEW S \in SUBSET Nat, S # {} PROVE \E x \in S : \A y \in S : x <= y
<1>1. PICK x \in S : \A y \in S : ~(<<y, x>> \in OpToRel(<, Nat))
  BY WFMin, NatLessThanWellFounded, Zenon
<1>2. \A y \in S : ~(y < x)
  BY <1>1 DEF OpToRel
<1>3. ASSUME NEW y \in S PROVE x <= y
  <2>1. x \in Int /\ y \in Int /\ ~(y < x)
    BY <1>2
  <2> QED
    BY <2>1
<1> QED
  BY <1>3

\* Who leaves a queue takes nobody else along, and the first stays the first.
Leaves(t, q, c) ==
  /\ t \in Seq(Callers)
  /\ \A d \in Callers \ {c} : d \in M!ToSet(q) => d \in M!ToSet(t) /\ (Head(q) = d => Head(t) = d)
LEMMA QueueLeft == ASSUME NEW q \in Seq(Callers), NEW c \in Callers PROVE Leaves(M!RemoveFirst(q, c), q, c)
<1> DEFINE t == M!RemoveFirst(q, c)
           I == {i \in 1 .. Len(q) : q[i] = c}
<1>1. Len(q) \in Nat /\ DOMAIN q = 1 .. Len(q)
  OBVIOUS
<1>2. CASE I = {}
  <2>1. t = q
    BY <1>2 DEF M!RemoveFirst
  <2> QED
    BY <2>1 DEF Leaves
<1>3. CASE I # {}
  <2> DEFINE k == M!Min(I)
             x == SubSeq(q, 1, k - 1)
             y == SubSeq(q, k + 1, Len(q))
  <2>1. t = x \o y
    <3>1. \E i \in 1 .. Len(q) : q[i] = c
      BY <1>3
    <3>2. M!SelectInSeq(q, LAMBDA v : v = c) = k
      BY <1>3 DEF M!SelectInSeq
    <3> QED
      BY <3>1, <3>2 DEF M!RemoveFirst, M!RemoveAt
  <2>2. k \in I
    <3>1. I \in SUBSET Nat
      OBVIOUS
    <3>2. \E i \in I : \A j \in I : i <= j
      BY <1>3, <3>1, LeastOf
    <3> QED
      BY <3>2 DEF M!Min
  <2>3. k \in 1 .. Len(q) /\ q[k] = c
    BY <2>2
  <2> HIDE DEF k
  <2>4. x \in Seq(Callers) /\ Len(x) = k - 1 /\ \A j \in 1 .. (k - 1) : x[j] = q[j]
    BY <1>1, <2>3
  <2>5. y \in Seq(Callers) /\ Len(y) = Len(q) - k /\ \A j \in 1 .. (Len(q) - k) : y[j] = q[k + j]
    <3>1. k + 1 \in 1 .. (Len(q) + 1) /\ Len(q) - (k + 1) + 1 = Len(q) - k
      BY <1>1, <2>3
    <3> DEFINE b == k + 1
    <3> HIDE DEF b
    <3>2. b = k + 1 /\ b \in 1 .. (Len(q) + 1)
      BY <3>1 DEF b
    <3>3. /\ SubSeq(q, b, Len(q)) \in Seq(Callers) /\ Len(SubSeq(q, b, Len(q))) = Len(q) - b + 1
          /\ \A j \in 1 .. (Len(q) - b + 1) : SubSeq(q, b, Len(q))[j] = q[b + j - 1]
      BY <1>1, <3>2
    <3>4. \A j \in 1 .. (Len(q) - k) : b + j - 1 = k + j
      BY <1>1, <2>3, <3>2
    <3>5. y = SubSeq(q, b, Len(q)) /\ Len(q) - b + 1 = Len(q) - k
      BY <1>1, <2>3, <3>2
    <3> HIDE DEF y
    <3> QED
      BY <3>3, <3>4, <3>5
  <2> HIDE DEF x, y
  <2>6. t \in Seq(Callers) /\ Joins(t, x, y)
    <3>1. x \o y \in Seq(Callers) /\ Joins(x \o y, x, y)
      BY <2>4, <2>5, Joined
    <3> QED
      BY <2>1, <3>1
  <2> HIDE DEF t
  <2>7. Len(t) = Len(q) - 1 /\ DOMAIN t = 1 .. (Len(q) - 1)
    BY <1>1, <2>3, <2>4, <2>5, <2>6 DEF Joins
  <2>8. ASSUME NEW j \in 1 .. Len(q), q[j] # c PROVE \E i \in 1 .. (Len(q) - 1) : t[i] = q[j] /\ (j = 1 => i = 1)
    <3>1. CASE j < k
      <4>1. j \in 1 .. (k - 1) /\ j \in 1 .. (Len(q) - 1) /\ j <= Len(x) /\ j \in 1 .. (Len(x) + Len(y))
        BY <1>1, <2>3, <2>4, <2>5, <3>1
      <4>2. t[j] = q[j]
        BY <2>4, <2>6, <4>1 DEF Joins
      <4> QED
        BY <4>1, <4>2
    <3>2. CASE j > k
      <4>1. /\ j - 1 \in 1 .. (Len(q) - 1) /\ ~(j - 1 <= Len(x)) /\ j - 1 \in 1 .. (Len(x) + Len(y))
            /\ (j - 1) - Len(x) \in 1 .. (Len(q) - k) /\ k + ((j - 1) - Len(x)) = j /\ j # 1
        BY <1>1, <2>3, <2>4, <2>5, <3>2
      <4>2. t[j - 1] = y[(j - 1) - Len(x)]
        BY <2>6, <4>1 DEF Joins
      <4>3. y[(j - 1) - Len(x)] = q[j]
        BY <2>5, <4>1
      <4> QED
        BY <4>1, <4>2, <4>3
    <3>3. j # k
      BY <2>3, <2>8
    <3> QED
      BY <1>1, <2>3, <3>1, <3>2, <3>3
  <2>9. ASSUME NEW d \in Callers \ {c}, d \in M!ToSet(q)
        PROVE  d \in M!ToSet(t) /\ (Head(q) = d => Head(t) = d)
    <3>1. PICK j \in 1 .. Len(q) : q[j] = d
      BY <1>1, <2>9 DEF M!ToSet
    <3>2. d \in M!ToSet(t)
      BY <2>7, <2>8, <3>1 DEF M!ToSet
    <3>3. ASSUME Head(q) = d PROVE Head(t) = d
      <4>1. q[1] = d /\ 1 \in 1 .. Len(q)
        BY <1>1, <3>1, <3>3
      <4>2. PICK i \in 1 .. (Len(q) - 1) : t[i] = q[1] /\ i = 1
        BY <2>8, <4>1
      <4>3. Head(t) = t[1]
        BY <2>6, <2>7, <4>2
      <4> QED
        BY <4>1, <4>2, <4>3
    <3> QED
      BY <3>2, <3>3
  <2> QED
    BY <2>6, <2>9 DEF Leaves, t
<1> QED
  BY <1>2, <1>3 DEF t

LEMMA QueueJoined ==
  ASSUME NEW q \in Seq(Callers), NEW c \in Callers
  PROVE  /\ Append(q, c) \in Seq(Callers) /\ c \in M!ToSet(Append(q, c))
         /\ \A d \in Callers : d \in M!ToSet(q) => d \in M!ToSet(Append(q, c)) /\ (Head(q) = d => Head(Append(q, c)) = d)
<1> DEFINE t == Append(q, c)
<1>1. Len(q) \in Nat /\ DOMAIN q = 1 .. Len(q)
  OBVIOUS
<1>2. t \in Seq(Callers) /\ Len(t) = Len(q) + 1 /\ DOMAIN t = 1 .. (Len(q) + 1)
      /\ t[Len(q) + 1] = c /\ \A i \in 1 .. Len(q) : t[i] = q[i]
  OBVIOUS
<1> HIDE DEF t
<1>3. c \in M!ToSet(t)
  BY <1>1, <1>2 DEF M!ToSet
<1>4. ASSUME NEW d \in Callers, d \in M!ToSet(q) PROVE d \in M!ToSet(t) /\ (Head(q) = d => Head(t) = d)
  <2>1. PICK j \in 1 .. Len(q) : q[j] = d
    BY <1>1, <1>4 DEF M!ToSet
  <2>2. j \in 1 .. (Len(q) + 1) /\ 1 \in 1 .. Len(q)
    BY <1>1
  <2>3. d \in M!ToSet(t)
    BY <1>2, <2>1, <2>2 DEF M!ToSet
  <2>4. Head(t) = t[1] /\ Head(q) = q[1] /\ t[1] = q[1]
    BY <1>1, <1>2, <2>2
  <2> QED
    BY <2>3, <2>4
<1> QED
  BY <1>2, <1>3, <1>4 DEF t

\* When the first leaves, everybody else is still there.
LEMMA FirstLeft ==
  ASSUME NEW q \in Seq(Callers), NEW d \in Callers, d \in M!ToSet(q), d # Head(q)
  PROVE  d \in M!ToSet(Tail(q))
<1> DEFINE t == Tail(q)
<1>1. PICK j \in 1 .. Len(q) : q[j] = d
  BY DEF M!ToSet
<1>2. Len(q) \in Nat /\ q # <<>> /\ Head(q) = q[1] /\ j # 1
  BY <1>1
<1>3. j - 1 \in 1 .. (Len(q) - 1) /\ (j - 1) + 1 = j
  BY <1>1, <1>2
<1>4. DOMAIN t = 1 .. (Len(q) - 1) /\ \A i \in 1 .. (Len(q) - 1) : t[i] = q[i + 1]
  BY <1>2
<1> HIDE DEF t
<1>5. t[j - 1] = d
  BY <1>1, <1>3, <1>4
<1> QED
  BY <1>3, <1>4, <1>5 DEF M!ToSet, t

-----------------------------------------------------------------------------
(* ModelRouter: the invariant.                                              *)

Asking == {"turn", "queued", "asleep", "calling", "cool", "cooling"}
CallRec == [pc : Asking \cup {"idle", "done", "key", "embedding"},
            stream : BOOLEAN, walks : BOOLEAN, left : Lists, failed : SUBSET Providers, try : Nat, wake : Nat,
            from : SUBSET Providers, keys : SUBSET (0 .. (Keys - 1)), met : BOOLEAN,
            outcome : {"none", "error", "text", "empty", "broken", "vector", "cancelled"}]

\* Who has chunks has them from the endpoint it asks; and what is there for chat
\* has failed or is still to come, but not both.
CallOK(r) ==
  /\ r.pc \in Asking => r.left # <<>>
  /\ r.pc # "done" => r.outcome = "none"
  /\ r.pc \in {"key", "embedding"} => ~r.walks
  /\ r.from # {} => r.left # <<>> /\ r.from = {Head(r.left)}
  /\ r.walks => ChatSet \subseteq r.failed \cup M!ToSet(r.left)
  /\ r.walks /\ r.outcome = "error" => ChatSet \subseteq r.failed
  /\ r.outcome # "error" => M!ToSet(r.left) \cap r.failed = {}

\* Those are the n keys before the next one.
Window(ks, n) ==
  /\ ks = {k \in 0 .. (Keys - 1) : \/ k < keyIdx /\ k >= keyIdx - n
                                   \/ k >= keyIdx /\ k - Keys >= keyIdx - n}
  /\ Cardinality(ks) = IF n < Keys THEN n ELSE Keys
KeyOK(r) ==
  /\ r.try >= 1
  /\ ~r.met /\ r.pc = "key" => Window(r.keys, r.try - 1)
  /\ ~r.met /\ r.pc = "embedding" => Window(r.keys, r.try)

\* Who sleeps is the first in the queue, and the time it sleeps for still stands.
TurnOK(c, r) ==
  /\ r.pc \in {"queued", "asleep", "cool", "cooling"} => Head(r.left) \in Throttled
  /\ r.pc \in {"queued", "asleep", "cooling"} => c \in M!ToSet(lock[Head(r.left)])
  /\ r.pc = "asleep" => Head(lock[Head(r.left)]) = c /\ r.wake = nextAt[Head(r.left)]

TimeInv ==
  /\ now \in Nat /\ now >= MinInterval
  /\ nextAt \in [Throttled -> Nat] /\ lastStart \in [Throttled -> Nat] /\ cooled \in [Throttled -> Nat]
  /\ \A e \in Throttled : (lastStart[e] = 0 \/ lastStart[e] + MinInterval <= nextAt[e]) /\ cooled[e] <= nextAt[e]

RouterTypes ==
  call \in [Callers -> CallRec] /\ lock \in [Throttled -> Seq(Callers)] /\ keyIdx \in 0 .. (Keys - 1)

RouterInv ==
  /\ RouterTypes /\ TimeInv
  /\ \A c \in Callers : CallOK(call[c]) /\ KeyOK(call[c]) /\ TurnOK(c, call[c])

Inert == UNCHANGED <<lock, nextAt, lastStart, cooled, keyIdx, now>>

LEMMA NoCallOK == ASSUME M!RouterAssumption PROVE M!NoCall \in CallRec /\ CallOK(M!NoCall) /\ KeyOK(M!NoCall)
<1>1. <<>> \in Lists /\ M!ToSet(<<>>) = {}
  BY DEF Lists, NoTwice, M!ToSet
<1> QED
  BY <1>1 DEF M!NoCall, CallRec, Asking, CallOK, KeyOK

LEMMA RouterStarts == ASSUME M!RouterAssumption, M!RouterInit PROVE RouterInv
<1>1. M!NoCall \in CallRec /\ CallOK(M!NoCall) /\ KeyOK(M!NoCall) /\ M!NoCall.pc = "idle"
  BY NoCallOK DEF M!NoCall
<1>2. MinInterval \in Nat /\ Keys \in Nat /\ Keys >= 1
  BY DEF M!RouterAssumption
<1>3. TimeInv
  BY <1>2 DEF M!RouterInit, TimeInv
<1>4. RouterTypes
  BY <1>1, <1>2 DEF M!RouterInit, RouterTypes
<1>5. \A c \in Callers : call[c] = M!NoCall
  BY DEF M!RouterInit
<1> QED
  BY <1>1, <1>3, <1>4, <1>5 DEF RouterInv, TurnOK

\* A caller's step sets its own locals.
Becomes(c, r) == call' \in [Callers -> CallRec] /\ call'[c] = r /\ \A d \in Callers \ {c} : call'[d] = call[d]
LEMMA CallSet ==
  ASSUME RouterInv, NEW c \in Callers, NEW r \in CallRec, M!SetCall(c, r)
  PROVE  Becomes(c, r)
BY DEF RouterInv, RouterTypes, M!SetCall, Becomes

LEMMA OwnStep ==
  ASSUME RouterInv, NEW c \in Callers, NEW r \in CallRec, M!SetCall(c, r),
         CallOK(r), KeyOK(r), TurnOK(c, r), Inert
  PROVE  RouterInv'
<1>1. Becomes(c, r)
  BY CallSet
<1>2. UNCHANGED <<lock, nextAt, lastStart, cooled, keyIdx, now>>
  BY DEF Inert
<1>3. TimeInv'
  BY <1>2 DEF RouterInv, TimeInv
<1>4. RouterTypes'
  BY <1>1, <1>2 DEF RouterInv, RouterTypes, Becomes
<1>5. ASSUME NEW d \in Callers PROVE (CallOK(call[d]) /\ KeyOK(call[d]) /\ TurnOK(d, call[d]))'
  <2>1. CASE d = c
    BY <1>1, <1>2, <2>1 DEF Becomes, CallOK, KeyOK, TurnOK, Window
  <2>2. CASE d # c
    BY <1>1, <1>2, <2>2 DEF Becomes, RouterInv, CallOK, KeyOK, TurnOK, Window
  <2> QED
    BY <2>1, <2>2
<1> QED
  BY <1>3, <1>4, <1>5 DEF RouterInv

LEMMA Started ==
  ASSUME M!RouterAssumption, RouterInv, NEW c \in Callers, NEW asStream \in BOOLEAN, NEW walks \in BOOLEAN,
         NEW left \in Lists, walks => ChatSet \subseteq M!ToSet(left), M!Start(c, asStream, walks, left)
  PROVE  RouterInv'
<1> DEFINE r == [M!NoCall EXCEPT !.stream = asStream, !.walks = walks, !.left = left,
                   !.pc = IF left = <<>> THEN "done" ELSE "turn",
                   !.outcome = IF left = <<>> THEN "error" ELSE "none"]
<1>1. M!SetCall(c, r) /\ Inert
  BY DEF M!Start, Inert
<1>2. <<>> \in Lists /\ M!ToSet(<<>>) = {}
  BY DEF Lists, NoTwice, M!ToSet
<1>3. /\ r \in CallRec /\ r.pc \in {"done", "turn"} /\ r.walks = walks /\ r.left = left /\ r.from = {} /\ r.failed = {}
      /\ (r.pc = "turn" => left # <<>> /\ r.outcome = "none") /\ (r.outcome = "error" => left = <<>>) /\ r.try = 1
  BY <1>2 DEF M!NoCall, CallRec, Asking
<1> HIDE DEF r
<1>4. CallOK(r)
  BY <1>2, <1>3 DEF CallOK, Asking
<1>5. KeyOK(r) /\ TurnOK(c, r)
  BY <1>3 DEF KeyOK, TurnOK
<1> QED
  BY <1>1, <1>3, <1>4, <1>5, OwnStep

\* What a call is before its next step.
LEMMA CallIs ==
  ASSUME RouterInv, NEW c \in Callers
  PROVE  /\ call[c] \in CallRec /\ CallOK(call[c]) /\ KeyOK(call[c]) /\ TurnOK(c, call[c])
         /\ call[c].left # <<>> => Behind(Tail(call[c].left), call[c].left)
<1>1. call[c] \in CallRec /\ call[c].left \in Lists
  BY DEF RouterInv, RouterTypes, CallRec
<1> QED
  BY <1>1, NextInList DEF RouterInv

LEMMA CallBegins ==
  ASSUME M!RouterAssumption, RouterInv, NEW c \in Callers,
         M!RunTextPrompt(c) \/ M!StreamTextPrompt(c) \/ M!AskTiers(c) \/ M!Generate(c)
  PROVE  RouterInv'
<1>1. Len(M!DefaultChain) \in Nat /\ Len(M!CheapChain) \in Nat
  BY DEF M!DefaultChain, M!CheapChain
<1>2. ASSUME NEW route, NEW chain \in {M!DefaultChain, M!CheapChain}, NEW asStream \in BOOLEAN,
             M!Start(c, asStream, TRUE, M!BuildTierAttempts(route, chain))
      PROVE  RouterInv'
  <2> DEFINE t == M!BuildTierAttempts(route, chain)
  <2>1. Tries(t)
    BY <1>1, AttemptsBuilt
  <2> HIDE DEF t
  <2>2. M!Start(c, asStream, TRUE, t)
    BY <1>2 DEF t
  <2> QED
    BY <2>1, <2>2, Started DEF Tries
<1>3. ASSUME NEW route, NEW asStream \in BOOLEAN, M!Start(c, asStream, FALSE, M!GetRoute(route))
      PROVE  RouterInv'
  <2> DEFINE t == M!GetRoute(route)
  <2>1. t \in Lists
    BY OneRouted
  <2> HIDE DEF t
  <2>2. M!Start(c, asStream, FALSE, t)
    BY <1>3 DEF t
  <2> QED
    BY <2>1, <2>2, Started
<1>4. CASE M!RunTextPrompt(c)
  BY <1>2, <1>4 DEF M!RunTextPrompt
<1>5. CASE M!StreamTextPrompt(c)
  BY <1>2, <1>5 DEF M!StreamTextPrompt
<1>6. CASE M!AskTiers(c)
  BY <1>2, <1>6 DEF M!AskTiers
<1>7. CASE M!Generate(c)
  BY <1>3, <1>7 DEF M!Generate
<1> QED
  BY <1>4, <1>5, <1>6, <1>7

\* The end of a call that has not failed.
LEMMA OverOK ==
  ASSUME RouterInv, NEW c \in Callers, call[c].pc \notin {"idle", "done"},
         NEW o \in {"text", "empty", "broken", "vector", "cancelled"}
  PROVE  M!Over(c, o) \in CallRec /\ CallOK(M!Over(c, o)) /\ KeyOK(M!Over(c, o)) /\ TurnOK(c, M!Over(c, o))
<1> DEFINE r == M!Over(c, o)
<1>1. call[c] \in CallRec /\ CallOK(call[c]) /\ KeyOK(call[c])
  BY CallIs
<1>2. /\ r \in CallRec /\ r.pc = "done" /\ r.outcome = o /\ r.walks = call[c].walks /\ r.left = call[c].left
      /\ r.from = call[c].from /\ r.failed = call[c].failed /\ r.try = call[c].try
  BY <1>1 DEF M!Over, CallRec
<1> HIDE DEF r
<1>3. CallOK(r)
  BY <1>1, <1>2 DEF CallOK, Asking
<1>4. KeyOK(r) /\ TurnOK(c, r)
  BY <1>1, <1>2 DEF KeyOK, TurnOK
<1> QED
  BY <1>2, <1>3, <1>4 DEF r

LEMMA AskOrSleep ==
  ASSUME RouterInv, NEW c \in Callers, M!AskAtOnce(c) \/ M!TakeTurn(c)
  PROVE  RouterInv'
<1>1. call[c] \in CallRec /\ CallOK(call[c]) /\ KeyOK(call[c]) /\ TurnOK(c, call[c])
  BY CallIs
<1>2. CASE M!AskAtOnce(c)
  <2> DEFINE r == [call[c] EXCEPT !.pc = "calling"]
  <2>1. M!SetCall(c, r) /\ Inert /\ call[c].pc = "turn"
    BY <1>2 DEF M!AskAtOnce, M!Is, Inert
  <2>2. /\ r \in CallRec /\ r.pc = "calling" /\ r.outcome = call[c].outcome /\ r.walks = call[c].walks
        /\ r.left = call[c].left /\ r.from = call[c].from /\ r.failed = call[c].failed /\ r.try = call[c].try
    BY <1>1 DEF CallRec, Asking
  <2> HIDE DEF r
  <2>3. CallOK(r)
    BY <1>1, <2>1, <2>2 DEF CallOK, Asking
  <2>4. KeyOK(r) /\ TurnOK(c, r)
    BY <1>1, <2>2 DEF KeyOK, TurnOK
  <2> QED
    BY <2>1, <2>2, <2>3, <2>4, OwnStep
<1>3. CASE M!TakeTurn(c)
  <2> DEFINE e == Head(call[c].left)
             r == [call[c] EXCEPT !.pc = "asleep", !.wake = nextAt[e]]
  <2>1. M!SetCall(c, r) /\ Inert /\ call[c].pc = "queued" /\ Head(lock[e]) = c
    BY <1>3 DEF M!TakeTurn, M!Is, M!Holds, M!Ep, Inert
  <2>2. e \in Throttled /\ c \in M!ToSet(lock[e]) /\ nextAt[e] \in Nat
    BY <1>1, <2>1 DEF TurnOK, RouterInv, TimeInv
  <2>3. /\ r \in CallRec /\ r.pc = "asleep" /\ r.outcome = call[c].outcome /\ r.walks = call[c].walks
        /\ r.left = call[c].left /\ r.from = call[c].from /\ r.failed = call[c].failed /\ r.try = call[c].try
        /\ r.wake = nextAt[e]
    BY <1>1, <2>2 DEF CallRec, Asking
  <2> HIDE DEF r
  <2>4. CallOK(r)
    BY <1>1, <2>1, <2>3 DEF CallOK, Asking
  <2>5. KeyOK(r) /\ TurnOK(c, r)
    BY <1>1, <2>1, <2>2, <2>3 DEF KeyOK, TurnOK
  <2> QED
    BY <2>1, <2>3, <2>4, <2>5, OwnStep
<1> QED
  BY <1>2, <1>3

LEMMA Answered ==
  ASSUME RouterInv, NEW c \in Callers, M!Chunk(c) \/ M!Answer(c)
  PROVE  RouterInv'
<1> DEFINE e == Head(call[c].left)
<1>1. call[c] \in CallRec /\ CallOK(call[c]) /\ KeyOK(call[c]) /\ TurnOK(c, call[c])
  BY CallIs
<1>2. call[c].pc = "calling" /\ Inert
  BY DEF M!Chunk, M!Answer, M!Is, Inert
<1>3. e \in Providers /\ call[c].left # <<>>
  BY <1>1, <1>2, CallIs DEF CallOK, Asking, Behind
<1>4. ASSUME NEW r \in CallRec, M!SetCall(c, r), r.pc \in {"calling", "cool", "done"},
             r.outcome \in {"none", "text"}, r.pc # "done" => r.outcome = "none",
             r.walks = call[c].walks, r.left = call[c].left,
             r.failed = call[c].failed, r.try = call[c].try,
             r.from \in {call[c].from, {e}},
             r.pc = "cool" => e \in Throttled
      PROVE  RouterInv'
  <2>1. CallOK(r)
    BY <1>1, <1>2, <1>3, <1>4 DEF CallOK, Asking
  <2>2. KeyOK(r) /\ TurnOK(c, r)
    BY <1>1, <1>4 DEF KeyOK, TurnOK
  <2> QED
    BY <1>2, <1>4, <2>1, <2>2, OwnStep
<1>5. CASE M!Chunk(c)
  <2> DEFINE r == [call[c] EXCEPT !.from = @ \cup {e}]
  <2>1. M!SetCall(c, r)
    BY <1>5 DEF M!Chunk, M!Ep
  <2>2. call[c].from \cup {e} = {e}
    BY <1>1, <1>3 DEF CallOK
  <2>3. /\ r \in CallRec /\ r.pc = "calling" /\ r.outcome = call[c].outcome /\ r.walks = call[c].walks
        /\ r.left = call[c].left /\ r.failed = call[c].failed /\ r.try = call[c].try /\ r.from = {e}
    BY <1>1, <1>2, <1>3, <2>2 DEF CallRec
  <2>4. r.outcome = "none"
    BY <1>1, <1>2, <2>3 DEF CallOK
  <2> HIDE DEF r
  <2> QED
    BY <1>4, <2>1, <2>3, <2>4
<1>6. ASSUME M!SetCall(c, [M!Over(c, "text") EXCEPT !.from = {e}]) PROVE RouterInv'
  <2> DEFINE r == [M!Over(c, "text") EXCEPT !.from = {e}]
  <2>1. /\ r \in CallRec /\ r.pc = "done" /\ r.outcome = "text" /\ r.walks = call[c].walks
        /\ r.left = call[c].left /\ r.failed = call[c].failed /\ r.try = call[c].try /\ r.from = {e}
    BY <1>1, <1>3 DEF CallRec, M!Over
  <2>2. M!SetCall(c, r)
    BY <1>6
  <2> HIDE DEF r
  <2> QED
    BY <1>4, <2>1, <2>2
<1>7. ASSUME NEW o \in {"text", "empty"}, M!SetCall(c, M!Over(c, o)) PROVE RouterInv'
  <2> DEFINE r == M!Over(c, o)
  <2>1. r \in CallRec /\ CallOK(r) /\ KeyOK(r) /\ TurnOK(c, r) /\ M!SetCall(c, r)
    BY <1>2, <1>7, OverOK
  <2> HIDE DEF r
  <2> QED
    BY <1>2, <2>1, OwnStep
<1>8. ASSUME M!SetCall(c, [call[c] EXCEPT !.pc = "cool"]), e \in Throttled PROVE RouterInv'
  <2> DEFINE r == [call[c] EXCEPT !.pc = "cool"]
  <2>1. /\ r \in CallRec /\ r.pc = "cool" /\ r.outcome = call[c].outcome /\ r.walks = call[c].walks
        /\ r.left = call[c].left /\ r.failed = call[c].failed /\ r.try = call[c].try /\ r.from = call[c].from
    BY <1>1 DEF CallRec, Asking
  <2>2. r.outcome = "none" /\ M!SetCall(c, r)
    BY <1>1, <1>2, <1>8, <2>1 DEF CallOK
  <2> HIDE DEF r
  <2> QED
    BY <1>4, <1>8, <2>1, <2>2
<1>9. CASE M!Answer(c)
  <2> HIDE DEF e
  <2>1. M!Ep(c) = e
    BY DEF e, M!Ep
  <2>2. \/ M!SetCall(c, [M!Over(c, "text") EXCEPT !.from = {e}])
        \/ M!SetCall(c, M!Over(c, "text"))
        \/ M!SetCall(c, IF e \in Throttled THEN [call[c] EXCEPT !.pc = "cool"] ELSE M!Over(c, "empty"))
    BY <1>9, <2>1 DEF M!Answer
  <2> QED
    BY <1>6, <1>7, <1>8, <2>2
<1> QED
  BY <1>5, <1>9

LEMMA LongTail == ASSUME NEW A, NEW q \in Seq(A), q # <<>>, Len(q) # 1 PROVE Tail(q) # <<>>
<1>1. Len(q) \in Nat /\ Len(q) # 0
  OBVIOUS
<1>2. Len(Tail(q)) = Len(q) - 1 /\ Len(<<>>) = 0
  BY <1>1
<1>3. Len(Tail(q)) # 0
  BY <1>1, <1>2
<1> QED
  BY <1>2, <1>3

LEMMA Failed ==
  ASSUME RouterInv, NEW c \in Callers, M!TransientError(c) \/ M!ErrorIn(c)
  PROVE  RouterInv'
<1> DEFINE e == Head(call[c].left)
           s == call[c].left
<1>1. call[c] \in CallRec /\ CallOK(call[c]) /\ KeyOK(call[c]) /\ TurnOK(c, call[c])
  BY CallIs
<1>2. call[c].pc = "calling" /\ Inert
  BY DEF M!TransientError, M!ErrorIn, M!Is, Inert
<1>3. s # <<>> /\ call[c].outcome = "none"
  BY <1>1, <1>2 DEF CallOK, Asking
<1>4. Behind(Tail(s), s) /\ s \in Lists
  BY <1>1, <1>3, CallIs DEF CallRec
<1>5. CASE M!TransientError(c)
  <2> DEFINE r == [call[c] EXCEPT !.pc = "turn", !.try = @ + 1]
  <2>1. M!SetCall(c, r) /\ call[c].try \in Nat /\ call[c].try + 1 \in Nat
    BY <1>1, <1>5 DEF M!TransientError, CallRec
  <2>2. /\ r \in CallRec /\ r.pc = "turn" /\ r.outcome = call[c].outcome /\ r.walks = call[c].walks
        /\ r.left = call[c].left /\ r.failed = call[c].failed /\ r.from = call[c].from /\ r.try = call[c].try + 1
    BY <1>1, <2>1 DEF CallRec, Asking
  <2> HIDE DEF r
  <2>3. CallOK(r)
    BY <1>1, <1>2, <2>2 DEF CallOK, Asking
  <2>4. KeyOK(r) /\ TurnOK(c, r)
    BY <1>1, <2>1, <2>2 DEF KeyOK, TurnOK
  <2> QED
    BY <1>2, <2>1, <2>2, <2>3, <2>4, OwnStep
<1>6. ASSUME M!SetCall(c, M!Over(c, "broken")) PROVE RouterInv'
  <2> DEFINE r == M!Over(c, "broken")
  <2>1. r \in CallRec /\ CallOK(r) /\ KeyOK(r) /\ TurnOK(c, r) /\ M!SetCall(c, r)
    BY <1>2, <1>6, OverOK
  <2> HIDE DEF r
  <2> QED
    BY <1>2, <2>1, OwnStep
<1>7. ASSUME M!SetCall(c, [M!Over(c, "error") EXCEPT !.failed = @ \cup {e}]), ~call[c].walks \/ Len(s) = 1
      PROVE  RouterInv'
  <2> DEFINE r == [M!Over(c, "error") EXCEPT !.failed = @ \cup {e}]
  <2>1. /\ r \in CallRec /\ r.pc = "done" /\ r.outcome = "error" /\ r.walks = call[c].walks /\ r.left = s
        /\ r.failed = call[c].failed \cup {e} /\ r.from = call[c].from /\ r.try = call[c].try
    BY <1>1, <1>4 DEF CallRec, M!Over, Behind
  <2>2. M!SetCall(c, r)
    BY <1>7
  <2> HIDE DEF r
  <2>3. r.walks => M!ToSet(s) = {e} /\ ChatSet \subseteq call[c].failed \cup M!ToSet(s)
    BY <1>1, <1>4, <1>7, <2>1 DEF CallOK, Behind
  <2> HIDE DEF s, e
  <2>4. CallOK(r)
    <3>1. r.from # {} => r.left # <<>> /\ r.from = {Head(r.left)}
      BY <1>1, <2>1 DEF CallOK, s
    <3> QED
      BY <2>1, <2>3, <3>1 DEF CallOK, Asking
  <2>5. KeyOK(r) /\ TurnOK(c, r)
    BY <1>1, <2>1 DEF KeyOK, TurnOK
  <2> QED
    BY <1>2, <2>1, <2>2, <2>4, <2>5, OwnStep
<1>8. ASSUME call[c].from = {}, Len(s) # 1,
             M!SetCall(c, [call[c] EXCEPT !.pc = "turn", !.failed = @ \cup {e}, !.left = Tail(s), !.try = 1])
      PROVE  RouterInv'
  <2> DEFINE t == Tail(s)
             r == [call[c] EXCEPT !.pc = "turn", !.failed = @ \cup {e}, !.left = t, !.try = 1]
  <2>1. t # <<>>
    <3>1. s \in Seq(Providers) /\ s # <<>> /\ Len(s) # 1
      BY <1>3, <1>4, <1>8 DEF Lists
    <3> HIDE DEF s
    <3> QED
      BY <3>1, LongTail
  <2>2. t \in Lists /\ e \in Providers /\ M!ToSet(s) = {e} \cup M!ToSet(t) /\ e \notin M!ToSet(t)
    BY <1>4 DEF Behind
  <2> HIDE DEF t, e
  <2>3. /\ r \in CallRec /\ r.pc = "turn" /\ r.outcome = "none" /\ r.walks = call[c].walks /\ r.left = t
        /\ r.failed = call[c].failed \cup {e} /\ r.from = {} /\ r.try = 1
    BY <1>1, <1>3, <1>8, <2>2 DEF CallRec, Asking
  <2>4. M!SetCall(c, r)
    BY <1>8 DEF t, e
  <2> HIDE DEF r
  <2>5. (call[c].walks => ChatSet \subseteq call[c].failed \cup M!ToSet(s)) /\ M!ToSet(s) \cap call[c].failed = {}
    BY <1>1, <1>3 DEF CallOK
  <2> HIDE DEF s
  <2>6. CallOK(r)
    BY <2>1, <2>2, <2>3, <2>5 DEF CallOK, Asking
  <2>7. KeyOK(r) /\ TurnOK(c, r)
    BY <2>3 DEF KeyOK, TurnOK
  <2> QED
    BY <1>2, <2>3, <2>4, <2>6, <2>7, OwnStep
<1>9. CASE M!ErrorIn(c)
  <2>1. M!SetCall(c, IF call[c].from # {} THEN M!Over(c, "broken") ELSE M!NextAttempt(c))
    BY <1>9 DEF M!ErrorIn
  <2>2. M!NextAttempt(c) = IF ~call[c].walks \/ Len(s) = 1
                           THEN [M!Over(c, "error") EXCEPT !.failed = @ \cup {e}]
                           ELSE [call[c] EXCEPT !.pc = "turn", !.failed = @ \cup {e}, !.left = Tail(s), !.try = 1]
    BY <1>1 DEF M!NextAttempt, M!Ep, CallRec
  <2> HIDE DEF s, e
  <2>3. CASE call[c].from # {}
    BY <1>6, <2>1, <2>3
  <2>4. CASE call[c].from = {} /\ (~call[c].walks \/ Len(s) = 1)
    BY <1>7, <2>1, <2>2, <2>4
  <2>5. CASE call[c].from = {} /\ ~(~call[c].walks \/ Len(s) = 1)
    BY <1>8, <2>1, <2>2, <2>5
  <2> QED
    BY <2>3, <2>4, <2>5
<1> QED
  BY <1>5, <1>9

\* What a step that changes queues may do to those of the others.
Waiting(c) ==
  \A e \in Throttled, d \in Callers \ {c} :
    /\ d \in M!ToSet(lock[e]) => d \in M!ToSet(lock'[e]) /\ (Head(lock[e]) = d => Head(lock'[e]) = d)
    /\ d \in M!ToSet(lock[e]) /\ Head(lock[e]) = d => nextAt'[e] = nextAt[e]

LEMMA QueueStep ==
  ASSUME RouterInv, NEW c \in Callers, NEW r \in CallRec, M!SetCall(c, r), CallOK(r), KeyOK(r), TurnOK(c, r)',
         Waiting(c), lock' \in [Throttled -> Seq(Callers)], TimeInv', UNCHANGED keyIdx
  PROVE  RouterInv'
<1>1. Becomes(c, r)
  BY CallSet
<1>2. RouterTypes'
  BY <1>1 DEF RouterInv, RouterTypes, Becomes
<1>3. ASSUME NEW d \in Callers PROVE (CallOK(call[d]) /\ KeyOK(call[d]) /\ TurnOK(d, call[d]))'
  <2>1. CASE d = c
    BY <1>1, <2>1 DEF Becomes, CallOK, KeyOK, TurnOK, Window
  <2>2. CASE d # c
    <3>1. call'[d] = call[d] /\ d \in Callers \ {c}
      BY <1>1, <2>2 DEF Becomes
    <3>2. CallOK(call[d]) /\ KeyOK(call[d]) /\ TurnOK(d, call[d])
      BY DEF RouterInv
    <3>3. CallOK(call[d])' /\ KeyOK(call[d])'
      BY <3>1, <3>2 DEF CallOK, KeyOK, Window
    <3> DEFINE x == call[d]
               e == Head(x.left)
    <3>4. /\ x.pc \in {"queued", "asleep", "cool", "cooling"} => e \in Throttled
          /\ x.pc \in {"queued", "asleep", "cooling"} => d \in M!ToSet(lock[e])
          /\ x.pc = "asleep" => Head(lock[e]) = d /\ x.wake = nextAt[e]
      BY <3>2 DEF TurnOK
    <3> HIDE DEF x, e
    <3>5. /\ x.pc \in {"queued", "asleep", "cooling"} => d \in M!ToSet(lock'[e])
          /\ x.pc = "asleep" => Head(lock'[e]) = d /\ x.wake = nextAt'[e]
      BY <3>1, <3>4 DEF Waiting
    <3>6. TurnOK(d, call[d])'
      BY <3>1, <3>4, <3>5 DEF TurnOK, x, e
    <3> QED
      BY <3>3, <3>6
  <2> QED
    BY <2>1, <2>2
<1> QED
  BY <1>2, <1>3 DEF RouterInv

\* One queue is joined, or left by its first.
LEMMA QueueChanges ==
  ASSUME RouterInv, NEW c \in Callers, NEW e \in Throttled, NEW q,
         lock' = [lock EXCEPT ![e] = q],
         \/ q = Append(lock[e], c) /\ UNCHANGED nextAt
         \/ q = M!RemoveFirst(lock[e], c) /\ Head(lock[e]) = c /\ \A f \in Throttled \ {e} : nextAt'[f] = nextAt[f]
         \/ q = Tail(lock[e]) /\ Head(lock[e]) = c /\ lock[e] # <<>>
              /\ \A f \in Throttled \ {e} : nextAt'[f] = nextAt[f]
  PROVE  Waiting(c) /\ lock' \in [Throttled -> Seq(Callers)] /\ lock'[e] = q
<1>1. lock \in [Throttled -> Seq(Callers)] /\ lock[e] \in Seq(Callers)
  BY DEF RouterInv, RouterTypes
<1>2. /\ q \in Seq(Callers)
      /\ \A d \in Callers \ {c} : d \in M!ToSet(lock[e]) => d \in M!ToSet(q) /\ (Head(lock[e]) = d => Head(q) = d)
  <2>1. CASE q = Append(lock[e], c)
    BY <1>1, <2>1, QueueJoined
  <2>2. CASE q = M!RemoveFirst(lock[e], c)
    <3>1. Leaves(q, lock[e], c)
      BY <1>1, <2>2, QueueLeft
    <3> QED
      BY <3>1 DEF Leaves
  <2>3. CASE q = Tail(lock[e]) /\ Head(lock[e]) = c /\ lock[e] # <<>>
    <3>1. q \in Seq(Callers)
      BY <1>1, <2>3
    <3>2. ASSUME NEW d \in Callers \ {c}, d \in M!ToSet(lock[e]) PROVE d \in M!ToSet(q)
      BY <1>1, <2>3, <3>2, FirstLeft
    <3> QED
      BY <2>3, <3>1, <3>2
  <2> QED
    BY <2>1, <2>2, <2>3
<1>3. lock'[e] = q /\ \A f \in Throttled \ {e} : lock'[f] = lock[f]
  BY <1>1
<1>4. lock' \in [Throttled -> Seq(Callers)]
  BY <1>1, <1>2
<1>5. \A f \in Throttled : nextAt'[f] = nextAt[f] \/ (f = e /\ Head(lock[e]) = c)
  OBVIOUS
<1>6. Waiting(c)
  BY <1>2, <1>3, <1>5 DEF Waiting
<1> QED
  BY <1>3, <1>4, <1>6

LEMMA Queues ==
  ASSUME RouterInv, NEW c \in Callers, M!AskTurn(c) \/ M!AskCooldown(c)
  PROVE  RouterInv'
<1> DEFINE e == Head(call[c].left)
<1>1. call[c] \in CallRec /\ CallOK(call[c]) /\ KeyOK(call[c]) /\ TurnOK(c, call[c])
  BY CallIs
<1>2. ASSUME NEW p \in {"queued", "cooling"}, call[c].pc \in {"turn", "cool"}, e \in Throttled,
             lock' = [lock EXCEPT ![e] = Append(lock[e], c)], M!SetCall(c, [call[c] EXCEPT !.pc = p]),
             UNCHANGED <<nextAt, lastStart, cooled, keyIdx, now>>
      PROVE  RouterInv'
  <2> PICK r \in CallRec : r = [call[c] EXCEPT !.pc = p]
    BY <1>1 DEF CallRec, Asking
  <2>1. /\ r.pc = p /\ r.outcome = call[c].outcome /\ r.walks = call[c].walks /\ r.left = call[c].left
        /\ r.failed = call[c].failed /\ r.from = call[c].from /\ r.try = call[c].try
    BY <1>1 DEF CallRec
  <2>2. M!SetCall(c, r)
    BY <1>2
  <2>3. CallOK(r)
    BY <1>1, <1>2, <2>1 DEF CallOK, Asking
  <2>4. KeyOK(r)
    BY <1>1, <2>1 DEF KeyOK
  <2>5. Head(r.left) = e
    BY <2>1
  <2>6. lock[e] \in Seq(Callers)
    BY <1>2 DEF RouterInv, RouterTypes
  <2> HIDE DEF e
  <2>7. Waiting(c) /\ lock' \in [Throttled -> Seq(Callers)] /\ lock'[e] = Append(lock[e], c)
    BY <1>2, QueueChanges
  <2>8. TurnOK(c, r)'
    BY <1>2, <2>1, <2>5, <2>6, <2>7, QueueJoined DEF TurnOK
  <2>9. TimeInv'
    BY <1>2 DEF RouterInv, TimeInv
  <2> QED
    BY <1>2, <2>1, <2>2, <2>3, <2>4, <2>7, <2>8, <2>9, QueueStep
<1>3. CASE M!AskTurn(c)
  BY <1>2, <1>3 DEF M!AskTurn, M!Is, M!Ep
<1>4. CASE M!AskCooldown(c)
  BY <1>1, <1>2, <1>4 DEF M!AskCooldown, M!Is, M!Ep, TurnOK
<1> QED
  BY <1>3, <1>4

\* A request starts, MinInterval after the last one and after the cooldown.
LEMMA RequestGoes ==
  ASSUME M!RouterAssumption, RouterInv, NEW c \in Callers, M!StartRequest(c)
  PROVE  RouterInv' /\ M!SpacedTurn
<1> DEFINE e == Head(call[c].left)
<1>1. call[c] \in CallRec /\ CallOK(call[c]) /\ KeyOK(call[c]) /\ TurnOK(c, call[c])
  BY CallIs
<1> PICK r \in CallRec : r = [call[c] EXCEPT !.pc = "calling"]
  BY <1>1 DEF CallRec, Asking
<1>2. /\ call[c].pc = "asleep" /\ now >= call[c].wake /\ M!SetCall(c, r)
      /\ nextAt' = [nextAt EXCEPT ![e] = now + MinInterval] /\ lastStart' = [lastStart EXCEPT ![e] = now]
      /\ lock' = [lock EXCEPT ![e] = M!RemoveFirst(lock[e], c)] /\ UNCHANGED <<cooled, keyIdx, now>>
  <2>1. e \in Throttled /\ lock \in [Throttled -> Seq(Callers)]
    BY <1>1 DEF M!StartRequest, M!Is, TurnOK, RouterInv, RouterTypes
  <2> QED
    BY <2>1 DEF M!StartRequest, M!Is, M!Ep
<1>3. e \in Throttled /\ c \in M!ToSet(lock[e]) /\ Head(lock[e]) = c /\ call[c].wake = nextAt[e]
  BY <1>1, <1>2 DEF TurnOK
<1>4. /\ r.pc = "calling" /\ r.outcome = call[c].outcome /\ r.walks = call[c].walks
      /\ r.left = call[c].left /\ r.failed = call[c].failed /\ r.from = call[c].from /\ r.try = call[c].try
  BY <1>1 DEF CallRec
<1> HIDE DEF e
<1>5. CallOK(r)
  BY <1>1, <1>2, <1>4 DEF CallOK, Asking
<1>6. KeyOK(r) /\ TurnOK(c, r)'
  BY <1>1, <1>4 DEF KeyOK, TurnOK
<1>7. /\ now \in Nat /\ MinInterval \in Nat /\ now >= MinInterval
      /\ nextAt \in [Throttled -> Nat] /\ lastStart \in [Throttled -> Nat] /\ cooled \in [Throttled -> Nat]
      /\ \A f \in Throttled : (lastStart[f] = 0 \/ lastStart[f] + MinInterval <= nextAt[f]) /\ cooled[f] <= nextAt[f]
  BY DEF RouterInv, TimeInv, M!RouterAssumption
<1>8. nextAt'[e] = now + MinInterval /\ lastStart'[e] = now
      /\ \A f \in Throttled \ {e} : nextAt'[f] = nextAt[f] /\ lastStart'[f] = lastStart[f]
  BY <1>2, <1>3, <1>7
<1>9. now >= nextAt[e] /\ nextAt[e] \in Nat /\ cooled[e] \in Nat /\ lastStart[e] \in Nat
  BY <1>2, <1>3, <1>7
<1>10. now >= cooled[e] /\ now >= lastStart[e] + MinInterval
  BY <1>3, <1>7, <1>9
<1>11. TimeInv'
  <2>1. now + MinInterval \in Nat
    BY <1>7
  <2>2. nextAt' \in [Throttled -> Nat] /\ lastStart' \in [Throttled -> Nat]
    BY <1>2, <1>7, <2>1
  <2>3. cooled[e] <= nextAt'[e]
    BY <1>7, <1>8, <1>9, <1>10
  <2>4. ASSUME NEW f \in Throttled
        PROVE  (lastStart'[f] = 0 \/ lastStart'[f] + MinInterval <= nextAt'[f]) /\ cooled[f] <= nextAt'[f]
    <3>1. CASE f = e
      BY <1>7, <1>8, <2>3, <3>1
    <3>2. CASE f # e
      BY <1>7, <1>8, <3>2
    <3> QED
      BY <3>1, <3>2
  <2> QED
    BY <1>2, <1>7, <2>2, <2>4 DEF TimeInv
<1>12. Waiting(c) /\ lock' \in [Throttled -> Seq(Callers)]
  BY <1>2, <1>3, <1>8, QueueChanges
<1>13. RouterInv'
  BY <1>2, <1>4, <1>5, <1>6, <1>11, <1>12, QueueStep
<1>14. M!SpacedTurn
  BY <1>8, <1>10 DEF M!SpacedTurn
<1> QED
  BY <1>13, <1>14

LEMMA Larger ==
  ASSUME NEW a \in Nat, NEW b \in Nat
  PROVE  M!Max({a, b}) \in Nat /\ M!Max({a, b}) >= a /\ M!Max({a, b}) >= b
<1>1. \E x \in {a, b} : \A y \in {a, b} : x >= y
  <2>1. CASE a >= b
    BY <2>1
  <2>2. CASE ~(a >= b)
    BY <2>2
  <2> QED
    BY <2>1, <2>2
<1> QED
  BY <1>1 DEF M!Max

\* A cooldown only moves the next request further away.
LEMMA Cooled ==
  ASSUME M!RouterAssumption, RouterInv, NEW c \in Callers, M!Cool(c)
  PROVE  RouterInv'
<1> DEFINE e == Head(call[c].left)
           m == M!Max({nextAt[e], now + Cooldown})
<1>1. call[c] \in CallRec /\ CallOK(call[c]) /\ KeyOK(call[c]) /\ TurnOK(c, call[c]) /\ call[c].pc = "cooling"
  BY CallIs DEF M!Cool, M!Is
<1> PICK r \in CallRec : r = M!Over(c, "empty") /\ CallOK(r) /\ KeyOK(r)
  BY <1>1, OverOK
<1>2. e \in Throttled /\ c \in M!ToSet(lock[e])
  BY <1>1 DEF TurnOK
<1>3. lock \in [Throttled -> Seq(Callers)] /\ lock[e] # <<>>
  BY <1>2 DEF RouterInv, RouterTypes, M!ToSet
<1>4. /\ now \in Nat /\ Cooldown \in Nat /\ now >= MinInterval
      /\ nextAt \in [Throttled -> Nat] /\ lastStart \in [Throttled -> Nat] /\ cooled \in [Throttled -> Nat]
      /\ \A f \in Throttled : (lastStart[f] = 0 \/ lastStart[f] + MinInterval <= nextAt[f]) /\ cooled[f] <= nextAt[f]
      /\ MinInterval \in Nat
  BY DEF RouterInv, TimeInv, M!RouterAssumption
<1>5. /\ M!SetCall(c, r) /\ Head(lock[e]) = c
      /\ nextAt' = [nextAt EXCEPT ![e] = m] /\ cooled' = [cooled EXCEPT ![e] = now + Cooldown]
      /\ lock' = [lock EXCEPT ![e] = Tail(lock[e])] /\ UNCHANGED <<lastStart, keyIdx, now>>
  BY <1>2, <1>3, <1>4 DEF M!Cool, M!Ep, M!Holds
<1>6. nextAt[e] \in Nat /\ now + Cooldown \in Nat
  BY <1>2, <1>4
<1>7. m \in Nat /\ m >= nextAt[e] /\ m >= now + Cooldown
  BY <1>6, Larger
<1> HIDE DEF m, e
<1>8. nextAt'[e] = m /\ cooled'[e] = now + Cooldown
      /\ \A f \in Throttled \ {e} : nextAt'[f] = nextAt[f] /\ cooled'[f] = cooled[f]
  BY <1>2, <1>4, <1>5
<1>9. TimeInv'
  <2>1. nextAt' \in [Throttled -> Nat] /\ cooled' \in [Throttled -> Nat]
    BY <1>4, <1>5, <1>6, <1>7
  <2>2. ASSUME NEW f \in Throttled
        PROVE  (lastStart[f] = 0 \/ lastStart[f] + MinInterval <= nextAt'[f]) /\ cooled'[f] <= nextAt'[f]
    <3>1. CASE f = e
      <4>1. lastStart[e] \in Nat
        BY <1>2, <1>4
      <4> QED
        BY <1>2, <1>4, <1>6, <1>7, <1>8, <3>1, <4>1
    <3>2. CASE f # e
      BY <1>4, <1>8, <3>2
    <3> QED
      BY <3>1, <3>2
  <2> QED
    BY <1>4, <1>5, <2>1, <2>2 DEF TimeInv
<1>10. Waiting(c) /\ lock' \in [Throttled -> Seq(Callers)]
  BY <1>2, <1>3, <1>5, <1>8, QueueChanges
<1>11. TurnOK(c, r)'
  BY DEF TurnOK, M!Over
<1> QED
  BY <1>5, <1>9, <1>10, <1>11, QueueStep

LEMMA Cancelled ==
  ASSUME RouterInv, NEW c \in Callers, M!Cancel(c)
  PROVE  RouterInv'
<1>1. call[c].pc \notin {"idle", "done"}
  BY DEF M!Cancel
<1> PICK r \in CallRec : r = M!Over(c, "cancelled") /\ CallOK(r) /\ KeyOK(r)
  BY <1>1, OverOK
<1>2. M!SetCall(c, r) /\ lock' = [e \in Throttled |-> M!RemoveFirst(lock[e], c)]
      /\ UNCHANGED <<nextAt, lastStart, cooled, keyIdx, now>>
  BY DEF M!Cancel
<1>3. \A e \in Throttled : lock[e] \in Seq(Callers)
  BY DEF RouterInv, RouterTypes
<1>4. \A e \in Throttled : Leaves(lock'[e], lock[e], c)
  BY <1>2, <1>3, QueueLeft
<1>5. lock' \in [Throttled -> Seq(Callers)] /\ Waiting(c)
  BY <1>2, <1>4 DEF Leaves, Waiting
<1>6. TimeInv'
  BY <1>2 DEF RouterInv, TimeInv
<1>7. TurnOK(c, r)'
  BY DEF TurnOK, M!Over
<1> QED
  BY <1>2, <1>5, <1>6, <1>7, QueueStep

LEMMA TimePasses ==
  ASSUME M!RouterAssumption, RouterInv, M!Tick
  PROVE  RouterInv'
<1>1. /\ UNCHANGED <<call, lock, nextAt, lastStart, cooled, keyIdx>> /\ now \in Nat /\ now' = now + 1
      /\ MinInterval \in Nat /\ now >= MinInterval
  BY DEF M!Tick, RouterInv, TimeInv, M!RouterAssumption
<1>2. now' \in Nat /\ now' >= MinInterval
  BY <1>1
<1>3. TimeInv'
  BY <1>1, <1>2 DEF RouterInv, TimeInv
<1> QED
  BY <1>1, <1>3 DEF RouterInv, RouterTypes, CallOK, KeyOK, TurnOK, Window

-----------------------------------------------------------------------------
(* ModelRouter: the keys of an embedding.                                   *)

\* One more key, as long as it had less than all.
LEMMA KeyAdded ==
  ASSUME M!RouterAssumption, keyIdx \in 0 .. (Keys - 1), NEW ks, NEW n \in Nat, Window(ks, n),
         NEW both, both = ks \cup {keyIdx}, keyIdx' = (keyIdx + 1) % Keys
  PROVE  keyIdx' \in 0 .. (Keys - 1) /\ Window(both, n + 1)'
<1>1. Keys \in Nat /\ Keys >= 1 /\ keyIdx \in Nat /\ keyIdx < Keys
  BY DEF M!RouterAssumption
<1>2. keyIdx' = IF keyIdx + 1 = Keys THEN 0 ELSE keyIdx + 1
  <2>1. CASE keyIdx + 1 = Keys
    BY <1>1, <2>1
  <2>2. CASE keyIdx + 1 # Keys
    BY <1>1, <2>2
  <2> QED
    BY <2>1, <2>2
<1>3. keyIdx' \in 0 .. (Keys - 1)
  BY <1>1, <1>2
<1>4. ks = {k \in 0 .. (Keys - 1) : \/ k < keyIdx /\ k >= keyIdx - n
                                    \/ k >= keyIdx /\ k - Keys >= keyIdx - n}
      /\ Cardinality(ks) = IF n < Keys THEN n ELSE Keys
  BY DEF Window
<1>5. IsFiniteSet(ks)
  <2>1. IsFiniteSet(0 .. (Keys - 1)) /\ ks \subseteq 0 .. (Keys - 1)
    BY <1>1, <1>4, FS_Interval
  <2> QED
    BY <2>1, FS_Subset
<1>6. keyIdx \in ks <=> n >= Keys
  BY <1>1, <1>4
<1>7. Cardinality(ks \cup {keyIdx}) = IF n + 1 < Keys THEN n + 1 ELSE Keys
  <2>1. CASE n >= Keys
    <3>1. ks \cup {keyIdx} = ks /\ ~(n < Keys) /\ ~(n + 1 < Keys)
      BY <1>1, <1>6, <2>1
    <3> QED
      BY <1>4, <3>1
  <2>2. CASE ~(n >= Keys)
    <3>1. Cardinality(ks \cup {keyIdx}) = Cardinality(ks) + 1
      BY <1>5, <1>6, <2>2, FS_AddElement
    <3> QED
      BY <1>1, <1>4, <2>2, <3>1
  <2> QED
    BY <2>1, <2>2
<1>8. ASSUME NEW k \in 0 .. (Keys - 1)
      PROVE  k \in ks \cup {keyIdx} <=> \/ k < keyIdx' /\ k >= keyIdx' - (n + 1)
                                        \/ k >= keyIdx' /\ k - Keys >= keyIdx' - (n + 1)
  <2>1. CASE keyIdx + 1 = Keys
    BY <1>1, <1>2, <1>4, <2>1
  <2>2. CASE keyIdx + 1 # Keys
    BY <1>1, <1>2, <1>4, <2>2
  <2> QED
    BY <2>1, <2>2
<1>9. ks \cup {keyIdx} \subseteq 0 .. (Keys - 1)
  BY <1>1, <1>4
<1>10. both = {k \in 0 .. (Keys - 1) : \/ k < keyIdx' /\ k >= keyIdx' - (n + 1)
                                       \/ k >= keyIdx' /\ k - Keys >= keyIdx' - (n + 1)}
  BY <1>8, <1>9
<1> QED
  BY <1>3, <1>7, <1>10 DEF Window

LEMMA KeyTaken ==
  ASSUME M!RouterAssumption, RouterInv, NEW c \in Callers, M!NextKey(c)
  PROVE  RouterInv'
<1>1. call[c] \in CallRec /\ CallOK(call[c]) /\ KeyOK(call[c]) /\ call[c].pc = "key"
  BY CallIs DEF M!NextKey, M!Is
<1>2. keyIdx \in 0 .. (Keys - 1) /\ keyIdx' = (keyIdx + 1) % Keys /\ UNCHANGED <<lock, nextAt, lastStart, cooled, now>>
  BY DEF M!NextKey, RouterInv, RouterTypes
<1>3. keyIdx' \in 0 .. (Keys - 1)
  BY <1>2 DEF M!RouterAssumption
<1> PICK ks \in SUBSET (0 .. (Keys - 1)) : ks = call[c].keys \cup {keyIdx}
  BY <1>1, <1>2 DEF CallRec
<1> PICK r \in CallRec : r = [call[c] EXCEPT !.pc = "embedding", !.keys = ks]
  BY <1>1 DEF CallRec, Asking
<1>4. /\ r.pc = "embedding" /\ r.outcome = call[c].outcome /\ r.walks = call[c].walks /\ r.left = call[c].left
      /\ r.failed = call[c].failed /\ r.from = call[c].from /\ r.try = call[c].try /\ r.keys = ks /\ r.met = call[c].met
  BY <1>1 DEF CallRec
<1>5. call'[c] = r
  BY <1>1 DEF M!NextKey, CallRec
<1>6. CallOK(r)
  BY <1>1, <1>4 DEF CallOK, Asking
<1>7. KeyOK(r)'
  <2>1. call[c].try \in Nat /\ call[c].try >= 1 /\ call[c].try - 1 \in Nat /\ (call[c].try - 1) + 1 = call[c].try
    BY <1>1 DEF CallRec, KeyOK
  <2>2. ASSUME ~r.met PROVE Window(ks, r.try)'
    <3> DEFINE old == call[c].keys
    <3> PICK n \in Nat : n = call[c].try - 1
      BY <2>1
    <3>1. Window(old, n)
      BY <1>1, <1>4, <2>2 DEF KeyOK
    <3>2. ks = old \cup {keyIdx}
      OBVIOUS
    <3> HIDE DEF old
    <3>3. Window(ks, n + 1)'
      BY <1>2, <3>1, <3>2, KeyAdded
    <3>4. n + 1 = r.try
      BY <1>4, <2>1
    <3> QED
      BY <3>3, <3>4
  <2> QED
    BY <1>4, <2>1, <2>2 DEF KeyOK
<1>8. ASSUME NEW d \in Callers \ {c}
      PROVE  call'[d] \in CallRec /\ (CallOK(call[d]) /\ KeyOK(call[d]) /\ TurnOK(d, call[d]))'
  <2> PICK x \in CallRec : x = call'[d] /\ CallOK(x) /\ TurnOK(d, x) /\ x.try >= 1
                           /\ (x.pc \in {"key", "embedding"} => x.met)
    <3>1. call[d] \in CallRec /\ CallOK(call[d]) /\ KeyOK(call[d]) /\ TurnOK(d, call[d])
      BY CallIs
    <3>2. CASE call[d].pc \in {"key", "embedding"}
      <4> DEFINE y == [call[d] EXCEPT !.met = TRUE]
      <4>1. call'[d] = y
        BY <3>2 DEF M!NextKey
      <4>2. /\ y \in CallRec /\ y.pc = call[d].pc /\ y.outcome = call[d].outcome /\ y.walks = call[d].walks
            /\ y.left = call[d].left /\ y.failed = call[d].failed /\ y.from = call[d].from /\ y.try = call[d].try /\ y.met
        BY <3>1 DEF CallRec
      <4> HIDE DEF y
      <4>3. CallOK(y) /\ TurnOK(d, y) /\ y.try >= 1
        BY <3>1, <3>2, <4>2 DEF CallOK, TurnOK, KeyOK
      <4> QED
        BY <4>1, <4>2, <4>3
    <3>3. CASE call[d].pc \notin {"key", "embedding"}
      <4>1. call'[d] = call[d]
        BY <3>3 DEF M!NextKey
      <4> QED
        BY <3>1, <3>3, <4>1 DEF KeyOK
    <3> QED
      BY <3>2, <3>3
  <2>1. CallOK(x) /\ KeyOK(x)' /\ TurnOK(d, x)'
    BY <1>2 DEF KeyOK, TurnOK
  <2> QED
    BY <2>1 DEF CallOK, KeyOK, TurnOK
<1>9. TurnOK(c, r)'
  BY <1>4 DEF TurnOK
<1>10. ASSUME NEW d \in Callers PROVE (CallOK(call[d]) /\ KeyOK(call[d]) /\ TurnOK(d, call[d]))'
  <2>1. CASE d = c
    BY <1>5, <1>6, <1>7, <1>9, <2>1 DEF CallOK, KeyOK, TurnOK
  <2>2. CASE d # c
    BY <1>8, <2>2
  <2> QED
    BY <2>1, <2>2
<1>11. call' \in [Callers -> CallRec]
  <2>1. call' = [d \in Callers |-> call'[d]]
    BY DEF M!NextKey
  <2>2. \A d \in Callers : call'[d] \in CallRec
    BY <1>5, <1>8
  <2> QED
    BY <2>1, <2>2
<1>12. RouterTypes' /\ TimeInv'
  BY <1>2, <1>3, <1>11 DEF RouterInv, RouterTypes, TimeInv
<1> QED
  BY <1>10, <1>12 DEF RouterInv

LEMMA Embeds ==
  ASSUME M!RouterAssumption, RouterInv, NEW c \in Callers, M!Embed(c) \/ M!Embedded(c)
  PROVE  RouterInv'
<1>1. call[c] \in CallRec /\ CallOK(call[c]) /\ KeyOK(call[c]) /\ TurnOK(c, call[c])
  BY CallIs
<1>2. Inert
  BY DEF M!Embed, M!Embedded, Inert
<1>3. CASE M!Embed(c)
  <2> DEFINE r == [M!NoCall EXCEPT !.pc = "key"]
  <2>1. M!SetCall(c, r)
    BY <1>3 DEF M!Embed
  <2>2. <<>> \in Lists /\ M!ToSet(<<>>) = {}
    BY DEF Lists, NoTwice, M!ToSet
  <2>3. /\ r \in CallRec /\ r.pc = "key" /\ r.outcome = "none" /\ ~r.walks /\ r.left = <<>> /\ r.failed = {}
        /\ r.from = {} /\ r.try = 1 /\ r.keys = {}
    BY <2>2 DEF M!NoCall, CallRec, Asking
  <2> HIDE DEF r
  <2>4. Window({}, 0)
    <3>1. keyIdx \in 0 .. (Keys - 1) /\ Keys \in Nat /\ Keys >= 1
      BY DEF RouterInv, RouterTypes, M!RouterAssumption
    <3> QED
      BY <3>1, FS_EmptySet DEF Window
  <2>5. CallOK(r) /\ TurnOK(c, r)
    BY <2>2, <2>3 DEF CallOK, TurnOK, Asking
  <2>6. KeyOK(r)
    BY <2>3, <2>4 DEF KeyOK
  <2> QED
    BY <1>2, <2>1, <2>3, <2>5, <2>6, OwnStep
<1>4. ASSUME M!SetCall(c, M!Over(c, "vector")), call[c].pc = "embedding" PROVE RouterInv'
  <2> PICK r \in CallRec : r = M!Over(c, "vector") /\ CallOK(r) /\ KeyOK(r) /\ TurnOK(c, r)
    BY <1>4, OverOK
  <2> QED
    BY <1>2, <1>4, OwnStep
<1>5. ASSUME M!SetCall(c, M!Over(c, "error")), call[c].pc = "embedding" PROVE RouterInv'
  <2> DEFINE r == M!Over(c, "error")
  <2>1. /\ r \in CallRec /\ r.pc = "done" /\ r.outcome = "error" /\ r.walks = call[c].walks /\ r.left = call[c].left
        /\ r.from = call[c].from /\ r.try = call[c].try
    BY <1>1 DEF M!Over, CallRec
  <2>2. M!SetCall(c, r)
    BY <1>5
  <2> HIDE DEF r
  <2>3. ~r.walks
    BY <1>1, <1>5, <2>1 DEF CallOK
  <2>4. CallOK(r)
    BY <1>1, <2>1, <2>3 DEF CallOK, Asking
  <2>5. KeyOK(r) /\ TurnOK(c, r)
    BY <1>1, <2>1 DEF KeyOK, TurnOK
  <2> QED
    BY <1>2, <2>1, <2>2, <2>4, <2>5, OwnStep
<1>6. ASSUME M!SetCall(c, [call[c] EXCEPT !.pc = "key", !.try = @ + 1]), call[c].pc = "embedding" PROVE RouterInv'
  <2> DEFINE r == [call[c] EXCEPT !.pc = "key", !.try = @ + 1]
  <2>1. call[c].try \in Nat /\ call[c].try + 1 \in Nat /\ (call[c].try + 1) - 1 = call[c].try
    BY <1>1 DEF CallRec
  <2>2. /\ r \in CallRec /\ r.pc = "key" /\ r.outcome = call[c].outcome /\ r.walks = call[c].walks
        /\ r.left = call[c].left /\ r.failed = call[c].failed /\ r.from = call[c].from
        /\ r.try = call[c].try + 1 /\ r.keys = call[c].keys /\ r.met = call[c].met
    BY <1>1, <2>1 DEF CallRec, Asking
  <2>3. M!SetCall(c, r)
    BY <1>6
  <2> HIDE DEF r
  <2>4. CallOK(r)
    BY <1>1, <1>6, <2>2 DEF CallOK, Asking
  <2>5. TurnOK(c, r)
    BY <2>2 DEF TurnOK
  <2>6. KeyOK(r)
    <3>1. ~r.met => Window(r.keys, call[c].try)
      BY <1>1, <1>6, <2>2 DEF KeyOK
    <3>2. r.try >= 1 /\ r.try - 1 = call[c].try
      BY <2>1, <2>2
    <3> QED
      BY <2>2, <3>1, <3>2 DEF KeyOK
  <2> QED
    BY <1>2, <2>2, <2>3, <2>4, <2>5, <2>6, OwnStep
<1>7. CASE M!Embedded(c)
  BY <1>4, <1>5, <1>6, <1>7 DEF M!Embedded, M!Is
<1> QED
  BY <1>3, <1>7

LEMMA RouterHolds == ASSUME M!RouterAssumption, RouterInv PROVE M!FallbackSound /\ M!KeysRotate
<1>1. M!FallbackSound
  <2> SUFFICES ASSUME NEW c \in Callers
               PROVE  /\ call[c].from # {} => call[c].from = {M!Ep(c)}
                      /\ call[c].outcome = "error" /\ call[c].walks => ChatSet \subseteq call[c].failed
                      /\ call[c].left # <<>> /\ call[c].outcome # "error" =>
                           M!ToSet(call[c].left) \cap call[c].failed = {}
    BY DEF M!FallbackSound, ChatSet
  <2> QED
    BY CallIs DEF CallOK, M!Ep
<1>2. ASSUME NEW c \in Callers, ~call[c].met, call[c].pc = "embedding"
      PROVE  Cardinality(call[c].keys) = M!Min({call[c].try, Keys})
  <2> DEFINE n == call[c].try
  <2>1. n \in Nat /\ Window(call[c].keys, n) /\ Keys \in Nat
    BY <1>2, CallIs DEF CallRec, KeyOK, M!RouterAssumption
  <2>2. Cardinality(call[c].keys) = IF n < Keys THEN n ELSE Keys
    BY <2>1 DEF Window
  <2> HIDE DEF n
  <2>3. M!Min({n, Keys}) = IF n < Keys THEN n ELSE Keys
    <3>1. CASE n < Keys
      <4>1. \A x \in {n, Keys} : (\A y \in {n, Keys} : x <= y) <=> x = n
        BY <2>1, <3>1
      <4> QED
        BY <3>1, <4>1 DEF M!Min
    <3>2. CASE ~(n < Keys)
      <4>1. \A x \in {n, Keys} : (\A y \in {n, Keys} : x <= y) <=> x = Keys
        BY <2>1, <3>2
      <4> QED
        BY <3>2, <4>1 DEF M!Min
    <3> QED
      BY <3>1, <3>2
  <2> QED
    BY <2>2, <2>3 DEF n
<1>3. M!KeysRotate
  BY <1>2 DEF M!KeysRotate, M!Cardinality, Cardinality
<1> QED
  BY <1>1, <1>3

LEMMA RouterStep ==
  ASSUME M!RouterAssumption, RouterInv, M!RouterNext
  PROVE  RouterInv' /\ M!SpacedTurn
<1>1. CASE M!Tick
  BY <1>1, TimePasses DEF M!Tick, M!SpacedTurn
<1>2. ASSUME NEW c \in Callers, M!StartRequest(c) PROVE RouterInv' /\ M!SpacedTurn
  BY <1>2, RequestGoes
<1>3. ASSUME NEW c \in Callers,
             \/ M!RunTextPrompt(c) \/ M!StreamTextPrompt(c) \/ M!AskTiers(c) \/ M!Generate(c)
             \/ M!Embed(c) \/ M!NextKey(c) \/ M!Embedded(c)
             \/ M!AskTurn(c) \/ M!AskAtOnce(c) \/ M!TakeTurn(c) \/ M!Chunk(c) \/ M!Answer(c)
             \/ M!AskCooldown(c) \/ M!Cool(c) \/ M!TransientError(c) \/ M!ErrorIn(c) \/ M!Cancel(c)
      PROVE  RouterInv' /\ UNCHANGED lastStart
  <2>1. RouterInv'
    BY <1>3, CallBegins, Embeds, KeyTaken, Queues, AskOrSleep, Answered, Cooled, Failed, Cancelled
  <2>2. UNCHANGED lastStart
    BY <1>3 DEF M!RunTextPrompt, M!StreamTextPrompt, M!AskTiers, M!Generate, M!Start, M!Embed, M!NextKey,
         M!Embedded, M!AskTurn, M!AskAtOnce, M!TakeTurn, M!Chunk, M!Answer, M!AskCooldown, M!Cool,
         M!TransientError, M!ErrorIn, M!Cancel
  <2> QED
    BY <2>1, <2>2
<1>4. UNCHANGED lastStart => M!SpacedTurn
  BY DEF M!SpacedTurn
<1> QED
  BY <1>1, <1>2, <1>3, <1>4 DEF M!RouterNext

LEMMA RouterRests == ASSUME RouterInv, UNCHANGED routerVars PROVE RouterInv'
BY DEF routerVars, RouterInv, RouterTypes, TimeInv, CallOK, KeyOK, TurnOK, Window

\* Whatever the endpoints, their tiers and the order they were loaded in, the
\* callers, the keys and the times: what a consumer is handed comes from one
\* endpoint, a call that walks on reports failure only after every endpoint for
\* chat has failed and asks none twice, requests to one endpoint start
\* MinInterval apart and after its cooldown, and an embedding left to itself
\* goes round all keys (model_router.py, llm_retry.py).
THEOREM RouterIsSound == ServicesSpec => RouterSound
<1> DEFINE Inv == focus = "router" => RouterInv
           Good == focus = "router" => M!FallbackSound /\ M!KeysRotate
           Vars == <<focus, chapterVars, revisionVars, routerVars, decompileVars,
                     timelineVars, foreshadowVars, usageVars, plannerVars, outlinesVars>>
<1>1. M!RouterAssumption
  BY ServicesAssumption DEF ServicesAssumption
<1>2. ServicesInit => Inv
  BY <1>1, RouterStarts DEF ServicesInit, InitM
<1>3. ASSUME Inv, [ServicesNext]_Vars
      PROVE  Inv'
  <2>1. CASE focus = "router" /\ M!RouterNext
    BY <1>1, <1>3, <2>1, RouterStep DEF ServicesNext, OthersRest
  <2>2. CASE UNCHANGED focus /\ UNCHANGED routerVars
    BY <1>3, <2>2, RouterRests
  <2> QED
    BY <1>3, <2>1, <2>2 DEF ServicesNext, OthersRest
<1>4. Inv => Good
  BY <1>1, RouterHolds
<1>5. ASSUME Inv, Good', [ServicesNext]_Vars
      PROVE  [focus = "router" => M!FallbackSound' /\ M!KeysRotate' /\ M!SpacedTurn]_routerVars
  <2>1. CASE focus = "router" /\ M!RouterNext /\ UNCHANGED focus
    BY <1>1, <1>5, <2>1, RouterStep
  <2>2. CASE UNCHANGED routerVars
    BY <2>2
  <2> QED
    BY <1>5, <2>1, <2>2 DEF ServicesNext, OthersRest
<1> QED
  BY <1>2, <1>3, <1>4, <1>5, PTL DEF ServicesSpec, RouterSound
=============================================================================
