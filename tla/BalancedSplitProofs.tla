------------------------ MODULE BalancedSplitProofs -------------------------
(***************************************************************************)
(* Theorems about BalancedSplit, for any tabs, however deep, and any       *)
(* number of plans and closes: the panes of a tab make a tree of cuts,     *)
(* stay usable and tile the tab, and the dispatcher is cut last.           *)
(***************************************************************************)
EXTENDS BalancedSplit, FiniteSetTheorems, SequenceTheorems, WellFoundedInduction, TLAPS

-----------------------------------------------------------------------------
(* Paths, and the rectangle of each. *)

LEMMA LeastNatural ==
    ASSUME NEW S \in SUBSET Nat, S # {}
    PROVE  Min(S) \in S /\ \A y \in S : Min(S) <= y
<1>. DEFINE R == StrictSubsetOrdering(Nat)
            T == {0..x : x \in S}
<1>1. T \subseteq FiniteSubsetsOf(Nat)
  <2>1. \A x \in S : IsFiniteSet(0..x) /\ 0..x \subseteq Nat  BY FS_Interval
  <2>. QED  BY <2>1 DEF FiniteSubsetsOf
<1>2. IsWellFoundedOn(R, FiniteSubsetsOf(Nat))  BY FS_StrictSubsetOrderingWellFounded
<1>3. T # {}  OBVIOUS
<1>. HIDE DEF R, T
<1>4. PICK t \in T : \A u \in T : <<u, t>> \notin R  BY <1>1, <1>2, <1>3, WFMin
<1>5. PICK x \in S : t = 0..x  BY DEF T
<1>6. ASSUME NEW y \in S PROVE x <= y
  <2>1. 0..y \in T  BY DEF T
  <2>2. <<0..y, 0..x>> \notin R  BY <1>4, <1>5, <2>1
  <2>3. SUFFICES ASSUME y < x PROVE FALSE  OBVIOUS
  <2>4. 0..y \subseteq 0..x /\ 0..y # 0..x /\ 0..x \subseteq Nat  BY <2>3
  <2>. QED  BY <2>2, <2>4 DEF R, StrictSubsetOrdering
<1>. QED  BY <1>6 DEF Min

Path == Seq(BOOLEAN)

\* Induction over paths, for a set of them.
LEMMA PathInduction ==
    ASSUME NEW S, << >> \in S, \A p \in Path \cap S, b \in BOOLEAN : Append(p, b) \in S
    PROVE  Path \subseteq S
<1>. SUFFICES ASSUME NEW q \in Path, q \notin S PROVE FALSE
  OBVIOUS
<1>1. PICK B : B = {Len(p) : p \in Path \ S}  OBVIOUS
<1>2. B \in SUBSET Nat /\ B # {}  BY <1>1 DEF Path
<1>3. PICK p \in Path : p \notin S /\ \A r \in Path : r \notin S => Len(p) <= Len(r)
  <2>1. PICK n \in B : \A m \in B : n <= m  BY <1>2, LeastNatural
  <2>. QED  BY <1>1, <2>1
<1>4. PICK r \in Path, b \in BOOLEAN : p = Append(r, b)  BY <1>3, SequenceEmptyOrAppend DEF Path
<1>5. Len(p) = Len(r) + 1 /\ Len(r) \in Nat  BY <1>4, AppendProperties DEF Path
<1>6. r \in S  BY <1>3, <1>5
<1>. QED  BY <1>3, <1>4, <1>6

\* What Rect computes along a path.
Rects(t, f, p) ==
    f = [k \in 0..Len(p) |->
            IF k = 0 THEN t.frame ELSE Half(f[k - 1], t.cuts[SubSeq(p, 1, k - 1)], p[k])]

LEMMA AppendPath ==
    ASSUME NEW p \in Path, NEW b \in BOOLEAN
    PROVE  /\ Append(p, b) \in Path /\ Len(Append(p, b)) = Len(p) + 1 /\ Len(p) \in Nat
           /\ \A i \in 1..Len(p) : Append(p, b)[i] = p[i]
           /\ Append(p, b)[Len(p) + 1] = b /\ Append(p, b) # << >>
           /\ \A k \in 0..Len(p) : SubSeq(Append(p, b), 1, k) = SubSeq(p, 1, k)
           /\ SubSeq(p, 1, Len(p)) = p /\ SubSeq(Append(p, b), 1, Len(p)) = p
           /\ Front(Append(p, b)) = p /\ Last(Append(p, b)) = b
<1>1. PICK q : q = Append(p, b)  OBVIOUS
<1>2. /\ q \in Path /\ Len(q) = Len(p) + 1 /\ Len(p) \in Nat /\ q # << >>
      /\ \A i \in 1..Len(p) : q[i] = p[i]
      /\ q[Len(p) + 1] = b
  BY <1>1, AppendProperties, LenProperties DEF Path
<1>3. ASSUME NEW k \in 0..Len(p) PROVE SubSeq(q, 1, k) = SubSeq(p, 1, k)
  <2>1. \A i \in 1..k : q[i] \in BOOLEAN /\ p[i] \in BOOLEAN /\ q[i] = p[i]
    BY <1>2 DEF Path
  <2>2. /\ SubSeq(q, 1, k) \in Path /\ SubSeq(p, 1, k) \in Path
        /\ Len(SubSeq(q, 1, k)) = k /\ Len(SubSeq(p, 1, k)) = k
        /\ \A i \in 1..k : SubSeq(q, 1, k)[i] = q[i] /\ SubSeq(p, 1, k)[i] = p[i]
    BY <1>2, <2>1, SubSeqProperties DEF Path
  <2>. QED  BY <2>1, <2>2, SeqEqual DEF Path
<1>4. SubSeq(p, 1, Len(p)) = p  BY SubSeqFull DEF Path
<1>5. SubSeq(q, 1, Len(p)) = p  BY <1>2, <1>3, <1>4
<1>6. Front(q) = p /\ Last(q) = b  BY <1>2, <1>5 DEF Front, Last
<1>. QED  BY <1>1, <1>2, <1>3, <1>4, <1>5, <1>6

LEMMA OneRects ==
    ASSUME NEW t, NEW p \in Path, NEW f, NEW g, Rects(t, f, p), Rects(t, g, p)
    PROVE  f = g
<1>1. Len(p) \in Nat  BY DEF Path
<1>2. DOMAIN f = 0..Len(p) /\ DOMAIN g = 0..Len(p)  BY DEF Rects
<1>3. f = [k \in 0..Len(p) |-> f[k]] /\ g = [k \in 0..Len(p) |-> g[k]]  BY DEF Rects
<1>4. SUFFICES ASSUME NEW k \in 0..Len(p), f[k] # g[k] PROVE FALSE
  BY <1>3
<1>5. PICK B : B = {n \in 0..Len(p) : f[n] # g[n]}  OBVIOUS
<1>6. PICK n \in 0..Len(p) : f[n] # g[n] /\ \A m \in 0..Len(p) : f[m] # g[m] => n <= m
  <2>1. B \in SUBSET Nat /\ B # {}  BY <1>1, <1>4, <1>5
  <2>. QED  BY <1>5, <2>1, LeastNatural
<1>7. n # 0  BY <1>1, <1>6 DEF Rects
<1>8. n - 1 \in 0..Len(p) /\ f[n - 1] = g[n - 1]  BY <1>1, <1>6, <1>7
<1>. QED  BY <1>6, <1>7, <1>8 DEF Rects

LEMMA RectOf ==
    ASSUME NEW t, NEW p \in Path, NEW f, Rects(t, f, p)
    PROVE  Rect(t, p) = f[Len(p)]
<1>1. PICK g : g = CHOOSE rect : Rects(t, rect, p)  OBVIOUS
<1>2. Rects(t, g, p)  BY <1>1
<1>3. g = f  BY <1>2, OneRects
<1>4. Rect(t, p) = g[Len(p)]  BY <1>1 DEF Rect, Rects
<1>. QED  BY <1>3, <1>4

LEMMA RectsExtend ==
    ASSUME NEW t, NEW p \in Path, NEW b \in BOOLEAN, NEW f, Rects(t, f, p)
    PROVE  LET n == Len(p) + 1
               g == [k \in 0..n |-> IF k = n THEN Half(f[Len(p)], t.cuts[p], b) ELSE f[k]]
           IN Rects(t, g, Append(p, b))
<1>1. PICK n \in Nat : n = Len(p) + 1  BY AppendPath
<1>2. PICK q : q = Append(p, b)  OBVIOUS
<1>3. PICK last : last = Half(f[Len(p)], t.cuts[p], b)  OBVIOUS
<1>4. PICK g : g = [k \in 0..n |-> IF k = n THEN last ELSE f[k]]  OBVIOUS
<1>5. /\ Len(q) = n /\ Len(p) \in Nat /\ q[n] = b /\ SubSeq(q, 1, n - 1) = p
      /\ \A k \in 1..Len(p) : q[k] = p[k] /\ SubSeq(q, 1, k - 1) = SubSeq(p, 1, k - 1)
  <2>1. \A k \in 1..Len(p) : k - 1 \in 0..Len(p)  BY AppendPath
  <2>. QED  BY <1>1, <1>2, <2>1, AppendPath
<1>6. ASSUME NEW k \in 0..n
      PROVE  g[k] = IF k = 0 THEN t.frame ELSE Half(g[k - 1], t.cuts[SubSeq(q, 1, k - 1)], q[k])
  <2>1. CASE k = n
    <3>1. Len(p) \in Nat /\ n = Len(p) + 1  BY <1>1, <1>5
    <3>2. k - 1 = Len(p) /\ k - 1 \in 0..n /\ k - 1 # n /\ k # 0  BY <2>1, <3>1
    <3>3. g[k] = last /\ g[k - 1] = f[Len(p)]  BY <1>4, <2>1, <3>2
    <3>. QED  BY <1>3, <1>5, <2>1, <3>2, <3>3
  <2>2. CASE k = 0
    <3>1. f[0] = t.frame  BY <1>5 DEF Rects
    <3>. QED  BY <1>1, <1>4, <1>5, <2>2, <3>1
  <2>3. CASE k # 0 /\ k # n
    <3>1. k \in 1..Len(p) /\ k \in 0..Len(p) /\ g[k] = f[k] /\ g[k - 1] = f[k - 1]  BY <1>1, <1>4, <1>5, <2>3
    <3>2. f[k] = Half(f[k - 1], t.cuts[SubSeq(p, 1, k - 1)], p[k])  BY <2>3, <3>1 DEF Rects
    <3>. QED  BY <1>5, <2>3, <3>1, <3>2
  <2>. QED  BY <2>1, <2>2, <2>3
<1>7. Rects(t, g, q)  BY <1>4, <1>5, <1>6 DEF Rects
<1>. QED  BY <1>1, <1>2, <1>3, <1>4, <1>7

\* Rect follows its recursion, on every path.
LEMMA RectStep ==
    ASSUME NEW t
    PROVE  /\ Rect(t, << >>) = t.frame
           /\ \A p \in Path, b \in BOOLEAN : Rect(t, Append(p, b)) = Half(Rect(t, p), t.cuts[p], b)
<1>1. PICK S : S = {p \in Path : \E f : Rects(t, f, p)}  OBVIOUS
<1>2. Rects(t, [k \in 0..0 |-> t.frame], << >>)
  <2>1. Len(<< >>) = 0 /\ \A k \in 0..0 : k = 0  OBVIOUS
  <2>. QED  BY <2>1 DEF Rects
<1>3. << >> \in Path  BY EmptySeq DEF Path
<1>4. Path \subseteq S
  <2>1. << >> \in S  BY <1>1, <1>2, <1>3
  <2>2. \A p \in Path \cap S, b \in BOOLEAN : Append(p, b) \in S
    BY <1>1, RectsExtend, AppendPath
  <2>. QED  BY <2>1, <2>2, PathInduction
<1>5. Rect(t, << >>) = t.frame  BY <1>2, <1>3, RectOf
<1>6. ASSUME NEW p \in Path, NEW b \in BOOLEAN
      PROVE  Rect(t, Append(p, b)) = Half(Rect(t, p), t.cuts[p], b)
  <2>1. PICK f : Rects(t, f, p)  BY <1>1, <1>4
  <2>2. PICK n \in Nat : n = Len(p) + 1  BY AppendPath
  <2>3. PICK last : last = Half(f[Len(p)], t.cuts[p], b)  OBVIOUS
  <2>4. PICK g : g = [k \in 0..n |-> IF k = n THEN last ELSE f[k]]  OBVIOUS
  <2>5. Rects(t, g, Append(p, b))  BY <2>1, <2>2, <2>3, <2>4, RectsExtend
  <2>6. Rect(t, Append(p, b)) = g[n]
    <3>1. Append(p, b) \in Path /\ Len(Append(p, b)) = n  BY <2>2, AppendPath
    <3>2. Rect(t, Append(p, b)) = g[Len(Append(p, b))]  BY <2>5, <3>1, RectOf
    <3>. QED  BY <3>1, <3>2
  <2>7. Rect(t, p) = f[Len(p)]  BY <2>1, RectOf
  <2>8. g[n] = last  BY <2>4
  <2>. QED  BY <2>3, <2>6, <2>7, <2>8
<1>. QED  BY <1>5, <1>6

-----------------------------------------------------------------------------
(* The nodes of a tree. *)

LEMMA TreeFacts ==
    ASSUME NEW t, Tree(t)
    PROVE  /\ Nodes(t) \subseteq Path /\ << >> \in Nodes(t)
           /\ \A l \in t.leaves : l.path \in Path /\ l.path \in Nodes(t) \ Cuts(t) /\ l.id \in Nat
           /\ \A p \in Cuts(t) : p \in Nodes(t) /\ t.cuts[p] \in {"vertical", "horizontal"}
           /\ \A p \in Nodes(t) : p \in Cuts(t) \/ \E l \in t.leaves : l.path = p
           /\ \A p \in Cuts(t), b \in BOOLEAN : Append(p, b) \in Nodes(t)
           /\ \A p \in Path, b \in BOOLEAN : Append(p, b) \in Nodes(t) => p \in Cuts(t)
<1>1. \A l \in t.leaves : l.path \in Path /\ l.id \in Nat  BY DEF Tree, Path
<1>2. \A p \in Path, b \in BOOLEAN : Append(p, b) \in Nodes(t) => p \in Cuts(t)
  <2>. SUFFICES ASSUME NEW p \in Path, NEW b \in BOOLEAN, Append(p, b) \in Nodes(t) PROVE p \in Cuts(t)
    OBVIOUS
  <2>1. \A q \in Nodes(t) \ {<< >>} : Front(q) \in Cuts(t)  BY DEF Tree
  <2>2. Front(Append(p, b)) = p /\ Append(p, b) # << >>  BY AppendPath
  <2>. QED  BY <2>1, <2>2
<1>3. Nodes(t) \subseteq Path /\ << >> \in Nodes(t)  BY <1>1 DEF Tree, Nodes, Path
<1>. QED  BY <1>1, <1>2, <1>3 DEF Tree, Nodes

\* Induction over the nodes of a tree.
LEMMA NodeInduction ==
    ASSUME NEW t, Tree(t), NEW S, << >> \in S,
           \A p \in Cuts(t) \cap S, b \in BOOLEAN : Append(p, b) \in Nodes(t) => Append(p, b) \in S
    PROVE  Nodes(t) \subseteq S
<1>1. PICK T : T = {p \in Path : p \in Nodes(t) => p \in S}  OBVIOUS
<1>2. << >> \in T  BY <1>1, EmptySeq DEF Path
<1>3. \A p \in Path \cap T, b \in BOOLEAN : Append(p, b) \in T
  BY <1>1, AppendPath, TreeFacts
<1>4. Path \subseteq T  BY <1>2, <1>3, PathInduction
<1>. QED  BY <1>1, <1>4, TreeFacts

Frames == [x : Nat, y : Nat, w : Nat, h : Nat]
Inside(r, s) ==
    /\ s.x <= r.x /\ r.x + r.w <= s.x + s.w
    /\ s.y <= r.y /\ r.y + r.h <= s.y + s.h
Larger(r, s) == r.w >= s.w /\ r.h >= s.h

LEMMA Halves ==
    ASSUME NEW r \in Frames, NEW d \in {"vertical", "horizontal"}, NEW b \in BOOLEAN
    PROVE  /\ Half(r, d, b) \in Frames /\ Inside(Half(r, d, b), r)
           /\ Half(r, d, b).w >= (IF d = "vertical" THEN r.w \div 2 ELSE r.w)
           /\ Half(r, d, b).h >= (IF d = "vertical" THEN r.h ELSE r.h \div 2)
           /\ ~b => Half(r, d, b).x = r.x /\ Half(r, d, b).y = r.y
           /\ b => /\ Half(r, d, b).x + Half(r, d, b).w = r.x + r.w
                   /\ Half(r, d, b).y + Half(r, d, b).h = r.y + r.h
<1>1. r.w \div 2 \in Nat /\ r.w \div 2 <= r.w /\ r.w - r.w \div 2 >= r.w \div 2  BY DEF Frames
<1>2. r.h \div 2 \in Nat /\ r.h \div 2 <= r.h /\ r.h - r.h \div 2 >= r.h \div 2  BY DEF Frames
<1>3. PICK m \in Nat, n \in Nat : m = r.w \div 2 /\ n = r.h \div 2  BY <1>1, <1>2
<1>4. CASE d = "vertical" /\ b
  <2>1. PICK q : q = Half(r, d, b)  OBVIOUS
  <2>2. q = [r EXCEPT !.x = @ + m, !.w = @ - m]  BY <1>3, <1>4, <2>1 DEF Half
  <2>3. m \in Nat /\ r.w - m \in Nat /\ r.w - m >= m  BY <1>1, <1>3 DEF Frames
  <2>4. q.x = r.x + m /\ q.w = r.w - m /\ q.y = r.y /\ q.h = r.h  BY <2>2 DEF Frames
  <2>5. [r EXCEPT !.x = r.x + m] \in Frames  BY <2>3 DEF Frames
  <2>6. q = [[r EXCEPT !.x = r.x + m] EXCEPT !.w = r.w - m]  BY <2>2, Zenon DEF Frames
  <2>7. q \in Frames  BY <2>3, <2>5, <2>6 DEF Frames
  <2>8. /\ Inside(q, r) /\ q.w >= r.w \div 2 /\ q.h >= r.h
        /\ q.x + q.w = r.x + r.w /\ q.y + q.h = r.y + r.h
    BY <1>3, <2>3, <2>4 DEF Frames, Inside
  <2>. QED  BY <1>4, <2>1, <2>7, <2>8, Zenon
<1>5. CASE d = "vertical" /\ ~b
  <2>1. Half(r, d, b) = [r EXCEPT !.w = m]  BY <1>3, <1>5 DEF Half
  <2>. QED  BY <1>1, <1>3, <1>5, <2>1 DEF Frames, Inside
<1>6. CASE d # "vertical" /\ b
  <2>1. PICK q : q = Half(r, d, b)  OBVIOUS
  <2>2. q = [r EXCEPT !.y = @ + n, !.h = @ - n]  BY <1>3, <1>6, <2>1 DEF Half
  <2>3. n \in Nat /\ r.h - n \in Nat /\ r.h - n >= n  BY <1>2, <1>3 DEF Frames
  <2>4. q.y = r.y + n /\ q.h = r.h - n /\ q.x = r.x /\ q.w = r.w  BY <2>2 DEF Frames
  <2>5. [r EXCEPT !.y = r.y + n] \in Frames  BY <2>3 DEF Frames
  <2>6. q = [[r EXCEPT !.y = r.y + n] EXCEPT !.h = r.h - n]  BY <2>2, Zenon DEF Frames
  <2>7. q \in Frames  BY <2>3, <2>5, <2>6 DEF Frames
  <2>8. /\ Inside(q, r) /\ q.h >= r.h \div 2 /\ q.w >= r.w
        /\ q.x + q.w = r.x + r.w /\ q.y + q.h = r.y + r.h
    BY <1>3, <2>3, <2>4 DEF Frames, Inside
  <2>. QED  BY <1>6, <2>1, <2>7, <2>8, Zenon
<1>7. CASE d # "vertical" /\ ~b
  <2>1. Half(r, d, b) = [r EXCEPT !.h = n]  BY <1>3, <1>7 DEF Half
  <2>. QED  BY <1>2, <1>3, <1>7, <2>1 DEF Frames, Inside
<1>. QED  BY <1>4, <1>5, <1>6, <1>7

LEMMA LargerHalves ==
    ASSUME NEW r \in Frames, NEW s \in Frames, Larger(r, s), NEW d \in {"vertical", "horizontal"},
           NEW b \in BOOLEAN
    PROVE  Larger(Half(r, d, b), Half(s, d, b))
<1>1. ASSUME NEW m \in Nat, NEW n \in Nat, m >= n
      PROVE  m \div 2 >= n \div 2 /\ m - m \div 2 >= n - n \div 2 /\ m \div 2 \in Nat /\ n \div 2 \in Nat
  BY <1>1
<1>2. r.w \div 2 >= s.w \div 2 /\ r.w - r.w \div 2 >= s.w - s.w \div 2  BY <1>1 DEF Larger, Frames
<1>3. r.h \div 2 >= s.h \div 2 /\ r.h - r.h \div 2 >= s.h - s.h \div 2  BY <1>1 DEF Larger, Frames
<1>. QED  BY <1>2, <1>3 DEF Frames, Half, Larger

LEMMA NodeRects ==
    ASSUME NEW t, Tree(t)
    PROVE  \A p \in Nodes(t) : Rect(t, p) \in Frames /\ Inside(Rect(t, p), t.frame)
<1>1. PICK S : S = {p \in Path : Rect(t, p) \in Frames /\ Inside(Rect(t, p), t.frame)}  OBVIOUS
<1>2. t.frame \in Frames  BY DEF Tree, Frames
<1>3. << >> \in S
  BY <1>1, <1>2, RectStep, EmptySeq DEF Inside, Frames, Path
<1>4. ASSUME NEW p \in Cuts(t) \cap S, NEW b \in BOOLEAN PROVE Append(p, b) \in S
  <2>1. p \in Path /\ Append(p, b) \in Path /\ t.cuts[p] \in {"vertical", "horizontal"}
    BY TreeFacts, AppendPath
  <2>2. Rect(t, Append(p, b)) = Half(Rect(t, p), t.cuts[p], b)  BY <2>1, RectStep
  <2>3. PICK r \in Frames : r = Rect(t, p) /\ Inside(r, t.frame)  BY <1>1
  <2>4. PICK q \in Frames : q = Half(r, t.cuts[p], b) /\ Inside(q, r)  BY <2>1, Halves
  <2>5. Inside(q, t.frame)  BY <1>2, <2>3, <2>4 DEF Inside, Frames
  <2>. QED  BY <1>1, <2>1, <2>2, <2>3, <2>4, <2>5
<1>. QED  BY <1>1, <1>3, <1>4, NodeInduction

\* A tree that has the same cuts where the other had some lays the same nodes out alike.
LEMMA SameRects ==
    ASSUME NEW t, Tree(t), NEW u, u.frame = t.frame, \A p \in Cuts(t) : u.cuts[p] = t.cuts[p]
    PROVE  \A p \in Nodes(t) : Rect(u, p) = Rect(t, p)
<1>1. PICK S : S = {p \in Path : Rect(u, p) = Rect(t, p)}  OBVIOUS
<1>2. << >> \in S  BY <1>1, RectStep, EmptySeq DEF Path
<1>3. \A p \in Cuts(t) \cap S, b \in BOOLEAN : Append(p, b) \in S
  BY <1>1, RectStep, AppendPath
<1>. QED  BY <1>1, <1>2, <1>3, NodeInduction

-----------------------------------------------------------------------------
(* Splitting a leaf. *)

\* There is a number to give away.
LEMMA FreeNumber ==
    ASSUME NEW t, Tree(t), Cardinality(t.leaves) < MaxLeaves
    PROVE  FreeId(t) \in Nat /\ \A l \in t.leaves : l.id # FreeId(t)
<1>1. PICK ids : ids = {l.id : l \in t.leaves}  OBVIOUS
<1>2. PICK n \in Nat : n = MaxLeaves  BY BalancedSplitAssumption DEF BalancedSplitAssumption
<1>3. PICK S : S = (1..(n + 1)) \ ids  OBVIOUS
<1>4. IsFiniteSet(ids) /\ Cardinality(ids) <= Cardinality(t.leaves)
  <2>1. PICK f : f = [l \in t.leaves |-> l.id]  OBVIOUS
  <2>2. f \in Surjection(t.leaves, ids)  BY <1>1, <2>1 DEF Surjection
  <2>. QED  BY <2>2, FS_Surjection DEF Tree
<1>5. S # {}
  <2>1. IsFiniteSet(1..(n + 1)) /\ Cardinality(1..(n + 1)) = n + 1
    <3>1. 1 \in Int /\ n + 1 \in Int /\ ~(1 > n + 1)  OBVIOUS
    <3>. QED  BY <3>1, FS_Interval
  <2>2. Cardinality(ids) \in Nat /\ Cardinality(t.leaves) \in Nat  BY <1>4, FS_CardinalityType DEF Tree
  <2>3. SUFFICES ASSUME 1..(n + 1) \subseteq ids PROVE FALSE
    BY <1>3
  <2>4. n + 1 <= Cardinality(ids)  BY <1>4, <2>1, <2>3, FS_Subset
  <2>. QED  BY <1>2, <1>4, <2>2, <2>4
<1>6. S \in SUBSET Nat  BY <1>3
<1>7. Min(S) \in S  BY <1>5, <1>6, LeastNatural
<1>8. FreeId(t) = Min(S)  BY <1>1, <1>2, <1>3 DEF FreeId
<1>. QED  BY <1>1, <1>3, <1>6, <1>7, <1>8

\* What a split makes of a tab.
IsSplit(t, host, d, u, old, new) ==
    /\ old.path = Append(host.path, FALSE) /\ old.role = host.role /\ old.id = host.id
    /\ old \in [path : {old.path}, role : {old.role}, id : {old.id}]
    /\ new = [path |-> Append(host.path, TRUE), role |-> "worker", id |-> FreeId(t)]
    /\ u \in [frame : {t.frame}, leaves : {u.leaves}, cuts : {u.cuts}]
    /\ u.leaves = (t.leaves \ {host}) \cup {old, new}
    /\ u.cuts = [p \in Cuts(t) \cup {host.path} |-> IF p = host.path THEN d ELSE t.cuts[p]]

LEMMA SplitFields ==
    ASSUME NEW t, Tree(t), NEW host \in t.leaves, NEW d, NEW u, u = Split(t, host.id, d)
    PROVE  \E old, new : IsSplit(t, host, d, u, old, new)
<1>1. host = CHOOSE l \in t.leaves : l.id = host.id  BY DEF Tree
<1>2. PICK old : old = [host EXCEPT !.path = Append(@, FALSE)]  OBVIOUS
<1>3. PICK new : new = [path |-> Append(host.path, TRUE), role |-> "worker", id |-> FreeId(t)]  OBVIOUS
<1>4. PICK leaves, cuts :
         /\ leaves = (t.leaves \ {host}) \cup {old, new}
         /\ cuts = [p \in Cuts(t) \cup {host.path} |-> IF p = host.path THEN d ELSE t.cuts[p]]
  OBVIOUS
<1>5. t \in [frame : {t.frame}, leaves : {t.leaves}, cuts : {t.cuts}]  BY DEF Tree
<1>6. u = [t EXCEPT !.leaves = leaves, !.cuts = cuts]
  BY <1>1, <1>2, <1>3, <1>4, <1>5 DEF Split, Cuts
<1>7. u.frame = t.frame /\ u.leaves = leaves /\ u.cuts = cuts  BY <1>5, <1>6
<1>8. u \in [frame : {t.frame}, leaves : {u.leaves}, cuts : {u.cuts}]  BY <1>5, <1>6
<1>9. host \in [path : {host.path}, role : {host.role}, id : {host.id}]  BY DEF Tree
<1>10. /\ old.path = Append(host.path, FALSE) /\ old.role = host.role /\ old.id = host.id
       /\ old \in [path : {old.path}, role : {old.role}, id : {old.id}]
  BY <1>2, <1>9
<1>. QED  BY <1>3, <1>4, <1>7, <1>8, <1>10 DEF IsSplit

\* Every path of a tree is shorter than n.
Shallow(t, n) == n \in Nat /\ \A p \in Nodes(t) : Len(p) < n

\* Where the leaves of a split tab come from.
FromSplit(t, host, d, u, l) ==
    \/ l \in t.leaves \ {host} /\ Rect(u, l.path) = Rect(t, l.path)
    \/ /\ l.role = host.role /\ l.id = host.id
       /\ Rect(u, l.path) = Half(Rect(t, host.path), d, FALSE)
    \/ /\ l.role = "worker" /\ \A k \in t.leaves : k.id # l.id
       /\ Rect(u, l.path) = Half(Rect(t, host.path), d, TRUE)

\* A split leaves a tree, in which only the host and the new pane are laid out anew.
LEMMA SplitTree ==
    ASSUME NEW t, Tree(t), DispatcherTab(t), Cardinality(t.leaves) < MaxLeaves,
           NEW n, Shallow(t, n),
           NEW host \in t.leaves, NEW d \in {"vertical", "horizontal"}, NEW u, u = Split(t, host.id, d)
    PROVE  /\ Tree(u) /\ DispatcherTab(u) /\ Shallow(u, n + 1)
           /\ \A l \in u.leaves : FromSplit(t, host, d, u, l)
<1>1. PICK old, new : IsSplit(t, host, d, u, old, new)  BY SplitFields
<1>2. PICK h : h = host.path /\ h \in Path /\ h \in Nodes(t) \ Cuts(t)  BY TreeFacts
<1>3. /\ old.path = Append(h, FALSE) /\ new.path = Append(h, TRUE) /\ new.id = FreeId(t)
      /\ new.role = "worker" /\ u.leaves = (t.leaves \ {host}) \cup {old, new}
      /\ old.role = host.role /\ old.id = host.id
  BY <1>1, <1>2 DEF IsSplit
<1>4. /\ Append(h, FALSE) \in Path /\ Append(h, TRUE) \in Path /\ Append(h, FALSE) # Append(h, TRUE)
      /\ Append(h, FALSE) \notin Nodes(t) /\ Append(h, TRUE) \notin Nodes(t)
  <2>1. \A b \in BOOLEAN : Append(h, b) \in Path /\ Last(Append(h, b)) = b  BY <1>2, AppendPath
  <2>2. \A b \in BOOLEAN : Append(h, b) \notin Nodes(t)  BY <1>2, TreeFacts
  <2>. QED  BY <2>1, <2>2
<1>5. /\ Cuts(u) = Cuts(t) \cup {h} /\ u.cuts[h] = d /\ u.frame = t.frame
      /\ \A p \in Cuts(t) : u.cuts[p] = t.cuts[p]
  BY <1>1, <1>2 DEF Cuts, IsSplit
<1>6. Nodes(u) = Nodes(t) \cup {Append(h, FALSE), Append(h, TRUE)}
  <2>2. {l.path : l \in u.leaves} = {l.path : l \in t.leaves \ {host}} \cup {Append(h, FALSE), Append(h, TRUE)}
    BY <1>3
  <2>3. {l.path : l \in t.leaves} = {l.path : l \in t.leaves \ {host}} \cup {h}  BY <1>2
  <2>. QED  BY <1>5, <2>2, <2>3 DEF Nodes
<1>7. FreeId(t) \in Nat /\ \A l \in t.leaves : l.id # FreeId(t)  BY FreeNumber
<1>8. Tree(u)
  <2>1. u \in [frame : [x : Nat, y : Nat, w : Nat, h : Nat], leaves : {u.leaves}, cuts : {u.cuts}]
    <3>1. t.frame \in [x : Nat, y : Nat, w : Nat, h : Nat]  BY DEF Tree
    <3>. QED  BY <1>1, <3>1 DEF IsSplit
  <2>2. u.cuts \in [Cuts(u) -> {"vertical", "horizontal"}]
    <3>1. \A p \in Cuts(t) : t.cuts[p] \in {"vertical", "horizontal"}  BY TreeFacts
    <3>. QED  BY <1>1, <1>2, <1>5, <3>1 DEF IsSplit
  <2>3. IsFiniteSet(u.leaves)
    <3>1. IsFiniteSet(t.leaves \ {host})  BY FS_RemoveElement DEF Tree
    <3>2. IsFiniteSet((t.leaves \ {host}) \cup {old})  BY <3>1, FS_AddElement
    <3>3. IsFiniteSet(((t.leaves \ {host}) \cup {old}) \cup {new})  BY <3>2, FS_AddElement
    <3>4. u.leaves = ((t.leaves \ {host}) \cup {old}) \cup {new}  BY <1>3
    <3>. QED  BY <3>3, <3>4
  <2>4. \A l \in u.leaves : l \in [path : Seq(BOOLEAN), role : DOMAIN RolePriority, id : Nat]
    <3>1. \A l \in t.leaves : l \in [path : Seq(BOOLEAN), role : DOMAIN RolePriority, id : Nat]
      BY DEF Tree
    <3>2. "worker" \in DOMAIN RolePriority  BY DEF RolePriority
    <3>3. host.role \in DOMAIN RolePriority /\ host.id \in Nat  BY <3>1
    <3>4. old \in [path : Seq(BOOLEAN), role : DOMAIN RolePriority, id : Nat]
      BY <1>1, <1>2, <1>4, <3>3 DEF Path, IsSplit
    <3>5. new \in [path : Seq(BOOLEAN), role : DOMAIN RolePriority, id : Nat]
      BY <1>1, <1>2, <1>4, <1>7, <3>2 DEF Path, IsSplit
    <3>. QED  BY <1>1, <3>1, <3>4, <3>5 DEF IsSplit
  <2>5. \A k, l \in u.leaves : k.path = l.path \/ k.id = l.id => k = l
    <3>1. \A k, l \in t.leaves : k.path = l.path \/ k.id = l.id => k = l  BY DEF Tree
    <3>2. \A l \in t.leaves : l.path \in Nodes(t)  BY TreeFacts
    <3>3. \A l \in t.leaves \ {host} : l.id # host.id  BY <3>1
    <3>4. \A l \in t.leaves \ {host} : l.path # old.path /\ l.path # new.path /\ l.id # old.id /\ l.id # new.id
      BY <1>3, <1>4, <1>7, <3>2, <3>3
    <3>5. old.path # new.path /\ old.id # new.id  BY <1>3, <1>4, <1>7
    <3>. QED  BY <1>3, <3>1, <3>4, <3>5
  <2>6. << >> \in Nodes(u)  BY <1>6, TreeFacts
  <2>7. \A p \in Cuts(u) : p \in Seq(BOOLEAN) /\ \A b \in BOOLEAN : Append(p, b) \in Nodes(u)
    <3>1. \A p \in Cuts(t) : p \in Seq(BOOLEAN) /\ \A b \in BOOLEAN : Append(p, b) \in Nodes(t)
      BY DEF Tree
    <3>2. h \in Seq(BOOLEAN) /\ \A b \in BOOLEAN : Append(h, b) \in Nodes(u)
      BY <1>2, <1>6 DEF Path
    <3>. QED  BY <1>5, <1>6, <3>1, <3>2
  <2>8. \A p \in Nodes(u) \ {<< >>} : Front(p) \in Cuts(u)
    <3>1. \A p \in Nodes(t) \ {<< >>} : Front(p) \in Cuts(t)  BY DEF Tree
    <3>2. \A b \in BOOLEAN : Front(Append(h, b)) = h  BY <1>2, AppendPath
    <3>. QED  BY <1>5, <1>6, <3>1, <3>2
  <2>9. \A l \in u.leaves : l.path \notin Cuts(u)
    <3>1. \A l \in t.leaves \ {host} : l.path \notin Cuts(t) /\ l.path # h  BY <1>2 DEF Tree
    <3>2. old.path \notin Cuts(u) /\ new.path \notin Cuts(u)
      <4>1. Append(h, FALSE) \notin Cuts(t) /\ Append(h, TRUE) \notin Cuts(t)  BY <1>4, TreeFacts
      <4>. QED  BY <1>3, <1>2, <1>4, <1>5, <4>1
    <3>. QED  BY <1>1, <1>5, <3>1, <3>2 DEF IsSplit
  <2>. QED  BY <2>1, <2>2, <2>3, <2>4, <2>5, <2>6, <2>7, <2>8, <2>9 DEF Tree
<1>9. DispatcherTab(u)
  <2>1. \A k, l \in t.leaves : k.role = "dispatcher" /\ l.role = "dispatcher" => k = l  BY DEF DispatcherTab
  <2>2. \A k, l \in u.leaves : k.role = "dispatcher" /\ l.role = "dispatcher" => k = l  BY <1>3, <2>1
  <2>3. \E l \in u.leaves : l.role = "secretary"  BY <1>3 DEF DispatcherTab
  <2>. QED  BY <2>2, <2>3 DEF DispatcherTab
<1>10. Shallow(u, n + 1)
  <2>1. \A b \in BOOLEAN : Len(Append(h, b)) = Len(h) + 1 /\ Len(h) \in Nat  BY <1>2, AppendPath
  <2>2. \A p \in Nodes(t) : Len(p) \in Nat  BY TreeFacts DEF Path
  <2>3. n \in Nat /\ \A p \in Nodes(t) : Len(p) < n  BY DEF Shallow
  <2>4. \A p \in Nodes(t) : Len(p) < n + 1  BY <2>2, <2>3
  <2>5. Len(Append(h, FALSE)) < n + 1 /\ Len(Append(h, TRUE)) < n + 1  BY <1>2, <2>1, <2>3
  <2>6. \A p \in Nodes(u) : Len(p) < n + 1  BY <1>6, <2>4, <2>5, Zenon
  <2>. QED  BY <2>3, <2>6 DEF Shallow
<1>11. \A p \in Nodes(t) : Rect(u, p) = Rect(t, p)  BY <1>5, SameRects
<1>12. \A b \in BOOLEAN : Rect(u, Append(h, b)) = Half(Rect(t, h), d, b)
  BY <1>2, <1>5, <1>11, RectStep
<1>13. \A l \in t.leaves : l.path \in Nodes(t)  BY TreeFacts
<1>14. ASSUME NEW l \in u.leaves PROVE FromSplit(t, host, d, u, l)
  <2>1. CASE l \in t.leaves \ {host}  BY <1>11, <1>13, <2>1 DEF FromSplit
  <2>2. CASE l = old  BY <1>1, <1>2, <1>12, <2>2 DEF FromSplit, IsSplit
  <2>3. CASE l = new
    <3>1. l.role = "worker" /\ l.path = Append(h, TRUE) /\ l.id = FreeId(t)  BY <1>1, <1>2, <2>3 DEF IsSplit
    <3>. QED  BY <1>2, <1>7, <1>12, <3>1 DEF FromSplit
  <2>. QED  BY <1>3, <2>1, <2>2, <2>3
<1>. QED  BY <1>8, <1>9, <1>10, <1>14

-----------------------------------------------------------------------------
(* Paths below another. *)

Below(p, q) == \E s \in Path : q = p \o s

LEMMA PathsBelow ==
    ASSUME NEW p \in Path
    PROVE  /\ \A s \in Path : p \o s \in Path /\ Len(p \o s) = Len(p) + Len(s) /\ Len(s) \in Nat
           /\ \A s \in Path : IsPrefix(p, p \o s) /\ SubSeq(p \o s, Len(p) + 1, Len(p \o s)) = s
           /\ \A q \in Path : IsPrefix(p, q) <=> Below(p, q)
           /\ \A r, s \in Path : p \o r = p \o s => r = s
           /\ \A s \in Path, b \in BOOLEAN : p \o Append(s, b) = Append(p \o s, b)
           /\ \A s \in Path \ {<< >>} : \E b \in BOOLEAN, r \in Path : p \o s = Append(p, b) \o r
           /\ \A b \in BOOLEAN : p \o <<b>> = Append(p, b)
           /\ p \o << >> = p
<1>1. ASSUME NEW s \in Path
      PROVE  /\ p \o s \in Path /\ Len(p \o s) = Len(p) + Len(s) /\ Len(s) \in Nat /\ Len(p) \in Nat
             /\ \A i \in 1..Len(p) : (p \o s)[i] = p[i]
             /\ \A i \in 1..Len(s) : (p \o s)[Len(p) + i] = s[i]
  BY ConcatProperties, LenProperties DEF Path
<1>2. ASSUME NEW s \in Path
      PROVE  IsPrefix(p, p \o s) /\ SubSeq(p \o s, Len(p) + 1, Len(p \o s)) = s
  <2>1. PICK q \in Path, m \in Nat, n \in Nat : q = p \o s /\ m = Len(p) /\ n = Len(s)  BY <1>1
  <2>2. /\ Len(q) = m + n /\ \A i \in 1..m : q[i] = p[i]
        /\ \A i \in 1..n : q[m + i] = s[i]
        /\ \A i \in 1..(m + n) : q[i] \in BOOLEAN
    BY <1>1, <2>1, ElementOfSeq DEF Path
  <2>3. SubSeq(q, 1, m) = p
    <3>1. /\ SubSeq(q, 1, m) \in Path /\ Len(SubSeq(q, 1, m)) = m
          /\ \A i \in 1..m : SubSeq(q, 1, m)[i] = q[i]
      BY <2>2, SubSeqProperties DEF Path
    <3>. QED  BY <2>1, <2>2, <3>1, SeqEqual DEF Path
  <2>4. SubSeq(q, m + 1, m + n) = s
    <3>1. PICK a \in Nat, b \in Nat : a = m + 1 /\ b = m + n  BY <2>1
    <3>2. PICK r : r = SubSeq(q, a, b)  OBVIOUS
    <3>3. \A i \in a..b : q[i] \in BOOLEAN  BY <2>1, <2>2, <3>1
    <3>4. /\ r \in Path /\ Len(r) = (IF a <= b THEN b - a + 1 ELSE 0)
          /\ \A i \in 1..(b - a + 1) : r[i] = q[a + i - 1]
      <4>1. a \in Int /\ b \in Int  BY <3>1
      <4>2. /\ SubSeq(q, a, b) \in Seq(BOOLEAN)
            /\ Len(SubSeq(q, a, b)) = (IF a <= b THEN b - a + 1 ELSE 0)
            /\ \A i \in 1..(b - a + 1) : SubSeq(q, a, b)[i] = q[a + i - 1]
        BY <3>3, <4>1, SubSeqProperties, SMTT(60)
      <4>. QED  BY <3>2, <4>2 DEF Path
    <3>5. Len(r) = n /\ \A i \in 1..n : r[i] = q[m + i]
      <4>1. Len(r) = n /\ b - a + 1 = n  BY <2>1, <3>1, <3>4
      <4>2. ASSUME NEW i \in 1..n PROVE r[i] = q[m + i]
        <5>1. a + i - 1 = m + i  BY <2>1, <3>1
        <5>. QED  BY <3>4, <4>1, <5>1
      <4>. QED  BY <4>1, <4>2
    <3>6. \A i \in 1..n : r[i] = s[i]  BY <2>2, <3>5
    <3>7. r = s  BY <2>1, <3>4, <3>5, <3>6, SeqEqual DEF Path
    <3>. QED  BY <3>1, <3>2, <3>7
  <2>5. SubSeq(p, 1, Len(p)) = p  BY SubSeqFull DEF Path
  <2>6. Len(p) <= Len(p \o s) /\ Len(p \o s) = m + n  BY <2>1, <2>2
  <2>7. IsPrefix(p, p \o s)  BY <2>1, <2>3, <2>5, <2>6 DEF IsPrefix
  <2>. QED  BY <2>1, <2>4, <2>6, <2>7
<1>3. ASSUME NEW q \in Path, IsPrefix(p, q) PROVE Below(p, q)
  <2>1. PICK m \in Nat, n \in Nat : m = Len(p) /\ n = Len(q) /\ m <= n
    BY <1>3, LenProperties DEF Path, IsPrefix
  <2>2. SubSeq(p, 1, m) = p  BY <2>1, SubSeqFull DEF Path
  <2>3. SubSeq(q, 1, m) = p  BY <1>3, <2>1, <2>2 DEF IsPrefix
  <2>4. SubSeq(q, m + 1, n) \in Path
    <3>1. \A i \in (m + 1)..n : q[i] \in BOOLEAN  BY <2>1, ElementOfSeq DEF Path
    <3>. QED  BY <3>1, SubSeqProperties DEF Path
  <2>5. SubSeq(q, 1, m) \o SubSeq(q, m + 1, n) = SubSeq(q, 1, n)
    <3>1. 1 \in 1..(n + 1) /\ m \in 0..n /\ n \in m..n  BY <2>1
    <3>2. 1 \in 1..(Len(q) + 1) /\ m \in (1 - 1)..Len(q) /\ n \in m..Len(q)  BY <2>1, <3>1
    <3>. QED  BY <3>2, ConcatAdjacentSubSeq DEF Path
  <2>6. SubSeq(q, 1, n) = q  BY <2>1, SubSeqFull DEF Path
  <2>. QED  BY <2>3, <2>4, <2>5, <2>6 DEF Below
<1>4. \A r, s \in Path : p \o r = p \o s => r = s  BY <1>2
<1>5. ASSUME NEW b \in BOOLEAN PROVE <<b>> \in Path /\ \A s \in Path : Append(s, b) = s \o <<b>>
  <2>1. \A s \in Path : Append(s, b) = s \o <<b>>  BY AppendIsConcat DEF Path
  <2>. QED  BY <2>1 DEF Path
<1>6. ASSUME NEW s \in Path, NEW b \in BOOLEAN PROVE p \o Append(s, b) = Append(p \o s, b)
  <2>1. (p \o s) \o <<b>> = p \o (s \o <<b>>)  BY <1>5, ConcatAssociative DEF Path
  <2>. QED  BY <1>1, <1>5, <2>1
<1>7. ASSUME NEW s \in Path \ {<< >>}
      PROVE  \E b \in BOOLEAN, r \in Path : p \o s = Append(p, b) \o r
  <2>1. PICK n \in Nat : n = Len(s) /\ n >= 1  BY EmptySeq DEF Path
  <2>2. s = <<s[1]>> \o SubSeq(s, 2, n)
    <3>1. SubSeq(s, 1, n) = <<s[1]>> \o SubSeq(s, 1 + 1, n)
      BY <2>1, SubSeqRecursiveFirst DEF Path
    <3>2. SubSeq(s, 1, n) = s  BY <2>1, SubSeqFull DEF Path
    <3>. QED  BY <3>1, <3>2
  <2>3. PICK b \in BOOLEAN : b = s[1]  BY <2>1, ElementOfSeq DEF Path
  <2>4. SubSeq(s, 2, n) \in Path
    <3>1. \A i \in 2..n : s[i] \in BOOLEAN  BY <2>1, ElementOfSeq DEF Path
    <3>. QED  BY <3>1, SubSeqProperties DEF Path
  <2>5. (p \o <<b>>) \o SubSeq(s, 2, n) = p \o (<<b>> \o SubSeq(s, 2, n))
    <3>1. \A u, v \in Path : (p \o u) \o v = p \o (u \o v)  BY ConcatAssociative DEF Path
    <3>2. <<b>> \in Path  BY <1>5
    <3>. QED  BY <2>4, <3>1, <3>2, Zenon
  <2>. QED  BY <1>5, <2>2, <2>3, <2>4, <2>5
<1>8. p \o << >> = p  BY ConcatEmptySeq DEF Path
<1>. QED  BY <1>1, <1>2, <1>3, <1>4, <1>5, <1>6, <1>7, <1>8 DEF Below

LEMMA JoinedPaths ==
    ASSUME NEW p \in Path, NEW s \in Path
    PROVE  p \o s \in Path /\ Len(p \o s) = Len(p) + Len(s) /\ Len(s) \in Nat /\ Len(p) \in Nat
<1>1. Len(p) \in Nat  BY DEF Path
<1>. QED  BY <1>1, PathsBelow

LEMMA JoinedAppend ==
    ASSUME NEW p \in Path, NEW s \in Path, NEW b \in BOOLEAN
    PROVE  p \o Append(s, b) = Append(p \o s, b) /\ p \o s \in Path
<1>1. \A r \in Path, c \in BOOLEAN : p \o Append(r, c) = Append(p \o r, c)  BY PathsBelow, Zenon
<1>2. p \o Append(s, b) = Append(p \o s, b)  BY <1>1, Zenon
<1>. QED  BY <1>2, JoinedPaths

-----------------------------------------------------------------------------
(* Closing a leaf: the paths beside it move up. *)

LEMMA MovedFacts ==
    ASSUME NEW m \in Path, NEW x \in BOOLEAN, NEW leaf, leaf.path = Append(m, ~x)
    PROVE  /\ \A s \in Path : Moved(leaf, Append(m, x) \o s) = m \o s
           /\ \A q \in Path : ~Below(Append(m, x), q) => Moved(leaf, q) = q
<1>1. PICK beside \in Path : beside = Append(m, x)  BY AppendPath
<1>2. (~x) \in BOOLEAN /\ (~(~x)) = x
  <2>1. CASE x = TRUE  BY <2>1
  <2>2. CASE x = FALSE  BY <2>2
  <2>. QED  BY <2>1, <2>2
<1>3. Front(leaf.path) = m /\ Last(leaf.path) = ~x  BY <1>2, AppendPath
<1>4. beside = Append(Front(leaf.path), ~Last(leaf.path))  BY <1>1, <1>2, <1>3, Zenon
<1>5. ASSUME NEW q
      PROVE  Moved(leaf, q) = IF IsPrefix(beside, q)
                              THEN m \o SubSeq(q, Len(beside) + 1, Len(q)) ELSE q
  BY <1>3, <1>4, Zenon DEF Moved
<1>6. ASSUME NEW s \in Path PROVE Moved(leaf, beside \o s) = m \o s
  <2>1. IsPrefix(beside, beside \o s) /\ SubSeq(beside \o s, Len(beside) + 1, Len(beside \o s)) = s
    BY PathsBelow
  <2>. QED  BY <1>5, <2>1, Zenon
<1>7. ASSUME NEW q \in Path, ~Below(beside, q) PROVE Moved(leaf, q) = q
  <2>1. ~IsPrefix(beside, q)  BY <1>7, PathsBelow
  <2>. QED  BY <1>5, <2>1, Zenon
<1>. QED  BY <1>1, <1>6, <1>7

LEMMA MovedPaths ==
    ASSUME NEW m \in Path, NEW x \in BOOLEAN, NEW leaf, leaf.path = Append(m, ~x)
    PROVE  /\ \A q \in Path : Moved(leaf, q) \in Path /\ Len(Moved(leaf, q)) <= Len(q)
           /\ Moved(leaf, Append(m, x)) = m
           /\ \A q \in Path : Len(q) <= Len(m) => Moved(leaf, q) = q
           /\ \A q \in Path \ {m}, b \in BOOLEAN : Moved(leaf, Append(q, b)) = Append(Moved(leaf, q), b)
<1>1. PICK beside \in Path : beside = Append(m, x)  BY AppendPath
<1>2. PICK n \in Nat : n = Len(m) /\ Len(beside) = n + 1  BY <1>1, AppendPath
<1>3. \A s \in Path : Moved(leaf, beside \o s) = m \o s  BY <1>1, MovedFacts
<1>4. \A q \in Path : ~Below(beside, q) => Moved(leaf, q) = q  BY <1>1, MovedFacts
<1>5. \A q \in Path : Len(q) \in Nat  BY DEF Path
<1>6. \A s \in Path : Len(beside \o s) = n + 1 + Len(s) /\ Len(m \o s) = n + Len(s) /\ m \o s \in Path
  BY <1>2, JoinedPaths
<1>7. ASSUME NEW q \in Path PROVE Moved(leaf, q) \in Path /\ Len(Moved(leaf, q)) <= Len(q)
  <2>1. CASE Below(beside, q)
    <3>1. PICK s \in Path : q = beside \o s  BY <2>1 DEF Below
    <3>2. Moved(leaf, q) = m \o s /\ Len(s) \in Nat  BY <1>3, <1>5, <3>1
    <3>. QED  BY <1>6, <3>1, <3>2
  <2>2. CASE ~Below(beside, q)  BY <1>4, <1>5, <2>2
  <2>. QED  BY <2>1, <2>2
<1>8. Moved(leaf, beside) = m
  <2>1. << >> \in Path  BY EmptySeq DEF Path
  <2>2. beside \o << >> = beside /\ m \o << >> = m  BY PathsBelow
  <2>. QED  BY <1>3, <2>1, <2>2
<1>9. ASSUME NEW q \in Path, Len(q) <= n PROVE Moved(leaf, q) = q
  <2>1. ASSUME NEW s \in Path PROVE q # beside \o s
    <3>1. Len(beside \o s) = n + 1 + Len(s) /\ Len(s) \in Nat  BY <1>5, <1>6
    <3>. QED  BY <1>5, <1>9, <3>1
  <2>2. ~Below(beside, q)  BY <2>1 DEF Below
  <2>. QED  BY <1>4, <2>2
<1>10. ASSUME NEW q \in Path \ {m}, NEW b \in BOOLEAN
       PROVE  Moved(leaf, Append(q, b)) = Append(Moved(leaf, q), b)
  <2>1. CASE Below(beside, q)
    <3>1. PICK s \in Path : q = beside \o s  BY <2>1 DEF Below
    <3>2. PICK r \in Path : r = Append(s, b)  BY AppendPath
    <3>3. beside \o Append(s, b) = Append(beside \o s, b) /\ m \o Append(s, b) = Append(m \o s, b)
      BY JoinedAppend
    <3>4. Append(q, b) = beside \o r /\ m \o r = Append(m \o s, b)  BY <3>1, <3>2, <3>3
    <3>. QED  BY <1>3, <3>1, <3>4
  <2>2. CASE ~Below(beside, q)
    <3>1. ~Below(beside, Append(q, b))
      <4>. SUFFICES ASSUME NEW s \in Path, Append(q, b) = beside \o s PROVE FALSE  BY DEF Below
      <4>1. Front(Append(q, b)) = q /\ Front(Append(m, x)) = m  BY AppendPath
      <4>2. CASE s = << >>
        <5>1. beside \o s = beside  BY <4>2, PathsBelow
        <5>. QED  BY <1>1, <4>1, <5>1
      <4>3. CASE s # << >>
        <5>1. PICK r \in Path, c \in BOOLEAN : s = Append(r, c)  BY <4>3, SequenceEmptyOrAppend DEF Path
        <5>2. beside \o s = Append(beside \o r, c) /\ beside \o r \in Path  BY <5>1, JoinedAppend
        <5>3. Front(Append(beside \o r, c)) = beside \o r  BY <5>2, AppendPath
        <5>. QED  BY <2>2, <4>1, <5>2, <5>3 DEF Below
      <4>. QED  BY <4>2, <4>3
    <3>2. Append(q, b) \in Path  BY AppendPath
    <3>. QED  BY <1>4, <2>2, <3>1, <3>2
  <2>. QED  BY <2>1, <2>2
<1>. QED  BY <1>1, <1>2, <1>7, <1>8, <1>9, <1>10

\* Nothing lies below a leaf.
LEMMA NothingBelow ==
    ASSUME NEW t, Tree(t), NEW leaf \in t.leaves
    PROVE  \A q \in Nodes(t) : Below(leaf.path, q) => q = leaf.path
<1>1. PICK e \in Path : e = leaf.path /\ e \notin Cuts(t)  BY TreeFacts
<1>2. PICK S : S = {q \in Path : Below(e, q) => q = e}  OBVIOUS
<1>3. << >> \in S
  <2>1. << >> \in Path  BY EmptySeq DEF Path
  <2>. SUFFICES ASSUME NEW s \in Path, << >> = e \o s PROVE << >> = e  BY <1>2, <2>1 DEF Below
  <2>2. Len(e \o s) = Len(e) + Len(s) /\ Len(s) \in Nat /\ Len(e) \in Nat  BY PathsBelow DEF Path
  <2>3. Len(e) = 0  BY <2>2
  <2>. QED  BY <2>3, EmptySeq DEF Path
<1>4. ASSUME NEW p \in Cuts(t) \cap S, NEW b \in BOOLEAN PROVE Append(p, b) \in S
  <2>1. Append(p, b) \in Path /\ p \in Path /\ Front(Append(p, b)) = p  BY <1>2, AppendPath
  <2>. SUFFICES ASSUME NEW s \in Path, Append(p, b) = e \o s PROVE Append(p, b) = e
    BY <1>2, <2>1 DEF Below
  <2>2. CASE s = << >>  BY <2>2, PathsBelow
  <2>3. CASE s # << >>
    <3>1. PICK r \in Path, c \in BOOLEAN : s = Append(r, c)  BY <2>3, SequenceEmptyOrAppend DEF Path
    <3>2. e \o s = Append(e \o r, c) /\ e \o r \in Path  BY <3>1, JoinedAppend
    <3>3. Front(Append(e \o r, c)) = e \o r  BY <3>2, AppendPath
    <3>4. p = e \o r  BY <2>1, <3>2, <3>3
    <3>5. p = e  BY <1>2, <3>4 DEF Below
    <3>. QED  BY <1>1, <3>5
  <2>. QED  BY <2>2, <2>3
<1>. QED  BY <1>1, <1>2, <1>3, <1>4, NodeInduction

\* The leaf closes, the other side of the cut m is the side x.
Closing(t, leaf, m, x) ==
    /\ leaf \in t.leaves /\ m \in Cuts(t) /\ x \in BOOLEAN /\ leaf.path = Append(m, ~x)
    /\ m \in Path /\ leaf.path \in Path

\* A closed worker or curator is never the whole tab: the Secretary is there.
LEMMA ClosingLeaf ==
    ASSUME NEW t, Tree(t), DispatcherTab(t), NEW leaf \in t.leaves, leaf.role \in {"worker", "curator"}
    PROVE  \E m, x : Closing(t, leaf, m, x)
<1>1. PICK e \in Path : e = leaf.path /\ e \in Nodes(t)  BY TreeFacts
<1>2. PICK k \in t.leaves : k.role = "secretary"  BY DEF DispatcherTab
<1>3. k # leaf  BY <1>2
<1>4. k.path \in Path /\ k.path \in Nodes(t) /\ k.path # e
  <2>1. \A a, l \in t.leaves : a.path = l.path => a = l  BY DEF Tree
  <2>. QED  BY <1>1, <1>3, <2>1, TreeFacts
<1>5. e # << >>
  <2>. SUFFICES ASSUME e = << >> PROVE FALSE  OBVIOUS
  <2>1. e \o k.path = k.path  BY <1>4, ConcatEmptySeq DEF Path
  <2>2. Below(e, k.path)  BY <1>4, <2>1 DEF Below
  <2>. QED  BY <1>1, <1>4, <2>2, NothingBelow
<1>6. PICK m \in Path, b \in BOOLEAN : e = Append(m, b)  BY <1>5, SequenceEmptyOrAppend DEF Path
<1>7. m \in Cuts(t)  BY <1>1, <1>6, TreeFacts
<1>8. PICK x \in BOOLEAN : b = ~x
  <2>1. CASE b = TRUE  BY <2>1
  <2>2. CASE b = FALSE  BY <2>2
  <2>. QED  BY <2>1, <2>2
<1>9. leaf.path = Append(m, ~x)  BY <1>1, <1>6, <1>8, Zenon
<1>. QED  BY <1>1, <1>6, <1>7, <1>9 DEF Closing

\* The nodes that stay, and the sibling of the leaf among them.
Staying(t, leaf, m) == Nodes(t) \ {m, leaf.path}

LEMMA SiblingStays ==
    ASSUME NEW t, Tree(t), NEW leaf, NEW m, NEW x, Closing(t, leaf, m, x)
    PROVE  /\ Append(m, x) \in Staying(t, leaf, m) /\ Append(m, x) # leaf.path
           /\ Moved(leaf, Append(m, x)) = m
           /\ \A b \in BOOLEAN : Append(m, b) # leaf.path => b = x
           /\ leaf.path # << >> /\ leaf.path \notin Cuts(t)
<1>1. Append(m, x) \in Nodes(t) /\ leaf.path \notin Cuts(t)  BY TreeFacts DEF Closing
<1>2. Len(Append(m, x)) = Len(m) + 1 /\ Len(m) \in Nat  BY AppendPath DEF Closing
<1>3. Last(Append(m, x)) = x /\ leaf.path # << >>  BY AppendPath DEF Closing
<1>4. Last(leaf.path) = ~x
  <2>1. (~x) \in BOOLEAN  BY DEF Closing
  <2>2. Last(Append(m, ~x)) = ~x  BY <2>1, AppendPath, Zenon DEF Closing
  <2>. QED  BY <2>2, Zenon DEF Closing
<1>5. Append(m, x) # leaf.path  BY <1>3, <1>4 DEF Closing
<1>6. ASSUME NEW b \in BOOLEAN, Append(m, b) # leaf.path PROVE b = x
  <2>1. CASE b = ~x  BY <1>6, <2>1, Zenon DEF Closing
  <2>2. CASE b # (~x)  BY <2>2 DEF Closing
  <2>. QED  BY <2>1, <2>2, Zenon
<1>7. Moved(leaf, Append(m, x)) = m  BY MovedPaths DEF Closing
<1>. QED  BY <1>1, <1>2, <1>3, <1>5, <1>6, <1>7 DEF Staying

\* No two of them move to the same place.
LEMMA MovedApart ==
    ASSUME NEW t, Tree(t), NEW leaf, NEW m, NEW x, Closing(t, leaf, m, x)
    PROVE  \A q, r \in Staying(t, leaf, m) : Moved(leaf, q) = Moved(leaf, r) => q = r
<1>1. PICK beside \in Path : beside = Append(m, x)  BY AppendPath DEF Closing
<1>2. \A s \in Path : Moved(leaf, beside \o s) = m \o s  BY <1>1, MovedFacts DEF Closing
<1>3. \A q \in Path : ~Below(beside, q) => Moved(leaf, q) = q  BY <1>1, MovedFacts DEF Closing
<1>4. Staying(t, leaf, m) \subseteq Path  BY TreeFacts DEF Staying
<1>5. ASSUME NEW q \in Staying(t, leaf, m), NEW r \in Staying(t, leaf, m), Below(beside, q), ~Below(beside, r)
      PROVE  Moved(leaf, q) # Moved(leaf, r)
  <2>1. PICK s \in Path : q = beside \o s  BY <1>5 DEF Below
  <2>2. Moved(leaf, q) = m \o s /\ Moved(leaf, r) = r  BY <1>2, <1>3, <1>4, <1>5, <2>1
  <2>. SUFFICES ASSUME r = m \o s PROVE FALSE  BY <2>2
  <2>3. m \in Path  BY DEF Closing
  <2>4. CASE s = << >>
    <3>1. m \o << >> = m  BY <2>3, ConcatEmptySeq DEF Path
    <3>. QED  BY <2>4, <3>1 DEF Staying
  <2>5. CASE s # << >>
    <3>1. PICK b \in BOOLEAN, v \in Path : m \o s = Append(m, b) \o v
      <4>1. \A w \in Path \ {<< >>} : \E b \in BOOLEAN, v \in Path : m \o w = Append(m, b) \o v
        BY <2>3, PathsBelow, Zenon
      <4>. QED  BY <2>5, <4>1
    <3>2. Below(Append(m, b), r)  BY <3>1 DEF Below
    <3>3. Append(m, b) = leaf.path
      <4>1. Append(m, b) # leaf.path => b = x  BY SiblingStays
      <4>. QED  BY <1>1, <1>5, <3>2, <4>1
    <3>4. r = leaf.path
      <4>1. leaf \in t.leaves /\ r \in Nodes(t)  BY DEF Closing, Staying
      <4>. QED  BY <3>2, <3>3, <4>1, NothingBelow
    <3>. QED  BY <3>4 DEF Staying
  <2>. QED  BY <2>4, <2>5
<1>6. ASSUME NEW q \in Staying(t, leaf, m), NEW r \in Staying(t, leaf, m), Moved(leaf, q) = Moved(leaf, r)
      PROVE  q = r
  <2>1. CASE Below(beside, q) /\ Below(beside, r)
    <3>1. PICK s \in Path : q = beside \o s  BY <2>1 DEF Below
    <3>2. PICK v \in Path : r = beside \o v  BY <2>1 DEF Below
    <3>3. m \o s = m \o v  BY <1>2, <1>6, <3>1, <3>2
    <3>4. \A a, c \in Path : m \o a = m \o c => a = c  BY PathsBelow, Zenon DEF Closing
    <3>. QED  BY <3>1, <3>2, <3>3, <3>4
  <2>2. CASE ~Below(beside, q) /\ ~Below(beside, r)  BY <1>3, <1>4, <1>6, <2>2
  <2>. QED  BY <1>5, <1>6, <2>1, <2>2
<1>. QED  BY <1>6

\* What closing a leaf makes of a tab.
IsWithout(t, leaf, m, u) ==
    /\ u \in [frame : {t.frame}, leaves : {u.leaves}, cuts : {u.cuts}]
    /\ u.leaves = {[l EXCEPT !.path = Moved(leaf, l.path)] : l \in t.leaves \ {leaf}}
    /\ Cuts(u) = {Moved(leaf, q) : q \in Cuts(t) \ {m}}
    /\ u.cuts = [p \in Cuts(u) |-> u.cuts[p]]
    /\ \A q \in Cuts(t) \ {m} : u.cuts[Moved(leaf, q)] = t.cuts[q]
    /\ Nodes(u) = {Moved(leaf, q) : q \in Staying(t, leaf, m)}

LEMMA WithoutFields ==
    ASSUME NEW t, Tree(t), NEW leaf, NEW m, NEW x, Closing(t, leaf, m, x), NEW u, u = Without(t, leaf)
    PROVE  IsWithout(t, leaf, m, u)
<1>1. Front(leaf.path) = m
  <2>1. (~x) \in BOOLEAN  BY DEF Closing
  <2>2. Front(Append(m, ~x)) = m  BY <2>1, AppendPath, Zenon DEF Closing
  <2>. QED  BY <2>2, Zenon DEF Closing
<1>2. PICK kept : kept = Cuts(t) \ {m}  OBVIOUS
<1>3. PICK leaves, cuts :
         /\ leaves = {[l EXCEPT !.path = Moved(leaf, l.path)] : l \in t.leaves \ {leaf}}
         /\ cuts = [p \in {Moved(leaf, q) : q \in kept} |->
                       t.cuts[CHOOSE q \in kept : Moved(leaf, q) = p]]
  OBVIOUS
<1>4. t \in [frame : {t.frame}, leaves : {t.leaves}, cuts : {t.cuts}]  BY DEF Tree
<1>5. u = [t EXCEPT !.leaves = leaves, !.cuts = cuts]  BY <1>1, <1>2, <1>3 DEF Without
<1>6. u.frame = t.frame /\ u.leaves = leaves /\ u.cuts = cuts  BY <1>4, <1>5
<1>7. u \in [frame : {t.frame}, leaves : {u.leaves}, cuts : {u.cuts}]  BY <1>4, <1>5
<1>8. Cuts(u) = {Moved(leaf, q) : q \in kept}  BY <1>3, <1>6 DEF Cuts
<1>9. ASSUME NEW q \in kept PROVE u.cuts[Moved(leaf, q)] = t.cuts[q]
  <2>1. kept \subseteq Staying(t, leaf, m)
    <3>1. leaf.path \notin Cuts(t)  BY SiblingStays
    <3>. QED  BY <1>2, <3>1 DEF Staying, Nodes
  <2>2. \A a, b \in kept : Moved(leaf, a) = Moved(leaf, b) => a = b  BY <2>1, MovedApart
  <2>3. (CHOOSE a \in kept : Moved(leaf, a) = Moved(leaf, q)) = q  BY <2>2
  <2>. QED  BY <1>3, <1>6, <2>3
<1>10. Nodes(u) = {Moved(leaf, q) : q \in Staying(t, leaf, m)}
  <2>1. \A l \in t.leaves \ {leaf} : [l EXCEPT !.path = Moved(leaf, l.path)].path = Moved(leaf, l.path)
    BY DEF Tree
  <2>2. {l.path : l \in leaves} = {Moved(leaf, l.path) : l \in t.leaves \ {leaf}}
    <3>1. ASSUME NEW p \in {l.path : l \in leaves} PROVE p \in {Moved(leaf, l.path) : l \in t.leaves \ {leaf}}
      <4>1. PICK k \in leaves : p = k.path  OBVIOUS
      <4>2. PICK l \in t.leaves \ {leaf} : k = [l EXCEPT !.path = Moved(leaf, l.path)]  BY <1>3
      <4>3. p = Moved(leaf, l.path)  BY <2>1, <4>1, <4>2
      <4>. QED  BY <4>3
    <3>2. ASSUME NEW l \in t.leaves \ {leaf} PROVE Moved(leaf, l.path) \in {k.path : k \in leaves}
      <4>1. PICK k \in leaves : k = [l EXCEPT !.path = Moved(leaf, l.path)]  BY <1>3
      <4>2. k.path = Moved(leaf, l.path)  BY <2>1, <4>1
      <4>. QED  BY <4>2
    <3>. QED  BY <3>1, <3>2
  <2>3. Staying(t, leaf, m) = kept \cup {l.path : l \in t.leaves \ {leaf}}
    <3>1. \A k, l \in t.leaves : k.path = l.path => k = l  BY DEF Tree
    <3>2. leaf \in t.leaves /\ m \in Cuts(t)  BY DEF Closing
    <3>3. \A l \in t.leaves : l.path \notin Cuts(t)  BY DEF Tree
    <3>4. ASSUME NEW q \in Staying(t, leaf, m) PROVE q \in kept \cup {l.path : l \in t.leaves \ {leaf}}
      BY <1>2, <3>1, <3>2 DEF Staying, Nodes
    <3>5. ASSUME NEW q \in kept PROVE q \in Staying(t, leaf, m)
      BY <1>2, <3>2, <3>3 DEF Staying, Nodes
    <3>6. ASSUME NEW l \in t.leaves \ {leaf} PROVE l.path \in Staying(t, leaf, m)
      BY <3>1, <3>2, <3>3 DEF Staying, Nodes
    <3>. QED  BY <3>4, <3>5, <3>6
  <2>4. Nodes(u) = {Moved(leaf, q) : q \in kept} \cup {Moved(leaf, l.path) : l \in t.leaves \ {leaf}}
    BY <1>6, <1>8, <2>2 DEF Nodes
  <2>5. {Moved(leaf, l.path) : l \in t.leaves \ {leaf}}
           = {Moved(leaf, q) : q \in {l.path : l \in t.leaves \ {leaf}}}
    OBVIOUS
  <2>. QED  BY <2>3, <2>4, <2>5
<1>11. u.cuts = [p \in Cuts(u) |-> u.cuts[p]]  BY <1>3, <1>6, <1>8
<1>. QED  BY <1>2, <1>3, <1>6, <1>7, <1>8, <1>9, <1>10, <1>11 DEF IsWithout

\* Every leaf that stays keeps its role and its number.
LEMMA WithoutLeaves ==
    ASSUME NEW t, Tree(t), NEW leaf, NEW m, NEW x, Closing(t, leaf, m, x), NEW u, IsWithout(t, leaf, m, u)
    PROVE  /\ \A l \in u.leaves : \E k \in t.leaves \ {leaf} :
                 /\ l = [path |-> Moved(leaf, k.path), role |-> k.role, id |-> k.id]
                 /\ k.path \in Staying(t, leaf, m) /\ k.path \notin Cuts(t)
           /\ \A k \in t.leaves \ {leaf} :
                 \E l \in u.leaves : l = [path |-> Moved(leaf, k.path), role |-> k.role, id |-> k.id]
           /\ IsFiniteSet(u.leaves)
<1>1. ASSUME NEW k \in t.leaves \ {leaf}
      PROVE  /\ [k EXCEPT !.path = Moved(leaf, k.path)]
                    = [path |-> Moved(leaf, k.path), role |-> k.role, id |-> k.id]
             /\ k.path \in Staying(t, leaf, m) /\ k.path \notin Cuts(t)
  <2>1. k \in [path : Seq(BOOLEAN), role : DOMAIN RolePriority, id : Nat]  BY DEF Tree
  <2>2. [k EXCEPT !.path = Moved(leaf, k.path)]
           = [path |-> Moved(leaf, k.path), role |-> k.role, id |-> k.id]
    BY <2>1
  <2>3. \A a, l \in t.leaves : a.path = l.path => a = l  BY DEF Tree
  <2>4. leaf \in t.leaves /\ m \in Cuts(t)  BY DEF Closing
  <2>5. k.path \in Nodes(t) \ Cuts(t)  BY TreeFacts
  <2>. QED  BY <2>2, <2>3, <2>4, <2>5 DEF Staying
<1>2. u.leaves = {[l EXCEPT !.path = Moved(leaf, l.path)] : l \in t.leaves \ {leaf}}  BY DEF IsWithout
<1>3. IsFiniteSet(u.leaves)
  <2>1. IsFiniteSet(t.leaves \ {leaf})  BY FS_RemoveElement DEF Tree
  <2>2. PICK f : f = [l \in t.leaves \ {leaf} |-> [l EXCEPT !.path = Moved(leaf, l.path)]]  OBVIOUS
  <2>3. f \in Surjection(t.leaves \ {leaf}, u.leaves)  BY <1>2, <2>2 DEF Surjection
  <2>. QED  BY <2>1, <2>3, FS_Surjection
<1>. QED  BY <1>1, <1>2, <1>3

LEMMA WithoutTree ==
    ASSUME NEW t, Tree(t), DispatcherTab(t), NEW n, Shallow(t, n), NEW leaf, leaf.role # "secretary",
           NEW m, NEW x, Closing(t, leaf, m, x), NEW u, IsWithout(t, leaf, m, u)
    PROVE  Tree(u) /\ DispatcherTab(u) /\ Shallow(u, n)
<1>1. /\ Cuts(u) = {Moved(leaf, q) : q \in Cuts(t) \ {m}}
      /\ Nodes(u) = {Moved(leaf, q) : q \in Staying(t, leaf, m)}
  BY DEF IsWithout
<1>2. \A q, r \in Staying(t, leaf, m) : Moved(leaf, q) = Moved(leaf, r) => q = r  BY MovedApart
<1>3. Cuts(t) \ {m} \subseteq Staying(t, leaf, m) /\ Staying(t, leaf, m) \subseteq Nodes(t)
  BY SiblingStays DEF Staying, Nodes
<1>4. Nodes(t) \subseteq Path /\ m \in Path /\ m \in Cuts(t) /\ leaf.path # << >>
  BY TreeFacts, SiblingStays DEF Closing
<1>5. \A q \in Path : Moved(leaf, q) \in Path /\ Len(Moved(leaf, q)) <= Len(q)  BY MovedPaths DEF Closing
<1>6. \A q \in Path \ {m}, b \in BOOLEAN : Moved(leaf, Append(q, b)) = Append(Moved(leaf, q), b)
  BY MovedPaths DEF Closing
<1>7. m \in Nodes(u) /\ Moved(leaf, m) = m
  <2>1. Append(m, x) \in Staying(t, leaf, m) /\ Moved(leaf, Append(m, x)) = m  BY SiblingStays
  <2>2. \A q \in Path : Len(q) <= Len(m) => Moved(leaf, q) = q  BY MovedPaths DEF Closing
  <2>3. Len(m) \in Nat  BY <1>4 DEF Path
  <2>. QED  BY <1>1, <1>4, <2>1, <2>2, <2>3
<1>8. \A q \in Path : Len(q) <= Len(m) => Moved(leaf, q) = q  BY MovedPaths DEF Closing
<1>9. Tree(u)
  <2>1. u \in [frame : [x : Nat, y : Nat, w : Nat, h : Nat], leaves : {u.leaves}, cuts : {u.cuts}]
    <3>1. t.frame \in [x : Nat, y : Nat, w : Nat, h : Nat]  BY DEF Tree
    <3>. QED  BY <3>1 DEF IsWithout
  <2>2. u.cuts \in [Cuts(u) -> {"vertical", "horizontal"}]
    <3>1. \A q \in Cuts(t) : t.cuts[q] \in {"vertical", "horizontal"}  BY TreeFacts
    <3>2. \A p \in Cuts(u) : u.cuts[p] \in {"vertical", "horizontal"}  BY <1>1, <3>1 DEF IsWithout
    <3>3. u.cuts = [p \in Cuts(u) |-> u.cuts[p]]  BY DEF IsWithout
    <3>. QED  BY <3>2, <3>3
  <2>3. IsFiniteSet(u.leaves)  BY WithoutLeaves
  <2>4. \A l \in u.leaves : l \in [path : Seq(BOOLEAN), role : DOMAIN RolePriority, id : Nat]
    <3>. SUFFICES ASSUME NEW l \in u.leaves
                  PROVE  l \in [path : Seq(BOOLEAN), role : DOMAIN RolePriority, id : Nat]
      OBVIOUS
    <3>1. PICK k \in t.leaves \ {leaf} :
              /\ l = [path |-> Moved(leaf, k.path), role |-> k.role, id |-> k.id]
              /\ k.path \in Staying(t, leaf, m) /\ k.path \notin Cuts(t)
      BY WithoutLeaves
    <3>2. k.role \in DOMAIN RolePriority /\ k.id \in Nat  BY DEF Tree
    <3>3. Moved(leaf, k.path) \in Seq(BOOLEAN)  BY <1>3, <1>4, <1>5, <3>1 DEF Path
    <3>. QED  BY <3>1, <3>2, <3>3
  <2>5. \A k, l \in u.leaves : k.path = l.path \/ k.id = l.id => k = l
    <3>. SUFFICES ASSUME NEW k \in u.leaves, NEW l \in u.leaves, k.path = l.path \/ k.id = l.id PROVE k = l
      OBVIOUS
    <3>1. PICK a \in t.leaves \ {leaf} :
              /\ k = [path |-> Moved(leaf, a.path), role |-> a.role, id |-> a.id]
              /\ a.path \in Staying(t, leaf, m) /\ a.path \notin Cuts(t)
      BY WithoutLeaves
    <3>2. PICK c \in t.leaves \ {leaf} :
              /\ l = [path |-> Moved(leaf, c.path), role |-> c.role, id |-> c.id]
              /\ c.path \in Staying(t, leaf, m) /\ c.path \notin Cuts(t)
      BY WithoutLeaves
    <3>3. a.path = c.path \/ a.id = c.id  BY <1>2, <3>1, <3>2
    <3>4. \A e, f \in t.leaves : e.path = f.path \/ e.id = f.id => e = f  BY DEF Tree
    <3>. QED  BY <3>1, <3>2, <3>3, <3>4
  <2>6. << >> \in Nodes(u)
    <3>1. CASE m = << >>  BY <1>7, <3>1
    <3>2. CASE m # << >>
      <4>1. << >> \in Staying(t, leaf, m)  BY <1>4, <3>2, TreeFacts DEF Staying
      <4>2. << >> \in Path /\ Len(m) \in Nat /\ Len(<< >>) = 0  BY <1>4, EmptySeq DEF Path
      <4>3. Moved(leaf, << >>) = << >>  BY <1>8, <4>2
      <4>. QED  BY <1>1, <4>1, <4>3
    <3>. QED  BY <3>1, <3>2
  <2>7. \A p \in Cuts(u) : p \in Seq(BOOLEAN) /\ \A b \in BOOLEAN : Append(p, b) \in Nodes(u)
    <3>. SUFFICES ASSUME NEW p \in Cuts(u), NEW b \in BOOLEAN PROVE p \in Path /\ Append(p, b) \in Nodes(u)
      BY DEF Path
    <3>1. PICK q \in Cuts(t) \ {m} : p = Moved(leaf, q)  BY <1>1
    <3>2. q \in Path /\ Append(q, b) \in Nodes(t)  BY <3>1, TreeFacts
    <3>3. Append(p, b) = Moved(leaf, Append(q, b))  BY <1>6, <3>1, <3>2
    <3>4. CASE Append(q, b) = m
      <4>1. Append(p, b) = m  BY <1>7, <3>3, <3>4
      <4>2. p \in Path  BY <1>5, <3>1, <3>2
      <4>. QED  BY <1>7, <4>1, <4>2
    <3>5. CASE Append(q, b) # m
      <4>1. Append(q, b) # leaf.path
        <5>1. Front(Append(q, b)) = q  BY <3>2, AppendPath
        <5>2. (~x) \in BOOLEAN  BY DEF Closing
        <5>3. Front(Append(m, ~x)) = m  BY <1>4, <5>2, AppendPath, Zenon
        <5>4. Front(leaf.path) = m  BY <5>3, Zenon DEF Closing
        <5>. QED  BY <3>1, <5>1, <5>4
      <4>2. Append(q, b) \in Staying(t, leaf, m)  BY <3>2, <3>5, <4>1 DEF Staying
      <4>. QED  BY <1>1, <1>5, <3>1, <3>2, <3>3, <4>2
    <3>. QED  BY <1>5, <3>1, <3>2, <3>4, <3>5
  <2>8. \A p \in Nodes(u) \ {<< >>} : Front(p) \in Cuts(u)
    <3>. SUFFICES ASSUME NEW p \in Nodes(u), p # << >> PROVE Front(p) \in Cuts(u)
      OBVIOUS
    <3>1. PICK q \in Staying(t, leaf, m) : p = Moved(leaf, q)  BY <1>1
    <3>2. q \in Path /\ q \in Nodes(t)  BY <1>3, <1>4, <3>1
    <3>3. q # << >>
      <4>1. << >> \in Path /\ Len(m) \in Nat /\ Len(<< >>) = 0  BY <1>4, EmptySeq DEF Path
      <4>2. Moved(leaf, << >>) = << >>  BY <1>8, <4>1
      <4>. QED  BY <3>1, <4>2
    <3>4. PICK r \in Path, c \in BOOLEAN : q = Append(r, c)  BY <3>2, <3>3, SequenceEmptyOrAppend DEF Path
    <3>5. r \in Cuts(t)  BY <3>2, <3>4, TreeFacts
    <3>6. CASE r = m
      <4>1. c = x
        <5>1. Append(m, c) # leaf.path  BY <3>1, <3>4, <3>6 DEF Staying
        <5>. QED  BY <5>1, SiblingStays
      <4>2. p = m  BY <3>1, <3>4, <3>6, <4>1, SiblingStays
      <4>3. Front(m) \in Cuts(t)  BY <1>4, <3>1, <4>2, TreeFacts DEF Tree
      <4>4. PICK a \in Path, b \in BOOLEAN : m = Append(a, b)
        BY <1>4, <4>2, SequenceEmptyOrAppend DEF Path
      <4>5. Front(m) = a /\ Len(m) = Len(a) + 1 /\ Len(a) \in Nat  BY <4>4, AppendPath
      <4>6. a # m /\ Moved(leaf, a) = a  BY <1>8, <4>5
      <4>. QED  BY <1>1, <4>2, <4>3, <4>5, <4>6
    <3>7. CASE r # m
      <4>1. p = Append(Moved(leaf, r), c) /\ Moved(leaf, r) \in Path  BY <1>5, <1>6, <3>1, <3>4, <3>7
      <4>2. Front(p) = Moved(leaf, r)  BY <4>1, AppendPath
      <4>. QED  BY <1>1, <3>5, <3>7, <4>2
    <3>. QED  BY <3>6, <3>7
  <2>9. \A l \in u.leaves : l.path \notin Cuts(u)
    <3>. SUFFICES ASSUME NEW l \in u.leaves PROVE l.path \notin Cuts(u)  OBVIOUS
    <3>1. PICK k \in t.leaves \ {leaf} :
              /\ l = [path |-> Moved(leaf, k.path), role |-> k.role, id |-> k.id]
              /\ k.path \in Staying(t, leaf, m) /\ k.path \notin Cuts(t)
      BY WithoutLeaves
    <3>2. l.path = Moved(leaf, k.path)  BY <3>1
    <3>. QED  BY <1>1, <1>2, <1>3, <3>1, <3>2
  <2>. QED  BY <2>1, <2>2, <2>3, <2>4, <2>5, <2>6, <2>7, <2>8, <2>9 DEF Tree
<1>10. DispatcherTab(u)
  <2>1. PICK k \in t.leaves : k.role = "secretary"  BY DEF DispatcherTab
  <2>2. k \in t.leaves \ {leaf}  BY <2>1
  <2>3. PICK l \in u.leaves : l = [path |-> Moved(leaf, k.path), role |-> k.role, id |-> k.id]
    BY <2>2, WithoutLeaves
  <2>4. l.role = "secretary"  BY <2>1, <2>3
  <2>5. ASSUME NEW a \in u.leaves, NEW c \in u.leaves, a.role = "dispatcher", c.role = "dispatcher" PROVE a = c
    <3>1. PICK d \in t.leaves \ {leaf} : a = [path |-> Moved(leaf, d.path), role |-> d.role, id |-> d.id]
      BY WithoutLeaves
    <3>2. PICK e \in t.leaves \ {leaf} : c = [path |-> Moved(leaf, e.path), role |-> e.role, id |-> e.id]
      BY WithoutLeaves
    <3>3. d = e
      <4>1. d.role = "dispatcher" /\ e.role = "dispatcher"  BY <2>5, <3>1, <3>2
      <4>. QED  BY <4>1 DEF DispatcherTab
    <3>. QED  BY <3>1, <3>2, <3>3
  <2>. QED  BY <2>4, <2>5 DEF DispatcherTab
<1>11. Shallow(u, n)
  <2>1. \A p \in Nodes(t) : Len(p) \in Nat  BY <1>4 DEF Path
  <2>2. \A p \in Nodes(t) : Len(Moved(leaf, p)) \in Nat  BY <1>4, <1>5 DEF Path
  <2>3. n \in Nat /\ \A p \in Nodes(t) : Len(p) < n  BY DEF Shallow
  <2>4. ASSUME NEW p \in Nodes(u) PROVE Len(p) < n
    <3>1. PICK q \in Staying(t, leaf, m) : p = Moved(leaf, q)  BY <1>1
    <3>2. q \in Nodes(t) /\ q \in Path  BY <1>3, <1>4
    <3>. QED  BY <1>5, <2>1, <2>2, <2>3, <3>1, <3>2
  <2>. QED  BY <2>3, <2>4 DEF Shallow
<1>. QED  BY <1>9, <1>10, <1>11

\* Who stays gets no smaller.
LEMMA WithoutRects ==
    ASSUME NEW t, Tree(t), NEW leaf, NEW m, NEW x, Closing(t, leaf, m, x),
           NEW u, IsWithout(t, leaf, m, u), Tree(u)
    PROVE  \A q \in Nodes(t) \ {leaf.path} : Larger(Rect(u, Moved(leaf, q)), Rect(t, q))
<1>1. PICK S : S = {q \in Path : q # leaf.path => Larger(Rect(u, Moved(leaf, q)), Rect(t, q))}  OBVIOUS
<1>2. Nodes(t) \subseteq Path /\ m \in Path  BY TreeFacts DEF Closing
<1>3. Moved(leaf, m) = m /\ \A q \in Path \ {m}, b \in BOOLEAN :
          Moved(leaf, Append(q, b)) = Append(Moved(leaf, q), b)
  <2>1. Len(m) \in Nat  BY <1>2 DEF Path
  <2>2. Moved(leaf, m) = m  BY <1>2, <2>1, MovedPaths DEF Closing
  <2>. QED  BY <2>2, MovedPaths DEF Closing
<1>4. << >> \in S
  <2>1. << >> \in Path /\ Len(<< >>) = 0 /\ Len(m) \in Nat  BY <1>2, EmptySeq DEF Path
  <2>2. Moved(leaf, << >>) = << >>  BY <2>1, MovedPaths DEF Closing
  <2>3. Rect(u, << >>) = t.frame /\ Rect(t, << >>) = t.frame  BY RectStep DEF IsWithout
  <2>4. t.frame \in Frames  BY DEF Tree, Frames
  <2>. QED  BY <1>1, <2>1, <2>2, <2>3, <2>4 DEF Larger, Frames
<1>5. \A q \in Nodes(t) \ {leaf.path} : Moved(leaf, q) \in Nodes(u)
  <2>1. m \in Nodes(u)
    <3>1. Append(m, x) \in Staying(t, leaf, m) /\ Moved(leaf, Append(m, x)) = m  BY SiblingStays
    <3>. QED  BY <3>1 DEF IsWithout
  <2>. QED  BY <1>3, <2>1 DEF IsWithout, Staying
<1>6. ASSUME NEW q \in Cuts(t) \cap S, NEW b \in BOOLEAN, Append(q, b) \in Nodes(t) PROVE Append(q, b) \in S
  <2>1. q \in Path /\ Append(q, b) \in Path /\ t.cuts[q] \in {"vertical", "horizontal"} /\ q \in Nodes(t)
    BY <1>1, AppendPath, TreeFacts
  <2>. SUFFICES ASSUME Append(q, b) # leaf.path
                PROVE  Larger(Rect(u, Moved(leaf, Append(q, b))), Rect(t, Append(q, b)))
    BY <1>1, <2>1
  <2>2. q # leaf.path /\ Larger(Rect(u, Moved(leaf, q)), Rect(t, q))  BY <1>1, SiblingStays
  <2>3. PICK r \in Frames : r = Rect(u, Moved(leaf, q))  BY <1>5, <2>1, <2>2, NodeRects
  <2>4. PICK s \in Frames : s = Rect(t, q)  BY <2>1, NodeRects
  <2>5. Rect(t, Append(q, b)) = Half(s, t.cuts[q], b)  BY <2>1, <2>4, RectStep
  <2>6. CASE q = m
    <3>1. b = x
      <4>1. Append(m, b) # leaf.path => b = x  BY SiblingStays
      <4>. QED  BY <2>6, <4>1
    <3>2. Moved(leaf, Append(q, b)) = m /\ Moved(leaf, q) = m  BY <1>3, <2>6, <3>1, SiblingStays
    <3>3. PICK g \in Frames : g = Half(s, t.cuts[q], b) /\ Inside(g, s)  BY <2>1, Halves
    <3>4. Larger(r, g)  BY <2>2, <2>3, <2>4, <3>3 DEF Larger, Inside, Frames
    <3>. QED  BY <2>3, <2>5, <3>2, <3>3, <3>4
  <2>7. CASE q # m
    <3>1. Moved(leaf, Append(q, b)) = Append(Moved(leaf, q), b)  BY <1>3, <2>1, <2>7
    <3>2. Moved(leaf, q) \in Path  BY <1>5, <2>1, <2>2, TreeFacts
    <3>3. u.cuts[Moved(leaf, q)] = t.cuts[q]  BY <2>7 DEF IsWithout
    <3>4. Rect(u, Append(Moved(leaf, q), b)) = Half(r, t.cuts[q], b)  BY <2>3, <3>2, <3>3, RectStep
    <3>5. Larger(Half(r, t.cuts[q], b), Half(s, t.cuts[q], b))  BY <2>1, <2>2, <2>3, <2>4, LargerHalves
    <3>. QED  BY <2>5, <3>1, <3>4, <3>5
  <2>. QED  BY <2>6, <2>7
<1>7. Nodes(t) \subseteq S  BY <1>4, <1>6, NodeInduction
<1>. QED  BY <1>1, <1>7

\* A close: what is left is such a tab, its panes no smaller.
LEMMA Closed ==
    ASSUME NEW t, Tree(t), DispatcherTab(t), NEW n, Shallow(t, n), NEW leaf \in t.leaves,
           leaf.role \in {"worker", "curator"}, NEW u, u = Without(t, leaf)
    PROVE  /\ Tree(u) /\ DispatcherTab(u) /\ Shallow(u, n) /\ u.frame = t.frame
           /\ \A q \in Panes(u) : \E p \in Panes(t) :
                 p.id = q.id /\ p.role = q.role /\ Larger(q.at, p.at)
<1>1. PICK m, x : Closing(t, leaf, m, x)  BY ClosingLeaf
<1>2. IsWithout(t, leaf, m, u)  BY <1>1, WithoutFields
<1>3. Tree(u) /\ DispatcherTab(u) /\ Shallow(u, n)  BY <1>1, <1>2, WithoutTree
<1>4. ASSUME NEW q \in Panes(u)
      PROVE  \E p \in Panes(t) : p.id = q.id /\ p.role = q.role /\ Larger(q.at, p.at)
  <2>1. PICK l \in u.leaves : q = [id |-> l.id, role |-> l.role, at |-> Rect(u, l.path)]  BY DEF Panes
  <2>2. PICK k \in t.leaves \ {leaf} :
            /\ l = [path |-> Moved(leaf, k.path), role |-> k.role, id |-> k.id]
            /\ k.path \in Staying(t, leaf, m) /\ k.path \notin Cuts(t)
    BY <1>1, <1>2, WithoutLeaves
  <2>3. Larger(Rect(u, Moved(leaf, k.path)), Rect(t, k.path))
    BY <1>1, <1>2, <1>3, <2>2, WithoutRects DEF Staying
  <2>4. PICK p : p = [id |-> k.id, role |-> k.role, at |-> Rect(t, k.path)]  OBVIOUS
  <2>5. p \in Panes(t)  BY <2>4 DEF Panes
  <2>. QED  BY <2>1, <2>2, <2>3, <2>4, <2>5
<1>5. u.frame = t.frame  BY <1>2 DEF IsWithout
<1>. QED  BY <1>3, <1>4, <1>5

-----------------------------------------------------------------------------
(* The choice. *)

\* What a direction promises of its child, and either half keeps.
LEMMA OptionFacts ==
    ASSUME NEW p, p.at \in Frames, NEW o \in SplitOptions(p)
    PROVE  /\ o.direction \in {"vertical", "horizontal"} /\ o.metric \in 0..(p.at.w + p.at.h)
           /\ o.direction = "vertical" => o.w = p.at.w \div 2
           /\ \A b \in BOOLEAN : /\ Half(p.at, o.direction, b) \in Frames
                                 /\ Half(p.at, o.direction, b).w >= o.w
                                 /\ Half(p.at, o.direction, b).h >= o.h
           /\ o.w \in Nat /\ o.h \in Nat /\ o.w >= MinWidth /\ o.h >= MinHeight
           /\ p.role = "secretary" => o.w >= SecretaryMinWidth /\ o.h >= SecretaryMinHeight
<1>1. PICK w \in Nat, h \in Nat : w = p.at.w /\ h = p.at.h  BY DEF Frames
<1>2. PICK m \in Nat, n \in Nat : m = w \div 2 /\ n = h \div 2 /\ m <= w /\ n <= h  BY <1>1
<1>3. \/ o = [direction |-> "vertical", w |-> m, h |-> h, metric |-> m]
      \/ o = [direction |-> "horizontal", w |-> w, h |-> n, metric |-> n]
  BY <1>1, <1>2 DEF SplitOptions
<1>4. /\ o.w >= MinWidth /\ o.h >= MinHeight
      /\ p.role = "secretary" => o.w >= SecretaryMinWidth /\ o.h >= SecretaryMinHeight
  BY DEF SplitOptions
<1>5. CASE o = [direction |-> "vertical", w |-> m, h |-> h, metric |-> m]
  <2>1. o.direction = "vertical" /\ o.w = m /\ o.h = h /\ o.metric = m  BY <1>5
  <2>2. \A b \in BOOLEAN : /\ Half(p.at, "vertical", b) \in Frames
                           /\ Half(p.at, "vertical", b).w >= m /\ Half(p.at, "vertical", b).h >= h
    BY <1>1, <1>2, Halves
  <2>3. o.metric \in 0..(p.at.w + p.at.h)  BY <1>1, <1>2, <2>1
  <2>. QED  BY <1>1, <1>2, <1>4, <2>1, <2>2, <2>3
<1>6. CASE o = [direction |-> "horizontal", w |-> w, h |-> n, metric |-> n]
  <2>1. o.direction = "horizontal" /\ o.w = w /\ o.h = n /\ o.metric = n  BY <1>6
  <2>2. \A b \in BOOLEAN : /\ Half(p.at, "horizontal", b) \in Frames
                           /\ Half(p.at, "horizontal", b).w >= w /\ Half(p.at, "horizontal", b).h >= n
    BY <1>1, <1>2, Halves
  <2>3. o.metric \in 0..(p.at.w + p.at.h)  BY <1>1, <1>2, <2>1
  <2>. QED  BY <1>1, <1>2, <1>4, <2>1, <2>2, <2>3
<1>. QED  BY <1>3, <1>5, <1>6

LEMMA BestOptionExists ==
    ASSUME NEW p, p.at \in Frames, SplitOptions(p) # {}
    PROVE  BestOption(SplitOptions(p)) \in SplitOptions(p)
<1>1. PICK m, n, w, h : m = p.at.w \div 2 /\ n = p.at.h \div 2 /\ w = p.at.w /\ h = p.at.h  OBVIOUS
<1>2. m \in Nat /\ n \in Nat  BY <1>1 DEF Frames
<1>3. PICK v : v = [direction |-> "vertical", w |-> m, h |-> h, metric |-> m]  OBVIOUS
<1>4. PICK z : z = [direction |-> "horizontal", w |-> w, h |-> n, metric |-> n]  OBVIOUS
<1>5. v.metric = m /\ z.metric = n /\ v.direction = "vertical"  BY <1>3, <1>4
<1>6. SplitOptions(p) \subseteq {v, z}  BY <1>1, <1>3, <1>4 DEF SplitOptions
<1>7. \E o \in SplitOptions(p) : \A b \in SplitOptions(p) :
         o.metric > b.metric \/ (o.metric = b.metric /\ (o.direction = "vertical" \/ o = b))
  <2>1. CASE v \in SplitOptions(p) /\ (z \notin SplitOptions(p) \/ m >= n)
    <3>1. \A b \in SplitOptions(p) : v.metric > b.metric \/ (v.metric = b.metric /\ v.direction = "vertical")
      BY <1>2, <1>5, <1>6, <2>1
    <3>. QED  BY <2>1, <3>1
  <2>2. CASE z \in SplitOptions(p) /\ (v \notin SplitOptions(p) \/ n > m)
    <3>1. \A b \in SplitOptions(p) : z.metric > b.metric \/ (z.metric = b.metric /\ z = b)
      BY <1>2, <1>5, <1>6, <2>2
    <3>. QED  BY <2>2, <3>1
  <2>. QED  BY <1>2, <1>6, <2>1, <2>2
<1>. QED  BY <1>7 DEF BestOption

LEMMA CandidateFacts ==
    ASSUME NEW p, p.at \in Frames, SplitOptions(p) # {}, p.role \in DOMAIN RolePriority
    PROVE  /\ \E o \in SplitOptions(p) :
                 /\ Candidate(p).direction = o.direction /\ Candidate(p).metric = o.metric
                 /\ p.role = "dispatcher" /\ Candidate(p).priority # NarrowPriority
                       => o.direction = "vertical" /\ o.w >= DispatcherMinWidth
           /\ Candidate(p).id = p.id /\ Candidate(p).priority \in 0..4
           /\ p.role # "dispatcher" => Candidate(p).priority > NarrowPriority
<1>1. PICK comfortable :
         comfortable = {o \in SplitOptions(p) : o.direction = "vertical" /\ o.w >= DispatcherMinWidth}
  OBVIOUS
<1>2. PICK first \in BOOLEAN : first <=> (p.role = "dispatcher" /\ comfortable # {})  OBVIOUS
<1>3. PICK option : option = IF first THEN CHOOSE o \in comfortable : TRUE ELSE BestOption(SplitOptions(p))
  OBVIOUS
<1>4. Candidate(p) = [id |-> p.id, direction |-> option.direction, metric |-> option.metric,
                      priority |-> IF p.role = "dispatcher" /\ ~first THEN NarrowPriority
                                   ELSE RolePriority[p.role]]
  <2>1. CASE first  BY <1>1, <1>2, <1>3, <2>1 DEF Candidate
  <2>2. CASE ~first  BY <1>1, <1>2, <1>3, <2>2 DEF Candidate
  <2>. QED  BY <2>1, <2>2
<1>5. option \in SplitOptions(p) /\ (first => option.direction = "vertical" /\ option.w >= DispatcherMinWidth)
  <2>1. CASE first
    <3>1. option \in comfortable  BY <1>2, <1>3, <2>1
    <3>. QED  BY <1>1, <3>1
  <2>2. CASE ~first  BY <1>3, <2>2, BestOptionExists
  <2>. QED  BY <2>1, <2>2
<1>6. /\ Candidate(p).id = p.id /\ Candidate(p).direction = option.direction
      /\ Candidate(p).metric = option.metric
      /\ Candidate(p).priority = IF p.role = "dispatcher" /\ ~first THEN NarrowPriority
                                 ELSE RolePriority[p.role]
  BY <1>4
<1>7. RolePriority[p.role] \in 1..4  BY DEF RolePriority
<1>8. Candidate(p).priority \in 0..4 /\ (p.role # "dispatcher" => Candidate(p).priority > NarrowPriority)
  BY <1>6, <1>7 DEF NarrowPriority
<1>9. p.role = "dispatcher" /\ Candidate(p).priority # NarrowPriority => first  BY <1>6
<1>. QED  BY <1>5, <1>6, <1>8, <1>9

\* Priority, metric and number order candidates: a set of them has a first.
LEMMA FirstCandidate ==
    ASSUME NEW C, C # {}, NEW N \in Nat,
           \A c \in C : c.priority \in 0..N /\ c.metric \in 0..N /\ c.id \in Nat
    PROVE  \E c \in C : \A d \in C : Before(c, d)
<1>1. PICK A : A = {N - c.priority : c \in C}  OBVIOUS
<1>2. PICK a \in A : \A b \in A : a <= b
  <2>1. A \in SUBSET Nat /\ A # {}  BY <1>1
  <2>. QED  BY <2>1, LeastNatural
<1>3. PICK D : D = {c \in C : N - c.priority = a}  OBVIOUS
<1>4. PICK B : B = {N - c.metric : c \in D}  OBVIOUS
<1>5. PICK m \in B : \A b \in B : m <= b
  <2>1. B \in SUBSET Nat /\ B # {}  BY <1>1, <1>2, <1>3, <1>4
  <2>. QED  BY <2>1, LeastNatural
<1>6. PICK E : E = {c \in D : N - c.metric = m}  OBVIOUS
<1>7. PICK I : I = {c.id : c \in E}  OBVIOUS
<1>8. PICK i \in I : \A b \in I : i <= b
  <2>1. I \in SUBSET Nat /\ I # {}  BY <1>3, <1>4, <1>5, <1>6, <1>7
  <2>. QED  BY <2>1, LeastNatural
<1>9. PICK c \in E : c.id = i  BY <1>7, <1>8
<1>10. ASSUME NEW d \in C PROVE Before(c, d)
  <2>1. c \in C /\ N - c.priority = a /\ N - c.metric = m /\ c \in D  BY <1>3, <1>6, <1>9
  <2>2. a <= N - d.priority  BY <1>1, <1>2
  <2>3. CASE N - d.priority # a  BY <2>1, <2>2, <2>3 DEF Before
  <2>4. CASE N - d.priority = a
    <3>1. d \in D /\ m <= N - d.metric  BY <1>3, <1>4, <1>5, <2>4
    <3>2. CASE N - d.metric # m  BY <2>1, <2>4, <3>1, <3>2 DEF Before
    <3>3. CASE N - d.metric = m
      <4>1. c.id <= d.id  BY <1>6, <1>7, <1>8, <1>9, <3>1, <3>3
      <4>. QED  BY <2>1, <2>4, <3>3, <4>1 DEF Before
    <3>. QED  BY <3>2, <3>3
  <2>. QED  BY <2>3, <2>4
<1>. QED  BY <1>3, <1>6, <1>9, <1>10

LEMMA PaneFacts ==
    ASSUME NEW t, Tree(t)
    PROVE  \A p \in Panes(t) : /\ p.at \in Frames /\ Inside(p.at, t.frame) /\ p.id \in Nat
                               /\ p.role \in DOMAIN RolePriority
<1>. SUFFICES ASSUME NEW p \in Panes(t)
              PROVE  /\ p.at \in Frames /\ Inside(p.at, t.frame) /\ p.id \in Nat
                     /\ p.role \in DOMAIN RolePriority
  OBVIOUS
<1>1. PICK l \in t.leaves : p = [id |-> l.id, role |-> l.role, at |-> Rect(t, l.path)]  BY DEF Panes
<1>2. l.path \in Nodes(t) /\ l.id \in Nat  BY TreeFacts
<1>3. l.role \in DOMAIN RolePriority  BY DEF Tree
<1>. QED  BY <1>1, <1>2, <1>3, NodeRects

\* The pane a plan splits is the first of the candidates.
LEMMA Chosen ==
    ASSUME NEW t, Tree(t), Candidates(Panes(t)) # {}
    PROVE  \E p \in Panes(t) :
              /\ ChooseSplit(Panes(t)) = Candidate(p) /\ SplitOptions(p) # {}
              /\ \A d \in Candidates(Panes(t)) : Before(ChooseSplit(Panes(t)), d)
<1>1. PICK C : C = Candidates(Panes(t)) /\ C # {}  OBVIOUS
<1>2. \A c \in C : \E p \in Panes(t) : c = Candidate(p) /\ SplitOptions(p) # {}
  BY <1>1 DEF Candidates
<1>3. t.frame \in Frames  BY DEF Tree, Frames
<1>4. PICK N \in Nat : N = t.frame.w + t.frame.h + 4  BY <1>3 DEF Frames
<1>5. ASSUME NEW c \in C PROVE c.priority \in 0..N /\ c.metric \in 0..N /\ c.id \in Nat
  <2>1. PICK p \in Panes(t) : c = Candidate(p) /\ SplitOptions(p) # {}  BY <1>2
  <2>2. /\ p.at \in Frames /\ Inside(p.at, t.frame) /\ p.id \in Nat /\ p.role \in DOMAIN RolePriority
    BY PaneFacts
  <2>3. PICK o \in SplitOptions(p) : c.metric = o.metric  BY <2>1, <2>2, CandidateFacts
  <2>4. o.metric \in 0..(p.at.w + p.at.h)  BY <2>2, <2>3, OptionFacts
  <2>5. c.id = p.id /\ c.priority \in 0..4  BY <2>1, <2>2, CandidateFacts
  <2>6. p.at.w + p.at.h <= N  BY <1>3, <1>4, <2>2 DEF Inside, Frames
  <2>7. p.at.w + p.at.h \in Nat  BY <2>2 DEF Frames
  <2>8. c.priority \in 0..N  BY <1>3, <1>4, <2>5 DEF Frames
  <2>9. c.metric \in 0..N  BY <2>3, <2>4, <2>6, <2>7
  <2>. QED  BY <2>2, <2>5, <2>8, <2>9
<1>6. \E c \in C : \A d \in C : Before(c, d)  BY <1>1, <1>5, FirstCandidate
<1>7. ChooseSplit(Panes(t)) \in C /\ \A d \in C : Before(ChooseSplit(Panes(t)), d)
  BY <1>1, <1>6 DEF ChooseSplit
<1>. QED  BY <1>1, <1>2, <1>7

LEMMA PaneNumbers ==
    ASSUME NEW t, Tree(t)
    PROVE  \A p, q \in Panes(t) : p.id = q.id => p = q
<1>. SUFFICES ASSUME NEW p \in Panes(t), NEW q \in Panes(t), p.id = q.id PROVE p = q
  OBVIOUS
<1>1. PICK k \in t.leaves : p = [id |-> k.id, role |-> k.role, at |-> Rect(t, k.path)]  BY DEF Panes
<1>2. PICK l \in t.leaves : q = [id |-> l.id, role |-> l.role, at |-> Rect(t, l.path)]  BY DEF Panes
<1>3. k.id = l.id  BY <1>1, <1>2
<1>4. \A a, b \in t.leaves : a.id = b.id => a = b  BY DEF Tree
<1>5. k = l  BY <1>3, <1>4
<1>. QED  BY <1>1, <1>2, <1>5

\* A plan splits the pane p as the option o says: where each pane of the tab comes from.
SplitsPane(t, c, u, p, o) ==
    /\ p \in Panes(t) /\ o \in SplitOptions(p) /\ c = Candidate(p) /\ c.direction = o.direction
    /\ p.role = "dispatcher" /\ c.priority # NarrowPriority
          => o.direction = "vertical" /\ o.w >= DispatcherMinWidth
    /\ \A d \in Candidates(Panes(t)) : Before(c, d)
    /\ \A q \in Panes(u) :
          \/ q \in Panes(t) \ {p}
          \/ q.role = p.role /\ q.id = p.id /\ q.at = Half(p.at, o.direction, FALSE)
          \/ /\ q.role = "worker" /\ q.at = Half(p.at, o.direction, TRUE)
             /\ \A r \in Panes(t) : r.id # q.id

LEMMA Planned ==
    ASSUME NEW t, Tree(t), DispatcherTab(t), NEW n, Shallow(t, n),
           Candidates(Panes(t)) # {}, Cardinality(t.leaves) < MaxLeaves,
           NEW c, c = ChooseSplit(Panes(t)), NEW u, u = Split(t, c.id, c.direction)
    PROVE  /\ Tree(u) /\ DispatcherTab(u) /\ Shallow(u, n + 1) /\ u.frame = t.frame
           /\ \E p, o : SplitsPane(t, c, u, p, o)
<1>1. PICK p \in Panes(t) :
          c = Candidate(p) /\ SplitOptions(p) # {} /\ \A d \in Candidates(Panes(t)) : Before(c, d)
  BY Chosen
<1>2. p.at \in Frames /\ p.role \in DOMAIN RolePriority  BY PaneFacts
<1>3. PICK o \in SplitOptions(p) :
          /\ c.direction = o.direction
          /\ p.role = "dispatcher" /\ c.priority # NarrowPriority
                => o.direction = "vertical" /\ o.w >= DispatcherMinWidth
  BY <1>1, <1>2, CandidateFacts
<1>4. c.id = p.id  BY <1>1, <1>2, CandidateFacts
<1>5. PICK host \in t.leaves : p = [id |-> host.id, role |-> host.role, at |-> Rect(t, host.path)]
  BY DEF Panes
<1>6. p.id = host.id /\ p.role = host.role /\ p.at = Rect(t, host.path)  BY <1>5
<1>7. PICK d \in {"vertical", "horizontal"} : d = o.direction  BY <1>2, <1>3, OptionFacts
<1>8. u = Split(t, host.id, d)  BY <1>3, <1>4, <1>6, <1>7
<1>9. /\ Tree(u) /\ DispatcherTab(u) /\ Shallow(u, n + 1)
      /\ \A l \in u.leaves : FromSplit(t, host, d, u, l)
  BY <1>5, <1>7, <1>8, SplitTree
<1>10. u.frame = t.frame
  <2>1. PICK old, new : IsSplit(t, host, d, u, old, new)  BY <1>8, SplitFields
  <2>. QED  BY <2>1 DEF IsSplit
<1>11. ASSUME NEW q \in Panes(u)
       PROVE  \/ q \in Panes(t) \ {p}
              \/ q.role = p.role /\ q.id = p.id /\ q.at = Half(p.at, o.direction, FALSE)
              \/ /\ q.role = "worker" /\ q.at = Half(p.at, o.direction, TRUE)
                 /\ \A r \in Panes(t) : r.id # q.id
  <2>1. PICK l \in u.leaves : q = [id |-> l.id, role |-> l.role, at |-> Rect(u, l.path)]  BY DEF Panes
  <2>2. q.id = l.id /\ q.role = l.role /\ q.at = Rect(u, l.path)  BY <2>1
  <2>3. \/ l \in t.leaves \ {host} /\ Rect(u, l.path) = Rect(t, l.path)
        \/ /\ l.role = host.role /\ l.id = host.id
           /\ Rect(u, l.path) = Half(Rect(t, host.path), d, FALSE)
        \/ /\ l.role = "worker" /\ \A k \in t.leaves : k.id # l.id
           /\ Rect(u, l.path) = Half(Rect(t, host.path), d, TRUE)
    <3>1. FromSplit(t, host, d, u, l)  BY <1>9, <2>1
    <3>. QED  BY <3>1, Zenon DEF FromSplit
  <2>4. CASE l \in t.leaves \ {host} /\ Rect(u, l.path) = Rect(t, l.path)
    <3>1. q \in Panes(t)  BY <2>1, <2>4 DEF Panes
    <3>2. \A a, b \in t.leaves : a.id = b.id => a = b  BY DEF Tree
    <3>3. q.id # p.id  BY <1>6, <2>2, <2>4, <3>2
    <3>. QED  BY <3>1, <3>3
  <2>5. CASE l.role = host.role /\ l.id = host.id /\ Rect(u, l.path) = Half(Rect(t, host.path), d, FALSE)
    BY <1>6, <1>7, <2>2, <2>5
  <2>6. CASE /\ l.role = "worker" /\ \A k \in t.leaves : k.id # l.id
             /\ Rect(u, l.path) = Half(Rect(t, host.path), d, TRUE)
    <3>1. ASSUME NEW r \in Panes(t) PROVE r.id # q.id
      <4>1. PICK k \in t.leaves : r = [id |-> k.id, role |-> k.role, at |-> Rect(t, k.path)]  BY DEF Panes
      <4>2. r.id = k.id  BY <4>1
      <4>. QED  BY <2>2, <2>6, <4>2
    <3>. QED  BY <1>6, <1>7, <2>2, <2>6, <3>1
  <2>. QED  BY <2>3, <2>4, <2>5, <2>6
<1>12. SplitsPane(t, c, u, p, o)  BY <1>1, <1>3, <1>11 DEF SplitsPane
<1>. QED  BY <1>9, <1>10, <1>12

-----------------------------------------------------------------------------
(* The first and the last pane touch the edges of the tab. *)

Straight(p, b) == p \in Path /\ \A i \in 1..Len(p) : p[i] = b

LEMMA StraightLeaf ==
    ASSUME NEW t, Tree(t), NEW n, Shallow(t, n), NEW b \in BOOLEAN
    PROVE  \E l \in t.leaves : Straight(l.path, b)
<1>1. Nodes(t) \subseteq Path  BY TreeFacts
<1>2. PICK B : B = {k \in Nat : \E p \in Nodes(t) : Straight(p, b) /\ n - Len(p) = k}  OBVIOUS
<1>3. n \in Nat /\ \A p \in Nodes(t) : Len(p) \in Nat /\ Len(p) < n  BY <1>1 DEF Shallow, Path
<1>4. B \in SUBSET Nat /\ B # {}
  <2>1. << >> \in Nodes(t) /\ Straight(<< >>, b) /\ Len(<< >>) = 0
    BY TreeFacts, EmptySeq DEF Straight, Path
  <2>2. n - Len(<< >>) = n  BY <1>3, <2>1
  <2>3. n \in B  BY <1>2, <1>3, <2>1, <2>2
  <2>. QED  BY <1>2, <2>3
<1>5. PICK k \in B : \A j \in B : k <= j  BY <1>4, LeastNatural
<1>6. PICK p \in Nodes(t) : Straight(p, b) /\ n - Len(p) = k  BY <1>2, <1>5
<1>7. p \notin Cuts(t)
  <2>. SUFFICES ASSUME p \in Cuts(t) PROVE FALSE  OBVIOUS
  <2>1. PICK q \in Nodes(t) : q = Append(p, b)  BY TreeFacts
  <2>2. p \in Path  BY <1>1
  <2>3. Len(q) = Len(p) + 1 /\ \A i \in 1..Len(q) : q[i] = b
    <3>1. Len(q) = Len(p) + 1 /\ q[Len(p) + 1] = b /\ \A i \in 1..Len(p) : q[i] = p[i]
      BY <2>1, <2>2, AppendPath
    <3>2. \A i \in 1..Len(p) : q[i] = b  BY <1>6, <3>1 DEF Straight
    <3>3. Len(p) \in Nat  BY <1>3
    <3>. QED  BY <3>1, <3>2, <3>3
  <2>4. Straight(q, b)  BY <1>1, <2>3 DEF Straight
  <2>5. n - Len(q) \in B  BY <1>2, <1>3, <2>4
  <2>. QED  BY <1>3, <1>5, <1>6, <2>3, <2>5
<1>8. PICK l \in t.leaves : l.path = p  BY <1>7, TreeFacts
<1>. QED  BY <1>6, <1>8

LEMMA EdgeRects ==
    ASSUME NEW t, Tree(t)
    PROVE  \A p \in Nodes(t) :
              /\ Straight(p, FALSE) => Rect(t, p).x = t.frame.x /\ Rect(t, p).y = t.frame.y
              /\ Straight(p, TRUE) => /\ Rect(t, p).x + Rect(t, p).w = t.frame.x + t.frame.w
                                      /\ Rect(t, p).y + Rect(t, p).h = t.frame.y + t.frame.h
<1>. DEFINE Edges(p) ==
              /\ Straight(p, FALSE) => Rect(t, p).x = t.frame.x /\ Rect(t, p).y = t.frame.y
              /\ Straight(p, TRUE) => /\ Rect(t, p).x + Rect(t, p).w = t.frame.x + t.frame.w
                                      /\ Rect(t, p).y + Rect(t, p).h = t.frame.y + t.frame.h
<1>1. PICK S : S = {p \in Path : Edges(p)}  OBVIOUS
<1>2. << >> \in S  BY <1>1, RectStep, EmptySeq DEF Path
<1>3. ASSUME NEW p \in Cuts(t) \cap S, NEW b \in BOOLEAN PROVE Append(p, b) \in S
  <2>1. p \in Path /\ p \in Nodes(t) /\ t.cuts[p] \in {"vertical", "horizontal"}  BY <1>1, TreeFacts
  <2>2. PICK q \in Path : q = Append(p, b)  BY <2>1, AppendPath
  <2>3. PICK r \in Frames : r = Rect(t, p)  BY <2>1, NodeRects
  <2>4. Rect(t, q) = Half(r, t.cuts[p], b)  BY <2>1, <2>2, <2>3, RectStep
  <2>5. ASSUME NEW c, Straight(q, c) PROVE Straight(p, c) /\ b = c
    <3>1. Len(q) = Len(p) + 1 /\ Len(p) \in Nat /\ q[Len(p) + 1] = b /\ \A i \in 1..Len(p) : q[i] = p[i]
      BY <2>1, <2>2, AppendPath
    <3>2. \A i \in 1..Len(q) : q[i] = c  BY <2>5 DEF Straight
    <3>3. \A i \in 1..Len(p) : p[i] = c  BY <3>1, <3>2
    <3>4. b = c  BY <3>1, <3>2
    <3>. QED  BY <2>1, <3>3, <3>4 DEF Straight
  <2>6. Straight(q, FALSE) => Rect(t, q).x = t.frame.x /\ Rect(t, q).y = t.frame.y
    <3>. SUFFICES ASSUME Straight(q, FALSE) PROVE Rect(t, q).x = t.frame.x /\ Rect(t, q).y = t.frame.y
      OBVIOUS
    <3>1. Straight(p, FALSE) /\ b = FALSE  BY <2>5
    <3>2. r.x = t.frame.x /\ r.y = t.frame.y  BY <1>1, <2>3, <3>1
    <3>3. Half(r, t.cuts[p], b).x = r.x /\ Half(r, t.cuts[p], b).y = r.y  BY <2>1, <3>1, Halves
    <3>. QED  BY <2>4, <3>2, <3>3
  <2>7. Straight(q, TRUE) => /\ Rect(t, q).x + Rect(t, q).w = t.frame.x + t.frame.w
                             /\ Rect(t, q).y + Rect(t, q).h = t.frame.y + t.frame.h
    <3>. SUFFICES ASSUME Straight(q, TRUE)
                  PROVE  /\ Rect(t, q).x + Rect(t, q).w = t.frame.x + t.frame.w
                         /\ Rect(t, q).y + Rect(t, q).h = t.frame.y + t.frame.h
      OBVIOUS
    <3>1. Straight(p, TRUE) /\ b = TRUE  BY <2>5
    <3>2. r.x + r.w = t.frame.x + t.frame.w /\ r.y + r.h = t.frame.y + t.frame.h  BY <1>1, <2>3, <3>1
    <3>3. PICK g : g = Half(r, t.cuts[p], b)  OBVIOUS
    <3>4. g.x + g.w = r.x + r.w /\ g.y + g.h = r.y + r.h  BY <2>1, <3>1, <3>3, Halves
    <3>. QED  BY <2>4, <3>2, <3>3, <3>4
  <2>8. Edges(q)  BY <2>6, <2>7
  <2>. QED  BY <1>1, <2>2, <2>8
<1>4. Nodes(t) \subseteq S  BY <1>2, <1>3, NodeInduction
<1>. QED  BY <1>1, <1>4

LEMMA LeastIs ==
    ASSUME NEW S \in SUBSET Nat, NEW m \in S, \A y \in S : m <= y
    PROVE  Min(S) = m
<1>1. Min(S) = CHOOSE x \in S : \A y \in S : x <= y  BY DEF Min
<1>2. \E x \in S : \A y \in S : x <= y  OBVIOUS
<1>3. PICK k \in S : k = Min(S) /\ \A y \in S : k <= y  BY <1>1, <1>2
<1>. QED  BY <1>3

LEMMA LargestIs ==
    ASSUME NEW S \in SUBSET Nat, NEW m \in S, \A y \in S : y <= m
    PROVE  Max(S) = m
<1>1. Max(S) = CHOOSE x \in S : \A y \in S : x >= y  BY DEF Max
<1>2. \E x \in S : \A y \in S : x >= y  OBVIOUS
<1>3. PICK k \in S : k = Max(S) /\ \A y \in S : k >= y  BY <1>1, <1>2
<1>. QED  BY <1>3

\* What is measured over the panes is the frame of the tab.
LEMMA AreaIsFrame ==
    ASSUME NEW t, Tree(t), NEW n, Shallow(t, n), \A p \in Panes(t) : Usable(p)
    PROVE  PaneArea(Panes(t)) = t.frame
<1>1. {p \in Panes(t) : p.at.w > 0 /\ p.at.h > 0} = Panes(t)
  <2>1. \A p \in Panes(t) : p.at.w > 0 /\ p.at.h > 0
    BY PaneFacts DEF Usable, MinWidth, MinHeight, Frames
  <2>. QED  BY <2>1
<1>2. \A p \in Panes(t) : p.at \in Frames /\ Inside(p.at, t.frame)  BY PaneFacts
<1>3. PICK f \in Frames : f = t.frame  BY DEF Tree, Frames
<1>4. PICK a \in Panes(t) : a.at.x = f.x /\ a.at.y = f.y
  <2>1. PICK l \in t.leaves : Straight(l.path, FALSE)  BY StraightLeaf
  <2>2. Rect(t, l.path).x = f.x /\ Rect(t, l.path).y = f.y  BY <1>3, <2>1, TreeFacts, EdgeRects
  <2>3. PICK a \in Panes(t) : a = [id |-> l.id, role |-> l.role, at |-> Rect(t, l.path)]  BY DEF Panes
  <2>. QED  BY <2>2, <2>3
<1>5. PICK z \in Panes(t) : z.at.x + z.at.w = f.x + f.w /\ z.at.y + z.at.h = f.y + f.h
  <2>1. PICK l \in t.leaves : Straight(l.path, TRUE)  BY StraightLeaf
  <2>2. PICK r : r = Rect(t, l.path)  OBVIOUS
  <2>3. r.x + r.w = f.x + f.w /\ r.y + r.h = f.y + f.h  BY <1>3, <2>1, <2>2, TreeFacts, EdgeRects
  <2>4. PICK z \in Panes(t) : z = [id |-> l.id, role |-> l.role, at |-> r]  BY <2>2 DEF Panes
  <2>5. z.at = r  BY <2>4
  <2>. QED  BY <2>3, <2>5
<1>6. Min({p.at.x : p \in Panes(t)}) = f.x
  <2>1. PICK S : S = {p.at.x : p \in Panes(t)}  OBVIOUS
  <2>2. S \in SUBSET Nat /\ f.x \in S /\ \A y \in S : f.x <= y
    BY <1>2, <1>3, <1>4, <2>1 DEF Inside, Frames
  <2>. QED  BY <2>1, <2>2, LeastIs
<1>7. Min({p.at.y : p \in Panes(t)}) = f.y
  <2>1. PICK S : S = {p.at.y : p \in Panes(t)}  OBVIOUS
  <2>2. S \in SUBSET Nat /\ f.y \in S /\ \A y \in S : f.y <= y
    BY <1>2, <1>3, <1>4, <2>1 DEF Inside, Frames
  <2>. QED  BY <2>1, <2>2, LeastIs
<1>8. Max({p.at.x + p.at.w : p \in Panes(t)}) = f.x + f.w
  <2>1. PICK S : S = {p.at.x + p.at.w : p \in Panes(t)}  OBVIOUS
  <2>2. S \in SUBSET Nat /\ f.x + f.w \in S /\ \A y \in S : y <= f.x + f.w
    BY <1>2, <1>3, <1>5, <2>1 DEF Inside, Frames
  <2>. QED  BY <2>1, <2>2, LargestIs
<1>9. Max({p.at.y + p.at.h : p \in Panes(t)}) = f.y + f.h
  <2>1. PICK S : S = {p.at.y + p.at.h : p \in Panes(t)}  OBVIOUS
  <2>2. S \in SUBSET Nat /\ f.y + f.h \in S /\ \A y \in S : y <= f.y + f.h
    BY <1>2, <1>3, <1>5, <2>1 DEF Inside, Frames
  <2>. QED  BY <2>1, <2>2, LargestIs
<1>10. PaneArea(Panes(t)) = [x |-> f.x, y |-> f.y, w |-> f.w, h |-> f.h]
  <2>1. PaneArea(Panes(t)) =
           [x |-> Min({p.at.x : p \in Panes(t)}), y |-> Min({p.at.y : p \in Panes(t)}),
            w |-> Max({p.at.x + p.at.w : p \in Panes(t)}) - Min({p.at.x : p \in Panes(t)}),
            h |-> Max({p.at.y + p.at.h : p \in Panes(t)}) - Min({p.at.y : p \in Panes(t)})]
    BY <1>1 DEF PaneArea
  <2>2. PICK i, j, k, m : /\ i = Min({p.at.x : p \in Panes(t)}) /\ j = Min({p.at.y : p \in Panes(t)})
                          /\ k = Max({p.at.x + p.at.w : p \in Panes(t)})
                          /\ m = Max({p.at.y + p.at.h : p \in Panes(t)})
    OBVIOUS
  <2>3. PaneArea(Panes(t)) = [x |-> i, y |-> j, w |-> k - i, h |-> m - j]  BY <2>1, <2>2, Zenon
  <2>4. i = f.x /\ j = f.y /\ k = f.x + f.w /\ m = f.y + f.h  BY <1>6, <1>7, <1>8, <1>9, <2>2, Zenon
  <2>5. k - i = f.w /\ m - j = f.h  BY <2>4 DEF Frames
  <2>. QED  BY <2>3, <2>4, <2>5
<1>11. f = [x |-> f.x, y |-> f.y, w |-> f.w, h |-> f.h]  BY DEF Frames
<1>. QED  BY <1>3, <1>10, <1>11

-----------------------------------------------------------------------------
(* The tab over time. *)

SplitInv ==
    /\ Tree(shape) /\ DispatcherTab(shape)
    /\ \E n : Shallow(shape, n)
    /\ PanesStayUsable

\* A half keeps the floors its option promised.
LEMMA HalvesUsable ==
    ASSUME NEW t, NEW c, NEW u, NEW p, NEW o, SplitsPane(t, c, u, p, o), p.at \in Frames,
           NEW q, NEW b \in BOOLEAN, q.at = Half(p.at, o.direction, b), q.role \in {p.role, "worker"}
    PROVE  Usable(q)
<1>1. o \in SplitOptions(p)  BY DEF SplitsPane
<1>2. /\ o.w \in Nat /\ o.h \in Nat /\ o.w >= MinWidth /\ o.h >= MinHeight
      /\ p.role = "secretary" => o.w >= SecretaryMinWidth /\ o.h >= SecretaryMinHeight
      /\ q.at \in Frames /\ q.at.w >= o.w /\ q.at.h >= o.h
  BY <1>1, OptionFacts
<1>3. q.at.w \in Nat /\ q.at.h \in Nat  BY <1>2 DEF Frames
<1>4. q.at.w >= MinWidth /\ q.at.h >= MinHeight  BY <1>2, <1>3 DEF MinWidth, MinHeight
<1>5. ASSUME q.role = "secretary" PROVE q.at.w >= SecretaryMinWidth /\ q.at.h >= SecretaryMinHeight
  <2>1. p.role = "secretary"  BY <1>5
  <2>. QED  BY <1>2, <1>3, <2>1 DEF SecretaryMinWidth, SecretaryMinHeight
<1>. QED  BY <1>4, <1>5 DEF Usable

LEMMA SplitStep ==
    ASSUME SplitInv, [SplitNext]_shape
    PROVE  SplitInv' /\ shape'.frame = shape.frame
<1>1. Tree(shape) /\ DispatcherTab(shape) /\ \A p \in Panes(shape) : Usable(p)
  BY DEF SplitInv, PanesStayUsable
<1>2. PICK n : Shallow(shape, n)  BY DEF SplitInv
<1>3. CASE Delegates
  <2>1. PICK c : c = ChooseSplit(Panes(shape)) /\ shape' = Split(shape, c.id, c.direction)
    BY <1>3 DEF Delegates
  <2>2. Candidates(Panes(shape)) # {} /\ Cardinality(shape.leaves) < MaxLeaves  BY <1>3 DEF Delegates
  <2>3. /\ Tree(shape') /\ DispatcherTab(shape') /\ Shallow(shape', n + 1) /\ shape'.frame = shape.frame
        /\ \E p, o : SplitsPane(shape, c, shape', p, o)
    BY <1>1, <1>2, <2>1, <2>2, Planned
  <2>4. PICK p, o : SplitsPane(shape, c, shape', p, o)  BY <2>3
  <2>5. p.at \in Frames  BY <1>1, <2>4, PaneFacts DEF SplitsPane
  <2>6. ASSUME NEW q \in Panes(shape') PROVE Usable(q)
    <3>1. \/ q \in Panes(shape) \ {p}
          \/ q.role = p.role /\ q.id = p.id /\ q.at = Half(p.at, o.direction, FALSE)
          \/ /\ q.role = "worker" /\ q.at = Half(p.at, o.direction, TRUE)
             /\ \A r \in Panes(shape) : r.id # q.id
      BY <2>4 DEF SplitsPane
    <3>. QED  BY <1>1, <2>4, <2>5, <3>1, HalvesUsable
  <2>. QED  BY <2>3, <2>6 DEF SplitInv, PanesStayUsable
<1>4. CASE \E l \in shape.leaves : Closes(l)
  <2>1. PICK leaf \in shape.leaves : Closes(leaf)  BY <1>4
  <2>2. /\ Tree(shape') /\ DispatcherTab(shape') /\ Shallow(shape', n) /\ shape'.frame = shape.frame
        /\ \A q \in Panes(shape') : \E p \in Panes(shape) :
              p.id = q.id /\ p.role = q.role /\ Larger(q.at, p.at)
    BY <1>1, <1>2, <2>1, Closed DEF Closes
  <2>3. ASSUME NEW q \in Panes(shape') PROVE Usable(q)
    <3>1. PICK p \in Panes(shape) : p.role = q.role /\ Larger(q.at, p.at)  BY <2>2
    <3>2. Usable(p)  BY <1>1, <3>1
    <3>3. p.at \in Frames /\ q.at \in Frames  BY <1>1, <2>2, <3>1, PaneFacts
    <3>. QED
      BY <3>1, <3>2, <3>3
      DEF Usable, Larger, Frames, MinWidth, MinHeight, SecretaryMinWidth, SecretaryMinHeight
  <2>. QED  BY <2>2, <2>3 DEF SplitInv, PanesStayUsable
<1>5. CASE UNCHANGED shape  BY <1>5 DEF SplitInv, PanesStayUsable
<1>. QED  BY <1>3, <1>4, <1>5 DEF SplitNext

LEMMA SplitStarts == SplitInit => SplitInv
<1>. SUFFICES ASSUME SplitInit PROVE SplitInv  OBVIOUS
<1>1. /\ Tree(shape) /\ DispatcherTab(shape) /\ MaxLeaves \in Nat
      /\ \A p \in Nodes(shape) : Len(p) < MaxLeaves
      /\ \A p \in Panes(shape) : Usable(p)
  BY BalancedSplitAssumption DEF BalancedSplitAssumption, SplitInit
<1>2. Shallow(shape, MaxLeaves)  BY <1>1 DEF Shallow
<1>. QED  BY <1>1, <1>2 DEF SplitInv, PanesStayUsable

THEOREM SplitInvariance == SplitSpec => []SplitInv
BY SplitStarts, SplitStep, PTL DEF SplitSpec

\* PanesStayUsable: an option's child clears the floors, both halves are as large as the
\* child, and a pane that takes over the room of another grows.
THEOREM NoPaneTooSmall == SplitSpec => []PanesStayUsable
<1>1. SplitInv => PanesStayUsable  BY DEF SplitInv
<1>. QED  BY <1>1, SplitInvariance, PTL

\* MeasuresTheTab: in a tree of cuts one pane touches the left and upper edge of the tab and
\* one the right and lower.
THEOREM PaneAreaIsTheTab == SplitSpec => []MeasuresTheTab
<1>1. ASSUME SplitInv PROVE MeasuresTheTab
  <2>1. PICK n : Shallow(shape, n)  BY <1>1 DEF SplitInv
  <2>. QED  BY <1>1, <2>1, AreaIsFrame DEF SplitInv, PanesStayUsable, MeasuresTheTab
<1>. QED  BY <1>1, SplitInvariance, PTL

\* ViewportIsKept: a narrow dispatcher is the last of the candidates, the half of any other
\* stays comfortable, and closing a pane cuts nobody.
THEOREM ViewportsAreKept == SplitSpec => ViewportIsKept
<1>. DEFINE Keeps ==
        \A p \in Panes(shape), q \in Panes(shape)' :
           p.role = "dispatcher" /\ q.id = p.id /\ Cut(p.at, q.at)
              => \A other \in Panes(shape) \ {p} : SplitOptions(other) = {}
<1>1. ASSUME SplitInv, SplitNext PROVE Keeps
  <2>. SUFFICES ASSUME NEW p \in Panes(shape), NEW q \in Panes(shape'), p.role = "dispatcher", q.id = p.id,
                       Cut(p.at, q.at), NEW other \in Panes(shape) \ {p}, SplitOptions(other) # {}
                PROVE  FALSE
    OBVIOUS
  <2>1. Tree(shape) /\ DispatcherTab(shape)  BY <1>1 DEF SplitInv
  <2>2. PICK n : Shallow(shape, n)  BY <1>1 DEF SplitInv
  <2>3. p.at \in Frames /\ other.at \in Frames /\ other.role \in DOMAIN RolePriority  BY <2>1, PaneFacts
  <2>4. Tree(shape')  BY <1>1, SplitStep DEF SplitInv
  <2>5. q.at \in Frames  BY <2>4, PaneFacts
  <2>6. ~Larger(q.at, p.at)  BY <2>3, <2>5 DEF Larger, Cut, Frames
  <2>7. \A a \in Panes(shape) : a.id = p.id => a = p  BY <2>1, PaneNumbers
  <2>8. CASE Delegates
    <3>1. PICK c : c = ChooseSplit(Panes(shape)) /\ shape' = Split(shape, c.id, c.direction)
      BY <2>8 DEF Delegates
    <3>2. Candidates(Panes(shape)) # {} /\ Cardinality(shape.leaves) < MaxLeaves  BY <2>8 DEF Delegates
    <3>3. PICK host, o : SplitsPane(shape, c, shape', host, o)
      BY <2>1, <2>2, <3>1, <3>2, Planned
    <3>4. host = p /\ q.at = Half(p.at, o.direction, FALSE)
      <4>1. \/ q \in Panes(shape) \ {host}
            \/ q.role = host.role /\ q.id = host.id /\ q.at = Half(host.at, o.direction, FALSE)
            \/ /\ q.role = "worker" /\ q.at = Half(host.at, o.direction, TRUE)
               /\ \A r \in Panes(shape) : r.id # q.id
        BY <3>3 DEF SplitsPane
      <4>2. q \notin Panes(shape)
        <5>. SUFFICES ASSUME q = p PROVE FALSE  BY <2>7
        <5>. QED  BY <2>3, <2>6 DEF Larger, Frames
      <4>3. host \in Panes(shape)  BY <3>3 DEF SplitsPane
      <4>. QED  BY <2>7, <4>1, <4>2, <4>3
    <3>5. o \in SplitOptions(p) /\ c = Candidate(p)  BY <3>3, <3>4 DEF SplitsPane
    <3>6. c.priority = NarrowPriority
      <4>. SUFFICES ASSUME c.priority # NarrowPriority PROVE FALSE  OBVIOUS
      <4>1. o.direction = "vertical" /\ o.w >= DispatcherMinWidth  BY <3>3, <3>4 DEF SplitsPane
      <4>2. o.w \in Nat /\ q.at.w >= o.w  BY <2>3, <3>4, <3>5, OptionFacts
      <4>3. q.at.h >= p.at.h
        <5>1. Half(p.at, "vertical", FALSE).h >= p.at.h  BY <2>3, Halves
        <5>. QED  BY <3>4, <4>1, <5>1
      <4>. QED  BY <2>3, <2>5, <4>1, <4>2, <4>3 DEF Cut, Frames, DispatcherMinWidth
    <3>7. other.role # "dispatcher"
      <4>1. PICK k \in shape.leaves : p = [id |-> k.id, role |-> k.role, at |-> Rect(shape, k.path)]
        BY DEF Panes
      <4>2. PICK l \in shape.leaves : other = [id |-> l.id, role |-> l.role, at |-> Rect(shape, l.path)]
        BY DEF Panes
      <4>3. k # l  BY <4>1, <4>2
      <4>4. p.role = k.role /\ other.role = l.role  BY <4>1, <4>2
      <4>. QED  BY <2>1, <4>3, <4>4 DEF DispatcherTab
    <3>8. Candidate(other) \in Candidates(Panes(shape))  BY <2>3, <3>7 DEF Candidates
    <3>9. Before(c, Candidate(other))  BY <3>3, <3>8 DEF SplitsPane
    <3>10. Candidate(other).priority > NarrowPriority /\ Candidate(other).priority \in 0..4
      BY <2>3, <3>7, CandidateFacts
    <3>. QED  BY <3>6, <3>9, <3>10 DEF Before, NarrowPriority
  <2>9. CASE \E l \in shape.leaves : Closes(l)
    <3>1. PICK leaf \in shape.leaves : Closes(leaf)  BY <2>9
    <3>2. PICK a \in Panes(shape) : a.id = q.id /\ Larger(q.at, a.at)
      BY <2>1, <2>2, <3>1, Closed DEF Closes
    <3>. QED  BY <2>6, <2>7, <3>2
  <2>. QED  BY <1>1, <2>8, <2>9 DEF SplitNext
<1>2. SplitInv /\ [SplitNext]_shape => [Keeps]_shape  BY <1>1
<1>3. ViewportIsKept <=> [][Keeps]_shape  BY DEF ViewportIsKept
<1>. QED  BY <1>2, <1>3, SplitInvariance, PTL DEF SplitSpec

=============================================================================
