-------------------------- MODULE PageTableProofs --------------------------
(***************************************************************************)
(* Theorems about the page table of one mm when one thread uses it, as the *)
(* table of a process is used: the tables form a tree, and the pointers    *)
(* that callers hold into it stay the right ones.  They hold for every     *)
(* depth, every fanout and every set of pages.                             *)
(*                                                                         *)
(* The inductive invariant TableInv says that two pages meet in a table    *)
(* only when they have come to it the same way (OneParent, OneLevel), that *)
(* only a last table holds entries of pages, and that a walk under way     *)
(* stands on the path of its page.  The work is in alloc_pgtbl_level: a    *)
(* new table lengthens the paths of all the pages that share its entry,    *)
(* and of no other (GrownPath).                                            *)
(***************************************************************************)
EXTENDS PageTable, WellFoundedInduction, TLAPS

\* A nonempty set of numbers has a least element.
LEMMA LeastNumber ==
    ASSUME NEW T \in SUBSET Nat, T # {}
    PROVE  \E x \in T : \A y \in T : x <= y
<1>1. PICK x \in T : \A y \in T : ~ (<<y, x>> \in OpToRel(<, Nat))
    BY NatLessThanWellFounded, WFMin, Zenon
<1>2. \A y \in Nat : <<y, x>> \in OpToRel(<, Nat) <=> y < x
    BY DEF OpToRel
<1>3. \A y \in T : ~ (y < x)
    BY <1>1, <1>2, Zenon
<1> QED
    BY <1>3

\* Adding to a list.
LEMMA AppendIs ==
    ASSUME NEW S, NEW s \in Seq(S), NEW e \in S
    PROVE  /\ Append(s, e) \in Seq(S) /\ Len(Append(s, e)) = Len(s) + 1
           /\ Append(s, e)[Len(s) + 1] = e
           /\ \A i \in 1 .. Len(s) : Append(s, e)[i] = s[i]
    OBVIOUS

(***************************************************************************)
(* Indices.  The places of a page at the levels of the tree are the digits *)
(* of its number in base Fanout, so that they tell pages apart.            *)
(***************************************************************************)

\* f gives Fanout ^ k up to n.
IsReach(f, n) ==
    f = [k \in 0 .. n |-> IF k = 0 THEN 1 ELSE Fanout * f[k - 1]]

\* There is a function of powers of the fanout up to any level.
LEMMA ReachExists ==
    ASSUME NEW N \in Nat
    PROVE  \E f : IsReach(f, N)
<1> DEFINE T == {n \in Nat : ~ \E f : IsReach(f, n)}
<1> SUFFICES ASSUME N \in T PROVE FALSE
    OBVIOUS
<1>1. PICK n \in T : \A m \in T : n <= m
  <2>1. T \in SUBSET Nat /\ T # {}
    OBVIOUS
  <2> QED
    BY <2>1, LeastNumber, Zenon
<1>2. CASE n = 0
  <2> DEFINE h == [k \in 0 .. 0 |-> 1]
  <2>1. IsReach(h, 0)
    BY DEF IsReach
  <2> QED
    BY <1>1, <1>2, <2>1
<1>3. CASE n # 0
  <2>1. n - 1 \in Nat /\ n - 1 \notin T
    BY <1>1, <1>3
  <2>2. PICK f : IsReach(f, n - 1)
    BY <2>1
  <2> DEFINE h == [k \in 0 .. n |-> IF k = 0 THEN 1 ELSE Fanout * f[k - 1]]
  <2>3. \A k \in 0 .. n - 1 : h[k] = f[k]
    <3> TAKE k \in 0 .. n - 1
    <3>1. k \in 0 .. n
        BY <2>1
    <3> QED
        BY <2>2, <3>1 DEF IsReach
  <2>4. \A k \in 0 .. n : k # 0 => k - 1 \in 0 .. n - 1
    BY <2>1
  <2>5. \A k \in 0 .. n : k # 0 => h[k - 1] = f[k - 1]
    BY <2>3, <2>4, Zenon
  <2>6. IsReach(h, n)
    BY <2>5, Zenon DEF IsReach
  <2> QED
    BY <1>1, <2>6
<1> QED
    BY <1>2, <1>3

\* So Reach is what its recursive definition says, and never zero.
LEMMA ReachIs ==
    /\ Reach[0] = 1
    /\ \A k \in 1 .. Levels : Reach[k] = Fanout * Reach[k - 1]
    /\ \A k \in 0 .. Levels : Reach[k] \in Nat \ {0}
<1>1. Levels \in Nat \ {0} /\ Fanout \in Nat \ {0}
    BY PageTableAssumption
<1>2. \E h : IsReach(h, Levels)
    BY <1>1, ReachExists
<1>3. IsReach(Reach, Levels)
    BY <1>2, Zenon DEF Reach, IsReach
<1>4. Reach[0] = 1 /\ \A k \in 1 .. Levels : Reach[k] = Fanout * Reach[k - 1]
  <2>1. \A k \in 0 .. Levels :
            Reach[k] = IF k = 0 THEN 1 ELSE Fanout * Reach[k - 1]
    BY <1>3, Zenon DEF IsReach
  <2> QED
    BY <1>1, <2>1
<1>5. ASSUME NEW K \in 0 .. Levels, Reach[K] \notin Nat \ {0} PROVE FALSE
  <2> DEFINE T == {k \in 0 .. Levels : Reach[k] \notin Nat \ {0}}
  <2>1. T \in SUBSET Nat /\ T # {}
    BY <1>1, <1>5
  <2>2. PICK k \in T : \A m \in T : k <= m
    BY <2>1, LeastNumber, Zenon
  <2>3. k # 0
    BY <1>4, <2>2
  <2>4. k \in 1 .. Levels /\ k - 1 \in 0 .. Levels /\ k - 1 \notin T
    BY <1>1, <2>2, <2>3
  <2>5. Reach[k - 1] \in Nat \ {0} /\ Reach[k] = Fanout * Reach[k - 1]
    BY <1>4, <2>4
  <2>6. Reach[k] \in Nat \ {0}
    BY <1>1, <2>5
  <2> QED
    BY <2>2, <2>6
<1> QED
    BY <1>4, <1>5

\* Page numbers are numbers that Levels indices can tell apart.
LEMMA PageNumbers ==
    /\ Levels \in Nat \ {0} /\ Fanout \in Nat \ {0}
    /\ \A g \in Pages : g \in Nat /\ g < Reach[Levels]
<1>1. Levels \in Nat \ {0} /\ Fanout \in Nat \ {0}
    BY PageTableAssumption
<1>2. Reach[Levels] \in Nat
    BY <1>1, ReachIs
<1>3. Pages \subseteq 0 .. Reach[Levels] - 1
    BY PageTableAssumption, Zenon
<1> QED
    BY <1>1, <1>2, <1>3

\* get_pd_from_pagenum stays within a table of Fanout entries.
LEMMA IndexIs ==
    ASSUME NEW g \in Pages, NEW l \in 1 .. Levels
    PROVE  /\ Index[g][l] = (g \div Reach[Levels - l]) % Fanout
           /\ Index[g][l] \in Entries
<1>1. Index[g][l] = (g \div Reach[Levels - l]) % Fanout
    BY DEF Index
<1>2. Levels - l \in 0 .. Levels
    BY PageNumbers
<1>3. Reach[Levels - l] \in Nat \ {0}
    BY <1>2, ReachIs
<1>4. (g \div Reach[Levels - l]) \in Nat
    BY <1>3, PageNumbers
<1> QED
    BY <1>1, <1>4, PageNumbers DEF Entries

\* Dividing twice.
LEMMA DivTwice ==
    ASSUME NEW n \in Nat, NEW x \in Nat \ {0}, NEW f \in Nat \ {0}
    PROVE  n \div (f * x) = (n \div x) \div f
    OBVIOUS

\* Two pages with the same index at every level are the same page.
LEMMA IndexInjective ==
    ASSUME NEW g \in Pages, NEW h \in Pages,
           \A l \in 1 .. Levels : Index[g][l] = Index[h][l]
    PROVE  g = h
<1> DEFINE Same(l) == g \div Reach[Levels - l] = h \div Reach[Levels - l]
<1>0. Levels \in Nat \ {0} /\ Fanout \in Nat \ {0} /\ g \in Nat /\ h \in Nat
    BY PageNumbers
<1>1. Same(0)
  <2>1. Levels - 0 = Levels /\ Reach[Levels] \in Nat \ {0}
    BY <1>0, ReachIs
  <2>2. g < Reach[Levels] /\ h < Reach[Levels]
    BY PageNumbers
  <2>3. g \div Reach[Levels] = 0 /\ h \div Reach[Levels] = 0
    BY <1>0, <2>1, <2>2
  <2> QED
    BY <2>1, <2>3
<1>2. ASSUME NEW l \in 1 .. Levels, Same(l - 1)
      PROVE  Same(l)
  <2> DEFINE r == Reach[Levels - l]
  <2>1. /\ Levels - l \in 0 .. Levels
        /\ Levels - l + 1 \in 1 .. Levels
        /\ Levels - (l - 1) = Levels - l + 1
        /\ (Levels - l + 1) - 1 = Levels - l
    BY <1>0
  <2>2. r \in Nat \ {0} /\ Reach[Levels - (l - 1)] = Fanout * r
    BY <2>1, ReachIs
  <2>3. /\ g \div (Fanout * r) = (g \div r) \div Fanout
        /\ h \div (Fanout * r) = (h \div r) \div Fanout
    BY <1>0, <2>2, DivTwice
  <2>4. (g \div r) \div Fanout = (h \div r) \div Fanout
    BY <1>2, <2>2, <2>3, Zenon
  <2>5. (g \div r) % Fanout = (h \div r) % Fanout
    BY IndexIs
  <2>6. g \div r \in Nat /\ h \div r \in Nat
    BY <1>0, <2>2
  <2> HIDE DEF r
  <2>7. g \div r = h \div r
    BY <1>0, <2>4, <2>5, <2>6
  <2> QED
    BY <2>7 DEF r
<1> HIDE DEF Same
<1>3. Same(Levels)
  <2> DEFINE T == {l \in 0 .. Levels : ~ Same(l)}
  <2> SUFFICES ASSUME T # {} PROVE FALSE
    BY <1>0
  <2>1. T \in SUBSET Nat
    BY <1>0
  <2>2. PICK l \in T : \A m \in T : l <= m
    BY <2>1, LeastNumber, Zenon
  <2>3. l # 0
    BY <1>1, <2>2
  <2>4. l \in 1 .. Levels /\ l - 1 \in 0 .. Levels /\ l - 1 \notin T
    BY <1>0, <2>2, <2>3
  <2> QED
    BY <1>2, <2>2, <2>4
<1>4. Levels - Levels = 0
    BY <1>0
<1>5. g \div 1 = h \div 1
    BY <1>3, <1>4, ReachIs DEF Same
<1> QED
    BY <1>0, <1>5

(***************************************************************************)
(* Paths.                                                                  *)
(***************************************************************************)

\* Path in the directories d.
PathIn(d, g) ==
    LET at[l \in 1 .. Levels] ==
            IF l = 1 THEN 1
            ELSE IF at[l - 1] = 0 THEN 0
            ELSE d[at[l - 1]][Index[g][l - 1]]
    IN at

\* f is the path of page g through d down to level n.
IsPath(f, d, g, n) ==
    f = [l \in 1 .. n |-> IF l = 1 THEN 1
                          ELSE IF f[l - 1] = 0 THEN 0
                          ELSE d[f[l - 1]][Index[g][l - 1]]]

\* There is one, for as many levels as one likes.
LEMMA PathExists ==
    ASSUME NEW d, NEW g, NEW N \in Nat
    PROVE  \E f : IsPath(f, d, g, N)
<1> DEFINE T == {n \in Nat : ~ \E f : IsPath(f, d, g, n)}
<1> SUFFICES ASSUME N \in T PROVE FALSE
    OBVIOUS
<1>1. PICK n \in T : \A m \in T : n <= m
  <2>1. T \in SUBSET Nat /\ T # {}
    OBVIOUS
  <2> QED
    BY <2>1, LeastNumber, Zenon
<1>2. CASE n = 0
  <2>1. IsPath(<< >>, d, g, 0)
    BY DEF IsPath
  <2> QED
    BY <1>1, <1>2, <2>1
<1>3. CASE n # 0
  <2>1. n - 1 \in Nat /\ n - 1 \notin T
    BY <1>1, <1>3
  <2>2. PICK f : IsPath(f, d, g, n - 1)
    BY <2>1, Zenon
  <2> DEFINE h == [l \in 1 .. n |-> IF l = 1 THEN 1
                                    ELSE IF f[l - 1] = 0 THEN 0
                                    ELSE d[f[l - 1]][Index[g][l - 1]]]
  <2>3. \A l \in 1 .. n - 1 : h[l] = f[l]
    <3> TAKE l \in 1 .. n - 1
    <3>1. l \in 1 .. n
        BY <2>1
    <3> QED
        BY <2>2, <3>1, Zenon DEF IsPath
  <2>4. \A l \in 1 .. n : l # 1 => l - 1 \in 1 .. n - 1
    BY <2>1
  <2>5. \A l \in 1 .. n : l # 1 => h[l - 1] = f[l - 1]
    BY <2>3, <2>4, Zenon
  <2>6. IsPath(h, d, g, n)
    BY <2>5, Zenon DEF IsPath
  <2> QED
    BY <1>1, <2>6
<1> QED
    BY <1>2, <1>3

\* So Path is the path it is defined to be.
LEMMA PathOf ==
    ASSUME NEW d, NEW g
    PROVE  /\ PathIn(d, g)[1] = 1
           /\ \A l \in 2 .. Levels :
                  PathIn(d, g)[l] = IF PathIn(d, g)[l - 1] = 0 THEN 0
                                    ELSE d[PathIn(d, g)[l - 1]][Index[g][l - 1]]
<1> DEFINE f == PathIn(d, g)
<1>1. Levels \in Nat \ {0}
    BY PageTableAssumption
<1>2. \E h : IsPath(h, d, g, Levels)
    BY <1>1, PathExists
<1>3. IsPath(f, d, g, Levels)
    BY <1>2, Zenon DEF PathIn, IsPath
<1> HIDE DEF f
<1>4. \A l \in 1 .. Levels : f[l] = IF l = 1 THEN 1
                                    ELSE IF f[l - 1] = 0 THEN 0
                                    ELSE d[f[l - 1]][Index[g][l - 1]]
    BY <1>3, Zenon DEF IsPath
<1> QED
    BY <1>1, <1>4 DEF f

\* The Path of PageTable, in the directories before and after a step.
LEMMA PathIs == \A g : Path(g) = PathIn(dir, g) /\ Path(g)' = PathIn(dir', g)
    BY DEF Path, PathIn

\* The directories d: an entry is zero or points to a table below the root.
DirOK(d) ==
    /\ d \in Seq([Entries -> Nat]) /\ Len(d) >= 1
    /\ \A a \in 1 .. Len(d), i \in Entries : d[a][i] \in {0} \cup 2 .. Len(d)

\* No table hangs in two entries.
OneParent(d) ==
    \A a, b \in 1 .. Len(d), i, j \in Entries :
        d[a][i] # 0 /\ d[a][i] = d[b][j] => a = b /\ i = j

\* No table is at two levels.
OneLevel(d) ==
    \A g, h \in Pages, l, m \in 1 .. Levels :
        PathIn(d, g)[l] # 0 /\ PathIn(d, g)[l] = PathIn(d, h)[m] => l = m

\* d with a new table in entry i of table b.
Grown(d, b, i) == Append([d EXCEPT ![b][i] = Len(d) + 1], EmptyDir)

\* A path visits the tables that have been made, or none.
LEMMA PathType ==
    ASSUME NEW d, DirOK(d), NEW g \in Pages, NEW L \in 1 .. Levels
    PROVE  PathIn(d, g)[L] \in 0 .. Len(d)
<1> DEFINE p == PathIn(d, g)
           T == {l \in 1 .. Levels : p[l] \notin 0 .. Len(d)}
<1> SUFFICES ASSUME L \in T PROVE FALSE
    OBVIOUS
<1>0. Levels \in Nat \ {0} /\ Len(d) \in Nat /\ Len(d) >= 1
    BY PageNumbers DEF DirOK
<1>1. T \in SUBSET Nat /\ T # {}
    BY <1>0
<1>2. PICK l \in T : \A m \in T : l <= m
    BY <1>1, LeastNumber, Zenon
<1>3. p[1] = 1 /\ \A k \in 2 .. Levels :
          p[k] = IF p[k - 1] = 0 THEN 0 ELSE d[p[k - 1]][Index[g][k - 1]]
    BY PathOf
<1> HIDE DEF p
<1>4. l # 1
    BY <1>0, <1>2, <1>3
<1>5. l \in 2 .. Levels /\ l - 1 \in 1 .. Levels /\ l - 1 \notin T
    BY <1>0, <1>2, <1>4
<1>6. p[l - 1] \in 0 .. Len(d)
    BY <1>5
<1>7. CASE p[l - 1] = 0
    BY <1>0, <1>2, <1>3, <1>5, <1>7
<1>8. CASE p[l - 1] # 0
  <2>1. p[l - 1] \in 1 .. Len(d) /\ Index[g][l - 1] \in Entries
    BY <1>0, <1>5, <1>6, <1>8, IndexIs
  <2>2. d[p[l - 1]][Index[g][l - 1]] \in {0} \cup 2 .. Len(d)
    BY <2>1, Zenon DEF DirOK
  <2>3. p[l] \in {0} \cup 2 .. Len(d)
    BY <1>3, <1>5, <1>8, <2>2
  <2> QED
    BY <1>0, <1>2, <2>3
<1> QED
    BY <1>7, <1>8

\* The step of a path.
LEMMA PathStep ==
    ASSUME NEW d, DirOK(d), NEW g \in Pages, NEW l \in 1 .. Levels, l < Levels,
           PathIn(d, g)[l] # 0
    PROVE  /\ PathIn(d, g)[l] \in 1 .. Len(d)
           /\ PathIn(d, g)[l + 1] = d[PathIn(d, g)[l]][Index[g][l]]
<1>1. l + 1 \in 2 .. Levels /\ (l + 1) - 1 = l
    BY PageNumbers
<1>2. PathIn(d, g)[l] \in 0 .. Len(d) /\ Len(d) \in Nat
  <2>1. Len(d) \in Nat
    BY DEF DirOK
  <2> QED
    BY <2>1, PathType, Zenon
<1>3. PathIn(d, g)[l + 1] = d[PathIn(d, g)[l]][Index[g][l]]
    BY <1>1, PathOf
<1> QED
    BY <1>2, <1>3

\* Below a missing table there is none.
LEMMA PathStops ==
    ASSUME NEW d, NEW g \in Pages, NEW l \in 1 .. Levels, PathIn(d, g)[l] = 0,
           NEW M \in l .. Levels
    PROVE  PathIn(d, g)[M] = 0
<1> DEFINE p == PathIn(d, g)
           T == {m \in l .. Levels : p[m] # 0}
<1> SUFFICES ASSUME M \in T PROVE FALSE
    OBVIOUS
<1>0. Levels \in Nat \ {0}
    BY PageNumbers
<1>1. T \in SUBSET Nat /\ T # {}
    BY <1>0
<1>2. PICK m \in T : \A k \in T : m <= k
    BY <1>1, LeastNumber, Zenon
<1>3. \A k \in 2 .. Levels :
          p[k] = IF p[k - 1] = 0 THEN 0 ELSE d[p[k - 1]][Index[g][k - 1]]
    BY PathOf
<1>4. p[l] = 0
    OBVIOUS
<1> HIDE DEF p
<1>5. m # l
    BY <1>2, <1>4
<1>6. m \in 2 .. Levels /\ m - 1 \in l .. Levels /\ m - 1 \notin T
    BY <1>0, <1>2, <1>5
<1>7. p[m - 1] = 0
    BY <1>6
<1> QED
    BY <1>2, <1>3, <1>6, <1>7

\* Two pages that meet in a table have come the same way.
LEMMA PathsMeet ==
    ASSUME NEW d, DirOK(d), OneParent(d), NEW g \in Pages, NEW h \in Pages,
           NEW L \in 1 .. Levels, PathIn(d, g)[L] # 0,
           PathIn(d, g)[L] = PathIn(d, h)[L]
    PROVE  \A k \in 1 .. L - 1 : Index[g][k] = Index[h][k]
<1> DEFINE p == PathIn(d, g)
           q == PathIn(d, h)
           Meet(l) == p[l] # 0 /\ p[l] = q[l]
           Same(l) == \A k \in 1 .. l - 1 : Index[g][k] = Index[h][k]
           T == {l \in 1 .. Levels : Meet(l) /\ ~ Same(l)}
<1> SUFFICES ASSUME L \in T PROVE FALSE
    OBVIOUS
<1>0. Levels \in Nat \ {0}
    BY PageNumbers
<1>1. T \in SUBSET Nat /\ T # {}
    BY <1>0
<1>2. PICK l \in T : \A m \in T : l <= m
    BY <1>1, LeastNumber, Zenon
<1>3. l # 1
    BY <1>2
<1>4. l \in 2 .. Levels /\ l - 1 \in 1 .. Levels /\ l - 1 \notin T /\ l - 1 < Levels
      /\ (l - 1) + 1 = l
    BY <1>0, <1>2, <1>3
<1>5. p[l - 1] # 0 /\ q[l - 1] # 0
    BY <1>2, <1>4, PathOf
<1>6. /\ p[l - 1] \in 1 .. Len(d) /\ p[l] = d[p[l - 1]][Index[g][l - 1]]
      /\ q[l - 1] \in 1 .. Len(d) /\ q[l] = d[q[l - 1]][Index[h][l - 1]]
    BY <1>4, <1>5, PathStep
<1>7. Index[g][l - 1] \in Entries /\ Index[h][l - 1] \in Entries
    BY <1>4, IndexIs, Zenon
<1>8. p[l - 1] = q[l - 1] /\ Index[g][l - 1] = Index[h][l - 1]
  <2>1. p[l] # 0 /\ p[l] = q[l]
    BY <1>2, Zenon
  <2> DEFINE a == p[l - 1]
             b == q[l - 1]
             i == Index[g][l - 1]
             j == Index[h][l - 1]
  <2>2. /\ a \in 1 .. Len(d) /\ b \in 1 .. Len(d)
        /\ i \in Entries /\ j \in Entries
        /\ d[a][i] # 0 /\ d[a][i] = d[b][j]
    BY <1>6, <1>7, <2>1
  <2> HIDE DEF a, b, i, j
  <2>3. a = b /\ i = j
    BY <2>2, ZenonT(40) DEF OneParent
  <2> QED
    BY <2>3 DEF a, b, i, j
<1>9. Same(l - 1)
    BY <1>4, <1>5, <1>8
<1> QED
    BY <1>2, <1>4, <1>8, <1>9

(***************************************************************************)
(* A new table (alloc_pgtbl_level).                                        *)
(***************************************************************************)
\* e is d but for a new table, and a pointer to it in entry i of table b.
IsGrown(d, b, i, e) ==
    /\ e \in Seq([Entries -> Nat]) /\ Len(e) = Len(d) + 1
    /\ e[Len(d) + 1] = EmptyDir
    /\ \A a \in 1 .. Len(d) : a # b => e[a] = d[a]
    /\ \A a \in 1 .. Len(d), j \in Entries :
           e[a][j] = IF a = b /\ j = i THEN Len(d) + 1 ELSE d[a][j]

\* alloc_pgtbl_level entry by entry: one entry changes, one table is new.
LEMMA GrownIs ==
    ASSUME NEW d, DirOK(d), NEW b \in 1 .. Len(d), NEW i \in Entries, d[b][i] = 0
    PROVE  IsGrown(d, b, i, Grown(d, b, i))
<1> DEFINE c == [d EXCEPT ![b][i] = Len(d) + 1]
<1>1. d \in Seq([Entries -> Nat]) /\ Len(d) \in Nat
    BY DEF DirOK
<1>2. EmptyDir \in [Entries -> Nat]
    BY DEF EmptyDir
<1>3. [d[b] EXCEPT ![i] = Len(d) + 1] \in [Entries -> Nat]
    BY <1>1
<1>4. c \in Seq([Entries -> Nat]) /\ Len(c) = Len(d)
    BY <1>1, <1>3
<1>5. \A a \in 1 .. Len(d) : a # b => c[a] = d[a]
    BY <1>1
<1>6. \A a \in 1 .. Len(d), j \in Entries :
          c[a][j] = IF a = b /\ j = i THEN Len(d) + 1 ELSE d[a][j]
    BY <1>1
<1> HIDE DEF c
<1>7. Grown(d, b, i) = Append(c, EmptyDir)
    BY DEF Grown, c
<1>8. /\ Append(c, EmptyDir) \in Seq([Entries -> Nat])
      /\ Len(Append(c, EmptyDir)) = Len(d) + 1
      /\ Append(c, EmptyDir)[Len(d) + 1] = EmptyDir
      /\ \A a \in 1 .. Len(d) : Append(c, EmptyDir)[a] = c[a]
  <2> DEFINE S == [Entries -> Nat]
             f == Append(c, EmptyDir)
  <2>1. c \in Seq(S) /\ EmptyDir \in S
    BY <1>2, <1>4
  <2> HIDE DEF S
  <2>2. /\ f \in Seq(S) /\ Len(f) = Len(c) + 1 /\ f[Len(c) + 1] = EmptyDir
        /\ \A a \in 1 .. Len(c) : f[a] = c[a]
    BY <2>1, AppendIs
  <2> QED
    BY <1>4, <2>2, Zenon DEF S
<1>9. /\ \A a \in 1 .. Len(d) : a # b => Append(c, EmptyDir)[a] = d[a]
      /\ \A a \in 1 .. Len(d), j \in Entries :
             Append(c, EmptyDir)[a][j] =
                 IF a = b /\ j = i THEN Len(d) + 1 ELSE d[a][j]
  <2>1. \A a \in 1 .. Len(d) : Append(c, EmptyDir)[a] = c[a]
    BY <1>8, Zenon
  <2>2. \A a \in 1 .. Len(d) : a # b => Append(c, EmptyDir)[a] = d[a]
    BY <1>5, <2>1, Zenon
  <2>3. \A a \in 1 .. Len(d), j \in Entries :
            Append(c, EmptyDir)[a][j] = c[a][j]
    BY <2>1, Zenon
  <2>4. \A a \in 1 .. Len(d), j \in Entries :
            Append(c, EmptyDir)[a][j] =
                IF a = b /\ j = i THEN Len(d) + 1 ELSE d[a][j]
    <3> TAKE a \in 1 .. Len(d), j \in Entries
    <3>1. c[a][j] = IF a = b /\ j = i THEN Len(d) + 1 ELSE d[a][j]
        BY <1>6
    <3>2. Append(c, EmptyDir)[a][j] = c[a][j]
        BY <2>3, Zenon
    <3> QED
        BY <3>1, <3>2, Zenon
  <2> QED
    BY <2>2, <2>4, Zenon
<1>10. IsGrown(d, b, i, Append(c, EmptyDir))
    BY <1>8, <1>9, Zenon DEF IsGrown
<1> QED
    BY <1>7, <1>10, Zenon

\* The entries stay pointers to tables, and every table keeps one parent.
LEMMA GrownDirOK ==
    ASSUME NEW d, DirOK(d), NEW b \in 1 .. Len(d), NEW i \in Entries, d[b][i] = 0
    PROVE  /\ DirOK(Grown(d, b, i))
           /\ OneParent(d) => OneParent(Grown(d, b, i))
<1> DEFINE e == Grown(d, b, i)
           n == Len(d)
<1>0. n \in Nat /\ n >= 1
    BY DEF DirOK
<1>1. /\ e \in Seq([Entries -> Nat]) /\ Len(e) = n + 1
      /\ \A j \in Entries : e[n + 1][j] = 0
      /\ \A a \in 1 .. n, j \in Entries :
             e[a][j] = IF a = b /\ j = i THEN n + 1 ELSE d[a][j]
  <2>1. \A j \in Entries : EmptyDir[j] = 0
    BY DEF EmptyDir
  <2>2. /\ e \in Seq([Entries -> Nat]) /\ Len(e) = n + 1
        /\ e[n + 1] = EmptyDir
        /\ \A a \in 1 .. n, j \in Entries :
               e[a][j] = IF a = b /\ j = i THEN n + 1 ELSE d[a][j]
    <3>1. IsGrown(d, b, i, e)
        BY GrownIs, Zenon
    <3> QED
        BY <3>1, Zenon DEF IsGrown
  <2> HIDE DEF e, n
  <2> QED
    BY <2>1, <2>2, Zenon
<1>2. \A a \in 1 .. n, j \in Entries : d[a][j] \in {0} \cup 2 .. n
    BY Zenon DEF DirOK
<1>3. b \in 1 .. n /\ i \in Entries
    OBVIOUS
<1>4. OneParent(d) => \A a, c \in 1 .. n, j, k \in Entries :
          d[a][j] # 0 /\ d[a][j] = d[c][k] => a = c /\ j = k
    BY Zenon DEF OneParent
<1> HIDE DEF e, n
<1>5. \A a \in 1 .. n + 1 : a \in 1 .. n \/ a = n + 1
    BY <1>0
<1>6. ASSUME NEW a \in 1 .. n + 1, NEW j \in Entries
      PROVE  e[a][j] \in {0} \cup 2 .. n + 1
  <2>1. CASE a = n + 1
    BY <1>1, <2>1
  <2>2. CASE a \in 1 .. n
    <3>1. d[a][j] \in {0} \cup 2 .. n
        BY <1>2, <2>2
    <3>2. e[a][j] = n + 1 \/ e[a][j] = d[a][j]
        BY <1>1, <2>2, Zenon
    <3> QED
        BY <1>0, <3>1, <3>2
  <2> QED
    BY <1>5, <2>1, <2>2
<1>7. DirOK(e)
    BY <1>0, <1>1, <1>6 DEF DirOK
<1>8. ASSUME OneParent(d),
             NEW a \in 1 .. n + 1, NEW c \in 1 .. n + 1,
             NEW j \in Entries, NEW k \in Entries,
             e[a][j] # 0, e[a][j] = e[c][k]
      PROVE  a = c /\ j = k
  <2>1. a \in 1 .. n /\ c \in 1 .. n
    BY <1>1, <1>5, <1>8, Zenon
  <2>2. d[a][j] \in {0} \cup 2 .. n /\ d[c][k] \in {0} \cup 2 .. n
    BY <1>2, <2>1
  <2>3. d[a][j] # n + 1 /\ d[c][k] # n + 1
    BY <1>0, <2>2
  <2>4. /\ e[a][j] = IF a = b /\ j = i THEN n + 1 ELSE d[a][j]
        /\ e[c][k] = IF c = b /\ k = i THEN n + 1 ELSE d[c][k]
    BY <1>1, <2>1, Zenon
  <2>5. CASE a = b /\ j = i
    BY <1>8, <2>3, <2>4, <2>5, Zenon
  <2>6. CASE ~ (a = b /\ j = i)
    <3>1. e[a][j] = d[a][j]
        BY <2>4, <2>6, Zenon
    <3>2. ~ (c = b /\ k = i)
        BY <1>8, <2>3, <2>4, <3>1, Zenon
    <3>3. e[c][k] = d[c][k]
        BY <2>4, <3>2, Zenon
    <3>4. d[a][j] # 0 /\ d[a][j] = d[c][k]
        BY <1>8, <3>1, <3>3, Zenon
    <3> QED
        BY <1>4, <1>8, <2>1, <3>4
  <2> QED
    BY <2>5, <2>6
<1>9. OneParent(d) => OneParent(e)
  <2>1. OneParent(e) <=> \A a, c \in 1 .. n + 1, j, k \in Entries :
            e[a][j] # 0 /\ e[a][j] = e[c][k] => a = c /\ j = k
    BY <1>1 DEF OneParent
  <2> QED
    BY <1>8, <2>1
<1> QED
    BY <1>7, <1>9 DEF e

\* A path keeps its tables; the new table appears on the paths through its
\* entry.
LEMMA GrownPath ==
    ASSUME NEW d, DirOK(d), NEW b \in 1 .. Len(d), NEW i \in Entries, d[b][i] = 0,
           NEW g \in Pages, NEW L \in 1 .. Levels
    PROVE  PathIn(Grown(d, b, i), g)[L] =
               IF PathIn(d, g)[L] # 0 THEN PathIn(d, g)[L]
               ELSE IF L > 1 /\ PathIn(d, g)[L - 1] = b /\ Index[g][L - 1] = i
               THEN Len(d) + 1
               ELSE 0
<1> DEFINE e == Grown(d, b, i)
           n == Len(d)
           p == PathIn(d, g)
           q == PathIn(e, g)
           Ok(l) == q[l] = IF p[l] # 0 THEN p[l]
                           ELSE IF l > 1 /\ p[l - 1] = b /\ Index[g][l - 1] = i
                           THEN n + 1
                           ELSE 0
           T == {l \in 1 .. Levels : ~ Ok(l)}
<1> SUFFICES ASSUME L \in T PROVE FALSE
    BY Zenon
<1>0. Levels \in Nat \ {0} /\ n \in Nat /\ n >= 1 /\ b \in 1 .. n /\ b # 0
    BY PageNumbers DEF DirOK
<1>1. T \in SUBSET Nat /\ T # {}
    BY <1>0
<1>2. PICK l \in T : \A m \in T : l <= m
    BY <1>1, LeastNumber, Zenon
<1>3. p[1] = 1 /\ \A k \in 2 .. Levels :
          p[k] = IF p[k - 1] = 0 THEN 0 ELSE d[p[k - 1]][Index[g][k - 1]]
    BY PathOf
<1>4. q[1] = 1 /\ \A k \in 2 .. Levels :
          q[k] = IF q[k - 1] = 0 THEN 0 ELSE e[q[k - 1]][Index[g][k - 1]]
    BY PathOf
<1>5. /\ \A j \in Entries : e[n + 1][j] = 0
      /\ \A a \in 1 .. n, j \in Entries :
             e[a][j] = IF a = b /\ j = i THEN n + 1 ELSE d[a][j]
  <2>1. \A j \in Entries : EmptyDir[j] = 0
    BY Zenon DEF EmptyDir
  <2>2. /\ e \in Seq([Entries -> Nat]) /\ Len(e) = n + 1
        /\ e[n + 1] = EmptyDir
        /\ \A a \in 1 .. n, j \in Entries :
               e[a][j] = IF a = b /\ j = i THEN n + 1 ELSE d[a][j]
    <3>1. IsGrown(d, b, i, e)
        BY GrownIs, Zenon
    <3> QED
        BY <3>1, Zenon DEF IsGrown
  <2> HIDE DEF e, n
  <2> QED
    BY <2>1, <2>2
<1>6. \A k \in 1 .. Levels : p[k] \in 0 .. n
    BY PathType
<1>7. d[b][i] = 0
    OBVIOUS
<1> HIDE DEF e, n, p, q
<1>8. l # 1
    BY <1>2, <1>3, <1>4
<1>9. l \in 2 .. Levels /\ l - 1 \in 1 .. Levels /\ l > 1 /\ l - 1 \notin T
    BY <1>0, <1>2, <1>8
<1>10. Index[g][l - 1] \in Entries
    BY <1>9, IndexIs
<1>11. Ok(l - 1)
    BY <1>9, Zenon
<1>12. CASE p[l - 1] # 0
  <2>1. p[l - 1] \in 1 .. n
    BY <1>0, <1>6, <1>9, <1>12
  <2>2. q[l - 1] = p[l - 1]
    BY <1>11, <1>12, Zenon
  <2>3. p[l] = d[p[l - 1]][Index[g][l - 1]] /\ q[l] = e[p[l - 1]][Index[g][l - 1]]
    BY <1>3, <1>4, <1>9, <1>12, <2>2, Zenon
  <2>4. q[l] = IF p[l - 1] = b /\ Index[g][l - 1] = i THEN n + 1 ELSE p[l]
    BY <1>5, <1>10, <2>1, <2>3, Zenon
  <2>5. p[l - 1] = b /\ Index[g][l - 1] = i => p[l] = 0
    BY <1>7, <2>3
  <2>6. Ok(l)
    BY <1>9, <2>4, <2>5, Zenon
  <2> QED
    BY <1>2, <2>6, Zenon
<1>13. CASE p[l - 1] = 0
  <2>1. p[l] = 0 /\ p[l - 1] # b
    BY <1>0, <1>3, <1>9, <1>13
  <2>2. q[l - 1] = 0 \/ q[l - 1] = n + 1
    BY <1>11, <1>13, Zenon
  <2>3. q[l] = 0
    <3>1. q[l] = IF q[l - 1] = 0 THEN 0 ELSE e[q[l - 1]][Index[g][l - 1]]
        BY <1>4, <1>9
    <3>2. e[n + 1][Index[g][l - 1]] = 0
        BY <1>5, <1>10, Zenon
    <3> QED
        BY <2>2, <3>1, <3>2
  <2>4. Ok(l)
    BY <2>1, <2>3
  <2> QED
    BY <1>2, <2>4
<1> QED
    BY <1>12, <1>13

\* The tree of the directories d and the entries p.
TreeOK(d, p) ==
    /\ DirOK(d) /\ OneParent(d) /\ OneLevel(d)
    /\ \A b \in 2 .. Len(d) :
           \E g \in Pages, l \in 2 .. Levels : PathIn(d, g)[l] = b
    /\ \A g \in Pages : PathIn(d, g)[Levels] # 0 =>
           d[PathIn(d, g)[Levels]] = EmptyDir
    /\ p \in Seq([Entries -> Word]) /\ Len(p) = Len(d)
    /\ \A b \in 1 .. Len(d) : p[b] # EmptyPt =>
           \E g \in Pages : PathIn(d, g)[Levels] = b

\* What a table hung below table b of page h's path does to the paths.
LEMMA GrownPaths ==
    ASSUME NEW d, DirOK(d), OneLevel(d), NEW h \in Pages, NEW m \in 1 .. Levels,
           m < Levels, NEW b \in 1 .. Len(d), b = PathIn(d, h)[m],
           d[b][Index[h][m]] = 0, NEW e, e = Grown(d, b, Index[h][m])
    PROVE  /\ \A g \in Pages, l \in 1 .. Levels :
                  /\ PathIn(d, g)[l] # 0 => PathIn(e, g)[l] = PathIn(d, g)[l]
                  /\ PathIn(d, g)[l] = 0 =>
                         \/ PathIn(e, g)[l] = 0
                         \/ PathIn(e, g)[l] = Len(d) + 1 /\ l = m + 1
           /\ PathIn(e, h)[m + 1] = Len(d) + 1
<1> DEFINE i == Index[h][m]
<1>0. Levels \in Nat \ {0} /\ Len(d) \in Nat /\ i \in Entries /\ d[b][i] = 0
  <2>1. Len(d) \in Nat
    BY DEF DirOK
  <2> QED
    BY <2>1, PageNumbers, IndexIs, Zenon
<1>1. ASSUME NEW g \in Pages, NEW l \in 1 .. Levels
      PROVE  PathIn(e, g)[l] =
                 IF PathIn(d, g)[l] # 0 THEN PathIn(d, g)[l]
                 ELSE IF l > 1 /\ PathIn(d, g)[l - 1] = b /\ Index[g][l - 1] = i
                 THEN Len(d) + 1
                 ELSE 0
    BY <1>0, GrownPath
<1>2. ASSUME NEW g \in Pages, NEW l \in 1 .. Levels
      PROVE  /\ PathIn(d, g)[l] # 0 => PathIn(e, g)[l] = PathIn(d, g)[l]
             /\ PathIn(d, g)[l] = 0 =>
                    \/ PathIn(e, g)[l] = 0
                    \/ PathIn(e, g)[l] = Len(d) + 1 /\ l = m + 1
  <2>1. CASE l > 1 /\ PathIn(d, g)[l - 1] = b
    <3>1. l - 1 \in 1 .. Levels
        BY <1>0, <2>1
    <3>2. b # 0
        BY <1>0
    <3>3. PathIn(d, g)[l - 1] # 0 /\ PathIn(d, g)[l - 1] = PathIn(d, h)[m]
        BY <2>1, <3>2, Zenon
    <3>4. l - 1 = m
        BY <3>1, <3>3, Zenon DEF OneLevel
    <3>5. l = m + 1
        BY <1>0, <3>4
    <3> QED
        BY <1>1, <3>5, Zenon
  <2>2. CASE ~ (l > 1 /\ PathIn(d, g)[l - 1] = b)
    BY <1>1, <2>2, Zenon
  <2> QED
    BY <2>1, <2>2
<1>3. PathIn(e, h)[m + 1] = Len(d) + 1
  <2>1. m + 1 \in 1 .. Levels /\ m + 1 > 1 /\ (m + 1) - 1 = m /\ b # 0
    BY <1>0
  <2>2. PathIn(d, h)[m + 1] = d[b][i]
    BY <2>1, PathStep
  <2>3. PathIn(d, h)[m + 1] = 0
    BY <1>0, <2>2
  <2>4. PathIn(e, h)[m + 1] =
            IF PathIn(d, h)[m + 1] # 0 THEN PathIn(d, h)[m + 1]
            ELSE IF m + 1 > 1 /\ PathIn(d, h)[m] = b /\ Index[h][m] = i
            THEN Len(d) + 1
            ELSE 0
    BY <1>1, <2>1, Zenon
  <2> QED
    BY <2>1, <2>3, <2>4, Zenon
<1> QED
    BY <1>2, <1>3, Zenon

\* The tree is one again, and the old paths go on.
LEMMA GrownTree ==
    ASSUME NEW d, NEW p, TreeOK(d, p), NEW h \in Pages, NEW m \in 1 .. Levels,
           m < Levels, NEW b \in 1 .. Len(d), b = PathIn(d, h)[m],
           d[b][Index[h][m]] = 0
    PROVE  TreeOK(Grown(d, b, Index[h][m]), Append(p, EmptyPt))
<1> DEFINE i == Index[h][m]
           e == Grown(d, b, i)
           q == Append(p, EmptyPt)
           n == Len(d)
           E(g) == PathIn(e, g)
           D(g) == PathIn(d, g)
<1>0. /\ Levels \in Nat \ {0} /\ n \in Nat /\ n >= 1
      /\ i \in Entries /\ d[b][i] = 0 /\ DirOK(d) /\ OneParent(d) /\ OneLevel(d)
    BY PageNumbers, IndexIs DEF TreeOK, DirOK
<1>1. /\ \A g \in Pages, l \in 1 .. Levels :
             /\ D(g)[l] # 0 => E(g)[l] = D(g)[l]
             /\ D(g)[l] = 0 => E(g)[l] = 0 \/ (E(g)[l] = n + 1 /\ l = m + 1)
      /\ E(h)[m + 1] = n + 1
  <2>1. e = Grown(d, b, Index[h][m]) /\ d[b][Index[h][m]] = 0
    BY Zenon
  <2> HIDE DEF e
  <2>2. /\ \A g \in Pages, l \in 1 .. Levels :
               /\ PathIn(d, g)[l] # 0 => PathIn(e, g)[l] = PathIn(d, g)[l]
               /\ PathIn(d, g)[l] = 0 =>
                      \/ PathIn(e, g)[l] = 0
                      \/ PathIn(e, g)[l] = Len(d) + 1 /\ l = m + 1
        /\ PathIn(e, h)[m + 1] = Len(d) + 1
    BY <1>0, <2>1, GrownPaths
  <2> QED
    BY <2>2, Zenon
<1>2. DirOK(e) /\ OneParent(e)
    BY <1>0, GrownDirOK
<1>3. /\ Len(e) = n + 1 /\ e[n + 1] = EmptyDir
      /\ \A a \in 1 .. n : a # b => e[a] = d[a]
  <2>1. IsGrown(d, b, i, e)
    BY <1>0, GrownIs, Zenon
  <2> HIDE DEF i
  <2> QED
    BY <2>1, Zenon DEF IsGrown
<1>4. \A g \in Pages, l \in 1 .. Levels : D(g)[l] \in 0 .. n
    BY <1>0, PathType
<1>5. /\ \A c \in 2 .. n : \E g \in Pages, l \in 2 .. Levels : D(g)[l] = c
      /\ \A g \in Pages : D(g)[Levels] # 0 => d[D(g)[Levels]] = EmptyDir
      /\ p \in Seq([Entries -> Word]) /\ Len(p) = n
      /\ \A c \in 1 .. n : p[c] # EmptyPt => \E g \in Pages : D(g)[Levels] = c
    BY Zenon DEF TreeOK
<1>6. \A g, k \in Pages, l, j \in 1 .. Levels :
          D(g)[l] # 0 /\ D(g)[l] = D(k)[j] => l = j
    BY <1>0, Zenon DEF OneLevel
<1>7. b \in 1 .. n /\ b = D(h)[m]
    OBVIOUS
<1>8. EmptyPt \in [Entries -> Word]
    BY DEF EmptyPt, Word
<1>9. /\ q \in Seq([Entries -> Word]) /\ Len(q) = n + 1 /\ q[n + 1] = EmptyPt
      /\ \A a \in 1 .. n : q[a] = p[a]
  <2> DEFINE S == [Entries -> Word]
  <2>1. p \in Seq(S) /\ EmptyPt \in S /\ Len(p) = n
    BY <1>5, <1>8
  <2> HIDE DEF S, n
  <2>2. /\ q \in Seq(S) /\ Len(q) = Len(p) + 1 /\ q[Len(p) + 1] = EmptyPt
        /\ \A a \in 1 .. Len(p) : q[a] = p[a]
    BY <2>1, AppendIs
  <2> QED
    BY <2>1, <2>2, Zenon DEF S
<1> HIDE DEF i, e, q, n, D, E
<1>10. OneLevel(e)
  <2> SUFFICES ASSUME NEW g \in Pages, NEW k \in Pages,
                      NEW l \in 1 .. Levels, NEW j \in 1 .. Levels,
                      E(g)[l] # 0, E(g)[l] = E(k)[j]
               PROVE  l = j
    <3>1. OneLevel(e) <=> \A g, k \in Pages, l, j \in 1 .. Levels :
              E(g)[l] # 0 /\ E(g)[l] = E(k)[j] => l = j
        BY Zenon DEF OneLevel, E
    <3> QED
        BY <3>1
  <2>1. D(g)[l] \in 0 .. n /\ D(k)[j] \in 0 .. n
    BY <1>4
  <2>2. D(g)[l] # n + 1 /\ D(k)[j] # n + 1
    BY <1>0, <2>1
  <2>3. CASE D(g)[l] # 0
    <3>1. D(k)[j] # 0
        BY <1>1, <2>2, <2>3, Zenon
    <3>2. D(g)[l] = D(k)[j]
        BY <1>1, <2>3, <3>1, Zenon
    <3> QED
        BY <1>6, <2>3, <3>2, ZenonT(40)
  <2>4. CASE D(g)[l] = 0
    <3>1. E(g)[l] = n + 1 /\ l = m + 1
        BY <1>1, <2>4, Zenon
    <3>2. D(k)[j] = 0
        BY <1>1, <2>2, <3>1, Zenon
    <3>3. j = m + 1
        BY <1>1, <3>2, Zenon
    <3> QED
        BY <3>1, <3>3
  <2> QED
    BY <2>3, <2>4
<1>11. ASSUME NEW c \in 2 .. n + 1
       PROVE  \E g \in Pages, l \in 2 .. Levels : E(g)[l] = c
  <2>1. CASE c = n + 1
    <3>1. m + 1 \in 2 .. Levels
        BY <1>0
    <3> QED
        BY <1>1, <2>1, <3>1, Zenon
  <2>2. CASE c \in 2 .. n
    <3>1. PICK g \in Pages, l \in 2 .. Levels : D(g)[l] = c
        BY <1>5, <2>2, Zenon
    <3>2. c # 0 /\ l \in 1 .. Levels
        BY <1>0, <2>2
    <3> QED
        BY <1>1, <3>1, <3>2, Zenon
  <2> QED
    BY <1>0, <2>1, <2>2
<1>12. ASSUME NEW g \in Pages, E(g)[Levels] # 0
       PROVE  e[E(g)[Levels]] = EmptyDir
  <2>0. Levels \in 1 .. Levels
    BY <1>0
  <2>1. CASE D(g)[Levels] = 0
    BY <1>1, <1>3, <1>12, <2>0, <2>1, Zenon
  <2>2. CASE D(g)[Levels] # 0
    <3>1. E(g)[Levels] = D(g)[Levels]
        BY <1>1, <2>0, <2>2, Zenon
    <3>2. D(g)[Levels] \in 1 .. n
        BY <1>0, <1>4, <2>0, <2>2
    <3>3. D(g)[Levels] # b
        BY <1>0, <1>6, <1>7, <2>0, <2>2
    <3> QED
        BY <1>3, <1>5, <2>2, <3>1, <3>2, <3>3, Zenon
  <2> QED
    BY <2>1, <2>2
<1>13. ASSUME NEW c \in 1 .. n + 1, q[c] # EmptyPt
       PROVE  \E g \in Pages : E(g)[Levels] = c
  <2>1. c \in 1 .. n /\ c # 0
    BY <1>0, <1>9, <1>13
  <2>2. PICK g \in Pages : D(g)[Levels] = c
    BY <1>5, <1>9, <1>13, <2>1, Zenon
  <2>3. Levels \in 1 .. Levels
    BY <1>0
  <2> QED
    BY <1>1, <2>1, <2>2, <2>3, Zenon
<1>14. TreeOK(e, q)
  <2>1. /\ \A c \in 2 .. Len(e) :
               \E g \in Pages, l \in 2 .. Levels : E(g)[l] = c
        /\ \A c \in 1 .. Len(e) : q[c] # EmptyPt =>
               \E g \in Pages : E(g)[Levels] = c
    BY <1>3, <1>11, <1>13, Zenon
  <2>2. Len(q) = Len(e)
    BY <1>3, <1>9
  <2> QED
    BY <1>2, <1>9, <1>10, <1>12, <2>1, <2>2, Zenon DEF TreeOK, E
<1> QED
    BY <1>14, Zenon DEF e, q, i

(***************************************************************************)
(* Storing an entry.                                                       *)
(***************************************************************************)
\* A store through *pte_ptr changes one entry of one table.
LEMMA StoredIs ==
    ASSUME NEW p \in Seq([Entries -> Word]), NEW b \in 1 .. Len(p),
           NEW i \in Entries, NEW e \in Word
    PROVE  /\ [p EXCEPT ![b][i] = e] \in Seq([Entries -> Word])
           /\ Len([p EXCEPT ![b][i] = e]) = Len(p)
           /\ \A a \in 1 .. Len(p) : a # b => [p EXCEPT ![b][i] = e][a] = p[a]
           /\ \A a \in 1 .. Len(p), j \in Entries :
                  [p EXCEPT ![b][i] = e][a][j] =
                      IF a = b /\ j = i THEN e ELSE p[a][j]
<1> DEFINE S == [Entries -> Word]
           x == [p[b] EXCEPT ![i] = e]
           q == [p EXCEPT ![b] = x]
<1>1. p \in Seq(S) /\ p[b] \in S
    OBVIOUS
<1>2. x \in S
    BY <1>1
<1>3. \A j \in Entries : x[j] = IF j = i THEN e ELSE p[b][j]
    BY <1>1
<1> HIDE DEF S, x
<1>4. /\ q \in Seq(S) /\ Len(q) = Len(p) /\ q[b] = x
      /\ \A a \in 1 .. Len(p) : a # b => q[a] = p[a]
    BY <1>1, <1>2
<1>5. [p EXCEPT ![b][i] = e] = q
    BY DEF x
<1> HIDE DEF q
<1>6. \A a \in 1 .. Len(p), j \in Entries :
          q[a][j] = IF a = b /\ j = i THEN e ELSE p[a][j]
    BY <1>3, <1>4
<1> QED
    BY <1>4, <1>5, <1>6, Zenon DEF S

\* A store of what is there changes nothing.
LEMMA StoredSame ==
    ASSUME NEW S, NEW p \in Seq([Entries -> S]), NEW b \in 1 .. Len(p),
           NEW i \in Entries
    PROVE  [p EXCEPT ![b][i] = p[b][i]] = p
<1>1. p[b] \in [Entries -> S]
    OBVIOUS
<1>2. [p[b] EXCEPT ![i] = p[b][i]] = p[b]
    BY <1>1
<1> QED
    BY <1>2

\* It leaves the tree alone when the table is the last of a path.
LEMMA StoredTree ==
    ASSUME NEW d, NEW p, TreeOK(d, p), NEW h \in Pages,
           NEW b \in 1 .. Len(d), b = PathIn(d, h)[Levels],
           NEW i \in Entries, NEW e \in Word
    PROVE  TreeOK(d, [p EXCEPT ![b][i] = e])
<1> DEFINE q == [p EXCEPT ![b][i] = e]
<1>1. p \in Seq([Entries -> Word]) /\ Len(p) = Len(d)
    BY Zenon DEF TreeOK
<1>2. /\ q \in Seq([Entries -> Word]) /\ Len(q) = Len(d)
      /\ \A a \in 1 .. Len(d) : a # b => q[a] = p[a]
    BY <1>1, StoredIs
<1> HIDE DEF q
<1>3. ASSUME NEW c \in 1 .. Len(d), q[c] # EmptyPt
      PROVE  \E g \in Pages : PathIn(d, g)[Levels] = c
  <2>1. CASE c = b
    BY <2>1
  <2>2. CASE c # b
    BY <1>2, <1>3, <2>2, Zenon DEF TreeOK
  <2> QED
    BY <2>1, <2>2
<1>4. TreeOK(d, q)
    BY <1>2, <1>3, Zenon DEF TreeOK
<1> QED
    BY <1>4 DEF q

(***************************************************************************)
(* Numbers in bits: what SETVAL puts into a field GETVAL gets out of it.   *)
(***************************************************************************)

\* The weights of the positions that a field of an entry has.
LEMMA Powers ==
    /\ 2^0 = 1
    /\ \A b \in 0 .. 20 : 2^b \in Nat \ {0} /\ 2^(b + 1) = 2 * 2^b
<1>1. 2^0 = 1
    BY SMT
<1>2. ASSUME NEW b \in 0 .. 20, NEW c, c = b + 1
      PROVE  2^b \in Nat \ {0} /\ 2^c = 2 * 2^b
  <2>1. /\ (b = 0 => 2^b = 2^0)  /\ (b = 1 => 2^b = 2^1)  /\ (b = 2 => 2^b = 2^2)
        /\ (b = 3 => 2^b = 2^3)  /\ (b = 4 => 2^b = 2^4)  /\ (b = 5 => 2^b = 2^5)
        /\ (b = 6 => 2^b = 2^6)  /\ (b = 7 => 2^b = 2^7)  /\ (b = 8 => 2^b = 2^8)
        /\ (b = 9 => 2^b = 2^9)  /\ (b = 10 => 2^b = 2^10) /\ (b = 11 => 2^b = 2^11)
        /\ (b = 12 => 2^b = 2^12) /\ (b = 13 => 2^b = 2^13) /\ (b = 14 => 2^b = 2^14)
        /\ (b = 15 => 2^b = 2^15) /\ (b = 16 => 2^b = 2^16) /\ (b = 17 => 2^b = 2^17)
        /\ (b = 18 => 2^b = 2^18) /\ (b = 19 => 2^b = 2^19) /\ (b = 20 => 2^b = 2^20)
    BY Zenon
  <2>2. /\ (c = 1 => 2^c = 2^1)  /\ (c = 2 => 2^c = 2^2)  /\ (c = 3 => 2^c = 2^3)
        /\ (c = 4 => 2^c = 2^4)  /\ (c = 5 => 2^c = 2^5)  /\ (c = 6 => 2^c = 2^6)
        /\ (c = 7 => 2^c = 2^7)  /\ (c = 8 => 2^c = 2^8)  /\ (c = 9 => 2^c = 2^9)
        /\ (c = 10 => 2^c = 2^10) /\ (c = 11 => 2^c = 2^11) /\ (c = 12 => 2^c = 2^12)
        /\ (c = 13 => 2^c = 2^13) /\ (c = 14 => 2^c = 2^14) /\ (c = 15 => 2^c = 2^15)
        /\ (c = 16 => 2^c = 2^16) /\ (c = 17 => 2^c = 2^17) /\ (c = 18 => 2^c = 2^18)
        /\ (c = 19 => 2^c = 2^19) /\ (c = 20 => 2^c = 2^20) /\ (c = 21 => 2^c = 2^21)
    BY Zenon
  <2> QED
    BY <1>2, <2>1, <2>2, SMTT(30)
<1> QED
    BY <1>1, <1>2, Zenon

\* The weight of position b in s.
Bit(s, b) == IF b \in s THEN 2^b ELSE 0

\* f[k] is the number of the positions of s below k.
IsPart(f, s, n) ==
    f = [k \in 0 .. n |-> IF k = 0 THEN 0 ELSE f[k - 1] + Bit(s, k - 1)]

\* There is one, up to any position.
LEMMA PartExists ==
    ASSUME NEW s, NEW N \in Nat
    PROVE  \E f : IsPart(f, s, N)
<1> DEFINE T == {n \in Nat : ~ \E f : IsPart(f, s, n)}
<1> SUFFICES ASSUME N \in T PROVE FALSE
    OBVIOUS
<1>1. PICK n \in T : \A m \in T : n <= m
  <2>1. T \in SUBSET Nat /\ T # {}
    OBVIOUS
  <2> QED
    BY <2>1, LeastNumber, Zenon
<1>2. CASE n = 0
  <2> DEFINE h == [k \in 0 .. 0 |-> 0]
  <2>1. IsPart(h, s, 0)
    BY DEF IsPart
  <2> QED
    BY <1>1, <1>2, <2>1
<1>3. CASE n # 0
  <2>1. n - 1 \in Nat /\ n - 1 \notin T
    BY <1>1, <1>3
  <2>2. PICK f : IsPart(f, s, n - 1)
    BY <2>1
  <2> DEFINE h == [k \in 0 .. n |-> IF k = 0 THEN 0 ELSE f[k - 1] + Bit(s, k - 1)]
  <2>3. \A k \in 0 .. n - 1 : h[k] = f[k]
    <3> TAKE k \in 0 .. n - 1
    <3>1. k \in 0 .. n
        BY <2>1
    <3> QED
        BY <2>2, <3>1 DEF IsPart
  <2>4. \A k \in 0 .. n : k # 0 => k - 1 \in 0 .. n - 1
    BY <2>1
  <2>5. \A k \in 0 .. n : k # 0 => h[k - 1] = f[k - 1]
    BY <2>3, <2>4, Zenon
  <2>6. IsPart(h, s, n)
    BY <2>5, Zenon DEF IsPart
  <2> QED
    BY <1>1, <2>6
<1> QED
    BY <1>2, <1>3

\* The numbers of the positions of s below each of the first 21.
Part(s) == CHOOSE f : IsPart(f, s, 21)

\* A weight is a number, and zero where the position is not set.
LEMMA BitIs ==
    ASSUME NEW s, NEW b \in 0 .. 20
    PROVE  Bit(s, b) \in Nat /\ (b \in s => Bit(s, b) = 2^b) /\ (b \notin s => Bit(s, b) = 0)
    BY Powers, Zenon DEF Bit

\* Part is built up position by position.
LEMMA PartIs ==
    ASSUME NEW s
    PROVE  /\ Part(s)[0] = 0
           /\ \A k \in 1 .. 21 : Part(s)[k] = Part(s)[k - 1] + Bit(s, k - 1)
           /\ \A k \in 0 .. 21 : Part(s)[k] \in Nat
<1>1. IsPart(Part(s), s, 21)
  <2>1. \E f : IsPart(f, s, 21)
    BY PartExists
  <2> QED
    BY <2>1, Zenon DEF Part
<1> DEFINE p == Part(s)
<1>2. p[0] = 0 /\ \A k \in 1 .. 21 : p[k] = p[k - 1] + Bit(s, k - 1)
  <2>1. \A k \in 0 .. 21 : p[k] = IF k = 0 THEN 0 ELSE p[k - 1] + Bit(s, k - 1)
    BY <1>1 DEF IsPart
  <2> QED
    BY <2>1
<1> HIDE DEF p
<1>3. ASSUME NEW K \in 0 .. 21, p[K] \notin Nat PROVE FALSE
  <2> DEFINE T == {k \in 0 .. 21 : p[k] \notin Nat}
  <2>1. T \in SUBSET Nat /\ T # {}
    BY <1>3
  <2>2. PICK k \in T : \A m \in T : k <= m
    BY <2>1, LeastNumber, Zenon
  <2>3. k # 0
    BY <1>2, <2>2
  <2>4. k \in 1 .. 21 /\ k - 1 \in 0 .. 20 /\ k - 1 \in 0 .. 21 /\ k - 1 \notin T
    BY <2>2, <2>3
  <2>5. p[k - 1] \in Nat /\ p[k] = p[k - 1] + Bit(s, k - 1) /\ Bit(s, k - 1) \in Nat
    BY <1>2, <2>4, BitIs, Zenon
  <2> QED
    BY <2>2, <2>5
<1> QED
    BY <1>2, <1>3, Zenon DEF p

\* Without position x the number is 2^x less.
LEMMA PartLess ==
    ASSUME NEW s, NEW x \in 0 .. 20, x \in s, NEW K \in 0 .. 21
    PROVE  Part(s)[K] = Part(s \ {x})[K] + (IF K > x THEN 2^x ELSE 0)
<1> DEFINE p == Part(s)
           q == Part(s \ {x})
           D(k) == IF k > x THEN 2^x ELSE 0
           T == {k \in 0 .. 21 : p[k] # q[k] + D(k)}
<1> SUFFICES ASSUME K \in T PROVE FALSE
    OBVIOUS
<1>1. PICK k \in T : \A m \in T : k <= m
  <2>1. T \in SUBSET Nat /\ T # {}
    OBVIOUS
  <2> QED
    BY <2>1, LeastNumber, Zenon
<1>2. k # 0
    BY <1>1, PartIs
<1>3. k \in 1 .. 21 /\ k - 1 \in 0 .. 20 /\ k - 1 \in 0 .. 21 /\ k - 1 \notin T
    BY <1>1, <1>2
<1>4. /\ p[k - 1] = q[k - 1] + D(k - 1) /\ p[k - 1] \in Nat /\ q[k - 1] \in Nat
      /\ p[k] = p[k - 1] + Bit(s, k - 1) /\ q[k] = q[k - 1] + Bit(s \ {x}, k - 1)
    BY <1>3, PartIs, Zenon
<1> HIDE DEF p, q
<1>5. Bit(s, k - 1) \in Nat /\ Bit(s \ {x}, k - 1) \in Nat /\ 2^x \in Nat
    BY <1>3, BitIs, Powers, Zenon
<1>6. CASE k - 1 = x
  <2>1. Bit(s, k - 1) = 2^x /\ Bit(s \ {x}, k - 1) = 0
    BY <1>6, Zenon DEF Bit
  <2> QED
    BY <1>1, <1>4, <1>5, <1>6, <2>1
<1>7. CASE k - 1 # x
  <2>1. Bit(s, k - 1) = Bit(s \ {x}, k - 1)
    BY <1>7 DEF Bit
  <2> QED
    BY <1>1, <1>3, <1>4, <1>5, <1>7, <2>1
<1> QED
    BY <1>6, <1>7

\* With no position the number is zero.
LEMMA PartEmpty ==
    ASSUME NEW K \in 0 .. 21
    PROVE  Part({})[K] = 0
<1> DEFINE p == Part({})
           T == {k \in 0 .. 21 : p[k] # 0}
<1> SUFFICES ASSUME K \in T PROVE FALSE
    OBVIOUS
<1>1. PICK k \in T : \A m \in T : k <= m
  <2>1. T \in SUBSET Nat /\ T # {}
    OBVIOUS
  <2> QED
    BY <2>1, LeastNumber, Zenon
<1>2. k # 0
    BY <1>1, PartIs
<1>3. k \in 1 .. 21 /\ k - 1 \in 0 .. 21 /\ k - 1 \notin T
    BY <1>1, <1>2
<1>4. p[k - 1] = 0 /\ p[k] = p[k - 1] + Bit({}, k - 1)
    BY <1>3, PartIs
<1>5. Bit({}, k - 1) = 0
    BY DEF Bit
<1> QED
    BY <1>1, <1>4, <1>5

\* iter adds up the weights of the positions of each subset of S, as the
\* library's fold over a set does.
IsSum(iter, S) ==
    iter = [s \in SUBSET S |->
               IF s = {} THEN 0
               ELSE 2^(CHOOSE x \in s : TRUE) + iter[s \ {CHOOSE x \in s : TRUE}]]

\* There is one.
LEMMA SumExists ==
    ASSUME NEW K \in 0 .. 21, NEW S \in SUBSET (0 .. K - 1)
    PROVE  IsSum([s \in SUBSET S |-> Part(s)[K]], S)
<1> DEFINE h == [s \in SUBSET S |-> Part(s)[K]]
<1>1. ASSUME NEW s \in SUBSET S, s # {}
      PROVE  h[s] = 2^(CHOOSE x \in s : TRUE) + h[s \ {CHOOSE x \in s : TRUE}]
  <2> DEFINE x == CHOOSE y \in s : TRUE
  <2>0. x \in s
    BY <1>1, Zenon
  <2> HIDE DEF x
  <2>1. x \in s /\ x \in 0 .. 20 /\ K > x /\ s \ {x} \in SUBSET S
    BY <2>0
  <2>3. Part(s)[K] = Part(s \ {x})[K] + 2^x
    BY <2>1, PartLess, Zenon
  <2>4. Part(s \ {x})[K] \in Nat /\ 2^x \in Nat
    BY <2>1, PartIs, Powers, Zenon
  <2>5. Part(s)[K] = 2^x + Part(s \ {x})[K]
    BY <2>3, <2>4
  <2>6. h[s] = 2^x + h[s \ {x}]
    BY <2>1, <2>5, Zenon
  <2> QED
    BY <2>6 DEF x
<1>2. h[{}] = 0
    BY PartEmpty
<1> QED
    BY <1>1, <1>2, ZenonT(40) DEF IsSum

\* There is no other.
LEMMA SumUnique ==
    ASSUME NEW K \in 0 .. 21, NEW S \in SUBSET (0 .. K - 1), NEW f, IsSum(f, S)
    PROVE  f[S] = Part(S)[K]
<1> DEFINE p(s) == Part(s)[K]
           T == {p(s) : s \in {u \in SUBSET S : f[u] # p(u)}}
<1> SUFFICES ASSUME f[S] # p(S) PROVE FALSE
    OBVIOUS
<1>1. \A u : p(u) \in Nat
    BY PartIs
<1>2. PICK k \in T : \A m \in T : k <= m
  <2>1. T \in SUBSET Nat /\ T # {}
    BY <1>1
  <2> QED
    BY <2>1, LeastNumber, Zenon
<1>3. PICK s \in SUBSET S : f[s] # p(s) /\ k = p(s)
    BY <1>2, Zenon
<1>4. s # {}
    BY <1>1, <1>3, PartEmpty, Zenon DEF IsSum
<1> DEFINE x == CHOOSE y \in s : TRUE
<1>5. x \in s
    BY <1>4, Zenon
<1>6. f[s] = 2^x + f[s \ {x}]
    BY <1>4, Zenon DEF IsSum
<1> HIDE DEF x
<1>10. x \in 0 .. 20 /\ K > x /\ s \ {x} \in SUBSET S
    BY <1>5
<1>7. p(s) = p(s \ {x}) + 2^x /\ 2^x \in Nat \ {0}
    BY <1>1, <1>5, <1>10, PartLess, Powers, Zenon
<1>8. p(s \ {x}) < k /\ p(s \ {x}) \in Nat
    BY <1>1, <1>2, <1>3, <1>7
<1>9. f[s \ {x}] = p(s \ {x})
  <2>1. SUFFICES ASSUME f[s \ {x}] # p(s \ {x}) PROVE FALSE
    OBVIOUS
  <2>2. p(s \ {x}) \in T
    BY <1>10, <2>1, Zenon
  <2>3. k \in Nat
    BY <1>1, <1>3
  <2>4. k <= p(s \ {x})
    BY <1>2, <2>2, Zenon
  <2> QED
    BY <1>8, <2>3, <2>4, SMT
<1> QED
    BY <1>3, <1>6, <1>7, <1>8, <1>9

\* So NumberOf adds up the positions in their order.
LEMMA NumberIs ==
    ASSUME NEW K \in 0 .. 21, NEW S \in SUBSET (0 .. K - 1)
    PROVE  NumberOf(S) = Part(S)[K]
<1>1. NumberOf(S) = (CHOOSE f : IsSum(f, S))[S]
    BY DEF NumberOf, MapThenSumSet, MapThenFoldSet, IsSum
<1>2. IsSum(CHOOSE f : IsSum(f, S), S)
    BY SumExists, Zenon
<1> QED
    BY <1>1, <1>2, SumUnique, Zenon

\* A remainder is known by its size.
LEMMA ModIs ==
    ASSUME NEW m \in Nat \ {0}, NEW h \in Nat, NEW t \in Nat, t < m,
           NEW n, n = h * m + t
    PROVE  n % m = t
<1> DEFINE q == n \div m
           r == n % m
<1>1. n \in Nat
    OBVIOUS
<1>2. q \in Nat /\ r \in Nat /\ r < m /\ n = q * m + r
    BY <1>1
<1> HIDE DEF q, r
<1>3. CASE h = q
    BY <1>2, <1>3 DEF r
<1>4. CASE h < q
  <2>1. PICK d \in Nat : d >= 1 /\ q = h + d
    BY <1>2, <1>4
  <2>2. d * m >= m /\ q * m = h * m + d * m /\ d * m \in Nat /\ h * m \in Nat
    BY <2>1
  <2> QED
    BY <1>2, <2>2
<1>5. CASE h > q
  <2>1. PICK d \in Nat : d >= 1 /\ h = q + d
    BY <1>2, <1>5
  <2>2. d * m >= m /\ h * m = q * m + d * m /\ d * m \in Nat /\ q * m \in Nat
    BY <1>2, <2>1
  <2> QED
    BY <1>2, <2>2
<1> QED
    BY <1>2, <1>3, <1>4, <1>5

\* Division by 2 * m from division by m.
LEMMA ModTwice ==
    ASSUME NEW n \in Nat, NEW m \in Nat \ {0}
    PROVE  n % (2 * m) = (n % m) + (IF (n \div m) % 2 = 1 THEN m ELSE 0)
<1> DEFINE q == n \div m
           r == n % m
<1>1. q \in Nat /\ r \in Nat /\ r < m /\ n = q * m + r
    OBVIOUS
<1>2. q = 2 * (q \div 2) + (IF q % 2 = 1 THEN 1 ELSE 0) /\ (q \div 2) \in Nat
    BY <1>1
<1> HIDE DEF q, r
<1> DEFINE h == q \div 2
           c == IF q % 2 = 1 THEN m ELSE 0
<1>3. h \in Nat /\ n = h * (2 * m) + (c + r) /\ c + r < 2 * m /\ c + r \in Nat
    BY <1>1, <1>2
<1> HIDE DEF h, c
<1>4. n % (2 * m) = c + r
  <2>1. 2 * m \in Nat \ {0}
    OBVIOUS
  <2> QED
    BY <1>3, <2>1, ModIs
<1> QED
    BY <1>1, <1>4 DEF q, r, c

\* The bits of a number below position K make the number modulo 2^K.
LEMMA PartOfBits ==
    ASSUME NEW n \in Nat, NEW s, NEW K \in 0 .. 21,
           \A b \in 0 .. 20 : b < K => (b \in s <=> (n \div 2^b) % 2 = 1)
    PROVE  Part(s)[K] = n % 2^K
<1> DEFINE p == Part(s)
           T == {k \in 0 .. 21 : k <= K /\ p[k] # n % 2^k}
<1> SUFFICES ASSUME K \in T PROVE FALSE
    OBVIOUS
<1>1. PICK k \in T : \A m \in T : k <= m
  <2>1. T \in SUBSET Nat /\ T # {}
    OBVIOUS
  <2> QED
    BY <2>1, LeastNumber, Zenon
<1>2. k # 0
  <2>1. n % 2^0 = 0 /\ p[0] = 0
    BY PartIs
  <2> QED
    BY <1>1, <2>1, Zenon
<1> DEFINE j == k - 1
<1>3. /\ k \in 1 .. 21 /\ j \in 0 .. 20 /\ j \in 0 .. 21 /\ j < K /\ j \notin T
      /\ j <= K /\ k = j + 1
    BY <1>1, <1>2
<1>4. p[j] = n % 2^j /\ p[k] = p[j] + Bit(s, j)
    BY <1>3, PartIs, Zenon
<1>5. 2^j \in Nat \ {0} /\ 2^k = 2 * 2^j
    BY <1>3, Powers, Zenon
<1>6. Bit(s, j) = IF (n \div 2^j) % 2 = 1 THEN 2^j ELSE 0
    BY <1>3, Zenon DEF Bit
<1>7. n % 2^k = (n % 2^j) + (IF (n \div 2^j) % 2 = 1 THEN 2^j ELSE 0)
    BY <1>5, ModTwice, Zenon
<1> QED
    BY <1>1, <1>4, <1>6, <1>7, Zenon

\* Both together.
LEMMA NumberOfBits ==
    ASSUME NEW n \in Nat, NEW K \in 0 .. 21, NEW S \in SUBSET (0 .. K - 1),
           \A b \in 0 .. 20 : b < K => (b \in S <=> (n \div 2^b) % 2 = 1)
    PROVE  NumberOf(S) = n % 2^K
    BY NumberIs, PartOfBits, Zenon

\* What pte_set_fpn puts into an entry PAGING_FPN gets out: thirteen bits of
\* the frame number (mm.h:48-51).
LEMMA FpnKept ==
    ASSUME NEW v, NEW f \in Nat
    PROVE  PAGING_FPN(WithFpn(v, f)) = f % 8192
<1> DEFINE S == {b \in 0 .. 12 : (f \div 2^b) % 2 = 1}
           w == WithFpn(v, f)
<1>1. w \cap 0 .. 12 = S
  <2>1. w = (((v \cup {31}) \ {30}) \ 0 .. 12) \cup ({b + 0 : b \in BitsOf(f)} \cap 0 .. 12)
    BY DEF WithFpn, SETVAL, SETBIT, CLRBIT, PAGING_PTE_PRESENT_MASK,
       PAGING_PTE_SWAPPED_MASK, PAGING_PTE_FPN_MASK, GENMASK
  <2>2. {b + 0 : b \in BitsOf(f)} = BitsOf(f)
    <3>1. \A b \in BitsOf(f) : b + 0 = b
        BY DEF BitsOf
    <3> QED
        BY <3>1, Zenon
  <2>3. BitsOf(f) \cap 0 .. 12 = S
    BY DEF BitsOf
  <2> QED
    BY <2>1, <2>2, <2>3, Zenon
<1> HIDE DEF w
<1>2. {b - 0 : b \in S} = S
  <2>1. \A b \in S : b - 0 = b
    OBVIOUS
  <2> HIDE DEF S
  <2> QED
    BY <2>1, Zenon
<1>3. PAGING_FPN(w) = NumberOf(S)
    BY <1>1, <1>2, Zenon DEF PAGING_FPN, GETVAL, PAGING_PTE_FPN_MASK, GENMASK
<1>4. 13 \in 0 .. 21 /\ S \in SUBSET (0 .. 13 - 1)
    OBVIOUS
<1>5. \A b \in 0 .. 20 : b < 13 => (b \in S <=> (f \div 2^b) % 2 = 1)
  <2>1. \A b \in 0 .. 20 : b < 13 => b \in 0 .. 12
    OBVIOUS
  <2> QED
    BY <2>1, Zenon
<1> HIDE DEF S
<1>6. NumberOf(S) = f % 2^13
    BY <1>4, <1>5, NumberOfBits, Zenon
<1> QED
    BY <1>3, <1>6, SMT DEF w

\* What pte_set_swap puts into an entry PAGING_SWP gets out, as long as the
\* swap frame fits the field (mm.h:52-57).
LEMMA SwapKept ==
    ASSUME NEW v, NEW f \in 0 .. 2^21 - 1
    PROVE  PAGING_SWP(WithSwap(v, 0, f)) = f
<1> DEFINE S == {b \in 0 .. 20 : (f \div 2^b) % 2 = 1}
           w == WithSwap(v, 0, f)
<1>1. {b - 5 : b \in w \cap 5 .. 25} = S
  <2>1. \E u : w = (u \ 5 .. 25) \cup ({b + 5 : b \in BitsOf(f)} \cap 5 .. 25)
    BY Zenon DEF WithSwap, SETVAL, PAGING_PTE_SWPOFF_MASK, GENMASK
  <2>2. w \cap 5 .. 25 = {b + 5 : b \in BitsOf(f)} \cap 5 .. 25
    BY <2>1, Zenon
  <2>3. ASSUME NEW b \in S PROVE b \in {c - 5 : c \in w \cap 5 .. 25}
    <3>1. b \in BitsOf(f) /\ b + 5 \in 5 .. 25 /\ (b + 5) - 5 = b
        BY DEF BitsOf
    <3> QED
        BY <2>2, <3>1, Zenon
  <2>4. ASSUME NEW c \in w \cap 5 .. 25 PROVE c - 5 \in S
    <3>1. PICK b \in BitsOf(f) : c = b + 5
        BY <2>2
    <3>2. c - 5 = b /\ b \in 0 .. 20
        BY <3>1 DEF BitsOf
    <3> QED
        BY <3>1, <3>2, Zenon DEF BitsOf
  <2> QED
    BY <2>3, <2>4, Zenon
<1> HIDE DEF w
<1>2. PAGING_SWP(w) = NumberOf(S)
    BY <1>1, Zenon DEF PAGING_SWP, GETVAL, PAGING_PTE_SWPOFF_MASK, GENMASK
<1>3. 21 \in 0 .. 21 /\ S \in SUBSET (0 .. 21 - 1) /\ f \in Nat
    OBVIOUS
<1>4. \A b \in 0 .. 20 : b < 21 => (b \in S <=> (f \div 2^b) % 2 = 1)
    BY Zenon
<1> HIDE DEF S
<1>5. NumberOf(S) = f % 2^21
    BY <1>3, <1>4, NumberOfBits, Zenon
<1> QED
    BY <1>2, <1>5, SMT DEF w

\* The pattern of vmap_pgd_memset reads as frame 7919.
LEMMA PatternReads == PAGING_FPN(Pattern) = 7919
<1> DEFINE n == 7919
           S == {0, 1, 2, 3, 5, 6, 7, 9, 10, 11, 12}
<1>1. {b - 0 : b \in Pattern \cap 0 .. 12} = S
    BY DEF Pattern
<1>2. PAGING_FPN(Pattern) = NumberOf(S)
    BY <1>1, Zenon DEF PAGING_FPN, GETVAL, PAGING_PTE_FPN_MASK, GENMASK
<1>3. 13 \in 0 .. 21 /\ S \in SUBSET (0 .. 13 - 1)
    OBVIOUS
<1>4. ASSUME NEW b \in 0 .. 12
      PROVE  b \in S <=> (n \div 2^b) % 2 = 1
  <2>1. /\ (b = 0 => 2^b = 2^0)  /\ (b = 1 => 2^b = 2^1)   /\ (b = 2 => 2^b = 2^2)
        /\ (b = 3 => 2^b = 2^3)  /\ (b = 4 => 2^b = 2^4)   /\ (b = 5 => 2^b = 2^5)
        /\ (b = 6 => 2^b = 2^6)  /\ (b = 7 => 2^b = 2^7)   /\ (b = 8 => 2^b = 2^8)
        /\ (b = 9 => 2^b = 2^9)  /\ (b = 10 => 2^b = 2^10) /\ (b = 11 => 2^b = 2^11)
        /\ (b = 12 => 2^b = 2^12)
    BY Zenon
  <2> QED
    BY <2>1, SMTT(30)
<1>5. \A b \in 0 .. 20 : b < 13 => b \in 0 .. 12
    OBVIOUS
<1>6. n \in Nat
    OBVIOUS
<1> HIDE DEF S, n
<1>7. \A b \in 0 .. 20 : b < 13 => (b \in S <=> (n \div 2^b) % 2 = 1)
    BY <1>4, <1>5, Zenon
<1>8. NumberOf(S) = n % 2^13
    BY <1>3, <1>6, <1>7, NumberOfBits, Zenon
<1> QED
    BY <1>2, <1>8, SMT DEF n

(***************************************************************************)
(* The entries the setters make.                                           *)
(***************************************************************************)
\* SETVAL keeps an entry a 32-bit word.
LEMMA SetvalWord ==
    ASSUME NEW v \in Word, NEW x, NEW mask \in Word, NEW o
    PROVE  SETVAL(v, x, mask, o) \in Word
    BY Zenon DEF SETVAL, Word

\* The masks and the pattern of vmap_pgd_memset are 32-bit words.
LEMMA WordFacts ==
    /\ {31} \in Word /\ {30} \in Word
    /\ PAGING_PTE_FPN_MASK \in Word /\ PAGING_PTE_SWPTYP_MASK \in Word
    /\ PAGING_PTE_SWPOFF_MASK \in Word
    /\ Pattern \in Word
<1>1. 0 .. 12 \subseteq 0 .. 31 /\ 0 .. 4 \subseteq 0 .. 31 /\ 5 .. 25 \subseteq 0 .. 31
    OBVIOUS
<1>2. {31} \in Word /\ {30} \in Word
    BY DEF Word
<1>3. Pattern \subseteq 0 .. 31
    BY DEF Pattern
<1> QED
    BY <1>1, <1>2, <1>3 DEF Word, PAGING_PTE_FPN_MASK, PAGING_PTE_SWPTYP_MASK,
       PAGING_PTE_SWPOFF_MASK, GENMASK

\* So are the entries pte_set_fpn and pte_set_swap write.
LEMMA SetterWords ==
    ASSUME NEW v \in Word
    PROVE  /\ \A f : WithFpn(v, f) \in Word
           /\ \A f : WithSwap(v, 0, f) \in Word
           /\ SETBIT(v, PAGING_PTE_PRESENT_MASK) \in Word
<1>1. /\ v \cup {31} \in Word /\ (v \cup {31}) \ {30} \in Word
      /\ (v \ {31}) \cup {30} \in Word
    BY WordFacts DEF Word
<1>2. \A f : WithFpn(v, f) \in Word
    BY <1>1, WordFacts, SetvalWord, Zenon
       DEF WithFpn, SETBIT, CLRBIT, PAGING_PTE_PRESENT_MASK, PAGING_PTE_SWAPPED_MASK
<1>3. SETVAL((v \ {31}) \cup {30}, 0, PAGING_PTE_SWPTYP_MASK, 0) \in Word
    BY <1>1, WordFacts, SetvalWord, Zenon
<1>4. \A f : WithSwap(v, 0, f) \in Word
    BY <1>3, WordFacts, SetvalWord, Zenon
       DEF WithSwap, SETBIT, CLRBIT, PAGING_PTE_PRESENT_MASK, PAGING_PTE_SWAPPED_MASK
<1> QED
    BY <1>1, <1>2, <1>4, Zenon DEF SETBIT, PAGING_PTE_PRESENT_MASK

(***************************************************************************)
(* The inductive invariant.                                                *)
(***************************************************************************)
\* A call under way.
Busy ==
    [pc : {"check", "store", "follow", "apply", "present"},
     call : {"get", "fpn", "swap", "memset", "kmalloc"}, pgn : Pages,
     arg : Fpns \cup Swaps \cup {0}, rest : 0 .. MaxMapped,
     level : 1 .. Levels, tbl : Tables, first : {0} \cup Tables]

\* Where a call is: on the path of its page, with the entry it has tested as
\* it has found it.
WalkOK(o, d, p) ==
    o.pc # "idle" =>
        /\ o.tbl \in 1 .. Len(d) /\ o.tbl = PathIn(d, o.pgn)[o.level]
        /\ o.pc \in {"check", "store", "follow"} <=> o.level < Levels
        /\ o.pc = "store" => d[o.tbl][Index[o.pgn][o.level]] = 0
        /\ o.pc = "follow" => d[o.tbl][Index[o.pgn][o.level]] # 0
        /\ o.first # 0 => o.first = PathIn(d, o.pgn)[Levels]
        /\ o.pc = "present" =>
               /\ o.first # 0
               /\ PAGING_PAGE_PRESENT(p[o.first][Index[o.pgn][Levels]])
        /\ o.call \in {"fpn", "kmalloc"} => o.arg \in Fpns
        /\ o.call = "swap" => o.arg \in Swaps
        /\ o.call = "memset" =>
               o.rest >= 1 /\ o.pgn .. o.pgn + o.rest - 1 \subseteq Pages

\* The tables form a tree, and every call is on its way down it.
TableInv ==
    /\ TreeOK(dir, pt) /\ Len(dir) <= MaxTables /\ tables_allocated = Len(dir)
    /\ mm64_lock \in Threads \cup {NOBODY} /\ ret \in [Threads -> Word]
    /\ op \in [Threads -> OpSet]
    /\ \A t \in Threads : WalkOK(op[t], dir, pt)

\* A call that is not idle is in the middle of a walk.
LEMMA BusyIs ==
    ASSUME NEW o \in OpSet, o.pc # "idle"
    PROVE  o \in Busy
    BY DEF OpSet, Busy

\* The fields of such a call.
LEMMA BusyFields ==
    ASSUME NEW o \in Busy
    PROVE  /\ o.pc \in {"check", "store", "follow", "apply", "present"}
           /\ o.call \in {"get", "fpn", "swap", "memset", "kmalloc"}
           /\ o.pgn \in Pages /\ o.arg \in Fpns \cup Swaps \cup {0}
           /\ o.rest \in 0 .. MaxMapped /\ o.level \in 1 .. Levels
           /\ o.tbl \in Tables /\ o.first \in {0} \cup Tables
           /\ o \in OpSet
           /\ o.pc # "idle"
    BY DEF Busy, OpSet

\* Only the pc changes.
LEMMA BusyPc ==
    ASSUME NEW o \in Busy, NEW c \in {"check", "store", "follow", "apply", "present"}
    PROVE  /\ [o EXCEPT !.pc = c] \in Busy
           /\ [o EXCEPT !.pc = c].pc = c
           /\ [o EXCEPT !.pc = c].call = o.call
           /\ [o EXCEPT !.pc = c].pgn = o.pgn
           /\ [o EXCEPT !.pc = c].arg = o.arg
           /\ [o EXCEPT !.pc = c].rest = o.rest
           /\ [o EXCEPT !.pc = c].level = o.level
           /\ [o EXCEPT !.pc = c].tbl = o.tbl
           /\ [o EXCEPT !.pc = c].first = o.first
    BY DEF Busy

\* An idle thread is nowhere in the tree.
LEMMA IdleOK ==
    /\ Idle \in OpSet
    /\ \A d, p : WalkOK(Idle, d, p)
<1>1. Idle.pc = "idle" /\ Idle \in OpSet
    BY DEF Idle, OpSet
<1> QED
    BY <1>1, Zenon DEF WalkOK

\* TypeOK says less than the tree does.
LEMMA InvTypes == TableInv => TypeOK
<1> SUFFICES ASSUME TableInv PROVE TypeOK
    OBVIOUS
<1>0. MaxTables \in Nat \ {0}
    BY PageTableAssumption, Zenon
<1>1. /\ DirOK(dir) /\ pt \in Seq([Entries -> Word]) /\ Len(pt) = Len(dir)
      /\ Len(dir) <= MaxTables /\ tables_allocated = Len(dir)
      /\ mm64_lock \in Threads \cup {NOBODY} /\ ret \in [Threads -> Word]
      /\ op \in [Threads -> OpSet]
    BY Zenon DEF TableInv, TreeOK
<1>2. /\ dir \in Seq([Entries -> Nat]) /\ Len(dir) >= 1
      /\ \A a \in 1 .. Len(dir), i \in Entries : dir[a][i] \in {0} \cup 2 .. Len(dir)
    BY <1>1, Zenon DEF DirOK
<1>3. Len(dir) \in Tables
    BY <1>0, <1>1, <1>2 DEF Tables
<1>4. ASSUME NEW a \in 1 .. Len(dir)
      PROVE  dir[a] \in [Entries -> {0} \cup Tables]
  <2>1. dir[a] \in [Entries -> Nat]
    BY <1>2
  <2>2. \A i \in Entries : dir[a][i] \in {0} \cup Tables
    <3> SUFFICES ASSUME NEW i \in Entries PROVE dir[a][i] \in {0} \cup Tables
        OBVIOUS
    <3>1. dir[a][i] \in {0} \cup 2 .. Len(dir)
        BY <1>2, Zenon
    <3> QED
        BY <1>0, <1>3, <3>1 DEF Tables
  <2> QED
    BY <2>1, <2>2, Zenon
<1>5. dir \in Seq([Entries -> {0} \cup Tables])
  <2> DEFINE S == [Entries -> {0} \cup Tables]
  <2>1. \A a \in 1 .. Len(dir) : dir[a] \in S
    BY <1>4
  <2>2. dir = [a \in 1 .. Len(dir) |-> dir[a]] /\ Len(dir) \in Nat
    BY <1>2
  <2> HIDE DEF S
  <2>3. dir \in Seq(S)
    BY <2>1, <2>2
  <2> QED
    BY <2>3 DEF S
<1> QED
    BY <1>1, <1>3, <1>5, Zenon DEF TypeOK

\* A walk starts at the root.
LEMMA WalkStarts ==
    ASSUME NEW d, NEW p, DirOK(d), NEW g \in Pages,
           NEW call \in {"get", "fpn", "swap", "memset", "kmalloc"},
           NEW arg \in Fpns \cup Swaps \cup {0}, NEW rest \in 0 .. MaxMapped,
           NEW first \in {0} \cup Tables,
           first # 0 => first = PathIn(d, g)[Levels],
           call \in {"fpn", "kmalloc"} => arg \in Fpns,
           call = "swap" => arg \in Swaps,
           call = "memset" => rest >= 1 /\ g .. g + rest - 1 \subseteq Pages
    PROVE  Walk(call, g, arg, rest, first) \in OpSet
           /\ WalkOK(Walk(call, g, arg, rest, first), d, p)
<1> DEFINE w == Walk(call, g, arg, rest, first)
<1>0. Levels \in Nat \ {0} /\ MaxTables \in Nat \ {0} /\ Len(d) \in Nat /\ Len(d) >= 1
  <2>1. Len(d) \in Nat /\ Len(d) >= 1
    BY DEF DirOK
  <2>2. MaxTables \in Nat \ {0}
    BY PageTableAssumption, Zenon
  <2> QED
    BY <2>1, <2>2, PageNumbers, Zenon
<1>1. 1 \in Tables /\ 1 \in 1 .. Levels /\ 1 \in 1 .. Len(d)
    BY <1>0 DEF Tables
<1>2. /\ w.pc = (IF Levels = 1 THEN "apply" ELSE "check") /\ w.call = call
      /\ w.pgn = g /\ w.arg = arg /\ w.rest = rest /\ w.level = 1 /\ w.tbl = 1
      /\ w.first = first
    BY Zenon DEF Walk
<1>3. w \in Busy
    BY <1>1, Zenon DEF Walk, Busy
<1>4. w \in OpSet
    BY <1>3, BusyFields
<1>5. PathIn(d, g)[1] = 1
    BY PathOf, Zenon
<1> HIDE DEF w
<1>6. w.pc \in {"check", "store", "follow"} <=> w.level < Levels
    BY <1>0, <1>2
<1>7. w.pc # "store" /\ w.pc # "follow" /\ w.pc # "present"
    BY <1>2, Zenon
<1>8. WalkOK(w, d, p)
    BY <1>1, <1>2, <1>5, <1>6, <1>7, Zenon DEF WalkOK
<1> QED
    BY <1>4, <1>8 DEF w

\* init_mm leaves the root alone in the tree, and nobody walking.
LEMMA InitInv == Init => TableInv
<1> SUFFICES ASSUME Init PROVE TableInv
    OBVIOUS
<1>0. Levels \in Nat \ {0} /\ MaxTables \in Nat \ {0} /\ NOBODY \notin Threads
    BY PageTableAssumption, Zenon
<1>1. /\ dir = <<EmptyDir>> /\ pt = <<EmptyPt>> /\ tables_allocated = 1
      /\ mm64_lock = NOBODY /\ op = [t \in Threads |-> Idle]
      /\ ret = [t \in Threads |-> {}]
    BY Zenon DEF Init
<1>2. EmptyDir \in [Entries -> Nat] /\ \A i \in Entries : EmptyDir[i] = 0
    BY DEF EmptyDir
<1>3. EmptyPt \in [Entries -> Word] /\ {} \in Word
    BY DEF EmptyPt, Word
<1>4. Len(dir) = 1 /\ dir[1] = EmptyDir /\ dir \in Seq([Entries -> Nat])
    BY <1>1, <1>2
<1>5. Len(pt) = 1 /\ pt[1] = EmptyPt /\ pt \in Seq([Entries -> Word])
    BY <1>1, <1>3
<1>6. DirOK(dir)
    BY <1>2, <1>4 DEF DirOK
<1>7. OneParent(dir)
    BY <1>2, <1>4 DEF OneParent
<1>8. \A g \in Pages, l \in 1 .. Levels : l # 1 => PathIn(dir, g)[l] = 0
  <2> SUFFICES ASSUME NEW g \in Pages, NEW l \in 1 .. Levels, l # 1
               PROVE  PathIn(dir, g)[l] = 0
    OBVIOUS
  <2>1. 2 \in 1 .. Levels /\ 1 \in 1 .. Levels /\ 1 < Levels /\ 1 + 1 = 2 /\ l \in 2 .. Levels
    BY <1>0
  <2>2. PathIn(dir, g)[1] = 1
    BY PathOf, Zenon
  <2>3. PathIn(dir, g)[1 + 1] = dir[1][Index[g][1]]
    BY <1>6, <2>1, <2>2, PathStep
  <2>4. PathIn(dir, g)[2] = 0
    BY <1>2, <1>4, <2>1, <2>3, IndexIs, Zenon
  <2> QED
    BY <2>1, <2>4, PathStops, Zenon
<1>9. OneLevel(dir)
    BY <1>8, Zenon DEF OneLevel
<1>10. \A g \in Pages : PathIn(dir, g)[Levels] # 0 =>
           dir[PathIn(dir, g)[Levels]] = EmptyDir
  <2> SUFFICES ASSUME NEW g \in Pages, PathIn(dir, g)[Levels] # 0
               PROVE  dir[PathIn(dir, g)[Levels]] = EmptyDir
    OBVIOUS
  <2>1. Levels \in 1 .. Levels
    BY <1>0
  <2>2. PathIn(dir, g)[Levels] \in 0 .. 1
    BY <1>4, <1>6, <2>1, PathType, Zenon
  <2>3. PathIn(dir, g)[Levels] = 1
    BY <2>2
  <2> QED
    BY <1>4, <2>3, Zenon
<1>11. TreeOK(dir, pt)
  <2>1. \A b \in 2 .. Len(dir) :
            \E g \in Pages, l \in 2 .. Levels : PathIn(dir, g)[l] = b
    BY <1>4
  <2>2. \A b \in 1 .. Len(dir) : pt[b] = EmptyPt
    BY <1>4, <1>5
  <2> QED
    BY <1>4, <1>5, <1>6, <1>7, <1>9, <1>10, <2>1, <2>2, Zenon DEF TreeOK
<1>12. op \in [Threads -> OpSet] /\ ret \in [Threads -> Word]
    BY <1>1, <1>3, IdleOK
<1>13. \A t \in Threads : WalkOK(op[t], dir, pt)
    BY <1>1, IdleOK, Zenon
<1>14. Len(dir) <= MaxTables /\ tables_allocated = Len(dir)
    BY <1>0, <1>1, <1>4
<1> QED
    BY <1>1, <1>11, <1>12, <1>13, <1>14, Zenon DEF TableInv

\* What is known of a call under way.
LEMMA Underway ==
    ASSUME TableInv, NEW t \in Threads, op[t].pc # "idle"
    PROVE  /\ op[t] \in Busy /\ op[t].pgn \in Pages /\ op[t].level \in 1 .. Levels
           /\ op[t].tbl \in 1 .. Len(dir)
           /\ op[t].tbl = PathIn(dir, op[t].pgn)[op[t].level]
           /\ Slot(op[t]) = Index[op[t].pgn][op[t].level]
           /\ Slot(op[t]) \in Entries
           /\ DirOK(dir) /\ TreeOK(dir, pt)
<1>1. op[t] \in OpSet /\ WalkOK(op[t], dir, pt) /\ TreeOK(dir, pt) /\ DirOK(dir)
    BY Zenon DEF TableInv, TreeOK
<1>2. op[t] \in Busy
    BY <1>1, BusyIs, Zenon
<1>3. op[t].pgn \in Pages /\ op[t].level \in 1 .. Levels
    BY <1>2, BusyFields
<1>4. Index[op[t].pgn][op[t].level] \in Entries
    BY <1>3, IndexIs
<1> QED
    BY <1>1, <1>2, <1>3, <1>4, Zenon DEF WalkOK, Slot

\* With one thread there is one call to look at.
LEMMA OneOp ==
    ASSUME TableInv, NEW t \in Threads, Threads = {t}, NEW o \in OpSet, Do(t, o),
           WalkOK(o, dir', pt')
    PROVE  /\ op' \in [Threads -> OpSet] /\ op'[t] = o
           /\ \A u \in Threads : WalkOK(op'[u], dir', pt')
<1>1. op \in [Threads -> OpSet]
    BY DEF TableInv
<1>2. op' = [op EXCEPT ![t] = o]
    BY DEF Do
<1>3. op' \in [Threads -> OpSet] /\ op'[t] = o
    BY <1>1, <1>2
<1> QED
    BY <1>3

\* A step of one thread that leaves the tree alone.
LEMMA SameTree ==
    ASSUME TableInv, NEW t \in Threads, Threads = {t}, NEW o \in OpSet, Do(t, o),
           UNCHANGED tree, WalkOK(o, dir, pt),
           mm64_lock' \in Threads \cup {NOBODY}, ret' \in [Threads -> Word]
    PROVE  TableInv'
<1>1. dir' = dir /\ pt' = pt /\ tables_allocated' = tables_allocated
    BY DEF tree
<1>2. WalkOK(o, dir', pt')
    BY <1>1, Zenon
<1>3. op' \in [Threads -> OpSet] /\ \A u \in Threads : WalkOK(op'[u], dir', pt')
    BY <1>2, OneOp
<1>4. TreeOK(dir', pt') /\ Len(dir') <= MaxTables /\ tables_allocated' = Len(dir')
    BY <1>1, Zenon DEF TableInv
<1> QED
    BY <1>3, <1>4, Zenon DEF TableInv

\* The conjuncts of the invariant.
LEMMA InvParts ==
    TableInv => /\ TreeOK(dir, pt) /\ Len(dir) <= MaxTables
                /\ tables_allocated = Len(dir)
                /\ mm64_lock \in Threads \cup {NOBODY} /\ ret \in [Threads -> Word]
                /\ op \in [Threads -> OpSet]
                /\ \A t \in Threads : WalkOK(op[t], dir, pt)
    BY Zenon DEF TableInv

\* get_pte_ptr's test of a directory entry with alloc set.
LEMMA CheckInv ==
    ASSUME TableInv, NEW t \in Threads, Threads = {t},
           CheckThere(t) \/ CheckMissing(t)
    PROVE  TableInv'
<1> DEFINE o == op[t]
           c == IF dir[o.tbl][Slot(o)] # 0 THEN "follow" ELSE "store"
           n == [o EXCEPT !.pc = c]
<1>1. /\ o.pc = "check" /\ Do(t, n) /\ UNCHANGED tree
      /\ mm64_lock' = mm64_lock /\ ret' = ret
    BY DEF CheckThere, CheckMissing
<1>2. o.pc # "idle"
    BY <1>1, Zenon
<1>3. o \in Busy /\ Slot(o) = Index[o.pgn][o.level] /\ WalkOK(o, dir, pt)
    BY <1>2, Underway, InvParts, Zenon
<1>4. c \in {"follow", "store"}
    BY ZenonT(40)
<1>5. c = "store" => dir[o.tbl][Index[o.pgn][o.level]] = 0
    BY <1>3, ZenonT(40)
<1>6. c = "follow" => dir[o.tbl][Index[o.pgn][o.level]] # 0
    BY <1>3, ZenonT(40)
<1> HIDE DEF c
<1>7. /\ n \in Busy /\ n.pc = c /\ n.call = o.call /\ n.pgn = o.pgn /\ n.arg = o.arg
      /\ n.rest = o.rest /\ n.level = o.level /\ n.tbl = o.tbl /\ n.first = o.first
  <2>1. c \in {"check", "store", "follow", "apply", "present"} /\ o \in Busy
    BY <1>3, <1>4
  <2> HIDE DEF o
  <2> QED
    BY <2>1, BusyPc, ZenonT(40)
<1> HIDE DEF n, o
<1>8. n \in OpSet
    BY <1>7, BusyFields, Zenon
<1>9. WalkOK(n, dir, pt)
    BY <1>1, <1>2, <1>3, <1>4, <1>5, <1>6, <1>7, Zenon DEF WalkOK
<1> QED
    BY <1>1, <1>8, <1>9, SameTree, InvParts, Zenon

\* pte_get_entry returns: at a missing table, or with the entry.
LEMMA IdleInv ==
    ASSUME TableInv, NEW t \in Threads, Threads = {t},
           CheckReadOnly(t) \/ GetEntry(t)
    PROVE  TableInv'
<1>1. /\ op[t].pc # "idle" /\ Do(t, Idle) /\ UNCHANGED tree /\ mm64_lock' = mm64_lock
      /\ ret' = [ret EXCEPT ![t] = {}] \/ ret' = [ret EXCEPT ![t] = EntryAt(op[t])]
  <2>1. CASE CheckReadOnly(t)
    BY <2>1, Zenon DEF CheckReadOnly
  <2>2. CASE GetEntry(t)
    BY <2>2, Zenon DEF GetEntry
  <2> QED
    BY <2>1, <2>2, Zenon
<1>2. /\ op[t].tbl \in 1 .. Len(dir) /\ Slot(op[t]) \in Entries /\ TreeOK(dir, pt)
    BY <1>1, Underway
<1>3. pt \in Seq([Entries -> Word]) /\ Len(pt) = Len(dir)
    BY <1>2, Zenon DEF TreeOK
<1>4. EntryAt(op[t]) \in Word /\ {} \in Word
  <2>1. pt[op[t].tbl] \in [Entries -> Word]
    BY <1>2, <1>3
  <2>2. pt[op[t].tbl][Slot(op[t])] \in Word
    BY <1>2, <2>1
  <2>3. {} \in Word
    BY DEF Word
  <2> QED
    BY <2>2, <2>3, Zenon DEF EntryAt
<1>5. ret' \in [Threads -> Word]
    BY <1>1, <1>4, InvParts, Zenon
<1> QED
    BY <1>1, <1>5, IdleOK, SameTree, InvParts, Zenon

\* get_pte_ptr goes down one level.
LEMMA FollowInv ==
    ASSUME TableInv, NEW t \in Threads, Threads = {t}, Follow(t)
    PROVE  TableInv'
<1> DEFINE o == op[t]
           c == IF o.level + 1 = Levels THEN "apply" ELSE "check"
           b == dir[o.tbl][Slot(o)]
           n == [o EXCEPT !.pc = c, !.tbl = b, !.level = o.level + 1]
<1>1. /\ o.pc = "follow" /\ Do(t, n) /\ UNCHANGED tree
      /\ mm64_lock' = mm64_lock /\ ret' = ret
    BY DEF Follow
<1>2. o.pc # "idle"
    BY <1>1, Zenon
<1>3. /\ o \in Busy /\ o.pgn \in Pages /\ o.level \in 1 .. Levels
      /\ o.tbl \in 1 .. Len(dir) /\ o.tbl = PathIn(dir, o.pgn)[o.level]
      /\ Slot(o) = Index[o.pgn][o.level] /\ Slot(o) \in Entries
      /\ DirOK(dir) /\ WalkOK(o, dir, pt) /\ Len(dir) <= MaxTables
    BY <1>2, Underway, InvParts
<1>4. o.level < Levels /\ b # 0
    BY <1>1, <1>2, <1>3, Zenon DEF WalkOK
<1>5. b \in 2 .. Len(dir)
    BY <1>3, <1>4, Zenon DEF DirOK
<1>6. Levels \in Nat \ {0} /\ MaxTables \in Nat \ {0} /\ Len(dir) \in Nat
  <2>1. Len(dir) \in Nat
    BY <1>3 DEF DirOK
  <2> QED
    BY <2>1, PageTableAssumption, Zenon
<1>7. PathIn(dir, o.pgn)[o.level + 1] = b
  <2>1. o.tbl # 0
    BY <1>3, <1>6
  <2>2. PathIn(dir, o.pgn)[o.level] # 0
    BY <1>3, <2>1, Zenon
  <2> HIDE DEF o
  <2>3. PathIn(dir, o.pgn)[o.level + 1]
            = dir[PathIn(dir, o.pgn)[o.level]][Index[o.pgn][o.level]]
    BY <1>3, <1>4, <2>2, PathStep, Zenon
  <2> QED
    BY <1>3, <2>3, Zenon
<1>8. b \in 1 .. Len(dir) /\ b \in Tables /\ o.level + 1 \in 1 .. Levels
  <2> HIDE DEF b, o
  <2>1. o.level + 1 \in 1 .. Levels
    BY <1>3, <1>4, <1>6
  <2>2. b \in 1 .. Len(dir) /\ b \in Tables
    <3>1. /\ b \in 2 .. Len(dir) /\ Len(dir) \in Nat /\ MaxTables \in Nat
          /\ Len(dir) <= MaxTables
        BY <1>3, <1>5, <1>6, Zenon
    <3> QED
        BY <3>1 DEF Tables
  <2> QED
    BY <2>1, <2>2, Zenon
<1>9. c \in {"apply", "check"} /\ (c = "check" <=> o.level + 1 < Levels)
  <2> DEFINE k == o.level
  <2>1. k \in 1 .. Levels /\ k < Levels /\ Levels \in Nat
    BY <1>3, <1>4, <1>6, Zenon
  <2>2. c = IF k + 1 = Levels THEN "apply" ELSE "check"
    BY Zenon
  <2> HIDE DEF k, c
  <2>3. k + 1 < Levels <=> k + 1 # Levels
    BY <2>1
  <2>4. c \in {"apply", "check"} /\ (c = "check" <=> k + 1 < Levels)
    BY <2>2, <2>3, Zenon
  <2> QED
    BY <2>4, Zenon DEF k
<1> HIDE DEF b, c
<1>10. /\ n \in Busy /\ n.pc = c /\ n.call = o.call /\ n.pgn = o.pgn /\ n.arg = o.arg
       /\ n.rest = o.rest /\ n.level = o.level + 1 /\ n.tbl = b /\ n.first = o.first
    BY <1>3, <1>8, <1>9, Zenon DEF Busy
<1> HIDE DEF n, o
<1>11. n \in OpSet
    BY <1>10, BusyFields, Zenon
<1>12. WalkOK(n, dir, pt)
    BY <1>2, <1>3, <1>7, <1>8, <1>9, <1>10, Zenon DEF WalkOK
<1> QED
    BY <1>1, <1>11, <1>12, SameTree, InvParts, Zenon

\* __kmalloc has its own pointer and calls pte_set_fpn.
LEMMA KmallocPointerInv ==
    ASSUME TableInv, NEW t \in Threads, Threads = {t}, KmallocPointer(t)
    PROVE  TableInv'
<1> DEFINE o == op[t]
           n == Walk("fpn", o.pgn, o.arg, 0, o.tbl)
<1>1. /\ o.pc = "apply" /\ o.call = "kmalloc" /\ Do(t, n) /\ UNCHANGED tree
      /\ mm64_lock' = mm64_lock /\ ret' = ret
    BY Zenon DEF KmallocPointer
<1>2. o.pc # "idle"
    BY <1>1, Zenon
<1>3. /\ o \in Busy /\ o.tbl = PathIn(dir, o.pgn)[o.level]
      /\ DirOK(dir) /\ WalkOK(o, dir, pt)
    BY <1>2, Underway, InvParts, Zenon
<1>4. /\ o.pgn \in Pages /\ o.tbl \in Tables /\ o.level \in 1 .. Levels
      /\ o.arg \in Fpns \cup Swaps \cup {0}
    BY <1>3, BusyFields, Zenon
<1>5. o.arg \in Fpns /\ ~ (o.level < Levels)
    BY <1>1, <1>2, <1>3, Zenon DEF WalkOK
<1>6. o.level = Levels
    BY <1>4, <1>5, PageNumbers
<1>7. o.tbl \in {0} \cup Tables /\ o.tbl = PathIn(dir, o.pgn)[Levels]
    BY <1>3, <1>4, <1>6
<1>8. 0 \in 0 .. MaxMapped
  <2>1. MaxMapped \in Nat
    BY PageTableAssumption, Zenon
  <2> QED
    BY <2>1
<1> HIDE DEF o
<1>9. n \in OpSet /\ WalkOK(n, dir, pt)
    BY <1>3, <1>4, <1>5, <1>7, <1>8, WalkStarts, Zenon
<1> QED
    BY <1>1, <1>9, SameTree, InvParts, Zenon

\* What alloc_pgtbl_level does to the paths.
LEMMA StoreTablePaths ==
    ASSUME TableInv, NEW t \in Threads, StoreTable(t)
    PROVE  /\ dir' = Grown(dir, op[t].tbl, Index[op[t].pgn][op[t].level])
           /\ op[t].level < Levels
           /\ dir[op[t].tbl][Index[op[t].pgn][op[t].level]] = 0
           /\ \A g \in Pages, l \in 1 .. Levels :
                  /\ PathIn(dir, g)[l] # 0 => PathIn(dir', g)[l] = PathIn(dir, g)[l]
                  /\ PathIn(dir, g)[l] = 0 =>
                         \/ PathIn(dir', g)[l] = 0
                         \/ PathIn(dir', g)[l] = Len(dir) + 1
<1> DEFINE h == op[t].pgn
           m == op[t].level
           b == op[t].tbl
           e == dir'
<1>1. /\ op[t].pc = "store" /\ dir' = Grown(dir, b, Slot(op[t]))
    BY Zenon DEF StoreTable, Grown
<1>2. op[t].pc # "idle"
    BY <1>1, Zenon
<1>3. /\ h \in Pages /\ m \in 1 .. Levels /\ b \in 1 .. Len(dir)
      /\ b = PathIn(dir, h)[m] /\ Slot(op[t]) = Index[h][m]
      /\ DirOK(dir) /\ TreeOK(dir, pt) /\ WalkOK(op[t], dir, pt)
    BY <1>2, Underway, InvParts
<1>4. m < Levels /\ dir[b][Index[h][m]] = 0
    BY <1>1, <1>2, <1>3, Zenon DEF WalkOK
<1>5. e = Grown(dir, b, Index[h][m])
    BY <1>1, <1>3, Zenon
<1>6. OneLevel(dir)
    BY <1>3, ZenonT(40) DEF TreeOK
<1> HIDE DEF h, m, b, e
<1>7. \A g \in Pages, l \in 1 .. Levels :
          /\ PathIn(dir, g)[l] # 0 => PathIn(e, g)[l] = PathIn(dir, g)[l]
          /\ PathIn(dir, g)[l] = 0 =>
                 \/ PathIn(e, g)[l] = 0
                 \/ PathIn(e, g)[l] = Len(dir) + 1 /\ l = m + 1
    BY <1>3, <1>4, <1>5, <1>6, GrownPaths
<1> QED
    BY <1>4, <1>5, <1>7, Zenon DEF h, m, b, e

\* alloc_pgtbl_level hangs a new table into the tested entry.
LEMMA StoreTableInv ==
    ASSUME TableInv, NEW t \in Threads, Threads = {t}, StoreTable(t)
    PROVE  TableInv'
<1> DEFINE o == op[t]
           i == Index[o.pgn][o.level]
           n == [o EXCEPT !.pc = "follow"]
<1>1. /\ o.pc = "store" /\ Len(dir) < MaxTables
      /\ dir' = Grown(dir, o.tbl, Slot(o)) /\ pt' = Append(pt, EmptyPt)
      /\ tables_allocated' = tables_allocated + 1 /\ Do(t, n)
      /\ mm64_lock' = mm64_lock /\ ret' = ret
    BY Zenon DEF StoreTable, Grown
<1>2. o.pc # "idle"
    BY <1>1, Zenon
<1>3. /\ o \in Busy /\ o.pgn \in Pages /\ o.level \in 1 .. Levels
      /\ o.tbl \in 1 .. Len(dir) /\ o.tbl = PathIn(dir, o.pgn)[o.level]
      /\ Slot(o) = i /\ i \in Entries /\ DirOK(dir) /\ TreeOK(dir, pt)
      /\ WalkOK(o, dir, pt) /\ Len(dir) <= MaxTables /\ tables_allocated = Len(dir)
    BY <1>2, Underway, InvParts, ZenonT(40)
<1>4. o.level < Levels /\ dir[o.tbl][i] = 0
    BY <1>1, <1>2, <1>3, Zenon DEF WalkOK
<1>5. dir' = Grown(dir, o.tbl, i)
    BY <1>1, <1>3, Zenon
<1>6. /\ n \in Busy /\ n.pc = "follow" /\ n.call = o.call /\ n.pgn = o.pgn
      /\ n.arg = o.arg /\ n.rest = o.rest /\ n.level = o.level /\ n.tbl = o.tbl
      /\ n.first = o.first
  <2> HIDE DEF o
  <2> QED
    BY <1>3, BusyPc, Zenon
<1> HIDE DEF o, n
<1>7. TreeOK(dir', pt')
    BY <1>1, <1>3, <1>4, <1>5, GrownTree, ZenonT(40)
<1>8. /\ Len(dir') = Len(dir) + 1 /\ dir'[o.tbl][i] = Len(dir) + 1
  <2> HIDE DEF i
  <2>1. IsGrown(dir, o.tbl, i, dir')
    BY <1>3, <1>4, <1>5, GrownIs, Zenon
  <2> QED
    BY <1>3, <2>1, Zenon DEF IsGrown
<1>9. Levels \in Nat \ {0} /\ Len(dir) \in Nat /\ MaxTables \in Nat /\ OneLevel(dir)
  <2>1. Len(dir) \in Nat
    BY <1>3 DEF DirOK
  <2>2. OneLevel(dir)
    BY <1>3, Zenon DEF TreeOK
  <2> QED
    BY <2>1, <2>2, PageTableAssumption, Zenon
<1>10. \A g \in Pages, l \in 1 .. Levels :
           PathIn(dir, g)[l] # 0 => PathIn(dir', g)[l] = PathIn(dir, g)[l]
    BY StoreTablePaths, Zenon
<1>11. n.tbl \in 1 .. Len(dir') /\ n.tbl = PathIn(dir', n.pgn)[n.level]
  <2>1. o.tbl # 0 /\ o.tbl \in 1 .. Len(dir')
    <3>1. /\ o.tbl \in 1 .. Len(dir) /\ Len(dir) \in Nat
          /\ Len(dir') = Len(dir) + 1
        BY <1>3, <1>8, <1>9, Zenon
    <3> QED
        BY <3>1
  <2>2. PathIn(dir', o.pgn)[o.level] = PathIn(dir, o.pgn)[o.level]
    BY <1>3, <1>10, <2>1, Zenon
  <2> QED
    BY <1>3, <1>6, <2>1, <2>2, ZenonT(40)
<1>12. n.first # 0 => n.first = PathIn(dir', n.pgn)[Levels]
  <2> SUFFICES ASSUME n.first # 0 PROVE n.first = PathIn(dir', n.pgn)[Levels]
    OBVIOUS
  <2>1. o.first # 0 /\ o.first = PathIn(dir, o.pgn)[Levels]
    BY <1>2, <1>3, <1>6, Zenon DEF WalkOK
  <2>2. Levels \in 1 .. Levels
    BY <1>9
  <2>3. PathIn(dir', o.pgn)[Levels] = PathIn(dir, o.pgn)[Levels]
    BY <1>3, <1>10, <2>1, <2>2, Zenon
  <2> QED
    BY <1>6, <2>1, <2>3, Zenon
<1>13. dir'[n.tbl][Index[n.pgn][n.level]] # 0
    BY <1>6, <1>8, <1>9
<1>14. WalkOK(n, dir', pt')
  <2>1. n.pc # "store" /\ n.pc # "present" /\ n.level < Levels
        /\ n.pc \in {"check", "store", "follow"}
    BY <1>4, <1>6
  <2>2. /\ n.call \in {"fpn", "kmalloc"} => n.arg \in Fpns
        /\ n.call = "swap" => n.arg \in Swaps
        /\ n.call = "memset" =>
               n.rest >= 1 /\ n.pgn .. n.pgn + n.rest - 1 \subseteq Pages
    BY <1>2, <1>3, <1>6, Zenon DEF WalkOK
  <2> QED
    BY <1>11, <1>12, <1>13, <2>1, <2>2, Zenon DEF WalkOK
<1>15. n \in OpSet
    BY <1>6, BusyFields, Zenon
<1>16. op' \in [Threads -> OpSet] /\ \A u \in Threads : WalkOK(op'[u], dir', pt')
    BY <1>1, <1>14, <1>15, OneOp, ZenonT(40)
<1>17. Len(dir') <= MaxTables /\ tables_allocated' = Len(dir')
  <2>1. /\ tables_allocated' = tables_allocated + 1 /\ tables_allocated = Len(dir)
        /\ Len(dir') = Len(dir) + 1 /\ Len(dir) < MaxTables
        /\ Len(dir) \in Nat /\ MaxTables \in Nat
    BY <1>1, <1>3, <1>8, <1>9, Zenon
  <2> QED
    BY <2>1
<1>18. mm64_lock' \in Threads \cup {NOBODY} /\ ret' \in [Threads -> Word]
    BY <1>1, InvParts, Zenon
<1> QED
    BY <1>7, <1>16, <1>17, <1>18, Zenon DEF TableInv

\* alloc_pgtbl_level has no memory: the zero entry is stored zero again.
LEMMA StoreFailsInv ==
    ASSUME TableInv, NEW t \in Threads, Threads = {t}, StoreFails(t)
    PROVE  TableInv' /\ UNCHANGED tree
<1> DEFINE o == op[t]
<1>1. /\ o.pc = "store" /\ dir' = [dir EXCEPT ![o.tbl][Slot(o)] = 0]
      /\ Do(t, Idle) /\ mm64_lock' = (IF mm64_lock = t THEN NOBODY ELSE mm64_lock)
      /\ pt' = pt /\ tables_allocated' = tables_allocated /\ ret' = ret
    BY Zenon DEF StoreFails, Return
<1>2. o.pc # "idle"
    BY <1>1, Zenon
<1>3. /\ o.tbl \in 1 .. Len(dir) /\ Slot(o) = Index[o.pgn][o.level]
      /\ Slot(o) \in Entries /\ DirOK(dir) /\ WalkOK(o, dir, pt)
    BY <1>2, Underway, InvParts, Zenon
<1>4. dir[o.tbl][Slot(o)] = 0
    BY <1>1, <1>2, <1>3, Zenon DEF WalkOK
<1>5. dir' = dir
  <2> DEFINE b == o.tbl
             i == Slot(o)
  <2>1. b \in 1 .. Len(dir) /\ i \in Entries /\ dir[b][i] = 0
        /\ dir' = [dir EXCEPT ![b][i] = 0]
    BY <1>1, <1>3, <1>4, Zenon
  <2> HIDE DEF b, i
  <2>2. dir \in Seq([Entries -> Nat])
    BY <1>3 DEF DirOK
  <2>3. dir[b] \in [Entries -> Nat]
    BY <2>1, <2>2
  <2>4. [dir[b] EXCEPT ![i] = 0] = dir[b]
    BY <2>1, <2>3
  <2> QED
    BY <2>1, <2>2, <2>4
<1>6. UNCHANGED tree
    BY <1>1, <1>5 DEF tree
<1>7. mm64_lock' \in Threads \cup {NOBODY} /\ ret' \in [Threads -> Word]
    BY <1>1, InvParts, Zenon
<1> QED
    BY <1>1, <1>6, <1>7, IdleOK, SameTree, Zenon

\* The present bit of an entry after pte_set_fpn or SETBIT.
LEMMA PresentBits ==
    ASSUME NEW v, NEW f
    PROVE  /\ PAGING_PAGE_PRESENT(WithFpn(v, f))
           /\ PAGING_PAGE_PRESENT(SETBIT(v, PAGING_PTE_PRESENT_MASK))
<1>1. 31 \notin 0 .. 12 /\ 31 \notin {30}
    OBVIOUS
<1>2. 31 \in WithFpn(v, f)
    BY <1>1 DEF WithFpn, SETVAL, SETBIT, CLRBIT, PAGING_PTE_PRESENT_MASK,
       PAGING_PTE_SWAPPED_MASK, PAGING_PTE_FPN_MASK, GENMASK
<1> QED
    BY <1>2 DEF PAGING_PAGE_PRESENT, SETBIT, PAGING_PTE_PRESENT_MASK

\* A caller that stores into the entry of its page.
LEMMA StoresEntry ==
    ASSUME TableInv, NEW t \in Threads, Threads = {t},
           op[t].pc \in {"apply", "present"}, NEW e \in Word,
           dir' = dir, tables_allocated' = tables_allocated, ret' = ret,
           pt' = [pt EXCEPT ![op[t].tbl][Slot(op[t])] = e],
           mm64_lock' \in Threads \cup {NOBODY},
           NEW o \in OpSet, Do(t, o), WalkOK(o, dir, pt')
    PROVE  TableInv'
<1> DEFINE h == op[t].pgn
           b == op[t].tbl
           i == Slot(op[t])
<1>1. op[t].pc # "idle" /\ ~ (op[t].pc \in {"check", "store", "follow"})
    BY Zenon
<1>2. /\ h \in Pages /\ op[t].level \in 1 .. Levels /\ b \in 1 .. Len(dir)
      /\ b = PathIn(dir, h)[op[t].level] /\ i \in Entries
      /\ TreeOK(dir, pt) /\ WalkOK(op[t], dir, pt)
    BY <1>1, Underway, InvParts
<1>3. ~ (op[t].level < Levels)
    BY <1>1, <1>2, ZenonT(40) DEF WalkOK
<1>4. op[t].level = Levels
  <2>1. op[t].level \in 1 .. Levels /\ Levels \in Nat
    BY <1>2, PageTableAssumption, Zenon
  <2> QED
    BY <1>3, <2>1
<1>5. b = PathIn(dir, h)[Levels]
    BY <1>2, <1>4, Zenon
<1>6. pt' = [pt EXCEPT ![b][i] = e]
    OBVIOUS
<1> HIDE DEF h, b, i
<1>7. TreeOK(dir, pt')
  <2>1. /\ TreeOK(dir, pt) /\ h \in Pages /\ b \in 1 .. Len(dir) /\ i \in Entries
        /\ b = PathIn(dir, h)[Levels] /\ e \in Word
    BY <1>2, <1>5, Zenon
  <2>2. TreeOK(dir, [pt EXCEPT ![b][i] = e])
    BY <2>1, StoredTree, Zenon
  <2> QED
    BY <1>6, <2>2, Zenon
<1>8. op' \in [Threads -> OpSet] /\ \A u \in Threads : WalkOK(op'[u], dir', pt')
    BY OneOp, Zenon
<1> QED
    BY <1>7, <1>8, InvParts, Zenon DEF TableInv

\* What is known when a caller has its pointer.
LEMMA Applying ==
    ASSUME TableInv, NEW t \in Threads, op[t].pc \in {"apply", "present"}
    PROVE  /\ op[t] \in Busy /\ op[t].pgn \in Pages /\ op[t].level = Levels
           /\ op[t].tbl \in 1 .. Len(pt) /\ op[t].tbl \in Tables
           /\ op[t].tbl = PathIn(dir, op[t].pgn)[Levels]
           /\ Slot(op[t]) = Index[op[t].pgn][Levels] /\ Slot(op[t]) \in Entries
           /\ pt \in Seq([Entries -> Word]) /\ EntryAt(op[t]) \in Word
           /\ Len(pt) = Len(dir) /\ DirOK(dir)
           /\ WalkOK(op[t], dir, pt)
<1>1. op[t].pc # "idle" /\ ~ (op[t].pc \in {"check", "store", "follow"})
    BY Zenon
<1>2. /\ op[t] \in Busy /\ op[t].pgn \in Pages /\ op[t].level \in 1 .. Levels
      /\ op[t].tbl \in 1 .. Len(dir) /\ op[t].tbl = PathIn(dir, op[t].pgn)[op[t].level]
      /\ Slot(op[t]) = Index[op[t].pgn][op[t].level] /\ Slot(op[t]) \in Entries
      /\ TreeOK(dir, pt) /\ DirOK(dir) /\ WalkOK(op[t], dir, pt)
    BY <1>1, Underway, InvParts
<1>3. ~ (op[t].level < Levels)
    BY <1>1, <1>2, ZenonT(40) DEF WalkOK
<1>4. op[t].level = Levels
    BY <1>2, <1>3, PageNumbers
<1>5. pt \in Seq([Entries -> Word]) /\ Len(pt) = Len(dir)
    BY <1>2, Zenon DEF TreeOK
<1>6. op[t].tbl \in Tables
    BY <1>2, BusyFields, ZenonT(40)
<1>7. pt[op[t].tbl] \in [Entries -> Word]
    BY <1>2, <1>5
<1>8. pt[op[t].tbl][Slot(op[t])] \in Word
    BY <1>2, <1>7, Zenon
<1> QED
    BY <1>2, <1>4, <1>5, <1>6, <1>8, Zenon DEF EntryAt

\* pte_set_swap stores into the entry of its page.
LEMMA SetSwapInv ==
    ASSUME TableInv, NEW t \in Threads, Threads = {t}, SetSwap(t)
    PROVE  TableInv'
<1>1. /\ op[t].pc = "apply" /\ dir' = dir /\ tables_allocated' = tables_allocated
      /\ mm64_lock' = mm64_lock /\ ret' = ret /\ Do(t, Idle)
      /\ pt' = [pt EXCEPT ![op[t].tbl][Slot(op[t])] =
                    WithSwap(EntryAt(op[t]), 0, op[t].arg)]
    BY Zenon DEF SetSwap, SetEntry
<1>2. op[t].pc \in {"apply", "present"}
    BY <1>1
<1>3. WithSwap(EntryAt(op[t]), 0, op[t].arg) \in Word
    BY <1>2, Applying, SetterWords, Zenon
<1> QED
    BY <1>1, <1>2, <1>3, IdleOK, InvParts, StoresEntry, Zenon

\* __kmalloc sets the present bit through the pointer it kept.
LEMMA SetPresentInv ==
    ASSUME TableInv, NEW t \in Threads, Threads = {t}, SetPresent(t)
    PROVE  TableInv' /\ op[t].first = op[t].tbl
<1>1. /\ op[t].pc = "present" /\ dir' = dir /\ tables_allocated' = tables_allocated
      /\ mm64_lock' = mm64_lock /\ ret' = ret /\ Do(t, Idle)
      /\ pt' = [pt EXCEPT ![op[t].first][Slot(op[t])] =
                    SETBIT(@, PAGING_PTE_PRESENT_MASK)]
    BY Zenon DEF SetPresent
<1>2. op[t].pc \in {"apply", "present"} /\ op[t].pc # "idle"
    BY <1>1
<1>3. op[t].first = op[t].tbl
  <2>1. op[t].first = PathIn(dir, op[t].pgn)[Levels]
    BY <1>1, <1>2, Applying, Zenon DEF WalkOK
  <2> QED
    BY <1>2, <2>1, Applying, Zenon
<1>4. pt' = [pt EXCEPT ![op[t].tbl][Slot(op[t])] =
                 SETBIT(EntryAt(op[t]), PAGING_PTE_PRESENT_MASK)]
  <2>1. pt' = [pt EXCEPT ![op[t].tbl][Slot(op[t])] =
                   SETBIT(@, PAGING_PTE_PRESENT_MASK)]
    BY <1>1, <1>3, Zenon
  <2> QED
    BY <2>1 DEF EntryAt
<1>5. SETBIT(EntryAt(op[t]), PAGING_PTE_PRESENT_MASK) \in Word
    BY <1>2, Applying, SetterWords, Zenon
<1>6. TableInv'
    BY <1>1, <1>2, <1>4, <1>5, IdleOK, InvParts, StoresEntry, Zenon
<1> QED
    BY <1>3, <1>6

\* pte_set_fpn stores into the entry of its page, for itself or __kmalloc.
LEMMA SetFpnInv ==
    ASSUME TableInv, NEW t \in Threads, Threads = {t}, SetFpn(t)
    PROVE  TableInv'
<1> DEFINE o == op[t]
           e == WithFpn(EntryAt(o), o.arg)
           n == IF o.first = 0 THEN Idle ELSE [o EXCEPT !.pc = "present"]
<1>1. /\ o.pc = "apply" /\ dir' = dir /\ tables_allocated' = tables_allocated
      /\ mm64_lock' = mm64_lock /\ ret' = ret /\ Do(t, n)
      /\ pt' = [pt EXCEPT ![o.tbl][Slot(o)] = e]
    BY Zenon DEF SetFpn, SetEntry
<1>2. o.pc \in {"apply", "present"} /\ o.pc # "idle"
    BY <1>1
<1>3. e \in Word
    BY <1>2, Applying, SetterWords, Zenon
<1>4. /\ o \in Busy /\ o.tbl \in 1 .. Len(pt) /\ Slot(o) \in Entries
      /\ pt \in Seq([Entries -> Word]) /\ WalkOK(o, dir, pt)
      /\ o.tbl = PathIn(dir, o.pgn)[Levels] /\ Slot(o) = Index[o.pgn][Levels]
    BY <1>2, Applying, Zenon
<1>5. CASE o.first = 0
  <2>1. n = Idle
    BY <1>5
  <2>2. n \in OpSet /\ WalkOK(n, dir, pt')
    BY <2>1, IdleOK, Zenon
  <2> QED
    BY <1>1, <1>2, <1>3, <2>2, InvParts, StoresEntry, Zenon
<1>6. CASE o.first # 0
  <2>1. n = [o EXCEPT !.pc = "present"]
    BY <1>6
  <2>2. o.first = PathIn(dir, o.pgn)[Levels]
    BY <1>2, <1>4, <1>6, Zenon DEF WalkOK
  <2>3. o.first = o.tbl
    BY <1>4, <2>2, Zenon
  <2>4. pt'[o.tbl][Slot(o)] = e
    <3> DEFINE b == o.tbl
               i == Slot(o)
    <3>1. b \in 1 .. Len(pt) /\ i \in Entries /\ pt' = [pt EXCEPT ![b][i] = e]
        BY <1>1, <1>4, Zenon
    <3> HIDE DEF b, i, e
    <3>2. pt'[b][i] = e
        BY <1>3, <1>4, <3>1, StoredIs
    <3> QED
        BY <3>2 DEF b, i
  <2>5. PAGING_PAGE_PRESENT(pt'[o.first][Index[o.pgn][Levels]])
    BY <1>4, <2>3, <2>4, PresentBits, Zenon
  <2> HIDE DEF o, e, n
  <2>6. /\ n \in Busy /\ n.pc = "present" /\ n.call = o.call /\ n.pgn = o.pgn
        /\ n.arg = o.arg /\ n.rest = o.rest /\ n.level = o.level /\ n.tbl = o.tbl
        /\ n.first = o.first
    BY <1>4, <2>1, BusyPc, ZenonT(40)
  <2>7. WalkOK(n, dir, pt')
    BY <1>1, <1>2, <1>4, <1>6, <2>5, <2>6 DEF WalkOK
  <2>8. n \in OpSet
    BY <2>6, BusyFields, ZenonT(40)
  <2> QED
    BY <1>1, <1>2, <1>3, <2>7, <2>8, InvParts, StoresEntry, Zenon DEF o
<1> QED
    BY <1>5, <1>6

\* vmap_pgd_memset stores the pattern and goes on to the next page.
LEMMA SetPatternInv ==
    ASSUME TableInv, NEW t \in Threads, Threads = {t}, SetPattern(t)
    PROVE  TableInv'
<1> DEFINE o == op[t]
           n == Walk("memset", o.pgn + 1, 0, o.rest - 1, 0)
<1>1. /\ o.pc = "apply" /\ o.call = "memset"
      /\ dir' = dir /\ tables_allocated' = tables_allocated /\ ret' = ret
      /\ pt' = [pt EXCEPT ![o.tbl][Slot(o)] = Pattern]
    BY Zenon DEF SetPattern, SetEntry
<1>2. o.pc \in {"apply", "present"} /\ o.pc # "idle"
    BY <1>1
<1>3. o \in Busy /\ DirOK(dir) /\ WalkOK(o, dir, pt)
    BY <1>2, Applying, Zenon
<1>4. CASE o.rest = 1 /\ Return(t)
  <2>1. Do(t, Idle) /\ mm64_lock' \in Threads \cup {NOBODY}
    BY <1>4, InvParts, Zenon DEF Return
  <2> QED
    BY <1>1, <1>2, <2>1, WordFacts, IdleOK, StoresEntry, Zenon
<1>5. CASE o.rest > 1 /\ Do(t, n) /\ mm64_lock' = mm64_lock
  <2> HIDE DEF o
  <2>1. o.pgn \in Pages /\ o.rest \in 0 .. MaxMapped
    BY <1>3, BusyFields, Zenon
  <2>2. o.pgn .. o.pgn + o.rest - 1 \subseteq Pages
    BY <1>1, <1>2, <1>3 DEF WalkOK
  <2>3. o.pgn \in Nat /\ MaxMapped \in Nat
    BY <2>1, PageNumbers, PageTableAssumption, Zenon
  <2>4. /\ o.pgn + 1 \in Pages /\ o.rest - 1 \in 0 .. MaxMapped /\ o.rest - 1 >= 1
        /\ (o.pgn + 1) .. (o.pgn + 1) + (o.rest - 1) - 1 \subseteq Pages
    BY <1>5, <2>1, <2>2, <2>3
  <2>5. n \in OpSet /\ WalkOK(n, dir, pt')
    <3> DEFINE g == o.pgn + 1
               k == o.rest - 1
               p == pt'
    <3>1. /\ g \in Pages /\ k \in 0 .. MaxMapped /\ k >= 1
          /\ g .. g + k - 1 \subseteq Pages
        BY <2>4, Zenon
    <3> HIDE DEF g, k, p
    <3>2. Walk("memset", g, 0, k, 0) \in OpSet
          /\ WalkOK(Walk("memset", g, 0, k, 0), dir, p)
        BY <1>3, <3>1, WalkStarts, Zenon
    <3> QED
        BY <3>2, Zenon DEF g, k, p
  <2> HIDE DEF n
  <2> QED
    BY <1>1, <1>2, <1>5, <2>5, WordFacts, InvParts, StoresEntry, Zenon DEF o
<1> QED
    BY <1>4, <1>5 DEF SetPattern

\* A call starts at the root.
LEMMA StartInv ==
    ASSUME TableInv, NEW t \in Threads, Threads = {t}, Start(t)
    PROVE  TableInv'
<1>0. MaxMapped \in Nat /\ 0 \in 0 .. MaxMapped /\ DirOK(dir)
  <2>1. MaxMapped \in Nat
    BY PageTableAssumption, Zenon
  <2>2. 0 \in 0 .. MaxMapped
    BY <2>1
  <2> QED
    BY <2>1, <2>2, InvParts, Zenon DEF TreeOK
<1>1. UNCHANGED tree /\ ret' = [ret EXCEPT ![t] = {}]
    BY DEF Start
<1>2. ret' \in [Threads -> Word]
  <2>1. {} \in Word
    BY Zenon DEF Word
  <2> QED
    BY <1>1, <2>1, InvParts
<1>3. mm64_lock' = mm64_lock \/ mm64_lock' = t
    BY DEF Start
<1>4. mm64_lock' \in Threads \cup {NOBODY}
    BY <1>3, InvParts, Zenon
<1>5. PICK g \in Pages :
          \/ Do(t, Walk("get", g, 0, 0, 0))
          \/ \E f \in Fpns : Do(t, Walk("fpn", g, f, 0, 0))
          \/ \E f \in Fpns : Do(t, Walk("kmalloc", g, f, 0, 0))
          \/ \E s \in Swaps : Do(t, Walk("swap", g, s, 0, 0))
          \/ \E n \in 1 .. MaxMapped :
                 g .. g + n - 1 \subseteq Pages /\ Do(t, Walk("memset", g, 0, n, 0))
    BY Zenon DEF Start
<1>6. \E o \in OpSet : Do(t, o) /\ WalkOK(o, dir, pt)
  <2>1. CASE Do(t, Walk("get", g, 0, 0, 0))
    <3>1. Walk("get", g, 0, 0, 0) \in OpSet /\ WalkOK(Walk("get", g, 0, 0, 0), dir, pt)
        BY <1>0, WalkStarts, Zenon
    <3> QED
        BY <2>1, <3>1, Zenon
  <2>2. ASSUME NEW f \in Fpns, NEW c \in {"fpn", "kmalloc"},
               Do(t, Walk(c, g, f, 0, 0))
        PROVE  \E o \in OpSet : Do(t, o) /\ WalkOK(o, dir, pt)
    <3>1. Walk(c, g, f, 0, 0) \in OpSet /\ WalkOK(Walk(c, g, f, 0, 0), dir, pt)
        BY <1>0, WalkStarts, Zenon
    <3> QED
        BY <2>2, <3>1, Zenon
  <2>3. ASSUME NEW x \in Swaps, Do(t, Walk("swap", g, x, 0, 0))
        PROVE  \E o \in OpSet : Do(t, o) /\ WalkOK(o, dir, pt)
    <3>1. Walk("swap", g, x, 0, 0) \in OpSet
          /\ WalkOK(Walk("swap", g, x, 0, 0), dir, pt)
        BY <1>0, WalkStarts, Zenon
    <3> QED
        BY <2>3, <3>1, Zenon
  <2>4. ASSUME NEW n \in 1 .. MaxMapped, g .. g + n - 1 \subseteq Pages,
               Do(t, Walk("memset", g, 0, n, 0))
        PROVE  \E o \in OpSet : Do(t, o) /\ WalkOK(o, dir, pt)
    <3>1. n \in 0 .. MaxMapped /\ n >= 1
        BY <1>0
    <3>2. Walk("memset", g, 0, n, 0) \in OpSet
          /\ WalkOK(Walk("memset", g, 0, n, 0), dir, pt)
        BY <1>0, <2>4, <3>1, WalkStarts
    <3> QED
        BY <2>4, <3>2, Zenon
  <2> QED
    BY <1>5, <2>1, <2>2, <2>3, <2>4, Zenon
<1> QED
    BY <1>1, <1>2, <1>4, <1>6, SameTree, Zenon

\* Every step of a table with one user keeps the invariant.
LEMMA NextInv ==
    ASSUME NEW cpu, Threads = {cpu}, TableInv, [Next]_vars
    PROVE  TableInv'
<1>1. ASSUME NEW t \in Threads, Start(t) \/ Step(t)
      PROVE  TableInv'
  <2>1. Threads = {t}
    OBVIOUS
  <2>2. CASE Start(t)
    BY <2>1, <2>2, StartInv, Zenon
  <2>3. CASE Step(t)
    BY <2>1, <2>3, CheckInv, IdleInv, FollowInv, KmallocPointerInv, StoreTableInv,
       StoreFailsInv, SetSwapInv, SetPresentInv, SetFpnInv, SetPatternInv, Zenon DEF Step
  <2> QED
    BY <1>1, <2>2, <2>3
<1>2. CASE UNCHANGED vars
    BY <1>2, Zenon DEF vars, TableInv
<1> QED
    BY <1>1, <1>2, Zenon DEF Next

\* A set of one element has cardinality 1.
LEMMA CardinalityOne ==
    ASSUME NEW x
    PROVE  Cardinality({x}) = 1
<1> DEFINE Is(f) == f = [T \in SUBSET {x} |->
                            IF T = {} THEN 0
                            ELSE 1 + f[T \ {CHOOSE y : y \in T}]]
           h == [T \in SUBSET {x} |-> IF T = {} THEN 0 ELSE 1]
           c == CHOOSE f : Is(f)
<1>1. \A T \in SUBSET {x} : T # {} => T = {x} /\ T \ {CHOOSE y : y \in T} = {}
    OBVIOUS
<1>2. \A T \in SUBSET {x} :
          h[T] = IF T = {} THEN 0 ELSE 1 + h[T \ {CHOOSE y : y \in T}]
    BY <1>1
<1>3. Is(h)
    BY <1>2
<1>4. Is(c)
    BY <1>3, Zenon
<1>5. Cardinality({x}) = c[{x}]
    BY DEF Cardinality
<1> HIDE DEF c
<1>6. c[{}] = 0
    BY <1>4, Zenon
<1>7. c[{x}] = 1 + c[{x} \ {CHOOSE y : y \in {x}}]
    BY <1>4
<1> QED
    BY <1>1, <1>5, <1>6, <1>7

\* Two entries that point to one table are one entry.
LEMMA SameParent ==
    ASSUME NEW d, OneParent(d), NEW a \in 1 .. Len(d), NEW b \in 1 .. Len(d),
           NEW i \in Entries, NEW j \in Entries, d[a][i] # 0, d[a][i] = d[b][j]
    PROVE  a = b /\ i = j
    BY SMTT(30) DEF OneParent

\* The invariant makes the tables a tree.
LEMMA InvTreeShape == TableInv => TreeShape
<1> SUFFICES ASSUME TableInv PROVE TreeShape
    OBVIOUS
<1> DEFINE P(g) == PathIn(dir, g)
<1>0. Levels \in Nat \ {0} /\ Levels \in 1 .. Levels
    BY PageNumbers
<1>1. /\ DirOK(dir) /\ OneParent(dir) /\ OneLevel(dir) /\ TreeOK(dir, pt)
      /\ tables_allocated = Len(dir)
    BY InvParts, Zenon DEF TreeOK
<1>2. \A b : LevelOf(b) = {l \in 1 .. Levels : \E g \in Pages : P(g)[l] = b}
    BY PathIs DEF LevelOf
<1>3. /\ \A b \in 2 .. Len(dir) : \E g \in Pages, l \in 2 .. Levels : P(g)[l] = b
      /\ \A g \in Pages : P(g)[Levels] # 0 => dir[P(g)[Levels]] = EmptyDir
      /\ \A b \in 1 .. Len(dir) : pt[b] # EmptyPt => \E g \in Pages : P(g)[Levels] = b
    BY <1>1, Zenon DEF TreeOK
<1>4. ASSUME NEW b \in 2 .. Len(dir)
      PROVE  /\ Cardinality({e \in (1 .. Len(dir)) \X Entries : dir[e[1]][e[2]] = b}) = 1
             /\ Cardinality(LevelOf(b)) = 1
  <2>1. PICK g \in Pages, l \in 2 .. Levels : P(g)[l] = b
    BY <1>3
  <2> DEFINE a == P(g)[l - 1]
             i == Index[g][l - 1]
             S == {e \in (1 .. Len(dir)) \X Entries : dir[e[1]][e[2]] = b}
  <2>2. b # 0 /\ l \in 1 .. Levels /\ l - 1 \in 1 .. Levels /\ l - 1 < Levels
        /\ (l - 1) + 1 = l
    BY <1>0
  <2>3. a # 0
    BY <2>1, <2>2, PathOf, SMTT(40)
  <2>4. a \in 1 .. Len(dir) /\ b = dir[a][i]
    BY <1>1, <2>1, <2>2, <2>3, PathStep
  <2>5. i \in Entries
    BY <2>2, IndexIs, Zenon
  <2> HIDE DEF a, i
  <2>6. \A c \in 1 .. Len(dir), j \in Entries : dir[c][j] = b => c = a /\ j = i
    <3> SUFFICES ASSUME NEW c \in 1 .. Len(dir), NEW j \in Entries, dir[c][j] = b
                 PROVE  c = a /\ j = i
        BY Zenon
    <3>1. dir[c][j] # 0 /\ dir[c][j] = dir[a][i]
        BY <2>2, <2>4, Zenon
    <3> QED
        BY <1>1, <2>4, <2>5, <3>1, SameParent, Zenon
  <2>7. S = {<<a, i>>}
    <3>1. <<a, i>> \in S
        BY <2>4, <2>5, Zenon
    <3>2. ASSUME NEW e \in S PROVE e = <<a, i>>
      <4>1. e \in (1 .. Len(dir)) \X Entries /\ dir[e[1]][e[2]] = b
        BY Zenon
      <4>2. e[1] \in 1 .. Len(dir) /\ e[2] \in Entries /\ e = <<e[1], e[2]>>
        BY <4>1
      <4>3. e[1] = a /\ e[2] = i
        BY <2>6, <4>1, <4>2, Zenon
      <4> QED
        BY <4>2, <4>3, Zenon
    <3> QED
        BY <3>1, <3>2, Zenon
  <2>8. LevelOf(b) = {l}
    <3>1. l \in LevelOf(b)
        BY <1>2, <2>1, <2>2
    <3>2. ASSUME NEW m \in LevelOf(b) PROVE m = l
      <4>1. m \in 1 .. Levels /\ \E h \in Pages : P(h)[m] = b
        BY <1>2
      <4>2. PICK h \in Pages : P(h)[m] = b
        BY <4>1
      <4>3. P(g)[l] # 0 /\ P(g)[l] = P(h)[m]
        BY <2>1, <2>2, <4>2, Zenon
      <4> QED
        BY <1>1, <2>2, <4>1, <4>3, Zenon DEF OneLevel
    <3> QED
        BY <3>1, <3>2, Zenon
  <2> QED
    BY <2>7, <2>8, CardinalityOne, Zenon
<1>5. ASSUME NEW b \in 1 .. Len(dir)
      PROVE  \/ Levels \in LevelOf(b) /\ dir[b] = EmptyDir
             \/ Levels \notin LevelOf(b) /\ pt[b] = EmptyPt
  <2>1. b # 0
    BY <1>1 DEF DirOK
  <2>2. Levels \in LevelOf(b) <=> \E g \in Pages : P(g)[Levels] = b
    BY <1>0, <1>2, Zenon
  <2> HIDE DEF P
  <2> QED
    BY <1>3, <2>1, <2>2, Zenon
<1> QED
    BY <1>1, <1>4, <1>5, Zenon DEF TreeShape

\* The invariant keeps a caller's pointer in the tree.
LEMMA InvPointerInTree == TableInv => PointerInTree
<1> SUFFICES ASSUME TableInv, NEW t \in Threads
             PROVE  /\ op[t].pc = "apply" => op[t].tbl = PathIn(dir, op[t].pgn)[Levels]
                    /\ op[t].pc # "idle" /\ op[t].first # 0 =>
                           op[t].first = PathIn(dir, op[t].pgn)[Levels]
    BY PathIs, Zenon DEF PointerInTree
<1>1. op[t].pc = "apply" => op[t].tbl = PathIn(dir, op[t].pgn)[Levels]
    BY Applying, Zenon
<1>2. op[t].pc # "idle" /\ op[t].first # 0 =>
          op[t].first = PathIn(dir, op[t].pgn)[Levels]
    BY InvParts, Zenon DEF WalkOK
<1> QED
    BY <1>1, <1>2

\* It holds throughout.
LEMMA TableInvariant ==
    ASSUME NEW cpu, Threads = {cpu}
    PROVE  Spec => []TableInv
    BY InitInv, NextInv, PTL DEF Spec

\* The tables, entries and calls of a page table with one user keep their types,
\* whatever its depth, its fanout and the pages used (mm64.c:184-393).
THEOREM PageTableTypeCorrect ==
    ASSUME NEW cpu, Threads = {cpu}
    PROVE  Spec => []TypeOK
    BY TableInvariant, InvTypes, PTL

\* What get_pte_ptr and alloc_pgtbl_level build with one user is a tree: every
\* table counted by pgtbl_tables_allocated hangs in exactly one entry, on the
\* path of a page, and at one level (mm64.c:184-257).
THEOREM TablesFormTree ==
    ASSUME NEW cpu, Threads = {cpu}
    PROVE  Spec => []TreeShape
    BY TableInvariant, InvTreeShape, PTL

\* With one user the entry pointer get_pte_ptr gave a caller, and the one
\* __kmalloc keeps over pte_set_fpn, is the entry a fresh walk would find
\* (mm64.c:184-257, libmem.c:541-555).
THEOREM PointersStayInTree ==
    ASSUME NEW cpu, Threads = {cpu}
    PROVE  Spec => []PointerInTree
    BY TableInvariant, InvPointerInTree, PTL

(***************************************************************************)
(* The page table implements the map PageMap.                              *)
(***************************************************************************)

\* Entry in the directories d and the tables p.
EntryIn(d, p, g) ==
    IF PathIn(d, g)[Levels] = 0 THEN {} ELSE p[PathIn(d, g)[Levels]][Index[g][Levels]]

\* The Entry of PageTable, before and after a step.
LEMMA EntryIs ==
    \A g : Entry(g) = EntryIn(dir, pt, g) /\ Entry(g)' = EntryIn(dir', pt', g)
    BY PathIs, Zenon DEF Entry, EntryIn

\* A zero entry is no page.
LEMMA DecodedZero == Decode({}) = Map!NoPage
    BY DEF Decode, PAGING_PAGE_PRESENT, PAGING_PAGE_SWAPPED, Map!NoPage

\* What pte_set_fpn writes reads as a page in RAM.
LEMMA DecodedFpn ==
    ASSUME NEW v, NEW f \in Nat
    PROVE  Decode(WithFpn(v, f)) = Map!InRam(f)
<1>1. Decode(WithFpn(v, f)) = [where |-> "ram", fpn |-> PAGING_FPN(WithFpn(v, f))]
    BY PresentBits, Zenon DEF Decode
<1> QED
    BY <1>1, FpnKept, SMT DEF Map!InRam

\* What pte_set_swap writes reads as a page in swap, whatever the entry held.
LEMMA DecodedSwap ==
    ASSUME NEW v, NEW s \in 0 .. 2^21 - 1
    PROVE  Decode(WithSwap(v, 0, s)) = Map!InSwap(s)
<1>1. 31 \notin WithSwap(v, 0, s) /\ 30 \in WithSwap(v, 0, s)
    BY DEF WithSwap, SETVAL, SETBIT, CLRBIT, PAGING_PTE_PRESENT_MASK, BitsOf,
       PAGING_PTE_SWAPPED_MASK, PAGING_PTE_SWPTYP_MASK, PAGING_PTE_SWPOFF_MASK, GENMASK
<1>2. /\ ~ PAGING_PAGE_PRESENT(WithSwap(v, 0, s))
      /\ PAGING_PAGE_SWAPPED(WithSwap(v, 0, s))
    BY <1>1, Zenon DEF PAGING_PAGE_PRESENT, PAGING_PAGE_SWAPPED,
       PAGING_PTE_PRESENT_MASK,
       PAGING_PTE_SWAPPED_MASK
<1> QED
    BY <1>2, SwapKept, Zenon DEF Decode, Map!InSwap

\* What vmap_pgd_memset writes reads as a page in frame 7919.
LEMMA DecodedPattern == Decode(Pattern) = Map!InRam(7919)
<1>1. PAGING_PAGE_PRESENT(Pattern)
    BY DEF PAGING_PAGE_PRESENT, PAGING_PTE_PRESENT_MASK, Pattern
<1>2. Decode(Pattern) = [where |-> "ram", fpn |-> PAGING_FPN(Pattern)]
    BY <1>1, Zenon DEF Decode
<1>3. 7919 % 8192 = 7919
    BY SMT
<1> QED
    BY <1>2, <1>3, PatternReads, SMT DEF Map!InRam

\* Setting the present bit of a present page changes nothing.
LEMMA PresentAgain ==
    ASSUME NEW v, PAGING_PAGE_PRESENT(v)
    PROVE  SETBIT(v, PAGING_PTE_PRESENT_MASK) = v
    BY Zenon DEF PAGING_PAGE_PRESENT, SETBIT, PAGING_PTE_PRESENT_MASK

\* The tables p with e in the entry of page h.
WithEntry(d, p, h, e) == [p EXCEPT ![PathIn(d, h)[Levels]][Index[h][Levels]] = e]

\* A store into the entry of page h changes the entry of no other page.
LEMMA StoredEntry ==
    ASSUME NEW d, NEW p, TreeOK(d, p), NEW h \in Pages,
           PathIn(d, h)[Levels] \in 1 .. Len(d), NEW e \in Word, NEW g \in Pages
    PROVE  EntryIn(d, WithEntry(d, p, h, e), g) =
               IF g = h THEN e ELSE EntryIn(d, p, g)
<1> DEFINE b == PathIn(d, h)[Levels]
           i == Index[h][Levels]
           q == WithEntry(d, p, h, e)
<1>0. /\ Levels \in Nat \ {0} /\ Levels \in 1 .. Levels /\ i \in Entries
      /\ p \in Seq([Entries -> Word]) /\ Len(p) = Len(d)
      /\ DirOK(d) /\ OneParent(d) /\ Len(d) \in Nat
  <2>1. Levels \in Nat \ {0} /\ Levels \in 1 .. Levels
    BY PageNumbers
  <2>2. DirOK(d) /\ OneParent(d) /\ p \in Seq([Entries -> Word]) /\ Len(p) = Len(d)
    BY Zenon DEF TreeOK
  <2> QED
    BY <2>1, <2>2, IndexIs DEF DirOK
<1>1. \A a \in 1 .. Len(d), j \in Entries :
          q[a][j] = IF a = b /\ j = i THEN e ELSE p[a][j]
  <2>1. b \in 1 .. Len(p) /\ q = [p EXCEPT ![b][i] = e]
    BY <1>0, Zenon DEF WithEntry
  <2> HIDE DEF b, i, q
  <2> QED
    BY <1>0, <2>1, StoredIs
<1> HIDE DEF q
<1>2. CASE PathIn(d, g)[Levels] = 0
  <2>1. g # h
    BY <1>2
  <2> QED
    BY <1>2, <2>1, Zenon DEF EntryIn
<1>3. CASE PathIn(d, g)[Levels] # 0
  <2> DEFINE a == PathIn(d, g)[Levels]
             j == Index[g][Levels]
  <2>1. a \in 1 .. Len(d) /\ j \in Entries
    <3>1. a \in 0 .. Len(d)
        BY <1>0, PathType, Zenon
    <3> QED
        BY <1>0, <1>3, <3>1, IndexIs
  <2>2. EntryIn(d, q, g) = q[a][j] /\ EntryIn(d, p, g) = p[a][j]
    BY <1>3, Zenon DEF EntryIn
  <2>3. a = b /\ j = i <=> g = h
    <3>1. ASSUME a = b, j = i PROVE g = h
      <4>1. \A k \in 1 .. Levels - 1 : Index[g][k] = Index[h][k]
        <5>1. PathIn(d, g)[Levels] = PathIn(d, h)[Levels]
            BY <3>1, Zenon
        <5> HIDE DEF a, j
        <5> QED
            BY <1>0, <1>3, <5>1, PathsMeet
      <4>2. \A k \in 1 .. Levels : Index[g][k] = Index[h][k]
        <5>1. \A k \in 1 .. Levels : k \in 1 .. Levels - 1 \/ k = Levels
            BY <1>0
        <5> QED
            BY <3>1, <4>1, <5>1, Zenon
      <4> QED
        BY <4>2, IndexInjective, Zenon
    <3>2. g = h => a = b /\ j = i
        BY Zenon
    <3> QED
        BY <3>1, <3>2, Zenon
  <2>4. q[a][j] = IF a = b /\ j = i THEN e ELSE p[a][j]
    BY <1>1, <2>1, Zenon
  <2> QED
    BY <2>2, <2>3, <2>4, Zenon DEF q
<1> QED
    BY <1>2, <1>3, Zenon

\* A new table changes the entry of no page.
LEMMA GrownEntry ==
    ASSUME TableInv, NEW t \in Threads, StoreTable(t), NEW g \in Pages
    PROVE  EntryIn(dir', pt', g) = EntryIn(dir, pt, g)
<1> DEFINE a == PathIn(dir, g)[Levels]
           c == PathIn(dir', g)[Levels]
           j == Index[g][Levels]
<1>0. Levels \in 1 .. Levels /\ j \in Entries
    BY PageNumbers, IndexIs
<1>1. /\ a # 0 => c = a
      /\ a = 0 => c = 0 \/ c = Len(dir) + 1
    BY <1>0, StoreTablePaths, Zenon
<1>2. /\ DirOK(dir) /\ pt \in Seq([Entries -> Word]) /\ Len(pt) = Len(dir)
      /\ pt' = Append(pt, EmptyPt) /\ Len(dir) \in Nat
    BY InvParts DEF TreeOK, DirOK, StoreTable
<1>3. EmptyPt \in [Entries -> Word] /\ EmptyPt[j] = {}
    BY <1>0, Zenon DEF EmptyPt, Word
<1>4. a \in 0 .. Len(dir)
    BY <1>0, <1>2, PathType, Zenon
<1> DEFINE S == [Entries -> Word]
<1>5. pt \in Seq(S) /\ EmptyPt \in S
    BY <1>2, <1>3, Zenon
<1> HIDE DEF a, c, j, S
<1>6. /\ pt'[Len(dir) + 1] = EmptyPt
      /\ \A k \in 1 .. Len(dir) : pt'[k] = pt[k]
    BY <1>2, <1>5, AppendIs
<1>7. CASE a # 0
  <2>1. c = a /\ pt'[a] = pt[a]
    BY <1>1, <1>2, <1>4, <1>6, <1>7
  <2> QED
    BY <1>7, <2>1, Zenon DEF EntryIn, a, c, j
<1>8. CASE a = 0
  <2>1. c = 0 \/ pt'[c][j] = {}
    BY <1>1, <1>3, <1>6, <1>8, Zenon
  <2> QED
    BY <1>8, <2>1, Zenon DEF EntryIn, a, c, j
<1> QED
    BY <1>7, <1>8, Zenon

\* The map that PageMap sees, and what the threads have looked up.
MapOf(d, p) == [g \in Pages |-> Decode(EntryIn(d, p, g))]
GotOf(r)    == [t \in Threads |-> Decode(r[t])]

\* The refinement mapping of PageTable, before and after a step.
LEMMA MapIs ==
    /\ [g \in Pages |-> Decode(Entry(g))] = MapOf(dir, pt)
    /\ [g \in Pages |-> Decode(Entry(g))]' = MapOf(dir', pt')
    /\ [t \in Threads |-> Decode(ret[t])] = GotOf(ret)
    /\ [t \in Threads |-> Decode(ret[t])]' = GotOf(ret')
<1>1. [g \in Pages |-> Decode(Entry(g))] = MapOf(dir, pt)
    BY EntryIs, Zenon DEF MapOf
<1>2. [g \in Pages |-> Decode(Entry(g))]' = MapOf(dir', pt')
    BY EntryIs, Zenon DEF MapOf
<1> QED
    BY <1>1, <1>2, Zenon DEF GotOf

\* A step that changes no entry.
LEMMA SameMap ==
    ASSUME \A g \in Pages : EntryIn(dir', pt', g) = EntryIn(dir, pt, g), ret' = ret
    PROVE  UNCHANGED Map!vars
<1>1. MapOf(dir', pt') = MapOf(dir, pt)
    BY Zenon DEF MapOf
<1> QED
    BY <1>1, MapIs, Zenon DEF Map!vars

\* A step that gives thread t the entry v.
LEMMA GotMap ==
    ASSUME dir' = dir, pt' = pt, ret \in [Threads -> Word], NEW t \in Threads, NEW v,
           ret' = [ret EXCEPT ![t] = v]
    PROVE  /\ [g \in Pages |-> Decode(Entry(g))]' = [g \in Pages |-> Decode(Entry(g))]
           /\ [u \in Threads |-> Decode(ret[u])]' =
                  [[u \in Threads |-> Decode(ret[u])] EXCEPT ![t] = Decode(v)]
<1>1. MapOf(dir', pt') = MapOf(dir, pt)
    BY Zenon
<1>2. GotOf(ret') = [GotOf(ret) EXCEPT ![t] = Decode(v)]
  <2>1. \A u \in Threads : ret'[u] = IF u = t THEN v ELSE ret[u]
    BY Zenon
  <2> QED
    BY <2>1, Zenon DEF GotOf
<1> QED
    BY <1>1, <1>2, MapIs, Zenon

\* A caller's store into the entry of its page.
LEMMA SetMap ==
    ASSUME TableInv, NEW t \in Threads, op[t].pc \in {"apply", "present"},
           NEW e \in Word, dir' = dir, ret' = ret,
           pt' = [pt EXCEPT ![op[t].tbl][Slot(op[t])] = e]
    PROVE  Map!Set(op[t].pgn, Decode(e))
<1> DEFINE h == op[t].pgn
<1>1. /\ h \in Pages /\ PathIn(dir, h)[Levels] \in 1 .. Len(dir) /\ TreeOK(dir, pt)
      /\ op[t].tbl = PathIn(dir, h)[Levels] /\ Slot(op[t]) = Index[h][Levels]
    BY Applying, InvParts, Zenon
<1>2. pt' = WithEntry(dir, pt, h, e)
    BY <1>1, Zenon DEF WithEntry
<1> HIDE DEF h
<1>3. \A g \in Pages :
          EntryIn(dir, pt', g) = IF g = h THEN e ELSE EntryIn(dir, pt, g)
  <2>1. \A g \in Pages : EntryIn(dir, WithEntry(dir, pt, h, e), g) =
            IF g = h THEN e ELSE EntryIn(dir, pt, g)
    BY <1>1, StoredEntry
  <2> QED
    BY <1>2, <2>1, Zenon
<1>4. MapOf(dir', pt') = [MapOf(dir, pt) EXCEPT ![h] = Decode(e)]
    BY <1>3, Zenon DEF MapOf
<1>5. GotOf(ret') = GotOf(ret)
    BY Zenon
<1> QED
    BY <1>4, <1>5, MapIs, Zenon DEF Map!Set, h

\* The walk itself changes no entry.
LEMMA WalkMap ==
    ASSUME TableInv, NEW t \in Threads, Threads = {t},
           \/ CheckThere(t) \/ CheckMissing(t) \/ Follow(t) \/ KmallocPointer(t)
           \/ StoreTable(t) \/ StoreFails(t)
    PROVE  UNCHANGED Map!vars
<1>1. CASE CheckThere(t) \/ CheckMissing(t) \/ Follow(t) \/ KmallocPointer(t)
  <2>1. dir' = dir /\ pt' = pt /\ ret' = ret
    BY <1>1, Zenon DEF CheckThere, CheckMissing, Follow, KmallocPointer, tree
  <2> QED
    BY <2>1, SameMap, Zenon
<1>2. CASE StoreTable(t)
  <2>1. ret' = ret
    BY <1>2, Zenon DEF StoreTable
  <2> QED
    BY <1>2, <2>1, GrownEntry, SameMap, Zenon
<1>3. CASE StoreFails(t)
  <2>1. dir' = dir /\ pt' = pt /\ ret' = ret
    BY <1>3, StoreFailsInv, Zenon DEF tree, StoreFails
  <2> QED
    BY <2>1, SameMap, Zenon
<1> QED
    BY <1>1, <1>2, <1>3, Zenon

\* pte_get_entry looks up the entry of its page: zero where a table is missing.
LEMMA GetMap ==
    ASSUME TableInv, NEW t \in Threads, CheckReadOnly(t) \/ GetEntry(t)
    PROVE  Map!Get(t, op[t].pgn) /\ op[t].pgn \in Pages
<1> DEFINE h == op[t].pgn
<1>1. ret \in [Threads -> Word] /\ TreeOK(dir, pt)
    BY InvParts, Zenon
<1>2. /\ op[t].pc # "idle" /\ dir' = dir /\ pt' = pt
      /\ CheckReadOnly(t) => op[t].pc = "check"
      /\ GetEntry(t) => op[t].pc \in {"apply", "present"}
    BY DEF CheckReadOnly, GetEntry, tree
<1>3. h \in Pages
    BY <1>2, Underway, Zenon
<1>4. ret' = [ret EXCEPT ![t] = EntryIn(dir, pt, h)]
  <2>1. CASE CheckReadOnly(t)
    <3>1. /\ op[t].level \in 1 .. Levels /\ DirOK(dir) /\ WalkOK(op[t], dir, pt)
          /\ op[t].tbl = PathIn(dir, h)[op[t].level] /\ op[t].tbl \in 1 .. Len(dir)
          /\ Slot(op[t]) = Index[h][op[t].level]
        BY <1>2, Underway, InvParts, Zenon
    <3>2. op[t].level < Levels
        BY <1>2, <2>1, <3>1, Zenon DEF WalkOK
    <3> DEFINE m == op[t].level
               b == op[t].tbl
    <3>3. dir[b][Index[h][m]] = 0 /\ ret' = [ret EXCEPT ![t] = {}]
        BY <2>1, <3>1, Zenon DEF CheckReadOnly
    <3>4. m \in 1 .. Levels /\ m < Levels /\ b = PathIn(dir, h)[m] /\ b \in 1 .. Len(dir)
        BY <3>1, <3>2, ZenonT(40)
    <3> HIDE DEF h, m, b
    <3>5. PathIn(dir, h)[m] # 0 /\ Len(dir) \in Nat
        BY <3>1, <3>4 DEF DirOK
    <3>6. PathIn(dir, h)[m + 1] = 0
        BY <1>3, <3>1, <3>3, <3>4, <3>5, PathStep, Zenon
    <3>7. m + 1 \in 1 .. Levels /\ Levels \in m + 1 .. Levels
        BY <3>4, PageNumbers
    <3>8. PathIn(dir, h)[Levels] = 0
        BY <1>3, <3>6, <3>7, PathStops, Zenon
    <3> QED
        BY <3>3, <3>8, Zenon DEF EntryIn
  <2>2. CASE GetEntry(t)
    <3>1. ret' = [ret EXCEPT ![t] = pt[op[t].tbl][Slot(op[t])]]
        BY <2>2, Zenon DEF GetEntry, EntryAt
    <3>2. /\ op[t].tbl = PathIn(dir, h)[Levels] /\ Slot(op[t]) = Index[h][Levels]
          /\ op[t].tbl \in 1 .. Len(pt) /\ pt \in Seq([Entries -> Word])
        BY <1>2, <2>2, Applying, ZenonT(40)
    <3>3. PathIn(dir, h)[Levels] # 0
        BY <3>2
    <3> QED
        BY <3>1, <3>2, <3>3, Zenon DEF EntryIn
  <2> QED
    BY <2>1, <2>2
<1>5. MapOf(dir, pt)[h] = Decode(EntryIn(dir, pt, h))
    BY <1>3, Zenon DEF MapOf
<1> HIDE DEF h
<1>6. /\ [g \in Pages |-> Decode(Entry(g))]' = [g \in Pages |-> Decode(Entry(g))]
      /\ [u \in Threads |-> Decode(ret[u])]' =
             [[u \in Threads |-> Decode(ret[u])] EXCEPT
                 ![t] = [g \in Pages |-> Decode(Entry(g))][h]]
  <2>1. Decode(EntryIn(dir, pt, h)) = [g \in Pages |-> Decode(Entry(g))][h]
    BY <1>5, MapIs, Zenon
  <2> QED
    BY <1>1, <1>2, <1>4, <2>1, GotMap, Zenon
<1> QED
    BY <1>3, <1>6, Zenon DEF Map!Get, h

\* The setters set the entry of their page.
LEMMA SettersMap ==
    ASSUME TableInv, NEW t \in Threads, Threads = {t},
           SetFpn(t) \/ SetSwap(t) \/ SetPattern(t) \/ SetPresent(t)
    PROVE  [Map!Next]_(Map!vars)
<1>1. CASE SetFpn(t)
  <2>1. /\ op[t].pc = "apply" /\ op[t].call = "fpn" /\ dir' = dir /\ ret' = ret
        /\ pt' = [pt EXCEPT ![op[t].tbl][Slot(op[t])] = WithFpn(EntryAt(op[t]), op[t].arg)]
    BY <1>1, Zenon DEF SetFpn, SetEntry
  <2>2. op[t].pc \in {"apply", "present"} /\ op[t].pc # "idle"
    BY <2>1
  <2>3. op[t].pgn \in Pages /\ EntryAt(op[t]) \in Word /\ WalkOK(op[t], dir, pt)
    BY <2>2, Applying, Zenon
  <2>4. op[t].arg \in Fpns /\ op[t].arg \in Nat
    BY <2>1, <2>2, <2>3, PageTableAssumption, Zenon DEF WalkOK
  <2>5. WithFpn(EntryAt(op[t]), op[t].arg) \in Word
    BY <2>3, SetterWords, Zenon
  <2>6. Map!Set(op[t].pgn, Decode(WithFpn(EntryAt(op[t]), op[t].arg)))
    BY <2>1, <2>2, <2>5, SetMap, Zenon
  <2>7. Map!Set(op[t].pgn, Map!InRam(op[t].arg))
    BY <2>4, <2>6, DecodedFpn, Zenon
  <2> QED
    BY <2>3, <2>4, <2>7, SMT DEF Map!Next
<1>2. CASE SetSwap(t)
  <2>1. /\ op[t].pc = "apply" /\ op[t].call = "swap" /\ dir' = dir /\ ret' = ret
        /\ pt' = [pt EXCEPT ![op[t].tbl][Slot(op[t])] =
                      WithSwap(EntryAt(op[t]), 0, op[t].arg)]
    BY <1>2, Zenon DEF SetSwap, SetEntry
  <2>2. op[t].pc \in {"apply", "present"} /\ op[t].pc # "idle"
    BY <2>1, Zenon
  <2>3. op[t].pgn \in Pages /\ EntryAt(op[t]) \in Word /\ WalkOK(op[t], dir, pt)
    BY <2>2, Applying, Zenon
  <2>4. op[t].arg \in Swaps
    BY <2>1, <2>2, <2>3, Zenon DEF WalkOK
  <2>5. op[t].arg \in 0 .. 2^21 - 1
    BY <2>4, PageTableAssumption, Zenon
  <2>6. WithSwap(EntryAt(op[t]), 0, op[t].arg) \in Word
    BY <2>3, SetterWords, Zenon
  <2>7. Map!Set(op[t].pgn, Decode(WithSwap(EntryAt(op[t]), 0, op[t].arg)))
    BY <2>1, <2>2, <2>6, SetMap, Zenon
  <2>8. Map!Set(op[t].pgn, Map!InSwap(op[t].arg))
    BY <2>5, <2>7, DecodedSwap, Zenon
  <2> QED
    BY <2>3, <2>4, <2>8, SMT DEF Map!Next
<1>3. CASE SetPattern(t)
  <2>1. /\ op[t].pc = "apply" /\ dir' = dir /\ ret' = ret
        /\ pt' = [pt EXCEPT ![op[t].tbl][Slot(op[t])] = Pattern]
    BY <1>3, Zenon DEF SetPattern, SetEntry
  <2>2. op[t].pc \in {"apply", "present"}
    BY <2>1, Zenon
  <2>3. op[t].pgn \in Pages
    BY <2>2, Applying, Zenon
  <2>4. Map!Set(op[t].pgn, Decode(Pattern))
    BY <2>1, <2>2, WordFacts, SetMap, Zenon
  <2>5. Map!Set(op[t].pgn, Map!InRam(7919))
    BY <2>4, DecodedPattern, SMT
  <2> QED
    BY <2>3, <2>5, SMT DEF Map!Next
<1>4. CASE SetPresent(t)
  <2>1. /\ op[t].pc = "present" /\ dir' = dir /\ ret' = ret /\ op[t].first = op[t].tbl
        /\ pt' = [pt EXCEPT ![op[t].tbl][Slot(op[t])] = SETBIT(@, PAGING_PTE_PRESENT_MASK)]
    BY <1>4, SetPresentInv, Zenon DEF SetPresent
  <2>2. op[t].pc \in {"apply", "present"} /\ op[t].pc # "idle"
    BY <2>1, Zenon
  <2> DEFINE b == op[t].tbl
             i == Slot(op[t])
  <2>3. /\ b \in 1 .. Len(pt) /\ i \in Entries /\ pt \in Seq([Entries -> Word])
        /\ i = Index[op[t].pgn][Levels] /\ WalkOK(op[t], dir, pt)
    BY <2>2, Applying, Zenon
  <2>4. PAGING_PAGE_PRESENT(pt[b][i])
    BY <2>1, <2>2, <2>3, Zenon DEF WalkOK
  <2>5. SETBIT(pt[b][i], PAGING_PTE_PRESENT_MASK) = pt[b][i]
    BY <2>4, PresentAgain, Zenon
  <2>6. pt' = [pt EXCEPT ![b][i] = SETBIT(@, PAGING_PTE_PRESENT_MASK)]
    BY <2>1, ZenonT(40)
  <2> HIDE DEF b, i
  <2>7. pt' = pt
    <3>1. pt' = [pt EXCEPT ![b][i] = pt[b][i]]
        BY <2>5, <2>6, Zenon
    <3> QED
        BY <2>3, <3>1, StoredSame, Zenon
  <2> QED
    BY <2>1, <2>7, SameMap, Zenon
<1> QED
    BY <1>1, <1>2, <1>3, <1>4, ZenonT(40)

\* Every step of the table is one of the map.
LEMMA StepMap ==
    ASSUME NEW cpu, Threads = {cpu}, TableInv, [Next]_vars
    PROVE  [Map!Next]_(Map!vars)
<1>1. ASSUME NEW t \in Threads, Start(t) \/ Step(t)
      PROVE  [Map!Next]_(Map!vars)
  <2>1. Threads = {t}
    OBVIOUS
  <2>2. CASE Start(t)
    <3>1. dir' = dir /\ pt' = pt /\ ret' = [ret EXCEPT ![t] = {}]
        BY <2>2, Zenon DEF Start, tree
    <3>2. ret \in [Threads -> Word]
        BY InvParts, Zenon
    <3>3. Map!Forget(t)
        BY <3>1, <3>2, GotMap, DecodedZero, Zenon DEF Map!Forget
    <3> QED
        BY <3>3, SMT DEF Map!Next
  <2>3. CASE Step(t)
    <3>1. CASE \/ CheckThere(t) \/ CheckMissing(t) \/ Follow(t) \/ KmallocPointer(t)
               \/ StoreTable(t) \/ StoreFails(t)
        BY <2>1, <3>1, WalkMap, Zenon
    <3>2. CASE CheckReadOnly(t) \/ GetEntry(t)
        BY <3>2, GetMap, SMT DEF Map!Next
    <3>3. CASE SetFpn(t) \/ SetSwap(t) \/ SetPattern(t) \/ SetPresent(t)
        BY <2>1, <3>3, SettersMap, Zenon
    <3> QED
        BY <2>3, <3>1, <3>2, <3>3, Zenon DEF Step
  <2> QED
    BY <1>1, <2>2, <2>3
<1>2. CASE UNCHANGED vars
    BY <1>2, SameMap, Zenon DEF vars
<1> QED
    BY <1>1, <1>2 DEF Next

\* The empty tree is the empty map.
LEMMA InitMap == Init => Map!Init
<1> SUFFICES ASSUME Init PROVE Map!Init
    OBVIOUS
<1>1. TreeOK(dir, pt) /\ Len(pt) = 1 /\ pt[1] = EmptyPt /\ ret = [t \in Threads |-> {}]
  <2>1. pt = <<EmptyPt>> /\ ret = [t \in Threads |-> {}]
    BY Zenon DEF Init
  <2>2. TreeOK(dir, pt)
    BY InitInv, InvParts, Zenon
  <2> QED
    BY <2>1, <2>2, Zenon
<1>2. ASSUME NEW g \in Pages PROVE EntryIn(dir, pt, g) = {}
  <2>1. Levels \in 1 .. Levels /\ Index[g][Levels] \in Entries
    BY PageNumbers, IndexIs
  <2>2. DirOK(dir) /\ Len(dir) = Len(pt)
    BY <1>1, Zenon DEF TreeOK
  <2>3. PathIn(dir, g)[Levels] \in 0 .. Len(dir)
    BY <2>1, <2>2, PathType, Zenon
  <2>4. PathIn(dir, g)[Levels] = 0 \/ PathIn(dir, g)[Levels] = 1
    BY <1>1, <2>2, <2>3
  <2>5. EmptyPt[Index[g][Levels]] = {}
    BY <2>1, Zenon DEF EmptyPt
  <2> QED
    BY <1>1, <2>4, <2>5, Zenon DEF EntryIn
<1>3. MapOf(dir, pt) = [g \in Pages |-> Map!NoPage]
    BY <1>2, DecodedZero, Zenon DEF MapOf
<1>4. GotOf(ret) = [t \in Threads |-> Map!NoPage]
    BY <1>1, DecodedZero, Zenon DEF GotOf
<1> QED
    BY <1>3, <1>4, MapIs, Zenon DEF Map!Init

\* The tree that get_pte_ptr grows, with entries coded in bits, is a map from
\* pages to places: for a table with one user, of any depth and fanout, a call
\* that sets the entry of a page changes what is found for no other page, and
\* pte_get_entry finds what was set last (mm64.c:184-393, mm.h:17-94).
THEOREM TableIsMap ==
    ASSUME NEW cpu, Threads = {cpu}
    PROVE  Spec => ImplementsPageMap
<1>1. TableInv /\ [Next]_vars => [Map!Next]_(Map!vars)
    BY StepMap
<1> QED
    BY <1>1, InitMap, TableInvariant, PTL DEF Spec, ImplementsPageMap, Map!Spec
=============================================================================
