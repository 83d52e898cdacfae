----------------------------- MODULE ListLemmas -----------------------------
(***************************************************************************)
(* Facts about the list operations of queue.c and mm-memphy.c, for lists   *)
(* of any length and any contents: adding at the end, taking the head, and *)
(* unlinking the first occurrence of an element; then about the frame      *)
(* lists of a device (module Frames): what taking a frame and returning    *)
(* one do to the two lists as sets, and to a partition of the frames in    *)
(* use among their owners.                                                 *)
(***************************************************************************)
EXTENDS Frames, SequenceTheorems, WellFoundedInduction, TLAPS

\* A nonempty set of numbers has a least element.
LEMMA LeastNumber ==
    ASSUME NEW T \in SUBSET Nat, T # {}
    PROVE  \E x \in T : \A y \in T : x <= y
<1>1. \E x \in T : \A y \in T : ~ (<<y, x>> \in OpToRel(<, Nat))
    BY NatLessThanWellFounded, WFMin, Zenon
<1>2. \A x, y \in Nat : <<y, x>> \in OpToRel(<, Nat) <=> y < x
    BY DEF OpToRel
<1>3. PICK x \in T : \A y \in T : ~ (<<y, x>> \in OpToRel(<, Nat))
    BY <1>1, Zenon
<1>4. \A y \in T : x <= y
  <2> TAKE y \in T
  <2>1. x \in Nat /\ y \in Nat
    OBVIOUS
  <2>2. ~ (y < x)
    BY <1>2, <1>3, <2>1, Zenon
  <2> QED
    BY <2>1, <2>2
<1> QED
    BY <1>3, <1>4, Zenon

\* Where the search for an element stops: at a node that holds it.
LEMMA FirstOccurrence ==
    ASSUME NEW S, NEW s \in Seq(S), NEW e, Occurs(s, e)
    PROVE  FirstAt(s, e) \in 1 .. Len(s) /\ s[FirstAt(s, e)] = e
<1> DEFINE I == {k \in 1 .. Len(s) : s[k] = e}
<1>1. I \in SUBSET Nat /\ I # {}
    BY DEF Occurs
<1>2. \E k \in I : \A l \in I : k <= l
    BY <1>1, LeastNumber, Zenon
<1>3. \E k \in 1 .. Len(s) :
          s[k] = e /\ \A l \in 1 .. Len(s) : s[l] = e => k <= l
    BY <1>2
<1> QED
    BY <1>3 DEF FirstAt

\* Taking out the element at a place: the others keep their order.
LEMMA RemoveAtProperties ==
    ASSUME NEW S, NEW s \in Seq(S), NEW f \in 1 .. Len(s)
    PROVE  /\ RemoveAt(s, f) \in Seq(S)
           /\ Len(RemoveAt(s, f)) = Len(s) - 1
           /\ \A k \in 1 .. Len(s) - 1 :
                  RemoveAt(s, f)[k] = s[IF k < f THEN k ELSE k + 1]
<1> DEFINE a == SubSeq(s, 1, f - 1)
           b == SubSeq(s, f + 1, Len(s))
<1>1. f \in 1 .. Len(s)
    OBVIOUS
<1>2. RemoveAt(s, f) = a \o b
    BY DEF RemoveAt
<1>3. Len(s) \in Nat /\ \A k \in 1 .. Len(s) : s[k] \in S
    BY LenProperties, ElementOfSeq
<1>4. /\ a \in Seq(S) /\ Len(a) = f - 1
      /\ \A k \in 1 .. f - 1 : a[k] = s[k]
  <2>1. \A k \in 1 .. f - 1 : s[k] \in S
    BY <1>1, <1>3
  <2>2. 1 \in Int /\ f - 1 \in Int
    BY <1>1
  <2> QED
    BY <1>1, <1>3, <2>1, <2>2, SubSeqProperties
<1>5. /\ b \in Seq(S) /\ Len(b) = Len(s) - f
      /\ \A k \in 1 .. Len(s) - f : b[k] = s[f + k]
  <2>1. \A k \in f + 1 .. Len(s) : s[k] \in S
    BY <1>1, <1>3
  <2>2. f + 1 \in Int /\ Len(s) \in Int
    BY <1>1, <1>3
  <2>3. /\ b \in Seq(S)
        /\ Len(b) = IF f + 1 <= Len(s) THEN Len(s) - (f + 1) + 1 ELSE 0
        /\ \A k \in 1 .. Len(s) - (f + 1) + 1 : b[k] = s[f + 1 + k - 1]
    BY <2>1, <2>2, SubSeqProperties
  <2> QED
    BY <1>1, <1>3, <2>3
<1> HIDE DEF a, b
<1>6. /\ a \o b \in Seq(S)
      /\ Len(a \o b) = Len(s) - 1
      /\ \A k \in 1 .. Len(s) - 1 : (a \o b)[k] = s[IF k < f THEN k ELSE k + 1]
  <2>1. /\ a \o b \in Seq(S)
        /\ Len(a \o b) = Len(a) + Len(b)
        /\ \A k \in 1 .. Len(a) + Len(b) :
               (a \o b)[k] = IF k <= Len(a) THEN a[k] ELSE b[k - Len(a)]
    BY <1>4, <1>5, ConcatProperties, Zenon
  <2>2. Len(a) + Len(b) = Len(s) - 1
    BY <1>1, <1>3, <1>4, <1>5
  <2>3. ASSUME NEW k \in 1 .. Len(s) - 1
        PROVE  (a \o b)[k] = s[IF k < f THEN k ELSE k + 1]
    <3>1. CASE k < f
        BY <1>1, <1>3, <1>4, <2>1, <2>2, <3>1
    <3>2. CASE ~(k < f)
      <4>1. k - Len(a) \in 1 .. Len(s) - f /\ f + (k - Len(a)) = k + 1
        BY <1>1, <1>3, <1>4, <3>2
      <4>2. (a \o b)[k] = b[k - Len(a)]
        BY <1>1, <1>3, <1>4, <2>1, <2>2, <3>2
      <4> QED
        BY <1>5, <3>2, <4>1, <4>2
    <3> QED
        BY <3>1, <3>2, Zenon
  <2> QED
    BY <2>1, <2>2, <2>3
<1> QED
    BY <1>2, <1>6

\* Adding at the front.
LEMMA PrependProperties ==
    ASSUME NEW S, NEW s \in Seq(S), NEW e \in S
    PROVE  /\ <<e>> \o s \in Seq(S)
           /\ Len(<<e>> \o s) = Len(s) + 1
           /\ (<<e>> \o s)[1] = e
           /\ \A k \in 1 .. Len(s) : (<<e>> \o s)[k + 1] = s[k]
<1>1. <<e>> \in Seq(S) /\ Len(<<e>>) = 1 /\ <<e>>[1] = e /\ Len(s) \in Nat
    OBVIOUS
<1>2. /\ <<e>> \o s \in Seq(S)
      /\ Len(<<e>> \o s) = 1 + Len(s)
      /\ \A k \in 1 .. 1 + Len(s) :
             (<<e>> \o s)[k] = IF k <= 1 THEN <<e>>[k] ELSE s[k - 1]
    BY <1>1, ConcatProperties
<1> QED
    BY <1>1, <1>2

(***************************************************************************)
(* Unlinking an element that occurs in a list, as purgequeue and           *)
(* MEMPHY_put_freefp do: the list is one shorter, and keeps the others in  *)
(* their order.                                                            *)
(***************************************************************************)
LEMMA RemoveFirstFound ==
    ASSUME NEW S, NEW s \in Seq(S), NEW e, Occurs(s, e)
    PROVE  \E f \in 1 .. Len(s) :
               /\ s[f] = e
               /\ RemoveFirst(s, e) \in Seq(S)
               /\ Len(RemoveFirst(s, e)) = Len(s) - 1
               /\ \A k \in 1 .. Len(s) - 1 :
                      RemoveFirst(s, e)[k] = s[IF k < f THEN k ELSE k + 1]
<1> DEFINE f == FirstAt(s, e)
<1>1. f \in 1 .. Len(s) /\ s[f] = e
    BY FirstOccurrence
<1>2. RemoveFirst(s, e) = RemoveAt(s, f)
    BY DEF RemoveFirst
<1> HIDE DEF f
<1> QED
    BY <1>1, <1>2, RemoveAtProperties, Zenon

\* Unlinking keeps the type of a list, whether or not the element occurs.
LEMMA RemoveFirstType ==
    ASSUME NEW S, NEW s \in Seq(S), NEW e
    PROVE  RemoveFirst(s, e) \in Seq(S)
<1>1. CASE Occurs(s, e)
    BY <1>1, RemoveFirstFound
<1>2. CASE ~Occurs(s, e)
    BY <1>2 DEF RemoveFirst
<1> QED
    BY <1>1, <1>2
-----------------------------------------------------------------------------
(* The frame lists of a device.                                            *)

Device(frames) == [free : Seq(frames), used : Seq(frames)]

\* A new device: MEMPHY_format puts every frame on the free list.
LEMMA FormatPartition ==
    ASSUME NEW n \in Nat
    PROVE  LET m == MEMPHY_format(n) IN
           /\ m \in Device(0 .. n - 1)
           /\ Partition(m, 0 .. n - 1)
           /\ ListSet(m.used) = {}
<1> DEFINE f == [k \in 1 .. n |-> k - 1]
<1>1. f \in Seq(0 .. n - 1) /\ Len(f) = n /\ DOMAIN f = 1 .. n
  <2>1. f \in [1 .. n -> 0 .. n - 1]
    OBVIOUS
  <2> QED
    BY <2>1, IsASeq
<1>2. << >> \in Seq(0 .. n - 1) /\ Len(<< >>) = 0
    OBVIOUS
<1>3. ListSet(f) = 0 .. n - 1
  <2>1. ASSUME NEW x \in 0 .. n - 1 PROVE x \in ListSet(f)
    <3>1. x + 1 \in 1 .. n /\ f[x + 1] = x
        OBVIOUS
    <3> QED
        BY <1>1, <3>1 DEF ListSet
  <2> QED
    BY <1>1, <2>1 DEF ListSet
<1>4. ListSet(<< >>) = {} /\ NoRepeat(<< >>)
    BY <1>2 DEF ListSet, NoRepeat
<1>5. NoRepeat(f)
    BY <1>1 DEF NoRepeat
<1>6. MEMPHY_format(n) = [free |-> f, used |-> << >>]
    BY DEF MEMPHY_format
<1> HIDE DEF f
<1> QED
    BY <1>1, <1>2, <1>3, <1>4, <1>5, <1>6 DEF Partition, Device

\* The head of a list that has one, and the rest.
LEMMA ListSetOfTail ==
    ASSUME NEW S, NEW s \in Seq(S), s # << >>, NoRepeat(s)
    PROVE  /\ Head(s) \in S /\ Tail(s) \in Seq(S)
           /\ Head(s) \in ListSet(s)
           /\ NoRepeat(Tail(s))
           /\ ListSet(Tail(s)) = ListSet(s) \ {Head(s)}
<1>1. /\ Head(s) = s[1] /\ Tail(s) \in Seq(S)
      /\ Len(s) \in Nat \ {0} /\ Len(Tail(s)) = Len(s) - 1
      /\ \A k \in 1 .. Len(s) - 1 : Tail(s)[k] = s[k + 1]
    BY HeadTailProperties, EmptySeq, LenProperties
<1>2. NoRepeat(Tail(s))
  <2> SUFFICES ASSUME NEW k \in 1 .. Len(s) - 1, NEW l \in 1 .. Len(s) - 1,
                      Tail(s)[k] = Tail(s)[l]
               PROVE  k = l
    BY <1>1 DEF NoRepeat
  <2>1. s[k + 1] = s[l + 1] /\ k + 1 \in 1 .. Len(s) /\ l + 1 \in 1 .. Len(s)
    BY <1>1
  <2>2. k + 1 = l + 1
    BY <2>1 DEF NoRepeat
  <2> QED
    BY <2>2
<1>3. ASSUME NEW x \in ListSet(s), x # Head(s)
      PROVE  x \in ListSet(Tail(s))
  <2>1. PICK k \in 1 .. Len(s) : s[k] = x
    BY DEF ListSet
  <2>2. k - 1 \in 1 .. Len(s) - 1 /\ Tail(s)[k - 1] = x
    BY <1>1, <1>3, <2>1
  <2> QED
    BY <1>1, <2>2, Zenon DEF ListSet
<1>4. ASSUME NEW x \in ListSet(Tail(s))
      PROVE  x \in ListSet(s) /\ x # Head(s)
  <2>1. PICK k \in 1 .. Len(s) - 1 : Tail(s)[k] = x
    BY <1>1 DEF ListSet
  <2>2. k + 1 \in 1 .. Len(s) /\ s[k + 1] = x /\ 1 \in 1 .. Len(s) /\ k + 1 # 1
    BY <1>1, <2>1
  <2> QED
    BY <1>1, <2>2 DEF ListSet, NoRepeat
<1>5. Head(s) \in S /\ Head(s) \in ListSet(s)
    BY <1>1, ElementOfSeq DEF ListSet
<1> QED
    BY <1>1, <1>2, <1>3, <1>4, <1>5

\* Pushing an element that is not on the list.
LEMMA ListSetOfPush ==
    ASSUME NEW S, NEW s \in Seq(S), NEW e \in S \ ListSet(s), NoRepeat(s)
    PROVE  /\ <<e>> \o s \in Seq(S)
           /\ NoRepeat(<<e>> \o s)
           /\ ListSet(<<e>> \o s) = ListSet(s) \cup {e}
<1> DEFINE p == <<e>> \o s
<1>1. /\ p \in Seq(S) /\ Len(s) \in Nat /\ Len(p) = Len(s) + 1
      /\ p[1] = e /\ \A k \in 1 .. Len(s) : p[k + 1] = s[k]
    BY PrependProperties, LenProperties
<1> HIDE DEF p
<1>2. \A k \in 2 .. Len(p) : k - 1 \in 1 .. Len(s) /\ p[k] = s[k - 1]
    BY <1>1
<1>3. NoRepeat(p)
  <2> SUFFICES ASSUME NEW k \in 1 .. Len(p), NEW l \in 1 .. Len(p), p[k] = p[l]
               PROVE  k = l
    BY DEF NoRepeat
  <2>1. CASE k = 1 \/ l = 1
    BY <1>1, <1>2, <2>1 DEF ListSet
  <2>2. CASE k # 1 /\ l # 1
    <3>1. k \in 2 .. Len(p) /\ l \in 2 .. Len(p)
        BY <1>1, <2>2
    <3>2. s[k - 1] = s[l - 1] /\ k - 1 \in 1 .. Len(s) /\ l - 1 \in 1 .. Len(s)
        BY <1>2, <3>1
    <3>3. k - 1 = l - 1
        BY <3>2 DEF NoRepeat
    <3> QED
        BY <3>1, <3>3
  <2> QED
    BY <2>1, <2>2
<1>4. ASSUME NEW x \in ListSet(s) \cup {e} PROVE x \in ListSet(p)
  <2>1. CASE x = e
    BY <1>1, <2>1 DEF ListSet
  <2>2. CASE x \in ListSet(s)
    <3>1. PICK k \in 1 .. Len(s) : s[k] = x
        BY <2>2 DEF ListSet
    <3>2. k + 1 \in 1 .. Len(p) /\ p[k + 1] = x
        BY <1>1, <3>1
    <3> QED
        BY <3>2 DEF ListSet
  <2> QED
    BY <2>1, <2>2
<1>5. ASSUME NEW x \in ListSet(p) PROVE x \in ListSet(s) \cup {e}
  <2>1. PICK k \in 1 .. Len(p) : p[k] = x
    BY DEF ListSet
  <2>2. CASE k = 1
    BY <1>1, <2>1, <2>2
  <2>3. CASE k # 1
    <3>1. k \in 2 .. Len(p)
        BY <1>1, <2>3
    <3> QED
        BY <1>2, <2>1, <3>1 DEF ListSet
  <2> QED
    BY <2>2, <2>3
<1> QED
    BY <1>1, <1>3, <1>4, <1>5 DEF p

\* Unlinking an element of the list.
LEMMA ListSetOfRemove ==
    ASSUME NEW S, NEW s \in Seq(S), NEW e \in ListSet(s), NoRepeat(s)
    PROVE  /\ RemoveFirst(s, e) \in Seq(S)
           /\ NoRepeat(RemoveFirst(s, e))
           /\ ListSet(RemoveFirst(s, e)) = ListSet(s) \ {e}
<1> DEFINE r == RemoveFirst(s, e)
<1>1. Occurs(s, e)
    BY DEF ListSet, Occurs
<1>2. PICK f \in 1 .. Len(s) :
          /\ s[f] = e
          /\ r \in Seq(S)
          /\ Len(r) = Len(s) - 1
          /\ \A k \in 1 .. Len(s) - 1 : r[k] = s[IF k < f THEN k ELSE k + 1]
    BY <1>1, RemoveFirstFound
<1> HIDE DEF r
<1> DEFINE g(k) == IF k < f THEN k ELSE k + 1
<1>3. Len(s) \in Nat
    BY LenProperties
<1>4. \A k \in 1 .. Len(r) : g(k) \in 1 .. Len(s) /\ g(k) # f /\ r[k] = s[g(k)]
    BY <1>2, <1>3
<1>5. NoRepeat(r)
  <2> SUFFICES ASSUME NEW k \in 1 .. Len(r), NEW l \in 1 .. Len(r), r[k] = r[l]
               PROVE  k = l
    BY DEF NoRepeat
  <2>1. g(k) = g(l)
    BY <1>4 DEF NoRepeat
  <2> QED
    BY <1>2, <1>3, <2>1
<1>6. ASSUME NEW x \in ListSet(r) PROVE x \in ListSet(s) /\ x # e
    BY <1>2, <1>4 DEF ListSet, NoRepeat
<1>7. ASSUME NEW x \in ListSet(s), x # e PROVE x \in ListSet(r)
  <2>1. PICK k \in 1 .. Len(s) : s[k] = x
    BY DEF ListSet
  <2>2. k # f
    BY <1>2, <1>7, <2>1
  <2>3. CASE k < f
    <3>1. k \in 1 .. Len(r) /\ r[k] = x
        BY <1>2, <1>3, <2>1, <2>3
    <3> QED
        BY <3>1 DEF ListSet
  <2>4. CASE k > f
    <3>1. k - 1 \in 1 .. Len(r) /\ r[k - 1] = x
        BY <1>2, <1>3, <2>1, <2>4
    <3> QED
        BY <3>1 DEF ListSet
  <2> QED
    BY <2>2, <2>3, <2>4
<1> QED
    BY <1>2, <1>5, <1>6, <1>7 DEF r

\* The critical section of MEMPHY_get_freefp.
LEMMA PoppedPartition ==
    ASSUME NEW S, NEW m \in Device(S), Partition(m, S), HasFree(m)
    PROVE  /\ Popped(m) \in Device(S)
           /\ Partition(Popped(m), S)
           /\ NextFree(m) \in S \ ListSet(m.used)
           /\ ListSet(Popped(m).used) = ListSet(m.used) \cup {NextFree(m)}
<1> DEFINE h == Head(m.free)
<1>1. m.free \in Seq(S) /\ m.used \in Seq(S) /\ m.free # << >>
    BY DEF Device, HasFree
<1>2. /\ NoRepeat(m.free) /\ NoRepeat(m.used)
      /\ ListSet(m.free) \cap ListSet(m.used) = {}
      /\ ListSet(m.free) \cup ListSet(m.used) = S
    BY DEF Partition
<1>3. /\ h \in S /\ h \in ListSet(m.free)
      /\ Tail(m.free) \in Seq(S) /\ NoRepeat(Tail(m.free))
      /\ ListSet(Tail(m.free)) = ListSet(m.free) \ {h}
    BY <1>1, <1>2, ListSetOfTail
<1>4. h \in S \ ListSet(m.used)
    BY <1>2, <1>3
<1>5. /\ <<h>> \o m.used \in Seq(S) /\ NoRepeat(<<h>> \o m.used)
      /\ ListSet(<<h>> \o m.used) = ListSet(m.used) \cup {h}
    BY <1>1, <1>2, <1>4, ListSetOfPush
<1>6. Popped(m) = [free |-> Tail(m.free), used |-> <<h>> \o m.used]
    BY DEF Popped
<1>7. NextFree(m) = h
    BY DEF NextFree
<1> HIDE DEF h
<1>8. Popped(m).free = Tail(m.free) /\ Popped(m).used = <<h>> \o m.used
    BY <1>6
<1>9. Popped(m) \in Device(S)
    BY <1>3, <1>5, <1>6 DEF Device
<1>10. Partition(Popped(m), S)
    BY <1>2, <1>3, <1>5, <1>8 DEF Partition
<1> QED
    BY <1>4, <1>5, <1>7, <1>8, <1>9, <1>10

\* MEMPHY_put_freefp for a frame that is in use.
LEMMA PutPartition ==
    ASSUME NEW S, NEW m \in Device(S), Partition(m, S), NEW e \in ListSet(m.used)
    PROVE  /\ MEMPHY_put_freefp(m, e) \in Device(S)
           /\ Partition(MEMPHY_put_freefp(m, e), S)
           /\ ListSet(MEMPHY_put_freefp(m, e).used) = ListSet(m.used) \ {e}
<1>1. m.free \in Seq(S) /\ m.used \in Seq(S)
    BY DEF Device
<1>2. /\ NoRepeat(m.free) /\ NoRepeat(m.used)
      /\ ListSet(m.free) \cap ListSet(m.used) = {}
      /\ ListSet(m.free) \cup ListSet(m.used) = S
    BY DEF Partition
<1>3. /\ RemoveFirst(m.used, e) \in Seq(S) /\ NoRepeat(RemoveFirst(m.used, e))
      /\ ListSet(RemoveFirst(m.used, e)) = ListSet(m.used) \ {e}
    BY <1>1, <1>2, ListSetOfRemove
<1>4. e \in S \ ListSet(m.free)
    BY <1>2
<1>5. /\ <<e>> \o m.free \in Seq(S) /\ NoRepeat(<<e>> \o m.free)
      /\ ListSet(<<e>> \o m.free) = ListSet(m.free) \cup {e}
    BY <1>1, <1>2, <1>4, ListSetOfPush
<1>6. IsUsed(m, e)
    BY DEF IsUsed, Occurs, ListSet
<1>7. MEMPHY_put_freefp(m, e) =
          [free |-> <<e>> \o m.free, used |-> RemoveFirst(m.used, e)]
    BY <1>6 DEF MEMPHY_put_freefp
<1> QED
    BY <1>2, <1>3, <1>4, <1>5, <1>7 DEF Partition, Device
-----------------------------------------------------------------------------
(***************************************************************************)
(* Device m has the frames S, and own[p] are those that p holds: nobody    *)
(* holds another's, and the used list is what is held.                     *)
(***************************************************************************)
Owners(m, S, P, own) ==
    /\ m \in Device(S) /\ Partition(m, S)
    /\ \A p, q \in P : p # q => own[p] \cap own[q] = {}
    /\ ListSet(m.used) = UNION {own[p] : p \in P}

\* A frame that p takes was nobody's.
LEMMA OwnersPop ==
    ASSUME NEW S, NEW P, NEW m, NEW own, NEW new, Owners(m, S, P, own), HasFree(m),
           NEW p \in P, new[p] = own[p] \cup {NextFree(m)},
           \A q \in P \ {p} : new[q] = own[q]
    PROVE  /\ NextFree(m) \in S /\ \A q \in P : NextFree(m) \notin own[q]
           /\ Owners(Popped(m), S, P, new)
<1> DEFINE h == NextFree(m)
<1>1. /\ Popped(m) \in Device(S) /\ Partition(Popped(m), S)
      /\ h \in S \ ListSet(m.used)
      /\ ListSet(Popped(m).used) = ListSet(m.used) \cup {h}
    BY PoppedPartition DEF Owners
<1> HIDE DEF h
<1>2. \A q \in P : h \notin own[q]
    BY <1>1 DEF Owners
<1>3. \A q \in P : new[q] = IF q = p THEN own[q] \cup {h} ELSE own[q]
    BY DEF h
<1>4. \A q, r \in P : q # r => new[q] \cap new[r] = {}
    BY <1>2, <1>3, Zenon DEF Owners
<1>5. UNION {new[q] : q \in P} = (UNION {own[q] : q \in P}) \cup {h}
    BY <1>3, Zenon
<1> QED
    BY <1>1, <1>2, <1>4, <1>5 DEF Owners, h

\* A frame that p returns is nobody's any more.
LEMMA OwnersPut ==
    ASSUME NEW S, NEW P, NEW m, NEW own, NEW new, Owners(m, S, P, own),
           NEW p \in P, NEW e \in own[p], new[p] = own[p] \ {e},
           \A q \in P \ {p} : new[q] = own[q]
    PROVE  Owners(MEMPHY_put_freefp(m, e), S, P, new)
<1>1. e \in ListSet(m.used)
    BY DEF Owners
<1>2. /\ MEMPHY_put_freefp(m, e) \in Device(S)
      /\ Partition(MEMPHY_put_freefp(m, e), S)
      /\ ListSet(MEMPHY_put_freefp(m, e).used) = ListSet(m.used) \ {e}
    BY <1>1, PutPartition DEF Owners
<1>3. \A q \in P : new[q] = IF q = p THEN own[q] \ {e} ELSE own[q]
    OBVIOUS
<1>4. \A q \in P : q # p => e \notin own[q]
    BY DEF Owners
<1>5. \A q, r \in P : q # r => new[q] \cap new[r] = {}
    BY <1>3 DEF Owners
<1>6. UNION {new[q] : q \in P} = (UNION {own[q] : q \in P}) \ {e}
    BY <1>3, <1>4
<1> QED
    BY <1>2, <1>5, <1>6 DEF Owners

\* What is held stays the same.
LEMMA OwnersSame ==
    ASSUME NEW S, NEW P, NEW m, NEW own, NEW new, Owners(m, S, P, own),
           \A q \in P : new[q] = own[q]
    PROVE  Owners(m, S, P, new)
<1>1. UNION {new[q] : q \in P} = UNION {own[q] : q \in P}
    OBVIOUS
<1> QED
    BY <1>1 DEF Owners
-----------------------------------------------------------------------------
(* The ends of a list.                                                     *)

\* A list without its last element.
LEMMA ListSetOfFront ==
    ASSUME NEW S, NEW s \in Seq(S), s # << >>, NoRepeat(s)
    PROVE  /\ Last(s) \in S /\ Front(s) \in Seq(S)
           /\ Last(s) \in ListSet(s)
           /\ NoRepeat(Front(s))
           /\ ListSet(Front(s)) = ListSet(s) \ {Last(s)}
<1> DEFINE n == Len(s)
           f == Front(s)
<1>1. n \in Nat /\ n >= 1 /\ \A k \in 1 .. n : s[k] \in S
    OBVIOUS
<1>2. Last(s) = s[n]
    BY DEF Last
<1>3. f \in Seq(S) /\ Len(f) = n - 1 /\ \A k \in 1 .. n - 1 : f[k] = s[k]
  <2>1. n - 1 \in Int /\ \A k \in 1 .. n - 1 : s[k] \in S
    BY <1>1
  <2>2. /\ SubSeq(s, 1, n - 1) \in Seq(S)
        /\ Len(SubSeq(s, 1, n - 1)) = IF 1 <= n - 1 THEN n - 1 - 1 + 1 ELSE 0
        /\ \A k \in 1 .. n - 1 - 1 + 1 : SubSeq(s, 1, n - 1)[k] = s[1 + k - 1]
    BY <2>1, SubSeqProperties
  <2>3. f = SubSeq(s, 1, n - 1)
    BY DEF Front
  <2> HIDE DEF f, n
  <2>4. /\ f \in Seq(S) /\ Len(f) = IF 1 <= n - 1 THEN n - 1 - 1 + 1 ELSE 0
        /\ \A k \in 1 .. n - 1 - 1 + 1 : f[k] = s[1 + k - 1]
    BY <2>2, <2>3, Zenon
  <2>5. /\ (IF 1 <= n - 1 THEN n - 1 - 1 + 1 ELSE 0) = n - 1
        /\ n - 1 - 1 + 1 = n - 1 /\ \A k \in 1 .. n - 1 : 1 + k - 1 = k
    BY <1>1
  <2> QED
    BY <2>4, <2>5
<1> HIDE DEF f
<1>4. \A k, l \in 1 .. n : s[k] = s[l] => k = l
    BY DEF NoRepeat
<1>5. NoRepeat(f)
    BY <1>1, <1>3, <1>4 DEF NoRepeat
<1>6. ListSet(f) = {s[k] : k \in 1 .. n - 1}
    BY <1>3 DEF ListSet
<1>7. ListSet(s) = {s[k] : k \in 1 .. n}
    BY DEF ListSet
<1>8. \A k \in 1 .. n : k \in 1 .. n - 1 <=> s[k] # s[n]
    BY <1>1, <1>4
<1>9. ListSet(f) = ListSet(s) \ {s[n]}
    BY <1>1, <1>6, <1>7, <1>8
<1> QED
    BY <1>1, <1>2, <1>3, <1>5, <1>7, <1>9 DEF f

\* A list with one more element.
LEMMA ListSetOfAppend ==
    ASSUME NEW S, NEW s \in Seq(S), NEW e \in S \ ListSet(s), NoRepeat(s)
    PROVE  /\ Append(s, e) \in Seq(S) /\ Len(Append(s, e)) = Len(s) + 1
           /\ NoRepeat(Append(s, e))
           /\ ListSet(Append(s, e)) = ListSet(s) \cup {e}
<1> DEFINE n == Len(s)
           a == Append(s, e)
<1>1. n \in Nat /\ a \in Seq(S) /\ Len(a) = n + 1
    OBVIOUS
<1>2. a[n + 1] = e /\ \A k \in 1 .. n : a[k] = s[k]
    OBVIOUS
<1> HIDE DEF a
<1>3. \A k, l \in 1 .. n : s[k] = s[l] => k = l
    BY DEF NoRepeat
<1>4. \A k \in 1 .. n : s[k] # e
    BY DEF ListSet
<1>5. \A k \in 1 .. n + 1 : k \in 1 .. n \/ k = n + 1
    BY <1>1
<1>6. \A k, l \in 1 .. n + 1 : a[k] = a[l] => k = l
    BY <1>2, <1>3, <1>4, <1>5
<1>7. ListSet(a) = {a[k] : k \in 1 .. n + 1}
    BY <1>1 DEF ListSet
<1>8. n + 1 \in 1 .. n + 1 /\ \A k \in 1 .. n : k \in 1 .. n + 1
    BY <1>1
<1>9. {a[k] : k \in 1 .. n + 1} = {s[k] : k \in 1 .. n} \cup {e}
    BY <1>2, <1>5, <1>8
<1> QED
    BY <1>1, <1>6, <1>7, <1>9 DEF NoRepeat, ListSet, a

\* The n numbers below v, from the highest down, and what comes of putting
\* them in front of a list that has none of them.
CountDown(v, n) == [k \in 1 .. n |-> v - k]

\* A list with the n numbers below v put before it.
LEMMA ListSetOfCount ==
    ASSUME NEW S \in SUBSET Nat, NEW s \in Seq(S), NoRepeat(s),
           NEW v \in Nat, NEW n \in Nat, n <= v,
           v - n .. v - 1 \subseteq S \ ListSet(s)
    PROVE  /\ CountDown(v, n) \o s \in Seq(S)
           /\ NoRepeat(CountDown(v, n) \o s)
           /\ ListSet(CountDown(v, n) \o s) = ListSet(s) \cup (v - n .. v - 1)
<1> DEFINE c == CountDown(v, n)
           l == c \o s
           m == Len(s)
<1>1. \A k \in 1 .. n : v - k \in v - n .. v - 1
    OBVIOUS
<1>2. c \in [1 .. n -> S]
    BY <1>1 DEF CountDown
<1>3. c \in Seq(S) /\ Len(c) = n /\ m \in Nat
    BY <1>2
<1>4. \A k \in 1 .. n : c[k] = v - k
    BY DEF CountDown
<1> HIDE DEF c
<1>5. l \in Seq(S) /\ Len(l) = n + m
    BY <1>3
<1>6. \A k \in 1 .. n + m : l[k] = IF k <= n THEN c[k] ELSE s[k - n]
    BY <1>3
<1> HIDE DEF l
<1>7. \A k \in 1 .. n + m : \/ k \in 1 .. n /\ l[k] = v - k
                            \/ k - n \in 1 .. m /\ l[k] = s[k - n]
    BY <1>3, <1>4, <1>6
<1>8. \A k \in 1 .. m : s[k] \in ListSet(s) /\ s[k] \in S
    BY DEF ListSet
<1>9. \A k \in 1 .. n : v - k \notin ListSet(s)
    BY <1>1
<1>10. \A j, k \in 1 .. m : s[j] = s[k] => j = k
    BY DEF NoRepeat
<1>11. ASSUME NEW j \in 1 .. n + m, NEW k \in 1 .. n + m, l[j] = l[k] PROVE j = k
  <2>1. CASE j \in 1 .. n /\ k \in 1 .. n
    BY <1>4, <1>6, <1>11, <2>1
  <2>2. CASE j - n \in 1 .. m /\ k - n \in 1 .. m /\ l[j] = s[j - n] /\ l[k] = s[k - n]
    <3>1. j - n = k - n
        BY <1>10, <1>11, <2>2, Zenon
    <3> QED
        BY <1>3, <3>1
  <2> QED
    BY <1>7, <1>8, <1>9, <1>11, <2>1, <2>2
<1>12. ListSet(l) = {l[k] : k \in 1 .. n + m}
    BY <1>5 DEF ListSet
<1>13. \A x \in ListSet(l) : x \in ListSet(s) \cup (v - n .. v - 1)
    BY <1>1, <1>7, <1>8, <1>12
<1>14. ASSUME NEW x \in ListSet(s) PROVE x \in ListSet(l)
  <2>1. PICK k \in 1 .. m : x = s[k]
    BY DEF ListSet
  <2>2. k + n \in 1 .. n + m /\ ~ (k + n <= n) /\ (k + n) - n = k
    BY <1>3
  <2>3. l[k + n] = x
    BY <1>6, <2>1, <2>2
  <2> QED
    BY <1>12, <2>2, <2>3
<1>15. ASSUME NEW x \in v - n .. v - 1 PROVE x \in ListSet(l)
  <2>1. v - x \in 1 .. n /\ v - x \in 1 .. n + m /\ v - (v - x) = x /\ v - x <= n
    BY <1>3
  <2>2. l[v - x] = x
    BY <1>4, <1>6, <2>1
  <2> QED
    BY <1>12, <2>1, <2>2
<1>16. ListSet(l) = ListSet(s) \cup (v - n .. v - 1)
    BY <1>13, <1>14, <1>15
<1>17. NoRepeat(l)
    BY <1>5, <1>11 DEF NoRepeat
<1> QED
    BY <1>5, <1>16, <1>17 DEF l, c
=============================================================================
