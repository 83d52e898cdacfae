---------------------------- MODULE ProcessProofs ----------------------------
(***************************************************************************)
(* The memory of one process, for any page size, any number of ids, any    *)
(* sizes and any bound of the area.                                        *)
(*                                                                         *)
(* First the allocator (Regions): it keeps its regions disjoint and        *)
(* accounts for every address.  The two properties are inductive only      *)
(* together: a region that is cut from a free one is new to the live ones  *)
(* because live and free ones are disjoint, and a region above the break   *)
(* is new to both because every address they hold lies below the break.    *)
(*                                                                         *)
(* Then the programs (Process): their instructions are steps of the        *)
(* allocator, so that the same holds for them; registers hold the          *)
(* addresses of regions; and memory is what Arrays promises.               *)
(***************************************************************************)
EXTENDS Process, ListLemmas

\* Address a lies in a region of the list; in a region of the table.
FreeAt(list, a) == \E k \in 1 .. Len(list) : a \in Bytes(list[k])
LiveAt(table, a) == \E r \in Rgids : a \in Bytes(table[r])

ListDisjoint(list) ==
    \A k, l \in 1 .. Len(list) :
        k # l => Bytes(list[k]) \cap Bytes(list[l]) = {}

IInv == TypeOK /\ RegionsDisjoint /\ AddressesAccounted

\* Rounding up to whole pages, PAGING64_PAGE_ALIGNSZ.
LEMMA AlignedUp ==
    ASSUME NEW sz \in Nat
    PROVE  Aligned(sz) \in Nat /\ Aligned(sz) >= sz
<1> DEFINE n == sz + PageSize - 1
           q == n \div PageSize
           m == n % PageSize
<1>1. PageSize \in Nat /\ PageSize > 0 /\ n \in Nat
    BY RegionsAssumption
<1>2. q \in Nat /\ m \in 0 .. PageSize - 1 /\ n = PageSize * q + m
    BY <1>1
<1>3. Aligned(sz) = q * PageSize
    BY DEF Aligned
<1>4. q * PageSize \in Nat /\ q * PageSize = n - m
    BY <1>1, <1>2
<1> QED
    BY <1>1, <1>2, <1>3, <1>4

\* The addresses of a region.
LEMMA BytesOf ==
    ASSUME NEW s \in Nat, NEW e \in Nat
    PROVE  /\ Region(s, e) \in RegionSet
           /\ \A a : a \in Bytes(Region(s, e)) <=> a \in Int /\ s <= a /\ a < e
    BY DEF Region, RegionSet, Bytes

\* enlist_vm_freerg_list for a region that shares nothing with the list.
LEMMA Enlisted ==
    ASSUME NEW list \in Seq(RegionSet), NEW rg \in RegionSet,
           ListDisjoint(list), \A a \in Bytes(rg) : ~FreeAt(list, a)
    PROVE  LET new == enlist_vm_freerg_list(list, rg) IN
           /\ new \in Seq(RegionSet)
           /\ ListDisjoint(new)
           /\ \A a : FreeAt(new, a) <=> FreeAt(list, a) \/ a \in Bytes(rg)
<1> DEFINE new == enlist_vm_freerg_list(list, rg)
<1>1. CASE rg.rg_start >= rg.rg_end
  <2>1. Bytes(rg) = {}
    BY <1>1 DEF Bytes, RegionSet
  <2> QED
    BY <1>1, <2>1 DEF enlist_vm_freerg_list
<1>2. CASE ~(rg.rg_start >= rg.rg_end)
  <2>1. new = <<rg>> \o list
    BY <1>2 DEF enlist_vm_freerg_list
  <2>2. /\ new \in Seq(RegionSet) /\ Len(new) = Len(list) + 1 /\ Len(list) \in Nat
        /\ new[1] = rg /\ \A k \in 1 .. Len(list) : new[k + 1] = list[k]
    BY <2>1, PrependProperties, LenProperties
  <2> HIDE DEF new
  <2>3. \A k \in 2 .. Len(new) : k - 1 \in 1 .. Len(list) /\ new[k] = list[k - 1]
    BY <2>2
  <2>4. ASSUME NEW a PROVE FreeAt(new, a) <=> FreeAt(list, a) \/ a \in Bytes(rg)
    <3>1. ASSUME a \in Bytes(rg) PROVE FreeAt(new, a)
        BY <2>2, <3>1 DEF FreeAt
    <3>2. ASSUME FreeAt(list, a) PROVE FreeAt(new, a)
      <4>1. PICK k \in 1 .. Len(list) : a \in Bytes(list[k])
        BY <3>2 DEF FreeAt
      <4>2. k + 1 \in 1 .. Len(new) /\ new[k + 1] = list[k]
        BY <2>2
      <4> QED
        BY <4>1, <4>2 DEF FreeAt
    <3>3. ASSUME FreeAt(new, a) PROVE FreeAt(list, a) \/ a \in Bytes(rg)
      <4>1. PICK k \in 1 .. Len(new) : a \in Bytes(new[k])
        BY <3>3 DEF FreeAt
      <4>2. k = 1 \/ k \in 2 .. Len(new)
        BY <2>2
      <4> QED
        BY <2>2, <2>3, <4>1, <4>2 DEF FreeAt
    <3> QED
        BY <3>1, <3>2, <3>3
  <2>5. ListDisjoint(new)
    <3> SUFFICES ASSUME NEW k \in 1 .. Len(new), NEW l \in 1 .. Len(new), k # l,
                        NEW a, a \in Bytes(new[k]), a \in Bytes(new[l])
                 PROVE  FALSE
        BY Zenon DEF ListDisjoint
    <3>1. k \in 2 .. Len(new) \/ l \in 2 .. Len(new)
        BY <2>2
    <3>2. CASE k = 1 \/ l = 1
        BY <2>2, <2>3, <3>1, <3>2, Zenon DEF FreeAt
    <3>3. CASE k # 1 /\ l # 1
      <4>1. k \in 2 .. Len(new) /\ l \in 2 .. Len(new) /\ k - 1 # l - 1
        BY <2>2, <3>3
      <4>2. /\ k - 1 \in 1 .. Len(list) /\ l - 1 \in 1 .. Len(list)
            /\ a \in Bytes(list[k - 1]) /\ a \in Bytes(list[l - 1])
        BY <2>3, <4>1
      <4> QED
        BY <4>1, <4>2, Zenon DEF ListDisjoint
    <3> QED
        BY <3>2, <3>3
  <2> QED
    BY <2>2, <2>4, <2>5 DEF new
<1> QED
    BY <1>1, <1>2

\* Shrinking the region of node k to a part of it.
LEMMA Shrunk ==
    ASSUME NEW list \in Seq(RegionSet), ListDisjoint(list),
           NEW k \in 1 .. Len(list), NEW rg \in RegionSet, NEW cut,
           \A a : a \in Bytes(rg) <=> a \in Bytes(list[k]) /\ a \notin cut,
           \A a \in cut : a \in Bytes(list[k])
    PROVE  LET new == [list EXCEPT ![k] = rg] IN
           /\ new \in Seq(RegionSet)
           /\ ListDisjoint(new)
           /\ \A a : FreeAt(new, a) <=> FreeAt(list, a) /\ a \notin cut
<1> DEFINE new == [list EXCEPT ![k] = rg]
<1>1. /\ new \in Seq(RegionSet) /\ Len(new) = Len(list)
      /\ \A j \in 1 .. Len(list) : new[j] = IF j = k THEN rg ELSE list[j]
    BY ExceptSeq, LenProperties
<1> HIDE DEF new
<1>2. \A j \in 1 .. Len(list) : \A a :
          a \in Bytes(new[j]) <=> a \in Bytes(list[j]) /\ a \notin cut
    BY <1>1 DEF ListDisjoint
<1>3. ListDisjoint(new)
    BY <1>1, <1>2, Zenon DEF ListDisjoint
<1>4. \A a : FreeAt(new, a) <=> FreeAt(list, a) /\ a \notin cut
    BY <1>1, <1>2 DEF FreeAt
<1> QED
    BY <1>1, <1>3, <1>4, Zenon DEF new

\* Removing node k, all of whose region is cut.
LEMMA Removed ==
    ASSUME NEW list \in Seq(RegionSet), ListDisjoint(list),
           NEW k \in 1 .. Len(list), NEW cut, cut = Bytes(list[k])
    PROVE  LET new == RemoveAt(list, k) IN
           /\ new \in Seq(RegionSet)
           /\ ListDisjoint(new)
           /\ \A a : FreeAt(new, a) <=> FreeAt(list, a) /\ a \notin cut
<1> DEFINE new == RemoveAt(list, k)
           g(j) == IF j < k THEN j ELSE j + 1
<1>1. /\ new \in Seq(RegionSet) /\ Len(new) = Len(list) - 1 /\ Len(list) \in Nat
      /\ \A j \in 1 .. Len(list) - 1 : new[j] = list[g(j)]
    BY RemoveAtProperties, LenProperties
<1> HIDE DEF new
<1>2. \A j \in 1 .. Len(new) :
          g(j) \in 1 .. Len(list) /\ g(j) # k /\ new[j] = list[g(j)]
    BY <1>1
<1>3. \A i, j \in 1 .. Len(new) : i # j => g(i) # g(j)
    BY <1>1
<1>4. \A i \in 1 .. Len(list) : i # k => \E j \in 1 .. Len(new) : g(j) = i
  <2> TAKE i \in 1 .. Len(list)
  <2>1. CASE i < k
    <3>1. i \in 1 .. Len(new) /\ g(i) = i
        BY <1>1, <2>1
    <3> QED
        BY <3>1
  <2>2. CASE i > k
    <3>1. i - 1 \in 1 .. Len(new) /\ g(i - 1) = i
        BY <1>1, <2>2
    <3> QED
        BY <3>1
  <2> QED
    BY <2>1, <2>2
<1> HIDE DEF g
<1>5. ListDisjoint(new)
    BY <1>2, <1>3, Zenon DEF ListDisjoint
<1>6. ASSUME NEW a PROVE FreeAt(new, a) <=> FreeAt(list, a) /\ a \notin cut
  <2>1. ASSUME FreeAt(new, a) PROVE FreeAt(list, a) /\ a \notin cut
    <3>1. PICK j \in 1 .. Len(new) : a \in Bytes(new[j])
        BY <2>1 DEF FreeAt
    <3>2. g(j) \in 1 .. Len(list) /\ g(j) # k /\ a \in Bytes(list[g(j)])
        BY <1>2, <3>1
    <3> QED
        BY <3>2, Zenon DEF FreeAt, ListDisjoint
  <2>2. ASSUME FreeAt(list, a), a \notin cut PROVE FreeAt(new, a)
    <3>1. PICK i \in 1 .. Len(list) : a \in Bytes(list[i])
        BY <2>2 DEF FreeAt
    <3>2. i # k
        BY <2>2, <3>1
    <3>3. PICK j \in 1 .. Len(new) : g(j) = i
        BY <1>4, <3>2
    <3> QED
        BY <1>2, <3>1, <3>3 DEF FreeAt
  <2> QED
    BY <2>1, <2>2
<1> QED
    BY <1>1, <1>5, <1>6 DEF new

\* What get_free_vmrg_area leaves of the free list.
LEMMA CutFromFree ==
    ASSUME vm_freerg_list \in Seq(RegionSet), ListDisjoint(vm_freerg_list),
           NEW k \in 1 .. Len(vm_freerg_list), NEW size \in Nat,
           Fits(vm_freerg_list[k], size)
    PROVE  LET new == CutFrom(k, size)
               s   == vm_freerg_list[k].rg_start
               cut == Bytes(Region(s, s + size))
           IN  /\ s \in Nat
               /\ new \in Seq(RegionSet)
               /\ ListDisjoint(new)
               /\ \A a : FreeAt(new, a) <=> FreeAt(vm_freerg_list, a) /\ a \notin cut
               /\ \A a \in cut : FreeAt(vm_freerg_list, a)
<1> DEFINE list == vm_freerg_list
           rg   == list[k]
           s    == rg.rg_start
           e    == rg.rg_end
           cut  == Bytes(Region(s, s + size))
           Good(new) ==
               /\ new \in Seq(RegionSet)
               /\ ListDisjoint(new)
               /\ \A a : FreeAt(new, a) <=> FreeAt(list, a) /\ a \notin cut
<1>1. rg \in RegionSet
    BY ElementOfSeq
<1>2. s \in Nat /\ e \in Nat /\ s + size <= e
  <2>1. s + size <= e
    BY DEF Fits
  <2> QED
    BY <1>1, <2>1 DEF RegionSet
<1>3. \A a : a \in Bytes(rg) <=> a \in Int /\ s <= a /\ a < e
    BY <1>2 DEF Bytes
<1>4. \A a : a \in cut <=> a \in Int /\ s <= a /\ a < s + size
    BY <1>2, BytesOf
<1>5. CutFrom(k, size) =
          IF s + size < e THEN [list EXCEPT ![k] = Region(s + size, e)]
          ELSE IF k < Len(list) THEN RemoveAt(list, k)
          ELSE [list EXCEPT ![k] = Region(e, e)]
    BY DEF CutFrom
<1>6. list \in Seq(RegionSet) /\ ListDisjoint(list) /\ k \in 1 .. Len(list)
    OBVIOUS
<1>7. SUFFICES Good(CutFrom(k, size)) /\ \A a \in cut : FreeAt(list, a)
    BY <1>2
<1> HIDE DEF cut, s, e
<1>8. \A a \in cut : a \in Bytes(rg)
    BY <1>2, <1>3, <1>4
<1> HIDE DEF rg
<1>9. \A a \in cut : FreeAt(list, a)
    BY <1>6, <1>8 DEF FreeAt, rg
<1> DEFINE Rest(x) ==
               /\ x \in Nat
               /\ x = s + size \/ (x = e /\ ~(s + size < e))
<1>10. ASSUME NEW x, Rest(x),
              CutFrom(k, size) = [list EXCEPT ![k] = Region(x, e)]
       PROVE  Good(CutFrom(k, size))
  <2>1. /\ Region(x, e) \in RegionSet
        /\ \A a : a \in Bytes(Region(x, e)) <=> a \in Int /\ x <= a /\ a < e
    BY <1>2, <1>10, BytesOf
  <2>2. \A a : a \in Bytes(Region(x, e)) <=> a \in Bytes(rg) /\ a \notin cut
    BY <1>2, <1>3, <1>4, <1>10, <2>1
  <2> DEFINE new == Region(x, e)
  <2> HIDE DEF new, list
  <2>3. new \in RegionSet /\ \A a : a \in Bytes(new) <=> a \in Bytes(list[k]) /\ a \notin cut
    BY <2>1, <2>2 DEF new, rg
  <2>4. \A a \in cut : a \in Bytes(list[k])
    BY <1>8 DEF rg
  <2>5. Good([list EXCEPT ![k] = new])
    BY <1>6, <2>3, <2>4, Shrunk, Zenon
  <2> HIDE DEF Good
  <2> QED
    BY <1>10, <2>5 DEF new
<1>11. CASE s + size < e
  <2>1. PICK x \in Nat : x = s + size
    BY <1>2
  <2>2. CutFrom(k, size) = [list EXCEPT ![k] = Region(x, e)]
    BY <1>5, <1>11, <2>1
  <2>3. Rest(x)
    BY <2>1
  <2> HIDE DEF Good, Rest
  <2>4. Good(CutFrom(k, size))
    BY <1>10, <2>2, <2>3, Zenon
  <2> QED
    BY <1>9, <2>4
<1>12. CASE ~(s + size < e) /\ k < Len(list)
  <2>1. CutFrom(k, size) = RemoveAt(list, k)
    BY <1>5, <1>12
  <2>2. \A a : a \in cut <=> a \in Bytes(rg)
    BY <1>2, <1>3, <1>4, <1>12
  <2>3. cut = Bytes(rg)
    BY <2>2, Zenon
  <2> HIDE DEF list
  <2>4. Good(RemoveAt(list, k))
    BY <1>6, <2>3, Removed DEF rg
  <2> QED
    BY <1>9, <2>1, <2>4
<1>13. CASE ~(s + size < e) /\ ~(k < Len(list))
  <2>1. CutFrom(k, size) = [list EXCEPT ![k] = Region(e, e)]
    BY <1>5, <1>13
  <2>2. Rest(e)
    BY <1>2, <1>13
  <2> HIDE DEF Good, Rest
  <2> QED
    BY <1>9, <1>10, <2>1, <2>2, Zenon
<1> QED
    BY <1>11, <1>12, <1>13
-----------------------------------------------------------------------------
\* An address below the break is not one of those that the break passes.
LEMMA Apart ==
    ASSUME NEW x \in Nat, NEW y \in Nat, NEW a \in 0 .. x - 1
    PROVE  a \notin x .. y - 1
    OBVIOUS

\* Addresses are natural numbers.
LEMMA BytesNat ==
    ASSUME NEW rg \in RegionSet
    PROVE  Bytes(rg) \subseteq Nat
    BY DEF Bytes, RegionSet

\* Every address of a region lies below the break.
LEMMA BelowBreak ==
    ASSUME IInv, NEW a, LiveAt(symrgtbl, a) \/ FreeAt(vm_freerg_list, a)
    PROVE  a \in 0 .. sbrk - 1
    BY DEF IInv, AddressesAccounted, LiveAt, FreeAt

(***************************************************************************)
(* The shape that ALLOC and FREE share: the region of r becomes rg, and    *)
(* what the free list, rg and lost hold afterwards is what the free list,  *)
(* the old region of r and lost held before, with what the break gained.   *)
(***************************************************************************)
LEMMA RegionStep ==
    ASSUME IInv, NEW r \in Rgids, NEW rg \in RegionSet,
           symrgtbl' = [symrgtbl EXCEPT ![r] = rg],
           vm_freerg_list' \in Seq(RegionSet), ListDisjoint(vm_freerg_list'),
           sbrk' \in Nat, vm_end' \in Nat, sbrk <= sbrk', sbrk' <= vm_end',
           lost' \subseteq Nat,
           \A a \in Bytes(rg) :
               /\ FreeAt(vm_freerg_list, a) \/ a \in sbrk .. sbrk' - 1
               /\ ~FreeAt(vm_freerg_list', a),
           \A a : FreeAt(vm_freerg_list', a) =>
                      \/ FreeAt(vm_freerg_list, a)
                      \/ a \in Bytes(symrgtbl[r])
                      \/ a \in sbrk .. sbrk' - 1,
           \A a : (a \in Bytes(rg) \/ FreeAt(vm_freerg_list', a) \/ a \in lost')
                  <=> (\/ FreeAt(vm_freerg_list, a)
                       \/ a \in Bytes(symrgtbl[r])
                       \/ a \in lost
                       \/ a \in sbrk .. sbrk' - 1)
    PROVE  IInv'
<1>1. /\ symrgtbl \in [Rgids -> RegionSet] /\ vm_freerg_list \in Seq(RegionSet)
      /\ sbrk \in Nat /\ vm_end \in Nat /\ lost \subseteq Nat
    BY DEF IInv, TypeOK
<1>2. \A s \in Rgids : symrgtbl'[s] = IF s = r THEN rg ELSE symrgtbl[s]
    BY <1>1
<1>3. TypeOK'
    BY <1>1 DEF TypeOK
<1>4. \A s \in Rgids : \A a : a \in Bytes(symrgtbl[s]) =>
          a \in 0 .. sbrk - 1 /\ ~FreeAt(vm_freerg_list, a) /\ a \notin sbrk .. sbrk' - 1
  <2> TAKE s \in Rgids
  <2> TAKE a
  <2> HAVE a \in Bytes(symrgtbl[s])
  <2>1. LiveAt(symrgtbl, a)
    BY DEF LiveAt
  <2>2. a \in 0 .. sbrk - 1
    BY <2>1, BelowBreak
  <2>3. ~FreeAt(vm_freerg_list, a)
    BY DEF IInv, RegionsDisjoint, LiveFreeDisjoint, FreeAt
  <2>4. a \notin sbrk .. sbrk' - 1
    BY <1>1, <2>2, Apart, Zenon
  <2> QED
    BY <2>2, <2>3, <2>4, Zenon
<1>5. \A s, t \in Rgids : \A a :
          s # t /\ a \in Bytes(symrgtbl[s]) => a \notin Bytes(symrgtbl[t])
    BY DEF IInv, RegionsDisjoint, LiveDisjoint
<1>6. LiveDisjoint'
    BY <1>2, <1>4, <1>5, Zenon DEF LiveDisjoint
<1>7. FreeDisjoint'
    BY Zenon DEF FreeDisjoint, ListDisjoint
<1>8. LiveFreeDisjoint'
  <2> SUFFICES ASSUME NEW s \in Rgids, NEW a, a \in Bytes(symrgtbl'[s]),
                      FreeAt(vm_freerg_list', a)
               PROVE  FALSE
    BY Zenon DEF LiveFreeDisjoint, FreeAt
  <2>1. CASE s = r
    BY <1>2, <2>1
  <2>2. CASE s # r
    BY <1>2, <1>4, <1>5, <2>2
  <2> QED
    BY <2>1, <2>2
<1>9. \A a : a \in 0 .. sbrk - 1 <=>
          LiveAt(symrgtbl, a) \/ FreeAt(vm_freerg_list, a) \/ a \in lost
    BY DEF IInv, AddressesAccounted, LiveAt, FreeAt
<1>10. \A a : LiveAt(symrgtbl', a) <=>
           a \in Bytes(rg) \/ \E s \in Rgids \ {r} : a \in Bytes(symrgtbl[s])
    BY <1>2 DEF LiveAt
<1>11. \A a : LiveAt(symrgtbl, a) <=>
           \/ a \in Bytes(symrgtbl[r])
           \/ \E s \in Rgids \ {r} : a \in Bytes(symrgtbl[s])
    BY DEF LiveAt
<1>12. \A a : a \in 0 .. sbrk' - 1 <=> a \in 0 .. sbrk - 1 \/ a \in sbrk .. sbrk' - 1
    BY <1>1
<1>13. \A a : a \in 0 .. sbrk' - 1 <=>
           LiveAt(symrgtbl', a) \/ FreeAt(vm_freerg_list', a) \/ a \in lost'
    BY <1>9, <1>10, <1>11, <1>12, Zenon
<1>14. AddressesAccounted'
    BY <1>13 DEF AddressesAccounted, LiveAt, FreeAt
<1> QED
    BY <1>3, <1>6, <1>7, <1>8, <1>14 DEF IInv, RegionsDisjoint

\* In a new area the one free region and all live ones are empty.
LEMMA InitIInv == Init => IInv
<1> SUFFICES ASSUME Init PROVE IInv
    OBVIOUS
<1>1. NoRegion \in RegionSet /\ Bytes(NoRegion) = {}
    BY DEF NoRegion, Region, RegionSet, Bytes
<1>2. /\ vm_freerg_list \in Seq(RegionSet) /\ Len(vm_freerg_list) = 1
      /\ vm_freerg_list[1] = NoRegion
    BY <1>1 DEF Init
<1>3. TypeOK
    BY <1>1, <1>2 DEF Init, TypeOK
<1>4. \A k \in 1 .. Len(vm_freerg_list) : Bytes(vm_freerg_list[k]) = {}
    BY <1>1, <1>2
<1>5. \A r \in Rgids : Bytes(symrgtbl[r]) = {}
    BY <1>1 DEF Init
<1>6. RegionsDisjoint
    BY <1>4, <1>5, Zenon DEF RegionsDisjoint, LiveDisjoint, FreeDisjoint,
       LiveFreeDisjoint
<1>7. AddressesAccounted
  <2>1. sbrk = 0 /\ vm_end = 0 /\ lost = {} /\ 0 .. sbrk - 1 = {}
    BY DEF Init
  <2>2. (UNION {Bytes(symrgtbl[r]) : r \in Rgids}) = {}
    BY <1>5
  <2>3. (UNION {Bytes(vm_freerg_list[k]) : k \in 1 .. Len(vm_freerg_list)}) = {}
    BY <1>4
  <2>4. 0 .. sbrk - 1 = (UNION {Bytes(symrgtbl[r]) : r \in Rgids})
            \cup (UNION {Bytes(vm_freerg_list[k]) : k \in 1 .. Len(vm_freerg_list)})
            \cup lost
    BY <2>1, <2>2, <2>3, Zenon
  <2>5. sbrk <= vm_end
    BY <2>1
  <2> QED
    BY <2>4, <2>5 DEF AddressesAccounted
<1> QED
    BY <1>3, <1>6, <1>7 DEF IInv

\* __alloc from the free list.
LEMMA AllocFreeIInv ==
    ASSUME IInv, NEW r \in Rgids, NEW size \in Sizes, AllocFree(r, size)
    PROVE  IInv'
<1>1. PICK k \in 1 .. Len(vm_freerg_list) :
          /\ FirstFit(k, size)
          /\ LET s == vm_freerg_list[k].rg_start IN
             symrgtbl' = [symrgtbl EXCEPT ![r] = Region(s, s + size)]
          /\ vm_freerg_list' = CutFrom(k, size)
          /\ Forget(r)
          /\ UNCHANGED <<sbrk, vm_end>>
    BY Zenon DEF AllocFree
<1> DEFINE s  == vm_freerg_list[k].rg_start
           rg == Region(s, s + size)
<1>2. /\ symrgtbl \in [Rgids -> RegionSet] /\ vm_freerg_list \in Seq(RegionSet)
      /\ sbrk \in Nat /\ vm_end \in Nat /\ lost \subseteq Nat
      /\ sbrk <= vm_end /\ size \in Nat
    BY RegionsAssumption DEF IInv, TypeOK, AddressesAccounted
<1>3. ListDisjoint(vm_freerg_list)
    BY DEF IInv, RegionsDisjoint, FreeDisjoint, ListDisjoint
<1>4. Fits(vm_freerg_list[k], size)
    BY <1>1 DEF FirstFit
<1>5. /\ s \in Nat
      /\ vm_freerg_list' \in Seq(RegionSet)
      /\ ListDisjoint(vm_freerg_list')
      /\ \A a : FreeAt(vm_freerg_list', a) <=>
                FreeAt(vm_freerg_list, a) /\ a \notin Bytes(rg)
      /\ \A a \in Bytes(rg) : FreeAt(vm_freerg_list, a)
    BY <1>1, <1>2, <1>3, <1>4, CutFromFree
<1>6. rg \in RegionSet
    BY <1>2, <1>5, BytesOf
<1>7. /\ symrgtbl' = [symrgtbl EXCEPT ![r] = rg]
      /\ lost' = lost \cup Bytes(symrgtbl[r])
      /\ sbrk' = sbrk /\ vm_end' = vm_end
    BY <1>1 DEF Forget
<1> HIDE DEF rg
<1>8. lost' \subseteq Nat
  <2>1. Bytes(symrgtbl[r]) \subseteq Nat
    BY <1>2, BytesNat
  <2> QED
    BY <1>2, <1>7, <2>1, Zenon
<1>9. sbrk .. sbrk' - 1 = {}
    BY <1>2, <1>7
<1>10. \A a : (a \in Bytes(rg) \/ FreeAt(vm_freerg_list', a) \/ a \in lost')
                  <=> (\/ FreeAt(vm_freerg_list, a)
                       \/ a \in Bytes(symrgtbl[r])
                       \/ a \in lost
                       \/ a \in sbrk .. sbrk' - 1)
    BY <1>5, <1>7, <1>9
<1>11. \A a \in Bytes(rg) : FreeAt(vm_freerg_list, a) /\ ~FreeAt(vm_freerg_list', a)
    BY <1>5
<1>12. \A a : FreeAt(vm_freerg_list', a) => FreeAt(vm_freerg_list, a)
    BY <1>5
<1>13. sbrk' \in Nat /\ vm_end' \in Nat /\ sbrk <= sbrk' /\ sbrk' <= vm_end'
    BY <1>2, <1>7
<1> QED
    BY <1>5, <1>6, <1>7, <1>8, <1>10, <1>11, <1>12, <1>13, RegionStep, Zenon

\* __alloc by growing the area.
LEMMA AllocGrowIInv ==
    ASSUME IInv, NEW r \in Rgids, NEW size \in Sizes, AllocGrow(r, size)
    PROVE  IInv'
<1> DEFINE n    == Aligned(size)
           rg   == Region(sbrk, sbrk + size)
           rest == Region(sbrk + size, sbrk + n)
<1>1. /\ symrgtbl \in [Rgids -> RegionSet] /\ vm_freerg_list \in Seq(RegionSet)
      /\ sbrk \in Nat /\ vm_end \in Nat /\ lost \subseteq Nat
      /\ sbrk <= vm_end /\ size \in Nat
    BY RegionsAssumption DEF IInv, TypeOK, AddressesAccounted
<1>2. n \in Nat /\ n >= size /\ Aligned(n) \in Nat /\ Aligned(n) >= n
    BY <1>1, AlignedUp
<1>3. /\ vm_end' = vm_end + Aligned(n) /\ sbrk' = sbrk + n
      /\ symrgtbl' = [symrgtbl EXCEPT ![r] = rg]
      /\ vm_freerg_list' = enlist_vm_freerg_list(vm_freerg_list, rest)
      /\ lost' = lost \cup Bytes(symrgtbl[r])
    BY DEF AllocGrow, inc_vma_limit, Forget
<1> HIDE DEF n
<1>4. /\ rg \in RegionSet
      /\ \A a : a \in Bytes(rg) <=> a \in Int /\ sbrk <= a /\ a < sbrk + size
    BY <1>1, BytesOf
<1>5. /\ rest \in RegionSet
      /\ \A a : a \in Bytes(rest) <=> a \in Int /\ sbrk + size <= a /\ a < sbrk + n
    BY <1>1, <1>2, BytesOf
<1> HIDE DEF rg, rest
<1>6. \A a : a \in Bytes(rg) \/ a \in Bytes(rest) <=> a \in sbrk .. sbrk' - 1
    BY <1>1, <1>2, <1>3, <1>4, <1>5
<1>7. \A a \in Bytes(rg) : a \notin Bytes(rest)
    BY <1>1, <1>2, <1>4, <1>5
<1>8. \A a : a \in sbrk .. sbrk' - 1 => ~FreeAt(vm_freerg_list, a)
  <2> SUFFICES ASSUME NEW a, a \in sbrk .. sbrk' - 1, FreeAt(vm_freerg_list, a)
               PROVE  FALSE
    OBVIOUS
  <2>1. a \in 0 .. sbrk - 1
    BY BelowBreak
  <2> QED
    BY <1>1, <2>1
<1>9. ListDisjoint(vm_freerg_list)
    BY DEF IInv, RegionsDisjoint, FreeDisjoint, ListDisjoint
<1>10. \A a \in Bytes(rest) : ~FreeAt(vm_freerg_list, a)
    BY <1>6, <1>8
<1>11. /\ vm_freerg_list' \in Seq(RegionSet)
       /\ ListDisjoint(vm_freerg_list')
       /\ \A a : FreeAt(vm_freerg_list', a) <=>
                 FreeAt(vm_freerg_list, a) \/ a \in Bytes(rest)
    BY <1>1, <1>3, <1>5, <1>9, <1>10, Enlisted
<1>12. lost' \subseteq Nat
  <2>1. Bytes(symrgtbl[r]) \subseteq Nat
    BY <1>1, BytesNat
  <2> QED
    BY <1>1, <1>3, <2>1, Zenon
<1>13. sbrk' \in Nat /\ vm_end' \in Nat /\ sbrk <= sbrk' /\ sbrk' <= vm_end'
    BY <1>1, <1>2, <1>3
<1>14. \A a \in Bytes(rg) : a \in sbrk .. sbrk' - 1 /\ ~FreeAt(vm_freerg_list', a)
    BY <1>6, <1>7, <1>8, <1>11
<1>15. \A a : (a \in Bytes(rg) \/ FreeAt(vm_freerg_list', a) \/ a \in lost')
                  <=> (\/ FreeAt(vm_freerg_list, a)
                       \/ a \in Bytes(symrgtbl[r])
                       \/ a \in lost
                       \/ a \in sbrk .. sbrk' - 1)
    BY <1>3, <1>6, <1>11
<1>16. \A a : FreeAt(vm_freerg_list', a) =>
                  FreeAt(vm_freerg_list, a) \/ a \in sbrk .. sbrk' - 1
    BY <1>6, <1>11
<1>17. symrgtbl' = [symrgtbl EXCEPT ![r] = rg]
    BY <1>3
<1> QED
    BY <1>4, <1>11, <1>12, <1>13, <1>14, <1>15, <1>16, <1>17, RegionStep, Zenon

\* __free.
LEMMA FreeIInv ==
    ASSUME IInv, NEW r \in Rgids, Free(r)
    PROVE  IInv'
<1>1. /\ symrgtbl \in [Rgids -> RegionSet] /\ vm_freerg_list \in Seq(RegionSet)
      /\ sbrk \in Nat /\ vm_end \in Nat /\ lost \subseteq Nat
      /\ sbrk <= vm_end
    BY DEF IInv, TypeOK, AddressesAccounted
<1>2. /\ vm_freerg_list' = enlist_vm_freerg_list(vm_freerg_list, symrgtbl[r])
      /\ symrgtbl' = [symrgtbl EXCEPT ![r] = NoRegion]
      /\ sbrk' = sbrk /\ vm_end' = vm_end /\ lost' = lost
    BY DEF Free
<1>3. NoRegion \in RegionSet /\ Bytes(NoRegion) = {}
    BY DEF NoRegion, Region, RegionSet, Bytes
<1>4. symrgtbl[r] \in RegionSet
    BY <1>1
<1>5. \A a \in Bytes(symrgtbl[r]) : ~FreeAt(vm_freerg_list, a)
    BY DEF IInv, RegionsDisjoint, LiveFreeDisjoint, FreeAt
<1>6. ListDisjoint(vm_freerg_list)
    BY DEF IInv, RegionsDisjoint, FreeDisjoint, ListDisjoint
<1>7. /\ vm_freerg_list' \in Seq(RegionSet)
      /\ ListDisjoint(vm_freerg_list')
      /\ \A a : FreeAt(vm_freerg_list', a) <=>
                FreeAt(vm_freerg_list, a) \/ a \in Bytes(symrgtbl[r])
    BY <1>1, <1>2, <1>4, <1>5, <1>6, Enlisted
<1>8. sbrk .. sbrk' - 1 = {}
    BY <1>1, <1>2
<1>9. \A a : (a \in Bytes(NoRegion) \/ FreeAt(vm_freerg_list', a) \/ a \in lost')
                  <=> (\/ FreeAt(vm_freerg_list, a)
                       \/ a \in Bytes(symrgtbl[r])
                       \/ a \in lost
                       \/ a \in sbrk .. sbrk' - 1)
    BY <1>2, <1>3, <1>7, <1>8
<1>10. \A a : FreeAt(vm_freerg_list', a) =>
                  FreeAt(vm_freerg_list, a) \/ a \in Bytes(symrgtbl[r])
    BY <1>7
<1>11. sbrk' \in Nat /\ vm_end' \in Nat /\ sbrk <= sbrk' /\ sbrk' <= vm_end'
    BY <1>1, <1>2
<1>12. \A a : a \notin Bytes(NoRegion)
    BY <1>3
<1>13. lost' \subseteq Nat
    BY <1>1, <1>2
<1> QED
    BY <1>2, <1>3, <1>7, <1>9, <1>10, <1>11, <1>12, <1>13, RegionStep, Zenon

\* SYSMEM_INC_OP: what the break passes is lost.
LEMMA SysMemIncIInv ==
    ASSUME IInv, NEW inc_sz \in Sizes, SysMemInc(inc_sz)
    PROVE  IInv'
<1>1. /\ sbrk \in Nat /\ vm_end \in Nat /\ lost \subseteq Nat
      /\ sbrk <= vm_end /\ inc_sz \in Nat
    BY RegionsAssumption DEF IInv, TypeOK, AddressesAccounted
<1>2. Aligned(inc_sz) \in Nat /\ Aligned(inc_sz) >= inc_sz
    BY <1>1, AlignedUp
<1>3. /\ vm_end' = vm_end + Aligned(inc_sz) /\ sbrk' = sbrk + inc_sz
      /\ lost' = lost \cup (sbrk .. sbrk + inc_sz - 1)
      /\ symrgtbl' = symrgtbl /\ vm_freerg_list' = vm_freerg_list
    BY DEF SysMemInc, inc_vma_limit
<1>4. TypeOK'
    BY <1>1, <1>2, <1>3 DEF IInv, TypeOK
<1>5. RegionsDisjoint'
    BY <1>3, Zenon DEF IInv, RegionsDisjoint, LiveDisjoint, FreeDisjoint,
       LiveFreeDisjoint
<1> DEFINE held == (UNION {Bytes(symrgtbl[r]) : r \in Rgids})
                   \cup (UNION {Bytes(vm_freerg_list[k]) : k \in 1 .. Len(vm_freerg_list)})
<1>6. 0 .. sbrk - 1 = held \cup lost
    BY DEF IInv, AddressesAccounted
<1>7. held' = held
    BY <1>3
<1>8. 0 .. sbrk' - 1 = (0 .. sbrk - 1) \cup (sbrk .. sbrk + inc_sz - 1)
    BY <1>1, <1>3
<1>9. sbrk' <= vm_end'
    BY <1>1, <1>2, <1>3
<1>10. (0 .. sbrk - 1 = held \cup lost)'
  <2> HIDE DEF held
  <2>1. 0 .. sbrk' - 1 = held \cup lost \cup (sbrk .. sbrk + inc_sz - 1)
    BY <1>6, <1>8, Zenon
  <2> QED
    BY <1>3, <1>7, <2>1, Zenon
<1>11. AddressesAccounted'
    BY <1>9, <1>10 DEF AddressesAccounted
<1> QED
    BY <1>4, <1>5, <1>11 DEF IInv

\* Every operation of the allocator keeps IInv.
LEMMA NextIInv == IInv /\ [Next]_vars => IInv'
<1> SUFFICES ASSUME IInv, [Next]_vars PROVE IInv'
    OBVIOUS
<1>1. ASSUME NEW r \in Rgids, NEW size \in Sizes, AllocFree(r, size) PROVE IInv'
    BY <1>1, AllocFreeIInv
<1>2. ASSUME NEW r \in Rgids, NEW size \in Sizes, AllocGrow(r, size) PROVE IInv'
    BY <1>2, AllocGrowIInv
<1>3. ASSUME NEW r \in Rgids, Free(r) PROVE IInv'
    BY <1>3, FreeIInv
<1>4. ASSUME NEW size \in Sizes, SysMemInc(size) PROVE IInv'
    BY <1>4, SysMemIncIInv
<1>5. CASE UNCHANGED vars
  <2>1. /\ symrgtbl' = symrgtbl /\ vm_freerg_list' = vm_freerg_list
        /\ sbrk' = sbrk /\ vm_end' = vm_end /\ lost' = lost
    BY <1>5 DEF vars
  <2> QED
    BY <2>1, Zenon DEF IInv, TypeOK, RegionsDisjoint, LiveDisjoint,
       FreeDisjoint,
                LiveFreeDisjoint, AddressesAccounted
<1> QED
    BY <1>1, <1>2, <1>3, <1>4, <1>5 DEF Next

\* So it holds at all times.
LEMMA IInvAlways == Spec => []IInv
    BY InitIInv, NextIInv, PTL DEF Spec
-----------------------------------------------------------------------------
(***************************************************************************)
(* The regions, the free list and the break of an mm keep their types,     *)
(* whatever the page size and the sizes asked for.                         *)
(***************************************************************************)
THEOREM TypeCorrect == Spec => []TypeOK
    BY IInvAlways, PTL DEF IInv

(***************************************************************************)
(* __alloc and __free never let two regions share an address: not two live *)
(* ones, not a live and a free one, not two nodes of vm_freerg_list.       *)
(***************************************************************************)
THEOREM RegionsDisjointAlways == Spec => []RegionsDisjoint
    BY IInvAlways, PTL DEF IInv

(***************************************************************************)
(* The allocator loses no address and hands out none above the break, and  *)
(* inc_vma_limit keeps the break within the area.                          *)
(***************************************************************************)
THEOREM AddressesAccountedAlways == Spec => []AddressesAccounted
    BY IInvAlways, PTL DEF IInv
-----------------------------------------------------------------------------
(* Programs.                                                               *)

PInv ==
    /\ IInv
    /\ vm_end <= MaxEnd
    /\ regs \in [Rgids -> Nat]
    /\ mem \in [Addresses -> Values]
    /\ RegistersHoldAddresses

\* An instruction is an operation of the allocator or leaves it alone.
LEMMA RunIsRegions == run => [Next]_vars
<1> SUFFICES ASSUME run PROVE [Next]_vars
    OBVIOUS
<1>1. ASSUME NEW r \in Rgids, NEW size \in Sizes, ALLOC(size, r) PROVE Next
    BY <1>1 DEF ALLOC, Next
<1>2. ASSUME NEW r \in Rgids, FREE(r) PROVE [Next]_vars
    BY <1>2 DEF FREE, Next, Refused, procVars
<1>3. ASSUME NEW r \in Rgids, NEW offset \in Offsets, READ(r, offset)
      PROVE  UNCHANGED vars
    BY <1>3 DEF READ, Refused, procVars
<1>4. ASSUME NEW v \in Values, NEW r \in Rgids, NEW offset \in Offsets,
             WRITE(v, r, offset)
      PROVE  UNCHANGED vars
    BY <1>4 DEF WRITE, Refused, procVars
<1>5. ASSUME NEW r \in Rgids, NEW offset \in Offsets, NEW size \in Sizes,
             COPY(r, offset, size)
      PROVE  UNCHANGED vars
    BY <1>5 DEF COPY
<1>6. ASSUME NEW nr \in Numbers, NEW vmaid \in VmaIds, NEW size \in Sizes,
             SYSCALL(nr, vmaid, size)
      PROVE  [Next]_vars
    BY <1>6 DEF SYSCALL, syscall, SysMemmap, Next, Refused, procVars
<1> QED
    BY <1>1, <1>2, <1>3, <1>4, <1>5, <1>6 DEF run, runOn

(***************************************************************************)
(* Whatever instructions a program executes (cpu.c:61-130), its regions    *)
(* and its free list change as the allocator changes them, so every        *)
(* property of the allocator holds for the process.                        *)
(***************************************************************************)
THEOREM ProcImplementsRegions == ProcSpec => Spec
<1>1. ProcInit => Init
    BY DEF ProcInit
<1>2. [run]_procVars => [Next]_vars
    BY RunIsRegions DEF procVars
<1> QED
    BY <1>1, <1>2, PTL DEF ProcSpec, Spec
-----------------------------------------------------------------------------
\* The addresses of a live region lie in the area.
LEMMA InArea ==
    ASSUME IInv, vm_end <= MaxEnd, NEW r \in Rgids
    PROVE  \A a \in Bytes(symrgtbl[r]) : a \in Addresses
<1> TAKE a \in Bytes(symrgtbl[r])
<1>1. LiveAt(symrgtbl, a)
    BY DEF LiveAt
<1>2. a \in 0 .. sbrk - 1
    BY <1>1, BelowBreak
<1>3. sbrk \in Nat /\ vm_end \in Nat /\ sbrk <= vm_end /\ MaxEnd \in Nat
    BY RegionsAssumption DEF IInv, TypeOK, AddressesAccounted
<1> QED
    BY <1>2, <1>3 DEF Addresses

\* What __alloc leaves in the symbol table.
LEMMA Allocated ==
    ASSUME IInv, NEW r \in Rgids, NEW size \in Sizes,
           AllocFree(r, size) \/ AllocGrow(r, size)
    PROVE  \E s \in Nat : symrgtbl' = [symrgtbl EXCEPT ![r] = Region(s, s + size)]
<1>1. sbrk \in Nat /\ vm_freerg_list \in Seq(RegionSet)
    BY DEF IInv, TypeOK
<1>2. CASE AllocFree(r, size)
  <2>1. PICK k \in 1 .. Len(vm_freerg_list) :
            LET s == vm_freerg_list[k].rg_start IN
            symrgtbl' = [symrgtbl EXCEPT ![r] = Region(s, s + size)]
    BY <1>2, Zenon DEF AllocFree
  <2>2. vm_freerg_list[k] \in RegionSet
    BY <1>1, ElementOfSeq
  <2>3. vm_freerg_list[k].rg_start \in Nat
    BY <2>2 DEF RegionSet
  <2> QED
    BY <2>1, <2>3, Zenon
<1>3. CASE AllocGrow(r, size)
    BY <1>1, <1>3, Zenon DEF AllocGrow
<1> QED
    BY <1>2, <1>3

\* No operation takes the area past its bound.
LEMMA EndBounded ==
    ASSUME vm_end <= MaxEnd, [Next]_vars
    PROVE  vm_end' <= MaxEnd
<1>1. ASSUME NEW r \in Rgids, NEW size \in Sizes, AllocFree(r, size)
      PROVE  vm_end' <= MaxEnd
    BY <1>1 DEF AllocFree
<1>2. ASSUME NEW r \in Rgids, NEW size \in Sizes, AllocGrow(r, size)
      PROVE  vm_end' <= MaxEnd
    BY <1>2 DEF AllocGrow, inc_vma_limit
<1>3. ASSUME NEW r \in Rgids, Free(r) PROVE vm_end' <= MaxEnd
    BY <1>3 DEF Free
<1>4. ASSUME NEW size \in Sizes, SysMemInc(size) PROVE vm_end' <= MaxEnd
    BY <1>4 DEF SysMemInc, inc_vma_limit
<1>5. CASE UNCHANGED vars
    BY <1>5 DEF vars
<1> QED
    BY <1>1, <1>2, <1>3, <1>4, <1>5 DEF Next
-----------------------------------------------------------------------------
\* Before its first instruction a program has no region and no address.
LEMMA InitPInv == ProcInit => PInv
<1> SUFFICES ASSUME ProcInit PROVE PInv
    OBVIOUS
<1>1. IInv
    BY InitIInv DEF ProcInit
<1>2. vm_end <= MaxEnd
    BY RegionsAssumption DEF ProcInit, Init
<1>3. regs \in [Rgids -> Nat] /\ mem \in [Addresses -> Values]
    BY ProcessAssumption DEF ProcInit
<1>4. RegistersHoldAddresses
    BY DEF ProcInit, Init, RegistersHoldAddresses
<1> QED
    BY <1>1, <1>2, <1>3, <1>4 DEF PInv

\* The registers and the bytes after an instruction.
LEMMA RegistersStep ==
    ASSUME PInv, run
    PROVE  /\ regs' \in [Rgids -> Nat]
           /\ mem' \in [Addresses -> Values]
           /\ RegistersHoldAddresses'
<1> DEFINE Goal == /\ regs' \in [Rgids -> Nat]
                   /\ mem' \in [Addresses -> Values]
                   /\ RegistersHoldAddresses'
<1>1. /\ regs \in [Rgids -> Nat] /\ mem \in [Addresses -> Values]
      /\ symrgtbl \in [Rgids -> RegionSet] /\ Blank \in Values
    BY ProcessAssumption DEF PInv, IInv, TypeOK
<1>2. \A r \in Rgids :
          \/ regs[r] = symrgtbl[r].rg_start
          \/ symrgtbl[r] = NoRegion /\ regs[r] = Stale
    BY DEF PInv, RegistersHoldAddresses
<1>3. ASSUME regs' = regs, symrgtbl' = symrgtbl, mem' \in [Addresses -> Values]
      PROVE  Goal
    BY <1>1, <1>2, <1>3 DEF RegistersHoldAddresses
<1>4. ASSUME NEW r \in Rgids, NEW rg \in RegionSet,
             symrgtbl' = [symrgtbl EXCEPT ![r] = rg],
             regs' = [regs EXCEPT ![r] = rg.rg_start], mem' = mem
      PROVE  Goal
  <2>1. rg.rg_start \in Nat
    BY DEF RegionSet
  <2>2. \A s \in Rgids : /\ symrgtbl'[s] = IF s = r THEN rg ELSE symrgtbl[s]
                         /\ regs'[s] = IF s = r THEN rg.rg_start ELSE regs[s]
    BY <1>1, <1>4
  <2>3. RegistersHoldAddresses'
    BY <1>2, <2>2 DEF RegistersHoldAddresses
  <2> QED
    BY <1>1, <1>4, <2>1, <2>3
<1>5. ASSUME Refused PROVE Goal
    BY <1>1, <1>3, <1>5 DEF Refused, procVars, vars
<1>6. ASSUME NEW r \in Rgids, NEW size \in Sizes, ALLOC(size, r) PROVE Goal
  <2>1. PICK s \in Nat : symrgtbl' = [symrgtbl EXCEPT ![r] = Region(s, s + size)]
    BY <1>6, Allocated DEF ALLOC, PInv
  <2>2. Region(s, s + size) \in RegionSet
    BY BytesOf, RegionsAssumption
  <2>3. /\ symrgtbl'[r] = Region(s, s + size)
        /\ regs' = [regs EXCEPT ![r] = symrgtbl'[r].rg_start] /\ mem' = mem
    BY <1>1, <1>6, <2>1 DEF ALLOC
  <2> QED
    BY <1>4, <2>1, <2>2, <2>3, Zenon
<1>7. ASSUME NEW r \in Rgids, FREE(r) PROVE Goal
  <2>1. NoRegion \in RegionSet /\ NoRegion.rg_start = 0
    BY DEF NoRegion, Region, RegionSet
  <2>2. CASE Free(r) /\ regs' = [regs EXCEPT ![r] = 0] /\ UNCHANGED mem
    BY <1>4, <2>1, <2>2, Zenon DEF Free
  <2> QED
    BY <1>5, <1>7, <2>2 DEF FREE
<1>8. ASSUME NEW v \in Values, NEW r \in Rgids, NEW offset \in Offsets,
             WRITE(v, r, offset)
      PROVE  Goal
  <2>1. CASE /\ mem' = [mem EXCEPT ![symrgtbl[r].rg_start + offset] = v]
             /\ UNCHANGED <<vars, regs>>
    <3>1. mem' \in [Addresses -> Values]
        BY <1>1, <2>1, Zenon
    <3> QED
        BY <1>3, <2>1, <3>1 DEF vars
  <2> QED
    BY <1>5, <1>8, <2>1 DEF WRITE
<1>9. ASSUME NEW r \in Rgids, NEW offset \in Offsets, NEW size \in Sizes,
             COPY(r, offset, size)
      PROVE  Goal
  <2>1. UNCHANGED <<vars, regs>> /\ mem' \in [Addresses -> Values]
    BY <1>1, <1>9 DEF COPY
  <2> QED
    BY <1>3, <2>1 DEF vars
<1>10. ASSUME NEW nr \in Numbers, NEW vmaid \in VmaIds, NEW size \in Sizes,
              SYSCALL(nr, vmaid, size)
       PROVE  Goal
  <2>1. CASE SysMemInc(size) /\ UNCHANGED <<regs, mem>>
    BY <1>1, <1>3, <2>1 DEF SysMemInc
  <2> QED
    BY <1>5, <1>10, <2>1 DEF SYSCALL, syscall, SysMemmap
<1>11. ASSUME NEW r \in Rgids, NEW offset \in Offsets, READ(r, offset) PROVE Goal
    BY <1>5, <1>11 DEF READ
<1> HIDE DEF Goal
<1>12. Goal
    BY <1>6, <1>7, <1>8, <1>9, <1>10, <1>11 DEF run, runOn
<1> QED
    BY <1>12 DEF Goal

\* Every instruction keeps PInv.
LEMMA NextPInv == PInv /\ [run]_procVars => PInv'
<1> SUFFICES ASSUME PInv, [run]_procVars PROVE PInv'
    OBVIOUS
<1>1. [Next]_vars
    BY RunIsRegions DEF procVars
<1>2. IInv' /\ vm_end' <= MaxEnd
    BY <1>1, NextIInv, EndBounded DEF PInv
<1>3. CASE run
    BY <1>2, <1>3, RegistersStep DEF PInv
<1>4. CASE UNCHANGED procVars
  <2>1. regs' = regs /\ mem' = mem /\ symrgtbl' = symrgtbl
    BY <1>4 DEF procVars, vars
  <2> QED
    BY <1>2, <2>1 DEF PInv, RegistersHoldAddresses
<1> QED
    BY <1>3, <1>4

\* So it holds at all times.
LEMMA PInvAlways == ProcSpec => []PInv
    BY InitPInv, NextPInv, PTL DEF ProcSpec
-----------------------------------------------------------------------------
\* The length of an array is the size of its region.
LEMMA ArrayLength ==
    ASSUME PInv, NEW r \in Rgids,
           symrgtbl[r].rg_start <= symrgtbl[r].rg_end
    PROVE  Len(arrays[r]) = symrgtbl[r].rg_end - symrgtbl[r].rg_start
<1> DEFINE rg == symrgtbl[r]
           n  == rg.rg_end - rg.rg_start
           f  == [i \in 1 .. n |-> mem[rg.rg_start + i - 1]]
<1>1. rg \in RegionSet /\ mem \in [Addresses -> Values]
    BY DEF PInv, IInv, TypeOK
<1>2. rg.rg_start \in Nat /\ rg.rg_end \in Nat /\ n \in Nat
    BY <1>1 DEF RegionSet
<1>3. arrays[r] = f
    BY DEF arrays
<1>4. ASSUME NEW i \in 1 .. n PROVE f[i] \in Values
  <2>1. rg.rg_start + i - 1 \in Bytes(rg)
    BY <1>2 DEF Bytes
  <2>2. rg.rg_start + i - 1 \in Addresses
    BY <2>1, InArea DEF PInv
  <2> QED
    BY <1>1, <2>2
<1>5. f \in [1 .. n -> Values]
    BY <1>4, Zenon
<1> HIDE DEF f, n
<1>6. f \in Seq(Values) /\ Len(f) = n
    BY <1>2, <1>5
<1> QED
    BY <1>3, <1>6 DEF n

\* The bytes of a region, by their place in the array.
LEMMA ByteOfArray ==
    ASSUME PInv, NEW r \in Rgids,
           NEW i \in 1 .. symrgtbl[r].rg_end - symrgtbl[r].rg_start
    PROVE  /\ symrgtbl[r].rg_start + i - 1 \in Bytes(symrgtbl[r])
           /\ symrgtbl[r].rg_start + i - 1 \in Addresses
<1>1. symrgtbl[r] \in RegionSet
    BY DEF PInv, IInv, TypeOK
<1>2. symrgtbl[r].rg_start + i - 1 \in Bytes(symrgtbl[r])
    BY <1>1 DEF Bytes, RegionSet
<1> QED
    BY <1>2, InArea DEF PInv

\* The array of a register whose region and whose bytes stay is the same.
LEMMA SameArray ==
    ASSUME PInv, NEW r \in Rgids, symrgtbl'[r] = symrgtbl[r],
           \A a \in Bytes(symrgtbl[r]) : mem'[a] = mem[a]
    PROVE  arrays'[r] = arrays[r]
<1> DEFINE rg == symrgtbl[r]
           n  == rg.rg_end - rg.rg_start
<1>1. \A i \in 1 .. n : mem'[rg.rg_start + i - 1] = mem[rg.rg_start + i - 1]
    BY ByteOfArray
<1>2. arrays[r] = [i \in 1 .. n |-> mem[rg.rg_start + i - 1]]
    BY DEF arrays
<1>3. arrays'[r] = [i \in 1 .. n |-> mem'[rg.rg_start + i - 1]]
    BY DEF arrays
<1> QED
    BY <1>1, <1>2, <1>3

\* Arrays that differ in the array of r only.
LEMMA OneArray ==
    ASSUME PInv, NEW r \in Rgids, NEW x,
           \A s \in Rgids \ {r} : arrays'[s] = arrays[s],
           arrays'[r] = x
    PROVE  arrays' = [arrays EXCEPT ![r] = x]
    BY Zenon DEF arrays

\* ALLOC makes an array.
LEMMA AllocRefines ==
    ASSUME PInv, PInv', NEW r \in Rgids, NEW size \in Sizes, ALLOC(size, r)
    PROVE  ProgramArrays!Alloc(r, size)
<1>1. symrgtbl \in [Rgids -> RegionSet] /\ mem' = mem /\ size \in Nat
    BY RegionsAssumption DEF PInv, IInv, TypeOK, ALLOC
<1>2. PICK s \in Nat : symrgtbl' = [symrgtbl EXCEPT ![r] = Region(s, s + size)]
    BY Allocated DEF ALLOC, PInv
<1> DEFINE rg == Region(s, s + size)
           x  == [i \in 1 .. size |-> mem'[s + i - 1]]
<1>3. symrgtbl'[r] = rg /\ rg.rg_start = s /\ rg.rg_end = s + size
    BY <1>1, <1>2 DEF Region
<1>4. ASSUME NEW t \in Rgids \ {r} PROVE arrays'[t] = arrays[t]
    BY <1>1, <1>2, SameArray
<1>5. arrays'[r] = x
  <2>1. rg.rg_end - rg.rg_start = size
    BY <1>1, <1>3
  <2>2. arrays'[r] = [i \in 1 .. rg.rg_end - rg.rg_start |-> mem'[rg.rg_start + i - 1]]
    BY <1>3 DEF arrays
  <2> QED
    BY <1>3, <2>1, <2>2
<1>6. ASSUME NEW i \in 1 .. size PROVE x[i] \in Values
  <2>1. s + i - 1 \in Bytes(rg)
    BY <1>1, BytesOf
  <2>2. s + i - 1 \in Addresses
    <3>1. (\A a \in Bytes(symrgtbl[r]) : a \in Addresses)'
        BY InArea, PTL DEF PInv
    <3> QED
        BY <1>3, <2>1, <3>1 DEF Addresses
  <2>3. mem' \in [Addresses -> Values]
    BY DEF PInv, Addresses
  <2> QED
    BY <2>2, <2>3
<1>7. x \in [1 .. size -> Values]
    BY <1>6
<1> HIDE DEF x
<1>8. arrays' = [arrays EXCEPT ![r] = x]
    BY <1>4, <1>5, OneArray
<1> QED
    BY <1>7, <1>8, Zenon DEF ProgramArrays!Alloc

\* FREE drops one.
LEMMA FreeRefines ==
    ASSUME PInv, NEW r \in Rgids, Free(r), mem' = mem
    PROVE  ProgramArrays!Free(r)
<1>1. symrgtbl \in [Rgids -> RegionSet]
    BY DEF PInv, IInv, TypeOK
<1>2. symrgtbl' = [symrgtbl EXCEPT ![r] = NoRegion]
    BY DEF Free
<1>3. ASSUME NEW t \in Rgids \ {r} PROVE arrays'[t] = arrays[t]
    BY <1>1, <1>2, SameArray
<1>4. symrgtbl'[r].rg_end - symrgtbl'[r].rg_start = 0
    BY <1>1, <1>2 DEF NoRegion, Region
<1>5. arrays'[r] = << >>
  <2>1. arrays'[r] = [i \in 1 .. 0 |-> mem'[symrgtbl'[r].rg_start + i - 1]]
    BY <1>4 DEF arrays
  <2> QED
    BY <2>1
<1>6. arrays' = [arrays EXCEPT ![r] = << >>]
    BY <1>3, <1>5, OneArray
<1> QED
    BY <1>6 DEF ProgramArrays!Free

\* What the checks of the library ensure: the byte is one of the array's.
LEMMA InRegionOf ==
    ASSUME PInv, NEW r \in Rgids, NEW offset \in Nat, InRegion(r, offset)
    PROVE  /\ symrgtbl[r].rg_start \in Nat /\ symrgtbl[r].rg_end \in Nat
           /\ symrgtbl[r].rg_start + offset < symrgtbl[r].rg_end
           /\ offset + 1 \in 1 .. symrgtbl[r].rg_end - symrgtbl[r].rg_start
           /\ Len(arrays[r]) = symrgtbl[r].rg_end - symrgtbl[r].rg_start
<1>1. symrgtbl[r] \in RegionSet
    BY DEF PInv, IInv, TypeOK
<1>2. symrgtbl[r].rg_start \in Nat /\ symrgtbl[r].rg_end \in Nat
    BY <1>1 DEF RegionSet
<1>3. symrgtbl[r].rg_start + offset < symrgtbl[r].rg_end
    BY DEF InRegion
<1>4. symrgtbl[r].rg_start <= symrgtbl[r].rg_end
    BY <1>2, <1>3
<1>5. Len(arrays[r]) = symrgtbl[r].rg_end - symrgtbl[r].rg_start
    BY <1>4, ArrayLength
<1> QED
    BY <1>2, <1>3, <1>5

\* Bytes of two live regions are different ones.
LEMMA OtherArrays ==
    ASSUME PInv, NEW r \in Rgids, NEW t \in Rgids \ {r}, symrgtbl' = symrgtbl,
           \A a \in Addresses \ Bytes(symrgtbl[r]) : mem'[a] = mem[a]
    PROVE  arrays'[t] = arrays[t]
<1>1. \A a \in Bytes(symrgtbl[t]) : a \notin Bytes(symrgtbl[r])
    BY DEF PInv, IInv, RegionsDisjoint, LiveDisjoint
<1>2. \A a \in Bytes(symrgtbl[t]) : a \in Addresses
    BY InArea DEF PInv
<1>3. \A a \in Bytes(symrgtbl[t]) : mem'[a] = mem[a]
    BY <1>1, <1>2
<1> QED
    BY <1>3, SameArray

\* WRITE changes one element of one array.
LEMMA WriteRefines ==
    ASSUME PInv, NEW r \in Rgids, NEW v \in Values, NEW offset \in Nat,
           InRegion(r, offset),
           mem' = [mem EXCEPT ![symrgtbl[r].rg_start + offset] = v],
           symrgtbl' = symrgtbl
    PROVE  offset + 1 \in 1 .. Len(arrays[r]) /\ ProgramArrays!Write(r, offset + 1, v)
<1> DEFINE b == symrgtbl[r].rg_start
           n == symrgtbl[r].rg_end - b
           x == [arrays[r] EXCEPT ![offset + 1] = v]
<1>1. /\ b \in Nat /\ symrgtbl[r].rg_end \in Nat
      /\ offset + 1 \in 1 .. n /\ Len(arrays[r]) = n
    BY InRegionOf
<1>2. b + offset \in Bytes(symrgtbl[r]) /\ b + offset \in Addresses
  <2>1. /\ b + (offset + 1) - 1 \in Bytes(symrgtbl[r])
        /\ b + (offset + 1) - 1 \in Addresses
    BY <1>1, ByteOfArray
  <2>2. b + (offset + 1) - 1 = b + offset
    BY <1>1
  <2> QED
    BY <2>1, <2>2
<1>3. \A a \in Addresses : mem'[a] = IF a = b + offset THEN v ELSE mem[a]
    BY <1>2 DEF PInv
<1>4. ASSUME NEW t \in Rgids \ {r} PROVE arrays'[t] = arrays[t]
    BY <1>2, <1>3, OtherArrays
<1>5. arrays'[r] = x
  <2>1. arrays[r] = [i \in 1 .. n |-> mem[b + i - 1]]
    BY DEF arrays
  <2>2. arrays'[r] = [i \in 1 .. n |-> mem'[b + i - 1]]
    BY DEF arrays
  <2>3. ASSUME NEW i \in 1 .. n
        PROVE  mem'[b + i - 1] = IF i = offset + 1 THEN v ELSE mem[b + i - 1]
    <3>1. b + i - 1 \in Addresses
        BY ByteOfArray
    <3>2. b + i - 1 = b + offset <=> i = offset + 1
        BY <1>1
    <3> QED
        BY <1>3, <3>1, <3>2
  <2>4. x = [i \in 1 .. n |-> IF i = offset + 1 THEN v ELSE mem[b + i - 1]]
    BY <1>1, <2>1, Zenon
  <2>5. [i \in 1 .. n |-> mem'[b + i - 1]] =
            [i \in 1 .. n |-> IF i = offset + 1 THEN v ELSE mem[b + i - 1]]
    BY <2>3, Zenon
  <2> QED
    BY <2>2, <2>4, <2>5, Zenon
<1>6. arrays' = [arrays EXCEPT ![r] = x]
    BY <1>4, <1>5, OneArray
<1> QED
    BY <1>1, <1>6 DEF ProgramArrays!Write

\* The last byte of n decides whether all of them lie below e.
LEMMA CopyRange ==
    ASSUME NEW b \in Nat, NEW e \in Nat, NEW offset \in Nat, NEW n \in Nat,
           n >= 1, b + (offset + (n - 1)) < e
    PROVE  /\ offset + 1 \in 1 .. e - b
           /\ offset + n \in offset + 1 .. e - b
           /\ \A a \in b + offset .. b + offset + n - 1 : a \in b .. e - 1
    OBVIOUS

\* Byte k of an array is copied when its address is.
LEMMA CopyPlace ==
    ASSUME NEW b \in Nat, NEW offset \in Nat, NEW n \in Nat, NEW k \in Int
    PROVE  b + k - 1 \in b + offset .. b + offset + n - 1 <=>
               k \in offset + 1 .. offset + n
    OBVIOUS

\* COPY changes elements of one array.
LEMMA CopyRefines ==
    ASSUME PInv, NEW r \in Rgids, NEW offset \in Nat, NEW size \in Nat,
           COPY(r, offset, size)
    PROVE  \E i \in 1 .. Len(arrays[r]) : \E j \in i .. Len(arrays[r]) :
               ProgramArrays!Copy(r, i, j)
<1> DEFINE b == symrgtbl[r].rg_start
           len == symrgtbl[r].rg_end - b
<1>1. PICK n \in 1 .. size :
          /\ \A i \in 0 .. n - 1 : InRegion(r, offset + i)
          /\ LET from == b + offset IN
             mem' = [a \in Addresses |->
                        IF a \in from .. from + n - 1 THEN Blank ELSE mem[a]]
          /\ UNCHANGED <<vars, regs>>
    BY DEF COPY
<1> DEFINE i == offset + 1
           j == offset + n
           x == [k \in 1 .. Len(arrays[r]) |->
                    IF k \in i .. j THEN Blank ELSE arrays[r][k]]
<1>2. n \in Nat /\ n >= 1 /\ n - 1 \in 0 .. n - 1 /\ offset + (n - 1) \in Nat
    BY <1>1
<1>3. /\ b \in Nat /\ symrgtbl[r].rg_end \in Nat
      /\ b + (offset + (n - 1)) < symrgtbl[r].rg_end /\ Len(arrays[r]) = len
    BY <1>1, <1>2, InRegionOf
<1>4. i \in 1 .. len /\ j \in i .. len
    BY <1>2, <1>3, CopyRange
<1>5. \A a \in Addresses :
          mem'[a] = IF a \in b + offset .. b + offset + n - 1 THEN Blank ELSE mem[a]
    BY <1>1
<1>6. symrgtbl' = symrgtbl
    BY <1>1 DEF vars
<1>7. \A a \in b + offset .. b + offset + n - 1 : a \in Bytes(symrgtbl[r])
  <2>1. \A a \in b + offset .. b + offset + n - 1 : a \in b .. symrgtbl[r].rg_end - 1
    <3> HIDE DEF b
    <3> QED
        BY <1>2, <1>3, CopyRange
  <2> QED
    BY <2>1, Zenon DEF Bytes
<1>8. ASSUME NEW t \in Rgids \ {r} PROVE arrays'[t] = arrays[t]
    BY <1>5, <1>6, <1>7, OtherArrays
<1>9. arrays'[r] = x
  <2>1. arrays[r] = [k \in 1 .. len |-> mem[b + k - 1]]
    BY DEF arrays
  <2>2. arrays'[r] = [k \in 1 .. len |-> mem'[b + k - 1]]
    BY <1>6 DEF arrays
  <2>3. ASSUME NEW k \in 1 .. len
        PROVE  mem'[b + k - 1] = IF k \in i .. j THEN Blank ELSE mem[b + k - 1]
    <3>1. b + k - 1 \in Addresses
        BY ByteOfArray
    <3>2. k \in Int /\ b \in Nat /\ n \in Nat
        BY <1>2, <1>3
    <3>3. b + k - 1 \in b + offset .. b + offset + n - 1 <=> k \in i .. j
        BY <3>2, CopyPlace, Zenon
    <3> QED
        BY <1>5, <3>1, <3>3
  <2>4. x = [k \in 1 .. len |-> IF k \in i .. j THEN Blank ELSE mem[b + k - 1]]
    BY <1>3, <2>1
  <2> QED
    BY <2>2, <2>3, <2>4, Zenon
<1>10. arrays' = [arrays EXCEPT ![r] = x]
    BY <1>8, <1>9, OneArray
<1>11. ProgramArrays!Copy(r, i, j)
    BY <1>3, <1>4, <1>10 DEF ProgramArrays!Copy
<1> QED
    BY <1>3, <1>4, <1>11

\* A program starts with no array.
LEMMA InitRefines == ProcInit => ProgramArrays!Init
<1> SUFFICES ASSUME ProcInit PROVE arrays = [r \in Rgids |-> << >>]
    BY DEF ProgramArrays!Init
<1>1. ASSUME NEW r \in Rgids PROVE arrays[r] = << >>
  <2>1. symrgtbl[r].rg_end - symrgtbl[r].rg_start = 0
    BY DEF ProcInit, Init, NoRegion, Region
  <2>2. arrays[r] = [i \in 1 .. 0 |-> mem[symrgtbl[r].rg_start + i - 1]]
    BY <2>1 DEF arrays
  <2> QED
    BY <2>2
<1> QED
    BY <1>1 DEF arrays

\* Every instruction is an operation on arrays.
LEMMA StepRefines ==
    ASSUME PInv, PInv', [run]_procVars
    PROVE  [ProgramArrays!Next]_arrays
<1> DEFINE Goal == [ProgramArrays!Next]_arrays
<1>1. Sizes \subseteq Nat /\ Offsets \subseteq Nat
    BY RegionsAssumption, ProcessAssumption
<1>2. ASSUME symrgtbl' = symrgtbl, mem' = mem PROVE Goal
    BY <1>2 DEF arrays
<1>3. ASSUME UNCHANGED procVars PROVE Goal
    BY <1>2, <1>3 DEF procVars, vars
<1>4. ASSUME NEW r \in Rgids, NEW size \in Sizes, ALLOC(size, r) PROVE Goal
  <2>1. ProgramArrays!Alloc(r, size)
    BY <1>4, AllocRefines
  <2> QED
    BY <2>1 DEF ProgramArrays!Next
<1>5. ASSUME NEW r \in Rgids, FREE(r) PROVE Goal
  <2>1. CASE Free(r) /\ UNCHANGED mem
    <3>1. ProgramArrays!Free(r)
        BY <2>1, FreeRefines
    <3> QED
        BY <3>1 DEF ProgramArrays!Next
  <2> HIDE DEF Goal
  <2> QED
    BY <1>3, <1>5, <2>1 DEF FREE, Refused
<1>6. ASSUME NEW v \in Values, NEW r \in Rgids, NEW offset \in Offsets,
             WRITE(v, r, offset)
      PROVE  Goal
  <2>1. CASE /\ InRegion(r, offset)
             /\ mem' = [mem EXCEPT ![symrgtbl[r].rg_start + offset] = v]
             /\ UNCHANGED <<vars, regs>>
    <3>1. symrgtbl' = symrgtbl
        BY <2>1 DEF vars
    <3>2. offset + 1 \in 1 .. Len(arrays[r]) /\ ProgramArrays!Write(r, offset + 1, v)
        BY <1>1, <2>1, <3>1, WriteRefines, Zenon
    <3> QED
        BY <3>2 DEF ProgramArrays!Next
  <2> HIDE DEF Goal
  <2> QED
    BY <1>3, <1>6, <2>1 DEF WRITE, Refused
<1>7. ASSUME NEW r \in Rgids, NEW offset \in Offsets, NEW size \in Sizes,
             COPY(r, offset, size)
      PROVE  Goal
  <2>1. \E i \in 1 .. Len(arrays[r]) : \E j \in i .. Len(arrays[r]) :
            ProgramArrays!Copy(r, i, j)
    BY <1>1, <1>7, CopyRefines
  <2> QED
    BY <2>1 DEF ProgramArrays!Next
<1> HIDE DEF Goal
<1>8. ASSUME NEW nr \in Numbers, NEW vmaid \in VmaIds, NEW size \in Sizes,
             SYSCALL(nr, vmaid, size)
      PROVE  Goal
  <2>1. CASE SysMemInc(size) /\ UNCHANGED <<regs, mem>>
    BY <1>2, <2>1 DEF SysMemInc
  <2> QED
    BY <1>3, <1>8, <2>1 DEF SYSCALL, syscall, SysMemmap, Refused
<1>9. ASSUME NEW r \in Rgids, NEW offset \in Offsets, READ(r, offset) PROVE Goal
    BY <1>3, <1>9 DEF READ, Refused
<1>10. Goal
  <2>1. CASE UNCHANGED procVars
    BY <1>3, <2>1, Zenon
  <2>2. ASSUME NEW r \in Rgids, runOn(r) PROVE Goal
    BY <1>4, <1>5, <1>6, <1>7, <1>9, <2>2, Zenon DEF runOn
  <2> QED
    BY <1>8, <2>1, <2>2, Zenon DEF run
<1> QED
    BY <1>10 DEF Goal

\* An instruction that names r leaves every other array as it is.
LEMMA OthersStay ==
    ASSUME PInv, PInv', NEW r \in Rgids, runOn(r), NEW t \in Rgids \ {r}
    PROVE  arrays'[t] = arrays[t]
<1> DEFINE Goal == arrays'[t] = arrays[t]
<1>1. Sizes \subseteq Nat /\ Offsets \subseteq Nat
    BY RegionsAssumption, ProcessAssumption
<1>2. ASSUME NEW x, arrays' = [arrays EXCEPT ![r] = x] PROVE Goal
    BY <1>2, Zenon DEF arrays
<1>3. ASSUME Refused PROVE Goal
    BY <1>3 DEF Refused, procVars, vars, arrays
<1> HIDE DEF Goal
<1>4. ASSUME NEW size \in Sizes, ALLOC(size, r) PROVE Goal
  <2>1. ProgramArrays!Alloc(r, size)
    BY <1>4, AllocRefines
  <2> QED
    BY <1>2, <2>1, Zenon DEF ProgramArrays!Alloc
<1>5. ASSUME FREE(r) PROVE Goal
  <2>1. CASE Free(r) /\ UNCHANGED mem
    <3>1. ProgramArrays!Free(r)
        BY <2>1, FreeRefines
    <3> QED
        BY <1>2, <3>1, Zenon DEF ProgramArrays!Free
  <2> QED
    BY <1>3, <1>5, <2>1 DEF FREE
<1>6. ASSUME NEW v \in Values, NEW offset \in Offsets, WRITE(v, r, offset) PROVE Goal
  <2>1. CASE /\ InRegion(r, offset)
             /\ mem' = [mem EXCEPT ![symrgtbl[r].rg_start + offset] = v]
             /\ UNCHANGED <<vars, regs>>
    <3>1. symrgtbl' = symrgtbl
        BY <2>1 DEF vars
    <3>2. ProgramArrays!Write(r, offset + 1, v)
        BY <1>1, <2>1, <3>1, WriteRefines, Zenon
    <3>3. arrays' = [arrays EXCEPT ![r][offset + 1] = v]
        BY <3>2 DEF ProgramArrays!Write
    <3> QED
        BY <1>2, <3>3, Zenon
  <2> QED
    BY <1>3, <1>6, <2>1 DEF WRITE
<1>7. ASSUME NEW offset \in Offsets, NEW size \in Sizes, COPY(r, offset, size) PROVE Goal
  <2>1. PICK i \in 1 .. Len(arrays[r]) : \E j \in i .. Len(arrays[r]) :
            ProgramArrays!Copy(r, i, j)
    BY <1>1, <1>7, CopyRefines
  <2>2. PICK j \in i .. Len(arrays[r]) : ProgramArrays!Copy(r, i, j)
    BY <2>1
  <2> QED
    BY <1>2, <2>2, Zenon DEF ProgramArrays!Copy
<1>8. ASSUME NEW offset \in Offsets, READ(r, offset) PROVE Goal
    BY <1>3, <1>8 DEF READ
<1>9. Goal
    BY <1>4, <1>5, <1>6, <1>7, <1>8 DEF runOn
<1> QED
    BY <1>9 DEF Goal
-----------------------------------------------------------------------------
(***************************************************************************)
(* Type correctness of a process: its regions, registers and bytes, for    *)
(* every page size, every set of sizes, offsets and system call numbers.   *)
(***************************************************************************)
THEOREM ProcTypeCorrect == ProcSpec => []ProcTypeOK
    BY PInvAlways, PTL DEF PInv, IInv, ProcTypeOK

(***************************************************************************)
(* The registers "store address of allocated regions" (common.h:102) after *)
(* every sequence of instructions: liballoc and libfree keep regs and      *)
(* symrgtbl in step, and no other instruction touches either.              *)
(***************************************************************************)
THEOREM RegistersHoldAddressesAlways == ProcSpec => []RegistersHoldAddresses
    BY PInvAlways, PTL DEF PInv

(***************************************************************************)
(* The library gives a program separate arrays: a step makes, drops or     *)
(* changes one of them, and no byte is part of two, whatever was           *)
(* allocated, freed and allocated again before (libmem.c:69-165, 375-457). *)
(***************************************************************************)
THEOREM ImplementsArraysAlways == ProcSpec => ImplementsArrays
<1>1. ProcInit => ProgramArrays!Init
    BY InitRefines
<1>2. PInv /\ PInv' /\ [run]_procVars => [ProgramArrays!Next]_arrays
    BY StepRefines
<1> QED
    BY <1>1, <1>2, PInvAlways, PTL DEF ProcSpec, ImplementsArrays, ProgramArrays!Spec

(***************************************************************************)
(* The array that changes is the one the instruction names: neither an     *)
(* offset nor a size nor a register used again takes a WRITE or a copy to  *)
(* the array of another register (libmem.c:433-445, 690-749, 972-1003).    *)
(***************************************************************************)
THEOREM OtherArraysStayAlways == ProcSpec => OtherArraysStay
<1>1. PInv /\ PInv' /\ [run]_procVars =>
          [\A t \in Rgids : \/ arrays'[t] = arrays[t]
                           \/ \A r \in Rgids \ {t} : ~runOn(r)]_procVars
    BY OthersStay
<1> QED
    BY <1>1, PInvAlways, PTL DEF ProcSpec, OtherArraysStay
=============================================================================
