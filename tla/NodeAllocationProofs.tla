------------------------ MODULE NodeAllocationProofs ------------------------
(***************************************************************************)
(* The ledger never gives a device to two jobs, and its bitmaps and its    *)
(* memory counter are exact, for any jobs, devices, inventories and        *)
(* renamings.  The memory counter is a sum over the owners, so the theory  *)
(* of such sums comes first; then each method of the ledger is shown to    *)
(* keep LedgerInv, and each action.                                        *)
(***************************************************************************)
EXTENDS NodeAllocation, TLAPS, FiniteSetTheorems, WellFoundedInduction

-----------------------------------------------------------------------------
(* Sums over a finite set.  The induction is on the set: one that violates  *)
(* a claim contains a smallest one that does.                               *)

\* A nonempty set of naturals has a least element.
LEMMA LeastNatural ==
    ASSUME NEW T, T \subseteq Nat, T # {}
    PROVE  \E t \in T : \A u \in T : t <= u
<1> DEFINE R == OpToRel(<, Nat)
<1>1. \A i, j \in Nat : i < j => <<i, j>> \in R
  BY Zenon DEF OpToRel
<1>2. IsWellFoundedOn(R, Nat)
  BY NatLessThanWellFounded, Zenon
<1> HIDE DEF R
<1>3. PICK t \in T : \A u \in T : ~(<<u, t>> \in R)
  BY <1>2, WFMin, Zenon
<1>4. ASSUME NEW u \in T PROVE t <= u
  <2>1. t \in Nat /\ u \in Nat /\ ~(u < t)
    BY <1>1, <1>3, Zenon
  <2> QED BY <2>1
<1> QED BY <1>4, Zenon

\* Among subsets of a finite set there is one with no smaller one.
LEMMA SmallestSet ==
    ASSUME NEW S, IsFiniteSet(S), NEW B, B \subseteq SUBSET S, B # {}
    PROVE  \E s \in B : \A r \in B : r \subseteq s => r = s
<1> DEFINE T == {n \in Nat : \E s \in B : n = Cardinality(s)}
<1>1. ASSUME NEW s \in B PROVE IsFiniteSet(s) /\ Cardinality(s) \in Nat
  BY FS_Subset, FS_CardinalityType, Zenon
<1>2. T \subseteq Nat /\ \A s \in B : Cardinality(s) \in T
  BY <1>1, Zenon
<1>3. T # {}
  BY <1>2, Zenon
<1>4. PICK t \in T : \A u \in T : t <= u
  <2> HIDE DEF T
  <2> QED BY <1>2, <1>3, LeastNatural, Zenon
<1>5. PICK s \in B : t = Cardinality(s)
  BY <1>4, Zenon
<1>6. ASSUME NEW r \in B, r \subseteq s PROVE r = s
  <2>1. /\ IsFiniteSet(s) /\ Cardinality(r) \in Nat /\ Cardinality(s) \in Nat
        /\ Cardinality(s) <= Cardinality(r)
    BY <1>1, <1>2, <1>4, <1>5, Zenon
  <2>2. Cardinality(r) <= Cardinality(s) /\ (Cardinality(s) = Cardinality(r) => s = r)
    BY <1>6, <2>1, FS_Subset, Zenon
  <2>3. Cardinality(s) = Cardinality(r)
    BY <2>1, <2>2
  <2> QED BY <2>2, <2>3, Zenon
<1> QED BY <1>6, Zenon

Any(s) == CHOOSE x \in s : TRUE

Less(s) == s \ {Any(s)}

LEMMA LessFacts ==
    ASSUME NEW s, s # {}
    PROVE  Any(s) \in s /\ Less(s) \subseteq s /\ Less(s) # s
BY Zenon DEF Any, Less

\* What the community module's fold computes on the subsets of S.
Adds(f, S, it) ==
    it = [s \in SUBSET S |-> IF s = {} THEN 0 ELSE f[Any(s)] + it[Less(s)]]

LEMMA AddsValue ==
    ASSUME NEW f, NEW S, NEW it, Adds(f, S, it), NEW s \in SUBSET S
    PROVE  it[s] = IF s = {} THEN 0 ELSE f[Any(s)] + it[Less(s)]
<1> DEFINE g == [r \in SUBSET S |-> IF r = {} THEN 0 ELSE f[Any(r)] + it[Less(r)]]
<1>1. it = g
  BY Zenon DEF Adds
<1>2. g[s] = IF s = {} THEN 0 ELSE f[Any(s)] + it[Less(s)]
  BY Zenon
<1> HIDE DEF g
<1> QED BY <1>1, <1>2, Zenon

LEMMA SumIs ==
    ASSUME NEW f, NEW S
    PROVE  SumFunctionOnSet(f, S) = (CHOOSE it : Adds(f, S, it))[S]
BY Zenon DEF SumFunctionOnSet, FoldFunctionOnSet, MapThenFoldSet, Adds, Any, Less

LEMMA AddsAgree ==
    ASSUME NEW f, NEW S, IsFiniteSet(S), NEW T \in SUBSET S,
           NEW g, Adds(f, S, g), NEW h, Adds(f, T, h)
    PROVE  \A s \in SUBSET T : g[s] = h[s]
<1> DEFINE B == {s \in SUBSET T : g[s] # h[s]}
<1> SUFFICES ASSUME B # {} PROVE FALSE
  BY Zenon
<1>1. PICK s \in B : \A r \in B : r \subseteq s => r = s
  <2>1. B \subseteq SUBSET T /\ IsFiniteSet(T)
    BY FS_Subset, Zenon
  <2> HIDE DEF B
  <2> QED BY <2>1, SmallestSet
<1>2. /\ g[s] = IF s = {} THEN 0 ELSE f[Any(s)] + g[Less(s)]
      /\ h[s] = IF s = {} THEN 0 ELSE f[Any(s)] + h[Less(s)]
  BY AddsValue
<1>3. s # {}
  BY <1>2, Zenon
<1>4. g[Less(s)] = h[Less(s)]
  BY <1>1, <1>3, LessFacts, Zenon
<1> QED BY <1>1, <1>2, <1>3, <1>4, Zenon

LEMMA AddsExists ==
    ASSUME NEW f, NEW S, IsFiniteSet(S)
    PROVE  Adds(f, S, CHOOSE it : Adds(f, S, it))
<1> DEFINE G(s) == CHOOSE it : Adds(f, s, it)
           B == {s \in SUBSET S : ~Adds(f, s, G(s))}
<1> SUFFICES ASSUME B # {} PROVE FALSE
  BY Zenon
<1>1. PICK T \in B : \A r \in B : r \subseteq T => r = T
  <2>1. B \subseteq SUBSET S
    BY Zenon
  <2> HIDE DEF B
  <2> QED BY <2>1, SmallestSet
<1>2. T \in SUBSET S /\ IsFiniteSet(T)
  BY FS_Subset, Zenon
<1>3. ASSUME NEW r \in SUBSET T, r # T PROVE Adds(f, r, G(r))
  BY <1>1, <1>2, <1>3, Zenon
<1> DEFINE it == [s \in SUBSET T |->
                    IF s = {} THEN 0 ELSE f[Any(s)] + G(Less(s))[Less(s)]]
<1>4. ~Adds(f, T, it)
  BY Zenon
<1> HIDE DEF G, B
<1>5. ASSUME NEW s \in SUBSET T, s # {} PROVE it[Less(s)] = G(Less(s))[Less(s)]
  <2> DEFINE r == Less(s)
  <2>1. r \in SUBSET T /\ r # T /\ IsFiniteSet(r)
    BY <1>2, <1>5, LessFacts, FS_Subset, Zenon
  <2> HIDE DEF r
  <2>2. Adds(f, r, G(r))
    BY <1>3, <2>1, Zenon
  <2>3. G(r)[r] = IF r = {} THEN 0 ELSE f[Any(r)] + G(r)[Less(r)]
    BY <2>2, AddsValue
  <2>4. it[r] = IF r = {} THEN 0 ELSE f[Any(r)] + G(Less(r))[Less(r)]
    BY <2>1, Zenon
  <2>5. CASE r # {}
    <3>1. Less(r) \in SUBSET r /\ Less(r) \in SUBSET T /\ Less(r) # T
      BY <2>1, <2>5, LessFacts, Zenon
    <3>2. Adds(f, Less(r), G(Less(r)))
      BY <1>3, <3>1, Zenon
    <3>3. G(r)[Less(r)] = G(Less(r))[Less(r)]
      BY <2>1, <2>2, <3>1, <3>2, AddsAgree
    <3> QED BY <2>3, <2>4, <2>5, <3>3, Zenon DEF r
  <2> QED BY <2>3, <2>4, <2>5, Zenon DEF r
<1>6. it = [s \in SUBSET T |-> IF s = {} THEN 0 ELSE f[Any(s)] + it[Less(s)]]
  <2> DEFINE h == [s \in SUBSET T |-> IF s = {} THEN 0 ELSE f[Any(s)] + it[Less(s)]]
  <2>1. ASSUME NEW s \in SUBSET T PROVE h[s] = it[s]
    <3>1. h[s] = IF s = {} THEN 0 ELSE f[Any(s)] + it[Less(s)]
      BY Zenon
    <3>2. it[s] = IF s = {} THEN 0 ELSE f[Any(s)] + G(Less(s))[Less(s)]
      BY Zenon
    <3> HIDE DEF h, it
    <3> QED BY <3>1, <3>2, <1>5, Zenon
  <2>2. it = [s \in SUBSET T |-> it[s]]
    BY Zenon
  <2>3. h = [s \in SUBSET T |-> h[s]]
    <3> HIDE DEF it
    <3> QED BY Zenon
  <2> HIDE DEF h, it
  <2>4. it = h
    BY <2>1, <2>2, <2>3, Zenon
  <2> QED BY <2>4, Zenon DEF h
<1> QED BY <1>4, <1>6, Zenon DEF Adds

\* The sum of no values is 0, and one value can be taken out of any other sum.
LEMMA SumUnfolds ==
    ASSUME NEW f, NEW S, IsFiniteSet(S)
    PROVE  SumFunctionOnSet(f, S) = IF S = {} THEN 0
                                    ELSE f[Any(S)] + SumFunctionOnSet(f, Less(S))
<1> DEFINE G(s) == CHOOSE it : Adds(f, s, it)
<1>1. Adds(f, S, G(S))
  BY AddsExists, Zenon
<1>2. G(S)[S] = IF S = {} THEN 0 ELSE f[Any(S)] + G(S)[Less(S)]
  <2>1. S \in SUBSET S
    BY Zenon
  <2> HIDE DEF G
  <2> QED BY <1>1, <2>1, AddsValue
<1>3. SumFunctionOnSet(f, S) = G(S)[S] /\ SumFunctionOnSet(f, Less(S)) = G(Less(S))[Less(S)]
  BY SumIs, Zenon
<1>4. ASSUME S # {} PROVE G(S)[Less(S)] = G(Less(S))[Less(S)]
  <2>1. Less(S) \in SUBSET S /\ IsFiniteSet(Less(S))
    BY <1>4, LessFacts, FS_Subset, Zenon
  <2>2. Adds(f, Less(S), G(Less(S)))
    BY <2>1, AddsExists, Zenon
  <2> HIDE DEF G
  <2>3. Less(S) \in SUBSET Less(S)
    BY Zenon
  <2> QED BY <1>1, <2>1, <2>2, <2>3, AddsAgree
<1> HIDE DEF G
<1> QED BY <1>2, <1>3, <1>4, Zenon

LEMMA SumType ==
    ASSUME NEW f, NEW S, IsFiniteSet(S), \A x \in S : f[x] \in Nat
    PROVE  SumFunctionOnSet(f, S) \in Nat
<1> DEFINE B == {s \in SUBSET S : SumFunctionOnSet(f, s) \notin Nat}
<1> SUFFICES ASSUME B # {} PROVE FALSE
  BY Zenon
<1>1. PICK s \in B : \A r \in B : r \subseteq s => r = s
  <2>1. B \subseteq SUBSET S
    BY Zenon
  <2> HIDE DEF B
  <2> QED BY <2>1, SmallestSet
<1>2. IsFiniteSet(s)
  BY FS_Subset, Zenon
<1>3. SumFunctionOnSet(f, s) = IF s = {} THEN 0 ELSE f[Any(s)] + SumFunctionOnSet(f, Less(s))
  BY <1>2, SumUnfolds, Zenon
<1>4. s # {}
  <2>1. SumFunctionOnSet(f, s) # 0
    BY <1>1
  <2> QED BY <1>3, <2>1, Zenon
<1>5. SumFunctionOnSet(f, Less(s)) \in Nat /\ f[Any(s)] \in Nat
  BY <1>1, <1>4, LessFacts, Zenon
<1> QED BY <1>1, <1>3, <1>4, <1>5

\* Only the values summed matter.
LEMMA SumCong ==
    ASSUME NEW f, NEW g, NEW S, IsFiniteSet(S), \A x \in S : f[x] = g[x]
    PROVE  SumFunctionOnSet(f, S) = SumFunctionOnSet(g, S)
<1> DEFINE B == {s \in SUBSET S : SumFunctionOnSet(f, s) # SumFunctionOnSet(g, s)}
<1> SUFFICES ASSUME B # {} PROVE FALSE
  BY Zenon
<1>1. PICK s \in B : \A r \in B : r \subseteq s => r = s
  <2>1. B \subseteq SUBSET S
    BY Zenon
  <2> HIDE DEF B
  <2> QED BY <2>1, SmallestSet
<1>2. IsFiniteSet(s)
  BY FS_Subset, Zenon
<1>3. /\ SumFunctionOnSet(f, s) = IF s = {} THEN 0 ELSE f[Any(s)] + SumFunctionOnSet(f, Less(s))
      /\ SumFunctionOnSet(g, s) = IF s = {} THEN 0 ELSE g[Any(s)] + SumFunctionOnSet(g, Less(s))
  BY <1>2, SumUnfolds, Zenon
<1>4. s # {}
  BY <1>3, Zenon
<1>5. SumFunctionOnSet(f, Less(s)) = SumFunctionOnSet(g, Less(s)) /\ f[Any(s)] = g[Any(s)]
  BY <1>1, <1>4, LessFacts, Zenon
<1> QED BY <1>1, <1>3, <1>4, <1>5, Zenon

\* Any one value may be taken out first.
LEMMA SumTakesOut ==
    ASSUME NEW f, NEW S, IsFiniteSet(S), \A y \in S : f[y] \in Nat, NEW x \in S
    PROVE  SumFunctionOnSet(f, S) = f[x] + SumFunctionOnSet(f, S \ {x})
<1> DEFINE Sum(s) == SumFunctionOnSet(f, s)
           B == {s \in SUBSET S : \E y \in s : Sum(s) # f[y] + Sum(s \ {y})}
<1> SUFFICES ASSUME B # {} PROVE FALSE
  BY Zenon
<1>1. PICK s \in B : \A r \in B : r \subseteq s => r = s
  <2>1. B \subseteq SUBSET S
    BY Zenon
  <2> HIDE DEF B
  <2> QED BY <2>1, SmallestSet
<1>2. PICK y \in s : Sum(s) # f[y] + Sum(s \ {y})
  BY <1>1, Zenon
<1>3. s \in SUBSET S /\ IsFiniteSet(s) /\ s # {}
  BY <1>2, FS_Subset, Zenon
<1> DEFINE z == Any(s)
<1>4. z \in s /\ Less(s) = s \ {z}
  BY <1>3, LessFacts, Zenon DEF Less
<1>5. Sum(s) = f[z] + Sum(s \ {z})
  BY <1>3, <1>4, SumUnfolds, Zenon
<1> HIDE DEF z
<1>6. y # z
  BY <1>2, <1>5, Zenon
<1>7. /\ s \ {y} \in SUBSET S /\ s \ {y} \subseteq s /\ s \ {y} # s /\ z \in s \ {y}
      /\ s \ {z} \in SUBSET S /\ s \ {z} \subseteq s /\ s \ {z} # s /\ y \in s \ {z}
  BY <1>2, <1>3, <1>4, <1>6, Zenon
<1>8. Sum(s \ {y}) = f[z] + Sum((s \ {y}) \ {z})
  BY <1>1, <1>7, Zenon
<1>9. Sum(s \ {z}) = f[y] + Sum((s \ {z}) \ {y})
  BY <1>1, <1>7, Zenon
<1> DEFINE q == (s \ {y}) \ {z}
<1>10. (s \ {z}) \ {y} = q /\ q \in SUBSET S
  BY <1>3
<1> HIDE DEF q
<1>11. Sum(q) \in Nat /\ f[y] \in Nat /\ f[z] \in Nat
  BY <1>2, <1>3, <1>4, <1>10, FS_Subset, SumType, Zenon
<1>12. Sum(s \ {y}) = f[z] + Sum(q)
  BY <1>8, Zenon DEF q
<1>13. Sum(s \ {z}) = f[y] + Sum(q)
  BY <1>9, <1>10, Zenon
<1> HIDE DEF Sum
<1> QED BY <1>2, <1>5, <1>11, <1>12, <1>13

\* A sum in two parts.
LEMMA SumSplits ==
    ASSUME NEW f, NEW S, IsFiniteSet(S), \A y \in S : f[y] \in Nat, NEW T \in SUBSET S
    PROVE  SumFunctionOnSet(f, S) = SumFunctionOnSet(f, T) + SumFunctionOnSet(f, S \ T)
<1> DEFINE Sum(s) == SumFunctionOnSet(f, s)
           B == {s \in SUBSET T : Sum(S) # Sum(s) + Sum(S \ s)}
<1> SUFFICES ASSUME B # {} PROVE FALSE
  BY Zenon
<1>0. IsFiniteSet(T)
  BY FS_Subset, Zenon
<1>1. PICK s \in B : \A r \in B : r \subseteq s => r = s
  <2>1. B \subseteq SUBSET T
    BY Zenon
  <2> HIDE DEF B
  <2> QED BY <1>0, <2>1, SmallestSet
<1>2. s \in SUBSET S /\ IsFiniteSet(s) /\ S \ s \in SUBSET S
  BY FS_Subset, Zenon
<1>3. Sum(S) \in Nat /\ Sum(s) \in Nat /\ Sum(S \ s) \in Nat
  BY <1>2, FS_Subset, SumType, Zenon
<1>4. s # {}
  <2> SUFFICES ASSUME s = {} PROVE FALSE
    BY Zenon
  <2>1. Sum(s) = 0 /\ S \ s = S
    BY <1>2, SumUnfolds, Zenon
  <2> HIDE DEF Sum
  <2> QED BY <1>1, <1>3, <2>1
<1> DEFINE x == Any(s)
           r == s \ {x}
<1>5. x \in s /\ r \subseteq s /\ r # s
  BY <1>4, LessFacts, Zenon DEF Less
<1>6. Sum(s) = f[x] + Sum(r)
  BY <1>2, <1>5, SumTakesOut
<1> HIDE DEF x
<1>7. x \in S \ r /\ (S \ r) \ {x} = S \ s
  BY <1>2, <1>5
<1>8. S \ r \in SUBSET S /\ r \in SUBSET T /\ r \in SUBSET S
  BY <1>1, <1>2, <1>5, Zenon
<1>9. Sum(S \ r) = f[x] + Sum(S \ s)
  BY <1>7, <1>8, FS_Subset, SumTakesOut
<1>10. Sum(S) = Sum(r) + Sum(S \ r)
  BY <1>1, <1>5, <1>8, Zenon
<1>11. f[x] \in Nat /\ Sum(r) \in Nat /\ Sum(S \ r) \in Nat
  BY <1>2, <1>5, <1>8, FS_Subset, SumType, Zenon
<1>12. Sum(S) # Sum(s) + Sum(S \ s)
  BY <1>1, Zenon
<1> HIDE DEF Sum, r
<1> QED BY <1>3, <1>6, <1>9, <1>10, <1>11, <1>12
LEMMA SumOfZeros ==
    ASSUME NEW f, NEW S, IsFiniteSet(S), \A x \in S : f[x] = 0
    PROVE  SumFunctionOnSet(f, S) = 0
<1> DEFINE B == {s \in SUBSET S : SumFunctionOnSet(f, s) # 0}
<1> SUFFICES ASSUME B # {} PROVE FALSE
  BY Zenon
<1>1. PICK s \in B : \A r \in B : r \subseteq s => r = s
  <2>1. B \subseteq SUBSET S
    BY Zenon
  <2> HIDE DEF B
  <2> QED BY <2>1, SmallestSet
<1>2. IsFiniteSet(s)
  BY FS_Subset, Zenon
<1>3. SumFunctionOnSet(f, s) = IF s = {} THEN 0 ELSE f[Any(s)] + SumFunctionOnSet(f, Less(s))
  BY <1>2, SumUnfolds, Zenon
<1>4. s # {}
  BY <1>3, Zenon
<1>5. SumFunctionOnSet(f, Less(s)) = 0 /\ f[Any(s)] = 0
  BY <1>1, <1>4, LessFacts, Zenon
<1> QED BY <1>1, <1>3, <1>4, <1>5

-----------------------------------------------------------------------------
(* Ledgers.                                                                *)

Typed(l) == l \in Ledger

Disjoint(l) ==
    \A i, j \in Job : i # j =>
        /\ l.owners[i].cpus \cap l.owners[j].cpus = {}
        /\ l.owners[i].gpus \cap l.owners[j].gpus = {}

Exact(l) ==
    /\ l.taken = HeldCpus(l) \cup l.unavailable
    /\ l.gpuTaken = HeldGpus(l)
    /\ l.taken \subseteq l.cpus
    /\ l.gpuTaken \subseteq l.gpus

MemHeld(l, S) == SumFunctionOnSet([j \in Job |-> l.owners[j].mem], S)

Counted(l) == l.mem = MemHeld(l, Job)

Marked(l) == \A j \in l.launching : Owns(l, j)

LedgerInv(l) == Typed(l) /\ Disjoint(l) /\ Exact(l) /\ Counted(l) /\ Marked(l)

LEMMA OwnerMem ==
    ASSUME NEW o \in Owner
    PROVE  o.mem \in Nat
<1>1. Mem \cup {0} \subseteq Nat
  BY LedgerAssumption
<1>2. o.mem \in Mem \cup {0}
  BY Zenon DEF Owner
<1> QED BY <1>1, <1>2, Zenon

LEMMA MemSplits ==
    ASSUME NEW l, Typed(l), NEW S \in SUBSET Job
    PROVE  /\ MemHeld(l, S) \in Nat /\ MemHeld(l, Job \ S) \in Nat
           /\ MemHeld(l, Job) = MemHeld(l, S) + MemHeld(l, Job \ S)
<1> DEFINE f == [j \in Job |-> l.owners[j].mem]
<1>1. \A j \in Job : f[j] \in Nat
  BY OwnerMem, Zenon DEF Typed, Ledger
<1>2. IsFiniteSet(Job) /\ IsFiniteSet(S) /\ IsFiniteSet(Job \ S)
  BY LedgerAssumption, FS_Subset, Zenon
<1>3. MemHeld(l, Job) = SumFunctionOnSet(f, Job)
  BY Zenon DEF MemHeld
<1>4. MemHeld(l, S) = SumFunctionOnSet(f, S) /\ MemHeld(l, Job \ S) = SumFunctionOnSet(f, Job \ S)
  BY Zenon DEF MemHeld
<1> HIDE DEF f
<1>5. SumFunctionOnSet(f, S) \in Nat /\ SumFunctionOnSet(f, Job \ S) \in Nat
  BY <1>1, <1>2, SumType
<1>6. SumFunctionOnSet(f, Job) = SumFunctionOnSet(f, S) + SumFunctionOnSet(f, Job \ S)
  BY <1>1, <1>2, SumSplits
<1> QED BY <1>3, <1>4, <1>5, <1>6, Zenon

LEMMA MemHeldFacts ==
    ASSUME NEW l, LedgerInv(l), NEW S \in SUBSET Job
    PROVE  /\ MemHeld(l, S) \in Nat /\ MemHeld(l, Job \ S) \in Nat
           /\ l.mem = MemHeld(l, S) + MemHeld(l, Job \ S)
BY MemSplits DEF LedgerInv, Counted

\* Two ledgers whose owners hold the same memory on S.
LEMMA MemHeldSame ==
    ASSUME NEW l, NEW r, NEW S \in SUBSET Job, \A j \in S : r.owners[j].mem = l.owners[j].mem
    PROVE  MemHeld(r, S) = MemHeld(l, S)
<1> DEFINE f == [j \in Job |-> l.owners[j].mem]
           g == [j \in Job |-> r.owners[j].mem]
<1>1. \A j \in S : g[j] = f[j]
  BY Zenon
<1>2. IsFiniteSet(S)
  BY LedgerAssumption, FS_Subset, Zenon
<1>3. MemHeld(l, S) = SumFunctionOnSet(f, S) /\ MemHeld(r, S) = SumFunctionOnSet(g, S)
  BY Zenon DEF MemHeld
<1> HIDE DEF f, g
<1> QED BY <1>1, <1>2, <1>3, SumCong

LEMMA MemHeldNone ==
    ASSUME NEW l, NEW S \in SUBSET Job, \A j \in S : l.owners[j].mem = 0
    PROVE  MemHeld(l, S) = 0
<1> DEFINE f == [j \in Job |-> l.owners[j].mem]
<1>1. \A j \in S : f[j] = 0
  BY Zenon
<1>2. IsFiniteSet(S)
  BY LedgerAssumption, FS_Subset, Zenon
<1>3. MemHeld(l, S) = SumFunctionOnSet(f, S)
  BY Zenon DEF MemHeld
<1> HIDE DEF f
<1> QED BY <1>1, <1>2, <1>3, SumOfZeros

LEMMA MemOfOne ==
    ASSUME NEW l, Typed(l), NEW j \in Job
    PROVE  MemHeld(l, {j}) = l.owners[j].mem
<1> DEFINE f == [i \in Job |-> l.owners[i].mem]
<1>1. f[j] = l.owners[j].mem /\ f[j] \in Nat
  BY OwnerMem, Zenon DEF Typed, Ledger
<1>2. IsFiniteSet({j}) /\ {j} # {} /\ Any({j}) = j /\ Less({j}) = {} /\ IsFiniteSet({})
  BY FS_Singleton, FS_EmptySet, LessFacts, Zenon DEF Less
<1>3. MemHeld(l, {j}) = SumFunctionOnSet(f, {j})
  BY Zenon DEF MemHeld
<1> HIDE DEF f
<1>4. SumFunctionOnSet(f, {j}) = f[j] + SumFunctionOnSet(f, {})
  BY <1>2, SumUnfolds, Zenon
<1>5. SumFunctionOnSet(f, {}) = 0
  BY <1>2, SumUnfolds, Zenon
<1> QED BY <1>1, <1>3, <1>4, <1>5

\* A method that leaves the attempts, the memory and the markers alone.
LEMMA CountsKept ==
    ASSUME NEW l, LedgerInv(l), NEW r, r.mem = l.mem, r.launching \subseteq l.launching,
           \A j \in Job : /\ r.owners[j].mem = l.owners[j].mem
                          /\ r.owners[j].att = l.owners[j].att
    PROVE  Counted(r) /\ Marked(r)
<1>1. MemHeld(r, Job) = MemHeld(l, Job)
  BY MemHeldSame
<1>2. r.launching \subseteq Job
  BY Zenon DEF LedgerInv, Typed, Ledger
<1> QED BY <1>1, <1>2, Zenon DEF LedgerInv, Counted, Marked, Owns

LEMMA MarkKeeps ==
    ASSUME NEW l, LedgerInv(l), NEW spec \in SUBSET Cpu
    PROVE  LedgerInv(mark_cpus_unavailable(l, spec))
<1> DEFINE r == mark_cpus_unavailable(l, spec)
<1>1. /\ r.cpus = l.cpus /\ r.gpus = l.gpus /\ r.gpuTaken = l.gpuTaken
      /\ r.fenced = l.fenced /\ r.owners = l.owners /\ r.launching = l.launching /\ r.mem = l.mem
      /\ r.taken = l.taken \cup (spec \cap l.cpus)
      /\ r.unavailable = l.unavailable \cup (spec \cap l.cpus)
  BY Zenon DEF LedgerInv, Typed, Ledger, mark_cpus_unavailable
<1>2. Typed(r)
  BY Zenon DEF LedgerInv, Typed, Ledger, mark_cpus_unavailable
<1> HIDE DEF r
<1>d. Disjoint(r)
  BY <1>1, Zenon DEF LedgerInv, Disjoint
<1>3. HeldCpus(r) = HeldCpus(l) /\ HeldGpus(r) = HeldGpus(l)
  BY <1>1, Zenon DEF HeldCpus, HeldGpus, CpusOf, GpusOf
<1>4. Exact(r)
  BY <1>1, <1>3, Zenon DEF LedgerInv, Exact
<1>m. Counted(r) /\ Marked(r)
  BY <1>1, CountsKept, Zenon
<1>5. LedgerInv(r)
  BY <1>2, <1>d, <1>4, <1>m, Zenon DEF LedgerInv
<1> QED BY <1>5, Zenon DEF r

LEMMA SpecKeeps ==
    ASSUME NEW l, LedgerInv(l), NEW spec \in SUBSET Cpu
    PROVE  LedgerInv(set_spec_exclusions(l, spec))
<1> DEFINE r == [l EXCEPT !.unavailable = @ \cap spec,
                          !.taken = @ \ ((l.unavailable \ spec) \ HeldCpus(l))]
<1>1. /\ r.cpus = l.cpus /\ r.gpus = l.gpus /\ r.gpuTaken = l.gpuTaken
      /\ r.fenced = l.fenced /\ r.owners = l.owners /\ r.launching = l.launching /\ r.mem = l.mem
      /\ r.taken = l.taken \ ((l.unavailable \ spec) \ HeldCpus(l))
      /\ r.unavailable = l.unavailable \cap spec
  BY Zenon DEF LedgerInv, Typed, Ledger
<1>a. set_spec_exclusions(l, spec) = mark_cpus_unavailable(r, spec)
  BY Zenon DEF set_spec_exclusions
<1>2. Typed(r)
  BY Zenon DEF LedgerInv, Typed, Ledger
<1> HIDE DEF r
<1>d. Disjoint(r)
  BY <1>1, Zenon DEF LedgerInv, Disjoint
<1>3. HeldCpus(r) = HeldCpus(l) /\ HeldGpus(r) = HeldGpus(l)
  BY <1>1, Zenon DEF HeldCpus, HeldGpus, CpusOf, GpusOf
<1>4. Exact(r)
  BY <1>1, <1>3, Zenon DEF LedgerInv, Exact
<1>m. Counted(r) /\ Marked(r)
  BY <1>1, CountsKept, Zenon
<1>5. LedgerInv(r)
  BY <1>2, <1>d, <1>4, <1>m, Zenon DEF LedgerInv
<1> QED BY <1>5, <1>a, MarkKeeps, Zenon

LEMMA CapacityKeeps ==
    ASSUME NEW l, LedgerInv(l), NEW C \in SUBSET Cpu, NEW G \in SUBSET Gpu
    PROVE  LedgerInv(update_capacity(l, C, G))
<1> SUFFICES ASSUME CapacityApplies(l, C, G) PROVE LedgerInv(update_capacity(l, C, G))
  BY Zenon DEF update_capacity
<1> DEFINE r == [l EXCEPT !.cpus = C, !.taken = HeldCpus(l), !.unavailable = {},
                          !.gpus = G, !.gpuTaken = HeldGpus(l)]
<1>1. /\ r.cpus = C /\ r.gpus = G /\ r.gpuTaken = HeldGpus(l)
      /\ r.fenced = l.fenced /\ r.owners = l.owners /\ r.launching = l.launching /\ r.mem = l.mem
      /\ r.taken = HeldCpus(l) /\ r.unavailable = {}
  BY Zenon DEF LedgerInv, Typed, Ledger
<1>a. update_capacity(l, C, G) = r
  BY Zenon DEF update_capacity
<1>2. Typed(r)
  BY Zenon DEF LedgerInv, Typed, Ledger, CapacityApplies
<1> HIDE DEF r
<1>d. Disjoint(r)
  BY <1>1, Zenon DEF LedgerInv, Disjoint
<1>3. HeldCpus(r) = HeldCpus(l) /\ HeldGpus(r) = HeldGpus(l)
  BY <1>1, Zenon DEF HeldCpus, HeldGpus, CpusOf, GpusOf
<1>4. Exact(r)
  BY <1>1, <1>3, Zenon DEF LedgerInv, Exact, CapacityApplies
<1>m. Counted(r) /\ Marked(r)
  BY <1>1, CountsKept, Zenon
<1>5. LedgerInv(r)
  BY <1>2, <1>d, <1>4, <1>m, Zenon DEF LedgerInv
<1> QED BY <1>5, <1>a, Zenon

LEMMA RenameKeeps ==
    ASSUME NEW l, LedgerInv(l), NEW f \in Renaming
    PROVE  LedgerInv(rename_gpus(l, f))
<1> DEFINE own == [j \in Job |-> [l.owners[j] EXCEPT !.gpus = Renamed(f, @)]]
           r == rename_gpus(l, f)
<1>0. /\ f \in [Gpu -> Gpu]
      /\ \A x, y \in Gpu : f[x] = f[y] => x = y
  BY LedgerAssumption, Zenon
<1>1. /\ r.cpus = l.cpus /\ r.gpus = Renamed(f, l.gpus) /\ r.gpuTaken = Renamed(f, l.gpuTaken)
      /\ r.fenced = l.fenced /\ r.owners = own /\ r.launching = l.launching
      /\ r.taken = l.taken /\ r.unavailable = l.unavailable /\ r.mem = l.mem
  BY Zenon DEF LedgerInv, Typed, Ledger, rename_gpus
<1>2. ASSUME NEW j \in Job
      PROVE  /\ own[j] \in Owner
             /\ own[j].cpus = l.owners[j].cpus
             /\ own[j].att = l.owners[j].att /\ own[j].mem = l.owners[j].mem
             /\ own[j].gpus = Renamed(f, l.owners[j].gpus)
  <2>1. l.owners[j] \in Owner
    BY Zenon DEF LedgerInv, Typed, Ledger
  <2>2. Renamed(f, l.owners[j].gpus) \in SUBSET Gpu
    BY <2>1, <1>0 DEF Owner, Renamed
  <2> QED BY <2>1, <2>2, Zenon DEF Owner
<1>3. own \in [Job -> Owner]
  BY <1>2, Zenon
<1>a. Renamed(f, l.gpus) \in SUBSET Gpu /\ Renamed(f, l.gpuTaken) \in SUBSET Gpu
  BY <1>0 DEF LedgerInv, Typed, Ledger, Renamed
<1>4. Typed(r)
  <2> HIDE DEF own
  <2>1. r = [l EXCEPT !.gpus = Renamed(f, @), !.gpuTaken = Renamed(f, @), !.owners = own]
    BY Zenon DEF rename_gpus, own
  <2> HIDE DEF r
  <2> QED BY <2>1, <1>a, <1>3, Zenon DEF LedgerInv, Typed, Ledger
<1> HIDE DEF r, own
<1>5. Disjoint(r)
  <2> SUFFICES ASSUME NEW i \in Job, NEW j \in Job, i # j
               PROVE  /\ own[i].cpus \cap own[j].cpus = {}
                      /\ own[i].gpus \cap own[j].gpus = {}
    BY <1>1, Zenon DEF Disjoint
  <2>1. /\ l.owners[i].cpus \cap l.owners[j].cpus = {}
        /\ l.owners[i].gpus \cap l.owners[j].gpus = {}
        /\ l.owners[i].gpus \subseteq Gpu /\ l.owners[j].gpus \subseteq Gpu
    BY Zenon DEF LedgerInv, Typed, Ledger, Disjoint, Owner
  <2>2. Renamed(f, l.owners[i].gpus) \cap Renamed(f, l.owners[j].gpus) = {}
    BY <2>1, <1>0 DEF Renamed
  <2> QED BY <2>1, <2>2, <1>2, Zenon
<1>6. HeldCpus(r) = HeldCpus(l)
  BY <1>1, <1>2, Zenon DEF HeldCpus, CpusOf
<1>7. HeldGpus(r) = Renamed(f, HeldGpus(l))
  BY <1>1, <1>2 DEF HeldGpus, GpusOf, Renamed
<1>8. Exact(r)
  BY <1>1, <1>6, <1>7, Zenon DEF LedgerInv, Exact, Renamed
<1>m. Counted(r) /\ Marked(r)
  BY <1>1, <1>2, CountsKept, Zenon
<1>9. LedgerInv(r)
  BY <1>1, <1>4, <1>5, <1>8, <1>m, Zenon DEF LedgerInv
<1> QED BY <1>9, Zenon DEF r

LEMMA ReleaseFields ==
    ASSUME NEW l, LedgerInv(l), NEW S \in SUBSET Job
    PROVE  LET r == ReleaseJobs(l, S) IN
           /\ r.cpus = l.cpus /\ r.gpus = l.gpus /\ r.unavailable = l.unavailable
           /\ r.fenced = l.fenced /\ r.launching = l.launching \ S
           /\ r.owners = [j \in Job |-> IF j \in S THEN NoOwner ELSE l.owners[j]]
           /\ r.taken = l.taken \ (CpusOf(l, S) \ l.unavailable)
           /\ r.gpuTaken = l.gpuTaken \ GpusOf(l, S)
           /\ r.mem = IF MemHeld(l, S) <= l.mem THEN l.mem - MemHeld(l, S) ELSE 0
  BY Zenon DEF LedgerInv, Typed, Ledger, ReleaseJobs, FreedCpus, Unmarked, MemHeld

LEMMA ReleaseKeeps ==
    ASSUME NEW l, LedgerInv(l), NEW S \in SUBSET Job
    PROVE  LedgerInv(ReleaseJobs(l, S))
<1> DEFINE r == ReleaseJobs(l, S)
<1>1. /\ r.cpus = l.cpus /\ r.gpus = l.gpus /\ r.unavailable = l.unavailable
      /\ r.fenced = l.fenced /\ r.launching = l.launching \ S
      /\ r.owners = [j \in Job |-> IF j \in S THEN NoOwner ELSE l.owners[j]]
      /\ r.taken = l.taken \ (CpusOf(l, S) \ l.unavailable)
      /\ r.gpuTaken = l.gpuTaken \ GpusOf(l, S)
      /\ r.mem = IF MemHeld(l, S) <= l.mem THEN l.mem - MemHeld(l, S) ELSE 0
  BY ReleaseFields
<1>t. r = [l EXCEPT !.launching = r.launching, !.owners = r.owners, !.taken = r.taken,
                    !.gpuTaken = r.gpuTaken, !.mem = r.mem]
  BY Zenon DEF LedgerInv, Typed, Ledger, ReleaseJobs
<1> HIDE DEF r
<1>2. \A j \in Job : /\ r.owners[j] = IF j \in S THEN NoOwner ELSE l.owners[j]
                     /\ r.owners[j] \in Owner
  BY <1>1, LedgerAssumption DEF LedgerInv, Typed, Ledger, Owner, NoOwner
<1>m. r.mem = MemHeld(l, Job \ S) /\ r.mem \in Nat
  BY <1>1, MemHeldFacts
<1>3. Typed(r)
  <2>1. r.owners \in [Job -> Owner] /\ r.mem \in Nat
    BY <1>1, <1>2, <1>m, Zenon
  <2>2. /\ r.launching \in SUBSET Job /\ r.taken \in SUBSET Cpu
        /\ r.gpuTaken \in SUBSET Gpu
    BY <1>1, Zenon DEF LedgerInv, Typed, Ledger
  <2> QED BY <1>t, <2>1, <2>2, Zenon DEF LedgerInv, Typed, Ledger
<1>4. Disjoint(r)
  BY <1>2 DEF LedgerInv, Disjoint, NoOwner
<1>5. HeldCpus(r) = HeldCpus(l) \ CpusOf(l, S)
  <2>1. \A c : c \in HeldCpus(r) <=> \E j \in Job : c \in r.owners[j].cpus
    BY Zenon DEF HeldCpus, CpusOf
  <2>2. \A c : c \in HeldCpus(l) <=> \E j \in Job : c \in l.owners[j].cpus
    BY Zenon DEF HeldCpus, CpusOf
  <2>3. \A j \in Job : j \in S => r.owners[j].cpus = {}
    BY <1>2 DEF NoOwner
  <2> QED BY <2>1, <2>2, <2>3, <1>2 DEF LedgerInv, Disjoint, CpusOf
<1>6. HeldGpus(r) = HeldGpus(l) \ GpusOf(l, S)
  <2>1. \A c : c \in HeldGpus(r) <=> \E j \in Job : c \in r.owners[j].gpus
    BY Zenon DEF HeldGpus, GpusOf
  <2>2. \A c : c \in HeldGpus(l) <=> \E j \in Job : c \in l.owners[j].gpus
    BY Zenon DEF HeldGpus, GpusOf
  <2>3. \A j \in Job : j \in S => r.owners[j].gpus = {}
    BY <1>2 DEF NoOwner
  <2> QED BY <2>1, <2>2, <2>3, <1>2 DEF LedgerInv, Disjoint, GpusOf
<1>7. Exact(r)
  BY <1>1, <1>5, <1>6, Zenon DEF LedgerInv, Exact
<1>c. Counted(r)
  <2>1. MemHeld(r, Job \ S) = MemHeld(l, Job \ S)
    BY <1>2, MemHeldSame
  <2>2. \A j \in S : r.owners[j].mem = 0
    BY <1>2 DEF NoOwner
  <2>3. MemHeld(r, S) = 0
    BY <2>2, MemHeldNone
  <2>4. MemHeld(r, Job) = MemHeld(r, S) + MemHeld(r, Job \ S)
    BY <1>3, MemSplits
  <2> QED BY <1>m, <2>1, <2>3, <2>4 DEF Counted
<1>k. Marked(r)
  BY <1>1, <1>2, Zenon DEF LedgerInv, Typed, Ledger, Marked, Owns
<1>8. LedgerInv(r)
  BY <1>3, <1>4, <1>7, <1>c, <1>k, Zenon DEF LedgerInv
<1> QED BY <1>8, Zenon DEF r

LEMMA HoldingKeeps ==
    ASSUME NEW l, LedgerInv(l), NEW j \in Job, NEW o \in Owner,
           l.owners[j] = NoOwner,
           o.att # 0,
           o.cpus \subseteq l.cpus, o.cpus \cap HeldCpus(l) = {},
           o.gpus \subseteq l.gpus, o.gpus \cap l.gpuTaken = {}
    PROVE  LedgerInv(Holding(l, j, o))
<1> DEFINE r == Holding(l, j, o)
<1>1. /\ r.cpus = l.cpus /\ r.gpus = l.gpus /\ r.unavailable = l.unavailable
      /\ r.fenced = l.fenced /\ r.launching = l.launching
      /\ r.owners = [l.owners EXCEPT ![j] = o]
      /\ r.taken = l.taken \cup o.cpus
      /\ r.gpuTaken = l.gpuTaken \cup o.gpus
      /\ r.mem = l.mem + o.mem
  BY Zenon DEF LedgerInv, Typed, Ledger, Holding
<1>2. Typed(r)
  <2>1. r.owners \in [Job -> Owner] /\ o.cpus \in SUBSET Cpu /\ o.gpus \in SUBSET Gpu
    BY <1>1 DEF LedgerInv, Typed, Ledger, Owner
  <2>2. l.mem + o.mem \in Nat
    <3>1. l.mem \in Nat /\ o.mem \in Nat
      BY OwnerMem, Zenon DEF LedgerInv, Typed, Ledger
    <3> QED BY <3>1
  <2> QED BY <2>1, <2>2, Zenon DEF LedgerInv, Typed, Ledger, Holding
<1> HIDE DEF r
<1>3. \A i \in Job : r.owners[i] = IF i = j THEN o ELSE l.owners[i]
  BY <1>1, Zenon DEF LedgerInv, Typed, Ledger
<1>4. \A c : c \in HeldCpus(l) <=> \E i \in Job : c \in l.owners[i].cpus
  BY Zenon DEF HeldCpus, CpusOf
<1>5. \A c : c \in HeldGpus(l) <=> \E i \in Job : c \in l.owners[i].gpus
  BY Zenon DEF HeldGpus, GpusOf
<1>6. \A c : c \in HeldCpus(r) <=> \E i \in Job : c \in r.owners[i].cpus
  BY Zenon DEF HeldCpus, CpusOf
<1>7. \A c : c \in HeldGpus(r) <=> \E i \in Job : c \in r.owners[i].gpus
  BY Zenon DEF HeldGpus, GpusOf
<1>8. l.owners[j].cpus = {} /\ l.owners[j].gpus = {}
  BY DEF NoOwner
<1>9. Exact(l)
  BY Zenon DEF LedgerInv
<1>10. Disjoint(r)
  <2>1. \A i \in Job : o.cpus \cap l.owners[i].cpus = {} /\ o.gpus \cap l.owners[i].gpus = {}
    BY <1>4, <1>5, <1>9, Zenon DEF Exact
  <2> QED BY <2>1, <1>3, Zenon DEF LedgerInv, Disjoint
<1>11. HeldCpus(r) = HeldCpus(l) \cup o.cpus
  BY <1>3, <1>4, <1>6, <1>8
<1>12. HeldGpus(r) = HeldGpus(l) \cup o.gpus
  BY <1>3, <1>5, <1>7, <1>8, Zenon
<1>13. Exact(r)
  BY <1>1, <1>9, <1>11, <1>12, Zenon DEF Exact
<1>c. Counted(r)
  <2>1. MemHeld(r, Job \ {j}) = MemHeld(l, Job \ {j})
    BY <1>3, MemHeldSame
  <2>2. l.mem = MemHeld(l, {j}) + MemHeld(l, Job \ {j}) /\ MemHeld(l, Job \ {j}) \in Nat
    BY MemHeldFacts
  <2>3. MemHeld(r, Job) = MemHeld(r, {j}) + MemHeld(r, Job \ {j})
    BY <1>2, MemSplits
  <2>4. MemHeld(l, {j}) = 0
    BY MemHeldNone DEF NoOwner
  <2>5. MemHeld(r, {j}) = o.mem
    BY <1>2, <1>3, MemOfOne
  <2>6. o.mem \in Nat
    BY OwnerMem, Zenon
  <2> QED BY <1>1, <2>1, <2>2, <2>3, <2>4, <2>5, <2>6 DEF Counted
<1>k. Marked(r)
  BY <1>1, <1>3, Zenon DEF LedgerInv, Typed, Ledger, Marked, Owns
<1>14. LedgerInv(r)
  BY <1>2, <1>10, <1>13, <1>c, <1>k, Zenon DEF LedgerInv
<1> QED BY <1>14, Zenon DEF r

\* What is left of a ledger after a job's own reservation is released: the
\* job's devices, and nothing else, are given back.
LEMMA OwnReleased ==
    ASSUME NEW l, LedgerInv(l), NEW j \in Job
    PROVE  LET r == release_job(l, j) IN
           /\ LedgerInv(r)
           /\ r.cpus = l.cpus /\ r.gpus = l.gpus /\ r.fenced = l.fenced
           /\ r.launching = l.launching \ {j}
           /\ r.owners[j] = NoOwner
           /\ \A i \in Job \ {j} : r.owners[i] = l.owners[i]
           /\ HeldCpus(r) \cap l.owners[j].cpus = {}
           /\ HeldCpus(r) \subseteq HeldCpus(l)
           /\ r.gpuTaken = l.gpuTaken \ l.owners[j].gpus
<1> DEFINE r == release_job(l, j)
<1>1. LedgerInv(r)
  BY ReleaseKeeps, Zenon DEF release_job
<1>2. /\ r.cpus = l.cpus /\ r.gpus = l.gpus /\ r.fenced = l.fenced
      /\ r.launching = l.launching \ {j}
      /\ r.owners = [i \in Job |-> IF i \in {j} THEN NoOwner ELSE l.owners[i]]
      /\ r.gpuTaken = l.gpuTaken \ GpusOf(l, {j})
  BY ReleaseFields DEF release_job
<1> HIDE DEF r
<1>3. \A i \in Job : r.owners[i] = IF i = j THEN NoOwner ELSE l.owners[i]
  BY <1>2, Zenon
<1>4. GpusOf(l, {j}) = l.owners[j].gpus
  BY Zenon DEF GpusOf
<1>5. \A c : c \in HeldCpus(r) <=> \E i \in Job : c \in r.owners[i].cpus
  BY Zenon DEF HeldCpus, CpusOf
<1>6. \A c : c \in HeldCpus(l) <=> \E i \in Job : c \in l.owners[i].cpus
  BY Zenon DEF HeldCpus, CpusOf
<1>7. r.owners[j].cpus = {}
  BY <1>3 DEF NoOwner
<1>8. HeldCpus(r) \cap l.owners[j].cpus = {} /\ HeldCpus(r) \subseteq HeldCpus(l)
  BY <1>3, <1>5, <1>6, <1>7 DEF LedgerInv, Disjoint
<1> QED BY <1>1, <1>2, <1>3, <1>4, <1>8, Zenon DEF r

\* Only the set of jobs that are launching changes.
LEMMA MarkerKeeps ==
    ASSUME NEW l, LedgerInv(l), NEW S \in SUBSET Job, \A j \in S : Owns(l, j)
    PROVE  LedgerInv([l EXCEPT !.launching = S])
<1> DEFINE r == [l EXCEPT !.launching = S]
<1>1. /\ r.cpus = l.cpus /\ r.gpus = l.gpus /\ r.unavailable = l.unavailable
      /\ r.owners = l.owners /\ r.taken = l.taken /\ r.gpuTaken = l.gpuTaken
      /\ r.mem = l.mem /\ r.launching = S
  BY Zenon DEF LedgerInv, Typed, Ledger
<1>2. Typed(r)
  BY Zenon DEF LedgerInv, Typed, Ledger
<1> HIDE DEF r
<1>3. Disjoint(r) /\ Exact(r)
  BY <1>1 DEF LedgerInv, Disjoint, Exact, HeldCpus, HeldGpus, CpusOf, GpusOf
<1>m. Counted(r) /\ Marked(r)
  BY <1>1, Zenon DEF LedgerInv, Counted, Marked, MemHeld, Owns
<1>4. LedgerInv(r)
  BY <1>2, <1>3, <1>m, Zenon DEF LedgerInv
<1> QED BY <1>4, Zenon DEF r

LEMMA FenceKeeps ==
    ASSUME NEW l, LedgerInv(l), NEW F \in SUBSET Gpu
    PROVE  LedgerInv([l EXCEPT !.fenced = F])
<1> DEFINE r == [l EXCEPT !.fenced = F]
<1>1. /\ r.cpus = l.cpus /\ r.gpus = l.gpus /\ r.unavailable = l.unavailable
      /\ r.owners = l.owners /\ r.taken = l.taken /\ r.gpuTaken = l.gpuTaken
      /\ r.mem = l.mem /\ r.launching = l.launching
  BY Zenon DEF LedgerInv, Typed, Ledger
<1>2. Typed(r)
  BY Zenon DEF LedgerInv, Typed, Ledger
<1> HIDE DEF r
<1>3. Disjoint(r) /\ Exact(r)
  BY <1>1 DEF LedgerInv, Disjoint, Exact, HeldCpus, HeldGpus, CpusOf, GpusOf
<1>m. Counted(r) /\ Marked(r)
  BY <1>1, Zenon DEF LedgerInv, Counted, Marked, MemHeld, Owns
<1>4. LedgerInv(r)
  BY <1>2, <1>3, <1>m, Zenon DEF LedgerInv
<1> QED BY <1>4, Zenon DEF r

\* What one call of allocate_for_job that leaves ledger t has done to ledger l.
AllocateEffect(l, t, j, a) ==
    /\ LedgerInv(t)
    /\ \A i \in Job \ {j} : t.owners[i] = l.owners[i]
    /\ t.launching \ {j} = l.launching \ {j}
    /\ j \in t.launching /\ j \notin l.launching =>
          /\ l.owners[j].att <= a
          /\ t.owners[j].att = a
          /\ t.owners[j].gpus \cap (l.fenced \ l.owners[j].gpus) = {}
    /\ j \notin t.launching => \/ t.owners[j] = NoOwner
                               \/ t.owners[j] = l.owners[j]

\* A reservation changes the owner it is for, and no other.
LEMMA AllocateKeeps ==
    ASSUME NEW l, LedgerInv(l), NEW j \in Job, NEW a \in 1..MaxAttempt, NEW n,
           NEW m \in Mem, NEW G \in SUBSET Gpu
    PROVE  AllocateEffect(l, allocate_for_job(l, j, a, n, m, G).l, j, a)
<1> USE DEF AllocateEffect
<1> DEFINE r == release_job(l, j)
           o == [att |-> a, cpus |-> Lowest(r.cpus \ r.taken, n), gpus |-> G, mem |-> m]
           h == Holding(r, j, o)
           errs == {e \in {"GpusUnknown", "GpusUnavailable"} :
                      \/ e = "GpusUnknown" /\ ~(G \subseteq r.gpus)
                      \/ e = "GpusUnavailable" /\ Clash(l, r, j, G) # {}}
           t == allocate_for_job(l, j, a, n, m, G).l
<1>0. t = IF Refused(l, j, a) THEN l
          ELSE IF errs = {} THEN [h EXCEPT !.launching = @ \cup {j}] ELSE r
  BY Zenon DEF allocate_for_job
<1>1. /\ LedgerInv(r)
      /\ r.cpus = l.cpus /\ r.gpus = l.gpus /\ r.fenced = l.fenced
      /\ r.launching = l.launching \ {j}
      /\ r.owners[j] = NoOwner
      /\ \A i \in Job \ {j} : r.owners[i] = l.owners[i]
  BY OwnReleased
<1>2. l.owners[j].att \in 0..MaxAttempt
  BY Zenon DEF LedgerInv, Typed, Ledger, Owner
<1>3. CASE Refused(l, j, a)
  <2>1. t = l
    BY <1>0, <1>3, Zenon
  <2> HIDE DEF t
  <2> QED BY <2>1, Zenon DEF t
<1>4. CASE ~Refused(l, j, a) /\ errs # {}
  <2>1. t = r
    BY <1>0, <1>4, Zenon
  <2> HIDE DEF t, r
  <2> QED BY <2>1, <1>1, Zenon DEF t
<1>5. CASE ~Refused(l, j, a) /\ errs = {}
  <2>1. t = [h EXCEPT !.launching = @ \cup {j}]
    BY <1>0, <1>5, Zenon
  <2>2. G \subseteq r.gpus /\ Clash(l, r, j, G) = {}
    BY <1>5, Zenon
  <2>3. o \in Owner /\ o.cpus \subseteq r.cpus \ r.taken /\ o.gpus = G /\ o.att = a
    <3>1. Lowest(r.cpus \ r.taken, n) \subseteq r.cpus \ r.taken
      BY Zenon DEF Lowest
    <3>2. r.cpus \in SUBSET Cpu
      BY <1>1, Zenon DEF LedgerInv, Typed, Ledger
    <3>3. a \in 0..MaxAttempt
      BY LedgerAssumption
    <3> QED BY <3>1, <3>2, <3>3, Zenon DEF Owner
  <2> HIDE DEF o, r, errs
  <2>4a. o.att # 0
    BY <2>3
  <2>4. o.cpus \cap HeldCpus(r) = {}
    BY <2>3, <1>1, Zenon DEF LedgerInv, Exact
  <2>5. G \cap r.gpuTaken = {} /\ G \cap (l.fenced \ l.owners[j].gpus) = {}
    BY <2>2, <1>1, Zenon DEF Clash
  <2>6. LedgerInv(h)
    BY <2>2, <2>3, <2>4a, <2>4, <2>5, <1>1, HoldingKeeps, Zenon
  <2>7. h.owners = [r.owners EXCEPT ![j] = o] /\ h.launching = r.launching
    BY <1>1, Zenon DEF LedgerInv, Typed, Ledger, Holding
  <2> HIDE DEF h
  <2>8. h.launching \cup {j} \in SUBSET Job /\ \A i \in h.launching \cup {j} : Owns(h, i)
    <3>1. h.owners[j].att # 0
      BY <2>3, <2>7, <1>1 DEF LedgerInv, Typed, Ledger
    <3> QED BY <2>6, <3>1, Zenon DEF LedgerInv, Typed, Ledger, Marked, Owns
  <2>9. LedgerInv(t)
    BY <2>1, <2>6, <2>8, MarkerKeeps
  <2>10. t.owners = h.owners /\ t.launching = h.launching \cup {j}
    BY <2>1, <2>6, Zenon DEF LedgerInv, Typed, Ledger
  <2>11. r.owners \in [Job -> Owner]
    BY <1>1, Zenon DEF LedgerInv, Typed, Ledger
  <2>12. t.owners[j] = o /\ \A i \in Job \ {j} : t.owners[i] = l.owners[i]
    BY <2>7, <2>10, <2>11, <1>1
  <2>13. l.owners[j].att <= a
    BY <1>5, <1>2 DEF Refused
  <2> HIDE DEF t
  <2> QED BY <2>3, <2>5, <2>7, <2>9, <2>10, <2>12, <2>13, <1>1, Zenon DEF t
<1> QED BY <1>3, <1>4, <1>5, Zenon

LEMMA RestoreKeeps ==
    ASSUME NEW l, LedgerInv(l), NEW j \in Job, NEW a \in 1..MaxAttempt,
           NEW C \in SUBSET Cpu, NEW m \in Mem, NEW G \in SUBSET Gpu
    PROVE  LedgerInv(restore_for_job(l, j, a, C, m, G))
<1> SUFFICES ASSUME C = claimable_cpu_ids(l, j, C), RestoreFits(l, j, G)
             PROVE  LedgerInv(Holding(release_job(l, j), j,
                                      [att |-> a, cpus |-> C, gpus |-> G, mem |-> m]))
  BY Zenon DEF restore_for_job
<1> DEFINE r == release_job(l, j)
           o == [att |-> a, cpus |-> C, gpus |-> G, mem |-> m]
<1>1. /\ LedgerInv(r)
      /\ r.cpus = l.cpus /\ r.gpus = l.gpus
      /\ r.owners[j] = NoOwner
      /\ HeldCpus(r) \cap l.owners[j].cpus = {}
      /\ HeldCpus(r) \subseteq HeldCpus(l)
      /\ r.gpuTaken = l.gpuTaken \ l.owners[j].gpus
  BY OwnReleased
<1>2. o \in Owner /\ o.cpus = C /\ o.gpus = G /\ o.att # 0
  <2>1. a \in 0..MaxAttempt /\ a # 0
    BY LedgerAssumption
  <2> QED BY <2>1, Zenon DEF Owner
<1> HIDE DEF r, o
<1>3. C \subseteq r.cpus /\ C \cap HeldCpus(r) = {}
  BY <1>1, Zenon DEF claimable_cpu_ids, LedgerInv, Exact
<1>4. G \subseteq r.gpus /\ G \cap r.gpuTaken = {}
  BY <1>1, Zenon DEF RestoreFits
<1> QED BY <1>1, <1>2, <1>3, <1>4, HoldingKeeps, Zenon DEF r, o

LEMMA SpecFields ==
    ASSUME NEW l, LedgerInv(l), NEW spec \in SUBSET Cpu
    PROVE  LET r == set_spec_exclusions(l, spec) IN
           /\ r.owners = l.owners /\ r.launching = l.launching /\ r.fenced = l.fenced
  BY Zenon DEF LedgerInv, Typed, Ledger, set_spec_exclusions, mark_cpus_unavailable

\* What a launch may do to the ledger.
Kept(i) == alloc'.owners[i] = alloc.owners[i]

Grown(i) == alloc'.owners[i].att = 0 \/ alloc'.owners[i].att >= alloc.owners[i].att

LEMMA ReserveStep ==
    ASSUME LedgerInv(alloc), live \subseteq Job, NEW j \in Job, Reserve(j)
    PROVE  /\ LedgerInv(alloc')
           /\ alloc'.launching \subseteq alloc.launching \cup {j}
           /\ \A i \in Job \ {j} : Kept(i) \/ (alloc'.owners[i] = NoOwner
                                              /\ i \notin live \cup alloc.launching)
           /\ j \in alloc'.launching \ alloc.launching =>
                 alloc'.owners[j].gpus \cap alloc.fenced \subseteq alloc.owners[j].gpus
           /\ Grown(j)
<1> PICK a \in 1..MaxAttempt, n \in 1..Cardinality(Cpu), m \in Mem, G \in SUBSET Gpu,
         spec \in {y.spec : y \in Layout} :
         LET l == set_spec_exclusions(alloc, spec)
             first == allocate_for_job(l, j, a, n, m, G)
             rest == ReleaseJobs(first.l, StaleOwners(first.l, G))
         IN  \/ /\ first.errs # {"GpusUnavailable"}
                /\ alloc' = first.l
             \/ /\ "GpusUnavailable" \in first.errs
                /\ alloc' = allocate_for_job(rest, j, a, n, m, G).l
  BY Zenon DEF Reserve
<1>0. spec \in SUBSET Cpu
  BY LedgerAssumption
<1> DEFINE l == set_spec_exclusions(alloc, spec)
           first == allocate_for_job(l, j, a, n, m, G)
           f == first.l
           S == StaleOwners(f, G)
           rest == ReleaseJobs(f, S)
           t == allocate_for_job(rest, j, a, n, m, G).l
<1>1. /\ LedgerInv(l)
      /\ l.owners = alloc.owners /\ l.launching = alloc.launching /\ l.fenced = alloc.fenced
  BY <1>0, SpecKeeps, SpecFields, Zenon
<1> HIDE DEF l
<1>2a. AllocateEffect(l, f, j, a)
  BY <1>1, AllocateKeeps, Zenon
<1>2. /\ LedgerInv(f)
      /\ \A i \in Job \ {j} : f.owners[i] = l.owners[i]
      /\ f.launching \ {j} = l.launching \ {j}
      /\ j \in f.launching /\ j \notin l.launching =>
            /\ l.owners[j].att <= a
            /\ f.owners[j].att = a
            /\ f.owners[j].gpus \cap (l.fenced \ l.owners[j].gpus) = {}
      /\ j \notin f.launching => f.owners[j] = NoOwner \/ f.owners[j] = l.owners[j]
  BY <1>2a, Zenon DEF AllocateEffect
<1>3. \A i \in Job : /\ l.owners[i].att \in 0..MaxAttempt
                     /\ f.owners[i].att \in 0..MaxAttempt
  BY <1>1, <1>2, Zenon DEF LedgerInv, Typed, Ledger, Owner
<1>4. Refused(l, j, a) => f = l
  BY Zenon DEF allocate_for_job
<1>5. CASE alloc' = f
  <2>1. Grown(j)
    <3>1. CASE j \in f.launching /\ j \notin l.launching
      BY <3>1, <1>1, <1>2, <1>3, <1>5, Zenon DEF Grown
    <3>2. CASE j \in l.launching
      BY <3>2, <1>1, <1>3, <1>4, <1>5 DEF Refused, Grown
    <3>3. CASE j \notin f.launching
      BY <3>3, <1>1, <1>2, <1>3, <1>5 DEF Grown, NoOwner
    <3> QED BY <3>1, <3>2, <3>3, Zenon
  <2> HIDE DEF f
  <2> QED BY <1>1, <1>2, <1>5, <2>1, Zenon DEF Kept
<1>6. CASE "GpusUnavailable" \in first.errs /\ alloc' = t
  <2>1. ~Refused(l, j, a) /\ f = release_job(l, j)
    <3>1. ~Refused(l, j, a)
      BY <1>6, Zenon DEF allocate_for_job
    <3>2. first.errs # {}
      BY <1>6, Zenon
    <3> QED BY <3>1, <3>2, Zenon DEF allocate_for_job
  <2>2. f.owners[j] = NoOwner /\ f.launching = l.launching \ {j} /\ f.fenced = l.fenced
    BY <2>1, <1>1, OwnReleased
  <2>3. j \notin l.launching /\ l.owners[j].att <= a
    BY <2>1, <1>3 DEF Refused
  <2> HIDE DEF f, first
  <2>4. S \in SUBSET Job /\ S \cap (live \cup f.launching) = {}
    BY Zenon DEF StaleOwners, conflicting_owners
  <2> HIDE DEF S
  <2>5. /\ LedgerInv(rest)
        /\ rest.launching = f.launching \ S
        /\ rest.owners = [i \in Job |-> IF i \in S THEN NoOwner ELSE f.owners[i]]
        /\ rest.fenced = f.fenced
    BY <2>4, <1>2, ReleaseKeeps, ReleaseFields
  <2> HIDE DEF rest
  <2>6a. AllocateEffect(rest, t, j, a)
    BY <2>5, AllocateKeeps, Zenon
  <2>6. /\ LedgerInv(t)
        /\ \A i \in Job \ {j} : t.owners[i] = rest.owners[i]
        /\ t.launching \ {j} = rest.launching \ {j}
        /\ j \in t.launching /\ j \notin rest.launching =>
              /\ rest.owners[j].att <= a
              /\ t.owners[j].att = a
              /\ t.owners[j].gpus \cap (rest.fenced \ rest.owners[j].gpus) = {}
        /\ j \notin t.launching => t.owners[j] = NoOwner \/ t.owners[j] = rest.owners[j]
    BY <2>6a, Zenon DEF AllocateEffect
  <2> HIDE DEF t
  <2>7. rest.owners[j] = NoOwner /\ j \notin rest.launching
    BY <2>2, <2>3, <2>5, Zenon
  <2>8. \A i \in Job \ {j} : t.owners[i] = alloc.owners[i] \/ (t.owners[i] = NoOwner /\ i \in S)
    BY <2>5, <2>6, <1>1, <1>2
  <2>9. Grown(j)
    BY <2>3, <2>6, <2>7, <1>1, <1>6 DEF Grown, NoOwner
  <2>10. t.launching \subseteq alloc.launching \cup {j}
    BY <2>2, <2>5, <2>6, <1>1, Zenon
  <2>11. j \in t.launching => t.owners[j].gpus \cap alloc.fenced \subseteq alloc.owners[j].gpus
    BY <2>2, <2>5, <2>6, <2>7, <1>1 DEF NoOwner
  <2>12. \A i \in Job \ {j} : i \in S => i \notin live \cup alloc.launching
    BY <2>2, <2>4, <1>1, Zenon
  <2> QED BY <2>6, <2>8, <2>9, <2>10, <2>11, <2>12, <1>6, Zenon DEF Kept
<1> QED BY <1>5, <1>6, Zenon DEF l

\* What every other step does: no launch begins, no attempt goes back.
Calm(l, r) ==
    /\ LedgerInv(r)
    /\ r.launching \subseteq l.launching
    /\ \A i \in Job : r.owners[i].att = 0 \/ r.owners[i].att >= l.owners[i].att

LEMMA Attempts ==
    ASSUME NEW l, LedgerInv(l)
    PROVE  \A i \in Job : l.owners[i] \in Owner /\ l.owners[i].att \in 0..MaxAttempt
  BY Zenon DEF LedgerInv, Typed, Ledger, Owner

LEMMA NewCalm ==
    ASSUME NEW y \in Layout, NEW l
    PROVE  Calm(l, NewLedger(y))
<1> DEFINE r == NewLedger(y)
<1>0. /\ y.cpus \in SUBSET Cpu /\ y.gpus \in SUBSET Gpu /\ y.fenced \in SUBSET Gpu
      /\ MaxAttempt \in Nat
  BY LedgerAssumption, Zenon
<1>1. NoOwner \in Owner
  BY <1>0 DEF NoOwner, Owner
<1>2. Typed(r)
  BY <1>0, <1>1, Zenon DEF Typed, Ledger, NewLedger
<1>3. /\ r.cpus = y.cpus /\ r.gpus = y.gpus /\ r.taken = {} /\ r.unavailable = {}
      /\ r.gpuTaken = {} /\ r.launching = {} /\ \A i \in Job : r.owners[i] = NoOwner
      /\ r.mem = 0
  BY Zenon DEF NewLedger
<1> HIDE DEF r
<1>4. HeldCpus(r) = {} /\ HeldGpus(r) = {}
  BY <1>3 DEF HeldCpus, HeldGpus, CpusOf, GpusOf, NoOwner
<1>5. Disjoint(r)
  BY <1>3 DEF Disjoint, NoOwner
<1>6. Exact(r)
  BY <1>3, <1>4, Zenon DEF Exact
<1>m. Counted(r) /\ Marked(r)
  <2>1. \A i \in Job : r.owners[i].mem = 0
    BY <1>3 DEF NoOwner
  <2> QED BY <1>3, <2>1, MemHeldNone DEF Counted, Marked
<1>7. Calm(l, r)
  BY <1>2, <1>3, <1>5, <1>6, <1>m DEF LedgerInv, Calm, NoOwner
<1> QED BY <1>7, Zenon DEF r

LEMMA ReleaseCalm ==
    ASSUME NEW l, LedgerInv(l), NEW S \in SUBSET Job
    PROVE  Calm(l, ReleaseJobs(l, S))
<1> DEFINE r == ReleaseJobs(l, S)
<1>1. /\ r.launching = l.launching \ S
      /\ r.owners = [j \in Job |-> IF j \in S THEN NoOwner ELSE l.owners[j]]
  BY ReleaseFields
<1>2. LedgerInv(r)
  BY ReleaseKeeps, Zenon
<1> HIDE DEF r
<1>3. Calm(l, r)
  BY <1>1, <1>2, Attempts DEF Calm, NoOwner
<1> QED BY <1>3, Zenon DEF r

\* Refreshes: the owners keep their attempts, the launches stay in flight.
LEMMA RefreshCalm ==
    ASSUME LedgerInv(alloc), NEW f \in Renaming, NEW y \in Layout
    PROVE  LET l == rename_gpus(alloc, f)
               u == set_spec_exclusions(update_capacity(l, y.cpus, y.gpus), y.spec)
           IN  Calm(alloc, u) /\ Calm(alloc, [u EXCEPT !.fenced = y.fenced])
<1>0. /\ y.cpus \in SUBSET Cpu /\ y.gpus \in SUBSET Gpu
      /\ y.spec \in SUBSET Cpu /\ y.fenced \in SUBSET Gpu
  BY LedgerAssumption, Zenon
<1> DEFINE l == rename_gpus(alloc, f)
           c == update_capacity(l, y.cpus, y.gpus)
           u == set_spec_exclusions(c, y.spec)
           v == [u EXCEPT !.fenced = y.fenced]
<1>1. LedgerInv(l)
  BY RenameKeeps, Zenon
<1>2. l.launching = alloc.launching /\ \A i \in Job : l.owners[i].att = alloc.owners[i].att
  BY Zenon DEF LedgerInv, Typed, Ledger, rename_gpus, Owner
<1> HIDE DEF l
<1>3. LedgerInv(c)
  BY <1>0, <1>1, CapacityKeeps, Zenon
<1>4. c.launching = l.launching /\ c.owners = l.owners
  BY <1>1, Zenon DEF LedgerInv, Typed, Ledger, update_capacity
<1> HIDE DEF c
<1>5. LedgerInv(u) /\ u.owners = c.owners /\ u.launching = c.launching
  BY <1>0, <1>3, SpecKeeps, SpecFields, Zenon
<1> HIDE DEF u
<1>6. LedgerInv(v)
  BY <1>0, <1>5, FenceKeeps, Zenon
<1>7. v.owners = u.owners /\ v.launching = u.launching
  BY <1>5, Zenon DEF LedgerInv, Typed, Ledger
<1> HIDE DEF v
<1>8. \A i \in Job : alloc.owners[i].att \in 0..MaxAttempt
  BY Attempts, Zenon
<1>9. Calm(alloc, u) /\ Calm(alloc, v)
  BY <1>2, <1>4, <1>5, <1>6, <1>7, <1>8 DEF Calm
<1> QED BY <1>9, Zenon DEF u, c, l, v

LEMMA RestoreCalm ==
    ASSUME NEW l, LedgerInv(l), NEW j \in Job, NEW a \in 1..MaxAttempt,
           NEW C \in SUBSET Cpu, NEW m \in Mem, NEW G \in SUBSET Gpu
    PROVE  Calm(l, restore_for_job(l, j, a, C, m, G))
<1> DEFINE r == release_job(l, j)
           o == [att |-> a, cpus |-> C, gpus |-> G, mem |-> m]
           h == Holding(r, j, o)
           t == restore_for_job(l, j, a, C, m, G)
<1>1. LedgerInv(t)
  BY RestoreKeeps, Zenon
<1>2. t = l \/ (t = h /\ l.owners[j].att <= a)
  BY Zenon DEF restore_for_job
<1>3. /\ LedgerInv(r) /\ r.launching = l.launching \ {j}
      /\ \A i \in Job \ {j} : r.owners[i] = l.owners[i]
  BY OwnReleased
<1> HIDE DEF r
<1>4. h.owners = [r.owners EXCEPT ![j] = o] /\ h.launching = r.launching
  BY <1>3, Zenon DEF LedgerInv, Typed, Ledger, Holding
<1>5. r.owners \in [Job -> Owner]
  BY <1>3, Zenon DEF LedgerInv, Typed, Ledger
<1> HIDE DEF h
<1>6. h.owners[j].att = a /\ \A i \in Job \ {j} : h.owners[i] = l.owners[i]
  BY <1>3, <1>4, <1>5
<1> HIDE DEF t
<1>7. \A i \in Job : l.owners[i].att \in 0..MaxAttempt
  BY Attempts, Zenon
<1>8. Calm(l, t)
  <2>1. CASE t = l
    BY <2>1, <1>1, <1>7 DEF Calm
  <2>2. CASE t = h /\ l.owners[j].att <= a
    BY <2>2, <1>1, <1>3, <1>4, <1>6, <1>7 DEF Calm
  <2> QED BY <1>2, <2>1, <2>2, Zenon
<1> QED BY <1>8, Zenon DEF t

\* The inductive invariant: LedgerInv is inductive by itself once the running
\* map holds only jobs.
LedgerIInv == LedgerInv(alloc) /\ live \subseteq Job /\ serving \in BOOLEAN

LEMMA InitSound == Init => LedgerIInv
<1> SUFFICES ASSUME Init PROVE LedgerIInv
  BY Zenon
<1> PICK y \in Layout : alloc = NewLedger(y)
  BY Zenon DEF Init
<1>1. Calm(alloc, NewLedger(y))
  BY NewCalm, Zenon
<1> QED BY <1>1, Zenon DEF Init, LedgerIInv, Calm

\* Every action but the launch is calm, and the running map holds only jobs.
LEMMA CalmStep ==
    ASSUME LedgerIInv, [Next]_vars
    PROVE  /\ live' \subseteq Job
           /\ Calm(alloc, alloc') \/ \E j \in Job : Reserve(j)
<1> USE DEF LedgerIInv
<1>0. Calm(alloc, alloc)
  BY Attempts DEF Calm
<1>1. CASE UNCHANGED vars
  BY <1>0, <1>1, Zenon DEF vars
<1>2. CASE Serve
  BY <1>0, <1>2, Zenon DEF Serve
<1>3. CASE Restart
  BY <1>3, NewCalm, Zenon DEF Restart
<1>4. CASE reconcile
  <2> PICK late \in SUBSET alloc.launching :
        alloc' = ReleaseJobs(alloc, {j \in Job \ live :
                                       Owns(alloc, j) /\ (j \in alloc.launching => j \in late)})
    BY <1>4, Zenon DEF reconcile
  <2> QED BY <1>4, ReleaseCalm, Zenon DEF reconcile
<1>5. CASE apply_to_ledger
  BY <1>5, RefreshCalm, Zenon DEF apply_to_ledger
<1>6. CASE set_fenced
  <2> PICK y \in Layout : alloc' = [alloc EXCEPT !.fenced = y.fenced]
    BY <1>6, Zenon DEF set_fenced
  <2>1. y.fenced \in SUBSET Gpu
    BY LedgerAssumption, Zenon
  <2>2. LedgerInv(alloc')
    BY <2>1, FenceKeeps, Zenon
  <2>3. alloc'.launching = alloc.launching /\ alloc'.owners = alloc.owners
    BY Zenon DEF LedgerInv, Typed, Ledger
  <2>4. Calm(alloc, alloc')
    BY <1>0, <2>2, <2>3, Zenon DEF Calm
  <2> QED BY <1>6, <2>4, Zenon DEF set_fenced
<1>7. ASSUME NEW j \in Job, Adopt(j) PROVE Calm(alloc, alloc') /\ live' \subseteq Job
  <2> PICK a \in 1..MaxAttempt, m \in Mem, G \in SUBSET Gpu,
           C \in {claimable_cpu_ids(alloc, j, R) : R \in SUBSET Cpu}
                \cup {Lowest(alloc.cpus \ alloc.taken, n) : n \in 1..Cardinality(Cpu)} :
           alloc' = restore_for_job(alloc, j, a, C, m, IF RestoreFits(alloc, j, G) THEN G ELSE {})
    BY <1>7, Zenon DEF Adopt
  <2>1. alloc.cpus \subseteq Cpu
    BY Zenon DEF LedgerInv, Typed, Ledger
  <2>2. C \in SUBSET Cpu
    BY <2>1, Zenon DEF claimable_cpu_ids, Lowest
  <2>3. (IF RestoreFits(alloc, j, G) THEN G ELSE {}) \in SUBSET Gpu
    BY Zenon
  <2>4. Calm(alloc, alloc')
    BY <2>2, <2>3, RestoreCalm, Zenon
  <2> QED BY <1>7, <2>4, Zenon DEF Adopt
<1>8. ASSUME NEW j \in Job, Commit(j) PROVE Calm(alloc, alloc') /\ live' \subseteq Job
  <2>1. alloc' = [alloc EXCEPT !.launching = alloc.launching \ {j}]
    BY <1>8, Zenon DEF Commit, commit_job
  <2>2. /\ alloc.launching \ {j} \in SUBSET Job
        /\ \A i \in alloc.launching \ {j} : Owns(alloc, i)
    BY Zenon DEF LedgerInv, Typed, Ledger, Marked
  <2>3. LedgerInv(alloc')
    BY <2>1, <2>2, MarkerKeeps, Zenon
  <2>4. alloc'.launching = alloc.launching \ {j} /\ alloc'.owners = alloc.owners
    BY <2>1, Zenon DEF LedgerInv, Typed, Ledger
  <2>5. Calm(alloc, alloc')
    BY <1>0, <2>3, <2>4, Zenon DEF Calm
  <2> QED BY <1>8, <2>5, Zenon DEF Commit
<1>9. ASSUME NEW j \in Job, Untrack(j) PROVE Calm(alloc, alloc') /\ live' \subseteq Job
  BY <1>0, <1>9, Zenon DEF Untrack
<1>10. ASSUME NEW j \in Job PROVE Calm(alloc, release_job(alloc, j))
  BY ReleaseCalm, Zenon DEF release_job
<1>11. ASSUME NEW j \in Job, teardown_completed_job(j)
       PROVE  Calm(alloc, alloc') /\ live' \subseteq Job
  BY <1>10, <1>11, Zenon DEF teardown_completed_job
<1>12. ASSUME NEW j \in Job, drop_tracked_job(j)
       PROVE  Calm(alloc, alloc') /\ live' \subseteq Job
  BY <1>10, <1>12, Zenon DEF drop_tracked_job
<1>13. ASSUME NEW j \in Job, GiveBack(j) PROVE Calm(alloc, alloc') /\ live' \subseteq Job
  BY <1>0, <1>10, <1>13, Zenon DEF GiveBack, release_job_if
<1>14. ASSUME NEW j \in Job, Reserve(j) PROVE live' \subseteq Job
  BY <1>14, Zenon DEF Reserve
<1> QED
  BY <1>1, <1>2, <1>3, <1>4, <1>5, <1>6, <1>7, <1>8, <1>9, <1>11, <1>12, <1>13, <1>14, Zenon
     DEF Next

LEMMA NextSound == LedgerIInv /\ [Next]_vars => LedgerIInv'
<1> SUFFICES ASSUME LedgerIInv, [Next]_vars PROVE LedgerIInv'
  BY Zenon
<1>1. LedgerInv(alloc')
  BY CalmStep, ReserveStep, Zenon DEF LedgerIInv, Calm
<1>2. live' \subseteq Job
  BY CalmStep, Zenon
<1>3. LedgerInv(alloc)' <=> LedgerInv(alloc')
  BY Zenon DEF LedgerInv, Typed, Ledger, Disjoint, Exact, Counted, Marked
<1>4. serving' \in BOOLEAN
  BY Zenon DEF LedgerIInv, Next, vars, Serve, Restart, reconcile, apply_to_ledger, set_fenced,
     Adopt, Reserve, Commit, Untrack, teardown_completed_job, drop_tracked_job, GiveBack
<1> QED BY <1>1, <1>2, <1>3, <1>4, Zenon DEF LedgerIInv

LEMMA AlwaysSound == Spec => []LedgerIInv
<1> QED BY InitSound, NextSound, PTL DEF Spec

\* The state keeps its type, and a launch in flight has its reservation: no
\* release, replay or reconcile leaves a marker of allocate_for_job behind.
THEOREM LedgerTyped == Spec => []TypeOK
<1>1. LedgerIInv => TypeOK
  BY Zenon DEF LedgerIInv, LedgerInv, Typed, Marked, TypeOK
<1> QED BY <1>1, AlwaysSound, PTL

\* The memory counter is the sum over the owners: release's saturating
\* subtraction never saturates, and no superseded or replayed reservation is
\* counted twice.
THEOREM MemoryIsExact == Spec => []MemoryExact
<1>1. LedgerIInv => MemoryExact
  <2> SUFFICES ASSUME LedgerIInv PROVE MemoryExact
    BY Zenon
  <2> DEFINE f == [j \in Job |-> alloc.owners[j].mem]
  <2>1. DOMAIN f = Job
    BY Zenon
  <2>2. alloc.mem = SumFunctionOnSet(f, Job)
    BY Zenon DEF LedgerIInv, LedgerInv, Counted, MemHeld
  <2> HIDE DEF f
  <2>3. alloc.mem = SumFunction(f)
    BY <2>1, <2>2, Zenon DEF SumFunction
  <2> QED BY <2>3, Zenon DEF MemoryExact, f
<1> QED BY <1>1, AlwaysSound, PTL

\* The ledger never lends a device twice, whatever the order of launches,
\* replays, releases, exclusions, renames and refreshes of the inventory.
THEOREM DevicesLentOnce == Spec => []OwnersDisjoint
<1>1. LedgerIInv => OwnersDisjoint
  BY Zenon DEF LedgerIInv, LedgerInv, Disjoint, OwnersDisjoint
<1> QED BY <1>1, AlwaysSound, PTL

\* The bitmaps are exactly what is lent and what is excluded (release keeps the
\* bit of an excluded cpu, set_spec_exclusions that of a held one,
\* update_capacity derives both bitmaps anew).
THEOREM BitmapsAreExact == Spec => []BitmapsExact
<1>1. LedgerIInv => BitmapsExact
  BY Zenon DEF LedgerIInv, LedgerInv, Exact, BitmapsExact
<1> QED BY <1>1, AlwaysSound, PTL

\* A launch that reclaims devices (allocate_local_resources) takes nothing from
\* a job that runs or launches.
THEOREM LaunchKeepsOthers == Spec => OthersKept
<1>1. LedgerIInv /\ [Next]_vars =>
        [\A j \in alloc'.launching \ alloc.launching :
            \A i \in (live \cup alloc.launching) \ {j} :
               alloc'.owners[i] = alloc.owners[i]]_vars
  <2> SUFFICES ASSUME LedgerIInv, [Next]_vars, NEW j \in alloc'.launching \ alloc.launching,
                      NEW i \in (live \cup alloc.launching) \ {j}
               PROVE  alloc'.owners[i] = alloc.owners[i]
    BY Zenon
  <2> PICK k \in Job : Reserve(k)
    BY CalmStep, Zenon DEF Calm
  <2>1. i \in Job
    BY Zenon DEF LedgerIInv, LedgerInv, Typed, Ledger
  <2>2. j = k
    BY ReserveStep, Zenon DEF LedgerIInv
  <2> QED BY <2>1, <2>2, ReserveStep, Zenon DEF LedgerIInv, Kept
<1> QED BY <1>1, AlwaysSound, PTL DEF Spec, OthersKept

\* No launch is granted a gpu that is fenced off, unless its job held it before
\* the fence (the Clash test of allocate_for_job, on both tries).
THEOREM FencesHold == Spec => FencedNotGranted
<1>1. LedgerIInv /\ [Next]_vars =>
        [\A j \in alloc'.launching \ alloc.launching :
            alloc'.owners[j].gpus \cap alloc.fenced \subseteq alloc.owners[j].gpus]_vars
  <2> SUFFICES ASSUME LedgerIInv, [Next]_vars, NEW j \in alloc'.launching \ alloc.launching
               PROVE  alloc'.owners[j].gpus \cap alloc.fenced \subseteq alloc.owners[j].gpus
    BY Zenon
  <2> PICK k \in Job : Reserve(k)
    BY CalmStep, Zenon DEF Calm
  <2>2. j = k
    BY ReserveStep, Zenon DEF LedgerIInv
  <2> QED BY <2>2, ReserveStep, Zenon DEF LedgerIInv
<1> QED BY <1>1, AlwaysSound, PTL DEF Spec, FencedNotGranted

\* A late launch or replay of an older attempt never takes over the reservation
\* of a newer one.
THEOREM NewerAttemptKept == Spec => AttemptsGrow
<1>1. LedgerIInv /\ [Next]_vars =>
        [\A j \in Job : Owns(alloc, j) /\ alloc'.owners[j].att # 0 =>
            alloc'.owners[j].att >= alloc.owners[j].att]_vars
  <2> SUFFICES ASSUME LedgerIInv, [Next]_vars, NEW j \in Job, alloc'.owners[j].att # 0
               PROVE  alloc'.owners[j].att >= alloc.owners[j].att
    BY Zenon
  <2>1. CASE Calm(alloc, alloc')
    BY <2>1, Zenon DEF Calm
  <2>2. ASSUME NEW k \in Job, Reserve(k) PROVE alloc'.owners[j].att >= alloc.owners[j].att
    <3>1. CASE j = k
      BY <2>2, <3>1, ReserveStep, Zenon DEF LedgerIInv, Grown
    <3>2. CASE j # k
      <4>1. alloc.owners[j].att \in 0..MaxAttempt
        BY Attempts, Zenon DEF LedgerIInv
      <4>2. alloc'.owners[j] = alloc.owners[j] \/ alloc'.owners[j] = NoOwner
        BY <2>2, <3>2, ReserveStep, Zenon DEF LedgerIInv, Kept
      <4> QED BY <4>1, <4>2, LedgerAssumption DEF NoOwner
    <3> QED BY <3>1, <3>2, Zenon
  <2> QED BY <2>1, <2>2, CalmStep, Zenon
<1> QED BY <1>1, AlwaysSound, PTL DEF Spec, AttemptsGrow

=============================================================================
