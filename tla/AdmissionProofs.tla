-------------------------- MODULE AdmissionProofs --------------------------
(***************************************************************************)
(* Proofs about Admission, for every finite set of connections, any users  *)
(* and processes, and any limits the code's constants could be set to.     *)
(***************************************************************************)
EXTENDS Admission, FiniteSetTheorems, TLAPS

-----------------------------------------------------------------------------
(* Usage tables *)

Table == [Slots -> [key: Keys \cup {NoKey}, count: Nat]]

\* A table in which no key is counted twice.
Good(table) ==
    /\ table \in Table
    /\ \A i \in Slots : table[i].count # 0 => table[i].key \in Keys
    /\ \A i, j \in Slots :
         table[i].count # 0 /\ table[j].count # 0 /\ table[i].key = table[j].key
         => i = j

LEMMA Limits ==
    /\ MaxWorkers \in Nat \ {0} /\ WorkersPerUid \in Nat \ {0}
    /\ KwinPerPid \in Nat \ {0} /\ MaxCaptures \in Nat \ {0}
    /\ CapturesPerUid \in Nat \ {0} /\ CapturesPerPid \in Nat \ {0}
    /\ MaxAssemblies \in Nat \ {0} /\ AssembliesPerUid \in Nat \ {0}
    /\ Reserve \in Nat /\ Reserve <= MaxWorkers /\ General \in Nat
BY LimitsOK DEF General

\* A set of slots has a first one.
LEMMA FirstIn ==
    ASSUME NEW S \in SUBSET Slots, S # {}
    PROVE  First(S) \in S
<1>1. S \in SUBSET Nat
  BY Limits DEF Slots
<1>. DEFINE less == OpToRel(<, Nat)
<1>2. PICK i \in S : \A j \in S : <<j, i>> \notin less
  BY <1>1, NatLessThanWellFounded, WFMin
<1>3. less = {p \in Nat \X Nat : p[1] < p[2]}
  BY DEF OpToRel
<1>. HIDE DEF less
<1>4. ASSUME NEW j \in S PROVE i <= j
  <2>1. <<j, i>> \in Nat \X Nat /\ ~(j < i)
    BY <1>1, <1>2, <1>3
  <2>. QED  BY <2>1
<1>. QED  BY <1>4 DEF First

\* The slot in use by a key is the one that is found, and its count is read.
LEMMA FindUsed ==
    ASSUME NEW table, Good(table), NEW key, NEW i \in Slots,
           table[i].count # 0, table[i].key = key
    PROVE  FindSlot(table, key) = i /\ Count(table, key) = table[i].count
<1>. DEFINE used == {j \in Slots : table[j].count # 0 /\ table[j].key = key}
<1>1. used = {i}
  BY DEF Good
<1>2. First(used) = i
  BY <1>1, FirstIn
<1>3. i # NoSlot
  BY Limits DEF Slots, NoSlot
<1>. QED  BY <1>1, <1>2, <1>3 DEF FindSlot, Count

\* Without one, an empty slot is found if there is any, and nothing is counted.
LEMMA FindEmpty ==
    ASSUME NEW table, Good(table), NEW key,
           \A i \in Slots : ~(table[i].count # 0 /\ table[i].key = key)
    PROVE  /\ Count(table, key) = 0
           /\ FindSlot(table, key) # NoSlot =>
                /\ FindSlot(table, key) \in Slots
                /\ table[FindSlot(table, key)].count = 0
           /\ FindSlot(table, key) = NoSlot => \A i \in Slots : table[i].count # 0
<1>. DEFINE used == {j \in Slots : table[j].count # 0 /\ table[j].key = key}
            empty == {j \in Slots : table[j].count = 0}
<1>1. used = {}
  OBVIOUS
<1>2. FindSlot(table, key) = IF empty # {} THEN First(empty) ELSE NoSlot
  BY <1>1 DEF FindSlot
<1>3. empty # {} => First(empty) \in empty
  BY FirstIn
<1>4. NoSlot \notin Slots
  BY Limits DEF Slots, NoSlot
<1>. HIDE DEF empty
<1>5. empty # {} => FindSlot(table, key) \in empty
  BY <1>2, <1>3
<1>6. empty = {} => FindSlot(table, key) = NoSlot
  BY <1>2
<1>7. \A i \in Slots : i \in empty <=> table[i].count = 0
  BY DEF empty
<1>8. empty \subseteq Slots
  BY DEF empty
<1>. QED  BY <1>4, <1>5, <1>6, <1>7, <1>8 DEF Count

\* A count is a natural number, and a counted key has a slot.
LEMMA CountType ==
    ASSUME NEW table, Good(table), NEW key
    PROVE  /\ Count(table, key) \in Nat
           /\ Count(table, key) # 0 <=>
                \E i \in Slots : table[i].count # 0 /\ table[i].key = key
           /\ Count(table, key) # 0 => FindSlot(table, key) # NoSlot
<1>1. CASE \E i \in Slots : table[i].count # 0 /\ table[i].key = key
  <2>1. PICK i \in Slots : table[i].count # 0 /\ table[i].key = key
    BY <1>1
  <2>2. table[i].count \in Nat /\ i # NoSlot
    BY Limits DEF Good, Table, Slots, NoSlot
  <2>. QED  BY <2>1, <2>2, FindUsed
<1>2. CASE \A i \in Slots : ~(table[i].count # 0 /\ table[i].key = key)
  BY <1>2, FindEmpty
<1>. QED  BY <1>1, <1>2

\* add_usage counts one more for its key and leaves the others alone.
LEMMA AddCounts ==
    ASSUME NEW table, Good(table), NEW key \in Keys, FindSlot(table, key) # NoSlot
    PROVE  /\ Good(Add(table, key))
           /\ \A k \in Keys : Count(Add(table, key), k)
                = IF k = key THEN Count(table, k) + 1 ELSE Count(table, k)
<1>. DEFINE n == FindSlot(table, key)
            new == Add(table, key)
<1>1. n \in Slots /\ (table[n].count = 0 \/ table[n].key = key)
      /\ table[n].count = Count(table, key)
  <2>1. CASE \E i \in Slots : table[i].count # 0 /\ table[i].key = key
    BY <2>1, FindUsed
  <2>2. CASE \A i \in Slots : ~(table[i].count # 0 /\ table[i].key = key)
    BY <2>2, FindEmpty
  <2>. QED  BY <2>1, <2>2
<1>2. Count(table, key) \in Nat
  BY CountType
<1>3. /\ new \in Table
      /\ \A i \in Slots : i # n => new[i] = table[i]
      /\ new[n].key = key /\ new[n].count = Count(table, key) + 1
  BY <1>1, <1>2 DEF Add, Good, Table
<1>4. \A i \in Slots : i # n => ~(table[i].count # 0 /\ table[i].key = key)
  BY <1>1, FindUsed
<1>. HIDE DEF n, new
<1>5. Good(new)
  BY <1>1, <1>2, <1>3, <1>4 DEF Good
<1>6. Count(new, key) = Count(table, key) + 1
  BY <1>1, <1>2, <1>3, <1>5, FindUsed
<1>7. ASSUME NEW k \in Keys, k # key PROVE Count(new, k) = Count(table, k)
  <2>1. CASE \E i \in Slots : table[i].count # 0 /\ table[i].key = k
    <3>1. PICK i \in Slots : table[i].count # 0 /\ table[i].key = k
      BY <2>1
    <3>2. new[i] = table[i]
      BY <1>1, <1>3, <1>7, <3>1
    <3>. QED  BY <1>5, <3>1, <3>2, FindUsed
  <2>2. CASE \A i \in Slots : ~(table[i].count # 0 /\ table[i].key = k)
    <3>1. \A i \in Slots : ~(new[i].count # 0 /\ new[i].key = k)
      BY <1>3, <1>7, <2>2
    <3>. QED  BY <1>5, <2>2, <3>1, FindEmpty
  <2>. QED  BY <2>1, <2>2
<1>. QED  BY <1>5, <1>6, <1>7 DEF new

\* release_usage counts one less for a key that is counted.
LEMMA ReleaseCounts ==
    ASSUME NEW table, Good(table), NEW key \in Keys, Count(table, key) # 0
    PROVE  /\ Good(Release(table, key))
           /\ \A k \in Keys : Count(Release(table, key), k)
                = IF k = key THEN Count(table, k) - 1 ELSE Count(table, k)
<1>. DEFINE n == FindSlot(table, key)
            new == Release(table, key)
            e == IF table[n].count = 1 THEN EmptySlot
                 ELSE [key |-> key, count |-> table[n].count - 1]
<1>1. /\ n \in Slots /\ n # NoSlot /\ table[n].count # 0 /\ table[n].key = key
      /\ table[n].count = Count(table, key)
  <2>1. PICK i \in Slots : table[i].count # 0 /\ table[i].key = key
    BY CountType
  <2>2. i # NoSlot
    BY Limits DEF Slots, NoSlot
  <2>. QED  BY <2>1, <2>2, FindUsed
<1>2. Count(table, key) \in Nat
  BY CountType
<1>3. new = [table EXCEPT ![n] = e]
  BY <1>1 DEF Release
<1>. HIDE DEF n, new
<1>4. /\ new \in Table
      /\ \A i \in Slots : i # n => new[i] = table[i]
      /\ new[n].count = Count(table, key) - 1
      /\ new[n].count # 0 => new[n].key = key
  <2>1. table[n] \in [key: Keys \cup {NoKey}, count: Nat]
    BY <1>1 DEF Good, Table
  <2>2. /\ e \in [key: Keys \cup {NoKey}, count: Nat]
        /\ e.count = table[n].count - 1 /\ (e.count # 0 => e.key = table[n].key)
    BY <1>1, <2>1 DEF EmptySlot
  <2>. HIDE DEF e
  <2>. QED  BY <1>1, <1>3, <2>2 DEF Good, Table
<1>5. \A i \in Slots : i # n => ~(table[i].count # 0 /\ table[i].key = key)
  BY <1>1 DEF Good
<1>6. Good(new)
  <2>1. \A i \in Slots : new[i].count # 0 => new[i].key \in Keys
    BY <1>4 DEF Good
  <2>2. ASSUME NEW i \in Slots, NEW j \in Slots, new[i].count # 0, new[j].count # 0,
               new[i].key = new[j].key
        PROVE  i = j
    <3>1. \A m \in Slots : new[m].count # 0 => table[m].count # 0
                                               /\ new[m].key = table[m].key
      BY <1>1, <1>4
    <3>. QED  BY <2>2, <3>1 DEF Good
  <2>. QED  BY <1>4, <2>1, <2>2 DEF Good
<1>7. Count(new, key) = Count(table, key) - 1
  <2>1. CASE Count(table, key) = 1
    <3>1. \A i \in Slots : ~(new[i].count # 0 /\ new[i].key = key)
      BY <1>1, <1>2, <1>4, <1>5, <2>1
    <3>. QED  BY <1>6, <2>1, <3>1, FindEmpty
  <2>2. CASE Count(table, key) # 1
    BY <1>1, <1>2, <1>4, <1>6, <2>2, FindUsed
  <2>. QED  BY <2>1, <2>2
<1>8. ASSUME NEW k \in Keys, k # key PROVE Count(new, k) = Count(table, k)
  <2>1. CASE \E i \in Slots : table[i].count # 0 /\ table[i].key = k
    <3>1. PICK i \in Slots : table[i].count # 0 /\ table[i].key = k
      BY <2>1
    <3>2. new[i] = table[i]
      BY <1>1, <1>4, <1>8, <3>1
    <3>. QED  BY <1>6, <3>1, <3>2, FindUsed
  <2>2. CASE \A i \in Slots : ~(table[i].count # 0 /\ table[i].key = k)
    <3>1. \A i \in Slots : ~(new[i].count # 0 /\ new[i].key = k)
      BY <1>1, <1>4, <1>8, <2>2
    <3>. QED  BY <1>6, <2>2, <3>1, FindEmpty
  <2>. QED  BY <2>1, <2>2
<1>. QED  BY <1>6, <1>7, <1>8 DEF new

-----------------------------------------------------------------------------
(* Tables and the connections they count *)

\* The table counts the holders, and only keys have a slot.
Tallied(table, holders, KeyOf) == Good(table) /\ Exact(table, holders, KeyOf)

\* The holders of a key.
Of(holders, KeyOf, k) == {c \in holders : KeyOf[c] = k}

LEMMA OfFinite ==
    ASSUME NEW holders \in SUBSET Conns, NEW KeyOf, NEW k
    PROVE  /\ IsFiniteSet(holders) /\ Cardinality(holders) \in Nat
           /\ IsFiniteSet(Of(holders, KeyOf, k))
           /\ Cardinality(Of(holders, KeyOf, k)) \in Nat
           /\ Cardinality(Of(holders, KeyOf, k)) <= Cardinality(holders)
           /\ Cardinality(Of(holders, KeyOf, k)) = 0 <=> Of(holders, KeyOf, k) = {}
<1>1. IsFiniteSet(holders)
  BY ConnsFinite, FS_Subset
<1>2. Of(holders, KeyOf, k) \in SUBSET holders
  BY DEF Of
<1>3. IsFiniteSet(Of(holders, KeyOf, k))
      /\ Cardinality(Of(holders, KeyOf, k)) <= Cardinality(holders)
  BY <1>1, <1>2, FS_Subset
<1>. QED  BY <1>1, <1>3, FS_CardinalityType, FS_EmptySet

\* A holder more, a unit more.
LEMMA AddTallied ==
    ASSUME NEW table, NEW holders \in SUBSET Conns, NEW KeyOf \in [Conns -> Keys],
           Tallied(table, holders, KeyOf), NEW c \in Conns, c \notin holders,
           FindSlot(table, KeyOf[c]) # NoSlot
    PROVE  Tallied(Add(table, KeyOf[c]), holders \cup {c}, KeyOf)
<1>. DEFINE new == Add(table, KeyOf[c])
            more == holders \cup {c}
<1>0. KeyOf[c] \in Keys
  OBVIOUS
<1>1. /\ Good(new)
      /\ \A k \in Keys : Count(new, k)
                = IF k = KeyOf[c] THEN Count(table, k) + 1 ELSE Count(table, k)
  BY <1>0, AddCounts DEF Tallied
<1>. HIDE DEF new
<1>2. ASSUME NEW k \in Keys
      PROVE  Count(new, k) = Cardinality(Of(more, KeyOf, k))
  <2>1. Count(table, k) = Cardinality(Of(holders, KeyOf, k))
    BY DEF Tallied, Exact, Of
  <2>2. IsFiniteSet(Of(holders, KeyOf, k))
    BY OfFinite
  <2>3. CASE k = KeyOf[c]
    <3>1. Of(more, KeyOf, k) = Of(holders, KeyOf, k) \cup {c}
      BY <2>3 DEF Of
    <3>2. c \notin Of(holders, KeyOf, k)
      BY DEF Of
    <3>3. Cardinality(Of(more, KeyOf, k)) = Cardinality(Of(holders, KeyOf, k)) + 1
      BY <2>2, <3>1, <3>2, FS_AddElement
    <3>. QED  BY <1>1, <2>1, <2>3, <3>3
  <2>4. CASE k # KeyOf[c]
    <3>1. Of(more, KeyOf, k) = Of(holders, KeyOf, k)
      BY <2>4 DEF Of
    <3>. QED  BY <1>1, <2>1, <2>4, <3>1
  <2>. QED  BY <2>3, <2>4
<1>. QED  BY <1>1, <1>2 DEF Tallied, Exact, Of, Good, new

\* A holder less, a unit less.
LEMMA ReleaseTallied ==
    ASSUME NEW table, NEW holders \in SUBSET Conns, NEW KeyOf \in [Conns -> Keys],
           Tallied(table, holders, KeyOf), NEW c \in holders
    PROVE  Tallied(Release(table, KeyOf[c]), holders \ {c}, KeyOf)
<1>. DEFINE new == Release(table, KeyOf[c])
            fewer == holders \ {c}
<1>0. KeyOf[c] \in Keys
  OBVIOUS
<1>1. \A k \in Keys : Count(table, k) = Cardinality(Of(holders, KeyOf, k))
  BY DEF Tallied, Exact, Of
<1>2. Count(table, KeyOf[c]) # 0
  <2>1. c \in Of(holders, KeyOf, KeyOf[c])
    BY DEF Of
  <2>. QED  BY <1>0, <1>1, <2>1, OfFinite
<1>3. /\ Good(new)
      /\ \A k \in Keys : Count(new, k)
                = IF k = KeyOf[c] THEN Count(table, k) - 1 ELSE Count(table, k)
  BY <1>0, <1>2, ReleaseCounts DEF Tallied
<1>. HIDE DEF new
<1>4. ASSUME NEW k \in Keys
      PROVE  Count(new, k) = Cardinality(Of(fewer, KeyOf, k))
  <2>2. IsFiniteSet(Of(holders, KeyOf, k))
    BY OfFinite
  <2>3. CASE k = KeyOf[c]
    <3>1. Of(fewer, KeyOf, k) = Of(holders, KeyOf, k) \ {c}
      BY <2>3 DEF Of
    <3>2. c \in Of(holders, KeyOf, k)
      BY <2>3 DEF Of
    <3>4. Cardinality(Of(holders, KeyOf, k) \ {c}) = Cardinality(Of(holders, KeyOf, k)) - 1
      BY <2>2, <3>2, FS_RemoveElement
    <3>3. Cardinality(Of(fewer, KeyOf, k)) = Cardinality(Of(holders, KeyOf, k)) - 1
      BY <3>1, <3>4
    <3>. QED  BY <1>1, <1>3, <2>3, <3>3
  <2>4. CASE k # KeyOf[c]
    <3>1. Of(fewer, KeyOf, k) = Of(holders, KeyOf, k)
      BY <2>4 DEF Of
    <3>. QED  BY <1>1, <1>3, <2>4, <3>1
  <2>. QED  BY <2>3, <2>4
<1>. QED  BY <1>3, <1>4 DEF Tallied, Exact, Of, Good, new

\* A table of MaxWorkers slots has one for every holder, and one more while
\* there are fewer holders than slots: each slot in use has a holder of its own.
LEMMA SlotFound ==
    ASSUME NEW table, NEW holders \in SUBSET Conns, NEW KeyOf \in [Conns -> Keys],
           Tallied(table, holders, KeyOf), NEW key \in Keys,
           (\E c \in holders : KeyOf[c] = key) \/ Cardinality(holders) < MaxWorkers
    PROVE  FindSlot(table, key) # NoSlot
<1>. SUFFICES ASSUME FindSlot(table, key) = NoSlot PROVE FALSE
  OBVIOUS
<1>1. \A k \in Keys : Count(table, k) = Cardinality(Of(holders, KeyOf, k))
  BY DEF Tallied, Exact, Of
<1>2. Good(table)
  BY DEF Tallied
<1>3. Count(table, key) = 0
  BY <1>2, CountType
<1>4. Of(holders, KeyOf, key) = {}
  BY <1>1, <1>3, OfFinite
<1>5. Cardinality(holders) < MaxWorkers
  BY <1>4 DEF Of
<1>6. \A i \in Slots : ~(table[i].count # 0 /\ table[i].key = key)
  BY <1>2, <1>3, CountType
<1>7. \A i \in Slots : table[i].count # 0
  BY <1>2, <1>6, FindEmpty
<1>8. \A i \in Slots : \E c \in holders : KeyOf[c] = table[i].key
  <2>1. SUFFICES ASSUME NEW i \in Slots PROVE \E c \in holders : KeyOf[c] = table[i].key
    OBVIOUS
  <2>2. table[i].key \in Keys /\ Count(table, table[i].key) # 0
    BY <1>2, <1>7, CountType DEF Good
  <2>3. Of(holders, KeyOf, table[i].key) # {}
    BY <1>1, <2>2, OfFinite
  <2>. QED  BY <2>3 DEF Of
<1>. DEFINE h == [i \in Slots |-> CHOOSE c \in holders : KeyOf[c] = table[i].key]
<1>9. \A i \in Slots : h[i] \in holders /\ KeyOf[h[i]] = table[i].key
  BY <1>8
<1>10. h \in Injection(Slots, holders)
  <2>1. h \in [Slots -> holders]
    BY <1>9
  <2>2. ASSUME NEW i \in Slots, NEW j \in Slots, h[i] = h[j] PROVE i = j
    <3>1. table[i].key = table[j].key
      BY <1>9, <2>2
    <3>. QED  BY <1>2, <1>7, <3>1 DEF Good
  <2>. HIDE DEF h
  <2>. QED  BY <2>1, <2>2 DEF Injection, IsInjective
<1>. HIDE DEF h
<1>11. IsFiniteSet(holders) /\ Cardinality(holders) \in Nat
  BY OfFinite
<1>12. Cardinality(Slots) <= Cardinality(holders)
  BY <1>10, <1>11, FS_Injection
<1>13. Cardinality(Slots) = MaxWorkers
  <2>1. 1 \in Int /\ MaxWorkers \in Int /\ ~(1 > MaxWorkers) /\ MaxWorkers - 1 + 1 = MaxWorkers
    BY Limits
  <2>. QED  BY <2>1, FS_Interval DEF Slots
<1>. QED  BY <1>5, <1>11, <1>12, <1>13, Limits

-----------------------------------------------------------------------------
(* The invariant *)

\* The connections that did not need the reserve when they were admitted.
Ordinary == {c \in Open : ~conn[c].from_reserve}

\* What a thread's stage says about the rest of its connection.
Shape ==
    \A c \in Conns :
        /\ conn[c].pc \in {"closed", "accepted", "probation", "registered"}
             => ~conn[c].public
        /\ conn[c].chunks > 0 => conn[c].pc \in {"idle", "closing"}
        /\ conn[c].kind # "none" <=> conn[c].pc = "working"
        /\ conn[c].public => ~conn[c].from_reserve

Accounts ==
    /\ workers = Cardinality(Open)
    /\ captures = Cardinality(Working("capture"))
    /\ assemblies = Cardinality(Assembling)
    /\ Tallied(usage["worker"], Open, UidOf)
    /\ Tallied(usage["kwin"], Working("kwin"), PidOf)
    /\ Tallied(usage["capture"], Working("capture"), UidOf)
    /\ Tallied(usage["capture_pid"], Working("capture"), PidOf)
    /\ Tallied(usage["assembly"], Assembling, UidOf)

Capped(table, cap) == \A k \in Keys : Count(table, k) <= cap

\* The caps that admission enforces hold at any time.
Caps ==
    /\ Capped(usage["capture"], CapturesPerUid)
    /\ Capped(usage["assembly"], AssembliesPerUid)

Pool ==
    /\ Cardinality(Ordinary) <= General
    /\ \A u \in Keys : Cardinality(Of(Ordinary, UidOf, u)) <= WorkersPerUid

\* The inductive invariant.
IInv == TypeOK /\ Shape /\ Accounts /\ Caps /\ Pool

LEMMA TypeOKIs ==
    TypeOK <=> /\ workers \in 0 .. MaxWorkers
               /\ usage \in [Tables -> Table]
               /\ captures \in 0 .. MaxCaptures
               /\ assemblies \in 0 .. MaxAssemblies
               /\ conn \in [Conns -> ConnRecord]
BY DEF TypeOK, Table

\* The sets of connections are finite.
LEMMA SetsFinite ==
    /\ Open \in SUBSET Conns /\ Assembling \in SUBSET Conns
    /\ Ordinary \in SUBSET Open /\ Ordinary \in SUBSET Conns
    /\ \A kind : Working(kind) \in SUBSET Conns
    /\ IsFiniteSet(Open) /\ Cardinality(Open) \in Nat
    /\ IsFiniteSet(Assembling) /\ Cardinality(Assembling) \in Nat
    /\ IsFiniteSet(Ordinary) /\ Cardinality(Ordinary) \in Nat
    /\ \A kind : IsFiniteSet(Working(kind)) /\ Cardinality(Working(kind)) \in Nat
<1>1. /\ Open \in SUBSET Conns /\ Assembling \in SUBSET Conns
      /\ Ordinary \in SUBSET Open /\ Ordinary \in SUBSET Conns
      /\ \A kind : Working(kind) \in SUBSET Conns
  BY DEF Open, Assembling, Ordinary, Working
<1>2. \A S \in SUBSET Conns : IsFiniteSet(S) /\ Cardinality(S) \in Nat
  BY ConnsFinite, FS_Subset, FS_CardinalityType
<1>. QED  BY <1>1, <1>2

-----------------------------------------------------------------------------
(* What a step does to its connection *)

Becomes(c, p, f, q, n, k) ==
    /\ conn' \in [Conns -> ConnRecord]
    /\ \A d \in Conns \ {c} : conn'[d] = conn[d]
    /\ conn'[c].pc = p /\ conn'[c].from_reserve = f /\ conn'[c].public = q
    /\ conn'[c].chunks = n /\ conn'[c].kind = k

LEMMA BecomesRecord ==
    ASSUME TypeOK, NEW c \in Conns, NEW R \in ConnRecord,
           conn' = [conn EXCEPT ![c] = R]
    PROVE  Becomes(c, R.pc, R.from_reserve, R.public, R.chunks, R.kind)
BY TypeOKIs DEF Becomes

\* The forms of the updates in the actions.
LEMMA Updates ==
    ASSUME TypeOK, NEW c \in Conns, NEW p \in Stages, NEW b \in BOOLEAN,
           NEW n \in 0 .. MaxChunks, NEW k \in Kinds \cup {"none"}
    PROVE  LET r == conn[c] IN
           /\ conn' = [conn EXCEPT ![c].pc = p]
                => Becomes(c, p, r.from_reserve, r.public, r.chunks, r.kind)
           /\ conn' = [conn EXCEPT ![c].pc = p, ![c].from_reserve = b]
                => Becomes(c, p, b, r.public, r.chunks, r.kind)
           /\ conn' = [conn EXCEPT ![c].pc = p, ![c].public = b]
                => Becomes(c, p, r.from_reserve, b, r.chunks, r.kind)
           /\ conn' = [conn EXCEPT ![c].chunks = n]
                => Becomes(c, r.pc, r.from_reserve, r.public, n, r.kind)
           /\ conn' = [conn EXCEPT ![c].pc = p, ![c].chunks = n]
                => Becomes(c, p, r.from_reserve, r.public, n, r.kind)
           /\ conn' = [conn EXCEPT ![c].pc = p, ![c].kind = k]
                => Becomes(c, p, r.from_reserve, r.public, r.chunks, k)
<1>. DEFINE r == conn[c]
<1>0. r \in ConnRecord /\ conn \in [Conns -> ConnRecord]
  BY TypeOKIs
<1>1. ASSUME conn' = [conn EXCEPT ![c].pc = p]
      PROVE  Becomes(c, p, r.from_reserve, r.public, r.chunks, r.kind)
  <2>. DEFINE R == [r EXCEPT !.pc = p]
  <2>1. R \in ConnRecord
    BY <1>0 DEF ConnRecord
  <2>2. /\ R.pc = p /\ R.from_reserve = r.from_reserve /\ R.public = r.public
        /\ R.chunks = r.chunks /\ R.kind = r.kind
    BY <1>0 DEF ConnRecord
  <2>3. conn' = [conn EXCEPT ![c] = R]
    BY <1>1
  <2>. HIDE DEF R
  <2>4. Becomes(c, R.pc, R.from_reserve, R.public, R.chunks, R.kind)
    BY <2>1, <2>3, BecomesRecord
  <2>. QED  BY <2>2, <2>4
<1>2. ASSUME conn' = [conn EXCEPT ![c].pc = p, ![c].from_reserve = b]
      PROVE  Becomes(c, p, b, r.public, r.chunks, r.kind)
  <2>. DEFINE R == [r EXCEPT !.pc = p, !.from_reserve = b]
  <2>1. R \in ConnRecord
    BY <1>0 DEF ConnRecord
  <2>2. /\ R.pc = p /\ R.from_reserve = b /\ R.public = r.public
        /\ R.chunks = r.chunks /\ R.kind = r.kind
    BY <1>0 DEF ConnRecord
  <2>3. conn' = [conn EXCEPT ![c] = R]
    BY <1>2
  <2>. HIDE DEF R
  <2>4. Becomes(c, R.pc, R.from_reserve, R.public, R.chunks, R.kind)
    BY <2>1, <2>3, BecomesRecord
  <2>. QED  BY <2>2, <2>4
<1>3. ASSUME conn' = [conn EXCEPT ![c].pc = p, ![c].public = b]
      PROVE  Becomes(c, p, r.from_reserve, b, r.chunks, r.kind)
  <2>. DEFINE R == [r EXCEPT !.pc = p, !.public = b]
  <2>1. R \in ConnRecord
    BY <1>0 DEF ConnRecord
  <2>2. /\ R.pc = p /\ R.from_reserve = r.from_reserve /\ R.public = b
        /\ R.chunks = r.chunks /\ R.kind = r.kind
    BY <1>0 DEF ConnRecord
  <2>3. conn' = [conn EXCEPT ![c] = R]
    BY <1>3
  <2>. HIDE DEF R
  <2>4. Becomes(c, R.pc, R.from_reserve, R.public, R.chunks, R.kind)
    BY <2>1, <2>3, BecomesRecord
  <2>. QED  BY <2>2, <2>4
<1>4. ASSUME conn' = [conn EXCEPT ![c].chunks = n]
      PROVE  Becomes(c, r.pc, r.from_reserve, r.public, n, r.kind)
  <2>. DEFINE R == [r EXCEPT !.chunks = n]
  <2>1. R \in ConnRecord
    BY <1>0 DEF ConnRecord
  <2>2. /\ R.pc = r.pc /\ R.from_reserve = r.from_reserve /\ R.public = r.public
        /\ R.chunks = n /\ R.kind = r.kind
    BY <1>0 DEF ConnRecord
  <2>3. conn' = [conn EXCEPT ![c] = R]
    BY <1>4
  <2>. HIDE DEF R
  <2>4. Becomes(c, R.pc, R.from_reserve, R.public, R.chunks, R.kind)
    BY <2>1, <2>3, BecomesRecord
  <2>. QED  BY <2>2, <2>4
<1>5. ASSUME conn' = [conn EXCEPT ![c].pc = p, ![c].chunks = n]
      PROVE  Becomes(c, p, r.from_reserve, r.public, n, r.kind)
  <2>. DEFINE R == [r EXCEPT !.pc = p, !.chunks = n]
  <2>1. R \in ConnRecord
    BY <1>0 DEF ConnRecord
  <2>2. /\ R.pc = p /\ R.from_reserve = r.from_reserve /\ R.public = r.public
        /\ R.chunks = n /\ R.kind = r.kind
    BY <1>0 DEF ConnRecord
  <2>3. conn' = [conn EXCEPT ![c] = R]
    BY <1>5
  <2>. HIDE DEF R
  <2>4. Becomes(c, R.pc, R.from_reserve, R.public, R.chunks, R.kind)
    BY <2>1, <2>3, BecomesRecord
  <2>. QED  BY <2>2, <2>4
<1>6. ASSUME conn' = [conn EXCEPT ![c].pc = p, ![c].kind = k]
      PROVE  Becomes(c, p, r.from_reserve, r.public, r.chunks, k)
  <2>. DEFINE R == [r EXCEPT !.pc = p, !.kind = k]
  <2>1. R \in ConnRecord
    BY <1>0 DEF ConnRecord
  <2>2. /\ R.pc = p /\ R.from_reserve = r.from_reserve /\ R.public = r.public
        /\ R.chunks = r.chunks /\ R.kind = k
    BY <1>0 DEF ConnRecord
  <2>3. conn' = [conn EXCEPT ![c] = R]
    BY <1>6
  <2>. HIDE DEF R
  <2>4. Becomes(c, R.pc, R.from_reserve, R.public, R.chunks, R.kind)
    BY <2>1, <2>3, BecomesRecord
  <2>. QED  BY <2>2, <2>4
<1>. QED  BY <1>1, <1>2, <1>3, <1>4, <1>5, <1>6

\* How the sets of connections follow.
LEMMA SetsAfter ==
    ASSUME NEW c \in Conns, NEW p, NEW f, NEW q, NEW n, NEW k, Becomes(c, p, f, q, n, k)
    PROVE  /\ Open' = IF p = "closed" THEN Open \ {c} ELSE Open \cup {c}
           /\ Assembling' = IF n > 0 THEN Assembling \cup {c} ELSE Assembling \ {c}
           /\ Ordinary' = IF p = "closed" \/ f THEN Ordinary \ {c} ELSE Ordinary \cup {c}
           /\ Working("capture")' = IF k = "capture" THEN Working("capture") \cup {c}
                                    ELSE Working("capture") \ {c}
           /\ Working("kwin")' = IF k = "kwin" THEN Working("kwin") \cup {c}
                                 ELSE Working("kwin") \ {c}
<1>1. Open' = IF p = "closed" THEN Open \ {c} ELSE Open \cup {c}
  BY DEF Becomes, Open
<1>2. Assembling' = IF n > 0 THEN Assembling \cup {c} ELSE Assembling \ {c}
  BY DEF Becomes, Assembling
<1>3. Ordinary' = IF p = "closed" \/ f THEN Ordinary \ {c} ELSE Ordinary \cup {c}
  BY DEF Becomes, Ordinary, Open
<1>4. \A kind : {d \in Conns : conn'[d].kind = kind}
               = IF k = kind THEN Working(kind) \cup {c} ELSE Working(kind) \ {c}
  BY DEF Becomes, Working
<1>. QED  BY <1>1, <1>2, <1>3, <1>4 DEF Working

-----------------------------------------------------------------------------
(* Every step keeps the invariant *)

LEMMA ShapeAfter ==
    ASSUME Shape, NEW c \in Conns, NEW p, NEW f, NEW q, NEW n, NEW k,
           Becomes(c, p, f, q, n, k),
           p \in {"closed", "accepted", "probation", "registered"} => ~q,
           n > 0 => p \in {"idle", "closing"},
           k # "none" <=> p = "working",
           q => ~f
    PROVE  Shape'
BY DEF Shape, Becomes

\* Only an admission can fill the pool.
LEMMA PoolShrinks ==
    ASSUME Pool, Ordinary' \subseteq Ordinary
    PROVE  Pool'
<1>1. IsFiniteSet(Ordinary) /\ Cardinality(Ordinary) \in Nat
  BY SetsFinite
<1>2. IsFiniteSet(Ordinary') /\ Cardinality(Ordinary') \in Nat
      /\ Cardinality(Ordinary') <= Cardinality(Ordinary)
  BY <1>1, FS_Subset, FS_CardinalityType
<1>3. ASSUME NEW u \in Keys
      PROVE  Cardinality(Of(Ordinary', UidOf, u)) <= WorkersPerUid
  <2>1. Of(Ordinary', UidOf, u) \subseteq Of(Ordinary, UidOf, u)
    BY DEF Of
  <2>2. IsFiniteSet(Of(Ordinary, UidOf, u)) /\ Cardinality(Of(Ordinary, UidOf, u)) \in Nat
    BY SetsFinite, OfFinite
  <2>3. /\ Cardinality(Of(Ordinary', UidOf, u)) \in Nat
        /\ Cardinality(Of(Ordinary', UidOf, u)) <= Cardinality(Of(Ordinary, UidOf, u))
    BY <2>1, <2>2, FS_Subset, FS_CardinalityType
  <2>. QED  BY <2>2, <2>3, Limits DEF Pool
<1>4. Cardinality(Ordinary') <= General
  BY <1>1, <1>2, Limits DEF Pool
<1>. QED  BY <1>3, <1>4 DEF Pool, Of

\* One table is updated.
LEMMA UsageAfter ==
    ASSUME usage \in [Tables -> Table], NEW t \in Tables, NEW T \in Table,
           usage' = [usage EXCEPT ![t] = T]
    PROVE  /\ usage' \in [Tables -> Table] /\ usage'[t] = T
           /\ \A s \in Tables : s # t => usage'[s] = usage[s]
<1>. HIDE DEF Table
<1>. QED  OBVIOUS

LEMMA CappedAfter ==
    ASSUME NEW table, Good(table), NEW key \in Keys, NEW cap \in Nat, Capped(table, cap)
    PROVE  /\ FindSlot(table, key) # NoSlot /\ Count(table, key) < cap
                => Capped(Add(table, key), cap)
           /\ Count(table, key) # 0 => Capped(Release(table, key), cap)
<1>1. \A k \in Keys : Count(table, k) \in Nat /\ Count(table, k) <= cap
  BY CountType DEF Capped
<1>2. ASSUME FindSlot(table, key) # NoSlot, Count(table, key) < cap
      PROVE  Capped(Add(table, key), cap)
  BY <1>1, <1>2, AddCounts DEF Capped
<1>3. ASSUME Count(table, key) # 0 PROVE Capped(Release(table, key), cap)
  BY <1>1, <1>3, ReleaseCounts DEF Capped
<1>. QED  BY <1>2, <1>3

\* A step that spends and returns nothing.
LEMMA Unspent ==
    ASSUME IInv, NEW c \in Conns, NEW p \in Stages, p # "closed", c \in Open,
           NEW q, NEW n \in Nat, n > 0 <=> conn[c].chunks > 0,
           Becomes(c, p, conn[c].from_reserve, q, n, conn[c].kind),
           UNCHANGED <<workers, usage, captures, assemblies>>
    PROVE  TypeOK' /\ Accounts' /\ Caps' /\ Pool'
<1>1. Open' = Open
  BY SetsAfter
<1>2. Assembling' = Assembling
  BY SetsAfter DEF Assembling
<1>3. Working("capture")' = Working("capture") /\ Working("kwin")' = Working("kwin")
  BY SetsAfter DEF Working
<1>4. Ordinary' \subseteq Ordinary
  BY SetsAfter DEF Ordinary
<1>5. TypeOK'
  BY TypeOKIs DEF IInv, TypeOK, Becomes
<1>6. Accounts'
  BY <1>1, <1>2, <1>3 DEF IInv, Accounts
<1>7. Caps'
  BY DEF IInv, Caps, Capped, Count, FindSlot
<1>. QED  BY <1>4, <1>5, <1>6, <1>7, PoolShrinks DEF IInv

\* The moves of a thread.
LEMMA MoveKeeps ==
    ASSUME IInv, NEW c \in Conns,
           \/ ThreadStarts(c) \/ Classify(c) \/ RegistrationEnds(c) \/ NextChunk(c)
           \/ Deadline(c) \/ Disconnect(c)
           \/ FirstChunk(c) /\ ~AssemblyFits(c)
    PROVE  IInv'
<1>. DEFINE r == conn[c]
<1>1. r \in ConnRecord
  BY TypeOKIs DEF IInv
<1>2. /\ r.pc \in {"closed", "accepted", "probation", "registered"} => ~r.public
      /\ r.chunks > 0 => r.pc \in {"idle", "closing"}
      /\ r.kind # "none" <=> r.pc = "working"
      /\ r.public => ~r.from_reserve
      /\ r.chunks \in Nat /\ r.chunks \in 0 .. MaxChunks
  BY <1>1, LimitsOK DEF IInv, Shape, ConnRecord
<1>3. r.pc # "closed" /\ c \in Open
  BY DEF ThreadStarts, Classify, RegistrationEnds, NextChunk, Deadline, Disconnect,
         FirstChunk, Open
<1>4. UNCHANGED <<workers, usage, captures, assemblies>>
  BY DEF ThreadStarts, Classify, RegistrationEnds, NextChunk, Deadline, Disconnect,
         FirstChunk, Move
<1>5. ASSUME NEW p \in Stages, p # "closed", p # "working", r.pc # "working",
             p \in {"accepted", "probation", "registered"} => ~r.public,
             r.chunks > 0 => p \in {"idle", "closing"}, Move(c, p)
      PROVE  IInv'
  <2>1. Becomes(c, p, r.from_reserve, r.public, r.chunks, r.kind)
    BY <1>1, <1>5, Updates DEF Move, IInv, ConnRecord
  <2>2. Shape'
    BY <1>2, <1>5, <2>1, ShapeAfter DEF IInv
  <2>3. TypeOK' /\ Accounts' /\ Caps' /\ Pool'
    BY <1>2, <1>3, <1>4, <1>5, <2>1, Unspent
  <2>. QED  BY <2>2, <2>3 DEF IInv
<1>6. {"probation", "registered", "leaving", "idle", "closing"} \subseteq Stages
  BY DEF Stages
<1>a. CASE ThreadStarts(c)
  BY <1>2, <1>5, <1>6, <1>a DEF ThreadStarts
<1>b. CASE Classify(c) /\ Move(c, "leaving")
  BY <1>2, <1>5, <1>6, <1>b DEF Classify
<1>c. CASE Classify(c) /\ Move(c, "registered")
  BY <1>2, <1>5, <1>6, <1>c DEF Classify
<1>d. CASE /\ Classify(c) /\ KeepsSlot(c, FALSE)
           /\ conn' = [conn EXCEPT ![c].pc = "idle", ![c].public = TRUE]
  <2>1. \A p \in Stages, b \in BOOLEAN :
          conn' = [conn EXCEPT ![c].pc = p, ![c].public = b]
            => Becomes(c, p, r.from_reserve, b, r.chunks, r.kind)
    <3>1. 0 \in 0 .. MaxChunks /\ "none" \in Kinds \cup {"none"}
      BY LimitsOK
    <3>. QED  BY <3>1, Updates DEF IInv
  <2>0. PICK yes \in BOOLEAN : yes
    OBVIOUS
  <2>2. Becomes(c, "idle", r.from_reserve, yes, r.chunks, r.kind)
    <3>1. TRUE = yes
      BY <2>0
    <3>. QED  BY <1>6, <1>d, <2>1, <3>1
  <2>3. r.pc = "probation" /\ ~r.from_reserve
    BY <1>d DEF Classify, KeepsSlot
  <2>4. Shape'
    <3>1. /\ "idle" \notin {"closed", "accepted", "probation", "registered"}
          /\ "idle" \in {"idle", "closing"} /\ "idle" # "working" /\ r.kind = "none"
          /\ yes => ~r.from_reserve
      BY <1>2, <2>3
    <3>. QED  BY <2>2, <3>1, ShapeAfter DEF IInv
  <2>5. TypeOK' /\ Accounts' /\ Caps' /\ Pool'
    BY <1>2, <1>3, <1>4, <1>6, <2>2, Unspent
  <2>. QED  BY <2>4, <2>5 DEF IInv
<1>e. CASE RegistrationEnds(c)
  BY <1>2, <1>5, <1>6, <1>e DEF RegistrationEnds
<1>f. CASE NextChunk(c)
  <2>1. r.pc = "idle" /\ r.chunks + 1 \in 0 .. MaxChunks /\ r.chunks > 0
        /\ conn' = [conn EXCEPT ![c].chunks = r.chunks + 1]
    BY <1>2, <1>f, LimitsOK DEF NextChunk
  <2>2. Becomes(c, "idle", r.from_reserve, r.public, r.chunks + 1, r.kind)
    <3>1. "none" \in Kinds \cup {"none"} /\ "idle" \in Stages
      BY <1>6
    <3>. QED  BY <2>1, <3>1, Updates DEF IInv
  <2>3. Shape'
    BY <1>2, <2>1, <2>2, ShapeAfter DEF IInv
  <2>4. r.chunks + 1 \in Nat /\ r.chunks + 1 > 0
    BY <1>2
  <2>5. TypeOK' /\ Accounts' /\ Caps' /\ Pool'
    BY <1>3, <1>4, <1>6, <2>1, <2>2, <2>4, Unspent
  <2>. QED  BY <2>3, <2>5 DEF IInv
<1>g. CASE Deadline(c) \/ Disconnect(c) \/ (FirstChunk(c) /\ ~AssemblyFits(c))
  <2>1. r.pc = "idle" /\ Move(c, "closing")
    BY <1>g DEF Deadline, Disconnect, FirstChunk
  <2>. QED  BY <1>2, <1>5, <1>6, <2>1
<1>h. Classify(c) => \/ Move(c, "leaving") \/ Move(c, "registered")
                     \/ /\ KeepsSlot(c, FALSE)
                        /\ conn' = [conn EXCEPT ![c].pc = "idle", ![c].public = TRUE]
  BY DEF Classify
<1>. QED  BY <1>a, <1>b, <1>c, <1>d, <1>e, <1>f, <1>g, <1>h

\* reserve_worker: the only step that can add to the ordinary connections, and
\* it reads both counts in the critical section in which it admits.
LEMMA AcceptKeeps ==
    ASSUME IInv, NEW c \in Conns, Accept(c)
    PROVE  IInv'
<1>. DEFINE r == conn[c]
            uid == UidOf[c]
            table == usage["worker"]
<1>0. r \in ConnRecord /\ uid \in Keys /\ usage \in [Tables -> Table]
      /\ workers \in 0 .. MaxWorkers /\ "worker" \in Tables
  BY TypeOKIs, LimitsOK DEF IInv, Tables
<1>1. /\ r.pc = "closed" /\ r.chunks = 0 /\ r.kind = "none" /\ ~r.public
      /\ c \notin Open /\ c \notin Assembling
      /\ c \notin Working("capture") /\ c \notin Working("kwin")
  BY <1>0, LimitsOK DEF IInv, Shape, Accept, Open, Assembling, Working, ConnRecord
<1>2. PICK b \in BOOLEAN :
        /\ b <=> ~AdmitGeneral(workers, Count(table, uid))
        /\ conn' = [conn EXCEPT ![c].pc = "accepted", ![c].from_reserve = b]
  BY DEF Accept
<1>3. Becomes(c, "accepted", b, r.public, r.chunks, r.kind)
  <2>1. "accepted" \in Stages /\ 0 \in 0 .. MaxChunks /\ "none" \in Kinds \cup {"none"}
    BY LimitsOK DEF Stages
  <2>. QED  BY <1>2, <2>1, Updates DEF IInv
<1>4. Open' = Open \cup {c}
  BY <1>3, SetsAfter
<1>5. Assembling' = Assembling
  BY <1>1, <1>3, SetsAfter, SMTT(20)
<1>6. Working("capture")' = Working("capture") /\ Working("kwin")' = Working("kwin")
  BY <1>1, <1>3, SetsAfter
<1>7. Shape'
  BY <1>1, <1>3, ShapeAfter DEF IInv
<1>8. Tallied(Add(table, uid), Open \cup {c}, UidOf)
  <2>1. Tallied(table, Open, UidOf) /\ FindSlot(table, uid) # NoSlot
    BY DEF IInv, Accounts, Accept
  <2>. QED  BY <1>1, <2>1, AddTallied, SetsFinite, LimitsOK
<1>9. Add(table, uid) \in Table
  BY <1>8 DEF Tallied, Good
<1>10. /\ usage' \in [Tables -> Table] /\ usage'["worker"] = Add(table, uid)
       /\ \A s \in Tables : s # "worker" => usage'[s] = usage[s]
  <2>1. usage' = [usage EXCEPT !["worker"] = Add(table, uid)]
    BY DEF Accept
  <2>. QED  BY <1>0, <1>9, <2>1, UsageAfter
<1>11. /\ usage'["kwin"] = usage["kwin"] /\ usage'["capture"] = usage["capture"]
       /\ usage'["capture_pid"] = usage["capture_pid"]
       /\ usage'["assembly"] = usage["assembly"]
  BY <1>10 DEF Tables
<1>12. workers' = workers + 1 /\ workers < MaxWorkers /\ UNCHANGED <<captures, assemblies>>
  BY <1>0, Limits DEF Accept, PoolFull
<1>13. TypeOK'
  <2>1. workers' \in 0 .. MaxWorkers
    BY <1>0, <1>12, Limits
  <2>2. conn' \in [Conns -> ConnRecord]
    BY <1>3 DEF Becomes
  <2>3. usage' \in [Tables -> [Slots -> [key: Keys \cup {NoKey}, count: Nat]]]
    BY <1>10 DEF Table
  <2>. QED  BY <1>12, <2>1, <2>2, <2>3 DEF IInv, TypeOK
<1>14. Cardinality(Open') = Cardinality(Open) + 1
  BY <1>1, <1>4, SetsFinite, FS_AddElement
<1>15. Accounts'
  <2>1. Tallied(usage'["worker"], Open', UidOf)
    BY <1>4, <1>8, <1>10
  <2>. QED  BY <1>5, <1>6, <1>11, <1>12, <1>14, <2>1 DEF IInv, Accounts
<1>16. Caps'
  BY <1>11 DEF IInv, Caps
<1>17. Pool'
  <2>1. CASE b
    <3>1. Ordinary' \subseteq Ordinary
      BY <1>3, <2>1, SetsAfter
    <3>. QED  BY <3>1, PoolShrinks DEF IInv
  <2>2. CASE ~b
    <3>1. workers < General /\ Count(table, uid) < WorkersPerUid
      BY <1>2, <2>2 DEF AdmitGeneral
    <3>2. Ordinary' = Ordinary \cup {c} /\ c \notin Ordinary
      BY <1>1, <1>3, <2>2, SetsAfter DEF Ordinary
    <3>3. /\ Cardinality(Ordinary) <= Cardinality(Open)
          /\ Cardinality(Ordinary') = Cardinality(Ordinary) + 1
      BY <3>2, SetsFinite, FS_Subset, FS_AddElement
    <3>4. Cardinality(Ordinary') <= General
      <4>1. workers = Cardinality(Open)
        BY DEF IInv, Accounts
      <4>. QED  BY <3>1, <3>3, <4>1, SetsFinite, Limits
    <3>5. ASSUME NEW u \in Keys
          PROVE  Cardinality(Of(Ordinary', UidOf, u)) <= WorkersPerUid
      <4>1. CASE u = uid
        <5>1. Of(Ordinary', UidOf, u) \in SUBSET Of(Open \cup {c}, UidOf, u)
          BY <3>2, SetsFinite DEF Of
        <5>2. IsFiniteSet(Of(Open \cup {c}, UidOf, u))
              /\ Cardinality(Of(Open \cup {c}, UidOf, u)) \in Nat
          BY SetsFinite, OfFinite
        <5>3. Cardinality(Of(Open \cup {c}, UidOf, u)) = Count(Add(table, uid), u)
          BY <1>8 DEF Tallied, Exact, Of
        <5>4. Good(table) /\ FindSlot(table, uid) # NoSlot
          BY DEF IInv, Accounts, Tallied, Accept
        <5>5. Count(Add(table, uid), u) = Count(table, uid) + 1 /\ Count(table, uid) \in Nat
          BY <1>0, <4>1, <5>4, AddCounts, CountType
        <5>6. /\ Cardinality(Of(Ordinary', UidOf, u)) \in Nat
              /\ Cardinality(Of(Ordinary', UidOf, u))
                   <= Cardinality(Of(Open \cup {c}, UidOf, u))
          BY <5>1, <5>2, FS_Subset, FS_CardinalityType
        <5>. QED  BY <3>1, <5>2, <5>3, <5>5, <5>6, Limits
      <4>2. CASE u # uid
        <5>1. Of(Ordinary', UidOf, u) = Of(Ordinary, UidOf, u)
          BY <3>2, <4>2 DEF Of
        <5>. QED  BY <5>1 DEF IInv, Pool
      <4>. QED  BY <4>1, <4>2
    <3>. QED  BY <3>4, <3>5 DEF Pool, Of
  <2>. QED  BY <2>1, <2>2
<1>. QED  BY <1>7, <1>13, <1>15, <1>16, <1>17 DEF IInv

\* The slot of a connection that spends nothing else is given back.
LEMMA ReleaseWorkerKeeps ==
    ASSUME IInv, NEW c \in Conns, ThreadFails(c) \/ WorkerEnds(c)
    PROVE  IInv'
<1>. DEFINE r == conn[c]
            uid == UidOf[c]
            table == usage["worker"]
<1>0. r \in ConnRecord /\ uid \in Keys /\ usage \in [Tables -> Table]
      /\ workers \in 0 .. MaxWorkers /\ "worker" \in Tables
  BY TypeOKIs, LimitsOK DEF IInv, Tables
<1>r. ReleaseWorker(c)
  BY DEF ThreadFails, WorkerEnds
<1>1. /\ r.pc \in {"accepted", "leaving"} /\ ~(r.chunks > 0) /\ r.kind = "none"
      /\ c \in Open /\ c \notin Assembling
      /\ c \notin Working("capture") /\ c \notin Working("kwin")
  BY DEF IInv, Shape, ThreadFails, WorkerEnds, Open, Assembling, Working
<1>2. PICK no \in BOOLEAN : ~no
  OBVIOUS
<1>3. Becomes(c, "closed", no, no, 0, "none")
  <2>1. NoConn \in ConnRecord
    BY LimitsOK DEF NoConn, ConnRecord, Stages
  <2>2. /\ NoConn.pc = "closed" /\ NoConn.from_reserve = no /\ NoConn.public = no
        /\ NoConn.chunks = 0 /\ NoConn.kind = "none"
    BY <1>2 DEF NoConn
  <2>3. Becomes(c, NoConn.pc, NoConn.from_reserve, NoConn.public, NoConn.chunks, NoConn.kind)
    BY <1>r, <2>1, BecomesRecord DEF ReleaseWorker, IInv
  <2>. QED  BY <2>2, <2>3
<1>4. Open' = Open \ {c}
  BY <1>3, SetsAfter
<1>5. Assembling' = Assembling
  BY <1>1, <1>3, SetsAfter
<1>6. Working("capture")' = Working("capture") /\ Working("kwin")' = Working("kwin")
  BY <1>1, <1>3, SetsAfter
<1>7. Shape'
  BY <1>2, <1>3, ShapeAfter DEF IInv
<1>8. Tallied(Release(table, uid), Open \ {c}, UidOf)
  <2>1. Tallied(table, Open, UidOf)
    BY DEF IInv, Accounts
  <2>. QED  BY <1>1, <2>1, ReleaseTallied, SetsFinite, LimitsOK
<1>9. Release(table, uid) \in Table
  BY <1>8 DEF Tallied, Good
<1>10. /\ usage' \in [Tables -> Table] /\ usage'["worker"] = Release(table, uid)
       /\ \A s \in Tables : s # "worker" => usage'[s] = usage[s]
  <2>1. usage' = [usage EXCEPT !["worker"] = Release(table, uid)]
    BY <1>r DEF ReleaseWorker
  <2>. QED  BY <1>0, <1>9, <2>1, UsageAfter
<1>11. /\ usage'["kwin"] = usage["kwin"] /\ usage'["capture"] = usage["capture"]
       /\ usage'["capture_pid"] = usage["capture_pid"]
       /\ usage'["assembly"] = usage["assembly"]
  BY <1>10 DEF Tables
<1>12. workers' = workers - 1 /\ UNCHANGED <<captures, assemblies>>
  BY <1>r DEF ReleaseWorker
<1>14. Cardinality(Open') = Cardinality(Open) - 1 /\ Cardinality(Open') \in Nat
  BY <1>1, <1>4, SetsFinite, FS_RemoveElement, FS_CardinalityType
<1>13. TypeOK'
  <2>0. workers = Cardinality(Open)
    BY DEF IInv, Accounts
  <2>1. workers' \in 0 .. MaxWorkers
    BY <1>0, <1>12, <1>14, <2>0, Limits
  <2>2. conn' \in [Conns -> ConnRecord]
    BY <1>3 DEF Becomes
  <2>3. usage' \in [Tables -> [Slots -> [key: Keys \cup {NoKey}, count: Nat]]]
    BY <1>10 DEF Table
  <2>. QED  BY <1>12, <2>1, <2>2, <2>3 DEF IInv, TypeOK
<1>15. Accounts'
  <2>1. Tallied(usage'["worker"], Open', UidOf)
    BY <1>4, <1>8, <1>10
  <2>. QED  BY <1>5, <1>6, <1>11, <1>12, <1>14, <2>1 DEF IInv, Accounts
<1>16. Caps'
  BY <1>11 DEF IInv, Caps
<1>17. Pool'
  <2>1. Ordinary' \subseteq Ordinary
    BY <1>3, SetsAfter
  <2>. QED  BY <2>1, PoolShrinks DEF IInv
<1>. QED  BY <1>7, <1>13, <1>15, <1>16, <1>17 DEF IInv

\* The memory of a chunked request is reserved with its first chunk, and given
\* back with its last one or at the end of the connection.
LEMMA AssemblyKeeps ==
    ASSUME IInv, NEW c \in Conns, NEW p, p # "closed", NEW n \in 0 .. MaxChunks,
           UNCHANGED <<workers, captures>>, c \in Open,
           Becomes(c, p, conn[c].from_reserve, conn[c].public, n, conn[c].kind),
           \/ /\ n > 0 /\ c \notin Assembling /\ AssemblyFits(c)
              /\ usage' = [usage EXCEPT !["assembly"] = Add(usage["assembly"], UidOf[c])]
              /\ assemblies' = assemblies + 1
           \/ /\ ~(n > 0) /\ c \in Assembling
              /\ usage' = [usage EXCEPT !["assembly"] = Release(usage["assembly"], UidOf[c])]
              /\ assemblies' = IF assemblies > 0 THEN assemblies - 1 ELSE assemblies
    PROVE  TypeOK' /\ Accounts' /\ Caps' /\ Pool'
<1>. DEFINE uid == UidOf[c]
            table == usage["assembly"]
<1>0. /\ uid \in Keys /\ usage \in [Tables -> Table] /\ "assembly" \in Tables
      /\ assemblies \in 0 .. MaxAssemblies
  BY TypeOKIs, LimitsOK DEF IInv, Tables
<1>1. /\ Tallied(table, Assembling, UidOf) /\ assemblies = Cardinality(Assembling)
      /\ Capped(table, AssembliesPerUid)
  BY DEF IInv, Accounts, Caps
<1>2. Good(table)
  BY <1>1 DEF Tallied
<1>t. PICK T : usage' = [usage EXCEPT !["assembly"] = T]
             /\ \/ /\ n > 0 /\ c \notin Assembling /\ AssemblyFits(c)
                   /\ T = Add(table, uid) /\ assemblies' = assemblies + 1
                \/ /\ ~(n > 0) /\ c \in Assembling /\ T = Release(table, uid)
                   /\ assemblies' = IF assemblies > 0 THEN assemblies - 1 ELSE assemblies
  OBVIOUS
<1>3. /\ Tallied(T, Assembling', UidOf) /\ Capped(T, AssembliesPerUid)
      /\ assemblies' = Cardinality(Assembling') /\ assemblies' \in 0 .. MaxAssemblies
  <2>1. CASE /\ n > 0 /\ c \notin Assembling /\ AssemblyFits(c)
             /\ T = Add(table, uid) /\ assemblies' = assemblies + 1
    <3>1. Assembling' = Assembling \cup {c}
      BY <2>1, SetsAfter
    <3>2. FindSlot(table, uid) # NoSlot /\ Count(table, uid) < AssembliesPerUid
          /\ assemblies < MaxAssemblies
      BY <2>1 DEF AssemblyFits
    <3>3. Tallied(T, Assembling', UidOf)
      BY <1>1, <2>1, <3>1, <3>2, AddTallied, SetsFinite, LimitsOK
    <3>4. Capped(T, AssembliesPerUid)
      BY <1>0, <1>1, <1>2, <2>1, <3>2, CappedAfter, Limits
    <3>5. Cardinality(Assembling \cup {c}) = Cardinality(Assembling) + 1
      BY <2>1, SetsFinite, FS_AddElement
    <3>6. assemblies' \in 0 .. MaxAssemblies
      BY <1>0, <2>1, <3>2, Limits
    <3>. QED  BY <1>1, <2>1, <3>1, <3>3, <3>4, <3>5, <3>6
  <2>2. CASE /\ ~(n > 0) /\ c \in Assembling /\ T = Release(table, uid)
             /\ assemblies' = IF assemblies > 0 THEN assemblies - 1 ELSE assemblies
    <3>1. Assembling' = Assembling \ {c}
      BY <2>2, SetsAfter
    <3>2. Count(table, uid) # 0
      <4>1. c \in Of(Assembling, UidOf, uid)
        BY <2>2 DEF Of
      <4>2. Count(table, uid) = Cardinality(Of(Assembling, UidOf, uid))
        BY <1>0, <1>1 DEF Tallied, Exact, Of
      <4>. QED  BY <4>1, <4>2, OfFinite, SetsFinite
    <3>3. Tallied(T, Assembling', UidOf)
      BY <1>1, <2>2, <3>1, ReleaseTallied, SetsFinite, LimitsOK
    <3>4. Capped(T, AssembliesPerUid)
      BY <1>0, <1>1, <1>2, <2>2, <3>2, CappedAfter, Limits
    <3>5. Cardinality(Assembling \ {c}) = Cardinality(Assembling) - 1
      BY <2>2, SetsFinite, FS_RemoveElement
    <3>6. Cardinality(Assembling) # 0
      BY <2>2, SetsFinite, FS_EmptySet
    <3>7. assemblies' = assemblies - 1 /\ assemblies' \in 0 .. MaxAssemblies
      BY <1>0, <1>1, <2>2, <3>6, Limits
    <3>. QED  BY <1>1, <3>1, <3>3, <3>4, <3>5, <3>7
  <2>. QED  BY <1>t, <2>1, <2>2
<1>4. Open' = Open
  <2>1. Open' = IF p = "closed" THEN Open \ {c} ELSE Open \cup {c}
    BY SetsAfter
  <2>. QED  BY <2>1
<1>5. Ordinary' \subseteq Ordinary
  BY SetsAfter DEF Ordinary
<1>6. Working("capture")' = Working("capture") /\ Working("kwin")' = Working("kwin")
  BY SetsAfter DEF Working
<1>7. T \in Table
  BY <1>3 DEF Tallied, Good
<1>8. /\ usage' \in [Tables -> Table] /\ usage'["assembly"] = T
      /\ \A s \in Tables : s # "assembly" => usage'[s] = usage[s]
  BY <1>0, <1>7, <1>t, UsageAfter
<1>9. /\ usage'["kwin"] = usage["kwin"] /\ usage'["capture"] = usage["capture"]
      /\ usage'["capture_pid"] = usage["capture_pid"]
      /\ usage'["worker"] = usage["worker"]
  BY <1>8 DEF Tables
<1>10. TypeOK'
  <2>1. conn' \in [Conns -> ConnRecord]
    BY DEF Becomes
  <2>2. usage' \in [Tables -> [Slots -> [key: Keys \cup {NoKey}, count: Nat]]]
    BY <1>8 DEF Table
  <2>. QED  BY <1>3, <2>1, <2>2 DEF IInv, TypeOK
<1>11. Accounts'
  <2>1. Tallied(usage'["assembly"], Assembling', UidOf)
    BY <1>3, <1>8
  <2>. QED  BY <1>3, <1>4, <1>6, <1>9, <2>1 DEF IInv, Accounts
<1>12. Caps'
  <2>1. Capped(usage'["assembly"], AssembliesPerUid)
    BY <1>3, <1>8
  <2>. QED  BY <1>9, <2>1 DEF IInv, Caps
<1>. QED  BY <1>5, <1>10, <1>11, <1>12, PoolShrinks DEF IInv

\* What the proofs below use of a connection before its step.
LEMMA Before ==
    ASSUME IInv, NEW c \in Conns
    PROVE  LET r == conn[c] IN
           /\ r \in ConnRecord /\ r.chunks \in 0 .. MaxChunks /\ r.chunks \in Nat
           /\ r.pc \in Stages /\ r.kind \in Kinds \cup {"none"}
           /\ r.pc \in {"closed", "accepted", "probation", "registered"} => ~r.public
           /\ r.chunks > 0 => r.pc \in {"idle", "closing"}
           /\ r.kind # "none" <=> r.pc = "working"
           /\ r.public => ~r.from_reserve
           /\ c \in Open <=> r.pc # "closed"
           /\ c \in Assembling <=> r.chunks > 0
           /\ \A kind : c \in Working(kind) <=> r.kind = kind
<1>1. conn[c] \in ConnRecord
  BY TypeOKIs DEF IInv
<1>. QED
  BY <1>1, LimitsOK DEF IInv, Shape, ConnRecord, Open, Assembling, Working

LEMMA ChunkKeeps ==
    ASSUME IInv, NEW c \in Conns,
           (FirstChunk(c) /\ AssemblyFits(c)) \/ LastChunk(c) \/ EndPublic(c)
    PROVE  IInv'
<1>. DEFINE r == conn[c]
<1>u. \A p \in Stages, n \in 0 .. MaxChunks :
        /\ conn' = [conn EXCEPT ![c].chunks = n]
             => Becomes(c, r.pc, r.from_reserve, r.public, n, r.kind)
        /\ conn' = [conn EXCEPT ![c].pc = p, ![c].chunks = n]
             => Becomes(c, p, r.from_reserve, r.public, n, r.kind)
  <2>1. "none" \in Kinds \cup {"none"} /\ TRUE \in BOOLEAN
    OBVIOUS
  <2>. QED  BY <2>1, Updates DEF IInv
<1>s. {"idle", "closing", "leaving"} \subseteq Stages \ {"closed"} /\ 0 \in 0 .. MaxChunks
  BY LimitsOK DEF Stages
<1>1. CASE FirstChunk(c) /\ AssemblyFits(c)
  <2>1. /\ r.pc = "idle" /\ r.chunks = 0 /\ 1 \in 0 .. MaxChunks
        /\ conn' = [conn EXCEPT ![c].chunks = 1]
        /\ usage' = [usage EXCEPT !["assembly"] = Add(usage["assembly"], UidOf[c])]
        /\ assemblies' = assemblies + 1 /\ UNCHANGED <<workers, captures>>
    BY <1>1, LimitsOK DEF FirstChunk
  <2>2. Becomes(c, "idle", r.from_reserve, r.public, 1, r.kind)
    BY <1>s, <1>u, <2>1
  <2>3. c \in Open /\ c \notin Assembling
    BY <2>1, Before
  <2>4. TypeOK' /\ Accounts' /\ Caps' /\ Pool'
    <3>1. 1 > 0 /\ "idle" # "closed"
      OBVIOUS
    <3>. QED  BY <1>1, <2>1, <2>2, <2>3, <3>1, AssemblyKeeps
  <2>5. Shape'
    BY <2>1, <2>2, Before, ShapeAfter DEF IInv
  <2>. QED  BY <2>4, <2>5 DEF IInv
<1>2. CASE LastChunk(c)
  <2>1. PICK p \in {"idle", "closing"} : conn' = [conn EXCEPT ![c].pc = p, ![c].chunks = 0]
    BY <1>2 DEF LastChunk
  <2>2. /\ r.pc = "idle" /\ r.chunks > 0 /\ UNCHANGED <<workers, captures>>
        /\ usage' = [usage EXCEPT !["assembly"] = Release(usage["assembly"], UidOf[c])]
        /\ assemblies' = IF assemblies > 0 THEN assemblies - 1 ELSE assemblies
    BY <1>2, LimitsOK DEF LastChunk, ReleaseAssembly
  <2>3. Becomes(c, p, r.from_reserve, r.public, 0, r.kind)
    BY <1>s, <1>u, <2>1
  <2>4. c \in Open /\ c \in Assembling
    BY <2>2, Before
  <2>5. TypeOK' /\ Accounts' /\ Caps' /\ Pool'
    <3>1. ~(0 > 0) /\ p # "closed"
      OBVIOUS
    <3>. QED  BY <1>s, <2>2, <2>3, <2>4, <3>1, AssemblyKeeps
  <2>6. Shape'
    BY <2>2, <2>3, Before, ShapeAfter DEF IInv
  <2>. QED  BY <2>5, <2>6 DEF IInv
<1>3. CASE EndPublic(c)
  <2>1. /\ r.pc = "closing" /\ UNCHANGED <<workers, captures>>
        /\ conn' = [conn EXCEPT ![c].pc = "leaving", ![c].chunks = 0]
    BY <1>3 DEF EndPublic
  <2>2. Becomes(c, "leaving", r.from_reserve, r.public, 0, r.kind)
    BY <1>s, <1>u, <2>1
  <2>3. c \in Open /\ (c \in Assembling <=> r.chunks > 0)
    BY <2>1, Before
  <2>4. Shape'
    BY <2>1, <2>2, Before, ShapeAfter DEF IInv
  <2>5. CASE r.chunks > 0
    <3>1. /\ usage' = [usage EXCEPT !["assembly"] = Release(usage["assembly"], UidOf[c])]
          /\ assemblies' = IF assemblies > 0 THEN assemblies - 1 ELSE assemblies
      BY <1>3, <2>5 DEF EndPublic, ReleaseAssembly
    <3>2. TypeOK' /\ Accounts' /\ Caps' /\ Pool'
      <4>1. ~(0 > 0) /\ "leaving" # "closed"
        OBVIOUS
      <4>. QED  BY <1>s, <2>1, <2>2, <2>3, <2>5, <3>1, <4>1, AssemblyKeeps
    <3>. QED  BY <2>4, <3>2 DEF IInv
  <2>6. CASE ~(r.chunks > 0)
    <3>1. UNCHANGED <<workers, usage, captures, assemblies>>
      BY <1>3, <2>1, <2>6 DEF EndPublic
    <3>2. TypeOK' /\ Accounts' /\ Caps' /\ Pool'
      BY <1>s, <2>2, <2>3, <2>6, <3>1, Unspent
    <3>. QED  BY <2>4, <3>2 DEF IInv
  <2>. QED  BY <2>5, <2>6
<1>. QED  BY <1>1, <1>2, <1>3

\* A capture is counted for its user and for its process, in two tables.
LEMMA CaptureKeeps ==
    ASSUME IInv, NEW c \in Conns, NEW p, p # "closed", NEW k, c \in Open,
           Becomes(c, p, conn[c].from_reserve, conn[c].public, conn[c].chunks, k),
           UNCHANGED <<workers, assemblies>>,
           \/ /\ k = "capture" /\ conn[c].kind = "none" /\ CaptureFits(c)
              /\ captures' = captures + 1
              /\ usage' = [usage EXCEPT
                   !["capture"] = Add(usage["capture"], UidOf[c]),
                   !["capture_pid"] = Add(usage["capture_pid"], PidOf[c])]
           \/ /\ k = "none" /\ conn[c].kind = "capture"
              /\ captures' = IF captures > 0 THEN captures - 1 ELSE captures
              /\ usage' = [usage EXCEPT
                   !["capture"] = Release(usage["capture"], UidOf[c]),
                   !["capture_pid"] = Release(usage["capture_pid"], PidOf[c])]
    PROVE  TypeOK' /\ Accounts' /\ Caps' /\ Pool'
<1>. DEFINE uid == UidOf[c]
            pid == PidOf[c]
            U == usage["capture"]
            P == usage["capture_pid"]
            W == Working("capture")
<1>0. /\ uid \in Keys /\ pid \in Keys /\ usage \in [Tables -> Table]
      /\ captures \in 0 .. MaxCaptures /\ "capture" \in Tables /\ "capture_pid" \in Tables
  BY TypeOKIs, LimitsOK DEF IInv, Tables
<1>1. /\ Tallied(U, W, UidOf) /\ Tallied(P, W, PidOf) /\ captures = Cardinality(W)
      /\ Capped(U, CapturesPerUid)
  BY DEF IInv, Accounts, Caps
<1>2. Good(U) /\ Good(P)
  BY <1>1 DEF Tallied
<1>w. W \in SUBSET Conns /\ IsFiniteSet(W) /\ Cardinality(W) \in Nat
  BY SetsFinite
<1>m. c \in W <=> conn[c].kind = "capture"
  BY Before
<1>t. PICK S, T :
        /\ usage' = [usage EXCEPT !["capture"] = S, !["capture_pid"] = T]
        /\ \/ /\ k = "capture" /\ conn[c].kind = "none" /\ CaptureFits(c)
              /\ captures' = captures + 1 /\ S = Add(U, uid) /\ T = Add(P, pid)
           \/ /\ k = "none" /\ conn[c].kind = "capture"
              /\ captures' = IF captures > 0 THEN captures - 1 ELSE captures
              /\ S = Release(U, uid) /\ T = Release(P, pid)
  OBVIOUS
<1>a. /\ Working("capture")' = IF k = "capture" THEN W \cup {c} ELSE W \ {c}
      /\ Working("kwin")' = Working("kwin")
  <2>1. /\ Working("capture")' = IF k = "capture" THEN W \cup {c} ELSE W \ {c}
        /\ Working("kwin")' = IF k = "kwin" THEN Working("kwin") \cup {c}
                              ELSE Working("kwin") \ {c}
    BY SetsAfter
  <2>2. k # "kwin" /\ c \notin Working("kwin")
    BY <1>t, Before
  <2>. QED  BY <2>1, <2>2
<1>3. /\ Tallied(S, Working("capture")', UidOf) /\ Tallied(T, Working("capture")', PidOf)
      /\ Capped(S, CapturesPerUid)
      /\ captures' = Cardinality(Working("capture")') /\ captures' \in 0 .. MaxCaptures
  <2>1. CASE /\ k = "capture" /\ conn[c].kind = "none" /\ CaptureFits(c)
             /\ captures' = captures + 1 /\ S = Add(U, uid) /\ T = Add(P, pid)
    <3>1. Working("capture")' = W \cup {c} /\ c \notin W
      BY <1>a, <1>m, <2>1
    <3>2. /\ FindSlot(U, uid) # NoSlot /\ Count(U, uid) < CapturesPerUid
          /\ FindSlot(P, pid) # NoSlot /\ captures < MaxCaptures
      BY <2>1 DEF CaptureFits
    <3>. HIDE DEF U, P, W
    <3>3. Tallied(S, W \cup {c}, UidOf)
      BY <1>1, <1>w, <2>1, <3>1, <3>2, AddTallied, LimitsOK
    <3>4. Tallied(T, W \cup {c}, PidOf)
      BY <1>1, <1>w, <2>1, <3>1, <3>2, AddTallied, LimitsOK
    <3>5. Capped(S, CapturesPerUid)
      BY <1>0, <1>1, <1>2, <2>1, <3>2, CappedAfter, Limits
    <3>6. Cardinality(W \cup {c}) = Cardinality(W) + 1
      BY <1>w, <3>1, FS_AddElement
    <3>7. captures' \in 0 .. MaxCaptures
      BY <1>0, <2>1, <3>2, Limits
    <3>. QED  BY <1>1, <2>1, <3>1, <3>3, <3>4, <3>5, <3>6, <3>7
  <2>2. CASE /\ k = "none" /\ conn[c].kind = "capture"
             /\ captures' = IF captures > 0 THEN captures - 1 ELSE captures
             /\ S = Release(U, uid) /\ T = Release(P, pid)
    <3>1. Working("capture")' = W \ {c} /\ c \in W
      BY <1>a, <1>m, <2>2
    <3>. HIDE DEF U, P, W
    <3>2. Count(U, uid) # 0
      <4>1. c \in Of(W, UidOf, uid)
        BY <3>1 DEF Of
      <4>2. Count(U, uid) = Cardinality(Of(W, UidOf, uid))
        BY <1>0, <1>1 DEF Tallied, Exact, Of
      <4>. QED  BY <1>w, <4>1, <4>2, OfFinite
    <3>3. Tallied(S, W \ {c}, UidOf)
      BY <1>1, <1>w, <2>2, <3>1, ReleaseTallied, LimitsOK
    <3>4. Tallied(T, W \ {c}, PidOf)
      BY <1>1, <1>w, <2>2, <3>1, ReleaseTallied, LimitsOK
    <3>5. Capped(S, CapturesPerUid)
      BY <1>0, <1>1, <1>2, <2>2, <3>2, CappedAfter, Limits
    <3>6. Cardinality(W \ {c}) = Cardinality(W) - 1
      BY <1>w, <3>1, FS_RemoveElement
    <3>7. Cardinality(W) # 0
      BY <1>w, <3>1, FS_EmptySet
    <3>8. captures' = captures - 1 /\ captures' \in 0 .. MaxCaptures
      BY <1>0, <1>1, <1>w, <2>2, <3>7, Limits
    <3>. QED  BY <1>1, <3>1, <3>3, <3>4, <3>5, <3>6, <3>8
  <2>. QED  BY <1>t, <2>1, <2>2
<1>4. Open' = Open
  <2>1. Open' = IF p = "closed" THEN Open \ {c} ELSE Open \cup {c}
    BY SetsAfter
  <2>. QED  BY <2>1
<1>5. Ordinary' \subseteq Ordinary
  BY SetsAfter DEF Ordinary
<1>6. Assembling' = Assembling
  <2>1. Assembling' = IF conn[c].chunks > 0 THEN Assembling \cup {c} ELSE Assembling \ {c}
    BY SetsAfter
  <2>. QED  BY <2>1, Before
<1>7. S \in Table /\ T \in Table
  BY <1>3 DEF Tallied, Good
<1>8. /\ usage' \in [Tables -> Table] /\ usage'["capture"] = S /\ usage'["capture_pid"] = T
      /\ \A s \in Tables : s \notin {"capture", "capture_pid"} => usage'[s] = usage[s]
  <2>. HIDE DEF Table
  <2>. QED  BY <1>0, <1>7, <1>t
<1>9. /\ usage'["kwin"] = usage["kwin"] /\ usage'["worker"] = usage["worker"]
      /\ usage'["assembly"] = usage["assembly"]
  BY <1>8 DEF Tables
<1>10. TypeOK'
  <2>1. conn' \in [Conns -> ConnRecord]
    BY DEF Becomes
  <2>2. usage' \in [Tables -> [Slots -> [key: Keys \cup {NoKey}, count: Nat]]]
    BY <1>8 DEF Table
  <2>. QED  BY <1>3, <2>1, <2>2 DEF IInv, TypeOK
<1>11. Accounts'
  <2>1. /\ Tallied(usage'["capture"], Working("capture")', UidOf)
        /\ Tallied(usage'["capture_pid"], Working("capture")', PidOf)
    BY <1>3, <1>8
  <2>. QED  BY <1>3, <1>4, <1>6, <1>9, <1>a, <2>1 DEF IInv, Accounts
<1>12. Caps'
  <2>1. Capped(usage'["capture"], CapturesPerUid)
    BY <1>3, <1>8
  <2>. QED  BY <1>9, <2>1 DEF IInv, Caps
<1>. QED  BY <1>5, <1>10, <1>11, <1>12, PoolShrinks DEF IInv

\* A KWin job is counted for its process.
LEMMA KwinKeeps ==
    ASSUME IInv, NEW c \in Conns, NEW p, p # "closed", NEW k, c \in Open,
           Becomes(c, p, conn[c].from_reserve, conn[c].public, conn[c].chunks, k),
           UNCHANGED <<workers, captures, assemblies>>,
           \/ /\ k = "kwin" /\ conn[c].kind = "none" /\ KwinFits(c)
              /\ usage' = [usage EXCEPT !["kwin"] = Add(usage["kwin"], PidOf[c])]
           \/ /\ k = "none" /\ conn[c].kind = "kwin"
              /\ usage' = [usage EXCEPT !["kwin"] = Release(usage["kwin"], PidOf[c])]
    PROVE  TypeOK' /\ Accounts' /\ Caps' /\ Pool'
<1>. DEFINE pid == PidOf[c]
            P == usage["kwin"]
            W == Working("kwin")
<1>0. pid \in Keys /\ usage \in [Tables -> Table] /\ "kwin" \in Tables
  BY TypeOKIs, LimitsOK DEF IInv, Tables
<1>1. Tallied(P, W, PidOf)
  BY DEF IInv, Accounts
<1>w. W \in SUBSET Conns
  BY SetsFinite
<1>m. c \in W <=> conn[c].kind = "kwin"
  BY Before
<1>t. PICK T :
        /\ usage' = [usage EXCEPT !["kwin"] = T]
        /\ \/ k = "kwin" /\ conn[c].kind = "none" /\ KwinFits(c) /\ T = Add(P, pid)
           \/ k = "none" /\ conn[c].kind = "kwin" /\ T = Release(P, pid)
  OBVIOUS
<1>a. /\ Working("kwin")' = IF k = "kwin" THEN W \cup {c} ELSE W \ {c}
      /\ Working("capture")' = Working("capture")
  <2>1. /\ Working("kwin")' = IF k = "kwin" THEN W \cup {c} ELSE W \ {c}
        /\ Working("capture")' = IF k = "capture" THEN Working("capture") \cup {c}
                                 ELSE Working("capture") \ {c}
    BY SetsAfter
  <2>2. k # "capture" /\ c \notin Working("capture")
    BY <1>t, Before
  <2>. QED  BY <2>1, <2>2
<1>3. Tallied(T, Working("kwin")', PidOf)
  <2>1. CASE k = "kwin" /\ conn[c].kind = "none" /\ KwinFits(c) /\ T = Add(P, pid)
    <3>1. Working("kwin")' = W \cup {c} /\ c \notin W /\ FindSlot(P, pid) # NoSlot
      BY <1>a, <1>m, <2>1 DEF KwinFits
    <3>. HIDE DEF P, W
    <3>. QED  BY <1>1, <1>w, <2>1, <3>1, AddTallied, LimitsOK, SMTT(20)
  <2>2. CASE k = "none" /\ conn[c].kind = "kwin" /\ T = Release(P, pid)
    <3>1. Working("kwin")' = W \ {c} /\ c \in W
      BY <1>a, <1>m, <2>2
    <3>. HIDE DEF P, W
    <3>2. Tallied(Release(P, pid), W \ {c}, PidOf)
      BY <1>1, <1>w, <3>1, ReleaseTallied, LimitsOK
    <3>. QED  BY <2>2, <3>1, <3>2
  <2>. QED  BY <1>t, <2>1, <2>2
<1>4. Open' = Open
  <2>1. Open' = IF p = "closed" THEN Open \ {c} ELSE Open \cup {c}
    BY SetsAfter
  <2>. QED  BY <2>1
<1>5. Ordinary' \subseteq Ordinary
  BY SetsAfter DEF Ordinary
<1>6. Assembling' = Assembling
  <2>1. Assembling' = IF conn[c].chunks > 0 THEN Assembling \cup {c} ELSE Assembling \ {c}
    BY SetsAfter
  <2>. QED  BY <2>1, Before
<1>7. T \in Table
  BY <1>3 DEF Tallied, Good
<1>8. /\ usage' \in [Tables -> Table] /\ usage'["kwin"] = T
      /\ \A s \in Tables : s # "kwin" => usage'[s] = usage[s]
  BY <1>0, <1>7, <1>t, UsageAfter
<1>9. /\ usage'["capture"] = usage["capture"] /\ usage'["worker"] = usage["worker"]
      /\ usage'["assembly"] = usage["assembly"]
      /\ usage'["capture_pid"] = usage["capture_pid"]
  BY <1>8 DEF Tables
<1>10. TypeOK'
  <2>1. conn' \in [Conns -> ConnRecord]
    BY DEF Becomes
  <2>2. usage' \in [Tables -> [Slots -> [key: Keys \cup {NoKey}, count: Nat]]]
    BY <1>8 DEF Table
  <2>. QED  BY <1>3, <2>1, <2>2 DEF IInv, TypeOK
<1>11. Accounts'
  <2>1. Tallied(usage'["kwin"], Working("kwin")', PidOf)
    BY <1>3, <1>8
  <2>. QED  BY <1>4, <1>6, <1>9, <1>a, <2>1 DEF IInv, Accounts
<1>12. Caps'
  BY <1>9 DEF IInv, Caps
<1>. QED  BY <1>5, <1>10, <1>11, <1>12, PoolShrinks DEF IInv

\* An operation begins and ends.
LEMMA OperationKeeps ==
    ASSUME IInv, NEW c \in Conns, End(c) \/ \E kind \in Kinds : Begin(c, kind)
    PROVE  IInv'
<1>. DEFINE r == conn[c]
<1>u. \A p \in Stages, k \in Kinds \cup {"none"} :
        conn' = [conn EXCEPT ![c].pc = p, ![c].kind = k]
          => Becomes(c, p, r.from_reserve, r.public, r.chunks, k)
  <2>1. 0 \in 0 .. MaxChunks /\ TRUE \in BOOLEAN
    BY LimitsOK
  <2>. QED  BY <2>1, Updates DEF IInv
<1>s. {"idle", "closing", "working"} \subseteq Stages
  BY DEF Stages
<1>1. ASSUME NEW kind \in Kinds, Begin(c, kind) PROVE IInv'
  <2>1. /\ r.pc = "idle" /\ r.chunks = 0 /\ UNCHANGED <<workers, assemblies>>
        /\ conn' = [conn EXCEPT ![c].pc = "working", ![c].kind = kind]
        /\ kind \in {"capture", "kwin"}
    BY <1>1, LimitsOK DEF Begin
  <2>2. Becomes(c, "working", r.from_reserve, r.public, r.chunks, kind)
    BY <1>s, <1>u, <2>1
  <2>3. c \in Open /\ r.kind = "none" /\ "working" # "closed"
    BY <2>1, Before
  <2>4. Shape'
    <3>1. /\ "working" \notin {"closed", "accepted", "probation", "registered"}
          /\ ~(r.chunks > 0) /\ kind # "none" /\ (r.public => ~r.from_reserve)
      BY <2>1, Before
    <3>. QED  BY <2>2, <3>1, ShapeAfter DEF IInv
  <2>5. CASE kind = "capture"
    <3>1. /\ CaptureFits(c) /\ captures' = captures + 1
          /\ usage' = [usage EXCEPT
               !["capture"] = Add(usage["capture"], UidOf[c]),
               !["capture_pid"] = Add(usage["capture_pid"], PidOf[c])]
      BY <1>1, <2>5 DEF Begin
    <3>2. TypeOK' /\ Accounts' /\ Caps' /\ Pool'
      BY <2>1, <2>2, <2>3, <2>5, <3>1, CaptureKeeps
    <3>. QED  BY <2>4, <3>2 DEF IInv
  <2>6. CASE kind = "kwin"
    <3>1. /\ KwinFits(c) /\ UNCHANGED captures
          /\ usage' = [usage EXCEPT !["kwin"] = Add(usage["kwin"], PidOf[c])]
      BY <1>1, <2>6 DEF Begin
    <3>2. TypeOK' /\ Accounts' /\ Caps' /\ Pool'
      BY <2>1, <2>2, <2>3, <2>6, <3>1, KwinKeeps
    <3>. QED  BY <2>4, <3>2 DEF IInv
  <2>. QED  BY <2>1, <2>5, <2>6
<1>2. ASSUME End(c) PROVE IInv'
  <2>1. PICK p \in {"idle", "closing"} : conn' = [conn EXCEPT ![c].pc = p, ![c].kind = "none"]
    BY <1>2 DEF End
  <2>2. r.pc = "working" /\ UNCHANGED <<workers, assemblies>>
    BY <1>2 DEF End
  <2>3. Becomes(c, p, r.from_reserve, r.public, r.chunks, "none")
    BY <1>s, <1>u, <2>1
  <2>4. c \in Open /\ r.kind \in {"capture", "kwin"} /\ p # "closed"
    BY <2>2, Before, LimitsOK
  <2>5. Shape'
    <3>1. /\ p \notin {"closed", "accepted", "probation", "registered"}
          /\ ~(r.chunks > 0) /\ p # "working" /\ (r.public => ~r.from_reserve)
      BY <2>2, Before
    <3>. QED  BY <2>3, <3>1, ShapeAfter DEF IInv
  <2>6. CASE r.kind = "capture"
    <3>1. /\ captures' = IF captures > 0 THEN captures - 1 ELSE captures
          /\ usage' = [usage EXCEPT
               !["capture"] = Release(usage["capture"], UidOf[c]),
               !["capture_pid"] = Release(usage["capture_pid"], PidOf[c])]
      BY <1>2, <2>6 DEF End
    <3>2. TypeOK' /\ Accounts' /\ Caps' /\ Pool'
      BY <2>2, <2>3, <2>4, <2>6, <3>1, CaptureKeeps
    <3>. QED  BY <2>5, <3>2 DEF IInv
  <2>7. CASE r.kind = "kwin"
    <3>1. /\ UNCHANGED captures
          /\ usage' = [usage EXCEPT !["kwin"] = Release(usage["kwin"], PidOf[c])]
      BY <1>2, <2>7 DEF End
    <3>2. TypeOK' /\ Accounts' /\ Caps' /\ Pool'
      BY <2>2, <2>3, <2>4, <2>7, <3>1, KwinKeeps
    <3>. QED  BY <2>5, <3>2 DEF IInv
  <2>. QED  BY <2>4, <2>6, <2>7
<1>. QED  BY <1>1, <1>2

-----------------------------------------------------------------------------
(* Theorems *)

LEMMA InitInductive == Init => IInv
<1>. SUFFICES ASSUME Init PROVE IInv
  OBVIOUS
<1>. DEFINE empty == [i \in Slots |-> EmptySlot]
<1>1. \A c \in Conns : conn[c] = NoConn
  BY DEF Init
<1>2. \A t \in Tables : usage[t] = empty
  BY DEF Init
<1>3. empty \in Table /\ \A i \in Slots : empty[i].count = 0
  BY DEF Table, EmptySlot
<1>. HIDE DEF empty
<1>4. Good(empty)
  BY <1>3 DEF Good
<1>5. \A k \in Keys : Count(empty, k) = 0
  BY <1>3, <1>4, FindEmpty
<1>6. NoConn \in ConnRecord
  BY LimitsOK DEF NoConn, ConnRecord, Stages
<1>7. TypeOK
  <2>1. conn \in [Conns -> ConnRecord]
    BY <1>6 DEF Init
  <2>2. usage \in [Tables -> Table]
    BY <1>2, <1>3 DEF Init, empty
  <2>3. workers = 0 /\ captures = 0 /\ assemblies = 0
    BY DEF Init
  <2>. QED  BY <2>1, <2>2, <2>3, Limits, TypeOKIs
<1>8. Shape
  BY <1>1 DEF Shape, NoConn
<1>9. /\ Open = {} /\ Assembling = {} /\ Ordinary = {}
      /\ Working("capture") = {} /\ Working("kwin") = {}
  BY <1>1 DEF Open, Assembling, Ordinary, Working, NoConn
<1>10. ASSUME NEW KeyOf PROVE Tallied(empty, {}, KeyOf)
  <2>1. \A k \in Keys : {c \in {} : KeyOf[c] = k} = {}
    OBVIOUS
  <2>2. \A k \in Keys : Count(empty, k) = Cardinality({c \in {} : KeyOf[c] = k})
    BY <1>5, <2>1, FS_EmptySet
  <2>. QED  BY <1>4, <2>2 DEF Tallied, Exact, Good
<1>11. Accounts
  <2>1. /\ usage["worker"] = empty /\ usage["kwin"] = empty /\ usage["capture"] = empty
        /\ usage["capture_pid"] = empty /\ usage["assembly"] = empty
    BY <1>2 DEF Tables
  <2>2. workers = 0 /\ captures = 0 /\ assemblies = 0
    BY DEF Init
  <2>. QED  BY <1>9, <1>10, <2>1, <2>2, FS_EmptySet DEF Accounts
<1>12. Caps
  <2>1. usage["capture"] = empty /\ usage["assembly"] = empty
    BY <1>2 DEF Tables
  <2>. QED  BY <1>5, <2>1, Limits DEF Caps, Capped
<1>13. Pool
  <2>1. \A u \in Keys : Of({}, UidOf, u) = {}
    BY DEF Of
  <2>. QED  BY <1>9, <2>1, FS_EmptySet, Limits DEF Pool
<1>. QED  BY <1>7, <1>8, <1>11, <1>12, <1>13 DEF IInv

LEMMA StepInductive == IInv /\ [Next]_vars => IInv'
<1>. SUFFICES ASSUME IInv, [Next]_vars PROVE IInv'
  OBVIOUS
<1>1. ASSUME NEW c \in Conns, ConnStep(c) PROVE IInv'
  <2>1. CASE Accept(c)
    BY <2>1, AcceptKeeps
  <2>2. CASE ThreadFails(c) \/ WorkerEnds(c)
    BY <2>2, ReleaseWorkerKeeps
  <2>3. CASE ThreadStarts(c) \/ Classify(c) \/ RegistrationEnds(c) \/ NextChunk(c)
             \/ Deadline(c) \/ Disconnect(c)
    BY <2>3, MoveKeeps
  <2>4. CASE FirstChunk(c)
    BY <2>4, MoveKeeps, ChunkKeeps
  <2>5. CASE LastChunk(c) \/ EndPublic(c)
    BY <2>5, ChunkKeeps
  <2>6. CASE End(c) \/ \E kind \in Kinds : Begin(c, kind)
    BY <2>6, OperationKeeps
  <2>. QED  BY <1>1, <2>1, <2>2, <2>3, <2>4, <2>5, <2>6 DEF ConnStep
<1>2. CASE UNCHANGED vars
  <2>1. UNCHANGED <<workers, usage, captures, assemblies, conn>>
    BY <1>2 DEF vars
  <2>2. Open' = Open /\ Assembling' = Assembling /\ Ordinary' = Ordinary
        /\ Working("capture")' = Working("capture") /\ Working("kwin")' = Working("kwin")
    BY <2>1 DEF Open, Assembling, Ordinary, Working
  <2>3. TypeOK' /\ Shape'
    BY <2>1 DEF IInv, TypeOK, Shape
  <2>4. Accounts' /\ Caps' /\ Pool'
    BY <2>1, <2>2, PoolShrinks DEF IInv, Accounts, Caps
  <2>. QED  BY <2>3, <2>4 DEF IInv
<1>. QED  BY <1>1, <1>2 DEF Next

\* The invariant holds in every reachable state: what the stages of the threads
\* say, the accounts, the caps and the pool.
THEOREM InductiveCorrect == Spec => []IInv
BY InitInductive, StepInductive, PTL DEF Spec

\* Nothing is leaked, reserved twice or released twice, for any number of
\* connections, users and processes and any limits (reserve_* and release_* of
\* authorityd.c, on every path of a connection).
THEOREM AccountsCorrect == Spec => []AccountsExact
<1>1. IInv => AccountsExact
  BY DEF IInv, Accounts, Tallied, AccountsExact
<1>. QED  BY <1>1, InductiveCorrect, PTL

\* Public connections leave the registrations their reserve, and no user has
\* more of them than its cap (ksd_authority_admit_worker and
\* ksd_authority_worker_keeps_slot).
THEOREM ReserveCorrect == Spec => []ReserveKept
<1>1. IInv => ReserveKept
  <2>. SUFFICES ASSUME IInv PROVE ReserveKept
    OBVIOUS
  <2>. DEFINE public == {c \in Conns : conn[c].public}
  <2>1. public \in SUBSET Ordinary
    BY DEF IInv, Shape, Ordinary, Open
  <2>2. IsFiniteSet(Ordinary) /\ Cardinality(Ordinary) \in Nat
    BY SetsFinite
  <2>. HIDE DEF public
  <2>3. Cardinality(public) <= Cardinality(Ordinary) /\ Cardinality(public) \in Nat
    BY <2>1, <2>2, FS_Subset, FS_CardinalityType
  <2>4. Cardinality(public) <= General
    BY <2>2, <2>3, Limits DEF IInv, Pool
  <2>5. ASSUME NEW c \in public
        PROVE  Cardinality({d \in public : UidOf[d] = UidOf[c]}) <= WorkersPerUid
    <3>. DEFINE mine == {d \in public : UidOf[d] = UidOf[c]}
                own == Of(Ordinary, UidOf, UidOf[c])
    <3>1. mine \in SUBSET own
      BY <2>1 DEF Of
    <3>2. IsFiniteSet(own) /\ Cardinality(own) \in Nat
      BY OfFinite, SetsFinite
    <3>3. UidOf[c] \in Keys
      BY <2>1, SetsFinite, LimitsOK
    <3>4. Cardinality(own) <= WorkersPerUid
      BY <3>3 DEF IInv, Pool
    <3>. HIDE DEF mine, own
    <3>5. Cardinality(mine) <= Cardinality(own) /\ Cardinality(mine) \in Nat
      BY <3>1, <3>2, FS_Subset, FS_CardinalityType
    <3>6. Cardinality(mine) <= WorkersPerUid
      BY <3>2, <3>4, <3>5, Limits
    <3>. QED  BY <3>6 DEF mine
  <2>. QED  BY <2>4, <2>5 DEF ReserveKept, public
<1>. QED  BY <1>1, InductiveCorrect, PTL

\* The holders of a table other than the workers' leave a slot for every
\* connection that is open.
LEMMA OpenFindsSlot ==
    ASSUME IInv, NEW c \in Open, NEW table, NEW holders \in SUBSET Open,
           NEW KeyOf \in [Conns -> Keys], Tallied(table, holders, KeyOf)
    PROVE  FindSlot(table, KeyOf[c]) # NoSlot
<1>1. c \in Conns /\ KeyOf[c] \in Keys /\ holders \in SUBSET Conns
  BY SetsFinite
<1>2. CASE c \in holders
  BY <1>1, <1>2, SlotFound
<1>3. CASE c \notin holders
  <2>1. holders \in SUBSET (Open \ {c})
    BY <1>3
  <2>2. IsFiniteSet(Open \ {c}) /\ Cardinality(Open \ {c}) = Cardinality(Open) - 1
    BY SetsFinite, FS_RemoveElement
  <2>3. Cardinality(holders) <= Cardinality(Open) - 1
    BY <2>1, <2>2, FS_Subset
  <2>4. Cardinality(Open) <= MaxWorkers
    BY Limits DEF IInv, Accounts, TypeOK
  <2>5. Cardinality(holders) \in Nat /\ Cardinality(Open) \in Nat
    BY <1>1, SetsFinite, ConnsFinite, FS_Subset, FS_CardinalityType
  <2>6. Cardinality(holders) < MaxWorkers
    BY <2>3, <2>4, <2>5, Limits
  <2>. QED  BY <1>1, <2>6, SlotFound
<1>. QED  BY <1>2, <1>3

\* Every open connection finds its slots, and while a worker is free everyone
\* does (find_usage_slot on tables of KSD_MAX_AUTHORITY_WORKERS slots).
THEOREM SlotCorrect == Spec => []SlotAlwaysFound
<1>1. IInv => SlotAlwaysFound
  <2>. SUFFICES ASSUME IInv PROVE SlotAlwaysFound
    OBVIOUS
  <2>1. UidOf \in [Conns -> Keys] /\ PidOf \in [Conns -> Keys]
    BY LimitsOK
  <2>2. Assembling \subseteq Open /\ \A kind \in {"kwin", "capture"} : Working(kind) \subseteq Open
    BY DEF IInv, Shape, Assembling, Working, Open
  <2>3. ASSUME NEW c \in Open
        PROVE  /\ FindSlot(usage["worker"], UidOf[c]) # NoSlot
               /\ FindSlot(usage["capture"], UidOf[c]) # NoSlot
               /\ FindSlot(usage["assembly"], UidOf[c]) # NoSlot
               /\ FindSlot(usage["kwin"], PidOf[c]) # NoSlot
               /\ FindSlot(usage["capture_pid"], PidOf[c]) # NoSlot
    <3>1. /\ Tallied(usage["worker"], Open, UidOf)
          /\ Tallied(usage["kwin"], Working("kwin"), PidOf)
          /\ Tallied(usage["capture"], Working("capture"), UidOf)
          /\ Tallied(usage["capture_pid"], Working("capture"), PidOf)
          /\ Tallied(usage["assembly"], Assembling, UidOf)
      BY DEF IInv, Accounts
    <3>. QED  BY <2>1, <2>2, <3>1, OpenFindsSlot
  <2>4. ASSUME workers < MaxWorkers, NEW k \in Keys
        PROVE  FindSlot(usage["worker"], k) # NoSlot
    <3>1. Tallied(usage["worker"], Open, UidOf) /\ Cardinality(Open) < MaxWorkers
      BY <2>4 DEF IInv, Accounts
    <3>. QED  BY <2>1, <3>1, SlotFound, SetsFinite
  <2>. QED  BY <2>3, <2>4 DEF SlotAlwaysFound
<1>. QED  BY <1>1, InductiveCorrect, PTL

\* One user's captures and assemblies leave room for another user's
\* (reserve_capture_memory, reserve_assembly_memory).
THEOREM OthersCorrect == Spec => []OneUserCannotDenyOthers
<1>1. IInv => OneUserCannotDenyOthers
  <2>. SUFFICES ASSUME IInv, NEW u \in Keys, NEW c \in Open, UidOf[c] # u
                PROVE  /\ (\A d \in Working("capture") : UidOf[d] = u /\ PidOf[d] # PidOf[c])
                            => CaptureFits(c)
                       /\ (\A d \in Assembling : UidOf[d] = u) => AssemblyFits(c)
    BY DEF OneUserCannotDenyOthers
  <2>0. /\ UidOf \in [Conns -> Keys] /\ PidOf \in [Conns -> Keys] /\ c \in Conns
        /\ UidOf[c] \in Keys /\ PidOf[c] \in Keys
    BY LimitsOK, SetsFinite
  <2>1. Assembling \subseteq Open /\ Working("capture") \subseteq Open
    BY DEF IInv, Shape, Assembling, Working, Open
  <2>2. ASSUME NEW holders \in SUBSET Conns, NEW KeyOf, NEW key \in Keys, NEW table,
               Tallied(table, holders, KeyOf)
        PROVE  /\ (\A d \in holders : KeyOf[d] # key) => Count(table, key) = 0
               /\ (\A d \in holders : KeyOf[d] = key) => Count(table, key) = Cardinality(holders)
    <3>1. Count(table, key) = Cardinality(Of(holders, KeyOf, key))
      BY <2>2 DEF Tallied, Exact, Of
    <3>2. (\A d \in holders : KeyOf[d] # key) => Of(holders, KeyOf, key) = {}
      BY DEF Of
    <3>3. (\A d \in holders : KeyOf[d] = key) => Of(holders, KeyOf, key) = holders
      BY DEF Of
    <3>. QED  BY <3>1, <3>2, <3>3, FS_EmptySet
  <2>3. ASSUME \A d \in Working("capture") : UidOf[d] = u /\ PidOf[d] # PidOf[c]
        PROVE  CaptureFits(c)
    <3>. DEFINE W == Working("capture")
    <3>1. /\ Tallied(usage["capture"], W, UidOf) /\ Tallied(usage["capture_pid"], W, PidOf)
          /\ captures = Cardinality(W) /\ Capped(usage["capture"], CapturesPerUid)
      BY DEF IInv, Accounts, Caps
    <3>2. W \in SUBSET Conns /\ W \in SUBSET Open /\ Cardinality(W) \in Nat
      BY <2>1, SetsFinite
    <3>. HIDE DEF W
    <3>3. FindSlot(usage["capture"], UidOf[c]) # NoSlot
          /\ FindSlot(usage["capture_pid"], PidOf[c]) # NoSlot
      BY <2>0, <3>1, <3>2, OpenFindsSlot
    <3>4. /\ \A d \in W : UidOf[d] = u /\ UidOf[d] # UidOf[c] /\ PidOf[d] # PidOf[c]
      BY <2>3 DEF W
    <3>5. /\ Count(usage["capture"], u) = Cardinality(W)
          /\ Count(usage["capture"], UidOf[c]) = 0
          /\ Count(usage["capture_pid"], PidOf[c]) = 0
      BY <2>0, <2>2, <3>1, <3>2, <3>4
    <3>6. captures < MaxCaptures
      <4>1. Cardinality(W) <= CapturesPerUid /\ CapturesPerUid < MaxCaptures
        BY <3>1, <3>5, LimitsOK DEF Capped
      <4>. QED  BY <3>1, <3>2, <4>1, Limits
    <3>7. 0 < CapturesPerUid /\ 0 < CapturesPerPid
      BY Limits
    <3>. QED  BY <3>3, <3>5, <3>6, <3>7 DEF CaptureFits
  <2>4. ASSUME \A d \in Assembling : UidOf[d] = u PROVE AssemblyFits(c)
    <3>1. /\ Tallied(usage["assembly"], Assembling, UidOf)
          /\ assemblies = Cardinality(Assembling) /\ Capped(usage["assembly"], AssembliesPerUid)
      BY DEF IInv, Accounts, Caps
    <3>2. Assembling \in SUBSET Conns /\ Cardinality(Assembling) \in Nat
      BY SetsFinite
    <3>3. FindSlot(usage["assembly"], UidOf[c]) # NoSlot
      BY <2>0, <2>1, <3>1, OpenFindsSlot
    <3>4. /\ Count(usage["assembly"], u) = Cardinality(Assembling)
          /\ Count(usage["assembly"], UidOf[c]) = 0
      BY <2>0, <2>2, <2>4, <3>1, <3>2
    <3>5. assemblies < MaxAssemblies
      <4>1. Cardinality(Assembling) <= AssembliesPerUid /\ AssembliesPerUid < MaxAssemblies
        BY <3>1, <3>4, LimitsOK DEF Capped
      <4>. QED  BY <3>1, <3>2, <4>1, Limits
    <3>6. 0 < AssembliesPerUid
      BY Limits
    <3>. QED  BY <3>3, <3>4, <3>5, <3>6 DEF AssemblyFits
  <2>. QED  BY <2>3, <2>4
<1>. QED  BY <1>1, InductiveCorrect, PTL
=============================================================================
