-------------------------- MODULE IndexCache_proofs --------------------------
(* Proofs about IndexCache, for any processes, files, contents and           *)
(* configurations, any quota, target and batch.                              *)
EXTENDS IndexCache, FiniteSetTheorems, TLAPS

USE QuotaAssumption

-----------------------------------------------------------------------------
(* The inductive invariant                                                  *)

Where == {"closed", "vacuum", "pass1", "ready", "check", "quota", "evict"}
Checking == {"check", "quota", "evict"}

Entry == [at : 0..MaxTime, rowid : Nat \ {0}]

LocalsType ==
  /\ pc \in [Procs -> Where]
  /\ touched \in [Procs -> SUBSET Inputs]
  /\ missed \in [Procs -> SUBSET Inputs]
  /\ \A p \in Procs : IsFiniteSet(missed[p])
  /\ now \in 0..MaxTime /\ crashes \in Nat
  /\ wrong \in BOOLEAN /\ unchecked \in BOOLEAN
  /\ disk \in [Files -> Contents]

StoreType ==
  /\ tables \in {"none", "old", "current"} /\ autovac \in BOOLEAN
  /\ DOMAIN rows \subseteq Inputs /\ IsFiniteSet(DOMAIN rows)
  /\ free \in Nat /\ wal \in 0..MaxWal

\* Every row is what extracting its own key gives.
RowsExact == \A k \in DOMAIN rows : rows[k] = k

\* The access table: a row for each payload, ranked, no two ranks equal.
AccessRanked ==
  /\ DOMAIN access = DOMAIN rows
  /\ access \in [DOMAIN rows -> Entry]
  /\ \A k \in DOMAIN rows : access[k].rowid <= Cardinality(DOMAIN rows)
  /\ \A k, l \in DOMAIN rows : access[k].rowid = access[l].rowid => k = l

\* Too much live data is on somebody's way to be looked at.
Watched ==
  \/ Live <= Quota
  \/ unchecked
  \/ \E p \in Procs : pc[p] \in Checking

IInv == LocalsType /\ StoreType /\ RowsExact /\ AccessRanked /\ Watched /\ ~wrong

-----------------------------------------------------------------------------
(* Helpers                                                                  *)

LEMMA MinPair ==
  ASSUME NEW a \in Nat, NEW b \in Nat
  PROVE  Min({a, b}) \in {a, b} /\ Min({a, b}) <= a /\ Min({a, b}) <= b
<1>1. \E x \in {a, b} : \A y \in {a, b} : x <= y
  <2>1. CASE a <= b
    BY <2>1
  <2>2. CASE b <= a
    BY <2>2
  <2> QED BY <2>1, <2>2
<1> QED BY <1>1 DEF Min

LEMMA MaxPair ==
  ASSUME NEW a \in Nat, NEW b \in Nat
  PROVE  Max({a, b}) \in {a, b} /\ Max({a, b}) >= a /\ Max({a, b}) >= b
<1>1. \E x \in {a, b} : \A y \in {a, b} : x >= y
  <2>1. CASE a <= b
    BY <2>1
  <2>2. CASE b <= a
    BY <2>2
  <2> QED BY <2>1, <2>2
<1> QED BY <1>1 DEF Max

\* A checkpointed WAL is never larger than its limit.
LEMMA WalGrows == ASSUME wal \in 0..MaxWal PROVE Min({wal + 1, MaxWal}) \in 0..MaxWal
<1>1. wal + 1 \in Nat /\ MaxWal \in Nat
  OBVIOUS
<1> QED BY <1>1, MinPair

\* The keys of a set of inputs are the inputs.
LEMMA KeysAreInputs == ASSUME NEW is PROVE {KeyFor(i) : i \in is} = is
BY DEF KeyFor

\* A finite set can be numbered: the order in which a batch inserts.
LEMMA Numbering ==
  ASSUME NEW S, IsFiniteSet(S)
  PROVE  \E o \in [S -> 1..Cardinality(S)] : IsInjective(o)
<1> DEFINE n == Cardinality(S)
<1>1. n \in Nat
  BY FS_CardinalityType
<1>2. IsFiniteSet(1..n) /\ Cardinality(1..n) = n
  BY <1>1, FS_Interval
<1>3. ExistsBijection(S, 1..n)
  BY <1>2, FS_SameCardinalityBij
<1>4. PICK o \in Bijection(S, 1..n) : TRUE
  BY <1>3 DEF ExistsBijection
<1>5. o \in [S -> 1..n] /\ \A a, b \in S : o[a] = o[b] => a = b
  BY <1>4 DEF Bijection, Injection, IsInjective
<1> QED BY <1>5 DEF IsInjective

\* Replacing the rowids by their ranks keeps the times and tells the rows
\* apart as before.
LEMMA RankedKeeps ==
  ASSUME NEW D, IsFiniteSet(D), NEW acc \in [D -> Entry],
         \A k, l \in D : acc[k].rowid = acc[l].rowid => k = l
  PROVE  /\ Ranked(acc) \in [D -> Entry]
         /\ \A k \in D : Ranked(acc)[k].at = acc[k].at
         /\ \A k \in D : Ranked(acc)[k].rowid <= Cardinality(D)
         /\ \A k, l \in D : Ranked(acc)[k].rowid = Ranked(acc)[l].rowid => k = l
<1> DEFINE below(k) == {l \in D : acc[l].rowid <= acc[k].rowid}
           rank(k) == Cardinality(below(k))
<1>1. DOMAIN acc = D /\ \A k \in D : acc[k].rowid \in Nat /\ acc[k] \in Entry
  BY DEF Entry
<1>2. ASSUME NEW k \in D
      PROVE  /\ rank(k) \in Nat \ {0} /\ rank(k) <= Cardinality(D) /\ IsFiniteSet(below(k))
  <2>1. below(k) \in SUBSET D /\ k \in below(k)
    BY <1>1
  <2>2. IsFiniteSet(below(k)) /\ rank(k) <= Cardinality(D)
    BY <2>1, FS_Subset
  <2>3. rank(k) \in Nat /\ Cardinality(D) \in Nat
    BY <2>2, FS_CardinalityType
  <2>4. rank(k) # 0
    BY <2>1, <2>2, FS_EmptySet
  <2> QED BY <2>2, <2>3, <2>4
<1>3. ASSUME NEW k \in D, NEW l \in D, rank(k) = rank(l), acc[k].rowid <= acc[l].rowid
      PROVE  k = l
  <2>1. below(k) \in SUBSET below(l)
    BY <1>1, <1>3
  <2>2. below(k) = below(l)
    <3> HIDE DEF below
    <3> QED BY <1>2, <1>3, <2>1, FS_Subset
  <2>3. l \in below(k)
    BY <1>1, <2>2
  <2>4. acc[l].rowid <= acc[k].rowid
    BY <2>3
  <2> QED BY <1>1, <1>3, <2>4
<1>4. \A k, l \in D : rank(k) = rank(l) => k = l
  <2> SUFFICES ASSUME NEW k \in D, NEW l \in D, rank(k) = rank(l) PROVE k = l
    OBVIOUS
  <2>1. acc[k].rowid <= acc[l].rowid \/ acc[l].rowid <= acc[k].rowid
    BY <1>1
  <2> HIDE DEF rank
  <2> QED BY <1>3, <2>1
<1>5. Ranked(acc) = [k \in D |-> [acc[k] EXCEPT !.rowid = rank(k)]]
  BY <1>1 DEF Ranked
<1> HIDE DEF rank
<1>6. \A k \in D : /\ [acc[k] EXCEPT !.rowid = rank(k)] \in Entry
                   /\ [acc[k] EXCEPT !.rowid = rank(k)].at = acc[k].at
                   /\ [acc[k] EXCEPT !.rowid = rank(k)].rowid = rank(k)
  BY <1>1, <1>2 DEF Entry
<1>7. /\ Ranked(acc) \in [D -> Entry]
      /\ \A k \in D : Ranked(acc)[k].at = acc[k].at /\ Ranked(acc)[k].rowid = rank(k)
  BY <1>5, <1>6
<1>8. \A k \in D : rank(k) <= Cardinality(D)
  BY <1>2
<1> QED BY <1>4, <1>7, <1>8

\* What the batch leaves in the payload table.
LEMMA WrittenRows ==
  ASSUME NEW is
  PROVE  /\ DOMAIN Written(is) = is \cup DOMAIN rows
         /\ \A k \in is \cup DOMAIN rows : Written(is)[k] = IF k \in is THEN k ELSE rows[k]
<1> DEFINE ks == {KeyFor(i) : i \in is}
<1>0. ks = is
  BY KeysAreInputs
<1>1. Written(is) = [k \in ks \cup DOMAIN rows |->
                       IF k \in ks THEN CHOOSE i \in is : KeyFor(i) = k ELSE rows[k]]
  BY DEF Written
<1>2. \A k \in is : (CHOOSE i \in is : KeyFor(i) = k) = k
  BY DEF KeyFor
<1> HIDE DEF ks
<1> QED BY <1>0, <1>1, <1>2

\* And in the access table: the written keys come last, in some order, and
\* a key that was only read moves in time.
LEMMA AccessedRanked ==
  ASSUME AccessRanked, IsFiniteSet(DOMAIN rows), now \in 0..MaxTime,
         NEW is, IsFiniteSet(is), NEW ts
  PROVE  LET D == is \cup DOMAIN rows
             a == Accessed(is, ts)
         IN  /\ IsFiniteSet(D)
             /\ a \in [D -> Entry]
             /\ \A k \in D : a[k].rowid <= Cardinality(D)
             /\ \A k, l \in D : a[k].rowid = a[l].rowid => k = l
<1> DEFINE D == is \cup DOMAIN rows
           order == CHOOSE o \in [is -> 1..Cardinality(is)] : IsInjective(o)
           next == Cardinality(DOMAIN access)
           raw == [k \in D |-> IF k \in is THEN [at |-> now, rowid |-> next + order[k]]
                               ELSE IF k \in ts THEN [access[k] EXCEPT !.at = now]
                               ELSE access[k]]
<1>1. IsFiniteSet(D)
  BY FS_Union
<1>2. Accessed(is, ts) = Ranked(raw)
  BY KeysAreInputs, Zenon DEF Accessed, AccessRanked
<1>3. order \in [is -> 1..Cardinality(is)] /\ IsInjective(order)
  BY Numbering
<1>4. next \in Nat /\ Cardinality(is) \in Nat
  BY FS_CardinalityType DEF AccessRanked
<1>5. \A k \in is : order[k] \in Nat \ {0}
  BY <1>3, <1>4
<1>6. \A k, l \in is : order[k] = order[l] => k = l
  BY <1>3 DEF IsInjective
<1>7. \A k \in DOMAIN rows : access[k] \in Entry /\ access[k].rowid <= next
  BY DEF AccessRanked
<1> HIDE DEF order, next
<1>8. \A k \in D : /\ k \in is => raw[k] \in Entry /\ raw[k].rowid = next + order[k]
                   /\ k \notin is => raw[k] \in Entry /\ raw[k].rowid = access[k].rowid
  BY <1>4, <1>5, <1>7 DEF Entry
<1>9. raw \in [D -> Entry]
  BY <1>8
<1>10. \A k, l \in D : raw[k].rowid = raw[l].rowid => k = l
  <2> SUFFICES ASSUME NEW k \in D, NEW l \in D, raw[k].rowid = raw[l].rowid PROVE k = l
    OBVIOUS
  <2> HIDE DEF raw
  <2>1. CASE k \in is /\ l \in is
    BY <1>4, <1>5, <1>6, <1>8, <2>1
  <2>2. CASE k \in is /\ l \notin is
    BY <1>4, <1>5, <1>7, <1>8, <2>2 DEF Entry
  <2>3. CASE k \notin is /\ l \in is
    BY <1>4, <1>5, <1>7, <1>8, <2>3 DEF Entry
  <2>4. CASE k \notin is /\ l \notin is
    BY <1>8, <2>4 DEF AccessRanked
  <2> QED BY <2>1, <2>2, <2>3, <2>4
<1> HIDE DEF raw, D
<1>11. /\ Ranked(raw) \in [D -> Entry]
       /\ \A k \in D : Ranked(raw)[k].rowid <= Cardinality(D)
       /\ \A k, l \in D : Ranked(raw)[k].rowid = Ranked(raw)[l].rowid => k = l
  BY <1>1, <1>9, <1>10, RankedKeeps
<1> QED BY <1>1, <1>2, <1>11 DEF D

-----------------------------------------------------------------------------
(* The order of eviction                                                    *)

\* Rows are totally ordered by time and rowid.
LEMMA OlderIsTotal ==
  ASSUME AccessRanked, NEW k \in DOMAIN rows, NEW l \in DOMAIN rows
  PROVE  /\ ~Older(k, k)
         /\ k # l => Older(k, l) \/ Older(l, k)
         /\ \A m \in DOMAIN rows : Older(k, l) /\ Older(l, m) => Older(k, m)
<1>1. \A m \in DOMAIN rows : access[m].at \in Nat /\ access[m].rowid \in Nat
  BY DEF AccessRanked, Entry
<1>2. access[k].rowid = access[l].rowid => k = l
  BY DEF AccessRanked
<1> QED BY <1>1, <1>2 DEF Older

\* The number of rows older than a row grows strictly along the order.
LEMMA OlderCounts ==
  ASSUME AccessRanked, IsFiniteSet(DOMAIN rows),
         NEW k \in DOMAIN rows, NEW l \in DOMAIN rows, Older(k, l)
  PROVE  LET n(m) == Cardinality({x \in DOMAIN rows : Older(x, m)})
         IN  n(k) \in Nat /\ n(l) \in Nat /\ n(k) < n(l)
<1> DEFINE A == {x \in DOMAIN rows : Older(x, k)}
           B == {x \in DOMAIN rows : Older(x, l)}
<1>1. A \in SUBSET B
  BY OlderIsTotal
<1>2. k \in B /\ k \notin A
  BY OlderIsTotal
<1>3. IsFiniteSet(B)
  BY FS_Subset
<1> HIDE DEF A, B
<1>4. IsFiniteSet(A) /\ Cardinality(A) <= Cardinality(B) /\ Cardinality(A) # Cardinality(B)
  BY <1>1, <1>2, <1>3, FS_Subset
<1>5. Cardinality(A) \in Nat /\ Cardinality(B) \in Nat
  BY <1>3, <1>4, FS_CardinalityType
<1>6. Cardinality(A) < Cardinality(B)
  BY <1>4, <1>5
<1> QED BY <1>5, <1>6 DEF A, B

\* What a round of eviction takes when it is to delete n entries.
Gone(n) == {k \in DOMAIN rows : Cardinality({l \in DOMAIN rows : Older(l, k)}) < n}

\* It takes no more than n ...
LEMMA GoneAtMost ==
  ASSUME AccessRanked, IsFiniteSet(DOMAIN rows), NEW n \in Nat
  PROVE  IsFiniteSet(Gone(n)) /\ Cardinality(Gone(n)) <= n
<1> DEFINE older(k) == Cardinality({l \in DOMAIN rows : Older(l, k)})
           rank == [k \in Gone(n) |-> older(k)]
<1>1. \A k \in DOMAIN rows : older(k) \in Nat
  <2> SUFFICES ASSUME NEW k \in DOMAIN rows PROVE older(k) \in Nat
    OBVIOUS
  <2>1. IsFiniteSet({l \in DOMAIN rows : Older(l, k)})
    BY FS_Subset
  <2> QED BY <2>1, FS_CardinalityType
<1>2. \A k, l \in DOMAIN rows : older(k) = older(l) => k = l
  <2> SUFFICES ASSUME NEW k \in DOMAIN rows, NEW l \in DOMAIN rows, older(k) = older(l), k # l
               PROVE FALSE
    OBVIOUS
  <2>1. CASE Older(k, l)
    <3>1. older(k) < older(l)
      BY <2>1, OlderCounts
    <3> HIDE DEF older
    <3> QED BY <1>1, <3>1
  <2>2. CASE Older(l, k)
    <3>1. older(l) < older(k)
      BY <2>2, OlderCounts
    <3> HIDE DEF older
    <3> QED BY <1>1, <3>1
  <2> QED BY <2>1, <2>2, OlderIsTotal
<1>3. Gone(n) \subseteq DOMAIN rows /\ \A k \in Gone(n) : older(k) < n
  BY DEF Gone
<1> HIDE DEF older
<1>4. rank \in [Gone(n) -> 0..(n - 1)]
  BY <1>1, <1>3
<1>5. rank \in Injection(Gone(n), 0..(n - 1))
  <2>1. \A k, l \in Gone(n) : rank[k] = rank[l] => k = l
    BY <1>2, <1>3
  <2> HIDE DEF rank
  <2> QED BY <1>4, <2>1 DEF Injection, IsInjective
<1>6. 0 \in Int /\ n - 1 \in Int
  OBVIOUS
<1>7. IsFiniteSet(0..(n - 1)) /\ Cardinality(0..(n - 1)) = IF 0 > n - 1 THEN 0 ELSE (n - 1) - 0 + 1
  BY <1>6, FS_Interval
<1>8. Cardinality(0..(n - 1)) = n
  BY <1>7
<1> QED BY <1>5, <1>7, <1>8, FS_Injection

\* ... and a row it takes was not used after a row it leaves.
LEMMA GoneAreOldest ==
  ASSUME AccessRanked, IsFiniteSet(DOMAIN rows), NEW n \in Nat,
         NEW k \in Gone(n), NEW l \in DOMAIN rows \ Gone(n)
  PROVE  access[k].at <= access[l].at
<1>1. k \in DOMAIN rows /\ l \in DOMAIN rows /\ k # l
  BY DEF Gone
<1> DEFINE older(m) == Cardinality({x \in DOMAIN rows : Older(x, m)})
<1>2. older(k) < n /\ ~(older(l) < n)
  BY DEF Gone
<1>3. ASSUME Older(l, k) PROVE FALSE
  <2>1. older(l) \in Nat /\ older(k) \in Nat /\ older(l) < older(k)
    BY <1>1, <1>3, OlderCounts
  <2> HIDE DEF older
  <2> QED BY <1>2, <2>1
<1>4. Older(k, l)
  BY <1>1, <1>3, OlderIsTotal
<1>5. access[k].at \in Nat /\ access[l].at \in Nat
  BY <1>1 DEF AccessRanked, Entry
<1> QED BY <1>4, <1>5 DEF Older

LEMMA DivSelf == ASSUME NEW n \in Nat \ {0} PROVE n \div n = 1
OBVIOUS

LEMMA DivOne == ASSUME NEW n \in Nat PROVE n \div 1 = n
OBVIOUS

\* One row is one page: a round is to delete no more than the excess.
LEMMA BatchWithinExcess ==
  ASSUME NEW live \in Nat, live > Target
  PROVE  EvictionBatch(live, Target, live) \in 1..(live - Target)
<1>1. live \in Nat \ {0} /\ Target \in Nat /\ Batch \in Nat \ {0}
  OBVIOUS
<1>2. Max({live, 1}) = live
  <2>1. Max({live, 1}) \in {live, 1} /\ Max({live, 1}) >= live
    BY <1>1, MaxPair
  <2> QED BY <1>1, <2>1
<1>3. live \div Max({live, 1}) = 1
  BY <1>1, <1>2, DivSelf
<1>4. Max({live \div Max({live, 1}), 1}) = 1
  BY <1>3, MaxPair
<1>5. DivCeil(live - Target, 1) = live - Target
  <2>1. live - Target \in Nat /\ (live - Target + 1 - 1) = live - Target
    BY <1>1
  <2> QED BY <2>1, DivOne DEF DivCeil
<1>6. EvictionBatch(live, Target, live) = Clamp(live - Target, 1, Batch)
  BY <1>4, <1>5 DEF EvictionBatch
<1> QED BY <1>1, <1>6 DEF Clamp

\* One round of eviction, with the number it settles on.
LEMMA EvictTakes ==
  ASSUME StoreType, AccessRanked, NEW p \in Procs, Evict(p)
  PROVE  \E n \in 1..(Live - Target) :
           /\ rows' = Restricted(rows, Gone(n))
           /\ access' = Ranked(Restricted(access, Gone(n)))
           /\ free' = free + Cardinality(Gone(n))
<1> DEFINE n == EvictionBatch(Live, Target, Cardinality(DOMAIN rows))
<1>1. DOMAIN access = DOMAIN rows /\ IsFiniteSet(DOMAIN rows)
  BY DEF AccessRanked, StoreType
<1>2. Live \in Nat /\ Live > Target
  BY <1>1, FS_CardinalityType DEF Live, Evict
<1>3. n \in 1..(Live - Target)
  BY <1>2, BatchWithinExcess DEF Live
<1>4. {k \in DOMAIN rows : Cardinality({l \in DOMAIN rows : Older(l, k)}) < n} = Gone(n)
  BY DEF Gone
<1> HIDE DEF n
<1>5. /\ rows' = Restricted(rows, Gone(n))
      /\ access' = Ranked(Restricted(access, Gone(n)))
      /\ free' = free + Cardinality(Gone(n) \intersect DOMAIN rows)
  BY <1>1, <1>4, Zenon DEF Evict, n
<1>6. Gone(n) \intersect DOMAIN rows = Gone(n)
  BY DEF Gone
<1> QED BY <1>3, <1>5, <1>6

-----------------------------------------------------------------------------
(* The invariant holds at the start and every step keeps it.                *)

LEMMA InitIInv == Init => IInv
<1> SUFFICES ASSUME Init PROVE IInv
  OBVIOUS
<1>1. DOMAIN rows = {} /\ DOMAIN access = {} /\ access = [k \in {} |-> 0]
  BY DEF Init, NoRows
<1>2. IsFiniteSet({}) /\ Cardinality({}) = 0
  BY FS_EmptySet
<1>3. LocalsType
  <2>1. pc \in [Procs -> Where] /\ touched \in [Procs -> SUBSET Inputs]
        /\ missed \in [Procs -> SUBSET Inputs]
    BY DEF Init, Where
  <2>2. \A p \in Procs : IsFiniteSet(missed[p])
    BY <1>2 DEF Init
  <2>3. now \in 0..MaxTime /\ crashes \in Nat /\ wrong \in BOOLEAN /\ unchecked \in BOOLEAN
    <3>1. wrong \in BOOLEAN /\ unchecked \in BOOLEAN
      BY Zenon DEF Init
    <3>2. now = 0 /\ crashes = 0
      BY DEF Init
    <3>3. now \in 0..MaxTime /\ crashes \in Nat
      BY <3>2
    <3> QED BY <3>1, <3>3
  <2>4. disk \in [Files -> Contents]
    BY DEF Init
  <2> QED BY <2>1, <2>2, <2>3, <2>4 DEF LocalsType
<1>4. StoreType
  BY <1>1, <1>2 DEF Init, StoreType
<1>5. RowsExact /\ AccessRanked
  BY <1>1 DEF RowsExact, AccessRanked
<1>6. Watched
  BY <1>1, <1>2 DEF Watched, Live
<1> QED BY <1>3, <1>4, <1>5, <1>6 DEF IInv, Init

\* Whatever only moves a process keeps the store's part.
LEMMA StoreUnchanged ==
  ASSUME StoreType, RowsExact, AccessRanked, UNCHANGED dbVars
  PROVE  StoreType' /\ RowsExact' /\ AccessRanked' /\ Live' = Live
BY DEF StoreType, RowsExact, AccessRanked, dbVars, Live

LEMMA NextLocals == ASSUME IInv, [Next]_vars PROVE LocalsType'
<1> USE DEF IInv, LocalsType
<1>1. ASSUME NEW p \in Procs, EnsureSchema(p) \/ SchemaThere(p) \/ SwitchToIncremental(p)
      PROVE  LocalsType'
  BY <1>1 DEF EnsureSchema, SchemaThere, SwitchToIncremental, To, Where, dbVars
<1>2. ASSUME NEW p \in Procs, Get(p) PROVE LocalsType'
  <2>1. PICK f \in Files : LET i == Asks(p, f) k == KeyFor(i) hit == k \in DOMAIN rows IN
          /\ touched' = IF hit THEN [touched EXCEPT ![p] = @ \union {k}] ELSE touched
          /\ \E new \in IF hit THEN {{}} ELSE {{}, {i}} :
               missed' = [missed EXCEPT ![p] = @ \union new]
          /\ wrong' = (wrong \/ (hit /\ rows[k] # i))
    BY <1>2 DEF Get
  <2> DEFINE i == Asks(p, f)
  <2>2. i \in Inputs /\ KeyFor(i) = i
    BY DEF Asks, Inputs, KeyFor
  <2>3. PICK new \in {{}, {i}} : missed' = [missed EXCEPT ![p] = @ \union new]
    BY <2>1
  <2>4. touched' \in [Procs -> SUBSET Inputs]
    BY <2>1, <2>2
  <2>5. IsFiniteSet(missed[p] \union new)
    <3>1. IsFiniteSet(missed[p] \union {i})
      BY FS_AddElement
    <3>2. missed[p] \union {} = missed[p]
      OBVIOUS
    <3> QED BY <2>3, <3>1, <3>2
  <2>6. missed' \in [Procs -> SUBSET Inputs] /\ \A q \in Procs : IsFiniteSet(missed'[q])
    BY <2>2, <2>3, <2>5
  <2>7. wrong' \in BOOLEAN
    BY <2>1
  <2> QED BY <1>2, <2>4, <2>6, <2>7 DEF Get
<1>3. ASSUME NEW p \in Procs, PutBatch(p) \/ PutFails(p) PROVE LocalsType'
  <2>1. IsFiniteSet({})
    BY FS_EmptySet
  <2> QED BY <1>3, <2>1 DEF PutBatch, PutFails, Flush, To, Where
<1>4. ASSUME NEW p \in Procs, CheckSize(p) \/ EnforceQuota(p) PROVE LocalsType'
  BY <1>4 DEF CheckSize, EnforceQuota, To, Where
<1>5. ASSUME NEW p \in Procs, Evict(p) \/ IncrementalVacuum(p) \/ EnforceFails(p)
      PROVE  LocalsType'
  BY <1>5 DEF Evict, IncrementalVacuum, EnforceFails, To, Where
<1>6. ASSUME NEW p \in Procs, Crash(p) PROVE LocalsType'
  <2>1. IsFiniteSet({})
    BY FS_EmptySet
  <2> QED BY <1>6, <2>1 DEF Crash, Flush, To, Where
<1>7. CASE Tick
  BY <1>7 DEF Tick
<1>8. CASE Edit
  <2>1. PICK f \in Files, c \in Contents : disk' = [disk EXCEPT ![f] = c]
    BY <1>8 DEF Edit
  <2> QED BY <1>8, <2>1 DEF Edit
<1>9. CASE UNCHANGED vars
  BY <1>9 DEF vars
<1> QED BY <1>1, <1>2, <1>3, <1>4, <1>5, <1>6, <1>7, <1>8, <1>9 DEF Next

LEMMA NextStore == ASSUME IInv, [Next]_vars PROVE StoreType' /\ RowsExact' /\ AccessRanked'
<1> USE DEF IInv
<1>1. ASSUME NEW p \in Procs, EnsureSchema(p) PROVE StoreType' /\ RowsExact' /\ AccessRanked'
  <2>1. rows' = NoRows /\ access' = NoRows /\ DOMAIN NoRows = {} /\ NoRows = [k \in {} |-> 0]
    BY <1>1 DEF EnsureSchema, NoRows
  <2>2. tables' \in {"none", "current"} /\ UNCHANGED <<autovac, free, wal>>
    BY <1>1 DEF EnsureSchema
  <2>3. IsFiniteSet({})
    BY FS_EmptySet
  <2> QED BY <2>1, <2>2, <2>3 DEF StoreType, RowsExact, AccessRanked
<1>2. ASSUME NEW p \in Procs, SchemaThere(p) \/ Get(p) \/ PutFails(p) \/ CheckSize(p)
                              \/ EnforceFails(p) \/ Crash(p)
      PROVE  StoreType' /\ RowsExact' /\ AccessRanked'
  <2>1. UNCHANGED dbVars
    BY <1>2 DEF SchemaThere, Get, PutFails, CheckSize, EnforceFails, Crash
  <2> QED BY <2>1, StoreUnchanged
<1>3. ASSUME NEW p \in Procs, SwitchToIncremental(p) \/ EnforceQuota(p) \/ IncrementalVacuum(p)
      PROVE  StoreType' /\ RowsExact' /\ AccessRanked'
  <2>1. UNCHANGED <<tables, rows, access>>
    BY <1>3 DEF SwitchToIncremental, EnforceQuota, IncrementalVacuum
  <2>2. autovac \in BOOLEAN /\ free \in Nat /\ wal \in 0..MaxWal /\ 0 \in 0..MaxWal
    BY DEF StoreType
  <2>3. CASE SwitchToIncremental(p)
    BY <2>1, <2>2, <2>3 DEF SwitchToIncremental, StoreType, RowsExact, AccessRanked
  <2>4. CASE EnforceQuota(p)
    BY <2>1, <2>2, <2>4 DEF EnforceQuota, StoreType, RowsExact, AccessRanked
  <2>5. CASE IncrementalVacuum(p)
    BY <2>1, <2>2, <2>5 DEF IncrementalVacuum, StoreType, RowsExact, AccessRanked
  <2> QED BY <1>3, <2>3, <2>4, <2>5
<1>4. ASSUME NEW p \in Procs, PutBatch(p) PROVE StoreType' /\ RowsExact' /\ AccessRanked'
  <2> DEFINE is == missed[p]
             D == is \cup DOMAIN rows
  <2>1. is \subseteq Inputs /\ IsFiniteSet(is) /\ now \in 0..MaxTime
    BY DEF LocalsType
  <2>2. rows' = Written(is) /\ access' = Accessed(is, touched[p])
    BY <1>4 DEF PutBatch
  <2>3. DOMAIN rows' = D /\ \A k \in D : rows'[k] = IF k \in is THEN k ELSE rows[k]
    BY <2>2, WrittenRows
  <2>4. /\ IsFiniteSet(D) /\ access' \in [D -> Entry]
        /\ \A k \in D : access'[k].rowid <= Cardinality(D)
        /\ \A k, l \in D : access'[k].rowid = access'[l].rowid => k = l
    <3> HIDE DEF is
    <3>1. LET a == Accessed(is, touched[p])
          IN  /\ IsFiniteSet(D) /\ a \in [D -> Entry]
              /\ \A k \in D : a[k].rowid <= Cardinality(D)
              /\ \A k, l \in D : a[k].rowid = a[l].rowid => k = l
      BY <2>1, AccessedRanked DEF StoreType
    <3> QED BY <2>2, <3>1
  <2>5. RowsExact' /\ AccessRanked'
    BY <2>3, <2>4 DEF RowsExact, AccessRanked
  <2>6. free' \in Nat
    <3>1. Live \in Nat /\ Cardinality(D) \in Nat /\ Live <= Cardinality(D)
      BY <2>4, FS_Subset, FS_CardinalityType DEF StoreType, Live
    <3>2. free' = IF Cardinality(D) - Live >= free THEN 0 ELSE free - (Cardinality(D) - Live)
      BY <1>4, <2>3 DEF PutBatch
    <3> HIDE DEF D
    <3> QED BY <3>1, <3>2 DEF StoreType
  <2>7. wal' \in 0..MaxWal
    BY <1>4, WalGrows DEF PutBatch, StoreType
  <2> QED BY <1>4, <2>1, <2>3, <2>4, <2>5, <2>6, <2>7 DEF StoreType, PutBatch
<1>5. ASSUME NEW p \in Procs, Evict(p) PROVE StoreType' /\ RowsExact' /\ AccessRanked'
  <2>1. PICK n \in 1..(Live - Target) :
           /\ rows' = Restricted(rows, Gone(n))
           /\ access' = Ranked(Restricted(access, Gone(n)))
           /\ free' = free + Cardinality(Gone(n))
    BY <1>5, EvictTakes
  <2> DEFINE D == DOMAIN rows \ Gone(n)
             kept == Restricted(access, Gone(n))
  <2>2. IsFiniteSet(DOMAIN rows) /\ IsFiniteSet(D)
    BY FS_Subset DEF StoreType
  <2>3. rows' = [k \in D |-> rows[k]] /\ kept = [k \in D |-> access[k]]
    BY <2>1 DEF Restricted, AccessRanked
  <2>4. kept \in [D -> Entry] /\ \A k, l \in D : kept[k].rowid = kept[l].rowid => k = l
    BY <2>3 DEF AccessRanked
  <2> HIDE DEF D, kept
  <2>5. /\ Ranked(kept) \in [D -> Entry]
        /\ \A k \in D : Ranked(kept)[k].rowid <= Cardinality(D)
        /\ \A k, l \in D : Ranked(kept)[k].rowid = Ranked(kept)[l].rowid => k = l
    BY <2>2, <2>4, RankedKeeps
  <2>6. access' = Ranked(kept)
    BY <2>1 DEF kept
  <2>7. DOMAIN rows' = D /\ \A k \in D : rows'[k] = rows[k]
    BY <2>3
  <2>8. D \subseteq DOMAIN rows
    BY DEF D
  <2>9. RowsExact' /\ AccessRanked'
    BY <2>5, <2>6, <2>7, <2>8 DEF RowsExact, AccessRanked
  <2>10. Cardinality(Gone(n)) \in Nat
    <3>1. n \in Nat
      BY FS_CardinalityType DEF StoreType, Live
    <3> QED BY <3>1, <2>2, GoneAtMost, FS_CardinalityType
  <2>11. free' \in Nat
    BY <2>1, <2>10 DEF StoreType
  <2>12. wal' \in 0..MaxWal
    BY <1>5, WalGrows DEF Evict, StoreType
  <2> QED BY <1>5, <2>2, <2>7, <2>8, <2>9, <2>11, <2>12 DEF StoreType, Evict
<1>6. CASE Tick \/ Edit \/ UNCHANGED vars
  BY <1>6, StoreUnchanged DEF Tick, Edit, vars, dbVars
<1> QED BY <1>1, <1>2, <1>3, <1>4, <1>5, <1>6 DEF Next

\* What a lookup is served is its own extraction.
LEMMA NextTransparent == ASSUME IInv, [Next]_vars PROVE ~wrong'
<1> USE DEF IInv
<1>1. ASSUME NEW p \in Procs, Get(p) PROVE ~wrong'
  <2>1. PICK f \in Files : LET i == Asks(p, f) k == KeyFor(i) hit == k \in DOMAIN rows IN
          wrong' = (wrong \/ (hit /\ rows[k] # i))
    BY <1>1 DEF Get
  <2>2. KeyFor(Asks(p, f)) = Asks(p, f)
    BY DEF KeyFor
  <2> QED BY <2>1, <2>2 DEF RowsExact
<1>2. ASSUME NEW p \in Procs,
             EnsureSchema(p) \/ SchemaThere(p) \/ SwitchToIncremental(p) \/ PutBatch(p)
             \/ PutFails(p) \/ CheckSize(p) \/ EnforceQuota(p) \/ Evict(p)
             \/ IncrementalVacuum(p) \/ EnforceFails(p) \/ Crash(p)
      PROVE  ~wrong'
  BY <1>2 DEF EnsureSchema, SchemaThere, SwitchToIncremental, PutBatch, PutFails, CheckSize,
              EnforceQuota, Evict, IncrementalVacuum, EnforceFails, Crash
<1>3. CASE Tick \/ Edit \/ UNCHANGED vars
  BY <1>3 DEF Tick, Edit, vars
<1> QED BY <1>1, <1>2, <1>3 DEF Next

LEMMA NextWatched == ASSUME IInv, [Next]_vars PROVE Watched'
<1> USE DEF IInv
<1>0. /\ IsFiniteSet(DOMAIN rows) /\ Live \in Nat /\ free \in Nat /\ wal \in Nat
      /\ pc \in [Procs -> Where] /\ Target < Quota /\ Quota \in Nat /\ Target \in Nat
  BY FS_CardinalityType DEF StoreType, Live, LocalsType
<1>1. ASSUME NEW p \in Procs, EnsureSchema(p) PROVE Watched'
  <2>1. DOMAIN rows' = {}
    BY <1>1 DEF EnsureSchema, NoRows
  <2>2. Live' = 0
    BY <2>1, FS_EmptySet DEF Live
  <2> QED BY <1>0, <2>2 DEF Watched
<1>2. ASSUME NEW p \in Procs, SchemaThere(p) PROVE Watched'
  <2>1. /\ Live' = Live /\ unchecked' = unchecked /\ pc'[p] \in Checking
    BY <1>0, <1>2 DEF SchemaThere, dbVars, Live, To, Checking
  <2> QED BY <2>1 DEF Watched
<1>3. ASSUME NEW p \in Procs, SwitchToIncremental(p) PROVE Watched'
  <2>1. /\ Live' = Live /\ unchecked' = unchecked
        /\ \A q \in Procs : pc[q] \in Checking => pc'[q] \in Checking
    BY <1>0, <1>3 DEF SwitchToIncremental, Live, To, Checking
  <2> QED BY <2>1 DEF Watched
<1>4. ASSUME NEW p \in Procs, Get(p) \/ PutFails(p) PROVE Watched'
  <2>1. Live' = Live /\ unchecked' = unchecked /\ pc' = pc
    BY <1>4 DEF Get, PutFails, dbVars, Live
  <2> QED BY <2>1 DEF Watched
<1>5. ASSUME NEW p \in Procs, PutBatch(p) PROVE Watched'
  BY <1>0, <1>5 DEF PutBatch, Watched, To, Checking
<1>6. ASSUME NEW p \in Procs, CheckSize(p) PROVE Watched'
  <2>1. Live' = Live
    BY <1>6 DEF CheckSize, dbVars, Live
  <2>2. CASE Size > Quota
    BY <1>0, <1>6, <2>2 DEF CheckSize, Watched, To, Checking
  <2>3. CASE ~(Size > Quota)
    BY <1>0, <2>1, <2>3 DEF Size, Watched
  <2> QED BY <2>2, <2>3
<1>7. ASSUME NEW p \in Procs, EnforceQuota(p) PROVE Watched'
  <2>1. Live' = Live /\ wal' \in Nat
    BY <1>0, <1>7 DEF EnforceQuota, Live
  <2>2. CASE Live + free + wal' <= Quota
    BY <1>0, <2>1, <2>2 DEF Watched
  <2>3. CASE ~(Live + free + wal' <= Quota)
    BY <1>0, <1>7, <2>3 DEF EnforceQuota, Watched, To, Checking
  <2> QED BY <2>2, <2>3
<1>8. ASSUME NEW p \in Procs, Evict(p) PROVE Watched'
  BY <1>8 DEF Evict, Watched, Checking
<1>9. ASSUME NEW p \in Procs, IncrementalVacuum(p) PROVE Watched'
  <2>1. Live' = Live /\ Live <= Target
    BY <1>9 DEF IncrementalVacuum, Live
  <2> QED BY <1>0, <2>1 DEF Watched
<1>10. ASSUME NEW p \in Procs, EnforceFails(p) PROVE Watched'
  BY <1>10 DEF EnforceFails, Watched
<1>11. ASSUME NEW p \in Procs, Crash(p) PROVE Watched'
  <2>1. Live' = Live /\ unchecked' = (unchecked \/ pc[p] \in Checking)
    BY <1>11 DEF Crash, dbVars, Live, Checking
  <2>2. \A q \in Procs : q # p => pc'[q] = pc[q]
    BY <1>0, <1>11 DEF Crash, To
  <2> QED BY <2>1, <2>2 DEF Watched
<1>12. CASE Tick \/ Edit \/ UNCHANGED vars
  <2>1. Live' = Live /\ unchecked' = unchecked /\ pc' = pc
    BY <1>12 DEF Tick, Edit, vars, dbVars, Live
  <2> QED BY <2>1 DEF Watched
<1> QED BY <1>1, <1>2, <1>3, <1>4, <1>5, <1>6, <1>7, <1>8, <1>9, <1>10, <1>11, <1>12 DEF Next

LEMMA NextIInv == IInv /\ [Next]_vars => IInv'
BY NextLocals, NextStore, NextTransparent, NextWatched DEF IInv

LEMMA Invariant == Spec => []IInv
BY InitIInv, NextIInv, PTL DEF Spec

-----------------------------------------------------------------------------
(* The theorems                                                             *)

\* Whatever a scan is served is what extracting the file as it is, under the
\* process's own configuration, would give (Get of index_cache.rs): for any
\* processes, configurations and edits, and whoever wrote the row.
THEOREM AlwaysTransparent == Spec => []Transparent
<1>1. IInv => Transparent
  BY DEF IInv, Transparent
<1> QED BY <1>1, Invariant, PTL

\* The two tables always agree, and live data over the quota is always on
\* somebody's way to be looked at (put_batch, enforce_quota and evict).
THEOREM QuotaAlwaysKept == Spec => []QuotaKept
<1>1. IInv => TypeOK
  BY DEF IInv, TypeOK, StoreType, LocalsType, RowsExact, AccessRanked, Entry
<1>2. IInv => AccessHasPayload
  BY DEF IInv, AccessHasPayload, AccessRanked
<1>3. IInv => LiveBounded
  BY DEF IInv, LiveBounded, Watched, Checking
<1>4. IInv => QuotaKept
  BY <1>1, <1>2, <1>3 DEF QuotaKept
<1> QED BY <1>4, Invariant, PTL

\* The steps that shrink the payload table of the current layout: a round
\* of eviction, and nothing else.
LEMMA RowsStay ==
  ASSUME IInv, [Next]_vars, tables = "current", ~(\E p \in Procs : Evict(p))
  PROVE  /\ tables' = "current" /\ DOMAIN rows \subseteq DOMAIN rows'
         /\ IsFiniteSet(DOMAIN rows')
<1>1. IsFiniteSet(DOMAIN rows')
  BY NextStore DEF StoreType
<1>2. ASSUME NEW p \in Procs, PutBatch(p)
      PROVE  tables' = "current" /\ DOMAIN rows \subseteq DOMAIN rows'
  <2>1. rows' = Written(missed[p]) /\ tables' = tables
    BY <1>2 DEF PutBatch
  <2>2. DOMAIN rows' = missed[p] \cup DOMAIN rows
    BY <2>1, WrittenRows
  <2> QED BY <2>1, <2>2
<1>3. ASSUME NEW p \in Procs,
             EnsureSchema(p) \/ SchemaThere(p) \/ SwitchToIncremental(p) \/ Get(p)
             \/ PutFails(p) \/ CheckSize(p) \/ EnforceQuota(p)
             \/ IncrementalVacuum(p) \/ EnforceFails(p) \/ Crash(p)
      PROVE  UNCHANGED <<tables, rows>>
  BY <1>3 DEF EnsureSchema, SchemaThere, SwitchToIncremental, Get, PutFails, CheckSize,
              EnforceQuota, IncrementalVacuum, EnforceFails, Crash, dbVars
<1>4. CASE Tick \/ Edit \/ UNCHANGED vars
  BY <1>1, <1>4 DEF Tick, Edit, vars, dbVars
<1>5. CASE \E p \in Procs : PutBatch(p)
  BY <1>1, <1>2, <1>5
<1>6. CASE UNCHANGED <<tables, rows>>
  BY <1>1, <1>6
<1> QED BY <1>3, <1>4, <1>5, <1>6 DEF Next

\* One round of eviction: nothing is left that was used before what is
\* taken, and no more is taken than the excess over the target.
LEMMA EvictionIsFrugal ==
  ASSUME IInv, NEW p \in Procs, Evict(p)
  PROVE  /\ tables' = tables /\ pc[p] = "evict"
         /\ Cardinality(DOMAIN rows') >= Target
         /\ \A k \in DOMAIN rows \ DOMAIN rows', l \in DOMAIN rows' : access[k].at <= access[l].at
<1> USE DEF IInv
<1>1. PICK n \in 1..(Live - Target) : rows' = Restricted(rows, Gone(n))
  BY EvictTakes
<1>2. IsFiniteSet(DOMAIN rows) /\ Live \in Nat
  BY FS_CardinalityType DEF StoreType, Live
<1>3. n \in Nat /\ n <= Live - Target
  BY <1>2
<1>4. DOMAIN rows' = DOMAIN rows \ Gone(n)
  BY <1>1 DEF Restricted
<1>5. /\ IsFiniteSet(Gone(n)) /\ Cardinality(Gone(n)) <= n /\ Cardinality(Gone(n)) \in Nat
  BY <1>2, <1>3, GoneAtMost, FS_CardinalityType
<1>6. DOMAIN rows \cap Gone(n) = Gone(n)
  BY DEF Gone
<1>7. Cardinality(DOMAIN rows') = Live - Cardinality(Gone(n))
  BY <1>2, <1>4, <1>6, FS_Difference DEF Live
<1>8. Cardinality(DOMAIN rows') >= Target
  BY <1>2, <1>3, <1>5, <1>7
<1>9. \A k \in DOMAIN rows \ DOMAIN rows', l \in DOMAIN rows' : access[k].at <= access[l].at
  <2>1. DOMAIN rows \ DOMAIN rows' = Gone(n)
    BY <1>4 DEF Gone
  <2> QED BY <1>2, <1>3, <1>4, <2>1, GoneAreOldest
<1> QED BY <1>8, <1>9 DEF Evict

\* A row leaves the store by eviction only, whatever processes open it at
\* once (ensure_schema), and eviction takes the least recently used and no
\* more than it must (evict of index_cache.rs).
THEOREM RowsLeaveByEvictionAlways == Spec => RowsLeaveByEviction
<1>1. IInv /\ [Next]_vars => [tables = "current" =>
        /\ tables' = "current"
        /\ \A k \in DOMAIN rows \ DOMAIN rows' : \E p \in Procs : pc[p] = "evict"]_vars
  BY RowsStay, EvictionIsFrugal
<1>2. IInv /\ [Next]_vars => [tables = "current" /\ Cardinality(DOMAIN rows') < Live
        => Cardinality(DOMAIN rows') >= Target]_vars
  <2> SUFFICES ASSUME IInv, [Next]_vars, tables = "current", Cardinality(DOMAIN rows') < Live,
                      ~(\E p \in Procs : Evict(p))
               PROVE  FALSE
    BY EvictionIsFrugal
  <2>1. DOMAIN rows \in SUBSET DOMAIN rows' /\ IsFiniteSet(DOMAIN rows')
    BY RowsStay
  <2>2. Live <= Cardinality(DOMAIN rows') /\ Live \in Nat /\ Cardinality(DOMAIN rows') \in Nat
    BY <2>1, FS_Subset, FS_CardinalityType DEF Live
  <2> QED BY <2>2
<1>3. IInv /\ [Next]_vars => [\A k \in DOMAIN rows \ DOMAIN rows', l \in DOMAIN rows' :
        tables = "current" => access[k].at <= access[l].at]_vars
  BY RowsStay, EvictionIsFrugal
<1>4. Spec => LayoutNeverRemade
  BY <1>1, Invariant, PTL DEF Spec, LayoutNeverRemade
<1>5. Spec => EvictsNoMoreThanNeeded
  BY <1>2, Invariant, PTL DEF Spec, EvictsNoMoreThanNeeded
<1>6. Spec => EvictsOldest
  BY <1>3, Invariant, PTL DEF Spec, EvictsOldest
<1> QED BY <1>4, <1>5, <1>6, PTL DEF RowsLeaveByEviction
=============================================================================
