------------------------- MODULE SearchCache_proofs -------------------------
(* Proofs about SearchCache, for any number of clients, keys, files, edits   *)
(* and installed snapshots.                                                  *)
EXTENDS SearchCache, FiniteSetTheorems, TLAPS

USE SearchAssumption

-----------------------------------------------------------------------------
(* Types.  What a request's locals hold depends on how far it is.           *)

Collecting == {"fresh", "stamp", "read", "stampRoute", "insert"}

LocalsOK(c) ==
  /\ pc[c] # "idle" => query[c] \in Query /\ pinned[c] \in Snapshot
  /\ pc[c] \in Collecting => page[c] \in Page
  /\ pc[c] = "read" /\ Kind[query[c]] # "route" =>
       at[c] <= NFile /\ held[c] \in File \X Stat
  /\ pc[c] = "stampRoute" =>
       at[c] <= NFile /\ held[c] \in File \X Content /\ Kind[query[c]] = "route"

TypeInv == TypeOK /\ \A c \in Client : LocalsOK(c)

\* Only the locals of the client that moves change.
LEMMA Frame ==
  ASSUME TypeOK, NEW c \in Client, Request(c), NEW d \in Client, d # c
  PROVE  /\ pc'[d] = pc[d] /\ query'[d] = query[d] /\ pinned'[d] = pinned[d]
         /\ page'[d] = page[d] /\ at'[d] = at[d] /\ held'[d] = held[d]
<1>1. CASE (\E q \in Query : Begin(c, q)) \/ Get(c)
  BY <1>1 DEF TypeOK, Begin, Get, Recompute
<1>2. CASE CheckFresh(c)
  BY <1>2 DEF TypeOK, CheckFresh, Recompute, Reply
<1>3. CASE StampFile(c) \/ EndOfPage(c)
  BY <1>3 DEF TypeOK, StampFile, EndOfPage
<1>4. CASE ReadSymbol(c)
  BY <1>4 DEF TypeOK, ReadSymbol
<1>5. CASE ReadRoute(c)
  BY <1>5 DEF TypeOK, ReadRoute
<1>6. CASE StampRoute(c)
  BY <1>6 DEF TypeOK, StampRoute
<1>7. CASE CollectFuzzy(c) \/ InsertPage(c)
  BY <1>7 DEF TypeOK, CollectFuzzy, InsertPage, Reply
<1> QED
  BY <1>1, <1>2, <1>3, <1>4, <1>5, <1>6, <1>7 DEF Request

LEMMA NewPageType == ASSUME NEW s \in Snapshot PROVE NewPage(s) \in Page /\ NewPage(s).of = s
<1>1. 1 \in 1..(NFile + 1)
  OBVIOUS
<1> QED BY <1>1 DEF NewPage, Page

LEMMA EndType ==
  ASSUME NEW p \in Page, NEW n \in 1..(NFile + 1)
  PROVE  [p EXCEPT !.end = n] \in Page /\ [p EXCEPT !.end = n].of = p.of
BY DEF Page

LEMMA ShowType ==
  ASSUME NEW p \in Page, NEW f \in File, NEW x \in Content, NEW t \in File \X Stat
  PROVE  Show(p, f, x, t) \in Page /\ Show(p, f, x, t).of = p.of
<1>1. Size[x] \in Nat
  OBVIOUS
<1>2. /\ p.entries \cup {<<f, x>>} \in SUBSET (File \X Content)
      /\ p.bytes + Size[x] \in Nat
      /\ p.stamps \cup {t} \in SUBSET (File \X Stat)
  BY <1>1 DEF Page
<1> QED BY <1>2 DEF Show, Page

LEMMA AdvanceType ==
  ASSUME TypeOK, NEW g \in Nat
  PROVE  Advance(g) \in [generation : Nat, entries : [Query -> Page \cup {None}]]
BY DEF TypeOK, Advance, Empty

LEMMA InsertType ==
  ASSUME TypeOK, NEW g \in Nat, NEW q \in Query, NEW p \in Page
  PROVE  Insert(g, q, p) \in [generation : Nat, entries : [Query -> Page \cup {None}]]
<1> DEFINE c == Advance(g)
           full == Cardinality({k \in Query : c.entries[k] # None}) >= MaxEntries
           kept == IF full /\ c.entries[q] = None THEN Empty ELSE c.entries
<1>1. c \in [generation : Nat, entries : [Query -> Page \cup {None}]]
  BY AdvanceType
<1>2. kept \in [Query -> Page \cup {None}]
  BY <1>1 DEF Empty
<1>3. [kept EXCEPT ![q] = p] \in [Query -> Page \cup {None}]
  BY <1>2
<1>4. [c EXCEPT !.entries = [kept EXCEPT ![q] = p]]
        \in [generation : Nat, entries : [Query -> Page \cup {None}]]
  BY <1>1, <1>3
<1> QED BY <1>4 DEF Insert, TypeOK

LEMMA TypeInit == Init => TypeInv
<1> SUFFICES ASSUME Init PROVE TypeInv
  OBVIOUS
<1>1. disk \in [File -> OnDisk]
  <2>1. 1 \in Stat
    BY DEF Stat
  <2> QED BY <2>1 DEF Init, OnDisk, Content
<1>2. snapshot \in Snapshot
  BY DEF Init, Snapshot, Content
<1>3. 1 \in 1..(NFile + 1)
  OBVIOUS
<1> QED BY <1>1, <1>2, <1>3 DEF Init, TypeInv, TypeOK, LocalsOK, Collecting

\* The locals after a step of their own client.
LEMMA LocalsStep ==
  ASSUME TypeInv, NEW c \in Client, Request(c)
  PROVE  /\ pc' \in [Client -> {"idle", "get", "fresh", "stamp", "read", "stampRoute",
                                "fuzzy", "insert"}]
         /\ query' \in [Client -> Query \cup {None}] /\ pinned' \in [Client -> Snapshot \cup {None}]
         /\ page' \in [Client -> Page \cup {None}] /\ at' \in [Client -> 1..(NFile + 1)]
         /\ held' \in [Client -> (File \X Stat) \cup (File \X Content) \cup {None}]
         /\ LocalsOK(c)'
         /\ page'[c] # page[c] /\ pc'[c] \in Collecting =>
              \/ page'[c].of = pinned[c]
              \/ page[c] \in Page /\ pc[c] \in Collecting /\ page'[c].of = page[c].of
              \/ pc'[c] = "fresh" /\ pc[c] = "get" /\ page'[c] = cache.entries[query[c]]
<1> USE DEF TypeInv
<1>0. LocalsOK(c) /\ TypeOK
  OBVIOUS
<1>a. /\ 1 \in 1..(NFile + 1)
      /\ \A n \in 1..(NFile + 1) : n <= NFile => n + 1 \in 1..(NFile + 1) /\ n \in File
  BY DEF File
<1>b. \A f \in File : Stamp(f) \in File \X Stat /\ disk[f].content \in Content
  BY DEF Stamp, TypeOK, OnDisk
<1>1. ASSUME NEW q \in Query, Begin(c, q)
      PROVE  /\ pc' = [pc EXCEPT ![c] = "get"] /\ query' = [query EXCEPT ![c] = q]
             /\ pinned' = [pinned EXCEPT ![c] = snapshot]
             /\ UNCHANGED <<page, at, held>> /\ snapshot \in Snapshot
  BY <1>1 DEF Begin, TypeOK
<1>2. CASE \E q \in Query : Begin(c, q)
  BY <1>0, <1>1, <1>2 DEF TypeOK, LocalsOK, Collecting
<1>3. ASSUME Recompute(c), UNCHANGED <<query, pinned, held>>, pc[c] # "idle"
      PROVE  /\ pc' \in [Client -> {"idle", "get", "fresh", "stamp", "read", "stampRoute",
                                    "fuzzy", "insert"}]
             /\ page' \in [Client -> Page \cup {None}] /\ at' \in [Client -> 1..(NFile + 1)]
             /\ LocalsOK(c)'
             /\ page'[c].of = pinned[c]
  <2>1. NewPage(pinned[c]) \in Page /\ NewPage(pinned[c]).of = pinned[c]
    BY <1>0, <1>3, NewPageType DEF LocalsOK
  <2>2. /\ pc'[c] = Collector(c) /\ page'[c] = NewPage(pinned[c]) /\ at'[c] = 1
        /\ Collector(c) \in {"fuzzy", "read", "stamp"}
        /\ Collector(c) = "read" => Kind[query[c]] = "route"
    BY <1>0, <1>3 DEF Recompute, TypeOK, Collector
  <2> QED BY <1>0, <1>3, <1>a, <2>1, <2>2 DEF Recompute, TypeOK, LocalsOK, Collecting
<1>4. CASE Get(c)
  <2>1. CASE Recompute(c)
    BY <1>0, <1>3, <1>4, <2>1 DEF Get, TypeOK
  <2>2. CASE ~Recompute(c)
    <3>1. /\ query[c] \in Cached /\ page' = [page EXCEPT ![c] = cache.entries[query[c]]]
          /\ pc' = [pc EXCEPT ![c] = "fresh"] /\ at' = [at EXCEPT ![c] = 1]
          /\ UNCHANGED <<query, pinned, held>> /\ pc[c] = "get"
      BY <1>4, <2>2 DEF Get
    <3>2. cache.entries[query[c]] \in Page
      BY <3>1 DEF Cached, TypeOK
    <3> QED BY <1>0, <1>a, <3>1, <3>2 DEF TypeOK, LocalsOK, Collecting
  <2> QED BY <2>1, <2>2
<1>5. ASSUME Reply(c)
      PROVE  /\ pc' \in [Client -> {"idle", "get", "fresh", "stamp", "read", "stampRoute",
                                    "fuzzy", "insert"}]
             /\ query' \in [Client -> Query \cup {None}]
             /\ pinned' \in [Client -> Snapshot \cup {None}]
             /\ page' \in [Client -> Page \cup {None}] /\ at' \in [Client -> 1..(NFile + 1)]
             /\ held' \in [Client -> (File \X Stat) \cup (File \X Content) \cup {None}]
             /\ LocalsOK(c)' /\ pc'[c] = "idle"
  BY <1>0, <1>5, <1>a DEF Reply, TypeOK, LocalsOK, Collecting
<1>6. CASE CheckFresh(c)
  <2>1. CASE Recompute(c) /\ UNCHANGED <<query, pinned, held>>
    BY <1>0, <1>3, <1>6, <2>1 DEF CheckFresh, TypeOK
  <2>2. CASE Reply(c)
    BY <1>5, <2>2 DEF Collecting
  <2>3. CASE /\ at[c] <= NFile /\ at' = [at EXCEPT ![c] = @ + 1]
             /\ UNCHANGED <<pc, query, pinned, page, held>>
    BY <1>0, <1>6, <1>a, <2>3 DEF CheckFresh, TypeOK, LocalsOK
  <2> QED BY <1>6, <2>1, <2>2, <2>3 DEF CheckFresh
<1>7. CASE StampFile(c)
  <2>1. /\ pc[c] = "stamp" /\ at[c] <= NFile /\ at[c] \in File
        /\ UNCHANGED <<query, pinned, page>>
    BY <1>0, <1>7, <1>a DEF StampFile, TypeOK
  <2>2. CASE at' = [at EXCEPT ![c] = @ + 1] /\ UNCHANGED <<pc, held>>
    BY <1>0, <1>a, <2>1, <2>2 DEF TypeOK, LocalsOK, Collecting
  <2>3. CASE /\ held' = [held EXCEPT ![c] = Stamp(at[c])]
             /\ pc' = [pc EXCEPT ![c] = "read"] /\ UNCHANGED at
    BY <1>0, <1>b, <2>1, <2>3 DEF TypeOK, LocalsOK, Collecting
  <2> QED BY <1>7, <2>2, <2>3 DEF StampFile
<1>8. CASE ReadSymbol(c)
  <2>1. /\ pc[c] = "read" /\ at[c] \in File /\ at[c] <= NFile /\ page[c] \in Page
        /\ held[c] \in File \X Stat /\ disk[at[c]].content \in Content
        /\ UNCHANGED <<query, pinned, held>>
    BY <1>0, <1>8, <1>a, <1>b DEF ReadSymbol, LocalsOK, TypeOK, Collecting
  <2>2. CASE page' = page /\ at' = at /\ pc' = [pc EXCEPT ![c] = "insert"]
    BY <1>0, <2>1, <2>2 DEF TypeOK, LocalsOK, Collecting
  <2>3. ASSUME NEW p \in Page, p.of = page[c].of, page' = [page EXCEPT ![c] = p],
               at' = [at EXCEPT ![c] = @ + 1], pc' = [pc EXCEPT ![c] = "stamp"]
        PROVE  /\ pc' \in [Client -> {"idle", "get", "fresh", "stamp", "read", "stampRoute",
                                      "fuzzy", "insert"}]
               /\ page' \in [Client -> Page \cup {None}] /\ at' \in [Client -> 1..(NFile + 1)]
               /\ LocalsOK(c)' /\ page'[c].of = page[c].of
    BY <1>0, <1>a, <2>1, <2>3 DEF TypeOK, LocalsOK, Collecting
  <2>4. CASE page' = [page EXCEPT ![c].stamps = @ \cup {held[c]}]
             /\ at' = [at EXCEPT ![c] = @ + 1] /\ pc' = [pc EXCEPT ![c] = "stamp"]
    <3>1. /\ [page[c] EXCEPT !.stamps = @ \cup {held[c]}] \in Page
          /\ [page[c] EXCEPT !.stamps = @ \cup {held[c]}].of = page[c].of
      BY <2>1 DEF Page
    <3>2. page' = [page EXCEPT ![c] = [page[c] EXCEPT !.stamps = @ \cup {held[c]}]]
      BY <2>4
    <3> QED BY <1>0, <2>1, <2>3, <2>4, <3>1, <3>2 DEF TypeOK, Collecting
  <2>5. CASE page' = [page EXCEPT ![c] = Show(@, at[c], disk[at[c]].content, held[c])]
             /\ at' = [at EXCEPT ![c] = @ + 1] /\ pc' = [pc EXCEPT ![c] = "stamp"]
    <3>1. /\ Show(page[c], at[c], disk[at[c]].content, held[c]) \in Page
          /\ Show(page[c], at[c], disk[at[c]].content, held[c]).of = page[c].of
      BY <2>1, ShowType
    <3> QED BY <1>0, <2>1, <2>3, <2>5, <3>1 DEF TypeOK, Collecting
  <2> QED BY <1>8, <2>2, <2>4, <2>5 DEF ReadSymbol
<1>9. CASE ReadRoute(c)
  <2>1. /\ pc[c] = "read" /\ Kind[query[c]] = "route" /\ at[c] <= NFile /\ at[c] \in File
        /\ UNCHANGED <<query, pinned, page>>
    BY <1>0, <1>9, <1>a DEF ReadRoute, TypeOK
  <2>2. CASE at' = [at EXCEPT ![c] = @ + 1] /\ UNCHANGED <<pc, held>>
    BY <1>0, <1>a, <2>1, <2>2 DEF TypeOK, LocalsOK, Collecting
  <2>3. CASE /\ held' = [held EXCEPT ![c] = <<at[c], disk[at[c]].content>>]
             /\ pc' = [pc EXCEPT ![c] = "stampRoute"] /\ UNCHANGED at
    <3>1. <<at[c], disk[at[c]].content>> \in File \X Content
      BY <1>b, <2>1
    <3> QED BY <1>0, <2>1, <2>3, <3>1 DEF TypeOK, LocalsOK, Collecting
  <2>4. CASE pc' = [pc EXCEPT ![c] = "insert"] /\ UNCHANGED <<at, held>>
    BY <1>0, <2>1, <2>4 DEF TypeOK, LocalsOK, Collecting
  <2> QED BY <1>9, <2>2, <2>3, <2>4 DEF ReadRoute
<1>10. CASE StampRoute(c)
  <2>1. /\ pc[c] = "stampRoute" /\ at[c] \in File /\ at[c] <= NFile /\ page[c] \in Page
        /\ held[c][2] \in Content /\ Stamp(at[c]) \in File \X Stat
        /\ UNCHANGED <<query, pinned, held>>
    BY <1>0, <1>10, <1>a, <1>b DEF StampRoute, LocalsOK, TypeOK, Collecting
  <2>2. /\ Show(page[c], at[c], held[c][2], Stamp(at[c])) \in Page
        /\ Show(page[c], at[c], held[c][2], Stamp(at[c])).of = page[c].of
    BY <2>1, ShowType
  <2>3. /\ page' = [page EXCEPT ![c] = Show(@, at[c], held[c][2], Stamp(at[c]))]
        /\ at' = [at EXCEPT ![c] = @ + 1] /\ pc' = [pc EXCEPT ![c] = "read"]
    BY <1>10 DEF StampRoute
  <2> HIDE DEF TypeInv
  <2> QED BY <1>0, <1>a, <2>1, <2>2, <2>3 DEF TypeOK, LocalsOK, Collecting
<1>11. CASE EndOfPage(c)
  BY <1>0, <1>11 DEF EndOfPage, TypeOK, LocalsOK, Collecting
<1>12. CASE CollectFuzzy(c) \/ InsertPage(c)
  BY <1>5, <1>12 DEF CollectFuzzy, InsertPage, Collecting
<1> QED
  BY <1>2, <1>4, <1>6, <1>7, <1>8, <1>9, <1>10, <1>11, <1>12 DEF Request

LEMMA TypeNext == TypeInv /\ [Next]_vars => TypeInv'
<1> SUFFICES ASSUME TypeInv, [Next]_vars PROVE TypeInv'
  OBVIOUS
<1>1. ASSUME NEW f \in File, NEW x \in Content, Edit(f, x) PROVE TypeInv'
  <2>1. (IF x = Gone THEN 0 ELSE edits + 2) \in Stat /\ edits' \in 0..MaxEdits
    BY <1>1 DEF Edit, TypeInv, TypeOK, Stat
  <2>2. disk' \in [File -> OnDisk]
    BY <1>1, <2>1 DEF Edit, TypeInv, TypeOK, OnDisk
  <2> QED BY <1>1, <2>1, <2>2 DEF Edit, client, TypeInv, TypeOK, LocalsOK
<1>2. ASSUME NEW F \in SUBSET File, InstallSnapshot(F) PROVE TypeInv'
  <2>1. snapshot' \in Snapshot
    BY <1>2 DEF InstallSnapshot, TypeInv, TypeOK, OnDisk, Snapshot
  <2> QED BY <1>2, <2>1 DEF InstallSnapshot, client, TypeInv, TypeOK, LocalsOK
<1>3. ASSUME NEW c \in Client, Request(c) PROVE TypeInv'
  <2>1. UNCHANGED <<disk, edits, snapshot>>
    BY <1>3 DEF Request, Begin, Get, CheckFresh, StampFile, ReadSymbol, ReadRoute, StampRoute,
                EndOfPage, CollectFuzzy, InsertPage
  <2>2. cache' \in [generation : Nat, entries : [Query -> Page \cup {None}]]
    <3>1. CASE Get(c)
      <4>1. pinned[c].generation \in Nat
        BY <3>1 DEF Get, TypeInv, LocalsOK, Snapshot
      <4> QED BY <3>1, <4>1, AdvanceType DEF Get, TypeInv
    <3>2. CASE InsertPage(c)
      <4>1. /\ pinned[c].generation \in Nat /\ query[c] \in Query /\ page[c] \in Page
            /\ at[c] \in 1..(NFile + 1)
        BY <3>2 DEF InsertPage, TypeInv, TypeOK, LocalsOK, Snapshot, Collecting
      <4>2. [page[c] EXCEPT !.end = at[c]] \in Page
        BY <4>1, EndType
      <4> QED BY <3>2, <4>1, <4>2, InsertType DEF InsertPage, TypeInv
    <3>3. CASE ~Get(c) /\ ~InsertPage(c)
      BY <1>3, <3>3 DEF Request, Begin, CheckFresh, StampFile, ReadSymbol, ReadRoute, StampRoute,
                        EndOfPage, CollectFuzzy, TypeInv, TypeOK
    <3> QED BY <3>1, <3>2, <3>3
  <2>3. TypeOK'
    BY <1>3, <2>1, <2>2, LocalsStep DEF TypeInv, TypeOK
  <2>4. ASSUME NEW d \in Client PROVE LocalsOK(d)'
    <3>1. CASE d = c
      BY <1>3, <3>1, LocalsStep
    <3>2. CASE d # c
      BY <1>3, <3>2, Frame DEF TypeInv, LocalsOK
    <3> QED BY <3>1, <3>2
  <2> QED BY <2>3, <2>4 DEF TypeInv
<1>4. CASE UNCHANGED vars
  BY <1>4 DEF vars, client, TypeInv, TypeOK, LocalsOK
<1> QED
  BY <1>1, <1>2, <1>3, <1>4 DEF Next, Environment

-----------------------------------------------------------------------------
(* GenerationSound.  A hit is only right if equal generations mean the same *)
(* snapshot, so the invariant ranges over every snapshot somebody holds.    *)

InUse(s) ==
  \/ s = snapshot
  \/ \E c \in Client : pc[c] # "idle" /\ s = pinned[c]
  \/ \E q \in Cached : s = cache.entries[q].of

GenInv ==
  /\ TypeInv
  /\ \A s, t : InUse(s) /\ InUse(t) /\ s.generation = t.generation => s = t
  /\ \A s : InUse(s) => s.generation <= snapshot.generation
  /\ cache.generation <= snapshot.generation
  /\ \A q \in Cached : cache.entries[q].of.generation = cache.generation
  /\ \A c \in Client : pc[c] \in Collecting => page[c].of = pinned[c]

LEMMA GenInit == Init => GenInv
<1> SUFFICES ASSUME Init PROVE GenInv
  OBVIOUS
<1>1. TypeInv
  BY TypeInit
<1>2. \A s : InUse(s) => s = snapshot
  BY DEF InUse, Init, Cached
<1> QED BY <1>1, <1>2 DEF GenInv, Init, Cached, Collecting, TypeInv, TypeOK, Snapshot

LEMMA InUseType == ASSUME TypeInv, NEW s, InUse(s) PROVE s \in Snapshot /\ s.generation \in Nat
BY DEF InUse, TypeInv, TypeOK, LocalsOK, Cached, Page, Snapshot

\* Whoever holds a snapshot after a request's step held it before.
LEMMA GenStep ==
  ASSUME GenInv, NEW c \in Client, Request(c)
  PROVE  GenInv'
<1>0. TypeInv /\ TypeOK /\ TypeInv'
  BY TypeNext DEF GenInv, Next, TypeInv
<1>1. snapshot' = snapshot
  BY DEF Request, Begin, Get, CheckFresh, StampFile, ReadSymbol, ReadRoute, StampRoute,
         EndOfPage, CollectFuzzy, InsertPage
<1>2. pc'[c] # "idle" => \/ pinned'[c] = snapshot
                         \/ pc[c] # "idle" /\ pinned'[c] = pinned[c]
  BY <1>0 DEF Request, Begin, Get, Recompute, CheckFresh, StampFile, ReadSymbol, ReadRoute,
         StampRoute, EndOfPage, CollectFuzzy, InsertPage, Reply, TypeOK
<1> DEFINE g == pinned[c].generation
<1>3. ASSUME Get(c) \/ InsertPage(c)
      PROVE  g \in Nat /\ cache.generation \in Nat /\ g <= snapshot.generation /\ InUse(pinned[c])
  <2>1. pc[c] # "idle"
    BY <1>3 DEF Get, InsertPage
  <2>2. InUse(pinned[c])
    BY <2>1 DEF InUse
  <2> QED BY <1>0, <2>2, InUseType DEF GenInv, TypeOK
<1>4. /\ cache'.generation <= snapshot.generation
      /\ \A q \in Cached' : /\ cache'.entries[q].of.generation = cache'.generation
                           /\ \/ q \in Cached /\ cache'.entries[q] = cache.entries[q]
                              \/ InUse(cache'.entries[q].of)
  <2>1. CASE Get(c)
    <3>1. cache' = IF g > cache.generation THEN [generation |-> g, entries |-> Empty] ELSE cache
      BY <2>1 DEF Get, Advance
    <3> QED BY <1>3, <2>1, <3>1 DEF GenInv, Cached, Empty
  <2>2. CASE InsertPage(c)
    <3> DEFINE p == [page[c] EXCEPT !.end = at[c]]
    <3>1. p.of = pinned[c] /\ query[c] \in Query
      <4>1. /\ page[c].of = pinned[c] /\ page[c] \in Page /\ query[c] \in Query
            /\ at[c] \in 1..(NFile + 1)
        BY <1>0, <2>2 DEF InsertPage, GenInv, Collecting, TypeInv, TypeOK, LocalsOK
      <4> QED BY <4>1, EndType
    <3>2. CASE g < cache.generation
      BY <2>2, <3>2 DEF InsertPage, Insert, GenInv, Cached
    <3>3. CASE g >= cache.generation
      <4> DEFINE a == Advance(g)
                 full == Cardinality({k \in Query : a.entries[k] # None}) >= MaxEntries
                 kept == IF full /\ a.entries[query[c]] = None THEN Empty ELSE a.entries
      <4>1. cache' = [a EXCEPT !.entries = [kept EXCEPT ![query[c]] = p]]
        BY <1>3, <2>2, <3>3 DEF InsertPage, Insert
      <4>2. /\ a \in [generation : Nat, entries : [Query -> Page \cup {None}]]
            /\ a.generation = g
        BY <1>0, <1>3, <2>2, <3>3, AdvanceType DEF Advance
      <4>3. kept \in [Query -> Page \cup {None}]
        BY <4>2 DEF Empty
      <4>4. \A q \in Query : kept[q] # None => q \in Cached /\ kept[q] = cache.entries[q]
                                              /\ g = cache.generation
        BY <1>3, <2>2, <3>3 DEF Advance, Empty, Cached
      <4> HIDE DEF a, kept, p
      <4>5. /\ cache'.generation = g
            /\ \A q \in Query : cache'.entries[q] = IF q = query[c] THEN p ELSE kept[q]
        BY <4>1, <4>2, <4>3
      <4>6. InUse(p.of) /\ p.of.generation = g
        BY <1>3, <2>2, <3>1
      <4> QED BY <1>3, <2>2, <4>4, <4>5, <4>6 DEF GenInv, Cached
    <3> QED BY <1>3, <2>2, <3>2, <3>3
  <2>3. CASE ~Get(c) /\ ~InsertPage(c)
    <3>1. cache' = cache
      BY <2>3 DEF Request, Begin, CheckFresh, StampFile, ReadSymbol, ReadRoute, StampRoute,
                  EndOfPage, CollectFuzzy
    <3> QED BY <3>1 DEF GenInv, Cached
  <2> QED BY <2>1, <2>2, <2>3
<1>5. ASSUME NEW s, InUse(s)' PROVE InUse(s)
  <2>1. CASE s = snapshot'
    BY <1>1, <2>1 DEF InUse
  <2>2. ASSUME NEW d \in Client, pc'[d] # "idle", s = pinned'[d] PROVE InUse(s)
    BY <1>0, <1>2, <2>2, Frame DEF InUse
  <2>3. ASSUME NEW q \in Cached', s = cache'.entries[q].of PROVE InUse(s)
    BY <1>4, <2>3 DEF InUse
  <2> QED BY <1>5, <2>1, <2>2, <2>3 DEF InUse
<1>6. ASSUME NEW d \in Client, pc'[d] \in Collecting PROVE page'[d].of = pinned'[d]
  <2>1. CASE d # c
    BY <1>0, <1>6, <2>1, Frame DEF GenInv
  <2>2. CASE d = c
    <3>1. pinned'[c] = pinned[c] /\ pc[c] # "idle"
      BY <1>0, <1>6, <2>2
         DEF Request, Begin, Get, Recompute, CheckFresh, StampFile, ReadSymbol, ReadRoute,
             StampRoute, EndOfPage, CollectFuzzy, InsertPage, Reply, TypeOK, Collecting
    <3>2. CASE page'[c] = page[c] /\ pc[c] \in Collecting
      BY <2>2, <3>1, <3>2 DEF GenInv
    <3>3. CASE page'[c].of = pinned[c]
      BY <2>2, <3>1, <3>3
    <3>4. CASE page[c] \in Page /\ pc[c] \in Collecting /\ page'[c].of = page[c].of
      BY <2>2, <3>1, <3>4 DEF GenInv
    <3>5. CASE Get(c) /\ ~Recompute(c)
      <4>1. /\ g = cache.generation /\ query[c] \in Cached
            /\ page'[c] = cache.entries[query[c]]
        BY <1>0, <3>5 DEF Get, TypeOK
      <4>2. InUse(cache.entries[query[c]].of) /\ InUse(pinned[c])
        BY <3>1, <4>1 DEF InUse
      <4>3. cache.entries[query[c]].of = pinned[c]
        BY <4>1, <4>2 DEF GenInv
      <4> QED BY <2>2, <3>1, <4>1, <4>3
    <3>6. CASE Get(c) /\ Recompute(c)
      <4>1. page'[c] = NewPage(pinned[c])
        BY <1>0, <3>6 DEF Recompute, TypeOK
      <4>2. pinned[c] \in Snapshot
        BY <1>0, <3>1 DEF TypeInv, LocalsOK
      <4> QED BY <2>2, <3>1, <4>1, <4>2, NewPageType
    <3>7. ~Get(c) => pc[c] \in Collecting
      BY <1>0, <1>6, <2>2
         DEF Request, Begin, CheckFresh, StampFile, ReadSymbol, ReadRoute, StampRoute,
             EndOfPage, CollectFuzzy, InsertPage, Reply, TypeOK, Collecting
    <3>8. page'[c] # page[c] =>
            \/ page'[c].of = pinned[c]
            \/ page[c] \in Page /\ pc[c] \in Collecting /\ page'[c].of = page[c].of
            \/ pc[c] = "get"
      BY <1>0, <1>6, <2>2, LocalsStep
    <3>9. CASE ~Get(c)
      <4>1. pc[c] # "get"
        BY <3>7, <3>9 DEF Collecting
      <4> QED BY <3>2, <3>3, <3>4, <3>7, <3>8, <3>9, <4>1
    <3> QED BY <3>5, <3>6, <3>9
  <2> QED BY <2>1, <2>2
<1> QED
  BY <1>0, <1>1, <1>4, <1>5, <1>6 DEF GenInv

LEMMA GenNext == GenInv /\ [Next]_vars => GenInv'
<1> SUFFICES ASSUME GenInv, [Next]_vars PROVE GenInv'
  OBVIOUS
<1>0. TypeInv /\ TypeInv'
  BY TypeNext DEF GenInv
<1>1. ASSUME NEW F \in SUBSET File, InstallSnapshot(F) PROVE GenInv'
  <2>1. /\ snapshot'.generation = snapshot.generation + 1
        /\ UNCHANGED <<cache, pc, pinned, page>>
    BY <1>1 DEF InstallSnapshot, client
  <2>2. \A s : InUse(s)' => s = snapshot' \/ InUse(s)
    BY <2>1 DEF InUse, Cached
  <2>3. \A s : InUse(s) => s.generation \in Nat /\ s.generation <= snapshot.generation
    BY <1>0, InUseType DEF GenInv
  <2>4. snapshot.generation \in Nat /\ cache.generation \in Nat
    BY <1>0 DEF TypeInv, TypeOK, Snapshot
  <2>5. \A s, t : InUse(s)' /\ InUse(t)' /\ s.generation = t.generation => s = t
    BY <2>1, <2>2, <2>3, <2>4 DEF GenInv
  <2>6. \A s : InUse(s)' => s.generation <= snapshot'.generation
    BY <2>1, <2>2, <2>3, <2>4
  <2> QED BY <1>0, <2>1, <2>4, <2>5, <2>6 DEF GenInv, Cached
<1>2. ASSUME NEW f \in File, NEW x \in Content, Edit(f, x) PROVE GenInv'
  BY <1>0, <1>2 DEF Edit, client, GenInv, InUse, Cached
<1>3. CASE UNCHANGED vars
  BY <1>0, <1>3 DEF vars, client, GenInv, InUse, Cached
<1> QED
  BY <1>1, <1>2, <1>3, GenStep DEF Next, Environment

\* A page served from the cache was ranked by the very snapshot its request
\* loaded, and the cache never runs ahead of the installed snapshot: for any
\* interleaving of requests, late inserts and installations.
THEOREM GenerationAlwaysSound == Spec => []GenerationSound
<1>1. GenInv => GenerationSound
  BY DEF GenInv, GenerationSound, Collecting
<1> QED
  BY <1>1, GenInit, GenNext, PTL DEF Spec

-----------------------------------------------------------------------------
(* Types, the bound and the direction of the cache.                          *)

\* Every variable of the search and its cache keeps its kind.
THEOREM SearchTypeCorrect == Spec => []TypeOK
<1>1. TypeInv => TypeOK
  BY DEF TypeInv
<1> QED
  BY <1>1, TypeInit, TypeNext, PTL DEF Spec

LEMMA BoundNext == TypeInv /\ CacheBounded /\ [Next]_vars => CacheBounded'
<1> SUFFICES ASSUME TypeInv, CacheBounded, [Next]_vars PROVE CacheBounded'
  OBVIOUS
<1>0. TypeOK
  BY DEF TypeInv
<1>1. CASE cache' = cache
  BY <1>1 DEF CacheBounded, Cached
<1>2. ASSUME NEW c \in Client, Get(c) PROVE CacheBounded'
  <2>1. CASE cache'.entries = Empty
    <3>1. Cached' = {}
      BY <2>1 DEF Cached, Empty
    <3> QED BY <3>1, FS_EmptySet DEF CacheBounded
  <2> QED BY <1>1, <1>2, <2>1 DEF Get, Advance
<1>3. ASSUME NEW c \in Client, InsertPage(c) PROVE CacheBounded'
  <2> DEFINE g == pinned[c].generation
             q == query[c]
             a == Advance(g)
             K == {k \in Query : a.entries[k] # None}
             full == Cardinality(K) >= MaxEntries
             kept == IF full /\ a.entries[q] = None THEN Empty ELSE a.entries
  <2> DEFINE p == [page[c] EXCEPT !.end = at[c]]
  <2>1. q \in Query /\ g \in Nat
    BY <1>3 DEF TypeInv, LocalsOK, InsertPage, Collecting, Snapshot
  <2>2. CASE ~(g < cache.generation)
    <3>1. cache' = [a EXCEPT !.entries = [kept EXCEPT ![q] = p]]
      BY <1>3, <2>2 DEF InsertPage, Insert
    <3>2. a \in [generation : Nat, entries : [Query -> Page \cup {None}]]
      BY <1>0, <2>1, AdvanceType
    <3>3. kept \in [Query -> Page \cup {None}]
      BY <3>2 DEF Empty
    <3>4. K \subseteq Cached
      BY DEF Advance, Empty, Cached
    <3>5. /\ IsFiniteSet(Cached) /\ IsFiniteSet(K) /\ IsFiniteSet({q}) /\ IsFiniteSet(K \cup {q})
          /\ Cardinality(K) <= Cardinality(Cached)
      BY <2>1, <3>4, FS_Subset, FS_Singleton, FS_AddElement DEF Cached
    <3>6. /\ Cardinality(K) \in Nat /\ Cardinality(Cached) \in Nat
          /\ Cardinality({q}) = 1
          /\ Cardinality(K \cup {q}) \in Nat
          /\ Cardinality(K \cup {q}) <= Cardinality(K) + 1
      <4> HIDE DEF K, q
      <4>1. Cardinality(K) \in Nat /\ Cardinality(Cached) \in Nat /\ Cardinality(K \cup {q}) \in Nat
        BY <3>5, FS_CardinalityType
      <4>2. Cardinality({q}) = 1
        BY FS_Singleton
      <4>3. Cardinality(K \cup {q}) = IF q \in K THEN Cardinality(K) ELSE Cardinality(K) + 1
        BY <3>5, FS_AddElement
      <4> QED BY <4>1, <4>2, <4>3
    <3> HIDE DEF a, p
    <3>7. cache'.entries = [kept EXCEPT ![q] = p]
      BY <3>1, <3>2
    <3>8. CASE full /\ a.entries[q] = None
      <4>1. Cached' \subseteq {q}
        BY <3>7, <3>8 DEF Cached, Empty
      <4>2. Cardinality(Cached') <= 1 /\ Cardinality(Cached') \in Nat
        BY <3>5, <3>6, <4>1, FS_Subset, FS_CardinalityType
      <4> QED BY <4>2 DEF CacheBounded
    <3>9. CASE full /\ a.entries[q] # None
      <4>1. Cached' \subseteq K
        BY <2>1, <3>3, <3>7, <3>9 DEF Cached
      <4>2. Cardinality(Cached') <= Cardinality(K) /\ Cardinality(Cached') \in Nat
        BY <3>5, <3>6, <4>1, FS_Subset, FS_CardinalityType
      <4> QED BY <3>5, <3>6, <4>2 DEF CacheBounded
    <3>10. CASE ~full
      <4>1. Cached' \subseteq K \cup {q}
        BY <2>1, <3>3, <3>7, <3>10 DEF Cached
      <4>2. Cardinality(Cached') <= Cardinality(K \cup {q}) /\ Cardinality(Cached') \in Nat
        BY <3>5, <3>6, <4>1, FS_Subset, FS_CardinalityType
      <4> QED BY <3>6, <3>10, <4>2 DEF CacheBounded
    <3> QED BY <3>8, <3>9, <3>10
  <2> QED BY <1>1, <1>3, <2>2 DEF InsertPage, Insert
<1>4. ASSUME NEW c \in Client, Request(c), ~Get(c), ~InsertPage(c) PROVE cache' = cache
  BY <1>4 DEF Request, Begin, CheckFresh, StampFile, ReadSymbol, ReadRoute, StampRoute,
              EndOfPage, CollectFuzzy
<1> QED
  BY <1>1, <1>2, <1>3, <1>4 DEF Next, Environment, Edit, InstallSnapshot, vars

\* SearchCache::insert keeps the map within MAX_ENTRIES for any number of keys
\* and of concurrent inserts.
THEOREM CacheAlwaysBounded == Spec => []CacheBounded
<1>1. Init => CacheBounded
  <2>1. Init => Cached = {}
    BY DEF Init, Cached
  <2> QED BY <2>1, FS_EmptySet DEF CacheBounded
<1> QED
  BY <1>1, TypeInit, TypeNext, BoundNext, PTL DEF Spec

\* The cache's generation only grows: a lookup or an insert that comes late,
\* from a request that loaded an older snapshot, leaves it alone.
THEOREM CacheAlwaysForward == Spec => CacheNeverGoesBack
<1>1. TypeInv /\ [Next]_vars => [cache'.generation >= cache.generation]_cache
  <2> SUFFICES ASSUME TypeInv, [Next]_vars, cache' # cache
               PROVE  cache'.generation >= cache.generation
    OBVIOUS
  <2>1. PICK c \in Client : Get(c) \/ InsertPage(c)
    BY DEF Next, Environment, Edit, InstallSnapshot, vars, Request, Begin, CheckFresh, StampFile,
           ReadSymbol, ReadRoute, StampRoute, EndOfPage, CollectFuzzy
  <2>2. pinned[c].generation \in Nat /\ TypeOK /\ query[c] \in Query
    BY <2>1 DEF TypeInv, LocalsOK, Get, InsertPage, Snapshot
  <2>3. cache.generation \in Nat
    BY <2>2 DEF TypeOK
  <2>4. CASE Get(c)
    BY <2>2, <2>3, <2>4 DEF Get, Advance
  <2>5. CASE InsertPage(c)
    <3>1. Advance(pinned[c].generation).generation >= cache.generation
      BY <2>2, <2>3 DEF Advance
    <3>2. Advance(pinned[c].generation)
            \in [generation : Nat, entries : [Query -> Page \cup {None}]]
      BY <2>2, AdvanceType
    <3>3. cache' = cache \/ cache'.generation = Advance(pinned[c].generation).generation
      BY <2>5, <3>2 DEF InsertPage, Insert
    <3> QED BY <2>3, <3>1, <3>3
  <2> QED BY <2>1, <2>4, <2>5
<1> QED
  BY <1>1, TypeInit, TypeNext, PTL DEF Spec, CacheNeverGoesBack

-----------------------------------------------------------------------------
(* FreshPageExact.  A stamp taken before the read either still names the     *)
(* content that was read or never matches a present file again: every write  *)
(* moves the stamp past all those taken so far.                              *)

\* If f is there with the stamp p took of it, p says what it says.
Says(D, n, p, f) ==
  \E t \in 0..n + 1 :
    /\ <<f, t>> \in p.stamps
    /\ D[f].stamp = t /\ D[f].content # Gone =>
         \A x \in Content : <<f, x>> \in p.entries <=> x = D[f].content /\ x \in Hit

PageOf(D, n, p, k) ==
  /\ \A e \in p.entries : e[1] \in Ranked(p.of) /\ e[1] < k
  /\ \A f \in Ranked(p.of) : f < k => Says(D, n, p, f)

\* The page a client builds, and the stamp it took of the file it is about to
\* read.
Building(c) ==
  pc[c] \in {"stamp", "read", "insert"} /\ Kind[query[c]] # "route" =>
    /\ PageOf(disk, edits, page[c], at[c])
    /\ pc[c] = "read" => /\ at[c] \in Ranked(page[c].of)
                         /\ held[c][1] = at[c] /\ held[c][2] \in 0..edits + 1

FreshInv ==
  /\ \A f \in File : disk[f].stamp \in 0..edits + 1
  /\ \A c \in Client : Building(c)
  /\ \A q \in Cached : Kind[q] # "route" =>
       PageOf(disk, edits, cache.entries[q], cache.entries[q].end)

LEMMA FreshImplies == GenInv /\ FreshInv => FreshPageExact
<1> SUFFICES ASSUME GenInv, FreshInv, NEW q \in Cached, Kind[q] # "route",
                    \A s \in cache.entries[q].stamps : s = Stamp(s[1])
             PROVE  LET p == cache.entries[q]
                        matching == {f \in Ranked(p.of) : f < p.end /\ disk[f].content \in Hit}
                    IN {e \in p.entries : disk[e[1]].content # Gone}
                         = {<<f, disk[f].content>> : f \in matching}
  BY DEF FreshPageExact
<1> DEFINE p == cache.entries[q]
           matching == {f \in Ranked(p.of) : f < p.end /\ disk[f].content \in Hit}
           shown == {e \in p.entries : disk[e[1]].content # Gone}
<1>1. PageOf(disk, edits, p, p.end) /\ p \in Page
  BY DEF FreshInv, GenInv, TypeInv, TypeOK, Cached
<1>2. p.entries \subseteq File \X Content /\ \A f \in File : disk[f].content \in Content
  BY <1>1 DEF Page, GenInv, TypeInv, TypeOK, OnDisk
<1>3. ASSUME NEW f \in Ranked(p.of), f < p.end, disk[f].content # Gone
      PROVE  \A x \in Content : <<f, x>> \in p.entries <=> x = disk[f].content /\ x \in Hit
  <2>1. PICK t \in 0..edits + 1 :
          /\ <<f, t>> \in p.stamps
          /\ disk[f].stamp = t /\ disk[f].content # Gone =>
               \A x \in Content : <<f, x>> \in p.entries <=> x = disk[f].content /\ x \in Hit
    BY <1>1, <1>3 DEF PageOf, Says
  <2>2. <<f, t>> = Stamp(f)
    BY <2>1
  <2>3. disk[f].stamp = t
    BY <2>2 DEF Stamp
  <2> QED BY <1>3, <2>1, <2>3
<1>4. Ranked(p.of) \subseteq File
  BY DEF Ranked
<1>5. ASSUME NEW e \in shown PROVE \E f \in matching : e = <<f, disk[f].content>>
  <2>1. /\ e[1] \in Ranked(p.of) /\ e[1] < p.end /\ e = <<e[1], e[2]>> /\ e[2] \in Content
        /\ disk[e[1]].content # Gone
    BY <1>1, <1>2 DEF PageOf
  <2>2. e[2] = disk[e[1]].content /\ e[2] \in Hit
    BY <1>3, <2>1
  <2> QED BY <2>1, <2>2
<1>6. ASSUME NEW f \in matching PROVE <<f, disk[f].content>> \in shown
  <2>1. disk[f].content # Gone /\ disk[f].content \in Content
    BY <1>2, <1>4
  <2>2. <<f, disk[f].content>> \in p.entries
    BY <1>3, <2>1
  <2> QED BY <2>1, <2>2
<1> HIDE DEF p, matching, shown
<1>7. shown = {<<f, disk[f].content>> : f \in matching}
  BY <1>5, <1>6
<1> QED BY <1>7 DEF p, matching, shown

LEMMA FreshInit == Init => FreshInv
<1> SUFFICES ASSUME Init PROVE FreshInv
  OBVIOUS
<1>1. \A f \in File : disk[f].stamp = 1 /\ edits = 0
  BY DEF Init
<1> QED BY <1>1 DEF Init, FreshInv, Building, Cached

\* What a page says survives a step that leaves the disk alone, and an edit.
LEMMA SaysStays ==
  ASSUME TypeInv, FreshInv, NEW p \in Page, NEW g \in File, Says(disk, edits, p, g),
         \/ UNCHANGED <<disk, edits>>
         \/ \E f \in File, x \in Content : Edit(f, x)
  PROVE  Says(disk', edits', p, g)
<1>1. CASE UNCHANGED <<disk, edits>>
  BY <1>1 DEF Says
<1>2. ASSUME NEW f \in File, NEW x \in Content, Edit(f, x) PROVE Says(disk', edits', p, g)
  <2>1. PICK t \in 0..edits + 1 :
          /\ <<g, t>> \in p.stamps
          /\ disk[g].stamp = t /\ disk[g].content # Gone =>
               \A y \in Content : <<g, y>> \in p.entries <=> y = disk[g].content /\ y \in Hit
    BY DEF Says
  <2>2. /\ edits \in Nat /\ edits' = edits + 1
        /\ disk'[g] = IF g = f THEN [content |-> x, stamp |-> IF x = Gone THEN 0 ELSE edits + 2] ELSE disk[g]
    BY <1>2 DEF Edit, TypeInv, TypeOK
  <2>3. t \in 0..edits' + 1 /\ (g = f => disk'[g].stamp # t \/ disk'[g].content = Gone)
    BY <2>1, <2>2
  <2> QED BY <2>1, <2>2, <2>3 DEF Says
<1> QED BY <1>1, <1>2

LEMMA PageStays ==
  ASSUME TypeInv, FreshInv, NEW p \in Page, NEW k \in Nat, PageOf(disk, edits, p, k),
         \/ UNCHANGED <<disk, edits>>
         \/ \E f \in File, x \in Content : Edit(f, x)
  PROVE  PageOf(disk', edits', p, k)
<1>1. Ranked(p.of)' = Ranked(p.of) /\ Ranked(p.of) \subseteq File
  BY DEF Ranked
<1> QED BY <1>1, SaysStays DEF PageOf

LEMMA PageGrows ==
  ASSUME FreshInv, NEW p \in Page, NEW r \in Page, NEW k \in File, PageOf(disk, edits, p, k),
         r.of = p.of, p.entries \subseteq r.entries, p.stamps \subseteq r.stamps,
         \A e \in r.entries : e \in p.entries \/ (e[1] = k /\ k \in Ranked(p.of)),
         k \in Ranked(p.of) => Says(disk, edits, r, k)
  PROVE  PageOf(disk, edits, r, k + 1)
<1>1. Ranked(p.of) \subseteq File /\ Ranked(r.of) = Ranked(p.of) /\ \A f \in File : f \in Nat
  BY DEF Ranked, File
<1>2. ASSUME NEW e \in r.entries PROVE e[1] \in Ranked(r.of) /\ e[1] < k + 1
  BY <1>1, <1>2 DEF PageOf
<1>3. ASSUME NEW f \in Ranked(r.of), f < k + 1 PROVE Says(disk, edits, r, f)
  <2>1. CASE f = k
    BY <1>1, <1>3, <2>1
  <2>2. CASE f # k
    <3>1. f < k
      BY <1>1, <1>3, <2>2
    <3>2. PICK t \in 0..edits + 1 :
            /\ <<f, t>> \in p.stamps
            /\ disk[f].stamp = t /\ disk[f].content # Gone =>
                 \A x \in Content : <<f, x>> \in p.entries <=> x = disk[f].content /\ x \in Hit
      BY <1>1, <1>3, <3>1 DEF PageOf, Says
    <3>3. \A x \in Content : <<f, x>> \in r.entries <=> <<f, x>> \in p.entries
      BY <2>2
    <3> QED BY <3>2, <3>3 DEF Says
  <2> QED BY <2>1, <2>2
<1> QED BY <1>2, <1>3 DEF PageOf

LEMMA NewPageOf == ASSUME NEW s \in Snapshot PROVE PageOf(disk, edits, NewPage(s), 1)
<1>1. \A f \in Ranked(s) : ~(f < 1)
  BY DEF Ranked, File
<1> QED BY <1>1 DEF PageOf, NewPage

\* The page of the client that moves.
LEMMA BuildingStep ==
  ASSUME GenInv, FreshInv, NEW c \in Client, Request(c)
  PROVE  Building(c)'
<1>0. /\ TypeOK /\ TypeInv /\ LocalsOK(c) /\ TypeInv'
  BY TypeNext DEF GenInv, TypeInv, Next
<1>1. disk' = disk /\ edits' = edits
  BY DEF Request, Begin, Get, CheckFresh, StampFile, ReadSymbol, ReadRoute, StampRoute,
         EndOfPage, CollectFuzzy, InsertPage
<1>2. \A p \in Page : \A k \in Nat : PageOf(disk, edits, p, k) => PageOf(disk', edits', p, k)
  BY <1>0, <1>1, PageStays
<1>3. ASSUME Recompute(c), UNCHANGED query, pc[c] # "idle" PROVE Building(c)'
  <2>1. /\ pinned[c] \in Snapshot /\ page'[c] = NewPage(pinned[c]) /\ at'[c] = 1
        /\ pc'[c] = Collector(c) /\ query'[c] = query[c]
    BY <1>0, <1>3 DEF Recompute, TypeOK, LocalsOK
  <2>2. PageOf(disk', edits', page'[c], at'[c])
    BY <1>2, <2>1, NewPageOf, NewPageType
  <2>3. pc'[c] = "read" => Kind[query'[c]] = "route"
    BY <2>1 DEF Collector
  <2> QED BY <2>2, <2>3 DEF Building
<1>4. ASSUME pc'[c] \notin {"stamp", "read", "insert"} PROVE Building(c)'
  BY <1>4 DEF Building
<1>5. CASE (\E q \in Query : Begin(c, q)) \/ CollectFuzzy(c) \/ InsertPage(c) \/ StampRoute(c)
  <2>1. CASE StampRoute(c)
    <3>1. Kind[query'[c]] = "route"
      BY <1>0, <2>1 DEF StampRoute, LocalsOK
    <3> QED BY <3>1 DEF Building
  <2>2. CASE ~StampRoute(c)
    <3>1. pc'[c] \in {"get", "idle"}
      BY <1>0, <1>5, <2>2 DEF Begin, CollectFuzzy, InsertPage, Reply, TypeOK
    <3> QED BY <1>4, <3>1
  <2> QED BY <2>1, <2>2
<1>6. CASE Get(c)
  <2>1. CASE Recompute(c)
    BY <1>3, <1>6, <2>1 DEF Get
  <2>2. CASE ~Recompute(c)
    <3>1. pc'[c] = "fresh"
      BY <1>0, <1>6, <2>2 DEF Get, TypeOK
    <3> QED BY <1>4, <3>1
  <2> QED BY <2>1, <2>2
<1>7. CASE CheckFresh(c)
  <2>1. CASE Recompute(c) /\ UNCHANGED query
    BY <1>3, <1>7, <2>1 DEF CheckFresh
  <2>2. CASE ~(Recompute(c) /\ UNCHANGED query)
    <3>1. pc'[c] \in {"fresh", "idle"}
      BY <1>0, <1>7, <2>2 DEF CheckFresh, Reply, TypeOK
    <3> QED BY <1>4, <3>1
  <2> QED BY <2>1, <2>2
<1>8. CASE ReadRoute(c)
  BY <1>8 DEF ReadRoute, Building
<1>9. CASE EndOfPage(c) /\ Kind[query[c]] # "route"
  <2>1. /\ pc[c] = "stamp" \/ pc[c] = "read"
        /\ pc'[c] = "insert" /\ page'[c] = page[c] /\ at'[c] = at[c] /\ query'[c] = query[c]
        /\ page[c] \in Page /\ at[c] \in Nat
    BY <1>0, <1>9 DEF EndOfPage, TypeOK, LocalsOK, Collecting
  <2>2. PageOf(disk, edits, page[c], at[c])
    BY <1>9, <2>1 DEF FreshInv, Building
  <2>3. PageOf(disk', edits', page'[c], at'[c])
    BY <1>2, <2>1, <2>2
  <2> QED BY <2>1, <2>3 DEF Building
<1>10. CASE EndOfPage(c) /\ Kind[query[c]] = "route"
  BY <1>10 DEF EndOfPage, Building
<1>11. CASE StampFile(c) /\ Kind[query[c]] # "route"
  <2>1. /\ pc[c] = "stamp" /\ at[c] \in File /\ at[c] \in Nat /\ page[c] \in Page
        /\ page'[c] = page[c] /\ query'[c] = query[c]
    BY <1>0, <1>11 DEF StampFile, TypeOK, LocalsOK, Collecting, File
  <2>2. PageOf(disk, edits, page[c], at[c]) /\ page[c].of = pinned[c]
    BY <1>11, <2>1 DEF FreshInv, Building, GenInv, Collecting
  <2>3. CASE at[c] \notin Ranked(pinned[c])
    <3>1. at'[c] = at[c] + 1 /\ pc'[c] = "stamp"
      BY <1>0, <1>11, <2>1, <2>3 DEF StampFile, TypeOK
    <3>2. PageOf(disk, edits, page[c], at[c] + 1)
      BY <2>1, <2>2, <2>3, PageGrows
    <3>3. PageOf(disk', edits', page'[c], at'[c])
      BY <1>2, <2>1, <3>1, <3>2
    <3> QED BY <3>1, <3>3 DEF Building
  <2>4. CASE at[c] \in Ranked(pinned[c])
    <3>1. at'[c] = at[c] /\ pc'[c] = "read" /\ held'[c] = Stamp(at[c])
      BY <1>0, <1>11, <2>1, <2>4 DEF StampFile, TypeOK
    <3>2. held'[c][1] = at[c] /\ held'[c][2] \in 0..edits + 1
      BY <2>1, <3>1 DEF Stamp, FreshInv
    <3>3. PageOf(disk', edits', page'[c], at'[c])
      BY <1>2, <2>1, <2>2, <3>1
    <3>4. Ranked(page'[c].of) = Ranked(page[c].of)
      BY <2>1 DEF Ranked
    <3> QED BY <1>1, <2>2, <2>4, <3>1, <3>2, <3>3, <3>4 DEF Building
  <2> QED BY <2>3, <2>4
<1>12. CASE StampFile(c) /\ Kind[query[c]] = "route"
  BY <1>12 DEF StampFile, Building
<1>13. CASE ReadSymbol(c)
  <2> DEFINE f == at[c]
             x == disk[f].content
             p == page[c]
  <2>1. /\ pc[c] = "read" /\ Kind[query[c]] # "route" /\ f \in File /\ f \in Nat /\ p \in Page
        /\ query'[c] = query[c] /\ x \in Content /\ held[c] \in File \X Stat
    BY <1>0, <1>13 DEF ReadSymbol, TypeOK, LocalsOK, Collecting, File, OnDisk
  <2>2. /\ PageOf(disk, edits, p, f) /\ f \in Ranked(p.of)
        /\ held[c][1] = f /\ held[c][2] \in 0..edits + 1 /\ held[c] = <<f, held[c][2]>>
    BY <2>1 DEF FreshInv, Building
  <2>3. \A e \in p.entries : e[1] # f
    BY <2>1, <2>2 DEF PageOf
  <2>4. ASSUME NEW r \in Page, page' = [page EXCEPT ![c] = r], at' = [at EXCEPT ![c] = @ + 1],
               pc'[c] = "stamp", PageOf(disk, edits, r, f + 1)
        PROVE  Building(c)'
    <3>1. page'[c] = r /\ at'[c] = f + 1
      BY <1>0, <2>4 DEF TypeOK
    <3>2. PageOf(disk', edits', page'[c], at'[c])
      BY <1>2, <2>1, <2>4, <3>1
    <3> QED BY <2>4, <3>2 DEF Building
  <2>5. CASE x \notin Hit
    <3> DEFINE r == [p EXCEPT !.stamps = @ \cup {held[c]}]
    <3>1. /\ page' = [page EXCEPT ![c] = r] /\ at' = [at EXCEPT ![c] = @ + 1]
          /\ pc'[c] = "stamp"
      BY <1>0, <1>13, <2>5 DEF ReadSymbol, TypeOK
    <3>2. /\ r \in Page /\ r.of = p.of /\ r.entries = p.entries
          /\ p.stamps \subseteq r.stamps /\ held[c] \in r.stamps
      BY <2>1 DEF Page
    <3>3. Says(disk, edits, r, f)
      BY <2>2, <2>3, <2>5, <3>2 DEF Says
    <3> HIDE DEF r
    <3>4. PageOf(disk, edits, r, f + 1)
      BY <2>1, <2>2, <3>2, <3>3, PageGrows
    <3> QED BY <2>4, <3>1, <3>2, <3>4
  <2>6. CASE x \in Hit /\ Fits(c, x)
    <3> DEFINE r == Show(p, f, x, held[c])
    <3>1. /\ page' = [page EXCEPT ![c] = r] /\ at' = [at EXCEPT ![c] = @ + 1]
          /\ pc'[c] = "stamp"
      BY <1>0, <1>13, <2>6 DEF ReadSymbol, TypeOK
    <3>2. r \in Page /\ r.of = p.of
      BY <2>1, ShowType
    <3>3. r.entries = p.entries \cup {<<f, x>>} /\ r.stamps = p.stamps \cup {held[c]}
      BY DEF Show
    <3> HIDE DEF r
    <3>4. Says(disk, edits, r, f)
      <4>1. \A y \in Content : <<f, y>> \in r.entries <=> y = x
        BY <2>3, <3>3
      <4>2. <<f, held[c][2]>> \in r.stamps
        BY <2>2, <3>3
      <4> QED BY <2>2, <2>6, <4>1, <4>2 DEF Says
    <3>5. PageOf(disk, edits, r, f + 1)
      BY <2>1, <2>2, <3>2, <3>3, <3>4, PageGrows
    <3> QED BY <2>4, <3>1, <3>2, <3>5
  <2>7. CASE x \in Hit /\ ~Fits(c, x)
    <3>1. page'[c] = p /\ at'[c] = f /\ pc'[c] = "insert"
      BY <1>0, <1>13, <2>7 DEF ReadSymbol, TypeOK
    <3>2. PageOf(disk', edits', page'[c], at'[c])
      BY <1>2, <2>1, <2>2, <3>1
    <3> QED BY <3>1, <3>2 DEF Building
  <2> QED BY <2>5, <2>6, <2>7
<1> QED
  BY <1>5, <1>6, <1>7, <1>8, <1>9, <1>10, <1>11, <1>12, <1>13 DEF Request

\* The pages the cache holds after a request's step.
LEMMA CachedStep ==
  ASSUME GenInv, FreshInv, NEW c \in Client, Request(c), NEW q \in Cached', Kind[q] # "route"
  PROVE  LET p == cache'.entries[q] IN p \in Page /\ PageOf(disk, edits, p, p.end)
<1>0. TypeOK /\ LocalsOK(c)
  BY DEF GenInv, TypeInv
<1>1. ASSUME q \in Cached, cache'.entries[q] = cache.entries[q]
      PROVE  cache'.entries[q] \in Page /\ PageOf(disk, edits, cache'.entries[q], cache'.entries[q].end)
  BY <1>0, <1>1 DEF FreshInv, TypeOK, Cached
<1>2. CASE Get(c)
  <2>1. cache' = cache \/ cache'.entries = Empty
    BY <1>2 DEF Get, Advance
  <2> QED BY <1>1, <2>1 DEF Cached, Empty
<1>3. CASE InsertPage(c)
  <2> DEFINE g == pinned[c].generation
             a == Advance(g)
             full == Cardinality({k \in Query : a.entries[k] # None}) >= MaxEntries
             kept == IF full /\ a.entries[query[c]] = None THEN Empty ELSE a.entries
             p == [page[c] EXCEPT !.end = at[c]]
  <2>1. /\ g \in Nat /\ query[c] \in Query /\ page[c] \in Page /\ at[c] \in 1..(NFile + 1)
        /\ pc[c] = "insert"
    BY <1>0, <1>3 DEF InsertPage, TypeOK, LocalsOK, Snapshot, Collecting
  <2>2. CASE g < cache.generation
    BY <1>1, <1>3, <2>2 DEF InsertPage, Insert, Cached
  <2>3. CASE ~(g < cache.generation)
    <3>1. cache' = [a EXCEPT !.entries = [kept EXCEPT ![query[c]] = p]]
      BY <1>3, <2>3 DEF InsertPage, Insert
    <3>2. a \in [generation : Nat, entries : [Query -> Page \cup {None}]]
      BY <1>0, <2>1, AdvanceType
    <3>3. kept \in [Query -> Page \cup {None}]
      BY <3>2 DEF Empty
    <3>4. \A k \in Query : kept[k] # None => k \in Cached /\ kept[k] = cache.entries[k]
      BY DEF Advance, Empty, Cached
    <3> HIDE DEF a, kept
    <3>5. \A k \in Query : cache'.entries[k] = IF k = query[c] THEN p ELSE kept[k]
      BY <3>1, <3>2, <3>3
    <3>6. /\ p \in Page /\ p.end = at[c] /\ p.entries = page[c].entries
          /\ p.stamps = page[c].stamps /\ p.of = page[c].of
      BY <2>1 DEF Page
    <3>7. CASE q = query[c]
      <4>1. PageOf(disk, edits, page[c], at[c])
        BY <2>1, <3>7 DEF FreshInv, Building
      <4>2. PageOf(disk, edits, p, p.end)
        BY <3>6, <4>1 DEF PageOf, Says
      <4> QED BY <3>5, <3>6, <3>7, <4>2 DEF Cached
    <3>8. CASE q # query[c]
      BY <1>1, <3>4, <3>5, <3>8 DEF Cached
    <3> QED BY <3>7, <3>8
  <2> QED BY <2>2, <2>3
<1>4. CASE ~Get(c) /\ ~InsertPage(c)
  <2>1. cache' = cache
    BY <1>4 DEF Request, Begin, CheckFresh, StampFile, ReadSymbol, ReadRoute, StampRoute,
                EndOfPage, CollectFuzzy
  <2> QED BY <1>1, <2>1 DEF Cached
<1> QED BY <1>2, <1>3, <1>4

LEMMA FreshNext == GenInv /\ FreshInv /\ [Next]_vars => FreshInv'
<1> SUFFICES ASSUME GenInv, FreshInv, [Next]_vars PROVE FreshInv'
  OBVIOUS
<1>0. TypeInv /\ TypeOK /\ edits \in Nat
  BY DEF GenInv, TypeInv, TypeOK
<1> DEFINE Still == UNCHANGED <<disk, edits>> \/ \E f \in File, x \in Content : Edit(f, x)
<1>1. ASSUME NEW d \in Client, Still, UNCHANGED <<pc[d], query[d], page[d], at[d], held[d]>>
      PROVE  Building(d)'
  <2> SUFFICES ASSUME pc[d] \in {"stamp", "read", "insert"}, Kind[query[d]] # "route"
               PROVE  /\ PageOf(disk', edits', page'[d], at'[d])
                      /\ pc[d] = "read" => /\ at'[d] \in Ranked(page'[d].of)
                                           /\ held'[d][1] = at'[d] /\ held'[d][2] \in 0..edits' + 1
    BY <1>1 DEF Building, Ranked
  <2>1. /\ PageOf(disk, edits, page[d], at[d]) /\ page[d] \in Page /\ at[d] \in Nat
        /\ pc[d] = "read" => /\ at[d] \in Ranked(page[d].of)
                             /\ held[d][1] = at[d] /\ held[d][2] \in 0..edits + 1
    BY <1>0 DEF FreshInv, Building, TypeInv, TypeOK, LocalsOK, Collecting
  <2>2. edits' = edits \/ edits' = edits + 1
    BY <1>1 DEF Edit
  <2>3. 0..(edits + 1) \subseteq 0..(edits' + 1)
    BY <1>0, <2>2
  <2>4. \A p \in Page : \A k \in Nat : PageOf(disk, edits, p, k) => PageOf(disk', edits', p, k)
    BY <1>0, <1>1, PageStays
  <2>5. PageOf(disk', edits', page'[d], at'[d])
    BY <1>1, <2>1, <2>4
  <2> QED BY <1>1, <2>1, <2>3, <2>5
<1>2. ASSUME NEW q \in Cached, Kind[q] # "route", Still, cache' = cache
      PROVE  PageOf(disk', edits', cache'.entries[q], cache'.entries[q].end)
  <2>1. /\ cache.entries[q] \in Page /\ cache.entries[q].end \in Nat
        /\ PageOf(disk, edits, cache.entries[q], cache.entries[q].end)
    BY <1>0, <1>2 DEF FreshInv, Cached, TypeOK, Page
  <2>2. \A p \in Page : \A k \in Nat : PageOf(disk, edits, p, k) => PageOf(disk', edits', p, k)
    BY <1>0, <1>2, PageStays
  <2>3. PageOf(disk', edits', cache'.entries[q], cache'.entries[q].end)
    BY <1>2, <2>1, <2>2
  <2> QED BY <1>2, <2>3
<1>3. ASSUME NEW f \in File, NEW x \in Content, Edit(f, x) PROVE FreshInv'
  <2>1. Still /\ cache' = cache /\ UNCHANGED <<pc, query, page, at, held>>
    BY <1>3 DEF Edit, client
  <2>2. \A g \in File : disk'[g].stamp \in 0..edits' + 1
    <3>1. /\ edits' = edits + 1
          /\ \A g \in File : disk'[g] = IF g = f THEN [content |-> x, stamp |-> IF x = Gone THEN 0 ELSE edits + 2]
                                        ELSE disk[g]
      BY <1>0, <1>3 DEF Edit, TypeOK
    <3> QED BY <1>0, <3>1 DEF FreshInv
  <2>3. \A d \in Client : Building(d)'
    BY <1>1, <2>1
  <2>4. Cached' = Cached
    BY <2>1 DEF Cached
  <2>5. \A q \in Cached' : Kind[q] # "route" =>
         PageOf(disk', edits', cache'.entries[q], cache'.entries[q].end)
    BY <1>2, <2>1, <2>4
  <2> QED BY <2>2, <2>3, <2>5 DEF FreshInv
<1>4. CASE (\E F \in SUBSET File : InstallSnapshot(F)) \/ UNCHANGED vars
  <2>1. UNCHANGED <<disk, edits, cache, pc, query, page, at, held>>
    BY <1>4 DEF InstallSnapshot, client, vars
  <2>2. \A d \in Client : Building(d)'
    BY <1>1, <2>1
  <2>3. Cached' = Cached
    BY <2>1 DEF Cached
  <2>4. \A q \in Cached' : Kind[q] # "route" =>
         PageOf(disk', edits', cache'.entries[q], cache'.entries[q].end)
    BY <1>2, <2>1, <2>3
  <2> QED BY <2>1, <2>2, <2>4 DEF FreshInv
<1>5. ASSUME NEW c \in Client, Request(c) PROVE FreshInv'
  <2>1. disk' = disk /\ edits' = edits
    BY <1>5 DEF Request, Begin, Get, CheckFresh, StampFile, ReadSymbol, ReadRoute, StampRoute,
                EndOfPage, CollectFuzzy, InsertPage
  <2>2. ASSUME NEW d \in Client PROVE Building(d)'
    <3>1. CASE d = c
      BY <1>5, <3>1, BuildingStep
    <3>2. CASE d # c
      BY <1>0, <1>1, <1>5, <2>1, <3>2, Frame
    <3> QED BY <3>1, <3>2
  <2>3. \A p \in Page : \A k \in Nat : PageOf(disk, edits, p, k) => PageOf(disk', edits', p, k)
    BY <1>0, <2>1, PageStays
  <2>4. ASSUME NEW q \in Cached', Kind[q] # "route"
        PROVE  PageOf(disk', edits', cache'.entries[q], cache'.entries[q].end)
    <3>1. /\ cache'.entries[q] \in Page /\ cache'.entries[q].end \in Nat
          /\ PageOf(disk, edits, cache'.entries[q], cache'.entries[q].end)
      BY <1>5, <2>4, CachedStep DEF Page
    <3> QED BY <2>3, <3>1
  <2> QED BY <2>1, <2>2, <2>4 DEF FreshInv
<1> QED
  BY <1>3, <1>4, <1>5 DEF Next, Environment

\* CachedSearch::is_fresh, for any number of clients, files, keys and edits: a
\* cached symbol or fuzzy page whose stamps match the disk says of every file
\* before its next_offset that is still there what would be said of it now, however the requests
\* that computed it interleaved with the editors and the reloads.
THEOREM FreshPagesAlwaysExact == Spec => []FreshPageExact
<1> QED
  BY FreshImplies, GenInit, GenNext, FreshInit, FreshNext, PTL DEF Spec
=============================================================================
