---------------------------- MODULE SearchCache ----------------------------
(***************************************************************************)
(* smart_search and its result cache.  Clients (tool calls on several      *)
(* threads) answer a query from the snapshot they loaded and from the      *)
(* files on disk, while users edit the files and reloads install newer     *)
(* snapshots.  A page is cached under the generation of its snapshot with  *)
(* the stamps (mtime, size) of the files it shows, and a hit is served     *)
(* once every stamp has been compared with the disk again.                 *)
(*                                                                         *)
(* The files are numbered by their rank in the answers.  What a page says  *)
(* of a file is the content that was read; its snippet, its header and its *)
(* notes are functions of that content, the query and the snapshot.        *)
(***************************************************************************)
EXTENDS Naturals, FiniteSets

CONSTANTS
  NFile,       \* files are 1..NFile, in ranking order
  Hit,         \* contents that match the queries
  Other,       \* contents that do not
  Gone,        \* the content of an absent file
  Size,        \* Size[x]: rendered size of an entry showing content x
  Budget,      \* what a page may hold
  Client,
  Query,       \* cache keys
  Kind,        \* Kind[q]: "symbol", "fuzzy" or "route"
  None,        \* no page, no request
  MaxEntries,  \* SearchCache::MAX_ENTRIES
  MaxEdits, MaxInstalls \* bounds of the model

File == 1..NFile
Content == Hit \cup Other \cup {Gone}

ASSUME SearchAssumption ==
  /\ NFile \in Nat
  /\ IsFiniteSet(Query)
  /\ \A x \in Content : Size[x] \in Nat
  /\ Budget \in Nat
  /\ Gone \notin Hit \cup Other
  /\ Kind \in [Query -> {"symbol", "fuzzy", "route"}]
  /\ MaxEntries \in Nat \ {0}
  /\ MaxEdits \in Nat /\ MaxInstalls \in Nat

VARIABLES
  disk,      \* disk[f]: [content, stamp]
  edits,
  snapshot,  \* [generation, indexed]: the content each file was indexed with
  cache,     \* Inner: [generation, entries]
  pc, query, pinned, page, at, held \* locals of each client

client == <<pc, query, pinned, page, at, held>>
vars == <<disk, edits, snapshot, cache, client>>

\* file_stamp: (mtime, size) as one number, 0 for a file that is not there.
Stat == 0..(MaxEdits + 1)
OnDisk == [content : Content, stamp : Stat]
Snapshot == [generation : Nat, indexed : [File -> Content]]
\* A rendered page: what it shows of which file, the size so far, the stamps of
\* the files it took in, SearchPage::end (the first file left to the next page)
\* and, for the properties, the snapshot it was ranked by.
Page == [entries : SUBSET (File \X Content), bytes : Nat,
         stamps : SUBSET (File \X Stat), end : 1..(NFile + 1), of : Snapshot]
NewPage(s) == [entries |-> {}, bytes |-> 0, stamps |-> {}, end |-> 1, of |-> s]

\* search_symbols and find_routes: the files whose indexed facts match.
Ranked(s) == {f \in File : s.indexed[f] \in Hit}
Stamp(f) == <<f, disk[f].stamp>>

\* The installed snapshot may lag behind the disk: edits still in the debounce
\* window.
Init ==
  /\ disk \in [File -> [content : Hit \cup Other, stamp : {1}]]
  /\ edits = 0
  /\ snapshot \in [generation : {1}, indexed : [File -> Hit \cup Other]]
  /\ cache = [generation |-> 0, entries |-> [q \in Query |-> None]]
  /\ pc = [c \in Client |-> "idle"]
  /\ query = [c \in Client |-> None]
  /\ pinned = [c \in Client |-> None]
  /\ page = [c \in Client |-> None]
  /\ at = [c \in Client |-> 1]
  /\ held = [c \in Client |-> None]

-----------------------------------------------------------------------------
(* The environment: editors and reloads.                                   *)

\* Every write gives a file a stamp it never had; an absent file has always the
\* same.
Edit(f, x) ==
  /\ edits < MaxEdits
  /\ edits' = edits + 1
  /\ disk' = [disk EXCEPT ![f] = [content |-> x, stamp |-> IF x = Gone THEN 0 ELSE edits + 2]]
  /\ UNCHANGED <<snapshot, cache, client>>

\* AppState::install_snapshot, by a reload that re-read the files of F; the
\* facts of the others (an edit still in the debounce window, a parse that
\* failed) stay.  reload_lock serialises the installers.
InstallSnapshot(F) ==
  /\ snapshot.generation <= MaxInstalls
  /\ snapshot' = [generation |-> snapshot.generation + 1,
                  indexed |-> [f \in File |-> IF f \in F THEN disk[f].content
                                              ELSE snapshot.indexed[f]]]
  /\ UNCHANGED <<disk, edits, cache, client>>

-----------------------------------------------------------------------------
(* SearchCache::get and insert, each under the cache's mutex.              *)

Cached == {q \in Query : cache.entries[q] # None}
Empty == [q \in Query |-> None]

\* Mutant: any other generation resets the cache.
AdvanceEither(g) == IF g # cache.generation THEN [generation |-> g, entries |-> Empty] ELSE cache

\* The first caller that brings a newer generation drops every entry.
Advance(g) == IF g > cache.generation THEN [generation |-> g, entries |-> Empty] ELSE cache

\* Mutant: a page of an older snapshot is not refused.
InsertLate(g, q, p) ==
  LET c == Advance(g)
      full == Cardinality({k \in Query : c.entries[k] # None}) >= MaxEntries
      kept == IF full /\ c.entries[q] = None THEN Empty ELSE c.entries
  IN [c EXCEPT !.entries = [kept EXCEPT ![q] = p]]

\* At the bound the whole map is dropped, unless the key is replaced.
Insert(g, q, p) ==
  IF g < cache.generation THEN cache
  ELSE LET c == Advance(g)
           full == Cardinality({k \in Query : c.entries[k] # None}) >= MaxEntries
           kept == IF full /\ c.entries[q] = None THEN Empty ELSE c.entries
       IN [c EXCEPT !.entries = [kept EXCEPT ![q] = p]]

-----------------------------------------------------------------------------
(* SmartSearchTool::run.                                                   *)

\* The request loads the snapshot and keeps it to the end.
Begin(c, q) ==
  /\ pc[c] = "idle"
  /\ pc' = [pc EXCEPT ![c] = "get"]
  /\ query' = [query EXCEPT ![c] = q]
  /\ pinned' = [pinned EXCEPT ![c] = snapshot]
  /\ UNCHANGED <<disk, edits, snapshot, cache, page, at, held>>

\* The answer is sent and the locals of the request are gone.
Reply(c) ==
  /\ pc' = [pc EXCEPT ![c] = "idle"]
  /\ query' = [query EXCEPT ![c] = None]
  /\ pinned' = [pinned EXCEPT ![c] = None]
  /\ page' = [page EXCEPT ![c] = None]
  /\ at' = [at EXCEPT ![c] = 1]
  /\ held' = [held EXCEPT ![c] = None]

\* Where the request goes when it must compute the page itself.
Collector(c) ==
  IF Kind[query[c]] = "fuzzy" /\ Ranked(pinned[c]) = {} THEN "fuzzy"
  ELSE IF Kind[query[c]] = "route" THEN "read" ELSE "stamp"

Recompute(c) ==
  /\ pc' = [pc EXCEPT ![c] = Collector(c)]
  /\ page' = [page EXCEPT ![c] = NewPage(pinned[c])]
  /\ at' = [at EXCEPT ![c] = 1]

Get(c) ==
  /\ pc[c] = "get"
  /\ cache' = Advance(pinned[c].generation)
  /\ \/ /\ pinned[c].generation = cache.generation
        /\ query[c] \in Cached
        /\ page' = [page EXCEPT ![c] = cache.entries[query[c]]]
        /\ pc' = [pc EXCEPT ![c] = "fresh"]
        /\ at' = [at EXCEPT ![c] = 1]
     \/ /\ ~(pinned[c].generation = cache.generation /\ query[c] \in Cached)
        /\ Recompute(c)
  /\ UNCHANGED <<disk, edits, snapshot, query, pinned, held>>

Stamped(c) == {f \in File : \E t \in Stat : <<f, t>> \in page[c].stamps}

\* CachedSearch::is_fresh stats one file after the other, up to the first that
\* differs.
CheckFresh(c) ==
  /\ pc[c] = "fresh"
  /\ \/ /\ at[c] <= NFile
        /\ at[c] \in Stamped(c) => Stamp(at[c]) \in page[c].stamps
        /\ at' = [at EXCEPT ![c] = @ + 1]
        /\ UNCHANGED <<pc, query, pinned, page, held>>
     \/ /\ at[c] <= NFile
        /\ at[c] \in Stamped(c) /\ Stamp(at[c]) \notin page[c].stamps
        /\ Recompute(c)
        /\ UNCHANGED <<query, pinned, held>>
     \/ /\ at[c] = NFile + 1
        /\ Reply(c)
  /\ UNCHANGED <<disk, edits, snapshot, cache>>

\* Mutant: one file too many is looked at.
StampFileOver(c) ==
  /\ pc[c] = "stamp" /\ at[c] <= NFile + 1
  /\ \/ /\ at[c] \notin Ranked(pinned[c])
        /\ at' = [at EXCEPT ![c] = @ + 1]
        /\ UNCHANGED <<pc, held>>
     \/ /\ at[c] \in Ranked(pinned[c])
        /\ held' = [held EXCEPT ![c] = Stamp(at[c])]
        /\ pc' = [pc EXCEPT ![c] = "read"]
        /\ UNCHANGED at
  /\ UNCHANGED <<disk, edits, snapshot, cache, query, pinned, page>>

\* collect_indexed_page: stamp, then read, then see whether the entry fits.
StampFile(c) ==
  /\ pc[c] = "stamp" /\ at[c] <= NFile
  /\ \/ /\ at[c] \notin Ranked(pinned[c])
        /\ at' = [at EXCEPT ![c] = @ + 1]
        /\ UNCHANGED <<pc, held>>
     \/ /\ at[c] \in Ranked(pinned[c])
        /\ held' = [held EXCEPT ![c] = Stamp(at[c])]
        /\ pc' = [pc EXCEPT ![c] = "read"]
        /\ UNCHANGED at
  /\ UNCHANGED <<disk, edits, snapshot, cache, query, pinned, page>>

\* A result that does not fit ends the page, unless it is the first.
Fits(c, x) == page[c].entries = {} \/ page[c].bytes + Size[x] <= Budget
Show(p, f, x, stamp) ==
  [entries |-> p.entries \cup {<<f, x>>}, bytes |-> p.bytes + Size[x],
   stamps |-> p.stamps \cup {stamp}, end |-> p.end, of |-> p.of]

\* Mutant: a file that no longer matches is passed over without its stamp.
ReadSymbolUnstamped(c) ==
  LET f == at[c]
      x == disk[f].content
  IN /\ pc[c] = "read" /\ Kind[query[c]] # "route"
     /\ \/ /\ x \notin Hit
           /\ at' = [at EXCEPT ![c] = @ + 1]
           /\ pc' = [pc EXCEPT ![c] = "stamp"]
           /\ UNCHANGED page
        \/ /\ x \in Hit /\ Fits(c, x)
           /\ page' = [page EXCEPT ![c] = Show(@, f, x, held[c])]
           /\ at' = [at EXCEPT ![c] = @ + 1]
           /\ pc' = [pc EXCEPT ![c] = "stamp"]
        \/ /\ x \in Hit /\ ~Fits(c, x)
           /\ pc' = [pc EXCEPT ![c] = "insert"]
           /\ UNCHANGED <<page, at>>
     /\ UNCHANGED <<disk, edits, snapshot, cache, query, pinned, held>>

\* search_file answers None for a file that is gone or no longer matches: it
\* is stamped and passed over.
ReadSymbol(c) ==
  LET f == at[c]
      x == disk[f].content
  IN /\ pc[c] = "read" /\ Kind[query[c]] # "route"
     /\ \/ /\ x \notin Hit
           /\ page' = [page EXCEPT ![c].stamps = @ \cup {held[c]}]
           /\ at' = [at EXCEPT ![c] = @ + 1]
           /\ pc' = [pc EXCEPT ![c] = "stamp"]
        \/ /\ x \in Hit /\ Fits(c, x)
           /\ page' = [page EXCEPT ![c] = Show(@, f, x, held[c])]
           /\ at' = [at EXCEPT ![c] = @ + 1]
           /\ pc' = [pc EXCEPT ![c] = "stamp"]
        \/ /\ x \in Hit /\ ~Fits(c, x)
           /\ pc' = [pc EXCEPT ![c] = "insert"]
           /\ UNCHANGED <<page, at>>
     /\ UNCHANGED <<disk, edits, snapshot, cache, query, pinned, held>>

\* collect_route_page reads first: the route line stands alone for a file that
\* is gone.
ReadRoute(c) ==
  LET f == at[c]
  IN /\ pc[c] = "read" /\ Kind[query[c]] = "route" /\ f <= NFile
     /\ \/ /\ f \notin Ranked(pinned[c])
           /\ at' = [at EXCEPT ![c] = @ + 1]
           /\ UNCHANGED <<pc, held>>
        \/ /\ f \in Ranked(pinned[c]) /\ Fits(c, disk[f].content)
           /\ held' = [held EXCEPT ![c] = <<f, disk[f].content>>]
           /\ pc' = [pc EXCEPT ![c] = "stampRoute"]
           /\ UNCHANGED at
        \/ /\ f \in Ranked(pinned[c]) /\ ~Fits(c, disk[f].content)
           /\ pc' = [pc EXCEPT ![c] = "insert"]
           /\ UNCHANGED <<at, held>>
     /\ UNCHANGED <<disk, edits, snapshot, cache, query, pinned, page>>

\* ... and stamps the file once its entry has been accepted.
StampRoute(c) ==
  /\ pc[c] = "stampRoute"
  /\ page' = [page EXCEPT ![c] = Show(@, at[c], held[c][2], Stamp(at[c]))]
  /\ at' = [at EXCEPT ![c] = @ + 1]
  /\ pc' = [pc EXCEPT ![c] = "read"]
  /\ UNCHANGED <<disk, edits, snapshot, cache, query, pinned, held>>

EndOfPage(c) ==
  /\ pc[c] \in {"stamp", "read"} /\ at[c] = NFile + 1
  /\ pc' = [pc EXCEPT ![c] = "insert"]
  /\ UNCHANGED <<disk, edits, snapshot, cache, query, pinned, page, at, held>>

\* collect_fuzzy_page scans the disk and its page is never cached.
CollectFuzzy(c) ==
  /\ pc[c] = "fuzzy"
  /\ Reply(c)
  /\ UNCHANGED <<disk, edits, snapshot, cache>>

InsertPage(c) ==
  /\ pc[c] = "insert"
  /\ cache' = Insert(pinned[c].generation, query[c], [page[c] EXCEPT !.end = at[c]])
  /\ Reply(c)
  /\ UNCHANGED <<disk, edits, snapshot>>

-----------------------------------------------------------------------------
Environment == (\E f \in File, x \in Content : Edit(f, x)) \/ (\E F \in SUBSET File : InstallSnapshot(F))
Request(c) ==
  \/ \E q \in Query : Begin(c, q)
  \/ Get(c) \/ CheckFresh(c)
  \/ StampFile(c) \/ ReadSymbol(c) \/ ReadRoute(c) \/ StampRoute(c)
  \/ EndOfPage(c) \/ CollectFuzzy(c) \/ InsertPage(c)

Next == Environment \/ \E c \in Client : Request(c)
Spec == Init /\ [][Next]_vars

-----------------------------------------------------------------------------
(* Properties.                                                             *)

\* Every variable holds a value of its kind (search_cache.rs, state.rs).
TypeOK ==
  /\ disk \in [File -> OnDisk] /\ edits \in 0..MaxEdits
  /\ snapshot \in Snapshot
  /\ cache \in [generation : Nat, entries : [Query -> Page \cup {None}]]
  /\ pc \in [Client -> {"idle", "get", "fresh", "stamp", "read", "stampRoute", "fuzzy", "insert"}]
  /\ query \in [Client -> Query \cup {None}] /\ pinned \in [Client -> Snapshot \cup {None}]
  /\ page \in [Client -> Page \cup {None}] /\ at \in [Client -> 1..(NFile + 1)]
  /\ held \in [Client -> (File \X Stat) \cup (File \X Content) \cup {None}]

\* SearchCache: a page is only ever served against the generation it was
\* computed from, and the cache never runs ahead of the installed snapshot.
GenerationSound ==
  /\ cache.generation <= snapshot.generation
  /\ \A q \in Cached : cache.entries[q].of.generation = cache.generation
  /\ \A c \in Client : pc[c] = "fresh" => page[c].of = pinned[c]

\* The map never outgrows MAX_ENTRIES, whatever order the inserts come in.
CacheBounded == Cardinality(Cached) <= MaxEntries

\* A late insert or lookup from an older snapshot never takes the cache back.
CacheNeverGoesBack == [][cache'.generation >= cache.generation]_cache

\* CachedSearch::is_fresh: a cached page whose stamps all match the disk says of
\* every file before its next_offset that is still there what would be said of it
\* now, no more and no less.  (The file at next_offset was read too, but its stamp
\* is popped with its entry.  A file that was read between two deletions has the
\* stamp of the first.  A route page is stamped after its files were read.)
FreshPageExact ==
  \A q \in Cached : Kind[q] # "route" =>
    LET p == cache.entries[q]
        matching == {f \in Ranked(p.of) : f < p.end /\ disk[f].content \in Hit}
    IN (\A s \in p.stamps : s = Stamp(s[1])) =>
         {e \in p.entries : disk[e[1]].content # Gone}
           = {<<f, disk[f].content>> : f \in matching}
=============================================================================
