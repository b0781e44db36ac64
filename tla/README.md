# MeshMCP: specifications, model checks and proofs

MeshMCP (`src/crates/`) indexes a workspace of source repositories into a
contract graph and answers questions about it over the Model Context Protocol.
A daemon (`meshd`) keeps one in-memory index per workspace, follows the file
system and the config file, and serves any number of clients; the same engine
also runs without the daemon inside `mesh-mcp`.

This directory holds TLA+ models of that engine, from the readers that turn a
file into facts to the daemon that serves the answers, the TLC configurations
that check them on small instances, and TLAPS proofs of the main invariants for
every size of instance.

    tlc -workers 2 -config Indexer.cfg MCIndexer      # one run
    tlapm Indexer_proofs.tla                          # one module of proofs

`PROJECT.json` maps the definitions to the source lines they model and lists the
runs, the hazards and the theorems. Where one function of the code is split into
several definitions, the entry with the function's lines stands for them.

## 1. Inventory

### The parts, their state, and how they interact

| Part | State | Operations | Talks to |
|---|---|---|---|
| Application state (`mesh-core/state.rs`) | config, roots, the snapshot behind an `ArcSwap` with its generation, the VFS, `reload_pending`, `pending_reload_paths`, `reload_lock`, the search cache, the alias digests | `new`, `snapshot`, `install_snapshot`, `adopt_index_of`, `open_index_cache` | everything below |
| Workspace indexer (`mesh-server/indexer.rs`, `mesh-core/vfs.rs`, `health.rs`) | signatures `(mtime, size, hash)` per file, remembered refusals, the rejected list | boot scan (`build_snapshot`), full differential `reload`, targeted `reload_paths`, `apply_incremental`, `run_scan_pass`, `process_file` | disk, application state |
| File watcher and scheduler (`mesh-core/watcher.rs`, `rescan.rs`) | the watcher thread, the accumulator, the coalescing flag, a small background pool | `spawn`, `LoopCtx::run/classify/observe/apply`, `schedule_reload` | notify events, indexer |
| Git gate (`mesh-core/watcher/git.rs`) | last `HEAD` per Git directory, the open hold, the orphan-lock trackers | `probe`, `lock_is_live`, `GitGate::step` | watcher loop, git's files, process table |
| Search (`mesh-core/search_cache.rs`, `tools/smart_search.rs`) | cached pages of one generation, each with the stamps of the files it read | `get`, `insert`, `is_fresh`, the symbol, route and fuzzy page collectors | snapshot, disk |
| Workspace host (`mesh-daemon/host.rs`, `reload_kind.rs`) | the serving `AppState`, the book (served hash, refused hash, last error, watcher token), `reloading`, `gate`, the record for `doctor` | `check_for_change`, `observe`, `reload_guarded`, `reload_if_changed`, `close_reload_gap`, `publish_status`; the two start tasks of `meshd` | config file, indexer, watcher |
| Daemon lifecycle (`mesh-daemon/main.rs`, `server.rs`, `idle.rs`, `mesh-core/socket.rs`) | the socket file, client counter, cancellation token | bind, accept, idle watchdog, startup grace, shutdown | clients, other daemons |
| Protocol and proxy (`mesh-server/framing.rs`, `protocol.rs`, `main.rs`) | per-connection buffers, the daemon connection | line framing, JSON-RPC classification, spawning and reconnecting to the daemon | daemon |
| Persistent index cache (`mesh-core/index_cache.rs`) | an on-disk store with access times and a quota | `get`, `put_batch`, eviction, versioning | several processes |
| Audit log (`mesh-core/audit.rs`, `tools/mod.rs`) | a SQLite table of calls chained by hashes, a table of latencies | open and migrate, record a call, record its latency, `verify_db` | several processes, of several versions |
| Contract graph (`mesh-core/contracts.rs`, `routes.rs`) | nodes, facts and edges by file, indices by name, package and topic, topic hubs | full build, `patch_files`, `reconcile_edges`; dependents, gRPC traces, impact walk and matrix, route questions | indexer, tools |
| Properties and YAML (`properties.rs`, `yaml_stream.rs`) | property registry | placeholder resolution with cycles and budgets, anchor budgets | indexer |
| Crawler, path jail, root guard (`crawler.rs`, `security.rs`, `root_guard.rs`) | none | crawl with exclusions, attribution to the most specific root, confinement | indexer, tools |
| Parsers (`mesh-parsers`) | thread-local parsers, the memos of alias configs and of mounted prefixes | guards, one extractor per language, framework detection, component files, API documents, wire diff, decapitation | indexer, search, `mesh-mcp` checks |
| Topology (`mesh-parsers/topology.rs`, `tools/visualize_mesh.rs`) | none | `aggregate`, `limit`, `shrink` | contract graph |
| Tools and command line (`mesh-server/tools`, `cli`) | none | dispatch, output cap, reports, file generation | all |

### What is hard

* **Files change while they are scanned.** A file is statted, its metadata
  taken, then read, on a pool thread, while an editor writes it. What is
  remembered about it must never hide the edit.
* **Two pieces of state for one fact.** The accumulator and the coalescing
  flag; the stored state and the book; the cache's generation and its entries;
  the hold and the note shown to clients.
* **Hand-overs with a gap.** The boot scan ends before the watches are live;
  an index is adopted before the new watcher starts; a deletion is classified
  before the reload lock is taken.
* **Failures in the middle.** A parse that fails twice, a reload that panics, a
  git that was killed and left its lock, a watcher that cannot start.
* **Things that must happen.** A changed path is reloaded even if a rebase
  stays open for ever; a config left in place is served; a daemon nobody uses
  ends, and a client that asks is served.
* **Files shared by processes.** Two daemons find one stale socket; several
  processes, some of an older version, migrate and append to one audit database
  and evict from one cache.
* **Long sequences of legal calls.** A graph patched many times must be the
  graph of a rebuild; a schema revised step by step must stay readable.
* **The same question asked of two pieces of code.** Who calls an RPC, which
  handler serves a request, what an overview and a zoom of one service draw.
* **Names.** A topic is a constant, shadowed, imported, joined, or built by a
  class; the reader must take the one the line means or none.

`PROJECT.json` lists these as hazards, each at its line, with the properties
that would catch them going wrong.

### What makes each part correct

* Indexer: the stat caches never lie (`StatSound`), no path is stranded
  (`PendingOwned`), reloads never go back in time (`FactsNeverRegress`), at rest
  every file is indexed as a rebuild would or visibly listed (`QuietVisible`,
  `RejectedExact`), and rest is reached (`Converges`).
* Search: a page is served only for the snapshot it was ranked by
  (`GenerationSound`), a page that looks fresh says of its
  files what they say now (`FreshPageExact`), the
  cache never goes back (`CacheNeverGoesBack`) and is bounded (`CacheBounded`,
  proved).
* Git gate: no path and no moved `HEAD` is lost (`NoPathLost`, `NoRefLost`,
  `HeadNotForgotten`), a running git is seen (`LiveGitSeen`), the note is exact
  (`NoteExact`), nothing is held for ever (`PathsReleased`).
* Host: one reload at a time (`OneReload`), the served index belongs to its
  config (`ServedUnderOwnConfig`) and misses no edit (`NoEditLost`), the book and
  doctor's record describe what serves (`BookDescribesServed`, `StatusSettles`),
  no watcher is left behind (`NoStrayWatcher`), configs are followed
  (`ConfigFollowed`).
* Audit log: an undamaged chain verifies (`ChainVerifies`), a change is found exactly
  if a hash or a signature covers what was changed (`DamageFound`), `verify_db` says
  that of the columns it selected (`AnswerExact`) and raises no other false alarm than
  that of one window (`NoFalseAlarm`); every answered call has its one row with its
  outcome and its own latency (`AnswersAudited`, `LatencyOfItsCall`), and an open
  logger finds the columns it writes (`MigratedWhenReady`).
* Daemon and proxy: no answer is lost at an orderly end and no orderly end is
  reported as a loss (`Drained`, `NoFalseLoss`), the watchdog spares sessions
  (`IdleSparesSessions`), an unused daemon ends (`NoZombie`), every client is
  served and let go (`EverySessionServed`, `SessionEnds`).
* Index cache: it is transparent (`Transparent`), its two tables agree and the
  quota holds at rest (`AccessHasPayload`, `LiveBounded`), rows leave only by an
  eviction of the least recently used that takes no more than it must
  (`LayoutNeverRemade`, `EvictsOldest`, `EvictsNoMoreThanNeeded`).
* Contract graph: it holds what its files say and no more, each index lists its
  nodes and each topic has one hub (`GraphFollowsFiles`), caps and home
  repositories are kept (`GraphExact`), what is derived depends on the facts and not on the reloads
  before (`DerivationsConverge`), and the tools agree (`AnswersAgree`,
  `RoutesAnswered`, `DiagramFaithful`).
* Readers: facts are inside their file, sit at the declaration around them and
  say what the line means, with the exceptions the properties name
  (`EventsAreTheFiles`, `PlacesAreTheFiles`), the memos of
  aliases that parallel readers share do not change answers (`AliasMemoAgrees`),
  and of accepted schema revisions it is known what they add up to
  (`SchemaStepsSafe`).
* The index as a whole implements the promise of `FollowedIndex`: it is made of
  readings of the files, none older than the one it replaces (`FollowsFiles`).

## 2. The modules

Every module names its definitions after the code. A definition marked
"Mutant" in a comment is a plausible bug of the definition that follows it and
is used by no specification; it shows that a property can fail.

### `Indexer` (with `MCIndexer`, `Indexer_proofs`)

One `AppState`: its disk, the watcher's `schedule_reload`, the pool's threads
and the thread that boots it.

| Model | Code |
|---|---|
| `disk[p] = [content, stat, ver]` | a file; `stat` stands for (mtime, size); `ver`, the number of the edit, serves the properties only |
| `events`, `caller`, `pending`, `reloadPending` | the debouncer's batch, the watcher thread inside `schedule_reload`, `pending_reload_paths`, `reload_pending` |
| `lock` | `reload_lock` |
| `sig`, `memo`, `digest` | `DifferentialVfs.signatures` and `.rejected`, `alias_digests` |
| `facts`, `rejected`, `generation` | the snapshot: facts by file, `health.rejected`, generation |
| `pc`, `todo`, `gone`, `cand`, `forced`, `stat0`, `meta`, `got`, `out` | locals of each thread |
| `AppendPaths`, `SwapFlag`, `StartJob`, `DrainPaths` | the four atomic steps of `schedule_reload` and its job |
| `FallBack`, `ResolvePaths` | `reload_paths`: the fall-backs to a full reload; each path sorted into candidate or deleted, before the lock |
| `LockReload`, `Crawl` | `reload_with` |
| `Filter`, `AliasScripts`, `ApplyIncremental` | `apply_incremental`, split where it touches the disk |
| `ScanStat`, `ScanMeta`, `ScanRead`, `RetryMeta`, `RetryRead` | `run_scan_pass` and `process_file`, one step per system call |
| `BootCrawl`, `BuildSnapshot`, `StartWatcher` | `ingest_blocking`, `build_snapshot_from_files`, `start_watcher_blocking` |

A step of the scan serves all files of the pass at once. The calls for two
different files commute, with each other and with edits of the other file, and
the pass publishes nothing until it ends, so every interleaving of the parallel
scan is equivalent to one in which each kind of call is made for all files
together. Contents are three classes (accepted, refused by size before the
read, refused by a lexical guard after it); a parse of an accepted content may
fail in the passes `ParseFails` names.

### `SearchCache` (with `MCSearchCache`, `SearchCache_proofs`)

Concurrent `smart_search` calls against edits and `install_snapshot`. A query
pins a snapshot (`Begin`), asks the cache (`Get`), checks the stamps of a hit
(`CheckFresh`) or collects a page file by file: `StampFile` then `ReadSymbol`
for symbol pages, `ReadRoute` then `StampRoute` for route pages (the code's own
order), `CollectFuzzy` for pages that are never cached; `Fits` and `Show` are
the byte budget, `InsertPage` the insertion with `Insert`'s generation check and
eviction. `Advance` is the part of `get` and `insert` that clears an older
generation. What a page shows is the set of (file, content read). A write gives a
file a stamp it never had; an absent file has always the same, as in `file_stamp`.

### `GitGate` (with `GitGate_proofs`)

The watcher thread: `Receive` takes any subset of the queued events as a batch
(the debouncer promises no composition), `TimeOut` is the wait that ended,
`ProbeLock` and `ProbeHead` are `LoopCtx::observe` with `LockTracker` in its code
order, `Step` is `GitGate::step` with the part of `apply` that acts on its
answer (`Pass`, `OpenHold`, `KeepHolding`, `Flush`), `Stop` the end of the thread.
Git is the environment: it takes and releases `index.lock`, is killed, moves
`HEAD`, opens and closes a rebase. `dirty` and `toldHead` record what the scheduler
has not been given yet. Time is counted in ticks; elapsed times are kept only up
to the threshold they are compared with, and the loop makes one turn per tick
because it waits at most `GIT_HOLD_TICK` while it holds.

### `WorkspaceHost` (with `MCWorkspaceHost`, `WorkspaceHost_proofs`)

The daemon's host. Requests run `CheckRead`, `CheckObserve`, `CheckPublish`,
`CheckSwap`; the one that finds `reloading` clear starts the reload, whose steps
(`ReloadRead` ... `ReloadEnd`) are cut wherever another thread can see the
difference: the read of the config, the book's mutex, the ingestion or adoption
of an index, the start of the watcher, the closing reload, the store, the book,
the cancellation, the publication. `ReloadPanic` and `ReloadReread` are
`reload_guarded`. `Ingest`, `StartWatcher`, `CloseBootGap`, `PublishFirst` are the
tasks `meshd` starts with. A config is a model value with two projections,
`index_inputs` and the custom patterns, which is all `classify` looks at. An index
is the version of the source tree it reflects, the settings it was extracted
under, and whether it holds nothing, some files or all: what is inside it is the
subject of `Indexer`. The throttle of `check_for_change` is nondeterminism: a
request may or may not look.

### `FollowedIndex` (implemented by `Indexer`, proved in `Indexer_proofs`)

`FollowedIndex` is what an index promises, without threads, locks or events: it
shows readings of files, each taken at one moment; an update looks at some
files (`Look`) and then, in one step (`Install`), shows what it read of them,
removes what it found absent or lists what it could not use, and never shows a
reading older than the one it replaces. `Indexer` instantiates it with its own
variables at its end: `shown` is the snapshot's facts, `listed` the rejected
list, and `readings` is what the threads carry in their locals (`Seen`). A file
that grows past the size budget after its metadata was taken is read and
indexed all the same, so `Readable` contains the oversized contents too, and a
script governed by an alias config may be read after it was found deleted
(`Reread`). The mapping holds for `ParseFails` without `"boot"` (section 5). It is a safety
refinement: that the index catches up is `Converges`.

### `AuditLog` (with `MCAuditLog`, `AuditLog_proofs`)

The database shared by the processes of one workspace. Opening is
`CreateEntries`, `CreateMetrics`, then for each column of `Migrated` a look and an
`ALTER` (`LookColumn`, `AddColumn`, with the duplicate-column answer taken for
success). `ToolRegistry::invoke` is `InvalidArguments`, `GovernanceRefusal`,
`RunTool` or `ToolPanics`, then `RecordEntry`, one immediate transaction that reads
the tail and appends, and `RecordLatency`, a second statement; each may give up
on a busy database. A process may `Crash` anywhere; `OldBinaryAppends` writes
rows of the two older formats; `Damage` changes any stored field of a row but its
number, the ones no hash covers included, and `written` keeps what the writers
inserted, for the properties to compare with. Verification
is `PlanVerify` and `PlanDetail` (which columns are there) and then `RunVerify`
(select and check), and a migration may come between any two. A hash is the record
it covers: SHA-256 is taken to be injective. The timestamp, session, tool and
digest of arguments are one value, `call`, since the code hashes their plain
concatenation; status, files and count, which version 2 added, are another. A
damaged field holds `NULL`, another version, or `Rotten`, which is no hash: rows
rewritten together with their hashes, renumbered rows and a cut tail are not
modelled (the last is documented as undetectable, `docs/architecture.md:451`).

### `DaemonLifecycle` (with `DaemonLifecycle_proofs`)

`meshd` on Unix: the look for a stale socket and its removal (two steps), `Bind`
with `bind_local`'s outcomes, the confinement that may refuse, the record for
`doctor`, `Accept`, one handler per connection, the watchdog's `Poll` over the
client counter, and the exit in its order (`LeaveLoop`, `DropListener`,
`RemoveSocket`). `mesh-mcp run`: the workspace guard, `ensure_daemon_running`
(probe, spawn, bounded polling), `Connect`, then the bridge with its two copies
and `client_done`, or the in-process server with reader, loop and writer over
two channels of `Capacity`. `doctor --fix`: read the record, probe, kill, forget.
A session is counted, not spelled out, because every hop is first in first out.
Kills are one budget: an interrupt, a crash or a run of the doctor. A client
writes only once somebody serves it; `d1` is started by hand and `d2` by the
proxy.

### `IndexCache` (with `MCIndexCache`, `IndexCache_proofs`)

One SQLite database and several scanning processes, an action per transaction:
`EnsureSchema` (with the second look that `BEGIN IMMEDIATE` allows),
`SwitchToIncremental`, `Get`, `PutBatch` (payloads, access times of what was only
read, and the counter of writes), `CheckSize`, `EnforceQuota`, `Evict` and
`IncrementalVacuum` per round, and a failing variant of each. Sizes are counted in
pages, a row is one page, a deletion leaves a free page until it is vacuumed,
and the log shrinks at checkpoints. Access times are the batch's clock; among
equal ones the row identifier decides, as the index does.

### `Names`, `ContractGraph`, `GraphQueries`, `Routes`, `Dependents`, `Topology` (with `MCContractGraph`, `Contracts_proofs`)

`Names` is the comparison of names: case, separators, camel, snake and constant
spellings, service and client suffixes, wildcard subjects. A name is a sequence of
tokens, each a run of words in one spelling.

`ContractGraph` keeps nodes, the indices by name, package, file and topic, the
facts of each node, and edges. `FullBuild` indexes every file in crawl order;
`Reload` is an incremental reload, in which `PatchFiles` removes the nodes of the
changed files from the buckets they name (`RemoveNodes`), forgets what was known
of them (`Forget`), and `Folded` applies the new extractions in crawl order.
`FileIndex::apply` gives nodes the next ids and lets relations follow them; the
folds are recursive functions, one step per node, fact, topic or file, so that
they can be reasoned about. Both end with `ReconcileEdges`, which is translated in full: imports by name, package and path, implementations, RPC handlers and calls
with constants, client fields and base classes, producers, consumers, wildcard
subscriptions with their cap, and topic hubs created and dropped.

`GraphQueries` has the answers: `find_dependents_raw`, the gRPC trace, the impact
walk with its notes on what it did not expand, the impact matrix and the symbol
search. `Routes` has the prefixes, the spelling of a route, and the match of a
question by shape or by a concrete request; `Dependents` the `find_dependents`
tool with its three granularities; `Topology` `aggregate`, the folding into
"other" boxes, and the shrinking. Answers are sets: rows are ordered for print
only, and contracts of one rank are ordered by id.

### The readers (`Readers` with `MCReaders`, `Contracts_proofs`)

A parsed file is a sequence of items: the syntax nodes an extractor looks at,
in order, with depth and lines. What tree-sitter does is external; what the
extractors do with its tree is translated.

| Module | Code |
|---|---|
| `Extraction` | items and their nesting, `FileIndex` and its merging |
| `GoExtractor`, `PythonExtractor`, `RustExtractor` | `go.rs`, `python.rs`, `rust_lang.rs` |
| `JvmExtractors` | `java.rs`, `kotlin.rs`, `scala.rs` |
| `WebExtractors`, `NativeExtractors` | `php.rs`, `ruby.rs`, `swift.rs`, `csharp.rs`, `cpp.rs` |
| `ProtoSchema` | `proto.rs`: contracts, wire schema, `diff_wire_schemas` |
| `SchemaRevisions` | a schema revised as long as `analyze_grpc` finds nothing breaking, and by nothing else held back: members are set, forgotten, dropped with number or name reserved, reservations withdrawn, declarations taken out and written again |
| `ScriptScope` | `js_frameworks/scope.rs`: bindings, constants, what a name resolves to, which names hold a client |
| `ScriptEvents` | `js_frameworks/mod.rs`, `messaging.rs`: broker rules and the pre-filter |
| `ScriptRoutes`, `FileRoutes` | `http.rs`, `api.rs`, `file_routes.rs` |
| `TypeScriptExtractor` | `typescript.rs` and the script arm of `extract_as` |
| `ScriptAliases` | `ts_config.rs`: layers, rewriting, and the climb to the nearest config, one step per access to the memos, which the threads of a scan share; roots may lie within each other |
| `Polyglot` | `languages/mod.rs`, `sfc.rs`, `spec_shape.rs`: dispatch, failed parses, component files, API documents, declarative patterns |

`Readers` puts them to work: an author adds a fragment and saves, and the file is
read again (`Write`); threads ask for the aliases of a script project's imports in any order and
between each other's steps (`LookUp`); a schema is revised as long as the diff raises no
breaking finding (`Revise`). Every fragment also says what its line means
(`says`: the topics it sends or receives and the expressions that give them,
whatever the extractors make of them), and
the properties compare what was read with that. Where a reader does not get that
far the property names the case: `ListensByConstant`, `OnlyFirst`,
`ModuleLevelPython`. What the fragments leave out
is in section 6.

## 3. The runs

| Run | Bounds | Checks |
|---|---|---|
| `index_two_files` | 2 files, 2 pool threads and the boot thread, 2 edits, reload parses may fail | `TypeOK`, `PendingOwned`, `RestIsHonest` (= `QuietVisible`, `RejectedExact`) |
| `index_one_file` | 1 file, 1 pool thread and the boot thread, 3 edits, accepted, oversized and guarded contents, fairness | `StatSound`, `FactsNeverRegress`, `Converges`, `FollowsFiles` (the refinement) |
| `search_cache` | 2 clients, 2 files (the second never fits), symbol, route and fuzzy queries, 1 cache entry, a snapshot that may lag, 1 edit, 1 installation | `TypeOK`, `GenerationSound`, `FreshPageExact`, `CacheNeverGoesBack` |
| `git_two_dirs` | 2 Git directories, 1 path, 3 steps of git and users, fairness | `NothingLost` (= `TypeOK`, `NoPathLost`, `HeadNotForgotten`, `NoRefLost`), `NoteExact`, `LiveGitSeen`, `PathsReleased` |
| `host_swap` | configs of every reload kind and an invalid one, 2 config edits, 1 source edit, 1 request, a watcher may fail to start, fairness | `ServedAsConfigured` (= `TypeOK`, `ServedUnderOwnConfig`, `NoEditLost`), `NoStrayWatcher`, `ConfigFollowed` |
| `host_book` | 2 requests, 2 config edits, unreadable and missing file, panics | `BookKept` (= `OneReload`, `BookDescribesServed`), `StatusSettles` |
| `audit` | 2 processes, 2 calls (one governed), 1 call of an older binary, 1 crash or busy database, or 1 damaged field, or 2 that could hide each other (`MCBounded`) | `VerdictExact` (= `TypeOK`, `ChainVerifies`, `DamageFound`, `AnswerExact`, `NoFalseAlarm`), `CallsRecordedOnce` (= `LatencyOfItsCall`, `AnswersAudited`), `MigratedWhenReady` |
| `daemon` | 2 daemons, 1 proxy, a stale socket, 1 request, channels of 1, 1 kill | `SessionsEndClean` (= `TypeOK`, `NoFalseLoss`, `Drained`), `IdleSparesSessions` |
| `daemon_live` | the same without kills, fairness | `NoZombie`, `SessionsServed` (= `EverySessionServed`, `SessionEnds`) |
| `index_cache` | 2 processes of different configurations, 1 file of 2 contents, quota 2, target 1, 1 tick, 1 crash | `Transparent`, `QuotaKept` (= `TypeOK`, `AccessHasPayload`, `LiveBounded`), `RowsLeaveByEviction` (= `LayoutNeverRemade`, `EvictsNoMoreThanNeeded`, `EvictsOldest`) |
| `graph` | 4 files of 2 repositories with 2 extractions or none each, 2 reloads of up to 2 files | `GraphFollowsFiles` (= `IndicesDescribeNodes`, `ContentsHeld`, `OneHubPerTopic`), `GraphExact` (= `TypeOK`, `WildcardsBounded`, `ImportsStayHome`), `DerivationsConverge` (= `ReloadsConverge`, `WildcardsAlike`, `DerivedTwiceSettles`), `AnswersAgree`, `RoutesAnswered`, `DiagramFaithful` |
| `readers` | one file of each language, up to 4 fragments; 2 threads and 2 alias questions in nested roots; 3 revisions of a schema | `EventsAreTheFiles` (= `FactsInRange`, `TopicsAreMeant`, `SendsOwned`, `PrefilterHidesNothing`, `ForeignReceiversSilent`), `PlacesAreTheFiles` (with the prefix memo and where a rewritten import leads), `AliasMemoAgrees`, `SchemaStepsSafe` (= `SilentIsReadable`, `SilenceCarries`, `NumbersReturnByDoors`) |

A property with an = is a conjunction of the named parts, as are those of the
last two runs; every part is stated and commented in its module.

Why these bounds. The races of the indexer are between one reload and edits of
the file it is looking at, or between two reloads of one file: one file, three
edits and two threads contain every such order, and two files are needed only
to see that a reload of one does not disturb the other. The gate compares an
event with the turn before and after it; three steps of git and a hold of two
ticks give every such order for two directories: a lock taken, abandoned and
taken again, a `HEAD` moved before, during and after the hold. The host runs one
reload at a time, so two config edits give one before, one during and one after
it; two requests are enough to race for the flag. The audit chain and the cache
are shared by any number of processes whose transactions exclude each other: two
of them give every order of one process's statements around another's, and one
fault is enough to leave any half-done state behind. Damage is found or not by
the row itself and the next one, so single fields and the pairs that could cover
for each other (an error and its signature, a version and what it covers, a hash
and the link to it) are all there is to try; the proof has no such bound. Two daemons and one stale
socket give the race for the file; one line in channels of one keeps every
buffer at its limit. In the graph run the two contents of each file are chosen so
that each kind of edge appears, disappears and changes its target, with
homonyms, a constant, a wildcard at its cap and a base class; two reloads of two
files give removal followed by return. In the readers run four fragments are a
declaration, a constant or a client, a shadowing of it, and a use. Three revisions
of a schema are enough to give a number up, to let go of it, and to use it again,
and to go from string by bytes to a message.

`CHECK_DEADLOCK FALSE` is used where the system may come to rest: users stop
editing, the thread has been stopped, calls and lines are used up. `search_cache`
checks deadlock.

Symmetry is used in safety runs only: pool threads, clients, requests,
processes of the audit log.

### Fairness

* `Indexer!FairSpec`: weak fairness of the watcher thread and of every other
  thread, strong fairness of taking `reload_lock`. The threads are operating
  system threads with nothing that disables them for ever; a `std::sync::Mutex` is
  not a fair lock, but at most the few jobs spawned before a waiter compete with
  it, because users make finitely many edits.
* `GitGate!FairSpec`: the thread runs, time passes, and what the debouncer holds is
  delivered (strong, since a turn of the loop disables delivery for a moment).
* `WorkspaceHost!FairSpec`: blocking tasks and pools run, and requests keep coming:
  the host looks at its config only when a request arrives.
* `DaemonLifecycle!Spec`: weak fairness of each daemon's and each proxy's own
  steps (the async runtime polls what is ready), of the watchdog's timer, and of
  the two steps with two outcomes taken together (confined or refused, spawned
  or not). Nothing is assumed of clients, interrupts, crashes and the doctor.

### Assumptions of the models

* Every write moves (mtime, size). The code compares nanosecond mtimes; a file
  system with coarse ones and an edit of the same size within one tick is out
  of reach of any stat cache.
* File events are not lost once the watches are live.
* Alias configs are part of `Indexer` (`Governor`, `AliasScripts`) and of its
  proofs, but no run gives a file a governor. With a governor and
  `AliasRaces = TRUE`, `QuietVisible` fails: the digest is taken at one moment and
  the aliases are read at another, so a config that changes around that moment
  leaves a digest that matches the disk and facts that do not. The theorems hold
  for every governor and both values.
* The forced set of a config reload is modelled in `WorkspaceHost` (`ReloadClose`),
  not in `Indexer`.
* SQLite statements and immediate transactions are atomic; SHA-256 and the
  cache's key hash are injective.

## 4. What is proved

All theorems hold for every value of the constants that satisfies the named
`ASSUME` of the module (distinct model values, finite bounds as naturals): any
number of files, threads, processes, requests, configs, edits and crashes. A
safety invariant is seldom inductive; each module states the strengthening it
needs as one conjunction, and TLC has checked that conjunction on the run's
instance before it was proved (parts that quantify over all values aside). A theorem with a further hypothesis says so below.

`Indexer_proofs`:

* `TypeCorrect`: `Spec => []TypeOK`.
* `StatSoundAlways`: `Spec => []StatSound`. `StatSound` is about the stored
  signatures alone; a reload carries stats and bytes in its locals for several
  steps before it stores them. The inductive invariant `StatInv` adds: the
  thread in a scan holds the lock (`LockSound`) or is the boot thread before the
  watcher exists (`BootSound`); no stored or carried stat is newer than the last
  edit (`StatsBounded`), which is why a new edit can never make an old stat
  match again; the stat a thread carries for a file was taken before the bytes
  it carries (`ScanSound`), so if that stat still matches the disk, the bytes do;
  and a path that disappeared and may come back with its old stat is one whose
  signature is already cleared or whose deletion some reload owns (`GoneOwned`).
* `PendingAlwaysOwned`: `Spec => []PendingOwned`.
* `FactsNeverRegressAlways`: the version of the facts of a file never falls. The
  invariant `VerInv` says that what the lock holder carries is at least as new as
  what is installed; the lock makes it stable.
* `IndexerFollowsFiles`: `Spec => FollowsFiles`, the refinement of
  `FollowedIndex`, when no parse fails at boot (`"boot" \notin ParseFails`; with
  such a failure it is false, section 5). Edits map to `Edit`, every step that
  reads the disk into a thread's locals to `Look`, `BuildSnapshot` and
  `ApplyIncremental` to `Install`, the rest to stuttering. The invariant `RInv` adds
  to those above: a file the VFS tracks is shown with the content that was hashed
  (`SigShown`), which is why a touch that changes no byte needs no new facts; the
  boot scan starts from an empty snapshot (`BootBlank`); a candidate of a pass has
  an outcome, an accepted one has readable content, and a candidate that the pass
  also found deleted is governed by an alias config (`PassSound`). The last part
  came out of the proof (section 5).

* `RestAlwaysHonest`: `Spec => []RestIsHonest`, when no parse fails at boot and no
  file has an alias config. `QuietVisible` speaks of rest only; the invariant
  `HonestInv` says what holds of a file at every moment. What a stored stat that
  still matches stands for is what the index and the rejected list say of the file
  (`MatchSound`), and so is what a pass has read of a file it found unchanged
  (`FreshSound`); every file is either honestly shown, or in the hands of a pass
  that has it as it is, or still due to be looked at (`HonestPass`, `HonestOwned`).
  At rest no pass holds anything and nothing is due, which leaves the first.
* `FreeAlwaysHonest`: the same of each file that no alias config governs, in a
  workspace that has such configs. Both hypotheses are needed: section 5 has what
  happens to a file whose parse fails at boot, and to scripts whose config changes
  while they do.

`SearchCache_proofs`:

* `SearchTypeCorrect`, `CacheAlwaysBounded`, `CacheAlwaysForward`.
* `GenerationAlwaysSound`: `Spec => []GenerationSound`. Its last conjunct, a hit has
  the very snapshot the caller pinned, needs that a generation names one
  snapshot: `GenInv` states that any two snapshots in use (installed, pinned, or
  behind a cached page) with equal generation are equal, and that none is newer
  than the installed one.
* `FreshPagesAlwaysExact`: `Spec => []FreshPageExact`. `FreshInv` says of every page,
  under way or cached, that each matching file before the place it has reached has
  one stamp, and that if the file is there with that stamp the page says of it what
  it says (`PageOf`); the stamp a request holds is no newer than the last edit, so a
  write between the stamp and the read makes a stamp that never matches again.

`GitGate_proofs`:

* `NothingLostEver`, `NoteAlwaysExact`: `Spec => []NothingLost`, `Spec => []NoteExact`.
  `GInv` adds that no input is at hand between two turns (`TurnClean`) and that what
  was probed, noted or handed over of a `HEAD` is never newer than the one on disk
  (`HeadsOrdered`): equal numbers then mean that nothing moved.
* `LiveGitAlwaysSeen`: the action property `LiveGitSeen`. A lock is stamped by the
  step that took it, so a running git's lock is never the one remembered as
  orphaned (`LocksOrdered`).

`WorkspaceHost_proofs`:

* `BookAlwaysKept`, `AlwaysServedAsConfigured`, `StatusAlwaysSettles`: one reload at a
  time, a book that describes what is served, an index that belongs to its config
  and misses no edit, and a status that is the book's or about to be published,
  with panics and failing watchers. `HInv` follows a reload through its steps: the
  gate is its own (`GateOwned`), the state under construction is nobody else's and is
  for the bytes that were read (`Fresh`), its index fits that config as far as the
  steps so far make it (`Fits`), and once the gap is closed its watcher knows what
  its index does not hold (`Caught`).
* `NoStrayWatcherUnlessPanic`: `Spec => []NoStrayWatcher` when `~MayPanic`, as in the run.
  `WatchersOwned` says whose every live watcher is; a panic drops that owner.

`AuditLog_proofs`:

* `AlwaysMigratedWhenReady`, `CallsAlwaysRecordedOnce`: `Spec => []MigratedWhenReady`,
  `Spec => []CallsRecordedOnce`.
* `VerdictAlwaysExact`: `Spec => []VerdictExact` under `Opaque`: neither `NULL` nor a
  damaged value is a hash or a signature. It is a hypothesis of the theorem and
  not an `ASSUME`, because it speaks of all records and TLC could not evaluate it;
  model values satisfy it. It holds for any amount of damage. `HashExact`,
  `DetailExact` and `ChainExact` compare the stored rows with `written`: the chain
  verifies if and only if every covered field is as it was written.
* The invariant `AInv` says which columns are there by how far an opener has come,
  whoever added them (`Migration`), that a row as written is hashed, signed and
  linked to the one before, and that a hash or a signature may be lost to damage but
  never replaced by another (`Copied`), and that a call has no row until it is
  recorded and then exactly the one its latency refers to (`Recorded`).

`DaemonLifecycle_proofs`:

* `SessionsAlwaysEndClean`: `Spec => []SessionsEndClean`. `Session` relates the
  line counts of a session along its hops to the signs of its end: in process, a
  drained writer has written everything; through a daemon, `client_done` comes
  before the half-close, and only a half-close lets the handler see the end, with
  every line answered.
* `IdleAlwaysSparesSessions`: the action property `IdleSparesSessions`. `Counted` says
  that a daemon's counter is at least the number of connections its handlers hold,
  and `Connected` that a session is one of them. Each run of the doctor has a probe
  of its own, as in the code; counted as one, two probes would leave the counter
  too high.

`IndexCache_proofs`:

* `AlwaysTransparent`, `QuotaAlwaysKept`, `RowsLeaveByEvictionAlways`. The invariant
  says that a row holds what extracting its key gives (`RowsExact`), that every
  row has its access entry and no two the same rank (`AccessRanked`), which makes "the
  oldest" unique, and that live data over the quota is on somebody's way to be looked
  at (`Watched`).

`Contracts_proofs`:

* `SilenceIsReadable`: for any two schemas, a field of one message path in both
  about which `diff_wire_schemas` says nothing is read by either side as the other
  wrote it. Types the comparison calls compatible have one form and are understood
  alike, and that is symmetric (`AlikeSymmetric`).
* `SchemaStepsAlwaysSafe`: `RevisionsSpec => []SchemaStepsSafe`, for any first file,
  edits and number of revisions, with no condition on the author. Between any two
  revisions, adjacent or not, what their comparison leaves unsaid is readable
  (`SilentIsReadable`). Each revision is compared with the one before only;
  compatibility of neighbours is transitive over types that are compatible with
  their own kind alone (`FirmTransitive`), which makes a field that no step
  mentioned readable from end to end, unless it was bytes, a map or a message in
  between (`SilenceCarries`): that exception is needed, since string, bytes and
  message are a chain of silent steps. `HistoryInv` adds that a number any revision
  has given up is reserved now or was let go of by a step that is one of the three
  kinds of `Door` (`GoneIsReserved`); the check refuses a number while it is
  reserved, hence `NumbersReturnByDoors`.
* `AliasMemoNeverMatters`: `AliasSpec => []AliasMemoAgrees`, for any disk, roots and
  number of threads. `AliasInv` says that a memo holds the config that governs its
  directory (`MemosRight`), that a thread on its way up is at a directory governed
  by the same config as its script, in the same root, and so are the directories
  it is going to note (`OnTheWay`), and that an answer is that of the script's own
  config (`AnswersRight`). What a thread reads and writes between another's steps
  is then the same whoever comes first. A climb ends at its root, so
  with nested roots every directory it meets has the same innermost root.
* `IndicesAlwaysExact`: `Spec => []IndicesDescribeNodes`. `Sound` says of a graph that
  its ids are below `next` and that each index is `Exact`: a bucket is the list of
  the ids, in order, of the nodes that have its key (`Listed`), and none is empty.
  `AddNode` appends one id to the buckets of its keys, `RemoveNodes` takes ids out of
  the buckets their own attributes name, and those are all the buckets that have
  them.
* `GraphAlwaysFollowsFiles`: `Spec => []GraphFollowsFiles`. `Held(g, c)` says that a
  graph holds the contents `c`: each file's nodes in the order of its extraction,
  the facts of each file about those nodes and no others, no node besides but
  hubs, no two hubs of a name. The argument is one lemma per stage of a reload:
  `PatchFiles` leads from contents to the same contents with the patched files
  gone (`PatchHeld`), `Apply` adds one file (`ApplyHeld`), `Folded` all that are to be
  read (`FoldedHeld`), `WithHubs` removes the hubs without a fact and adds the missing
  ones and touches nothing else (`StaleHubsGo`, `HubsKeptHeld`, `ReconcileHeld`). A
  full build is the same from the empty graph.
* `FactsAlwaysConverge`: `Spec => []FactsConverge`, invariant I2 of
  `docs/development.md` for everything edges are derived from: nodes, imports,
  topics, calls, heuristic marks and hubs are those of a full rebuild. Two graphs
  that hold the same contents have the same facts whatever their ids
  (`HeldAlike`). Edges are compared by `DerivationsConverge`, on the run's instance.
* `GraphAlwaysExact`: `Spec => []GraphExact`. A graph of the program is never only
  held: its edges are those `ReconcileEdges` derives from some graph that holds the
  contents, which is the inductive invariant (`ExactInv`); the edges alone would
  not be one, for a patch leaves some of them and none of what they were derived
  from. `LinksBounded` counts a wildcard's links: they are ordered by subject and by
  where the producer stands in its list, a link that is kept has fewer than
  `WildcardCap` before it, and no two have equally many (`CapHolds`). `ImportsHome`
  follows an import from the graph it was resolved in to the one it is found in:
  between the two only hubs come and go (`FilesStand`), hubs are in no repository
  (`RepoOf`), and `pick_or_ambiguous` leaves the importer's only when none of the
  candidates is there (`PickHome`).
* `DerivedTwiceAlwaysSettles`: `Spec => []DerivedTwiceSettles`, invariant I3 of
  `docs/development.md` and a part of `DerivationsConverge`: deriving again changes
  nothing but the imports answered among hubs. `ExactInv` says that the graph was
  derived from some graph `g` of the same contents, and the proof compares that
  derivation with the next. Once hubs are up to date, `WithHubs` is the identity
  (`HubsThere`). The edges that are not imports depend only on nodes, indices and
  facts, which are the same (`SameRpcs`, `SameCalls`, `SameTopics`). An import is resolved
  before the hubs are refreshed, in `g` the first time and in the graph the second;
  of the candidates that are no hubs both have the same, in the same order
  (`ResolveAlike`, `ImportsAlike`), and what is answered by a hub is spelt like a topic
  of the graph or like one that has just gone (`HubsAnswer`). It has a hypothesis
  besides `HubsReserved`, `ImportsApart`: no import is spelt `event-bus.<topic>`, and
  no package an import names is a topic too. Without it `resolve_import_targets`
  finds hubs under a name that `AmongHubs` does not list.
* `RoutesAlwaysAnswered`: `Spec => []RoutesAnswered`. A route asked for as it is
  shown is read back with the segments it is declared with, whatever prefix is
  configured (`FoundAsShown`), and whoever serves a request is among its hits
  (`FoundByRequest`), is shown unless tests hide it and is then counted
  (`HandlersFound`). The hypothesis `PlainPrefixes` says that no
  configured `http_prefix` has a `?`: such a route is shown with the whole prefix but
  not found by it (section 5).
* `LinksAlwaysBacked`: `Spec => []LinksAreBacked`, a part of `DiagramFaithful`: a link
  of the diagram is made by an edge of the graph between its two ends, and if none
  is sure, by an ambiguity no other group takes part in.
* `LeftOutAlwaysCounted`, `HandlersAlwaysInside`: `Spec => []LeftOutIsCounted` and
  `Spec => []HandlersInside`, parts of `AnswersAgree`, for any targets: what a listing
  leaves out is as many as it says, at each granularity, since the units with and
  without tests are counted of one set; a repository that serves a contract is
  never reported as an outside one, whichever of the three passes of
  `analyze_impact` gave the row, and no two rows say the same.
* All but `SilenceIsReadable`, `SchemaStepsAlwaysSafe`, `AliasMemoNeverMatters` and
  `IndicesAlwaysExact` have the hypothesis `HubsReserved`: no file declares a stream
  in a package named `event-bus`. It is needed: `reconcile_edges` takes such a node
  for a hub and removes it once no fact names it (section 5). `MCContractGraph`
  states the three hypotheses of its contents (`HubPackageKept`, `ImportsKeptApart`,
  `PrefixesKept`).
* What a recursive function returns is found without an induction rule: the set of
  lengths at which it would not be as said has a least element (`LeastNat`, from
  the well-foundedness of `<`), and the step from the length before contradicts
  it.

Only model-checked: liveness (`Converges`, `PathsReleased`, `ConfigFollowed`,
`NoZombie`, `SessionsServed`), which is out of the prover's reach, as is
`ENABLED`. Of the graph:

* `ReloadsConverge` and `WildcardsAlike`, the rest of `DerivationsConverge`: they compare
  the edges of two graphs whose ids differ. The facts, which are what edges are
  derived from, are proved alike (`FactsAlwaysConverge`). `FactsHeld` would have to
  keep the order of each file's calls as well, since of two calls with the same ends
  the first stands, and every derivation would have to be followed through the
  renaming of ids.
* Of `AnswersAgree`, the sums of the packages and the walk over hops (`PackagesAddUp`,
  `WalkNotesTruthful`), which are folds; `DependedOnIsAnswered`, `ToolsAgree` and
  `NotesMatchRows`, which hold for names, nested services and marked sites as the
  extractors give them and not for any nodes; `NoFileTwice` says what one filter of
  `ServiceLevelClients` does.
* Of `DiagramFaithful`, the sums that compare two views: `DrawnKeepsItsLinks` and
  `ZoomAgreesWithOverview`.

Of the readers, `EventsAreTheFiles` and `PlacesAreTheFiles`: they compare what
chains of folds return, and several of their modules use recursive operators
(`ScriptScope`, `ScriptRoutes`, `FileRoutes`, `RustExtractor`,
`TypeScriptExtractor`).

## 5. Where the code and its documents disagree

Met while modelling. Those that a module states as a property are named; such a
property is not part of a run, because the code does not satisfy it, and the
properties that are checked say exactly how far the code does go.

Indexing and serving:

* A file that grows past the size budget yields no fragment, so an incremental
  reload neither patches nor removes its old facts, while a full rebuild has
  none; `tests/determinism.rs` states invariant I2 as the same snapshot. The file
  is listed as rejected, so `QuietVisible` holds
  (`Indexer!IncrementalEqualsRebuild`). A script that is refused while its
  tsconfig changes, and then restored, keeps facts read under the old aliases.
* The boot scan records the signature of a file whose parse failed twice. A later
  touch parses it, but its hash is the known one, so it is not folded, and it
  also leaves the rejected list: no facts and no mention, against the purpose
  stated for `IndexHealth`. The runs let parses fail in reloads only.
* A script that is deleted in the same batch in which its alias config changes is
  still tracked when the scripts of that config are forced into the pass
  (`alias_governed_scripts`, `indexer.rs:1115`), cannot be read, and is listed as
  rejected by the pass that removes it. It stays listed, though it does not exist,
  until a full reload sweeps it: with a governor and `AliasRaces = TRUE`,
  `RejectedExact` fails. `FollowedIndex!Removed` allows it for such scripts only.
* The watcher task may be live before the ingestion task takes `reload_lock`. An
  event reloaded in that window installs generation 1 with one file, and
  `tools/call` answers from it although `dispatch` takes generation 0 for the only
  sign of an unfinished scan (`WorkspaceHost!AnswersComplete`).
* After a panic the host rereads the config to record what it refuses: a valid
  config written in between is refused untried.
* `search_cache.rs:37` promises stamps "of every file the page read", and a hit that
  is recomputed "when any differs". A symbol page drops the stamp of the file that
  did not fit (`smart_search.rs:791`), so it stays fresh when that file shrinks
  or goes, and a new page would show it or the next ones. A route page is stamped
  after its files were read, so an edit in between is cached as current. All absent
  files have one stamp: a file that is stamped absent, written, read and deleted
  again leaves a page that shows it and looks fresh. `FreshPageExact` is what the
  stamps do guarantee.
* After a hold was cut at `MAX_HOLD` no new hold starts until an event arrives,
  since an idle turn probes nothing.
* `cleanup_stale_socket` looks and then removes: the slower of two daemons may
  remove the file the faster one has just bound. The faster one keeps serving
  nobody until its grace ends, and the record may name the wrong process for a
  while, against the comment at `socket.rs:113` (`RecordNamesListener`).
* `verify_db` looks its columns up before it reads. A process that has added
  `error_detail` and not yet `error_detail_sig` at the look, and an error recorded
  before the read, make it report an untouched chain as broken
  (`select_entries_sql`, `audit.rs:645`). `NoFalseAlarm` says that this window is the
  only one, and `AnswerExact` what is answered in it. A database of the first version
  that nobody has opened since gives a database error instead of a verdict. A tool
  that panics leaves no row.
* `docs/architecture.md:450` says that a modified row breaks every later link. Changed
  unseen are: `trace_id`, which no hash covers; status, files and count of a row of
  chain version 1; a `chain_version` other than 1, for any other value but 1 (every
  version but 1 is checked by the formula of 2, `audit.rs:872`); an error text
  together with its signature, when both become `NULL`. `DamageFound` says that
  these are all.

Contract graph and tools:

* Invariants I2 and I3 (`contracts.rs:923`, `docs/development.md:250`,
  `CHANGELOG.md:2045`): imports are resolved before hubs are refreshed, so an
  import that names a topic depends on the derivation before, and one whose topic
  goes with a reload still counts its hub as a candidate, so that the only real
  answer is called ambiguous until the next reload;
  `first_by_package` takes the smallest id, and a wildcard at
  `MAX_WILDCARD_PRODUCERS` keeps producers in id order, and ids depend on the
  reloads (`ContractGraph!IncrementalEqualsRebuild`; `ReloadsConverge` is the rest).
* A stream node in lower case is listed twice in its name bucket, and a single
  candidate is then called ambiguous. A service whose package is `event-bus` has
  its stream nodes removed as stale hubs.
* `analyze_impact("orders.created")` does not reach a subscriber of `orders.*`
  (`docs/mcp-tools.md:484`, `docs/architecture/03-the-graph.md:102`).
* For "may call", `analyze_grpc` follows an enclosing service found only in code,
  `analyze_impact` only services of `.proto` files (`SameAnswers` allows for it).
* `topology.rs:404` says an ambiguity over several groups is not drawn; a
  candidate of the caller's own group is skipped first, so one between the own
  service and one other is drawn, and the opened view omits it.
* Scala and Swift routes are signed without a slash and are then not parsed as a
  route when asked for as shown; `format_route_impact` says the graph holds no
  other routes whenever none is near; `path_segments` cuts `:id?` at its `?`
  although `Seg::Param` lists that form. A configured `http_prefix` with a `?` is cut
  there too: the route is shown with the whole prefix and not found by it
  (`PlainPrefixes` is the hypothesis of `RoutesAlwaysAnswered`).

Readers:

* `@KafkaListener` with a topic that is no literal registers the method's name as
  a topic, or another argument such as `groupId` (`java.rs:381`, `java.rs:505`), against
  the comments that say none is invented; a Kotlin test asks for the method's name
  (`kotlin.rs:486`). `TopicsAreMeant` admits such a stand-in for that method and
  nothing else. Kotlin's positional form is not read.
* Go constants are resolved in walk order although a pre-pass is announced, and
  those of a function leak to the file. A second send of one Java method, a second
  subscription of one Rust function, and Python events before the first
  declaration or call of a file are lost (`SendsOwned` excepts these only). A Celery task's own name never meets its `.delay()`.
* `impl<T> Trait for X` hides the trait; axum's `.route(CONST, ...)` takes the next
  string; the last namespace of a C++ or C# file is the package of all of it.
* The decorator pre-filter compares the local name with the rule's and so
  rejects an aliased import; the memo of mounted prefixes may depend on the order
  of lookups with more than four mounts, a cycle or mounts inside functions;
  `clean` in `ts_config.rs` pops a leading `..`.
* `scope.rs` speaks of two passes where the loop makes three; `ProtoRelations` are
  documented as attributed to every node and go to the first.
* The wire diff asks for `reserved` "so the number is never reused" (`proto.rs:916`,
  `docs/mcp-tools.md:474`). A number is reused by steps none of which is reported as
  breaking when its reservation is withdrawn first (nothing compares the reservations
  of two revisions), when only its name was reserved (`proto.rs:910`), or when its
  message is taken out, which is listed, and written again. `NumbersReturnByDoors`
  says that there is no fourth way. String to bytes and bytes to message are each
  silent, string to message is not; maps and messages in between break the chain in
  the same way (`SilenceCarries` has the condition).
* `yaml_stream.rs` numbers an anchor by the count of anchors, so a redefinition
  makes the next one share an id. Chained placeholders of `properties.rs` depend on
  the order of a hash map, and a redacted value is never resolved again.

## 6. Not modelled, and the plan

Not modelled for good: tree-sitter, ranking, redaction, rendering and the docs
index's arithmetic (string work, functions of what was read); the one-shot
commands of the command line (they keep no state); the crawler's walk, which is
a library's, and the path jail, which is one comparison; logging, plain counters
and the export of the audit log; the Windows pipe, interrupts of a standalone
server and the contents of requests.

Left out of the models of this directory:

* Watcher: per-directory registration of new directories (`watcher.rs:953`), the
  hold notes keyed by the address of a state (`watcher.rs:66`), the backends.
* Host: a panic after the new watcher was spawned (`host.rs:570`).
* Readers: the nesting cap of constant tables; constants declared inside Go
  functions and Kotlin properties inside functions; text that looks like a key
  other than a method name. Every string key of an OpenAPI path item counts as a
  method there, as in the code.
* Audit: rows rewritten together with their hashes, changed row numbers, a cut tail.
* Routes: paths with white space, a catch-all that spans several segments, an
  optional parameter served without it. Paging and the order of printed rows.
* Properties and YAML: placeholder resolution and anchor budgets, governance,
  guards and decapitation.

Planned: placeholder resolution against a reference definition; the watcher's
registration of directories.
