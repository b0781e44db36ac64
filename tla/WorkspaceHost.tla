--------------------------- MODULE WorkspaceHost ---------------------------
(***************************************************************************)
(* The daemon's WorkspaceHost: it serves one AppState and follows the      *)
(* config file.  A request that finds the file changed starts a rebuild on *)
(* a blocking thread; the serving state answers until the new one has an   *)
(* index and a watcher, and then the two are swapped.  The first state is  *)
(* indexed and watched by two tasks of the daemon's start.                 *)
(*                                                                         *)
(* A config is a model value; what decides how it is applied is the part   *)
(* of it the index depends on (Inputs) and its custom patterns (Patterns). *)
(* An index is described by the version of the source tree it reflects and *)
(* the settings its facts were extracted with: Indexer models what is in   *)
(* it.                                                                     *)
(***************************************************************************)
EXTENDS Naturals

CONSTANTS
  Config, Invalid,   \* config bytes; those that do not parse or resolve
  Inputs, Patterns,  \* index_inputs and patterns of each config
  Missing, Unreadable, \* the config file is gone, or cannot be read
  None,
  Request,           \* concurrent tool calls
  MayPanic, MaySpawnFail,
  NState,            \* bound of the model: AppStates alive at once
  MaxConfigEdits, MaxTreeEdits \* bounds of the model

State == 1..NState
Valid == Config \ Invalid

ASSUME HostAssumption ==
  /\ Invalid \subseteq Config /\ Valid # {}
  /\ Missing \notin Config /\ Unreadable \notin Config /\ None \notin Config
  /\ MayPanic \in BOOLEAN /\ MaySpawnFail \in BOOLEAN
  /\ NState \in Nat \ {0} /\ MaxConfigEdits \in Nat /\ MaxTreeEdits \in Nat

VARIABLES
  file, tree, configEdits,       \* the disk
  config, index, watching, pending, \* of each AppState
  boot,                          \* tasks of the daemon's start still to run
  current, book, reloading, gate, \* WorkspaceHost
  status,                        \* the record published for doctor
  pc, seen,                      \* locals of each request
  job, sha, new, retired         \* locals of the reload each request started

disk == <<file, tree, configEdits>>
states == <<config, index, watching, pending>>
request == <<pc, seen>>
reload == <<job, sha, new, retired>>
vars == <<disk, states, boot, current, book, reloading, gate, status, request, reload>>

\* A snapshot is absent (generation 0), holds a few files only, or all of them.
Index == [has : {"nothing", "some", "all"}, tree : 0..MaxTreeEdits,
          inputs : {Inputs[x] : x \in Valid}, patterns : {Patterns[x] : x \in Valid}]
IndexOf(x, has) ==
  [has |-> has, tree |-> tree, inputs |-> Inputs[x], patterns |-> Patterns[x]]

Record == [serving |-> book.serving, rejected |-> book.rejected, error |-> book.error]

Init ==
  /\ file \in Valid /\ tree = 0 /\ configEdits = 0
  /\ config = [s \in State |-> file]
  /\ index = [s \in State |-> IndexOf(file, "nothing")]
  /\ watching = [s \in State |-> FALSE] /\ pending = [s \in State |-> FALSE]
  /\ boot = {"ingest", "watch", "publish"}
  /\ current = 1
  /\ book = [serving |-> file, rejected |-> None, error |-> FALSE, watcher |-> 1]
  /\ reloading = FALSE /\ gate = FALSE /\ status = None
  /\ pc = [r \in Request |-> "idle"] /\ seen = [r \in Request |-> None]
  /\ job = [r \in Request |-> "none"] /\ sha = [r \in Request |-> None]
  /\ new = [r \in Request |-> None] /\ retired = [r \in Request |-> None]

-----------------------------------------------------------------------------
(* The disk, and the watchers of the AppStates.                            *)

EditConfig(x) ==
  /\ configEdits < MaxConfigEdits /\ x # file
  /\ file' = x /\ configEdits' = configEdits + 1
  /\ UNCHANGED <<tree, states, boot, current, book, reloading, gate, status, request, reload>>

EditTree ==
  /\ tree < MaxTreeEdits
  /\ tree' = tree + 1
  /\ pending' = [s \in State |-> pending[s] \/ watching[s]]
  /\ UNCHANGED <<file, configEdits, config, index, watching, boot, current, book, reloading, gate,
                 status, request, reload>>

\* An index after a reload of the paths alone, or of everything.
Refreshed(i, full) ==
  [i EXCEPT !.tree = tree,
            !.has = IF full THEN "all" ELSE IF i.has = "nothing" THEN "some" ELSE i.has]

\* A scheduled reload of the watcher; of everything when reload_paths falls back.
WatcherReload(s, full) ==
  /\ pending[s]
  /\ pending' = [pending EXCEPT ![s] = FALSE]
  /\ index' = [index EXCEPT ![s] = Refreshed(index[s], full)]
  /\ UNCHANGED <<disk, config, watching, boot, current, book, reloading, gate, status, request,
                 reload>>

-----------------------------------------------------------------------------
(* The start of meshd: the ingestion and the watcher are two tasks.        *)

\* ingest_blocking.
Ingest ==
  /\ "ingest" \in boot
  /\ boot' = boot \ {"ingest"}
  /\ index' = [index EXCEPT ![1] = IndexOf(config[1], "all")]
  /\ UNCHANGED <<disk, config, watching, pending, current, book, reloading, gate, status, request,
                 reload>>

\* start_watcher_blocking: once the watches are live, one differential reload; a
\* watcher that cannot start is only logged.  A token cancelled meanwhile ends
\* the watcher thread at once.
Cancelled(s) == book.watcher # s /\ ~\E r \in Request : job[r] = "cancel" /\ retired[r] = s
StartWatcher ==
  /\ "watch" \in boot
  /\ \/ /\ boot' = (boot \ {"watch"}) \cup {"close"}
        /\ watching' = [watching EXCEPT ![1] = ~Cancelled(1)]
     \/ /\ MaySpawnFail
        /\ boot' = boot \ {"watch"}
        /\ UNCHANGED watching
  /\ UNCHANGED <<disk, config, index, pending, current, book, reloading, gate, status, request,
                 reload>>
CloseBootGap ==
  /\ "close" \in boot
  /\ boot' = boot \ {"close"}
  /\ index' = [index EXCEPT ![1] = IndexOf(config[1], "all")]
  /\ UNCHANGED <<disk, config, watching, pending, current, book, reloading, gate, status, request,
                 reload>>

\* The server publishes the first record once its socket is bound.
PublishFirst ==
  /\ "publish" \in boot
  /\ boot' = boot \ {"publish"}
  /\ status' = Record
  /\ UNCHANGED <<disk, states, current, book, reloading, gate, request, reload>>

-----------------------------------------------------------------------------
(* check_for_change, on a request the throttle lets through.               *)

\* observe, under the book's mutex: is x news?  Back to the served content, a
\* recorded refusal is cleared, and the caller publishes if there was one.
IsNews(x) == book.serving # x /\ book.rejected # x
Healed(x) == book.serving = x /\ book.error
Observe(x) ==
  book' = IF book.serving = x THEN [book EXCEPT !.rejected = None, !.error = FALSE] ELSE book

CheckRead(r) ==
  /\ pc[r] = "idle" /\ file \in Config
  /\ pc' = [pc EXCEPT ![r] = "observe"]
  /\ seen' = [seen EXCEPT ![r] = file]
  /\ UNCHANGED <<disk, states, boot, current, book, reloading, gate, status, reload>>

\* Mutant: a refusal is cleared without telling doctor.
CheckObserveSilent(r) ==
  /\ pc[r] = "observe"
  /\ Observe(seen[r])
  /\ pc' = [pc EXCEPT ![r] = IF IsNews(seen[r]) THEN "swap" ELSE "idle"]
  /\ seen' = [seen EXCEPT ![r] = None]
  /\ UNCHANGED <<disk, states, boot, current, reloading, gate, status, reload>>

CheckObserve(r) ==
  /\ pc[r] = "observe"
  /\ Observe(seen[r])
  /\ pc' = [pc EXCEPT ![r] = IF Healed(seen[r]) THEN "publish"
                             ELSE IF IsNews(seen[r]) THEN "swap" ELSE "idle"]
  /\ seen' = [seen EXCEPT ![r] = None]
  /\ UNCHANGED <<disk, states, boot, current, reloading, gate, status, reload>>

CheckPublish(r) ==
  /\ pc[r] = "publish"
  /\ status' = Record
  /\ pc' = [pc EXCEPT ![r] = "idle"]
  /\ UNCHANGED <<disk, states, boot, current, book, reloading, gate, seen, reload>>

\* reloading.swap(true): the request that finds it clear spawns the reload.
CheckSwap(r) ==
  /\ pc[r] = "swap"
  /\ pc' = [pc EXCEPT ![r] = "idle"]
  /\ reloading' = TRUE
  /\ job' = IF reloading THEN job ELSE [job EXCEPT ![r] = "read"]
  /\ UNCHANGED <<disk, states, boot, current, book, gate, status, seen, sha, new, retired>>

-----------------------------------------------------------------------------
(* reload_guarded and reload_if_changed.                                   *)

Goto(r, l) == job' = [job EXCEPT ![r] = l]

\* gate.try_lock, then the one read whose bytes are hashed and parsed.
ReloadRead(r) ==
  /\ job[r] = "read"
  /\ gate' = TRUE
  /\ IF gate THEN Goto(r, "end") /\ UNCHANGED sha
     ELSE /\ Goto(r, IF file = Missing THEN "unlock"
                     ELSE IF file = Unreadable THEN "reject" ELSE "observe")
          /\ sha' = [sha EXCEPT ![r] = IF file \in Config THEN file ELSE None]
  /\ UNCHANGED <<disk, states, boot, current, book, reloading, status, request, new, retired>>

ReloadObserve(r) ==
  /\ job[r] = "observe"
  /\ Observe(sha[r])
  /\ Goto(r, IF Healed(sha[r]) THEN "publish" ELSE IF IsNews(sha[r]) THEN "parse" ELSE "unlock")
  /\ UNCHANGED <<disk, states, boot, current, reloading, gate, status, request, sha, new, retired>>

\* parse_config_bytes, expand_roots, then a fresh AppState.
Unused == State \ ({current, book.watcher} \cup {s \in State : watching[s] \/ pending[s]}
                   \cup {new[r] : r \in Request} \cup (IF boot \ {"publish"} # {} THEN {1} ELSE {}))

ReloadParse(r) ==
  /\ job[r] = "parse"
  /\ \/ /\ sha[r] \in Invalid
        /\ Goto(r, "reject")
        /\ UNCHANGED <<new, config, index>>
     \/ /\ sha[r] \notin Invalid
        /\ \E s \in Unused :
             /\ \A t \in Unused : s <= t
             /\ new' = [new EXCEPT ![r] = s]
             /\ config' = [config EXCEPT ![s] = sha[r]]
             /\ index' = [index EXCEPT ![s] = IndexOf(sha[r], "nothing")]
        /\ Goto(r, "index")
  /\ UNCHANGED <<disk, watching, pending, boot, current, book, reloading, gate, status, request, sha,
                 retired>>

\* classify, against the state that serves.
Kind(x) ==
  IF Inputs[config[current]] # Inputs[x] THEN "full"
  ELSE IF Patterns[config[current]] # Patterns[x] THEN "partial" ELSE "display"

\* ingest_blocking, or adopt_index_of under the old state's reload_lock.
ReloadIndex(r) ==
  /\ job[r] = "index"
  /\ index' = [index EXCEPT ![new[r]] =
       IF Kind(sha[r]) = "full" THEN IndexOf(sha[r], "all") ELSE index[current]]
  /\ Goto(r, "watch")
  /\ UNCHANGED <<disk, config, watching, pending, boot, current, book, reloading, gate, status,
                 request, sha, new, retired>>

\* start_watcher_for_reload; a watcher that cannot start is only logged.
ReloadWatch(r) ==
  /\ job[r] = "watch"
  /\ \E ok \in {TRUE} \cup (IF MaySpawnFail THEN {FALSE} ELSE {}) :
       watching' = [watching EXCEPT ![new[r]] = ok]
  /\ Goto(r, "close")
  /\ UNCHANGED <<disk, config, index, pending, boot, current, book, reloading, gate, status, request,
                 sha, new, retired>>

\* Mutant: a state that was just ingested is not reloaded again.
ReloadCloseAdopted(r) ==
  /\ job[r] = "close"
  /\ index' = IF Kind(sha[r]) = "full" THEN index
              ELSE [index EXCEPT ![new[r]] = IndexOf(sha[r], "all")]
  /\ Goto(r, "store")
  /\ UNCHANGED <<disk, config, watching, pending, boot, current, book, reloading, gate, status,
                 request, sha, new, retired>>

\* An index after a crawl of everything under config x.  Facts of unchanged files
\* stay, unless a changed pattern forces the file; what was not indexed yet is
\* extracted.
Recrawled(i, x) ==
  [i EXCEPT !.has = "all", !.tree = tree,
            !.patterns = IF Kind(x) = "partial" THEN Patterns[x] ELSE i.patterns]

\* close_reload_gap.
ReloadClose(r) ==
  /\ job[r] = "close"
  /\ index' = [index EXCEPT ![new[r]] = Recrawled(index[new[r]], sha[r])]
  /\ Goto(r, "store")
  /\ UNCHANGED <<disk, config, watching, pending, boot, current, book, reloading, gate, status,
                 request, sha, new, retired>>

ReloadStore(r) ==
  /\ job[r] = "store"
  /\ current' = new[r]
  /\ Goto(r, "book")
  /\ UNCHANGED <<disk, states, boot, book, reloading, gate, status, request, sha, new, retired>>

\* Mutant: the hash is taken from the file as it is now.
ReloadBookReread(r) ==
  /\ job[r] = "book"
  /\ book' = [serving |-> IF file \in Config THEN file ELSE sha[r], rejected |-> None,
              error |-> FALSE, watcher |-> new[r]]
  /\ retired' = [retired EXCEPT ![r] = book.watcher]
  /\ Goto(r, "cancel")
  /\ UNCHANGED <<disk, states, boot, current, reloading, gate, status, request, sha, new>>

ReloadBook(r) ==
  /\ job[r] = "book"
  /\ book' = [serving |-> sha[r], rejected |-> None, error |-> FALSE, watcher |-> new[r]]
  /\ retired' = [retired EXCEPT ![r] = book.watcher]
  /\ Goto(r, "cancel")
  /\ UNCHANGED <<disk, states, boot, current, reloading, gate, status, request, sha, new>>

\* Mutant: an adopted state's predecessor keeps its watcher.
ReloadCancelFull(r) ==
  /\ job[r] = "cancel"
  /\ watching' = [watching EXCEPT
       ![retired[r]] = @ /\ index[retired[r]].inputs = index[current].inputs]
  /\ pending' = [pending EXCEPT ![retired[r]] = FALSE]
  /\ Goto(r, "publish")
  /\ UNCHANGED <<disk, config, index, boot, current, book, reloading, gate, status, request, sha, new,
                 retired>>

\* old_watcher.cancel(): what its watcher still had queued no longer matters, since
\* nobody is served from that state again.
ReloadCancel(r) ==
  /\ job[r] = "cancel"
  /\ watching' = [watching EXCEPT ![retired[r]] = FALSE]
  /\ pending' = [pending EXCEPT ![retired[r]] = FALSE]
  /\ Goto(r, "publish")
  /\ UNCHANGED <<disk, config, index, boot, current, book, reloading, gate, status, request, sha, new,
                 retired>>

\* reject, on the bytes in sha[r].
ReloadReject(r) ==
  /\ job[r] = "reject"
  /\ book' = [book EXCEPT !.rejected = sha[r], !.error = TRUE]
  /\ Goto(r, "publish")
  /\ UNCHANGED <<disk, states, boot, current, reloading, gate, status, request, sha, new, retired>>

ReloadPublish(r) ==
  /\ job[r] = "publish"
  /\ status' = Record
  /\ Goto(r, "unlock")
  /\ UNCHANGED <<disk, states, boot, current, book, reloading, gate, request, sha, new, retired>>

\* A panic before the swap unwinds to catch_unwind (the poisoned gate counts as
\* free), which reads the file again for the hash to refuse.
ReloadPanic(r) ==
  /\ MayPanic
  /\ job[r] \in {"parse", "index", "watch", "close"}
  /\ gate' = FALSE
  /\ Goto(r, "reread")
  /\ UNCHANGED <<disk, states, boot, current, book, reloading, status, request, sha, new, retired>>
ReloadReread(r) ==
  /\ job[r] = "reread"
  /\ sha' = [sha EXCEPT ![r] = IF file \in Config THEN file ELSE None]
  /\ Goto(r, "reject")
  /\ UNCHANGED <<disk, states, boot, current, book, reloading, gate, status, request, new, retired>>

\* The gate is released ...
ReloadUnlock(r) ==
  /\ job[r] = "unlock"
  /\ gate' = FALSE
  /\ Goto(r, "end")
  /\ UNCHANGED <<disk, states, boot, current, book, reloading, status, request, sha, new, retired>>
\* Mutant: the flag is only cleared by a reload that swapped.
ReloadEndUnswapped(r) ==
  /\ job[r] = "end"
  /\ reloading' = (retired[r] = None)
  /\ Goto(r, "none")
  /\ sha' = [sha EXCEPT ![r] = None]
  /\ new' = [new EXCEPT ![r] = None]
  /\ retired' = [retired EXCEPT ![r] = None]
  /\ UNCHANGED <<disk, states, boot, current, book, gate, status, request>>

\* ... and ReloadingFlag is dropped, however the reload ended.
ReloadEnd(r) ==
  /\ job[r] = "end"
  /\ reloading' = FALSE
  /\ Goto(r, "none")
  /\ sha' = [sha EXCEPT ![r] = None]
  /\ new' = [new EXCEPT ![r] = None]
  /\ retired' = [retired EXCEPT ![r] = None]
  /\ UNCHANGED <<disk, states, boot, current, book, gate, status, request>>

-----------------------------------------------------------------------------
Edits == EditTree \/ \E x \in Config \cup {Missing, Unreadable} : EditConfig(x)
Boot == Ingest \/ StartWatcher \/ CloseBootGap \/ PublishFirst
Watchers == \E s \in State, full \in BOOLEAN : WatcherReload(s, full)
Check(r) == CheckRead(r) \/ CheckObserve(r) \/ CheckPublish(r) \/ CheckSwap(r)
Reload(r) ==
  \/ ReloadRead(r) \/ ReloadObserve(r) \/ ReloadParse(r) \/ ReloadIndex(r) \/ ReloadWatch(r)
  \/ ReloadClose(r) \/ ReloadStore(r) \/ ReloadBook(r) \/ ReloadCancel(r)
  \/ ReloadReject(r) \/ ReloadPublish(r) \/ ReloadUnlock(r) \/ ReloadEnd(r)
  \/ ReloadPanic(r) \/ ReloadReread(r)

Next == Edits \/ Boot \/ Watchers \/ \E r \in Request : Check(r) \/ Reload(r)
Spec == Init /\ [][Next]_vars

\* Blocking tasks and pools run, and requests keep coming.
FairSpec ==
  /\ Spec /\ WF_vars(Boot) /\ WF_vars(Watchers)
  /\ \A r \in Request : WF_vars(Check(r)) /\ WF_vars(Reload(r))

-----------------------------------------------------------------------------
(* Properties.                                                             *)

\* Every variable holds a value of its kind (host.rs).
TypeOK ==
  /\ file \in Config \cup {Missing, Unreadable}
  /\ tree \in 0..MaxTreeEdits /\ configEdits \in 0..MaxConfigEdits
  /\ config \in [State -> Valid] /\ index \in [State -> Index]
  /\ watching \in [State -> BOOLEAN] /\ pending \in [State -> BOOLEAN]
  /\ boot \subseteq {"ingest", "watch", "close", "publish"} /\ current \in State
  /\ book \in [serving : Valid, rejected : Config \cup {None}, error : BOOLEAN, watcher : State]
  /\ reloading \in BOOLEAN /\ gate \in BOOLEAN
  /\ status \in [serving : Valid, rejected : Config \cup {None}, error : BOOLEAN] \cup {None}
  /\ pc \in [Request -> {"idle", "observe", "publish", "swap"}]
  /\ seen \in [Request -> Config \cup {None}]
  /\ job \in [Request -> {"none", "read", "observe", "parse", "index", "watch", "close", "store",
                          "book", "cancel", "reject", "publish", "reread", "unlock", "end"}]
  /\ sha \in [Request -> Config \cup {None}] /\ new \in [Request -> State \cup {None}]
  /\ retired \in [Request -> State \cup {None}]

Reloading(r) == job[r] # "none"

\* One reload at a time: the flag and the gate exclude each other's holders, and
\* a reload never finds the gate taken.
OneReload ==
  /\ \A r, q \in Request : Reloading(r) /\ Reloading(q) => r = q
  /\ (\E r \in Request : Reloading(r)) <=> reloading
  /\ \A r \in Request : job[r] = "read" => ~gate

\* The state that serves was extracted under its own config: an adopted index is
\* valid for the config that adopts it.
ServedUnderOwnConfig ==
  /\ index[current].inputs = Inputs[config[current]]
  /\ index[current].patterns = Patterns[config[current]]

\* close_reload_gap: whatever happens during a swap, an edit of a source file is
\* in the index that serves or its watcher knows of it.
NoEditLost ==
  watching[current] /\ (current = 1 => "close" \notin boot) =>
    index[current].tree = tree \/ pending[current]

\* Book: the recorded hash describes the state that serves.
BookDescribesServed ==
  (\A r \in Request : job[r] # "book") =>
    book.serving = config[current] /\ book.watcher = current

\* Only the state that serves is watched once no reload is under way.
NoStrayWatcher ==
  ~reloading => \A s \in State : watching[s] => s = current

\* doctor's record is the book's, unless someone is about to publish it.
StatusSettles ==
  status = None \/ status = Record
    \/ \E r \in Request : pc[r] = "publish" \/ job[r] \in {"publish", "cancel"}

\* tools/call is answered once the snapshot is not of generation 0: it then
\* holds the whole workspace.
AnswersComplete == index[current].has # "some"

\* A valid config left in place is served in the end, if requests keep coming; or,
\* after a reload panicked, it is on record as refused and is not tried again.
ConfigFollowed ==
  <>[](file \in Valid => config[current] = file \/ (MayPanic /\ book.rejected = file /\ book.error))

\* What serves was extracted under the config it serves and has seen every
\* edit, across ingestion, adoption and the change of watchers.
ServedAsConfigured == TypeOK /\ ServedUnderOwnConfig /\ NoEditLost

\* The book and the one reload that may write it agree with what serves.
BookKept == OneReload /\ BookDescribesServed
=============================================================================
