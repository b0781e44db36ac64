------------------------------ MODULE Indexer ------------------------------
(***************************************************************************)
(* The index of one workspace state (`AppState`) and everything that       *)
(* changes it: the boot scan, the watcher's `schedule_reload`, the jobs it *)
(* puts on the rescan pool and the two reloads they run, the targeted      *)
(* `reload_paths` and the full differential `reload`.                      *)
(*                                                                         *)
(* Users edit files at any moment.  A reload therefore touches the disk in *)
(* separate steps, one per system call the code makes for a file (resolve, *)
(* crawl, stat, digest, pre-read stat, metadata, read, and again metadata  *)
(* and read on a retry), with edits in between.  A step serves all the     *)
(* paths of the reload at once: the calls for two different paths commute  *)
(* with each other and with edits of the other path, so every interleaving *)
(* of the parallel scan is equivalent to one of these.                     *)
(*                                                                         *)
(* A file is [content, stat, ver]: `stat` stands for (mtime, size), `ver`  *)
(* is the number of the edit that wrote it and only serves the properties. *)
(***************************************************************************)
EXTENDS Naturals, FiniteSets

CONSTANTS
  Path,        \* files of the workspace, inside a root and not excluded
  Plain,       \* contents every guard accepts
  Oversized,   \* contents refused by the size check on the metadata
  Guarded,     \* contents refused by the lexical guards, once read
  Governor,    \* Governor[p]: the alias config (tsconfig) of script p, or NoPath
  NoPath,
  Gone,        \* the content of an absent file, the facts of an unindexed one
  Worker,      \* threads of the rescan pool
  Main,        \* the thread that boots the state
  NoWorker,
  ParseFails,  \* the passes, of {"boot", "reload"}, a parse can fail in
  AliasRaces,    \* may alias configs and their scripts change while a reload is due?
  MaxEdits     \* bound: how many edits the users make

Content == Plain \cup Oversized \cup Guarded
Thread == Worker \cup {Main}

ASSUME ConstantsAssumption ==
  /\ Gone \notin Content
  /\ Plain \cap (Oversized \cup Guarded) = {}
  /\ NoPath \notin Path
  /\ Governor \in [Path -> Path \cup {NoPath}]
  /\ Main \notin Worker
  /\ NoWorker \notin Thread
  /\ ParseFails \subseteq {"boot", "reload"}
  /\ AliasRaces \in BOOLEAN
  /\ MaxEdits \in Nat

VARIABLES
  disk,      \* disk[p]: the file at p
  edits,     \* number of edits so far
  events,    \* changed paths the watcher has not handed to schedule_reload yet
  watcher,   \* "off" before FileWatcherService::spawn, then "on" or "failed"
  caller,    \* the watcher thread inside schedule_reload: "idle" or "swap"
  pending,   \* AppState.pending_reload_paths
  reloadPending, \* AppState.reload_pending: a job waits on the pool
  lock,      \* holder of AppState.reload_lock
  sig,       \* DifferentialVfs.signatures: sig[p] = [stat, content]; Gone: none
  memo,      \* DifferentialVfs.rejected: the stats p was refused with (0 or 1)
  digest,    \* AppState.alias_digests; Gone: unknown
  facts,     \* the snapshot: facts[p] = [content, alias, ver]
  rejected,  \* snapshot.health.rejected: rejected[p] is the reason, or "none"
  generation,
  pc, todo, gone, cand, forced, stat0, meta, got, out \* locals of each thread

shared == <<watcher, caller, pending, reloadPending, lock>>
index == <<sig, memo, digest, facts, rejected, generation>>
scan == <<todo, gone, cand, forced, stat0, meta, got, out>>
vars == <<disk, edits, events, shared, index, pc, scan>>

File == [content : Content \cup {Gone}, stat : 0..MaxEdits, ver : 0..MaxEdits]
Signature == [content : Content \cup {Gone}, stat : 0..MaxEdits]
Fact == [content : Content \cup {Gone}, alias : Content \cup {Gone}, ver : 0..MaxEdits]
Reason == {"Refused", "ReadError", "ParseFailed"}
Outcome == {"Ok", "RefusedLate", "Unread"} \cup Reason

NoFile == [content |-> Gone, stat |-> 0, ver |-> 0]
NoSig == [content |-> Gone, stat |-> 0]
NoFact == [content |-> Gone, alias |-> Gone, ver |-> 0]

Exists(p) == disk[p].content # Gone
Present == {p \in Path : Exists(p)}
Tracked == {p \in Path : sig[p].content # Gone}
Listed == {p \in Path : rejected[p] # "none"}
AliasConfig == {a \in Path : \E p \in Path : Governor[p] = a}

\* The alias content the extraction of p sees now (TsAliasIndex).
AliasOf(p) == IF Governor[p] = NoPath THEN Gone ELSE disk[Governor[p]].content

\* The boot pass is the one the main thread runs before the watcher starts.
Booting(w) == w = Main /\ watcher = "off"
Pass(w) == IF Booting(w) THEN "boot" ELSE "reload"

\* Nothing is left to do for the edits made so far.
Idle ==
  /\ \A w \in Thread : pc[w] \in {"idle", "done"}
  /\ watcher = "on"
  /\ caller = "idle" /\ events = {} /\ pending = {} /\ ~reloadPending

Init ==
  /\ disk \in [Path -> {NoFile} \cup [content : Plain, stat : {0}, ver : {0}]]
  /\ edits = 0 /\ events = {} /\ watcher = "off" /\ caller = "idle"
  /\ pending = {} /\ reloadPending = FALSE /\ lock = NoWorker
  /\ sig = [p \in Path |-> NoSig]
  /\ memo = [p \in Path |-> {}]
  /\ digest = [p \in Path |-> Gone]
  /\ facts = [p \in Path |-> NoFact]
  /\ rejected = [p \in Path |-> "none"]
  /\ generation = 0
  /\ pc = [w \in Thread |-> IF w = Main THEN "boot" ELSE "idle"]
  /\ todo = [w \in Thread |-> {}]
  /\ gone = [w \in Thread |-> {}]
  /\ cand = [w \in Thread |-> {}]
  /\ forced = [w \in Thread |-> {}]
  /\ stat0 = [w \in Thread |-> [p \in Path |-> {}]]
  /\ meta = [w \in Thread |-> [p \in Path |-> NoFile]]
  /\ got = [w \in Thread |-> [p \in Path |-> NoFact]]
  /\ out = [w \in Thread |-> [p \in Path |-> "Unread"]]

-----------------------------------------------------------------------------
(* The users' edits (the environment).                                     *)

\* The file system reports a change only to a watcher that is registered.
Notify(p) == events' = IF watcher = "on" THEN events \cup {p} ELSE events

Edit(p, c, stat) ==
  /\ edits < MaxEdits
  /\ p \in AliasConfig \/ Governor[p] # NoPath => AliasRaces \/ Idle
  /\ edits' = edits + 1
  /\ disk' = [disk EXCEPT ![p] = [content |-> c, stat |-> stat, ver |-> edits + 1]]
  /\ Notify(p)
  /\ UNCHANGED <<shared, index, pc, scan>>

\* Write or touch p: every write moves (mtime, size) to a new value.
Write(p) == \E c \in Content : Edit(p, c, edits + 1)

Delete(p) == Exists(p) /\ Edit(p, Gone, disk[p].stat)

\* A path whose deletion has been indexed comes back with the mtime and size
\* it had, and any content (a restored backup, a generated file).
Recreate(p) == \E c \in Content : ~Exists(p) /\ Idle /\ Edit(p, c, disk[p].stat)

-----------------------------------------------------------------------------
(* FileWatcherService::schedule_reload and the job it spawns.              *)

\* A debounced batch arrives: its paths go to the accumulator first.
AppendPaths(P) ==
  /\ caller = "idle" /\ watcher = "on"
  /\ P # {} /\ P \subseteq events
  /\ events' = events \ P
  /\ pending' = pending \cup P
  /\ caller' = "swap"
  /\ UNCHANGED <<disk, edits, watcher, reloadPending, lock, index, pc, scan>>

\* Mutant: a batch that finds a job running leaves its paths to it.
SwapFlagIfIdle ==
  /\ caller = "swap"
  /\ caller' = "idle"
  /\ reloadPending' = (reloadPending \/ \A w \in Worker : pc[w] = "idle")
  /\ UNCHANGED <<disk, edits, events, watcher, pending, lock, index, pc, scan>>

\* reload_pending.swap(true): a job is spawned unless one was already waiting.
SwapFlag ==
  /\ caller = "swap"
  /\ caller' = "idle"
  /\ reloadPending' = TRUE
  /\ UNCHANGED <<disk, edits, events, watcher, pending, lock, index, pc, scan>>

\* A pool thread takes the waiting job, which clears the flag first ...
StartJob(w) ==
  /\ w \in Worker /\ pc[w] = "idle" /\ reloadPending
  /\ reloadPending' = FALSE
  /\ pc' = [pc EXCEPT ![w] = "drain"]
  /\ UNCHANGED <<disk, edits, events, watcher, caller, pending, lock, index, scan>>

\* ... and then drains the accumulator; an empty drain ends the job.
DrainPaths(w) ==
  /\ pc[w] = "drain"
  /\ pending' = {}
  /\ todo' = [todo EXCEPT ![w] = pending]
  /\ pc' = [pc EXCEPT ![w] = IF pending = {} THEN "idle" ELSE "resolve"]
  /\ UNCHANGED <<disk, edits, events, watcher, caller, reloadPending, lock, index,
                 gone, cand, forced, stat0, meta, got, out>>

-----------------------------------------------------------------------------
(* WorkspaceIndexer::reload_paths and reload, up to apply_incremental.     *)

\* A ref change, a directory, an ignore file the check cannot resolve or a
\* missing parent directory in the batch: reload everything.
FallBack(w) ==
  /\ pc[w] = "resolve"
  /\ pc' = [pc EXCEPT ![w] = "fullLock"]
  /\ todo' = [todo EXCEPT ![w] = {}]
  /\ UNCHANGED <<disk, edits, events, shared, index,
                 gone, cand, forced, stat0, meta, got, out>>

\* Mutant: a path that no longer resolves is skipped.
ResolveExisting(w) ==
  /\ pc[w] = "resolve"
  /\ pc' = [pc EXCEPT ![w] = "pathsLock"]
  /\ todo' = [todo EXCEPT ![w] = @ \cap Present]
  /\ UNCHANGED <<disk, edits, events, shared, index,
                 gone, cand, forced, stat0, meta, got, out>>

\* Each path is a candidate if it exists and deleted if it does not; this is
\* decided before the lock is taken.
ResolvePaths(w) ==
  /\ pc[w] = "resolve"
  /\ pc' = [pc EXCEPT ![w] = "pathsLock"]
  /\ todo' = [todo EXCEPT ![w] = @ \cap Present]
  /\ gone' = [gone EXCEPT ![w] = todo[w] \ Present]
  /\ UNCHANGED <<disk, edits, events, shared, index,
                 cand, forced, stat0, meta, got, out>>

\* Mutant: reloads do not exclude each other.
LockReloadShared(w) ==
  /\ pc[w] \in {"boot", "fullLock", "pathsLock"}
  /\ lock' = w
  /\ pc' = [pc EXCEPT ![w] = CASE pc[w] = "boot" -> "bootCrawl"
                               [] pc[w] = "fullLock" -> "crawl"
                               [] pc[w] = "pathsLock" -> "filter"]
  /\ UNCHANGED <<disk, edits, events, watcher, caller, pending, reloadPending, index, scan>>

LockReload(w) ==
  /\ pc[w] \in {"boot", "fullLock", "pathsLock"}
  /\ lock = NoWorker
  /\ lock' = w
  /\ pc' = [pc EXCEPT ![w] = CASE pc[w] = "boot" -> "bootCrawl"
                               [] pc[w] = "fullLock" -> "crawl"
                               [] pc[w] = "pathsLock" -> "filter"]
  /\ UNCHANGED <<disk, edits, events, watcher, caller, pending, reloadPending, index, scan>>

\* The full reload: what is tracked or listed as rejected and no longer on
\* disk is deleted; the refusal memo only keeps what the crawl found.
Crawl(w) ==
  /\ pc[w] = "crawl"
  /\ pc' = [pc EXCEPT ![w] = "filter"]
  /\ todo' = [todo EXCEPT ![w] = Present]
  /\ gone' = [gone EXCEPT ![w] = (Tracked \cup Listed) \ Present]
  /\ memo' = [p \in Path |-> IF Exists(p) THEN memo[p] ELSE {}]
  /\ UNCHANGED <<disk, edits, events, shared, sig, digest, facts, rejected, generation,
                 cand, forced, stat0, meta, got, out>>

-----------------------------------------------------------------------------
(* apply_incremental.                                                      *)

UnchangedFast(p) == p \in Tracked /\ sig[p].stat = disk[p].stat
RejectionUnchanged(p) == disk[p].stat \in memo[p]

\* The thread ends its reload (or its boot): locals reset, lock released.
Finish(w) ==
  /\ pc' = [pc EXCEPT ![w] = IF w = Main THEN "done" ELSE "idle"]
  /\ lock' = NoWorker
  /\ todo' = [todo EXCEPT ![w] = {}]
  /\ gone' = [gone EXCEPT ![w] = {}]
  /\ cand' = [cand EXCEPT ![w] = {}]
  /\ forced' = [forced EXCEPT ![w] = {}]
  /\ stat0' = [stat0 EXCEPT ![w] = [p \in Path |-> {}]]
  /\ meta' = [meta EXCEPT ![w] = [p \in Path |-> NoFile]]
  /\ got' = [got EXCEPT ![w] = [p \in Path |-> NoFact]]
  /\ out' = [out EXCEPT ![w] = [p \in Path |-> "Unread"]]

\* Mutant: a path taken for deleted is not looked at again.
FilterTrusting(w) ==
  /\ pc[w] = "filter"
  /\ pc' = [pc EXCEPT ![w] = "alias"]
  /\ cand' = [cand EXCEPT ![w] =
       {p \in todo[w] \cap Present : ~UnchangedFast(p) /\ ~RejectionUnchanged(p)}]
  /\ UNCHANGED <<disk, edits, events, shared, index, todo, gone, forced, stat0, meta, got, out>>

\* Candidates: stat moved since the VFS, or the refusal, last saw the file. A
\* path taken for deleted that exists again is a candidate.
Filter(w) ==
  /\ pc[w] = "filter"
  /\ pc' = [pc EXCEPT ![w] = "alias"]
  /\ cand' = [cand EXCEPT ![w] =
       {p \in todo[w] \cap Present : ~UnchangedFast(p) /\ ~RejectionUnchanged(p)}
         \cup (gone[w] \cap Present)]
  /\ gone' = [gone EXCEPT ![w] = @ \ Present]
  /\ UNCHANGED <<disk, edits, events, shared, index, todo, forced, stat0, meta, got, out>>

\* Alias configs among the changed paths whose digest moved (or that are gone)
\* force the tracked scripts they govern into the pass.
TouchedConfigs(w) == (cand[w] \cup gone[w]) \cap AliasConfig
ForcedScripts(w) ==
  {p \in Tracked : /\ Governor[p] \in TouchedConfigs(w)
                   /\ AliasOf(p) = Gone \/ digest[Governor[p]] # AliasOf(p)}

AliasScripts(w) ==
  /\ pc[w] = "alias"
  /\ digest' = [a \in Path |-> IF a \in TouchedConfigs(w) THEN disk[a].content ELSE digest[a]]
  /\ UNCHANGED <<disk, edits, events, watcher, caller, pending, reloadPending,
                 sig, memo, facts, rejected, generation>>
  /\ LET force == ForcedScripts(w)
     IN \/ /\ cand[w] \cup gone[w] \cup force = {}
           /\ Finish(w)
        \/ /\ cand[w] \cup gone[w] \cup force # {}
           /\ forced' = [forced EXCEPT ![w] = force]
           /\ cand' = [cand EXCEPT ![w] = @ \cup force]
           /\ pc' = [pc EXCEPT ![w] = "stat"]
           /\ UNCHANGED <<lock, todo, gone, stat0, meta, got, out>>

-----------------------------------------------------------------------------
(* run_scan_pass and process_file.                                         *)

\* The stat a refusal will be remembered by, taken before the file is read.
ScanStat(w) ==
  /\ pc[w] = "stat"
  /\ pc' = [pc EXCEPT ![w] = "meta"]
  /\ stat0' = [stat0 EXCEPT ![w] =
       [p \in Path |-> IF p \in cand[w] /\ Exists(p) THEN {disk[p].stat} ELSE {}]]
  /\ UNCHANGED <<disk, edits, events, shared, index, todo, gone, cand, forced, meta, got, out>>

ScanMeta(w) ==
  /\ pc[w] = "meta"
  /\ pc' = [pc EXCEPT ![w] = "read"]
  /\ meta' = [meta EXCEPT ![w] = [p \in Path |-> IF p \in cand[w] THEN disk[p] ELSE NoFile]]
  /\ UNCHANGED <<disk, edits, events, shared, index, todo, gone, cand, forced, stat0, got, out>>

\* What process_file answers for metadata m and the bytes c read after it.
Verdict(m, c) ==
  CASE m.content = Gone -> "ReadError"
    [] m.content \in Oversized -> "Refused"
    [] m.content \in Content \ Oversized /\ c = Gone -> "ReadError"
    [] m.content \in Content \ Oversized /\ c \in Guarded -> "Refused"
    [] OTHER -> "Ok"

\* The content is what was read, the alias what the lazily loaded TsAliasIndex holds.
ReadNow(p) == [content |-> disk[p].content, alias |-> AliasOf(p), ver |-> disk[p].ver]

\* The sets of files whose parse may fail among those that pass the guards.
MayFail(w, ok) == IF Pass(w) \in ParseFails THEN SUBSET ok ELSE {{}}

ScanRead(w) ==
  /\ pc[w] = "read"
  /\ LET verdict(p) == Verdict(meta[w][p], disk[p].content)
         ok == {p \in cand[w] : verdict(p) = "Ok"}
     IN \E failed \in MayFail(w, ok) :
          /\ out' = [out EXCEPT ![w] =
               [p \in Path |-> IF p \notin cand[w] THEN "Unread"
                               ELSE IF p \in failed THEN "ParseFailed" ELSE verdict(p)]]
          /\ pc' = [pc EXCEPT ![w] = IF failed = {} THEN "apply" ELSE "retryMeta"]
  /\ got' = [got EXCEPT ![w] = [p \in Path |-> IF p \in cand[w] THEN ReadNow(p) ELSE NoFact]]
  /\ UNCHANGED <<disk, edits, events, shared, index, todo, gone, cand, forced, stat0, meta>>

\* The files whose parse failed are processed once more, alone; the aliases
\* are not loaded again.
Retried(w) == {p \in cand[w] : out[w][p] = "ParseFailed"}

RetryMeta(w) ==
  /\ pc[w] = "retryMeta"
  /\ pc' = [pc EXCEPT ![w] = "retryRead"]
  /\ meta' = [meta EXCEPT ![w] =
       [p \in Path |-> IF p \in Retried(w) THEN disk[p] ELSE meta[w][p]]]
  /\ UNCHANGED <<disk, edits, events, shared, index, todo, gone, cand, forced, stat0, got, out>>

RetryRead(w) ==
  /\ pc[w] = "retryRead"
  /\ pc' = [pc EXCEPT ![w] = "apply"]
  /\ LET verdict(p) == Verdict(meta[w][p], disk[p].content)
         ok == {p \in Retried(w) : verdict(p) = "Ok"}
     IN \E failed \in SUBSET ok :
          out' = [out EXCEPT ![w] =
            [p \in Path |->
               IF p \notin Retried(w) \/ p \in failed THEN out[w][p]
               ELSE IF verdict(p) = "Refused" THEN "RefusedLate" ELSE verdict(p)]]
  /\ got' = [got EXCEPT ![w] =
       [p \in Path |-> IF p \in Retried(w)
                       THEN [ReadNow(p) EXCEPT !.alias = got[w][p].alias]
                       ELSE got[w][p]]]
  /\ UNCHANGED <<disk, edits, events, shared, index, todo, gone, cand, forced, stat0, meta>>

-----------------------------------------------------------------------------
(* What a finished pass does to the VFS and the snapshot.                  *)

Indexed(w) == {p \in cand[w] : out[w][p] = "Ok"}
Failed(w) == {p \in cand[w] : out[w][p] = "ParseFailed"}
NewSigNow(w, p) == [content |-> got[w][p].content, stat |-> disk[p].stat] \* Mutant: stat after the read.
NewSig(w, p) == [content |-> got[w][p].content, stat |-> meta[w][p].stat]

\* Mutant: the outcome of the scan is listed as it is.
PassReasonRaw(w, p) == IF out[w][p] = "Ok" THEN "none" ELSE out[w][p]

\* health.rejected after record_rejection: the reason of every file that failed.
PassReason(w, p) ==
  CASE out[w][p] \in {"Refused", "RefusedLate"} -> "Refused"
    [] out[w][p] \in {"ReadError", "ParseFailed"} -> out[w][p]
    [] OTHER -> "none"

\* note_stable_rejects: only first-pass refusals by the guards are remembered.
NotedMemo(w, p) == IF out[w][p] = "Refused" /\ stat0[w][p] # {} THEN stat0[w][p] ELSE memo[p]

\* VFS.upsert reports a content change, or the path was forced.
Changed(w) ==
  {p \in Indexed(w) : sig[p].content # got[w][p].content \/ p \in forced[w]}

\* replace_rejected: the paths of this pass take this pass's outcome.
Rejections(w) ==
  [p \in Path |-> IF p \in cand[w] \cup gone[w] THEN PassReason(w, p) ELSE rejected[p]]

ApplyIncremental(w) ==
  /\ pc[w] = "apply" /\ ~Booting(w)
  /\ sig' = [p \in Path |-> IF p \in gone[w] THEN NoSig
                            ELSE IF p \in Indexed(w) THEN NewSig(w, p) ELSE sig[p]]
  /\ memo' = [p \in Path |-> IF p \in gone[w] \cup Indexed(w) THEN {} ELSE NotedMemo(w, p)]
  /\ \/ /\ Changed(w) = {} /\ gone[w] = {} /\ Rejections(w) = rejected
        /\ UNCHANGED <<facts, rejected, generation>>
     \/ /\ ~(Changed(w) = {} /\ gone[w] = {} /\ Rejections(w) = rejected)
        /\ rejected' = Rejections(w)
        /\ facts' = [p \in Path |-> IF p \in Changed(w) THEN got[w][p]
                                    ELSE IF p \in gone[w]
                                    THEN [NoFact EXCEPT !.ver = facts[p].ver]
                                    ELSE facts[p]]
        /\ generation' = generation + 1
  /\ Finish(w)
  /\ UNCHANGED <<disk, edits, events, watcher, caller, pending, reloadPending, digest>>

-----------------------------------------------------------------------------
(* Boot: ingest_blocking, then start_watcher_blocking.                     *)

BootCrawl(w) ==
  /\ pc[w] = "bootCrawl"
  /\ pc' = [pc EXCEPT ![w] = "stat"]
  /\ cand' = [cand EXCEPT ![w] = Present]
  /\ UNCHANGED <<disk, edits, events, shared, index, todo, gone, forced, stat0, meta, got, out>>

\* build_snapshot_from_files folds every fragment, a failed parse as no facts,
\* and records the signature of each.
BuildSnapshot(w) ==
  /\ pc[w] = "apply" /\ Booting(w)
  /\ sig' = [p \in Path |-> IF p \in Indexed(w) \cup Failed(w) THEN NewSig(w, p) ELSE sig[p]]
  /\ memo' = [p \in Path |-> IF p \in Indexed(w) \cup Failed(w) THEN {} ELSE NotedMemo(w, p)]
  /\ facts' = [p \in Path |-> IF p \in Indexed(w) THEN got[w][p] ELSE NoFact]
  /\ rejected' = [p \in Path |-> PassReason(w, p)]
  /\ generation' = generation + 1
  /\ lock' = NoWorker
  /\ pc' = [pc EXCEPT ![w] = "watch"]
  /\ cand' = [cand EXCEPT ![w] = {}]
  /\ stat0' = [stat0 EXCEPT ![w] = [p \in Path |-> {}]]
  /\ meta' = [meta EXCEPT ![w] = [p \in Path |-> NoFile]]
  /\ got' = [got EXCEPT ![w] = [p \in Path |-> NoFact]]
  /\ out' = [out EXCEPT ![w] = [p \in Path |-> "Unread"]]
  /\ UNCHANGED <<disk, edits, events, watcher, caller, pending, reloadPending, digest,
                 todo, gone, forced>>

\* Mutant: no reload once the watches are live.
StartWatcherOnly(w) ==
  /\ pc[w] = "watch"
  /\ watcher' \in {"on", "failed"}
  /\ pc' = [pc EXCEPT ![w] = "done"]
  /\ UNCHANGED <<disk, edits, events, caller, pending, reloadPending, lock, index, scan>>

\* Once the watches are live, one full reload closes the gap since the scan.
StartWatcher(w) ==
  /\ pc[w] = "watch"
  /\ \/ watcher' = "on" /\ pc' = [pc EXCEPT ![w] = "fullLock"]
     \/ watcher' = "failed" /\ pc' = [pc EXCEPT ![w] = "done"]
  /\ UNCHANGED <<disk, edits, events, caller, pending, reloadPending, lock, index, scan>>

-----------------------------------------------------------------------------
UserEdit == \E p \in Path : Write(p) \/ Delete(p) \/ Recreate(p)
Schedule == (\E P \in SUBSET Path : AppendPaths(P)) \/ SwapFlag
Job(w) == StartJob(w) \/ DrainPaths(w) \/ FallBack(w) \/ ResolvePaths(w)
Reload(w) == LockReload(w) \/ Crawl(w) \/ Filter(w) \/ AliasScripts(w)
Scan(w) == ScanStat(w) \/ ScanMeta(w) \/ ScanRead(w) \/ RetryMeta(w) \/ RetryRead(w)
Boot(w) == BootCrawl(w) \/ BuildSnapshot(w) \/ StartWatcher(w)
Step(w) == Job(w) \/ Reload(w) \/ Scan(w) \/ ApplyIncremental(w) \/ Boot(w)

\* Users may stop editing for good: then everything else may come to rest.
Next == UserEdit \/ Schedule \/ \E w \in Thread : Step(w)

\* Every thread that can go on does: the operating system schedules the
\* watcher thread, the main thread and the pool's threads, and a mutex is
\* eventually granted to each waiting thread because at most the few threads
\* that were spawned before it compete for it.
Fairness == WF_vars(Schedule) /\ \A w \in Thread : WF_vars(Step(w)) /\ SF_vars(LockReload(w))

Spec == Init /\ [][Next]_vars
FairSpec == Spec /\ Fairness

-----------------------------------------------------------------------------
(* Properties.                                                             *)

\* Every variable holds a value of its kind (state.rs, vfs.rs, health.rs).
TypeOK ==
  /\ disk \in [Path -> File]
  /\ edits \in 0..MaxEdits
  /\ events \subseteq Path /\ pending \subseteq Path
  /\ watcher \in {"off", "on", "failed"} /\ caller \in {"idle", "swap"}
  /\ reloadPending \in BOOLEAN
  /\ lock \in Thread \cup {NoWorker}
  /\ sig \in [Path -> Signature]
  /\ memo \in [Path -> SUBSET (0..MaxEdits)]
  /\ digest \in [Path -> Content \cup {Gone}]
  /\ facts \in [Path -> Fact]
  /\ rejected \in [Path -> Reason \cup {"none"}]
  /\ generation \in Nat
  /\ pc \in [Thread -> {"boot", "bootCrawl", "watch", "idle", "done", "drain", "resolve",
                        "fullLock", "pathsLock", "crawl", "filter", "alias", "stat",
                        "meta", "read", "retryMeta", "retryRead", "apply"}]
  /\ todo \in [Thread -> SUBSET Path] /\ gone \in [Thread -> SUBSET Path]
  /\ cand \in [Thread -> SUBSET Path] /\ forced \in [Thread -> SUBSET Path]
  /\ stat0 \in [Thread -> [Path -> SUBSET (0..MaxEdits)]]
  /\ meta \in [Thread -> [Path -> File]]
  /\ got \in [Thread -> [Path -> Fact]]
  /\ out \in [Thread -> [Path -> Outcome]]

\* schedule_reload never strands a path: whatever sits in pending_reload_paths
\* has a job that will drain it, waiting, started, or about to be spawned.
PendingOwned ==
  pending # {} => \/ reloadPending
                  \/ caller = "swap"
                  \/ \E w \in Worker : pc[w] = "drain"

\* What the VFS concludes from a stat is true of the file on disk: an unchanged
\* (mtime, size) means the hashed bytes are the ones on disk, and a remembered
\* refusal is still a refusal.  process_file stats before it reads, so an edit
\* that lands during the scan can only make the stored stat too old.
StatSound ==
  \A p \in Present :
    /\ UnchangedFast(p) => sig[p].content = disk[p].content
    /\ RejectionUnchanged(p) => disk[p].content \in Oversized \cup Guarded

\* The facts a full rebuild would fold for p.
Rebuilt(p) ==
  IF disk[p].content \in Plain
  THEN [content |-> disk[p].content, alias |-> AliasOf(p)]
  ELSE [content |-> Gone, alias |-> Gone]
Current(p) == [content |-> facts[p].content, alias |-> facts[p].alias] = Rebuilt(p)

\* At rest, every file either has exactly the facts a rebuild would give it, or
\* is listed as rejected (IndexHealth: such a file "is always visible").
QuietVisible ==
  Idle => \A p \in Path : Current(p) \/ p \in Listed

\* At rest, the rejected list is exact: what it lists exists, and a listed
\* refusal is a file the guards refuse.
RejectedExact ==
  Idle =>
    \A p \in Listed : /\ Exists(p)
                      /\ rejected[p] # "ReadError"
                      /\ rejected[p] = "Refused" => disk[p].content \notin Plain

\* reload_lock: a slower pass never installs facts read before those of a pass
\* that finished first (invariant I2).
FactsNeverRegress == [][\A p \in Path : facts'[p].ver >= facts[p].ver]_facts

\* Once the users stop editing, the index reaches a state with every file
\* current or listed and stays there, unless the watcher could not start.
Converges == <>[](watcher = "failed" \/ \A p \in Path : Current(p) \/ p \in Listed)

\* Invariant I2 of the determinism tests: an incremental reload ends in the
\* snapshot a full rebuild would produce.
IncrementalEqualsRebuild ==
  Idle => \A p \in Path : Current(p)

\* What the index says of itself at rest is the truth: nothing is missing
\* without being listed, and nothing is listed without a reason.
RestIsHonest == QuietVisible /\ RejectedExact

----------------------------------------------------------------------------
(* The indexer implements the index that FollowedIndex promises.            *)

(* A thread has seen the files it read in this pass, and from `Filter` on,  *)
(* which looks once more, those that are absent.                            *)
HasLooked(w) == pc[w] \in {"alias", "stat", "meta", "read", "retryMeta", "retryRead", "apply"}
Seen(w) ==
  {[path |-> p, content |-> got[w][p].content, ver |-> IF got[w][p].content = Gone THEN 0 ELSE got[w][p].ver] :
     p \in {q \in Path : out[w][q] # "Unread"}}
  \cup {[path |-> p, content |-> Gone, ver |-> 0] : p \in IF HasLooked(w) THEN gone[w] ELSE {}}

(* A file that grows too large once its metadata has been taken is read and *)
(* indexed all the same.  A script whose alias config changed is read as    *)
(* long as it is tracked, even when the same pass found it deleted.         *)
Followed == INSTANCE FollowedIndex WITH
  Readable <- Plain \cup Oversized,
  Reread <- {p \in Path : Governor[p] # NoPath},
  disk <- [p \in Path |-> [content |-> disk[p].content, ver |-> disk[p].ver]],
  readings <- UNION {Seen(w) : w \in Thread},
  shown <- [p \in Path |-> [content |-> facts[p].content, ver |-> facts[p].ver]],
  listed <- Listed

(* apply_incremental, process_file and the boot scan together: whatever the *)
(* interleaving of edits, events, jobs and reloads, the snapshot and its    *)
(* rejected list change only by readings really taken, none older than what *)
(* it replaces, and a file of an update is shown as read, removed or listed *)
(* (for parses that do not fail at boot).                                   *)
FollowsFiles == Followed!Spec
=============================================================================
