----------------------------- MODULE IndexCache -----------------------------
(***************************************************************************)
(* The persistent index cache of one workspace: a SQLite database shared   *)
(* by every process that indexes the workspace (meshd, a standalone        *)
(* server, the command line), each with its own configuration.             *)
(*                                                                         *)
(* One action is one SQLite transaction or one step a process takes        *)
(* between two: creating the layout, a lookup of a scan, the batch at its  *)
(* end, the size check after it, each round of eviction.  A row takes one  *)
(* page, and sizes are counted in pages.                                   *)
(***************************************************************************)
EXTENDS Naturals, FiniteSets, FiniteSetsExt, Functions

CONSTANTS
    Procs,      \* the processes
    Files,      \* the files of the workspace
    Contents,   \* what a file can hold
    Configs,    \* what the extraction depends on besides the file
    ConfigOf,   \* the configuration each process was started with
    Quota,      \* max_size_bytes
    Target,     \* 80% of it
    MinWrites,  \* QUOTA_CHECK_MIN_WRITES
    Batch,      \* EVICTION_BATCH
    MaxTime,    \* bound: milliseconds that pass
    MaxWal,     \* WAL_SIZE_LIMIT_BYTES: a checkpoint shrinks the WAL to it
    MaxCrashes  \* bound: processes that die

ASSUME QuotaAssumption ==
    /\ Target \in Nat /\ Quota \in Nat /\ Target < Quota
    /\ {MinWrites, MaxTime, MaxWal, MaxCrashes} \subseteq Nat
    /\ Batch \in Nat \ {0}
    /\ ConfigOf \in [Procs -> Configs]

Inputs == [file : Files, content : Contents, config : Configs]

VARIABLES
    tables,     \* "none", "old" (another layout), or "current": user_version
    autovac,    \* PRAGMA auto_vacuum is INCREMENTAL
    rows,       \* file_index_cache: key -> payload
    access,     \* file_index_access: key -> last_accessed_at, rank of payload_rowid
    free,       \* pages on the freelist
    wal,        \* pages in the WAL
    now,        \* unix_now_ms
    disk,       \* what the files hold
    pc,         \* where each process is
    touched,    \* keys each process was served since its last batch
    missed,     \* what its scan extracted, to be written by the batch
    wrong,      \* a lookup was given what its own extraction would not give
    unchecked,  \* a process died or failed between its batch and the check
    crashes

dbVars == <<tables, autovac, rows, access, free, wal>>
vars == <<dbVars, now, disk, pc, touched, missed, wrong, unchecked, crashes>>

Live == Cardinality(DOMAIN rows)
Size == Live + free + wal

NoRows == [k \in {} |-> 0]

Init ==
    /\ tables \in {"none", "old"}
    /\ autovac = (tables = "none")
    /\ rows = NoRows /\ access = NoRows
    /\ free = 0 /\ wal = 0 /\ now = 0
    /\ disk \in [Files -> Contents]
    /\ pc = [p \in Procs |-> "closed"]
    /\ touched = [p \in Procs |-> {}] /\ missed = [p \in Procs |-> {}]
    /\ wrong = FALSE
    /\ unchecked = FALSE /\ crashes = 0

To(p, where) == pc' = [pc EXCEPT ![p] = where]

------------------------------------------------------------------------------
(* Opening *)

(* One pass of ensure_schema, under the write lock: the layout is current, *)
(* or the tables are dropped, and created when incremental vacuum is on or *)
(* this is the second pass.                                                *)
Creates(p) == autovac \/ pc[p] = "pass1"

(* Mutant: the second pass does not look at user_version again.            *)
EnsureSchemaBlind(p) ==
    /\ pc[p] = "pass1" \/ (pc[p] = "closed" /\ tables # "current")
    /\ tables' = IF Creates(p) THEN "current" ELSE "none"
    /\ rows' = NoRows /\ access' = NoRows
    /\ To(p, IF Creates(p) THEN "quota" ELSE "vacuum")
    /\ UNCHANGED <<autovac, free, wal, now, disk, touched, missed, wrong, unchecked, crashes>>

EnsureSchema(p) ==
    /\ pc[p] \in {"closed", "pass1"}
    /\ tables # "current"
    /\ tables' = IF Creates(p) THEN "current" ELSE "none"
    /\ rows' = NoRows /\ access' = NoRows
    /\ To(p, IF Creates(p) THEN "quota" ELSE "vacuum")
    /\ UNCHANGED <<autovac, free, wal, now, disk, touched, missed, wrong, unchecked, crashes>>

SchemaThere(p) ==
    /\ pc[p] \in {"closed", "pass1"} /\ tables = "current"
    /\ To(p, "quota")
    /\ UNCHANGED <<dbVars, now, disk, touched, missed, wrong, unchecked, crashes>>

(* VACUUM outside a transaction; it may fail while others read.            *)
SwitchToIncremental(p) ==
    /\ pc[p] = "vacuum"
    /\ autovac' \in {autovac, TRUE}
    /\ To(p, "pass1")
    /\ UNCHANGED <<tables, rows, access, free, wal, now, disk, touched, missed, wrong,
                   unchecked, crashes>>

------------------------------------------------------------------------------
(* A scan *)

(* Mutant: the fingerprint of the configuration is left out.               *)
KeyWithoutConfig(i) == [i EXCEPT !.config = CHOOSE c \in Configs : TRUE]

(* Everything the extraction depends on is in the key.                     *)
KeyFor(i) == i

Asks(p, f) == [file |-> f, content |-> disk[f], config |-> ConfigOf[p]]

Get(p) ==
    /\ pc[p] = "ready"
    /\ \E f \in Files :
        LET i == Asks(p, f) k == KeyFor(i) hit == k \in DOMAIN rows IN
        /\ touched' = IF hit THEN [touched EXCEPT ![p] = @ \union {k}] ELSE touched
        /\ \E new \in IF hit THEN {{}} ELSE {{}, {i}} :   \* a failed parse is not cached
             missed' = [missed EXCEPT ![p] = @ \union new]
        /\ wrong' = (wrong \/ (hit /\ rows[k] # i))
    /\ UNCHANGED <<dbVars, now, disk, pc, unchecked, crashes>>

(* INSERT OR REPLACE of each entry.                                        *)
Written(is) ==
    LET ks == {KeyFor(i) : i \in is}
    IN  [k \in ks \union DOMAIN rows |->
            IF k \in ks THEN CHOOSE i \in is : KeyFor(i) = k ELSE rows[k]]

(* Rowids are compared and never used otherwise: their ranks are kept.     *)
Ranked(acc) ==
    [k \in DOMAIN acc |->
        [acc[k] EXCEPT !.rowid = Cardinality({l \in DOMAIN acc : acc[l].rowid <= acc[k].rowid})]]

(* Mutant: the access times are upserted.                                  *)
AccessedUpsert(is, ts) ==
    LET ks == {KeyFor(i) : i \in is} \union ts
        order == CHOOSE o \in [ks -> 1..Cardinality(ks)] : IsInjective(o)
        next == Cardinality(DOMAIN access)
    IN  Ranked([k \in ks \union DOMAIN access |->
            IF k \in ks THEN [at |-> now, rowid |-> next + order[k]] ELSE access[k]])

(* An access row for each entry written, under the rowids that follow the  *)
(* largest one in some order; a key that was only read gets a new time if  *)
(* its row is still there, and is not brought back.                        *)
Accessed(is, ts) ==
    LET ks == {KeyFor(i) : i \in is}
        order == CHOOSE o \in [ks -> 1..Cardinality(ks)] : IsInjective(o)
        next == Cardinality(DOMAIN access)
    IN  Ranked([k \in ks \union DOMAIN access |->
            IF k \in ks THEN [at |-> now, rowid |-> next + order[k]]
            ELSE IF k \in ts THEN [access[k] EXCEPT !.at = now]
            ELSE access[k]])

Flush(p) == touched' = [touched EXCEPT ![p] = {}] /\ missed' = [missed EXCEPT ![p] = {}]

(* The transaction of put_batch.                                           *)
PutBatch(p) ==
    /\ pc[p] = "ready" /\ missed[p] \union touched[p] # {}
    /\ rows' = Written(missed[p])
    /\ access' = Accessed(missed[p], touched[p])
    /\ LET grown == Cardinality(DOMAIN rows') - Live IN
        /\ free' = IF grown >= free THEN 0 ELSE free - grown
        /\ wal' = Min({wal + 1, MaxWal})
    /\ Flush(p)
    /\ To(p, IF Cardinality(missed[p]) > MinWrites THEN "quota" ELSE "check")
    /\ UNCHANGED <<tables, autovac, now, disk, wrong, unchecked, crashes>>

(* SQLITE_BUSY past the timeout: nothing is written, the scan goes on.     *)
PutFails(p) ==
    /\ pc[p] = "ready" /\ missed[p] \union touched[p] # {}
    /\ Flush(p)
    /\ UNCHANGED <<dbVars, now, disk, pc, wrong, unchecked, crashes>>

------------------------------------------------------------------------------
(* The quota *)

(* After a small batch the size of the files is looked at.                 *)
CheckSize(p) ==
    /\ pc[p] = "check"
    /\ To(p, IF Size > Quota THEN "quota" ELSE "ready")
    /\ UNCHANGED <<dbVars, now, disk, touched, missed, wrong, unchecked, crashes>>

(* A checkpoint empties the WAL unless another process reads it.           *)
EnforceQuota(p) ==
    /\ pc[p] = "quota"
    /\ wal' \in {0, wal}
    /\ To(p, IF Live + free + wal' <= Quota THEN "ready" ELSE "evict")
    /\ unchecked' = IF Live + free + wal' <= Quota THEN FALSE ELSE unchecked
    /\ UNCHANGED <<tables, autovac, rows, access, free, now, disk, touched, missed, wrong, crashes>>

DivCeil(a, b) == (a + b - 1) \div b
Clamp(n, lo, hi) == IF n < lo THEN lo ELSE IF n > hi THEN hi ELSE n

(* How many entries to delete: the excess over the average entry.          *)
EvictionBatch(live, target, entries) ==
    LET excess == IF live > target THEN live - target ELSE 0
        perEntry == Max({live \div Max({entries, 1}), 1})
    IN  Clamp(DivCeil(excess, perEntry), 1, Batch)

Older(k, l) ==
    \/ access[k].at < access[l].at
    \/ access[k].at = access[l].at /\ access[k].rowid < access[l].rowid

Restricted(f, ks) == [k \in DOMAIN f \ ks |-> f[k]]

(* One round, under the write lock.                                        *)
Evict(p) ==
    /\ pc[p] = "evict" /\ Live > Target
    /\ LET entries == DOMAIN access
           n == EvictionBatch(Live, Target, Cardinality(entries))
           gone == {k \in entries : Cardinality({l \in entries : Older(l, k)}) < n}
       IN  /\ rows' = Restricted(rows, gone)
           /\ access' = Ranked(Restricted(access, gone))
           /\ free' = free + Cardinality(gone \intersect DOMAIN rows)
    /\ wal' = Min({wal + 1, MaxWal})
    /\ UNCHANGED <<tables, autovac, now, disk, pc, touched, missed, wrong, unchecked, crashes>>

(* Live data fits: the freed pages go back and the WAL is truncated.       *)
IncrementalVacuum(p) ==
    /\ pc[p] = "evict" /\ Live <= Target
    /\ free' = IF autovac THEN 0 ELSE free
    /\ wal' \in {0, wal}
    /\ To(p, "ready")
    /\ unchecked' = FALSE
    /\ UNCHANGED <<tables, autovac, rows, access, now, disk, touched, missed, wrong, crashes>>

(* A transaction of the eviction fails: the rest is left for a later check.*)
EnforceFails(p) ==
    /\ pc[p] = "evict" /\ unchecked' = TRUE
    /\ To(p, "ready")
    /\ UNCHANGED <<dbVars, now, disk, touched, missed, wrong, crashes>>

------------------------------------------------------------------------------
(* Around it *)

Tick ==
    /\ now < MaxTime
    /\ now' = now + 1
    /\ UNCHANGED <<dbVars, disk, pc, touched, missed, wrong, unchecked, crashes>>

Edit ==
    /\ \E f \in Files, c \in Contents : disk' = [disk EXCEPT ![f] = c]
    /\ UNCHANGED <<dbVars, now, pc, touched, missed, wrong, unchecked, crashes>>

(* A process ends; whatever it had not committed is gone.                  *)
Crash(p) ==
    /\ crashes < MaxCrashes /\ pc[p] # "closed"
    /\ crashes' = crashes + 1
    /\ unchecked' = (unchecked \/ pc[p] \in {"check", "quota", "evict"})
    /\ To(p, "closed")
    /\ Flush(p)
    /\ UNCHANGED <<dbVars, now, disk, wrong>>

Next ==
    \/ \E p \in Procs :
        \/ EnsureSchema(p) \/ SchemaThere(p) \/ SwitchToIncremental(p)
        \/ Get(p) \/ PutBatch(p) \/ PutFails(p) \/ CheckSize(p)
        \/ EnforceQuota(p) \/ Evict(p) \/ IncrementalVacuum(p) \/ EnforceFails(p)
        \/ Crash(p)
    \/ Tick \/ Edit

Spec == Init /\ [][Next]_vars

------------------------------------------------------------------------------
(* Properties *)

TypeOK ==
    /\ tables \in {"none", "old", "current"} /\ autovac \in BOOLEAN
    /\ DOMAIN rows \subseteq Inputs /\ \A k \in DOMAIN rows : rows[k] \in Inputs
    /\ \A k \in DOMAIN access : access[k].at \in 0..MaxTime /\ access[k].rowid \in 1..Cardinality(DOMAIN access)
    /\ free \in Nat /\ wal \in 0..MaxWal
    /\ \A p \in Procs : missed[p] \subseteq Inputs

(* The cache is transparent: whatever a scan is given for a file is what   *)
(* extracting the file as it is, under the process's own configuration,    *)
(* would give, whoever wrote the row and whenever.                         *)
Transparent == ~wrong

(* No access row outlives its payload and no payload lacks its access row, *)
(* though a key can be evicted by one process between the lookup and the   *)
(* flush of another: otherwise eviction would count and delete nothing.    *)
AccessHasPayload == DOMAIN access = DOMAIN rows

(* The current layout, once made, is never dropped or made again: rows     *)
(* only leave by eviction, however many processes open a new database or   *)
(* one of another layout at once.                                          *)
LayoutNeverRemade ==
    [][tables = "current" =>
        /\ tables' = "current"
        /\ \A k \in DOMAIN rows \ DOMAIN rows' : \E p \in Procs : pc[p] = "evict"]_vars

(* The live data is within the quota whenever no process is on its way to  *)
(* check it, unless one died or failed on that way.                        *)
LiveBounded ==
    (\A p \in Procs : pc[p] \notin {"check", "quota", "evict"}) /\ ~unchecked
        => Live <= Quota

(* Eviction stops at the target and never empties a cache that is only a   *)
(* little over its quota, with two processes evicting at once.             *)
EvictsNoMoreThanNeeded ==
    [][tables = "current" /\ Cardinality(DOMAIN rows') < Live
        => Cardinality(DOMAIN rows') >= Target]_vars

(* What eviction deletes was used before everything it keeps: recency is   *)
(* the batch's clock, not the key.                                         *)
EvictsOldest ==
    [][\A k \in DOMAIN rows \ DOMAIN rows', l \in DOMAIN rows' :
        tables = "current" => access[k].at <= access[l].at]_vars

(* The two tables agree and the quota holds when nobody is checking it.    *)
QuotaKept == TypeOK /\ AccessHasPayload /\ LiveBounded

(* A row leaves the store in one way only: by an eviction that takes the   *)
(* least recently used and no more than it must.                           *)
RowsLeaveByEviction == LayoutNeverRemade /\ EvictsNoMoreThanNeeded /\ EvictsOldest
=============================================================================
