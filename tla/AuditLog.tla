------------------------------ MODULE AuditLog ------------------------------
(***************************************************************************)
(* The audit database (mesh-core/audit.rs) as several processes use it:    *)
(* each opens it, migrating whatever layout an older version left, and     *)
(* then records one row per tool call (ToolRegistry::invoke) and, as a     *)
(* second statement, how long the call took.  A process may die between    *)
(* any two statements, a statement may give up on a busy database, older   *)
(* binaries may append to the same file, and a stored row may be damaged.  *)
(*                                                                         *)
(* A statement of SQLite is atomic, and BEGIN IMMEDIATE ... COMMIT makes   *)
(* the tail read and the insert of record_entry_with_error one step.       *)
(* SHA-256 is an injective constructor: a hash is the record it covers.    *)
(***************************************************************************)
EXTENDS Naturals, Sequences, FiniteSets, SequencesExt

CONSTANTS
  Process,       \* processes of this version: meshd, standalone mesh-mcp
  Call,          \* tool calls, each made once
  OldCall,       \* calls recorded by binaries of older versions
  None,          \* SQL NULL
  Rotten,        \* what a damaged field holds
  AuditEnabled,  \* [engines.policy] cryptographic_audit_trail
  Governed,      \* calls whose subject a stop rule matches
  ReadMode,      \* read_governance_mode; every tool is read-only
  Bounded(_, _)  \* bound: how many crashes and busy databases may come with
                 \* which damaged <<row, field>>

ASSUME AuditConstants ==
  /\ AuditEnabled \in BOOLEAN
  /\ ReadMode \in {"AllowAll", "AuditWarn", "EnforceRefusal"}
  /\ Governed \subseteq Call
  /\ Call \cap OldCall = {}
  /\ None \notin Call \cup OldCall /\ Rotten \notin Call \cup OldCall
  /\ None # Rotten /\ None # "detail"
  /\ Rotten \notin {"SUCCESS", "ERROR", "detail", "genesis"}

VARIABLES
  columns,   \* optional columns of audit_entries that exist
  tables,    \* tables that exist
  rows,      \* audit_entries in entry_seq order
  written,   \* history: the same rows as their writers inserted them
  latency,   \* tool_call_metrics: <<entry_seq, call measured>>
  pc,        \* what each process is doing with the database
  call,      \* what each tool call has come to
  plan,      \* the error columns verify_db decided to select, and when
  verdict,   \* what verify_db answered last
  crashes, busy, damaged

db == <<columns, tables, rows, written, latency>>
faults == <<crashes, busy, damaged>>
MayFail == Bounded(crashes + busy + 1, damaged)
MayDamage(i, field) == Bounded(crashes + busy, damaged \cup {<<i, field>>})
vars == <<db, pc, call, plan, verdict, faults>>

Column == {"chain_version", "error_detail", "error_detail_sig"}
Table == {"audit_entries", "metrics"}
Migrated == Column \subseteq columns
Genesis == "genesis"

(***************************************************************************)
(* Rows and hashes.  `call` stands for the timestamp, session, tool and    *)
(* argument digest of a row, `status` for its status, files and redaction  *)
(* count: chain version 1 covers the former only.  `trace` is its trace_id,*)
(* which no hash covers, and every version but 1 is hashed like version 2. *)
(***************************************************************************)
HashInput(version, prev, c, status) ==
  IF version = 1 THEN [prev |-> prev, call |-> c]
                 ELSE [prev |-> prev, call |-> c, status |-> status]

ErrorDetailSig(hash, detail) == [of |-> hash, detail |-> detail]

NewRow(seq, prev, c, status, version, detail) ==
  LET hash == HashInput(version, prev, c, status)
  IN  [seq |-> seq, prev |-> prev, call |-> c, trace |-> "trace", status |-> status,
       version |-> version, hash |-> hash, detail |-> detail,
       sig |-> IF detail = None THEN None ELSE ErrorDetailSig(hash, detail)]

\* Mutant: the row with the smallest number is taken for the last.
TailFirst(rs) ==
  IF rs = <<>> THEN [seq |-> 0, prev |-> Genesis]
               ELSE [seq |-> Len(rs), prev |-> Head(rs).hash]

\* The sequence number and previous hash of the next row: the committed tail.
Tail1(rs) ==
  IF rs = <<>> THEN [seq |-> 0, prev |-> Genesis]
               ELSE [seq |-> Last(rs).seq + 1, prev |-> Last(rs).hash]

NextRow(rs, c, status, version, detail) ==
  NewRow(Tail1(rs).seq, Tail1(rs).prev, c, status, version, detail)

\* The INSERT of one row.
Insert(row) == rows' = Append(rows, row) /\ written' = Append(written, row)

-----------------------------------------------------------------------------
(***************************************************************************)
(* Initially there is no database, or one an older version left: rows of   *)
(* chain version 1 in a table without the newer columns, or of version 2   *)
(* without the error columns.                                              *)
(***************************************************************************)
OldRows(version) ==
  {<<>>} \cup {<<NextRow(<<>>, c, "SUCCESS", version, None)>> : c \in OldCall}

Init ==
  /\ \/ /\ tables = {} /\ columns = {} /\ rows = <<>>
     \/ /\ tables = {"audit_entries"} /\ columns = {} /\ rows \in OldRows(1)
     \/ /\ tables = Table /\ columns = {"chain_version"} /\ rows \in OldRows(2)
  /\ written = rows /\ latency = {}
  /\ pc = [p \in Process |-> "down"]
  /\ call = [c \in Call |-> [at |-> "none", by |-> None, status |-> None, seq |-> 0]]
  /\ plan = "idle" /\ verdict = "none"
  /\ crashes = 0 /\ busy = 0 /\ damaged = {}

(***************************************************************************)
(* AuditLogger::new.  A new table is created with every column; an old one *)
(* gets the missing columns one ALTER at a time.  Another opener may add   *)
(* the column between the look and the ALTER, whose "duplicate column"     *)
(* error is tolerated: adding to a set.                                    *)
(***************************************************************************)
Go(p, from, to) == pc[p] = from /\ pc' = [pc EXCEPT ![p] = to]

CreateEntries(p) ==
  /\ Go(p, "down", "metrics")
  /\ tables' = tables \cup {"audit_entries"}
  /\ columns' = IF "audit_entries" \in tables THEN columns ELSE Column
  /\ UNCHANGED <<rows, written, latency, call, plan, verdict, faults>>

CreateMetrics(p) ==
  /\ Go(p, "metrics", "chain_version")
  /\ tables' = tables \cup {"metrics"}
  /\ UNCHANGED <<columns, rows, written, latency, call, plan, verdict, faults>>

\* Mutant: a database that has chain_version is taken to be current.
AfterEarly(c) == "ready"

\* The column migrated after column c, and "ready" after the last.
After(c) ==
  CASE c = "chain_version" -> "error_detail"
    [] c = "error_detail" -> "error_detail_sig"
    [] c = "error_detail_sig" -> "ready"

Alter(c) == CASE c = "chain_version" -> "alter1"
              [] c = "error_detail" -> "alter2"
              [] c = "error_detail_sig" -> "alter3"

LookColumn(p) ==
  \E c \in Column :
    /\ Go(p, c, IF c \in columns THEN After(c) ELSE Alter(c))
    /\ UNCHANGED <<db, call, plan, verdict, faults>>

AddColumn(p) ==
  \E c \in Column :
    /\ Go(p, Alter(c), After(c))
    /\ columns' = columns \cup {c}
    /\ UNCHANGED <<tables, rows, written, latency, call, plan, verdict, faults>>

\* A statement of the opening gives up on a busy database: new() fails.
OpenFails(p) ==
  /\ pc[p] \notin {"down", "ready"}
  /\ MayFail /\ busy' = busy + 1
  /\ pc' = [pc EXCEPT ![p] = "down"]
  /\ UNCHANGED <<db, call, plan, verdict, crashes, damaged>>

-----------------------------------------------------------------------------
(***************************************************************************)
(* ToolRegistry::invoke for one call: refused arguments, governance, the   *)
(* tool's body, then the audit row, its latency and the answer.            *)
(***************************************************************************)
SetCall(c, at, p, status, seq) ==
  call' = [call EXCEPT ![c] = [at |-> at, by |-> p, status |-> status, seq |-> seq]]

\* Where a call goes once it was refused: record_refusal, unless auditing is off.
Refused == IF AuditEnabled THEN "record" ELSE "answered"

InvalidArguments(p, c) ==
  /\ pc[p] = "ready" /\ call[c].at = "none"
  /\ SetCall(c, Refused, p, "ERROR", 0)
  /\ UNCHANGED <<db, pc, plan, verdict, faults>>

\* evaluate_guard: no tool mutates, so only EnforceRefusal refuses.
Refuses(c) == ReadMode = "EnforceRefusal" /\ c \in Governed

GovernanceRefusal(p, c) ==
  /\ pc[p] = "ready" /\ call[c].at = "none" /\ Refuses(c)
  /\ SetCall(c, Refused, p, "ERROR", 0)
  /\ UNCHANGED <<db, pc, plan, verdict, faults>>

RunTool(p, c) ==
  /\ pc[p] = "ready" /\ call[c].at = "none" /\ ~Refuses(c)
  /\ \E status \in {"SUCCESS", "ERROR"} :
       SetCall(c, IF AuditEnabled THEN "record" ELSE "answered", p, status, 0)
  /\ UNCHANGED <<db, pc, plan, verdict, faults>>

\* A tool that panics: the join error is the answer and nothing is recorded.
ToolPanics(p, c) ==
  /\ pc[p] = "ready" /\ call[c].at = "none" /\ ~Refuses(c)
  /\ SetCall(c, "failed", p, None, 0)
  /\ UNCHANGED <<db, pc, plan, verdict, faults>>

RowOf(c, status) ==
  NextRow(rows, c, status, 2, IF status = "ERROR" THEN "detail" ELSE None)

\* record_entry_with_error; the INSERT names every column.
RecordEntry(c) ==
  /\ call[c].at = "record"
  /\ Migrated
  /\ LET row == RowOf(c, call[c].status)
     IN  /\ Insert(row)
         /\ SetCall(c, "latency", call[c].by, call[c].status, row.seq)
  /\ UNCHANGED <<columns, tables, latency, pc, plan, verdict, faults>>

\* The write fails, on a busy database or a missing column: a warning only.
RecordFails(c) ==
  /\ call[c].at = "record"
  /\ Migrated => MayFail
  /\ busy' = IF Migrated THEN busy + 1 ELSE busy
  /\ SetCall(c, "unrecorded", call[c].by, call[c].status, 0)
  /\ UNCHANGED <<db, pc, plan, verdict, crashes, damaged>>

\* Mutant: the latency goes to whatever row is last by then.
LatencySeqLast(c) == Last(rows).seq

LatencySeq(c) == call[c].seq

RecordLatency(c) ==
  /\ call[c].at = "latency"
  /\ latency' = {m \in latency : m[1] # LatencySeq(c)} \cup {<<LatencySeq(c), c>>}
  /\ SetCall(c, "answered", call[c].by, call[c].status, call[c].seq)
  /\ UNCHANGED <<columns, tables, rows, written, pc, plan, verdict, faults>>

\* The latency write fails: a warning, and the answer all the same.
LatencyFails(c) ==
  /\ call[c].at = "latency"
  /\ MayFail /\ busy' = busy + 1
  /\ SetCall(c, "answered", call[c].by, call[c].status, call[c].seq)
  /\ UNCHANGED <<db, pc, plan, verdict, crashes, damaged>>

\* A process dies: what SQLite committed stays, its open calls get no answer.
Crash(p) ==
  /\ pc[p] # "down"
  /\ MayFail /\ crashes' = crashes + 1
  /\ pc' = [pc EXCEPT ![p] = "down"]
  /\ call' = [c \in Call |-> IF call[c].by = p /\ call[c].at \in {"record", "latency"}
                             THEN [call[c] EXCEPT !.at = "lost"] ELSE call[c]]
  /\ UNCHANGED <<db, plan, verdict, busy, damaged>>

-----------------------------------------------------------------------------
(***************************************************************************)
(* What other programs do to the file.                                     *)
(***************************************************************************)
\* An older binary appends a row of its own version, without error columns.
OldBinaryAppends(version, c) ==
  /\ "audit_entries" \in tables
  /\ version = 2 => "chain_version" \in columns
  /\ \A i \in DOMAIN rows : rows[i].call # c
  /\ Insert(NextRow(rows, c, "SUCCESS", version, None))
  /\ UNCHANGED <<columns, tables, latency, pc, call, plan, verdict, faults>>

\* The stored fields of a row besides its number, the primary key, and the
\* column a newer field needs.
Field == {"prev", "call", "trace", "status", "version", "hash", "detail", "sig"}
Stored(field) ==
  /\ field = "version" => "chain_version" \in columns
  /\ field = "detail" => "error_detail" \in columns
  /\ field = "sig" => "error_detail_sig" \in columns

\* What a field may come to hold: another value, and that may be NULL in the
\* nullable columns, and in chain_version the number of another formula.
Damages(field) ==
  CASE field \in {"trace", "detail", "sig"} -> {None, Rotten}
    [] field = "version" -> {1, 2, Rotten}
    [] OTHER -> {Rotten}

\* One stored field of one row changes behind the program's back (bound: each
\* field once).
Damage(i, field, value) ==
  /\ MayDamage(i, field)
  /\ i \in DOMAIN rows /\ Stored(field)
  /\ <<i, field>> \notin damaged /\ value # rows[i][field]
  /\ rows' = [rows EXCEPT ![i] = [@ EXCEPT ![field] = value]]
  /\ damaged' = damaged \cup {<<i, field>>}
  /\ UNCHANGED <<columns, tables, written, latency, pc, call, plan, verdict, crashes, busy>>

-----------------------------------------------------------------------------
(***************************************************************************)
(* verify_db, run once by doctor: the columns are looked up one by one     *)
(* (select_entries_sql), and the rows are read later.                      *)
(***************************************************************************)
PlanVerify ==
  /\ plan = "idle"
  /\ plan' = IF {"error_detail", "error_detail_sig"} \subseteq columns
             THEN "both" ELSE "not_both"
  /\ UNCHANGED <<db, pc, call, verdict, faults>>

PlanDetail ==
  /\ plan = "not_both"
  /\ plan' = IF "error_detail" \in columns THEN "detail_only" ELSE "neither"
  /\ UNCHANGED <<db, pc, call, verdict, faults>>

\* What the planned statement yields for each row.
SelectEntries ==
  [i \in DOMAIN rows |->
     [rows[i] EXCEPT !.detail = IF plan = "neither" THEN None ELSE @,
                     !.sig    = IF plan = "both" THEN @ ELSE None]]

DetailBound(e) ==
  \/ e.detail = None /\ e.sig = None
  \/ e.detail # None /\ e.sig = ErrorDetailSig(e.hash, e.detail)

\* The walk of verify_db, which stops at the first row that does not fit.
Verifies(rs) ==
  \A i \in DOMAIN rs :
    /\ rs[i].seq = i - 1
    /\ rs[i].prev = IF i = 1 THEN Genesis ELSE rs[i - 1].hash
    /\ rs[i].hash = HashInput(rs[i].version, rs[i].prev, rs[i].call, rs[i].status)
    /\ DetailBound(rs[i])

\* What it answers if it reads the rows now.  The statement names chain_version,
\* which an old table does not have yet.
Answer ==
  IF tables # {} /\ "chain_version" \notin columns THEN "database_error"
  ELSE IF Verifies(SelectEntries) THEN "ok" ELSE "broken"

RunVerify ==
  /\ plan \in {"both", "detail_only", "neither"} /\ verdict = "none"
  /\ verdict' = Answer
  /\ UNCHANGED <<db, pc, call, plan, faults>>

-----------------------------------------------------------------------------
Next ==
  \/ \E p \in Process :
       \/ CreateEntries(p) \/ CreateMetrics(p) \/ LookColumn(p) \/ AddColumn(p)
       \/ OpenFails(p) \/ Crash(p)
       \/ \E c \in Call : InvalidArguments(p, c) \/ GovernanceRefusal(p, c)
                          \/ RunTool(p, c) \/ ToolPanics(p, c)
  \/ \E c \in Call : RecordEntry(c) \/ RecordFails(c) \/ RecordLatency(c) \/ LatencyFails(c)
  \/ \E v \in {1, 2}, c \in OldCall : OldBinaryAppends(v, c)
  \/ \E i \in DOMAIN rows, f \in Field : \E value \in Damages(f) : Damage(i, f, value)
  \/ PlanVerify \/ PlanDetail \/ RunVerify

Spec == Init /\ [][Next]_vars

-----------------------------------------------------------------------------
RowsOf(c) == {i \in DOMAIN rows : rows[i].call = c}

\* Types of the database, of the processes and of the calls.
TypeOK ==
  /\ columns \subseteq Column /\ tables \subseteq Table
  /\ \A i \in DOMAIN rows : /\ rows[i].seq \in Nat
                            /\ rows[i].call \in Call \cup OldCall \cup {Rotten}
                            /\ rows[i].version \in {1, 2, Rotten}
  /\ \A m \in latency : m[1] \in Nat /\ m[2] \in Call
  /\ \A c \in Call : /\ call[c].seq \in Nat /\ call[c].by \in Process \cup {None}
                     /\ call[c].at \in {"none", "record", "latency", "answered",
                                        "unrecorded", "failed", "lost"}
  /\ plan \in {"idle", "both", "not_both", "detail_only", "neither"}
  /\ verdict \in {"none", "ok", "broken", "database_error"}

\* As long as nobody damages the file, the chain verifies: whatever processes
\* opened, migrated, recorded, crashed or gave up, and in whatever order, and
\* with rows of all three generations of the format between each other.
ChainVerifies == damaged = {} => Verifies(rows)

\* What the hash of row r still says of the row w that was written: status,
\* files and count count only if w's version covered them, the version only in
\* being 1 or not, and the trace not at all.
HashKept(r, w) ==
  /\ r.prev = w.prev /\ r.call = w.call /\ r.hash = w.hash
  /\ (r.version = 1) = (w.version = 1)
  /\ w.version # 1 => r.status = w.status

\* What the signature still says of the error: losing both together is unseen.
DetailKept(r, w) ==
  \/ r.detail = w.detail /\ r.sig = w.sig
  \/ r.detail = None /\ r.sig = None

\* A change of a stored field is found exactly if a hash or the signature covers
\* it, wherever the row is, whatever was appended after it and whatever else was
\* changed: trace_id, what version 1 left out, a version that is neither made nor
\* unmade 1, and an error erased with its signature are changed unseen.
DamageFound ==
  Verifies(rows) <=>
    \A i \in DOMAIN rows : HashKept(rows[i], written[i]) /\ DetailKept(rows[i], written[i])

\* What verify_db answers of the rows it reads, given the columns it found when
\* it looked before: without the error columns it cannot judge the errors, and
\* with error_detail alone it takes every error for an unsigned one.
AnswerExact ==
  plan \in {"both", "detail_only", "neither"} /\ Answer # "database_error" =>
    (Answer = "ok" <=>
       \A i \in DOMAIN rows :
         /\ HashKept(rows[i], written[i])
         /\ plan = "both" => DetailKept(rows[i], written[i])
         /\ plan = "detail_only" => rows[i].detail = None)

\* A broken chain is reported although nothing was damaged only by a verify_db
\* that looked for the columns while a process was between the ALTERs for them,
\* and read the rows when an error had been recorded.
NoFalseAlarm ==
  verdict = "broken" /\ damaged = {} =>
    plan = "detail_only" /\ \E i \in DOMAIN rows : rows[i].detail # None

\* Every latency belongs to the row of the call it measures, although it is
\* written by a second statement while other processes append.
LatencyOfItsCall ==
  damaged = {} => \A m \in latency :
    \E i \in DOMAIN rows : rows[i].seq = m[1] /\ rows[i].call = m[2]

\* Every call that got its answer, refusals and failures included, has exactly
\* one row with its outcome, an error text exactly if it failed, and no call
\* has two; the calls without one are those whose write failed.
AnswersAudited ==
  damaged = {} => \A c \in Call :
    LET n == Cardinality(RowsOf(c))
    IN  /\ n <= 1
        /\ n = 1 => call[c].at \in {"latency", "answered", "lost"}
        /\ AuditEnabled /\ call[c].at \in {"latency", "answered"} =>
             \E i \in RowsOf(c) : /\ rows[i].status = call[c].status
                                  /\ (rows[i].detail # None) = (call[c].status = "ERROR")

\* An open logger finds every column its INSERT names: a row is given up only
\* because the database was busy, never because of an unfinished migration.
MigratedWhenReady == busy = 0 => \A c \in Call : call[c].at # "unrecorded"

\* When verify_db reports a broken chain: an undamaged chain verifies, damage is
\* found exactly where a hash or a signature covers it, and of an undamaged
\* chain a break is reported only in the window of a migration.
VerdictExact == TypeOK /\ ChainVerifies /\ DamageFound /\ AnswerExact /\ NoFalseAlarm

\* A call and what is stored of it, its row and its latency, belong together.
CallsRecordedOnce == LatencyOfItsCall /\ AnswersAudited
=============================================================================
