--------------------------- MODULE AuditLog_proofs ---------------------------
(* Proofs about AuditLog, for any processes and calls, any number of rows     *)
(* that older binaries append, and any number of crashes, busy databases and  *)
(* damaged fields.                                                            *)
EXTENDS AuditLog, SequenceTheorems, FiniteSetTheorems, TLAPS

USE AuditConstants

-----------------------------------------------------------------------------
(* The inductive invariant                                                  *)

CallState == [at : {"none", "record", "latency", "answered", "unrecorded", "failed", "lost"},
              by : Process \cup {None}, status : {"SUCCESS", "ERROR", None}, seq : Nat]
Where == {"down", "metrics", "alter1", "alter2", "alter3", "ready"} \cup Column

\* r has the fields of a row of audit_entries.
IsRow(r) ==
  /\ r = [seq |-> r.seq, prev |-> r.prev, call |-> r.call, trace |-> r.trace, status |-> r.status,
          version |-> r.version, hash |-> r.hash, detail |-> r.detail, sig |-> r.sig]
  /\ r.seq \in Nat /\ r.call \in Call \cup OldCall \cup {Rotten} /\ r.version \in {1, 2, Rotten}

RowsType == (\E S : rows \in Seq(S)) /\ \A i \in DOMAIN rows : IsRow(rows[i])

Shapes ==
  /\ columns \subseteq Column /\ tables \subseteq Table
  /\ latency \subseteq Nat \X Call
  /\ pc \in [Process -> Where] /\ call \in [Call -> CallState]
  /\ plan \in {"idle", "both", "not_both", "detail_only", "neither"}
  /\ verdict \in {"none", "ok", "broken", "database_error"}
  /\ busy \in Nat

\* How far an opener is says which columns are there, whoever added them, and
\* a call that waits to be recorded was made by an open logger.
Migration ==
  /\ \A p \in Process :
       /\ pc[p] \in {"error_detail", "alter2", "error_detail_sig", "alter3", "ready"} =>
            "chain_version" \in columns
       /\ pc[p] \in {"error_detail_sig", "alter3", "ready"} => "error_detail" \in columns
       /\ pc[p] = "ready" => "error_detail_sig" \in columns
  /\ \A c \in Call : call[c].at = "record" => Migrated /\ call[c].status \in {"SUCCESS", "ERROR"}
  /\ \A c \in Call : call[c].at = "unrecorded" => busy # 0

\* A row as its writer made it, and what damage cannot do to it: a hash or a
\* signature it had may be lost, but no other one takes its place.
Sound(w) ==
  /\ w.hash = HashInput(w.version, w.prev, w.call, w.status)
  /\ w.sig = IF w.detail = None THEN None ELSE ErrorDetailSig(w.hash, w.detail)
Stays(r, w) == r.seq = w.seq /\ r.hash \in {w.hash, Rotten} /\ r.sig \in {w.sig, None, Rotten}

\* A row continues the hash of the row before it, unless that was lost by then.
Links(rs, ws, i) ==
  /\ ws[i].seq = i - 1
  /\ i = 1 => ws[i].prev = Genesis
  /\ i # 1 => ws[i].prev = ws[i - 1].hash \/ rs[i - 1].hash = Rotten

Copied ==
  /\ (\E S : written \in Seq(S)) /\ Len(written) = Len(rows)
  /\ \A i \in DOMAIN rows : Sound(written[i]) /\ Stays(rows[i], written[i]) /\ Links(rows, written, i)

Planned == verdict # "none" => plan \in {"both", "detail_only", "neither"}

\* The rows of call c once it has come to s.
RecordedAs(c, s) ==
  /\ \A i, j \in RowsOf(c) : i = j
  /\ s.at \in {"none", "record", "unrecorded", "failed"} => RowsOf(c) = {}
  /\ s.at = "latency" => \E i \in RowsOf(c) : rows[i].seq = s.seq
  /\ AuditEnabled /\ s.at \in {"latency", "answered"} =>
       \E i \in RowsOf(c) : rows[i].status = s.status /\ (rows[i].detail # None <=> s.status = "ERROR")

Recorded == damaged = {} => \A c \in Call : RecordedAs(c, call[c])

AInv ==
  /\ Shapes /\ RowsType /\ Migration /\ Copied
  /\ ChainVerifies /\ NoFalseAlarm /\ Planned /\ Recorded /\ LatencyOfItsCall

\* What the constants stand for: neither NULL nor a damaged value is a hash or
\* a signature, the way SHA-256 is taken to have no collisions.
Opaque ==
  /\ \A version, prev, c, status : HashInput(version, prev, c, status) # Rotten
  /\ \A hash, detail : ErrorDetailSig(hash, detail) \notin {None, Rotten}

-----------------------------------------------------------------------------
(* Rows                                                                     *)

LEMMA RowsDomain ==
  ASSUME RowsType
  PROVE  Len(rows) \in Nat /\ DOMAIN rows = 1..Len(rows)
BY DEF RowsType

LEMMA AppendOne ==
  ASSUME NEW s, \E S : s \in Seq(S), NEW r, NEW t, t = Append(s, r)
  PROVE  /\ \E S : t \in Seq(S)
         /\ DOMAIN t = 1..(Len(s) + 1) /\ Len(t) = Len(s) + 1
         /\ Len(s) \in Nat /\ DOMAIN s = 1..Len(s)
         /\ t[Len(s) + 1] = r
         /\ \A i \in DOMAIN s : t[i] = s[i]
<1>1. PICK S : s \in Seq(S)
  OBVIOUS
<1> DEFINE T == S \cup {r}
<1>2. s \in Seq(T) /\ r \in T
  BY <1>1
<1> HIDE DEF T
<1>3. Append(s, r) \in Seq(T) /\ Len(Append(s, r)) = Len(s) + 1 /\ Len(s) \in Nat
  BY <1>2
<1>4. /\ \A i \in 1..Len(s) : Append(s, r)[i] = s[i]
      /\ Append(s, r)[Len(s) + 1] = r
  BY <1>2
<1>5. DOMAIN s = 1..Len(s) /\ DOMAIN Append(s, r) = 1..(Len(s) + 1)
  BY <1>2, <1>3
<1> QED BY <1>3, <1>4, <1>5

LEMMA AppendRows ==
  ASSUME RowsType, NEW r, rows' = Append(rows, r)
  PROVE  /\ \E S : rows' \in Seq(S)
         /\ DOMAIN rows' = 1..(Len(rows) + 1) /\ Len(rows) \in Nat /\ DOMAIN rows = 1..Len(rows)
         /\ rows'[Len(rows) + 1] = r
         /\ \A i \in DOMAIN rows : rows'[i] = rows[i]
<1>1. \E S : rows \in Seq(S)
  BY DEF RowsType
<1> QED BY <1>1, AppendOne

LEMMA LastRow ==
  ASSUME RowsType, rows # <<>>
  PROVE  Last(rows) = rows[Len(rows)] /\ Len(rows) \in Nat /\ Len(rows) >= 1
         /\ Len(rows) \in DOMAIN rows
<1>1. PICK S : rows \in Seq(S)
  BY DEF RowsType
<1>2. Len(rows) \in Nat /\ Len(rows) # 0
  BY <1>1, EmptySeq
<1> QED BY <1>1, <1>2 DEF Last

LEMMA EmptyRows == ASSUME rows = <<>> PROVE Len(rows) = 0 /\ DOMAIN rows = {}
OBVIOUS

\* The fields of a new row.
LEMMA NewRowFields ==
  ASSUME NEW seq \in Nat, NEW prev, NEW c \in Call \cup OldCall, NEW status, NEW version \in {1, 2},
         NEW detail, NEW r, r = NewRow(seq, prev, c, status, version, detail)
  PROVE  /\ IsRow(r) /\ Sound(r) /\ r.seq = seq /\ r.prev = prev /\ r.call = c /\ r.status = status
         /\ r.version = version /\ r.hash = HashInput(version, prev, c, status)
         /\ r.detail = detail
         /\ r.sig = IF detail = None THEN None ELSE ErrorDetailSig(r.hash, detail)
<1> DEFINE h == HashInput(version, prev, c, status)
           g == IF detail = None THEN None ELSE ErrorDetailSig(h, detail)
<1>1. r = [seq |-> seq, prev |-> prev, call |-> c, trace |-> "trace", status |-> status,
           version |-> version, hash |-> h, detail |-> detail, sig |-> g]
  BY DEF NewRow
<1> HIDE DEF h, g
<1>2. /\ r.seq = seq /\ r.prev = prev /\ r.call = c /\ r.status = status
      /\ r.version = version /\ r.hash = h /\ r.detail = detail /\ r.sig = g
  BY <1>1
<1>3. IsRow(r)
  BY <1>1, <1>2 DEF IsRow
<1> QED BY <1>2, <1>3 DEF h, g, Sound

LEMMA TailType ==
  ASSUME RowsType
  PROVE  /\ Tail1(rows).seq \in Nat
         /\ Verifies(rows) => /\ Tail1(rows).seq = Len(rows)
                              /\ Tail1(rows).prev = IF Len(rows) = 0 THEN Genesis
                                                    ELSE rows[Len(rows)].hash
<1>1. CASE rows = <<>>
  BY <1>1, EmptyRows DEF Tail1
<1>2. CASE rows # <<>>
  <2>1. Last(rows) = rows[Len(rows)] /\ Len(rows) \in Nat /\ Len(rows) >= 1
        /\ Len(rows) \in DOMAIN rows
    BY <1>2, LastRow
  <2>2. Tail1(rows).seq = rows[Len(rows)].seq + 1 /\ Tail1(rows).prev = rows[Len(rows)].hash
    BY <1>2, <2>1 DEF Tail1
  <2>3. rows[Len(rows)].seq \in Nat
    BY <2>1 DEF RowsType, IsRow
  <2>4. Verifies(rows) => rows[Len(rows)].seq = Len(rows) - 1
    BY <2>1 DEF Verifies
  <2> QED BY <2>1, <2>2, <2>3, <2>4
<1> QED BY <1>1, <1>2

\* What appending one row does to everything said of rows.
LEMMA AppendKeeps ==
  ASSUME RowsType, Copied, ChainVerifies,
         NEW c \in Call \cup OldCall, NEW status \in {"SUCCESS", "ERROR"}, NEW version \in {1, 2},
         NEW detail \in {None, "detail"},
         Insert(NextRow(rows, c, status, version, detail)), damaged' = damaged
  PROVE  /\ RowsType' /\ Copied' /\ ChainVerifies'
         /\ Len(rows) + 1 \in DOMAIN rows' /\ DOMAIN rows \subseteq DOMAIN rows'
         /\ Len(rows) + 1 \notin DOMAIN rows
         /\ \A i \in DOMAIN rows' : i \in DOMAIN rows \/ i = Len(rows) + 1
         /\ \A i \in DOMAIN rows : rows'[i] = rows[i]
         /\ rows'[Len(rows) + 1].call = c /\ rows'[Len(rows) + 1].status = status
         /\ rows'[Len(rows) + 1].detail = detail /\ rows'[Len(rows) + 1].seq = Tail1(rows).seq
<1> DEFINE n == Len(rows) + 1
           seq == Tail1(rows).seq
           prev == Tail1(rows).prev
           r == NewRow(seq, prev, c, status, version, detail)
<1>0. rows' = Append(rows, r) /\ written' = Append(written, r)
  BY DEF Insert, NextRow
<1>1. /\ seq \in Nat
      /\ Verifies(rows) => /\ seq = Len(rows)
                           /\ prev = IF Len(rows) = 0 THEN Genesis ELSE rows[Len(rows)].hash
  BY TailType
<1>2. /\ IsRow(r) /\ Sound(r) /\ r.seq = seq /\ r.prev = prev /\ r.call = c /\ r.status = status
      /\ r.version = version /\ r.hash = HashInput(version, prev, c, status)
      /\ r.detail = detail
      /\ r.sig = IF detail = None THEN None ELSE ErrorDetailSig(r.hash, detail)
  <2>1. r = NewRow(seq, prev, c, status, version, detail)
    OBVIOUS
  <2> HIDE DEF seq, prev, r
  <2> QED BY <1>1, <2>1, NewRowFields
<1>3. rows' = Append(rows, r) /\ written' = Append(written, r)
  BY <1>0
<1> HIDE DEF r
<1>4. /\ \E S : rows' \in Seq(S)
      /\ DOMAIN rows' = 1..(Len(rows) + 1) /\ Len(rows) \in Nat /\ DOMAIN rows = 1..Len(rows)
      /\ rows'[Len(rows) + 1] = r
      /\ \A i \in DOMAIN rows : rows'[i] = rows[i]
  BY <1>3, AppendRows
<1>5. /\ n \in DOMAIN rows' /\ DOMAIN rows \subseteq DOMAIN rows' /\ n \notin DOMAIN rows
      /\ \A i \in DOMAIN rows' : i \in DOMAIN rows \/ i = n
  BY <1>4
<1>6. RowsType'
  BY <1>2, <1>4, <1>5 DEF RowsType
<1>7. /\ \E S : written' \in Seq(S)
      /\ Len(written) = Len(rows) /\ Len(written') = Len(rows) + 1 /\ Len(rows') = Len(rows) + 1
      /\ DOMAIN written = DOMAIN rows /\ written'[n] = r
      /\ \A i \in DOMAIN rows : written'[i] = written[i]
  <2>1. (\E S : written \in Seq(S)) /\ Len(written) = Len(rows)
    BY DEF Copied
  <2>2. /\ \E S : written' \in Seq(S)
        /\ Len(written') = Len(written) + 1 /\ DOMAIN written = 1..Len(written)
        /\ written'[Len(written) + 1] = r
        /\ \A i \in DOMAIN written : written'[i] = written[i]
    BY <1>3, <2>1, AppendOne
  <2>3. Len(rows') = Len(rows) + 1
    BY <1>4
  <2> QED BY <1>4, <2>1, <2>2, <2>3
<1>8. Links(rows', written', n)
  <2>1. seq = n - 1 /\ (n = 1 => prev = Genesis) /\ (n # 1 => prev = rows[n - 1].hash)
    <3>1. CASE rows = <<>>
      BY <1>4, <3>1, EmptyRows DEF Tail1
    <3>2. CASE rows # <<>>
      <4>1. Last(rows) = rows[Len(rows)] /\ Len(rows) >= 1 /\ Len(rows) \in DOMAIN rows
        BY <3>2, LastRow
      <4>2. seq = rows[Len(rows)].seq + 1 /\ prev = rows[Len(rows)].hash
        BY <3>2, <4>1 DEF Tail1
      <4>3. rows[Len(rows)].seq = Len(rows) - 1
        BY <4>1 DEF Copied, Stays, Links
      <4> HIDE DEF seq, prev
      <4> QED BY <1>4, <4>1, <4>2, <4>3
    <3> QED BY <3>1, <3>2
  <2> HIDE DEF seq, prev
  <2>2. n # 1 => n - 1 \in DOMAIN rows
    BY <1>4
  <2>3. n # 1 => rows[n - 1].hash \in {written[n - 1].hash, Rotten}
    BY <2>2 DEF Copied, Stays
  <2> QED BY <1>2, <1>4, <1>7, <2>1, <2>2, <2>3 DEF Links
<1>9. Copied'
  <2>1. ASSUME NEW i \in DOMAIN rows
        PROVE  (Sound(written[i]) /\ Stays(rows[i], written[i]) /\ Links(rows, written, i))'
    <3>1. Sound(written[i]) /\ Stays(rows[i], written[i]) /\ Links(rows, written, i)
      BY DEF Copied
    <3>2. i # 1 => i - 1 \in DOMAIN rows
      BY <1>4, <2>1
    <3>3. Links(rows', written', i)
      BY <1>4, <1>7, <3>1, <3>2 DEF Links
    <3> QED BY <1>4, <1>7, <3>1, <3>3
  <2>2. Sound(written'[n]) /\ Stays(rows'[n], written'[n])
    BY <1>2, <1>4, <1>7 DEF Stays
  <2> QED BY <1>5, <1>7, <1>8, <2>1, <2>2 DEF Copied
<1>10. ChainVerifies'
  <2> SUFFICES ASSUME damaged = {} PROVE Verifies(rows)'
    BY DEF ChainVerifies
  <2>1. Verifies(rows)
    BY DEF ChainVerifies
  <2>2. ASSUME NEW i \in DOMAIN rows
        PROVE  /\ rows'[i].seq = i - 1
               /\ rows'[i].prev = IF i = 1 THEN Genesis ELSE rows'[i - 1].hash
               /\ rows'[i].hash = HashInput(rows'[i].version, rows'[i].prev, rows'[i].call,
                                            rows'[i].status)
               /\ DetailBound(rows'[i])
    <3>1. i # 1 => i - 1 \in DOMAIN rows
      BY <1>4, <2>2
    <3> QED BY <1>4, <2>1, <3>1 DEF Verifies
  <2>3. /\ r.seq = n - 1
        /\ r.prev = IF n = 1 THEN Genesis ELSE rows'[n - 1].hash
    <3>1. n - 1 = Len(rows) /\ (n = 1 <=> Len(rows) = 0) /\ (n # 1 => Len(rows) \in DOMAIN rows)
      BY <1>4
    <3> QED BY <1>1, <1>2, <1>4, <2>1, <3>1
  <2>4. r.hash = HashInput(r.version, r.prev, r.call, r.status) /\ DetailBound(r)
    BY <1>2 DEF DetailBound
  <2> QED BY <1>4, <1>5, <2>2, <2>3, <2>4 DEF Verifies
<1> QED BY <1>2, <1>4, <1>5, <1>6, <1>8, <1>9, <1>10

-----------------------------------------------------------------------------
(* The first state                                                          *)

LEMMA InitAInv == Init => AInv
<1> SUFFICES ASSUME Init PROVE AInv
  OBVIOUS
<1>1. written = rows /\ latency = {} /\ damaged = {} /\ busy = 0 /\ plan = "idle" /\ verdict = "none"
      /\ pc = [p \in Process |-> "down"]
      /\ call = [c \in Call |-> [at |-> "none", by |-> None, status |-> None, seq |-> 0]]
  BY DEF Init
<1>2. columns \subseteq Column /\ tables \subseteq Table
  BY DEF Init, Column, Table
<1>3. \/ rows = <<>>
      \/ \E c \in OldCall, version \in {1, 2} :
           rows = <<NewRow(0, Genesis, c, "SUCCESS", version, None)>>
  BY DEF Init, OldRows, NextRow, Tail1
<1>4. call \in [Call -> CallState] /\ \A c \in Call : call[c].at = "none"
  BY <1>1 DEF CallState
<1>5. Shapes
  BY <1>1, <1>2, <1>4 DEF Shapes, Where
<1>6. Migration /\ Planned /\ NoFalseAlarm /\ LatencyOfItsCall
  BY <1>1, <1>4 DEF Migration, Planned, NoFalseAlarm, LatencyOfItsCall
<1>7. RowsType /\ Copied /\ Verifies(rows) /\ \A i \in DOMAIN rows : rows[i].call \notin Call
  <2>1. CASE rows = <<>>
    <3>1. DOMAIN rows = {} /\ rows \in Seq({})
      BY <2>1
    <3> QED BY <1>1, <3>1 DEF RowsType, Copied, Verifies
  <2>2. CASE rows # <<>>
    <3>1. PICK c \in OldCall, version \in {1, 2} :
            rows = <<NewRow(0, Genesis, c, "SUCCESS", version, None)>>
      BY <1>3, <2>2
    <3> DEFINE r == NewRow(0, Genesis, c, "SUCCESS", version, None)
    <3>2. /\ IsRow(r) /\ Sound(r) /\ r.seq = 0 /\ r.prev = Genesis /\ r.call = c /\ r.status = "SUCCESS"
          /\ r.version = version /\ r.hash = HashInput(version, Genesis, c, "SUCCESS")
          /\ r.detail = None /\ r.sig = None
      BY NewRowFields
    <3>4. rows = <<r>>
      BY <3>1
    <3> HIDE DEF r
    <3>5. DOMAIN rows = {1} /\ rows[1] = r /\ rows \in Seq({r})
      BY <3>4
    <3>6. RowsType
      BY <3>2, <3>5 DEF RowsType
    <3>7. Verifies(rows)
      BY <3>2, <3>5 DEF Verifies, DetailBound
    <3>8. c \notin Call
      OBVIOUS
    <3>9. Copied
      BY <1>1, <3>2, <3>5 DEF Copied, Stays, Links
    <3> QED BY <3>2, <3>5, <3>6, <3>7, <3>8, <3>9
  <2> QED BY <2>1, <2>2
<1>8. ChainVerifies
  BY <1>7 DEF ChainVerifies
<1>9. Recorded
  BY <1>4, <1>7 DEF Recorded, RecordedAs, RowsOf
<1> QED BY <1>5, <1>6, <1>7, <1>8, <1>9 DEF AInv

-----------------------------------------------------------------------------
(* Opening the database                                                     *)

\* A step that touches neither rows nor calls.
LEMMA RowsAlone ==
  ASSUME AInv, UNCHANGED <<rows, written, latency, damaged, call, plan, verdict>>, Shapes', Migration'
  PROVE  AInv'
<1>1. RowsType' /\ Copied' /\ Planned'
  BY DEF AInv, RowsType, Copied, Sound, Stays, Links, Planned
<1>2. ChainVerifies' /\ NoFalseAlarm' /\ LatencyOfItsCall'
  BY DEF AInv, ChainVerifies, NoFalseAlarm, LatencyOfItsCall
<1>3. Recorded'
  BY DEF AInv, Recorded, RecordedAs, RowsOf
<1> QED BY <1>1, <1>2, <1>3 DEF AInv

\* A column that is there stays there.
LEMMA MigrationGrows ==
  ASSUME Shapes, Migration, NEW p \in Process, NEW to \in Where, columns \subseteq columns',
         pc' = [pc EXCEPT ![p] = to], UNCHANGED call, busy # 0 => busy' # 0,
         to \in {"error_detail", "alter2", "error_detail_sig", "alter3", "ready"} =>
           "chain_version" \in columns',
         to \in {"error_detail_sig", "alter3", "ready"} => "error_detail" \in columns',
         to = "ready" => "error_detail_sig" \in columns'
  PROVE  Migration' /\ pc' \in [Process -> Where]
<1>1. pc' \in [Process -> Where] /\ pc'[p] = to /\ \A q \in Process : q # p => pc'[q] = pc[q]
  BY DEF Shapes
<1>2. Migrated => Migrated'
  BY DEF Migrated
<1>3. ASSUME NEW q \in Process
      PROVE  /\ pc'[q] \in {"error_detail", "alter2", "error_detail_sig", "alter3", "ready"} =>
                  "chain_version" \in columns'
             /\ pc'[q] \in {"error_detail_sig", "alter3", "ready"} => "error_detail" \in columns'
             /\ pc'[q] = "ready" => "error_detail_sig" \in columns'
  <2>1. CASE q = p
    BY <1>1, <2>1
  <2>2. CASE q # p
    BY <1>1, <2>2 DEF Migration
  <2> QED BY <2>1, <2>2
<1> QED BY <1>1, <1>2, <1>3 DEF Migration

LEMMA OpeningKeeps ==
  ASSUME AInv, NEW p \in Process,
         CreateEntries(p) \/ CreateMetrics(p) \/ LookColumn(p) \/ AddColumn(p) \/ OpenFails(p)
  PROVE  AInv'
<1>0. Shapes /\ Migration /\ columns \subseteq Column /\ busy \in Nat
  BY DEF AInv, Shapes
<1>1. CASE CreateEntries(p)
  <2>1. /\ UNCHANGED <<rows, written, latency, damaged, call, plan, verdict, busy>>
        /\ pc' = [pc EXCEPT ![p] = "metrics"]
        /\ tables' = tables \cup {"audit_entries"} /\ columns' \in {columns, Column}
    BY <1>1 DEF CreateEntries, Go, faults
  <2>2. Migration' /\ pc' \in [Process -> Where]
    BY <1>0, <2>1, MigrationGrows DEF Where
  <2>3. Shapes'
    BY <1>0, <2>1, <2>2 DEF Shapes, Table
  <2> QED BY <2>1, <2>2, <2>3, RowsAlone
<1>2. CASE CreateMetrics(p)
  <2>1. /\ UNCHANGED <<rows, written, latency, damaged, call, plan, verdict, busy, columns>>
        /\ pc' = [pc EXCEPT ![p] = "chain_version"] /\ tables' = tables \cup {"metrics"}
    BY <1>2 DEF CreateMetrics, Go, faults
  <2>2. Migration' /\ pc' \in [Process -> Where]
    BY <1>0, <2>1, MigrationGrows DEF Where, Column
  <2>3. Shapes'
    BY <1>0, <2>1, <2>2 DEF Shapes, Table
  <2> QED BY <2>1, <2>2, <2>3, RowsAlone
<1>3. CASE LookColumn(p)
  <2>1. PICK c \in Column : /\ pc[p] = c
                            /\ pc' = [pc EXCEPT ![p] = IF c \in columns THEN After(c) ELSE Alter(c)]
    BY <1>3 DEF LookColumn, Go
  <2>2. UNCHANGED <<rows, written, latency, damaged, call, plan, verdict, busy, columns, tables>>
    BY <1>3 DEF LookColumn, faults, db
  <2> DEFINE to == IF c \in columns THEN After(c) ELSE Alter(c)
  <2>3. /\ to \in Where
        /\ to \in {"error_detail", "alter2", "error_detail_sig", "alter3", "ready"} =>
             "chain_version" \in columns
        /\ to \in {"error_detail_sig", "alter3", "ready"} => "error_detail" \in columns
        /\ to = "ready" => "error_detail_sig" \in columns
    <3>1. CASE c = "chain_version"
      BY <1>0, <2>1, <3>1 DEF After, Alter, Where, Column, Migration
    <3>2. CASE c = "error_detail"
      BY <1>0, <2>1, <3>2 DEF After, Alter, Where, Column, Migration
    <3>3. CASE c = "error_detail_sig"
      BY <1>0, <2>1, <3>3 DEF After, Alter, Where, Column, Migration
    <3> QED BY <3>1, <3>2, <3>3 DEF Column
  <2>4. pc' = [pc EXCEPT ![p] = to]
    BY <2>1
  <2> HIDE DEF to
  <2>5. Migration' /\ pc' \in [Process -> Where]
    BY <1>0, <2>2, <2>3, <2>4, MigrationGrows
  <2>6. Shapes'
    BY <1>0, <2>2, <2>5 DEF Shapes
  <2> QED BY <2>2, <2>5, <2>6, RowsAlone
<1>4. CASE AddColumn(p)
  <2>1. PICK c \in Column : /\ pc[p] = Alter(c) /\ pc' = [pc EXCEPT ![p] = After(c)]
                            /\ columns' = columns \cup {c}
    BY <1>4 DEF AddColumn, Go
  <2>2. UNCHANGED <<rows, written, latency, damaged, call, plan, verdict, busy, tables>>
    BY <1>4 DEF AddColumn, faults
  <2>3. /\ After(c) \in Where
        /\ After(c) \in {"error_detail", "alter2", "error_detail_sig", "alter3", "ready"} =>
             "chain_version" \in columns'
        /\ After(c) \in {"error_detail_sig", "alter3", "ready"} => "error_detail" \in columns'
        /\ After(c) = "ready" => "error_detail_sig" \in columns'
    <3>1. CASE c = "chain_version"
      BY <1>0, <2>1, <3>1 DEF After, Alter, Where, Column, Migration
    <3>2. CASE c = "error_detail"
      BY <1>0, <2>1, <3>2 DEF After, Alter, Where, Column, Migration
    <3>3. CASE c = "error_detail_sig"
      BY <1>0, <2>1, <3>3 DEF After, Alter, Where, Column, Migration
    <3> QED BY <3>1, <3>2, <3>3 DEF Column
  <2>4. Migration' /\ pc' \in [Process -> Where]
    BY <1>0, <2>1, <2>2, <2>3, MigrationGrows
  <2>5. Shapes'
    BY <1>0, <2>1, <2>2, <2>4 DEF Shapes
  <2> QED BY <2>2, <2>4, <2>5, RowsAlone
<1>5. CASE OpenFails(p)
  <2>1. /\ UNCHANGED <<rows, written, latency, damaged, call, plan, verdict, columns, tables>>
        /\ busy' = busy + 1 /\ pc' = [pc EXCEPT ![p] = "down"]
    BY <1>5 DEF OpenFails, db
  <2>2. busy' \in Nat /\ busy' # 0
    BY <1>0, <2>1
  <2>3. Migration' /\ pc' \in [Process -> Where]
    BY <1>0, <2>1, <2>2, MigrationGrows DEF Where
  <2>4. Shapes'
    BY <1>0, <2>1, <2>2, <2>3 DEF Shapes
  <2> QED BY <2>1, <2>3, <2>4, RowsAlone
<1> QED BY <1>1, <1>2, <1>3, <1>4, <1>5

-----------------------------------------------------------------------------
(* Tool calls                                                               *)

\* One call comes to s, and no row changes.
LEMMA CallKeeps ==
  ASSUME AInv, NEW c \in Call, NEW s \in CallState, call' = [call EXCEPT ![c] = s],
         UNCHANGED <<columns, tables, rows, written, damaged, plan, verdict, pc>>,
         busy' \in Nat, busy # 0 => busy' # 0,
         s.at = "record" => Migrated /\ s.status \in {"SUCCESS", "ERROR"},
         s.at = "unrecorded" => busy' # 0,
         damaged = {} => RecordedAs(c, s),
         latency' \subseteq Nat \X Call, LatencyOfItsCall'
  PROVE  AInv'
<1>0. Shapes /\ Migration /\ Recorded
  BY DEF AInv
<1>1. call' \in [Call -> CallState] /\ call'[c] = s /\ \A e \in Call : e # c => call'[e] = call[e]
  BY <1>0 DEF Shapes
<1>2. Shapes'
  BY <1>0, <1>1 DEF Shapes
<1>3. Migration'
  BY <1>0, <1>1 DEF Migration, Migrated
<1>4. RowsType' /\ Copied' /\ Planned'
  BY DEF AInv, RowsType, Copied, Sound, Stays, Links, Planned
<1>5. ChainVerifies' /\ NoFalseAlarm'
  BY DEF AInv, ChainVerifies, NoFalseAlarm
<1>6. Recorded'
  <2>1. \A e \in Call : RowsOf(e)' = RowsOf(e)
    BY DEF RowsOf
  <2>2. ASSUME damaged = {}, NEW e \in Call PROVE RecordedAs(e, call'[e])
    <3>1. CASE e = c
      BY <1>1, <2>2, <3>1
    <3>2. CASE e # c
      BY <1>0, <1>1, <2>2, <3>2 DEF Recorded
    <3> QED BY <3>1, <3>2
  <2> QED BY <2>1, <2>2 DEF Recorded, RecordedAs
<1> QED BY <1>2, <1>3, <1>4, <1>5, <1>6 DEF AInv

LEMMA SameLatency ==
  ASSUME AInv, UNCHANGED <<rows, written, latency, damaged>>
  PROVE  latency' \subseteq Nat \X Call /\ LatencyOfItsCall'
BY DEF AInv, Shapes, LatencyOfItsCall

\* An open logger takes a call: it will be recorded, is answered without a row
\* because auditing is off, or its tool panicked.
LEMMA InvokeKeeps ==
  ASSUME AInv, NEW p \in Process, NEW c \in Call,
         \/ InvalidArguments(p, c) \/ GovernanceRefusal(p, c)
         \/ RunTool(p, c) \/ ToolPanics(p, c)
  PROVE  AInv'
<1>1. /\ pc[p] = "ready" /\ call[c].at = "none"
      /\ UNCHANGED <<columns, tables, rows, written, latency, damaged, plan, verdict, pc, busy>>
  BY DEF InvalidArguments, GovernanceRefusal, RunTool, ToolPanics, db, faults
<1>2. PICK s \in CallState :
        /\ call' = [call EXCEPT ![c] = s]
        /\ \/ s.at = "failed"
           \/ s.at = (IF AuditEnabled THEN "record" ELSE "answered")
              /\ s.status \in {"SUCCESS", "ERROR"}
  <2> DEFINE at == IF AuditEnabled THEN "record" ELSE "answered"
             S(a, status) == [at |-> a, by |-> p, status |-> status, seq |-> 0]
  <2>1. \A status \in {"SUCCESS", "ERROR"} : S(at, status) \in CallState
    BY DEF CallState
  <2>2. S("failed", None) \in CallState
    BY DEF CallState
  <2>3. \A a, status : S(a, status).at = a /\ S(a, status).status = status
    OBVIOUS
  <2>4. \/ call' = [call EXCEPT ![c] = S("failed", None)]
        \/ \E status \in {"SUCCESS", "ERROR"} : call' = [call EXCEPT ![c] = S(at, status)]
    BY DEF InvalidArguments, GovernanceRefusal, RunTool, ToolPanics, SetCall, Refused
  <2> HIDE DEF S
  <2> QED BY <2>1, <2>2, <2>3, <2>4
<1>3. Migrated
  BY <1>1 DEF AInv, Migration, Migrated, Column
<1>4. busy \in Nat
  BY DEF AInv, Shapes
<1>5. damaged = {} => RecordedAs(c, s)
  <2>1. damaged = {} => RowsOf(c) = {}
    BY <1>1 DEF AInv, Recorded, RecordedAs
  <2>2. s.at = "failed" \/ (AuditEnabled /\ s.at = "record") \/ (~AuditEnabled /\ s.at = "answered")
    BY <1>2
  <2> QED BY <2>1, <2>2 DEF RecordedAs
<1>6. latency' \subseteq Nat \X Call /\ LatencyOfItsCall'
  BY <1>1, SameLatency
<1>7. s.at # "unrecorded" /\ (s.at = "record" => s.status \in {"SUCCESS", "ERROR"})
  BY <1>2
<1> QED BY <1>1, <1>2, <1>3, <1>4, <1>5, <1>6, <1>7, CallKeeps

\* The INSERT fails on a busy database: every column it names is there.
LEMMA RecordFailsKeeps == ASSUME AInv, NEW c \in Call, RecordFails(c) PROVE AInv'
<1> DEFINE s == [at |-> "unrecorded", by |-> call[c].by, status |-> call[c].status, seq |-> 0]
<1>1. /\ call[c].at = "record" /\ call' = [call EXCEPT ![c] = s]
      /\ busy' = (IF Migrated THEN busy + 1 ELSE busy)
      /\ UNCHANGED <<columns, tables, rows, written, latency, damaged, plan, verdict, pc>>
  BY DEF RecordFails, SetCall, db
<1>2. Migrated /\ busy \in Nat /\ call[c] \in CallState
  BY <1>1 DEF AInv, Migration, Shapes
<1>3. busy' \in Nat /\ busy' # 0
  BY <1>1, <1>2
<1>4. s \in CallState /\ s.at = "unrecorded"
  BY <1>2 DEF CallState
<1> HIDE DEF s
<1>5. damaged = {} => RecordedAs(c, s)
  BY <1>1, <1>4 DEF AInv, Recorded, RecordedAs
<1>6. latency' \subseteq Nat \X Call /\ LatencyOfItsCall'
  BY <1>1, SameLatency
<1> QED BY <1>1, <1>3, <1>4, <1>5, <1>6, CallKeeps

\* The second statement, done or given up: the call is answered.
LEMMA LatencyKeeps ==
  ASSUME AInv, NEW c \in Call, RecordLatency(c) \/ LatencyFails(c) PROVE AInv'
<1> DEFINE s == [at |-> "answered", by |-> call[c].by, status |-> call[c].status,
                 seq |-> call[c].seq]
<1>1. /\ call[c].at = "latency" /\ call' = [call EXCEPT ![c] = s]
      /\ busy' \in {busy, busy + 1}
      /\ UNCHANGED <<columns, tables, rows, written, damaged, plan, verdict, pc>>
      /\ \/ latency' = latency
         \/ latency' = {m \in latency : m[1] # call[c].seq} \cup {<<call[c].seq, c>>}
  <2>1. CASE RecordLatency(c)
    BY <2>1 DEF RecordLatency, SetCall, faults, LatencySeq
  <2>2. CASE LatencyFails(c)
    BY <2>2 DEF LatencyFails, SetCall, db
  <2> QED BY <2>1, <2>2
<1>2. busy \in Nat /\ call[c] \in CallState /\ latency \subseteq Nat \X Call
  BY DEF AInv, Shapes
<1>3. busy' \in Nat /\ (busy # 0 => busy' # 0)
  BY <1>1, <1>2
<1>4. s \in CallState /\ s.at = "answered" /\ s.status = call[c].status /\ call[c].seq \in Nat
  BY <1>2 DEF CallState
<1> HIDE DEF s
<1>5. damaged = {} => RecordedAs(c, call[c])
  BY DEF AInv, Recorded
<1>6. damaged = {} => RecordedAs(c, s)
  BY <1>1, <1>4, <1>5 DEF RecordedAs
<1>7. latency' \subseteq Nat \X Call
  BY <1>1, <1>2, <1>4
<1>8. LatencyOfItsCall'
  <2>1. damaged = {} => \E i \in DOMAIN rows : rows[i].seq = call[c].seq /\ rows[i].call = c
    BY <1>1, <1>5 DEF RecordedAs, RowsOf
  <2>2. LatencyOfItsCall
    BY DEF AInv
  <2>3. ASSUME damaged = {}, NEW m \in latency'
        PROVE  \E i \in DOMAIN rows : rows[i].seq = m[1] /\ rows[i].call = m[2]
    <3>1. CASE m \in latency
      BY <2>2, <2>3, <3>1 DEF LatencyOfItsCall
    <3>2. CASE m = <<call[c].seq, c>>
      BY <2>1, <2>3, <3>2
    <3> QED BY <1>1, <3>1, <3>2
  <2> QED BY <1>1, <2>3 DEF LatencyOfItsCall
<1> QED BY <1>1, <1>3, <1>4, <1>6, <1>7, <1>8, CallKeeps

\* A process dies: what it had open is lost, and what was written stays.
LEMMA CrashKeeps == ASSUME AInv, NEW p \in Process, Crash(p) PROVE AInv'
<1>0. Shapes /\ Migration /\ Recorded
  BY DEF AInv
<1>1. /\ UNCHANGED <<columns, tables, rows, written, latency, damaged, plan, verdict, busy>>
      /\ pc' = [pc EXCEPT ![p] = "down"]
      /\ call' = [c \in Call |-> IF call[c].by = p /\ call[c].at \in {"record", "latency"}
                                 THEN [call[c] EXCEPT !.at = "lost"] ELSE call[c]]
  BY DEF Crash, db
<1>2. ASSUME NEW c \in Call
      PROVE  call'[c] \in CallState /\ (call'[c] = call[c] \/ call'[c].at = "lost")
  <2>1. call[c] \in CallState
    BY <1>0 DEF Shapes
  <2>2. [call[c] EXCEPT !.at = "lost"] \in CallState /\ [call[c] EXCEPT !.at = "lost"].at = "lost"
    BY <2>1 DEF CallState
  <2> QED BY <1>1, <2>1, <2>2
<1>3. call' \in [Call -> CallState]
  <2>1. DOMAIN call' = Call /\ call' = [c \in Call |-> call'[c]]
    BY <1>1
  <2> QED BY <1>2, <2>1
<1>4. pc' \in [Process -> Where] /\ \A q \in Process : pc'[q] = pc[q] \/ pc'[q] = "down"
  BY <1>0, <1>1 DEF Shapes, Where
<1>5. Shapes'
  BY <1>0, <1>1, <1>3, <1>4 DEF Shapes
<1>6. Migration'
  BY <1>0, <1>1, <1>2, <1>4 DEF Migration, Migrated
<1>7. RowsType' /\ Copied' /\ Planned'
  BY <1>1 DEF AInv, RowsType, Copied, Sound, Stays, Links, Planned
<1>8. ChainVerifies' /\ NoFalseAlarm' /\ LatencyOfItsCall'
  BY <1>1 DEF AInv, ChainVerifies, NoFalseAlarm, LatencyOfItsCall
<1>9. Recorded'
  <2>1. \A c \in Call : RowsOf(c)' = RowsOf(c)
    BY <1>1 DEF RowsOf
  <2>2. ASSUME damaged = {}, NEW c \in Call PROVE RecordedAs(c, call'[c])
    <3>1. RecordedAs(c, call[c])
      BY <1>0, <2>2 DEF Recorded
    <3>2. CASE call'[c].at = "lost"
      BY <3>1, <3>2 DEF RecordedAs
    <3> QED BY <1>2, <3>1, <3>2
  <2> QED BY <1>1, <2>1, <2>2 DEF Recorded, RecordedAs
<1> QED BY <1>5, <1>6, <1>7, <1>8, <1>9 DEF AInv

-----------------------------------------------------------------------------
(* New rows                                                                 *)

\* A row of call c is appended.
LEMMA AppendRecorded ==
  ASSUME AInv, NEW c \in Call \cup OldCall, NEW n, n \notin DOMAIN rows,
         DOMAIN rows' = DOMAIN rows \cup {n}, \A i \in DOMAIN rows : rows'[i] = rows[i],
         rows'[n].call = c, UNCHANGED <<latency, damaged>>
  PROVE  /\ LatencyOfItsCall'
         /\ \A e \in Call : e # c => RowsOf(e)' = RowsOf(e)
         /\ \A e \in Call : e = c => RowsOf(e)' = RowsOf(e) \cup {n}
<1>1. LatencyOfItsCall
  BY DEF AInv
<1>2. LatencyOfItsCall'
  BY <1>1 DEF LatencyOfItsCall
<1>3. \A e \in Call : e # c => RowsOf(e)' = RowsOf(e)
  BY DEF RowsOf
<1>4. \A e \in Call : e = c => RowsOf(e)' = RowsOf(e) \cup {n}
  BY DEF RowsOf
<1> QED BY <1>2, <1>3, <1>4

\* record_entry_with_error: the tail is read and the row inserted in one
\* transaction, so that the new row continues the chain.
LEMMA RecordEntryKeeps == ASSUME AInv, NEW c \in Call, RecordEntry(c) PROVE AInv'
<1>0. /\ Shapes /\ Migration /\ RowsType /\ Copied /\ ChainVerifies /\ Recorded
      /\ NoFalseAlarm /\ Planned
  BY DEF AInv
<1>1. call[c].at = "record" /\ call[c].status \in {"SUCCESS", "ERROR"}
  BY <1>0 DEF RecordEntry, Migration
<1> DEFINE st == call[c].status
           detail == IF st = "ERROR" THEN "detail" ELSE None
           n == Len(rows) + 1
           q == Tail1(rows).seq
           s == [at |-> "latency", by |-> call[c].by, status |-> st, seq |-> q]
<1>2. /\ detail \in {None, "detail"} /\ (detail # None <=> st = "ERROR")
      /\ q \in Nat
  BY <1>0, TailType
<1>3. Insert(NextRow(rows, c, st, 2, detail))
  BY DEF RecordEntry, RowOf
<1>4. /\ call[c].at = "record"
      /\ UNCHANGED <<columns, tables, latency, pc, plan, verdict, busy, damaged>>
  BY DEF RecordEntry, faults
<1>5. call' = [call EXCEPT ![c] = s]
  <2>1. RowOf(c, st).seq = q
    BY DEF RowOf, NextRow, NewRow
  <2> QED BY <2>1 DEF RecordEntry, SetCall
<1> HIDE DEF detail, q
<1>6. /\ RowsType' /\ Copied' /\ ChainVerifies'
      /\ n \in DOMAIN rows' /\ DOMAIN rows \subseteq DOMAIN rows'
      /\ n \notin DOMAIN rows
      /\ \A i \in DOMAIN rows' : i \in DOMAIN rows \/ i = n
      /\ \A i \in DOMAIN rows : rows'[i] = rows[i]
      /\ rows'[n].call = c /\ rows'[n].status = st
      /\ rows'[n].detail = detail /\ rows'[n].seq = q
  BY <1>0, <1>1, <1>2, <1>3, <1>4, AppendKeeps DEF q
<1> HIDE DEF n
<1>7. /\ LatencyOfItsCall'
      /\ \A e \in Call : e # c => RowsOf(e)' = RowsOf(e)
      /\ RowsOf(c)' = RowsOf(c) \cup {n}
  <2>1. DOMAIN rows' = DOMAIN rows \cup {n}
    BY <1>6
  <2> QED BY <1>4, <1>6, <2>1, AppendRecorded
<1>8. s \in CallState /\ s.at = "latency" /\ s.status = st /\ s.seq = q
  BY <1>0, <1>2 DEF Shapes, CallState
<1> HIDE DEF s
<1>9. call' \in [Call -> CallState] /\ call'[c] = s /\ \A e \in Call : e # c => call'[e] = call[e]
  BY <1>0, <1>5, <1>8 DEF Shapes
<1>10. Shapes'
  BY <1>0, <1>4, <1>9 DEF Shapes
<1>11. Migration'
  BY <1>0, <1>4, <1>8, <1>9 DEF Migration, Migrated
<1>12. Recorded'
  <2> SUFFICES ASSUME damaged = {}, NEW e \in Call PROVE RecordedAs(e, call[e])'
    BY <1>4 DEF Recorded
  <2>1. RecordedAs(e, call[e])
    BY <1>0 DEF Recorded
  <2>2. CASE e # c
    <3>1. RowsOf(e)' = RowsOf(e) /\ call'[e] = call[e]
      BY <1>7, <1>9, <2>2
    <3>2. \A i \in RowsOf(e) : rows'[i] = rows[i]
      BY <1>6 DEF RowsOf
    <3> QED BY <2>1, <3>1, <3>2 DEF RecordedAs
  <2>3. CASE e = c
    <3>1. RowsOf(c) = {}
      BY <1>4, <2>1, <2>3 DEF RecordedAs
    <3>2. RowsOf(c)' = {n} /\ call'[c] = s
      BY <1>7, <1>9, <3>1
    <3>3. rows'[n].status = s.status /\ rows'[n].seq = s.seq
          /\ (rows'[n].detail # None <=> s.status = "ERROR")
      BY <1>2, <1>6, <1>8
    <3> QED BY <1>8, <2>3, <3>2, <3>3 DEF RecordedAs
  <2> QED BY <2>2, <2>3
<1>13. NoFalseAlarm' /\ Planned'
  BY <1>0, <1>4, <1>6 DEF NoFalseAlarm, Planned
<1> QED BY <1>6, <1>7, <1>10, <1>11, <1>12, <1>13 DEF AInv

\* An older binary continues the same chain, without the newer columns.
LEMMA OldBinaryKeeps ==
  ASSUME AInv, NEW version \in {1, 2}, NEW c \in OldCall, OldBinaryAppends(version, c)
  PROVE  AInv'
<1>0. /\ Shapes /\ Migration /\ RowsType /\ Copied /\ ChainVerifies /\ Recorded
      /\ NoFalseAlarm /\ Planned
  BY DEF AInv
<1> DEFINE n == Len(rows) + 1
<1>1. /\ Insert(NextRow(rows, c, "SUCCESS", version, None))
      /\ UNCHANGED <<columns, tables, latency, pc, call, plan, verdict, busy, damaged>>
  BY DEF OldBinaryAppends, faults
<1>2. /\ RowsType' /\ Copied' /\ ChainVerifies'
      /\ n \in DOMAIN rows' /\ DOMAIN rows \subseteq DOMAIN rows'
      /\ n \notin DOMAIN rows
      /\ \A i \in DOMAIN rows' : i \in DOMAIN rows \/ i = n
      /\ \A i \in DOMAIN rows : rows'[i] = rows[i]
      /\ rows'[n].call = c
  BY <1>0, <1>1, AppendKeeps
<1> HIDE DEF n
<1>3. LatencyOfItsCall' /\ \A e \in Call : RowsOf(e)' = RowsOf(e)
  <2>1. DOMAIN rows' = DOMAIN rows \cup {n} /\ c \notin Call
    BY <1>2
  <2> QED BY <1>1, <1>2, <2>1, AppendRecorded
<1>4. Shapes' /\ Migration' /\ NoFalseAlarm' /\ Planned'
  BY <1>0, <1>1, <1>2 DEF Shapes, Migration, Migrated, NoFalseAlarm, Planned
<1>5. Recorded'
  <2> SUFFICES ASSUME damaged = {}, NEW e \in Call PROVE RecordedAs(e, call[e])'
    BY <1>1 DEF Recorded
  <2>1. RecordedAs(e, call[e]) /\ RowsOf(e)' = RowsOf(e)
    BY <1>0, <1>3 DEF Recorded
  <2>2. \A i \in RowsOf(e) : rows'[i] = rows[i]
    BY <1>2 DEF RowsOf
  <2> QED BY <1>1, <2>1, <2>2 DEF RecordedAs
<1> QED BY <1>2, <1>3, <1>4, <1>5 DEF AInv

-----------------------------------------------------------------------------
(* Damage                                                                   *)

\* What a row is after one of its fields was damaged.
LEMMA DamagedRow ==
  ASSUME NEW r, IsRow(r), NEW w, Stays(r, w), NEW field \in Field, NEW value \in Damages(field),
         NEW t, t = [r EXCEPT ![field] = value]
  PROVE  IsRow(t) /\ Stays(t, w) /\ (r.hash = Rotten => t.hash = Rotten)
<1> DEFINE R(a, b, x, c, v, d, e, g) ==
             [seq |-> r.seq, prev |-> a, call |-> b, trace |-> x, status |-> c, version |-> v,
              hash |-> d, detail |-> e, sig |-> g]
<1>1. r = R(r.prev, r.call, r.trace, r.status, r.version, r.hash, r.detail, r.sig)
  BY DEF IsRow
<1>2. \/ field = "prev" /\ t = R(value, r.call, r.trace, r.status, r.version, r.hash, r.detail, r.sig)
      \/ field = "call" /\ t = R(r.prev, value, r.trace, r.status, r.version, r.hash, r.detail, r.sig)
      \/ field = "trace" /\ t = R(r.prev, r.call, value, r.status, r.version, r.hash, r.detail, r.sig)
      \/ field = "status" /\ t = R(r.prev, r.call, r.trace, value, r.version, r.hash, r.detail, r.sig)
      \/ field = "version" /\ t = R(r.prev, r.call, r.trace, r.status, value, r.hash, r.detail, r.sig)
      \/ field = "hash" /\ t = R(r.prev, r.call, r.trace, r.status, r.version, value, r.detail, r.sig)
      \/ field = "detail" /\ t = R(r.prev, r.call, r.trace, r.status, r.version, r.hash, value, r.sig)
      \/ field = "sig" /\ t = R(r.prev, r.call, r.trace, r.status, r.version, r.hash, r.detail, value)
  BY <1>1 DEF Field
<1>3. /\ field \in {"call", "hash"} => value = Rotten
      /\ field = "sig" => value \in {None, Rotten}
      /\ field = "version" => value \in {1, 2, Rotten}
  BY DEF Damages
<1>4. PICK a, b, x, c, v, d, e, g :
        /\ t = R(a, b, x, c, v, d, e, g)
        /\ b \in {r.call, Rotten} /\ d \in {r.hash, Rotten} /\ g \in {r.sig, None, Rotten}
        /\ v \in {r.version, 1, 2, Rotten}
  <2> HIDE DEF R
  <2> QED BY <1>2, <1>3
<1>5. /\ t.seq = r.seq /\ t.version = v /\ t.prev = a /\ t.call = b /\ t.trace = x /\ t.status = c
      /\ t.hash = d /\ t.detail = e /\ t.sig = g
  BY <1>4
<1>6. t = [seq |-> t.seq, prev |-> t.prev, call |-> t.call, trace |-> t.trace, status |-> t.status,
           version |-> t.version, hash |-> t.hash, detail |-> t.detail, sig |-> t.sig]
  BY <1>4, <1>5
<1>7. IsRow(t)
  BY <1>4, <1>5, <1>6 DEF IsRow
<1> QED BY <1>4, <1>5, <1>7 DEF Stays

LEMMA DamageKeeps ==
  ASSUME AInv, NEW i \in DOMAIN rows, NEW field \in Field, NEW value \in Damages(field),
         Damage(i, field, value)
  PROVE  AInv'
<1>0. Shapes /\ Migration /\ RowsType /\ Copied /\ Planned
  BY DEF AInv
<1> DEFINE t == [rows[i] EXCEPT ![field] = value]
<1>1. /\ rows' = [rows EXCEPT ![i] = t] /\ damaged' = damaged \cup {<<i, field>>}
      /\ UNCHANGED <<columns, tables, written, latency, pc, call, plan, verdict, busy>>
  BY DEF Damage
<1>2. IsRow(t) /\ Stays(t, written[i]) /\ (rows[i].hash = Rotten => t.hash = Rotten)
  <2>1. IsRow(rows[i]) /\ Stays(rows[i], written[i])
    BY <1>0 DEF RowsType, Copied
  <2> QED BY <2>1, DamagedRow
<1> HIDE DEF t
<1>3. /\ DOMAIN rows' = DOMAIN rows /\ rows'[i] = t /\ Len(rows') = Len(rows)
      /\ \A j \in DOMAIN rows : j # i => rows'[j] = rows[j]
      /\ \E S : rows' \in Seq(S)
  <2>1. PICK S : rows \in Seq(S)
    BY <1>0 DEF RowsType
  <2> DEFINE T == S \cup {t}
  <2>2. rows \in Seq(T) /\ t \in T
    BY <2>1
  <2> HIDE DEF T
  <2>3. rows' \in Seq(T)
    BY <1>1, <2>2
  <2> QED BY <1>1, <2>1, <2>2, <2>3
<1>4. RowsType'
  BY <1>0, <1>2, <1>3 DEF RowsType
<1>5. Copied'
  <2>1. ASSUME NEW j \in DOMAIN rows PROVE (Stays(rows[j], written[j]) /\ Links(rows, written, j))'
    <3>1. Stays(rows[j], written[j]) /\ Links(rows, written, j)
      BY <1>0 DEF Copied
    <3>2. j # 1 => j - 1 \in DOMAIN rows
      BY <1>0, <2>1, RowsDomain
    <3>3. \A k \in DOMAIN rows : rows[k].hash = Rotten => rows'[k].hash = Rotten
      BY <1>2, <1>3
    <3>4. Links(rows', written', j)
      BY <1>1, <3>1, <3>2, <3>3 DEF Links
    <3>5. Stays(rows[j], written[j])'
      BY <1>1, <1>2, <1>3, <3>1
    <3> QED BY <3>4, <3>5
  <2> QED BY <1>0, <1>1, <1>3, <2>1 DEF Copied, Sound
<1>6. damaged' # {}
  BY <1>1
<1>7. ChainVerifies' /\ NoFalseAlarm' /\ Recorded' /\ LatencyOfItsCall'
  BY <1>6 DEF ChainVerifies, NoFalseAlarm, Recorded, LatencyOfItsCall
<1>8. Shapes' /\ Migration' /\ Planned'
  BY <1>0, <1>1 DEF Shapes, Migration, Migrated, Planned
<1> QED BY <1>4, <1>5, <1>7, <1>8 DEF AInv

-----------------------------------------------------------------------------
(* verify_db                                                                *)

\* The fields of what the planned statement yields for a row.
LEMMA SelectsFields ==
  ASSUME RowsType, NEW i \in DOMAIN rows
  PROVE  /\ SelectEntries[i].seq = rows[i].seq /\ SelectEntries[i].prev = rows[i].prev
         /\ SelectEntries[i].call = rows[i].call /\ SelectEntries[i].status = rows[i].status
         /\ SelectEntries[i].version = rows[i].version /\ SelectEntries[i].hash = rows[i].hash
         /\ SelectEntries[i].detail = IF plan = "neither" THEN None ELSE rows[i].detail
         /\ SelectEntries[i].sig = IF plan = "both" THEN rows[i].sig ELSE None
<1> DEFINE r == rows[i]
           d == IF plan = "neither" THEN None ELSE r.detail
           g == IF plan = "both" THEN r.sig ELSE None
<1>1. SelectEntries[i] = [r EXCEPT !.detail = d, !.sig = g]
  BY DEF SelectEntries
<1>2. r = [seq |-> r.seq, prev |-> r.prev, call |-> r.call, trace |-> r.trace, status |-> r.status,
           version |-> r.version, hash |-> r.hash, detail |-> r.detail, sig |-> r.sig]
  BY DEF RowsType, IsRow
<1> DEFINE R(a, b) ==
             [seq |-> r.seq, prev |-> r.prev, call |-> r.call, trace |-> r.trace, status |-> r.status,
              version |-> r.version, hash |-> r.hash, detail |-> a, sig |-> b]
<1> HIDE DEF r, d, g
<1>3. [r EXCEPT !.detail = d, !.sig = g] = R(d, g)
  <2>1. [R(r.detail, r.sig) EXCEPT !.detail = d] = R(d, r.sig)
    OBVIOUS
  <2>2. [R(d, r.sig) EXCEPT !.sig = g] = R(d, g)
    OBVIOUS
  <2>3. r = R(r.detail, r.sig)
    BY <1>2
  <2> HIDE DEF R
  <2>4. [r EXCEPT !.detail = d] = R(d, r.sig)
    BY <2>1, <2>3
  <2>5. [[r EXCEPT !.detail = d] EXCEPT !.sig = g] = R(d, g)
    BY <2>2, <2>4
  <2> QED BY <2>5
<1>4. /\ SelectEntries[i].seq = r.seq /\ SelectEntries[i].prev = r.prev
      /\ SelectEntries[i].call = r.call /\ SelectEntries[i].status = r.status
      /\ SelectEntries[i].version = r.version /\ SelectEntries[i].hash = r.hash
      /\ SelectEntries[i].detail = d /\ SelectEntries[i].sig = g
  BY <1>1, <1>3
<1> QED BY <1>4 DEF r, d, g

\* What the hash chain asks of row i.
ChainedAt(rs, i) ==
  /\ rs[i].seq = i - 1
  /\ rs[i].prev = IF i = 1 THEN Genesis ELSE rs[i - 1].hash
  /\ rs[i].hash = HashInput(rs[i].version, rs[i].prev, rs[i].call, rs[i].status)

\* What the plan leaves of the question whether the error of row r is signed.
ErrorFits(r) ==
  /\ plan = "both" => DetailBound(r)
  /\ plan = "detail_only" => r.detail = None

LEMMA SelectVerifies ==
  ASSUME RowsType, plan \in {"both", "detail_only", "neither"}
  PROVE  /\ (\A i \in DOMAIN rows : ChainedAt(rows, i) /\ ErrorFits(rows[i])) => Verifies(SelectEntries)
         /\ Opaque /\ Verifies(SelectEntries) =>
              \A i \in DOMAIN rows : ChainedAt(rows, i) /\ ErrorFits(rows[i])
<1>1. DOMAIN SelectEntries = DOMAIN rows /\ DOMAIN rows = 1..Len(rows) /\ Len(rows) \in Nat
  BY RowsDomain DEF SelectEntries
<1>2. ASSUME NEW i \in DOMAIN rows
      PROVE  /\ ChainedAt(SelectEntries, i) <=> ChainedAt(rows, i)
             /\ ErrorFits(rows[i]) => DetailBound(SelectEntries[i])
             /\ Opaque /\ DetailBound(SelectEntries[i]) => ErrorFits(rows[i])
  <2>1. i # 1 => i - 1 \in DOMAIN rows
    BY <1>1, <1>2
  <2>2. ChainedAt(SelectEntries, i) <=> ChainedAt(rows, i)
    BY <2>1, SelectsFields DEF ChainedAt
  <2>3. /\ SelectEntries[i].hash = rows[i].hash
        /\ SelectEntries[i].detail = IF plan = "neither" THEN None ELSE rows[i].detail
        /\ SelectEntries[i].sig = IF plan = "both" THEN rows[i].sig ELSE None
    BY SelectsFields
  <2> DEFINE Same == /\ ErrorFits(rows[i]) => DetailBound(SelectEntries[i])
                     /\ Opaque /\ DetailBound(SelectEntries[i]) => ErrorFits(rows[i])
  <2>4. ASSUME plan = "both" PROVE Same
    BY <2>3, <2>4 DEF DetailBound, ErrorFits
  <2>5. ASSUME plan = "detail_only" PROVE Same
    <3>1. Opaque => \A h, d : ErrorDetailSig(h, d) # None
      BY DEF Opaque
    <3> QED BY <2>3, <2>5, <3>1 DEF DetailBound, ErrorFits
  <2>6. ASSUME plan = "neither" PROVE Same
    BY <2>3, <2>6 DEF DetailBound, ErrorFits
  <2> QED BY <2>2, <2>4, <2>5, <2>6
<1> QED BY <1>1, <1>2 DEF Verifies, ChainedAt

LEMMA VerifyKeeps == ASSUME AInv, PlanVerify \/ PlanDetail \/ RunVerify PROVE AInv'
<1>0. Shapes /\ Migration /\ RowsType /\ ChainVerifies /\ NoFalseAlarm /\ Planned
  BY DEF AInv
<1>1. UNCHANGED <<columns, tables, rows, written, latency, pc, call, busy, damaged>>
  BY DEF PlanVerify, PlanDetail, RunVerify, db, faults
<1>2. Copied' /\ ChainVerifies' /\ LatencyOfItsCall' /\ RowsType' /\ Migration'
  BY <1>1 DEF AInv, Copied, Sound, Stays, Links, ChainVerifies, LatencyOfItsCall, RowsType, Migration,
              Migrated
<1>3. Recorded'
  BY <1>1 DEF AInv, Recorded, RecordedAs, RowsOf
<1>4. CASE PlanVerify \/ PlanDetail
  <2>1. /\ verdict' = verdict /\ plan \in {"idle", "not_both"}
        /\ plan' \in {"both", "not_both", "detail_only", "neither"}
    BY <1>4 DEF PlanVerify, PlanDetail
  <2>2. verdict = "none"
    BY <1>0, <2>1 DEF Planned
  <2>3. Shapes' /\ NoFalseAlarm' /\ Planned'
    BY <1>0, <1>1, <2>1, <2>2 DEF Shapes, NoFalseAlarm, Planned
  <2> QED BY <1>2, <1>3, <2>3 DEF AInv
<1>5. CASE RunVerify
  <2>1. /\ plan' = plan /\ plan \in {"both", "detail_only", "neither"}
        /\ verdict' \in {"ok", "broken", "database_error"}
        /\ verdict' = "broken" => ~Verifies(SelectEntries)
    BY <1>5 DEF RunVerify, Answer
  <2>2. NoFalseAlarm'
    <3> SUFFICES ASSUME verdict' = "broken", damaged = {},
                        plan # "detail_only" \/ \A i \in DOMAIN rows : rows[i].detail = None
                 PROVE  FALSE
      BY <1>1, <2>1 DEF NoFalseAlarm
    <3>1. \A i \in DOMAIN rows : ChainedAt(rows, i) /\ DetailBound(rows[i])
      BY <1>0 DEF ChainVerifies, Verifies, ChainedAt
    <3>2. \A i \in DOMAIN rows : ErrorFits(rows[i])
      BY <2>1, <3>1 DEF ErrorFits
    <3> QED BY <1>0, <2>1, <3>1, <3>2, SelectVerifies
  <2>3. Shapes' /\ Planned'
    BY <1>0, <1>1, <2>1 DEF Shapes, Planned
  <2> QED BY <1>2, <1>3, <2>2, <2>3 DEF AInv
<1> QED BY <1>4, <1>5

-----------------------------------------------------------------------------
(* The theorems                                                             *)

LEMMA NextAInv == AInv /\ [Next]_vars => AInv'
<1> SUFFICES ASSUME AInv, [Next]_vars PROVE AInv'
  OBVIOUS
<1>1. ASSUME NEW p \in Process,
             \/ CreateEntries(p) \/ CreateMetrics(p) \/ LookColumn(p) \/ AddColumn(p)
             \/ OpenFails(p) \/ Crash(p)
             \/ \E c \in Call : InvalidArguments(p, c) \/ GovernanceRefusal(p, c)
                                \/ RunTool(p, c) \/ ToolPanics(p, c)
      PROVE  AInv'
  BY <1>1, OpeningKeeps, CrashKeeps, InvokeKeeps
<1>2. ASSUME NEW c \in Call,
             RecordEntry(c) \/ RecordFails(c) \/ RecordLatency(c) \/ LatencyFails(c)
      PROVE  AInv'
  BY <1>2, RecordEntryKeeps, RecordFailsKeeps, LatencyKeeps
<1>3. CASE UNCHANGED vars
  <2>1. UNCHANGED <<columns, tables, rows, written, latency, damaged, pc, call, plan, verdict, busy>>
    BY <1>3 DEF vars, db, faults
  <2>2. Shapes' /\ Migration'
    BY <2>1 DEF AInv, Shapes, Migration, Migrated
  <2> QED BY <2>1, <2>2, RowsAlone
<1>4. CASE Next
  BY <1>1, <1>2, <1>4, OldBinaryKeeps, DamageKeeps, VerifyKeeps DEF Next
<1> QED BY <1>3, <1>4

LEMMA AlwaysAInv == Spec => []AInv
BY InitAInv, NextAInv, PTL DEF Spec

\* A logger that is open finds every column its INSERT names, whatever layout
\* an older version left and whoever migrates it at the same time: a row is
\* given up only because the database was busy (AuditLogger::new).
THEOREM AlwaysMigratedWhenReady == Spec => []MigratedWhenReady
<1>1. AInv => MigratedWhenReady
  BY DEF AInv, Migration, MigratedWhenReady
<1> QED BY <1>1, AlwaysAInv, PTL

\* A call has one row at most, an audited answer exactly one that tells its
\* outcome, and every latency belongs to the row of the call it measures,
\* whatever processes append in between (ToolRegistry::invoke).
THEOREM CallsAlwaysRecordedOnce == Spec => []CallsRecordedOnce
<1>1. ASSUME AInv PROVE CallsRecordedOnce
  <2>1. AnswersAudited
    <3> SUFFICES ASSUME damaged = {}, NEW c \in Call
                 PROVE  LET n == Cardinality(RowsOf(c))
                        IN  /\ n <= 1
                            /\ n = 1 => call[c].at \in {"latency", "answered", "lost"}
                            /\ AuditEnabled /\ call[c].at \in {"latency", "answered"} =>
                                 \E i \in RowsOf(c) :
                                    /\ rows[i].status = call[c].status
                                    /\ (rows[i].detail # None) = (call[c].status = "ERROR")
      BY DEF AnswersAudited
    <3>1. RecordedAs(c, call[c])
      BY <1>1 DEF AInv, Recorded
    <3>2. call[c].at \in {"none", "record", "latency", "answered", "unrecorded", "failed", "lost"}
      BY <1>1 DEF AInv, Shapes, CallState
    <3>3. CASE RowsOf(c) = {}
      <4>1. Cardinality(RowsOf(c)) = 0
        BY <3>3, FS_EmptySet
      <4>2. 0 <= 1 /\ 0 # 1
        OBVIOUS
      <4> QED BY <3>1, <3>3, <4>1, <4>2 DEF RecordedAs
    <3>4. CASE RowsOf(c) # {}
      <4>1. PICK i \in RowsOf(c) : TRUE
        BY <3>4
      <4>2. RowsOf(c) = {i}
        BY <3>1, <4>1 DEF RecordedAs
      <4>3. Cardinality(RowsOf(c)) = 1
        BY <4>2, FS_Singleton
      <4>4. call[c].at \in {"latency", "answered", "lost"}
        BY <3>1, <3>2, <3>4 DEF RecordedAs
      <4>5. AuditEnabled /\ call[c].at \in {"latency", "answered"} =>
              \E j \in RowsOf(c) : /\ rows[j].status = call[c].status
                                   /\ (rows[j].detail # None) = (call[c].status = "ERROR")
        BY <3>1 DEF RecordedAs
      <4>6. Cardinality(RowsOf(c)) <= 1
        BY <4>3
      <4> QED BY <4>4, <4>5, <4>6
    <3> QED BY <3>3, <3>4
  <2> QED BY <1>1, <2>1 DEF AInv, CallsRecordedOnce
<1> QED BY <1>1, AlwaysAInv, PTL

\* The hash of a row holds exactly if it still covers what was written.
LEMMA HashExact ==
  ASSUME Opaque, NEW r, NEW w, Sound(w), Stays(r, w)
  PROVE  r.hash = HashInput(r.version, r.prev, r.call, r.status) <=> HashKept(r, w)
<1>1. ASSUME HashKept(r, w) PROVE r.hash = HashInput(r.version, r.prev, r.call, r.status)
  <2>1. HashInput(r.version, r.prev, r.call, r.status) = HashInput(w.version, w.prev, w.call, w.status)
    BY <1>1 DEF HashKept, HashInput
  <2> QED BY <1>1, <2>1 DEF HashKept, Sound
<1>2. ASSUME r.hash = HashInput(r.version, r.prev, r.call, r.status) PROVE HashKept(r, w)
  <2>1. r.hash = w.hash
    BY <1>2 DEF Opaque, Stays
  <2>2. HashInput(r.version, r.prev, r.call, r.status) = HashInput(w.version, w.prev, w.call, w.status)
    BY <1>2, <2>1 DEF Sound
  <2> DEFINE Short(v) == [prev |-> v.prev, call |-> v.call]
             Whole(v) == [prev |-> v.prev, call |-> v.call, status |-> v.status]
  <2>3. \A v : "status" \notin DOMAIN Short(v) /\ "status" \in DOMAIN Whole(v)
    OBVIOUS
  <2>4. (r.version = 1) = (w.version = 1)
    <3>1. CASE r.version = 1 /\ w.version # 1
      <4>1. Short(r) = Whole(w)
        BY <2>2, <3>1 DEF HashInput
      <4> QED BY <2>3, <4>1
    <3>2. CASE r.version # 1 /\ w.version = 1
      <4>1. Whole(r) = Short(w)
        BY <2>2, <3>2 DEF HashInput
      <4> QED BY <2>3, <4>1
    <3> QED BY <3>1, <3>2
  <2>5. CASE w.version = 1
    <3>1. Short(r) = Short(w)
      BY <2>2, <2>4, <2>5 DEF HashInput
    <3>2. Short(r).prev = Short(w).prev /\ Short(r).call = Short(w).call
      BY <3>1
    <3>3. r.prev = w.prev /\ r.call = w.call
      BY <3>2
    <3> QED BY <2>1, <2>4, <2>5, <3>3 DEF HashKept
  <2>6. CASE w.version # 1
    <3>1. Whole(r) = Whole(w)
      BY <2>2, <2>4, <2>6 DEF HashInput
    <3>2. /\ Whole(r).prev = Whole(w).prev /\ Whole(r).call = Whole(w).call
          /\ Whole(r).status = Whole(w).status
      BY <3>1
    <3>3. r.prev = w.prev /\ r.call = w.call /\ r.status = w.status
      BY <3>2
    <3> QED BY <2>1, <2>4, <2>6, <3>3 DEF HashKept
  <2> QED BY <2>5, <2>6
<1> QED BY <1>1, <1>2

\* The error of a row whose hash was kept is bound exactly if it was kept too,
\* or lost with its signature.
LEMMA DetailExact ==
  ASSUME Opaque, NEW r, NEW w, Sound(w), Stays(r, w), r.hash = w.hash
  PROVE  DetailBound(r) <=> DetailKept(r, w)
<1>1. ASSUME DetailKept(r, w) PROVE DetailBound(r)
  BY <1>1 DEF DetailKept, DetailBound, Sound
<1>2. ASSUME DetailBound(r) PROVE DetailKept(r, w)
  <2>1. CASE r.detail = None /\ r.sig = None
    BY <2>1 DEF DetailKept
  <2>2. CASE r.detail # None /\ r.sig = ErrorDetailSig(r.hash, r.detail)
    <3>1. r.sig \notin {None, Rotten}
      BY <2>2 DEF Opaque
    <3>2. r.sig = w.sig /\ w.sig = ErrorDetailSig(w.hash, w.detail)
      BY <3>1 DEF Stays, Sound
    <3> DEFINE Of(v) == [of |-> v.hash, detail |-> v.detail]
    <3>3. Of(r) = Of(w)
      BY <2>2, <3>2 DEF ErrorDetailSig
    <3>4. Of(r).detail = Of(w).detail
      BY <3>3
    <3>5. r.detail = w.detail
      BY <3>4
    <3> QED BY <3>2, <3>5 DEF DetailKept
  <2> QED BY <1>2, <2>1, <2>2 DEF DetailBound
<1> QED BY <1>1, <1>2

\* The chain holds exactly if every hash still covers what was written.
LEMMA ChainExact ==
  ASSUME Opaque, AInv
  PROVE  (\A i \in DOMAIN rows : ChainedAt(rows, i)) <=> \A i \in DOMAIN rows : HashKept(rows[i], written[i])
<1>0. RowsType /\ Copied /\ DOMAIN rows = 1..Len(rows) /\ Len(rows) \in Nat
  BY RowsDomain DEF AInv
<1>1. \A i \in DOMAIN rows :
        rows[i].hash = HashInput(rows[i].version, rows[i].prev, rows[i].call, rows[i].status) <=>
          HashKept(rows[i], written[i])
  BY <1>0, HashExact DEF Copied
<1>2. ASSUME \A i \in DOMAIN rows : HashKept(rows[i], written[i]), NEW i \in DOMAIN rows
      PROVE  ChainedAt(rows, i)
  <2>1. Stays(rows[i], written[i]) /\ Links(rows, written, i)
    BY <1>0 DEF Copied
  <2>2. rows[i].seq = i - 1 /\ rows[i].prev = written[i].prev
    BY <1>2, <2>1 DEF Stays, Links, HashKept
  <2>3. i # 1 => i - 1 \in DOMAIN rows
    BY <1>0, <1>2
  <2>4. i # 1 => rows[i].prev = rows[i - 1].hash
    <3> SUFFICES ASSUME i # 1 PROVE rows[i].prev = rows[i - 1].hash
      OBVIOUS
    <3>1. /\ rows[i - 1].hash = HashInput(rows[i - 1].version, rows[i - 1].prev, rows[i - 1].call,
                                          rows[i - 1].status)
          /\ rows[i - 1].hash = written[i - 1].hash
      BY <1>1, <1>2, <2>3 DEF HashKept
    <3>2. rows[i - 1].hash # Rotten
      BY <3>1 DEF Opaque
    <3> QED BY <2>1, <2>2, <3>1, <3>2 DEF Links
  <2> QED BY <1>1, <1>2, <2>1, <2>2, <2>4 DEF ChainedAt, Links
<1> QED BY <1>1, <1>2 DEF ChainedAt

\* When verify_db reports a broken chain: an undamaged chain verifies, whoever
\* wrote it in whatever order; a changed field is found exactly if a hash or a
\* signature covers it, however many are changed and whatever is appended after;
\* the answer under each set of columns it may have found is just that, except
\* that with error_detail alone every recorded error counts as a break.
THEOREM VerdictAlwaysExact == ASSUME Opaque PROVE Spec => []VerdictExact
<1>1. ASSUME AInv PROVE VerdictExact
  <2>0. Shapes /\ RowsType /\ Copied
    BY <1>1 DEF AInv
  <2>1. (\A i \in DOMAIN rows : ChainedAt(rows, i)) <=>
          \A i \in DOMAIN rows : HashKept(rows[i], written[i])
    BY <1>1, ChainExact
  <2>2. \A i \in DOMAIN rows : HashKept(rows[i], written[i]) =>
          (DetailBound(rows[i]) <=> DetailKept(rows[i], written[i]))
    BY <2>0, DetailExact DEF Copied, HashKept
  <2>3. DamageFound
    <3>1. Verifies(rows) <=> \A i \in DOMAIN rows : ChainedAt(rows, i) /\ DetailBound(rows[i])
      BY DEF Verifies, ChainedAt
    <3> QED BY <2>1, <2>2, <3>1 DEF DamageFound
  <2>4. AnswerExact
    <3> SUFFICES ASSUME plan \in {"both", "detail_only", "neither"}, Answer # "database_error"
                 PROVE  Answer = "ok" <=>
                          \A i \in DOMAIN rows :
                            /\ HashKept(rows[i], written[i])
                            /\ plan = "both" => DetailKept(rows[i], written[i])
                            /\ plan = "detail_only" => rows[i].detail = None
      BY DEF AnswerExact
    <3>1. Answer = "ok" <=> Verifies(SelectEntries)
      BY DEF Answer
    <3>2. Verifies(SelectEntries) <=>
            \A i \in DOMAIN rows : ChainedAt(rows, i) /\ ErrorFits(rows[i])
      BY <2>0, SelectVerifies
    <3> QED BY <2>1, <2>2, <3>1, <3>2 DEF ErrorFits
  <2>5. \A i \in DOMAIN rows : /\ rows[i].seq \in Nat
                               /\ rows[i].call \in Call \cup OldCall \cup {Rotten}
                               /\ rows[i].version \in {1, 2, Rotten}
    BY <2>0 DEF RowsType, IsRow
  <2>6. \A m \in latency : m[1] \in Nat /\ m[2] \in Call
    BY <2>0 DEF Shapes
  <2>7. \A c \in Call : /\ call[c].seq \in Nat /\ call[c].by \in Process \cup {None}
                        /\ call[c].at \in {"none", "record", "latency", "answered",
                                           "unrecorded", "failed", "lost"}
    BY <2>0 DEF Shapes, CallState
  <2>8. TypeOK
    BY <2>0, <2>5, <2>6, <2>7 DEF TypeOK, Shapes
  <2> QED BY <1>1, <2>3, <2>4, <2>8 DEF AInv, VerdictExact
<1> QED BY <1>1, AlwaysAInv, PTL
=============================================================================
