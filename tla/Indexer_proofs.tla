--------------------------- MODULE Indexer_proofs ---------------------------
(* Proofs about Indexer, for every set of paths, contents, pool threads and *)
(* alias configs and every bound on the edits.                              *)
EXTENDS Indexer, TLAPS

USE ConstantsAssumption

-----------------------------------------------------------------------------
(* Type correctness.                                                       *)

LEMMA VerdictType ==
  ASSUME NEW m, NEW c
  PROVE  Verdict(m, c) \in {"ReadError", "Refused", "Ok"}
BY DEF Verdict

LEMMA PassReasonType ==
  ASSUME NEW w, NEW p
  PROVE  PassReason(w, p) \in Reason \cup {"none"}
BY DEF PassReason, Reason

LEMMA FinishType ==
  ASSUME TypeOK, NEW w \in Thread, Finish(w)
  PROVE  /\ lock' \in Thread \cup {NoWorker}
         /\ pc' \in [Thread -> {"boot", "bootCrawl", "watch", "idle", "done", "drain", "resolve",
                        "fullLock", "pathsLock", "crawl", "filter", "alias", "stat",
                        "meta", "read", "retryMeta", "retryRead", "apply"}]
         /\ todo' \in [Thread -> SUBSET Path] /\ gone' \in [Thread -> SUBSET Path]
         /\ cand' \in [Thread -> SUBSET Path] /\ forced' \in [Thread -> SUBSET Path]
         /\ stat0' \in [Thread -> [Path -> SUBSET (0..MaxEdits)]]
         /\ meta' \in [Thread -> [Path -> File]]
         /\ got' \in [Thread -> [Path -> Fact]]
         /\ out' \in [Thread -> [Path -> Outcome]]
BY DEF TypeOK, Finish, NoFile, NoFact, File, Fact, Outcome

LEMMA TypeInit == Init => TypeOK
<1> SUFFICES ASSUME Init PROVE TypeOK
  OBVIOUS
<1>1. 0 \in 0..MaxEdits
  OBVIOUS
<1>2. disk \in [Path -> File]
  BY <1>1 DEF Init, File, NoFile, Content
<1>3. /\ NoFile \in File /\ NoSig \in Signature /\ NoFact \in Fact
  BY <1>1 DEF File, Signature, Fact, NoFile, NoSig, NoFact
<1>4. /\ "Unread" \in Outcome
  BY DEF Outcome
<1>5. /\ meta \in [Thread -> [Path -> File]]
      /\ got \in [Thread -> [Path -> Fact]]
      /\ out \in [Thread -> [Path -> Outcome]]
      /\ stat0 \in [Thread -> [Path -> SUBSET (0..MaxEdits)]]
  BY <1>3, <1>4 DEF Init
<1>6. /\ sig \in [Path -> Signature]
      /\ facts \in [Path -> Fact]
      /\ rejected \in [Path -> Reason \cup {"none"}]
      /\ memo \in [Path -> SUBSET (0..MaxEdits)]
      /\ digest \in [Path -> Content \cup {Gone}]
  BY <1>3 DEF Init
<1> QED
  BY <1>1, <1>2, <1>5, <1>6 DEF Init, TypeOK

LEMMA TypeNext == TypeOK /\ [Next]_vars => TypeOK'
<1> SUFFICES ASSUME TypeOK, [Next]_vars PROVE TypeOK'
  OBVIOUS
<1> USE DEF shared, index, scan
<1>1. ASSUME NEW p \in Path, NEW c \in Content \cup {Gone}, NEW s \in 0..MaxEdits, Edit(p, c, s)
      PROVE  TypeOK'
  BY <1>1 DEF TypeOK, Edit, Notify, File
<1>2. CASE UserEdit
  <2>1. \A p \in Path : disk[p].stat \in 0..MaxEdits
    BY DEF TypeOK, File
  <2>2. edits < MaxEdits => edits + 1 \in 0..MaxEdits
    BY DEF TypeOK
  <2> QED
    BY <1>1, <1>2, <2>1, <2>2 DEF UserEdit, Write, Delete, Recreate, Edit
<1>3. CASE Schedule
  <2>1. ASSUME NEW P \in SUBSET Path, AppendPaths(P) PROVE TypeOK'
    BY <2>1 DEF TypeOK, AppendPaths
  <2>2. CASE SwapFlag
    BY <2>2 DEF TypeOK, SwapFlag
  <2> QED BY <1>3, <2>1, <2>2 DEF Schedule
<1>4. ASSUME NEW w \in Thread, Job(w) PROVE TypeOK'
  <2>1. CASE StartJob(w)
    BY <2>1 DEF TypeOK, StartJob
  <2>2. CASE DrainPaths(w)
    BY <2>2 DEF TypeOK, DrainPaths
  <2>3. CASE FallBack(w)
    BY <2>3 DEF TypeOK, FallBack
  <2>4. CASE ResolvePaths(w)
    BY <2>4 DEF TypeOK, ResolvePaths
  <2> QED BY <1>4, <2>1, <2>2, <2>3, <2>4 DEF Job
<1>5. ASSUME NEW w \in Thread, Reload(w) PROVE TypeOK'
  <2>1. CASE LockReload(w)
    BY <2>1 DEF TypeOK, LockReload
  <2>2. CASE Crawl(w)
    BY <2>2 DEF TypeOK, Crawl, Present, Tracked, Listed, Exists
  <2>3. CASE Filter(w)
    BY <2>3 DEF TypeOK, Filter
  <2>4. CASE AliasScripts(w)
    <3>1. digest' \in [Path -> Content \cup {Gone}]
      BY <2>4 DEF TypeOK, AliasScripts, File
    <3>2. ForcedScripts(w) \subseteq Path
      BY DEF ForcedScripts, Tracked
    <3>3. CASE Finish(w)
      BY <2>4, <3>1, <3>3, FinishType DEF TypeOK, AliasScripts
    <3>4. CASE ~Finish(w)
      <4>1. /\ forced' = [forced EXCEPT ![w] = ForcedScripts(w)]
            /\ cand' = [cand EXCEPT ![w] = @ \cup ForcedScripts(w)]
            /\ pc' = [pc EXCEPT ![w] = "stat"]
            /\ UNCHANGED <<lock, todo, gone, stat0, meta, got, out>>
        BY <2>4, <3>4 DEF AliasScripts
      <4>2. /\ forced' \in [Thread -> SUBSET Path]
            /\ cand' \in [Thread -> SUBSET Path]
        BY <3>2, <4>1 DEF TypeOK
      <4> QED BY <2>4, <3>1, <4>1, <4>2 DEF TypeOK, AliasScripts
    <3> QED BY <3>3, <3>4
  <2> QED BY <1>5, <2>1, <2>2, <2>3, <2>4 DEF Reload
<1>6. ASSUME NEW w \in Thread, Scan(w) PROVE TypeOK'
  <2>0. \A p \in Path : ReadNow(p) \in Fact
    BY DEF TypeOK, ReadNow, AliasOf, File, Fact
  <2>1. CASE ScanStat(w)
    BY <2>1 DEF TypeOK, ScanStat, File
  <2>2. CASE ScanMeta(w)
    BY <2>2 DEF TypeOK, ScanMeta, File, NoFile
  <2>3. CASE ScanRead(w)
    <3>1. got' \in [Thread -> [Path -> Fact]]
      BY <2>0, <2>3 DEF TypeOK, ScanRead, NoFact, Fact
    <3>2. out' \in [Thread -> [Path -> Outcome]]
      <4>1. PICK failed : out' = [out EXCEPT ![w] =
               [p \in Path |-> IF p \notin cand[w] THEN "Unread"
                               ELSE IF p \in failed THEN "ParseFailed"
                               ELSE Verdict(meta[w][p], disk[p].content)]]
        BY <2>3 DEF ScanRead
      <4>2. \A p \in Path : Verdict(meta[w][p], disk[p].content) \in Outcome
        BY VerdictType DEF Outcome, Reason
      <4> QED BY <4>1, <4>2 DEF TypeOK, Outcome, Reason
    <3>3. pc' = [pc EXCEPT ![w] = "apply"] \/ pc' = [pc EXCEPT ![w] = "retryMeta"]
      BY <2>3 DEF ScanRead
    <3> QED BY <2>3, <3>1, <3>2, <3>3 DEF TypeOK, ScanRead
  <2>4. CASE RetryMeta(w)
    BY <2>4 DEF TypeOK, RetryMeta
  <2>5. CASE RetryRead(w)
    <3>1. got' \in [Thread -> [Path -> Fact]]
      <4>1. \A p \in Path : [ReadNow(p) EXCEPT !.alias = got[w][p].alias] \in Fact
        <5> SUFFICES ASSUME NEW p \in Path
                     PROVE  [ReadNow(p) EXCEPT !.alias = got[w][p].alias] \in Fact
          OBVIOUS
        <5>1. ReadNow(p) \in Fact /\ got[w][p] \in Fact
          BY <2>0 DEF TypeOK
        <5> QED BY <5>1 DEF Fact
      <4> QED BY <2>5, <4>1 DEF TypeOK, RetryRead
    <3>2. out' \in [Thread -> [Path -> Outcome]]
      <4>1. PICK failed : out' = [out EXCEPT ![w] =
              [p \in Path |->
               IF p \notin Retried(w) \/ p \in failed THEN out[w][p]
               ELSE IF Verdict(meta[w][p], disk[p].content) = "Refused" THEN "RefusedLate"
               ELSE Verdict(meta[w][p], disk[p].content)]]
        BY <2>5 DEF RetryRead
      <4>2. \A p \in Path : Verdict(meta[w][p], disk[p].content) \in Outcome
        BY VerdictType DEF Outcome, Reason
      <4> QED BY <4>1, <4>2 DEF TypeOK, Outcome, Reason
    <3> QED BY <2>5, <3>1, <3>2 DEF TypeOK, RetryRead
  <2> QED BY <1>6, <2>1, <2>2, <2>3, <2>4, <2>5 DEF Scan
<1>7. ASSUME NEW w \in Thread PROVE /\ \A p \in Path : NewSig(w, p) \in Signature
                                    /\ \A p \in Path : NotedMemo(w, p) \in SUBSET (0..MaxEdits)
                                    /\ \A p \in Path : got[w][p] \in Fact
                                    /\ \A p \in Path : PassReason(w, p) \in Reason \cup {"none"}
  BY <1>7, PassReasonType DEF TypeOK, NewSig, NotedMemo, Signature, Fact, File
<1>8. ASSUME NEW w \in Thread, ApplyIncremental(w) PROVE TypeOK'
  <2>1. /\ sig' \in [Path -> Signature]
        /\ memo' \in [Path -> SUBSET (0..MaxEdits)]
    BY <1>7, <1>8 DEF TypeOK, ApplyIncremental, NoSig, Signature
  <2>2. rejected' \in [Path -> Reason \cup {"none"}]
    BY <1>7, <1>8 DEF TypeOK, ApplyIncremental, Rejections
  <2>3. \A p \in Path : [NoFact EXCEPT !.ver = facts[p].ver] \in Fact
    BY DEF TypeOK, NoFact, Fact
  <2>4. facts' \in [Path -> Fact]
    <3>1. CASE facts' = [p \in Path |-> IF p \in Changed(w) THEN got[w][p]
                                       ELSE IF p \in gone[w]
                                       THEN [NoFact EXCEPT !.ver = facts[p].ver]
                                       ELSE facts[p]]
      BY <1>7, <2>3, <3>1 DEF TypeOK
    <3>2. CASE UNCHANGED facts
      BY <3>2 DEF TypeOK
    <3> QED BY <1>8, <3>1, <3>2 DEF ApplyIncremental
  <2>5. generation' \in Nat
    BY <1>8 DEF TypeOK, ApplyIncremental
  <2> QED
    BY <1>8, <2>1, <2>2, <2>4, <2>5, FinishType DEF TypeOK, ApplyIncremental
<1>9. ASSUME NEW w \in Thread, Boot(w) PROVE TypeOK'
  <2>1. CASE BootCrawl(w)
    BY <2>1 DEF TypeOK, BootCrawl, Present
  <2>2. CASE BuildSnapshot(w)
    <3>1. /\ sig' \in [Path -> Signature]
          /\ memo' \in [Path -> SUBSET (0..MaxEdits)]
      BY <1>7, <2>2 DEF TypeOK, BuildSnapshot
    <3>2. /\ facts' \in [Path -> Fact]
          /\ rejected' \in [Path -> Reason \cup {"none"}]
      BY <1>7, <2>2 DEF TypeOK, BuildSnapshot, NoFact, Fact
    <3> QED BY <2>2, <3>1, <3>2 DEF TypeOK, BuildSnapshot, NoFile, NoFact, File, Fact, Outcome
  <2>3. CASE StartWatcher(w)
    BY <2>3 DEF TypeOK, StartWatcher
  <2> QED BY <1>9, <2>1, <2>2, <2>3 DEF Boot
<1>10. CASE UNCHANGED vars
  BY <1>10 DEF TypeOK, vars
<1> QED
  BY <1>2, <1>3, <1>4, <1>5, <1>6, <1>8, <1>9, <1>10 DEF Next, Step

\* Every reachable state is well typed, whatever the constants.
THEOREM TypeCorrect == Spec => []TypeOK
BY TypeInit, TypeNext, PTL DEF Spec

-----------------------------------------------------------------------------
(* StatSound.  The invariant says nothing about a reload in progress, which *)
(* is where it could break: a signature pairs a stat with bytes read later, *)
(* and a path can come back with a stat the VFS still remembers.  The       *)
(* strengthening follows the stats a pass has taken (ScanSound), and who is *)
(* responsible for forgetting a path that was deleted (GoneOwned).          *)

Holding == {"bootCrawl", "crawl", "filter", "alias", "stat", "meta", "read",
            "retryMeta", "retryRead", "apply"}

\* The thread inside the critical section is the holder of reload_lock.
LockSound == \A w \in Thread : pc[w] \in Holding <=> lock = w

BootPc == {"boot", "bootCrawl", "stat", "meta", "read",
           "retryMeta", "retryRead", "apply", "watch"}

\* Only the main thread boots, once, and only the pool runs jobs.
BootSound ==
  /\ \A w \in Thread : pc[w] \in {"boot", "bootCrawl", "watch"} => Booting(w)
  /\ watcher = "off" =>
       /\ \A w \in Worker : pc[w] = "idle"
       /\ pc[Main] \in BootPc
       /\ caller = "idle" /\ ~reloadPending

\* No stored stat is newer than the last edit.
StatsBounded ==
  \A p \in Path :
    /\ disk[p].stat <= edits /\ sig[p].stat <= edits
    /\ \A s \in memo[p] : s <= edits
    /\ \A w \in Thread : meta[w][p].stat <= edits
    /\ \A w \in Thread : \A s \in stat0[w][p] : s <= edits

Match(p, s) == Exists(p) /\ disk[p].stat = s

\* If the file still has the stat that a running pass took, then the file has
\* not been edited since, and what the pass read is what is on disk.
ScanSoundAt(w, p) ==
  /\ pc[w] = "read" /\ p \in cand[w] =>
       \A s \in stat0[w][p] : Match(p, s) => meta[w][p].content = disk[p].content
  /\ pc[w] \in {"retryMeta", "retryRead", "apply"} /\ p \in cand[w] =>
       /\ out[w][p] = "Refused" =>
            \A s \in stat0[w][p] : Match(p, s) => disk[p].content \in Oversized \cup Guarded
       /\ \/ out[w][p] = "Ok"
          \/ out[w][p] = "ParseFailed" /\ pc[w] # "retryRead"
          => (Match(p, meta[w][p].stat) => got[w][p].content = disk[p].content)

\* Outcomes and stats are only recorded for the candidates of a running pass.
OutSoundAt(w, p) ==
  /\ pc[w] \in {"meta", "read", "retryMeta", "retryRead", "apply"} /\ p \notin cand[w]
       => stat0[w][p] = {}
  /\ pc[w] \in {"retryMeta", "retryRead", "apply"} =>
       /\ p \notin cand[w] => out[w][p] = "Unread"
       /\ \/ out[w][p] = "Ok"
          \/ out[w][p] = "ParseFailed" /\ pc[w] # "retryRead"
          => meta[w][p].content # Gone

ScanSound == \A w \in Thread, p \in Path : ScanSoundAt(w, p) /\ OutSoundAt(w, p)

\* Somebody will still look at p, before or by taking the reload lock.
Due(p) ==
  \/ p \in events \cup pending
  \/ \E w \in Thread :
       \/ pc[w] = "resolve" /\ p \in todo[w]
       \/ pc[w] \in {"fullLock", "crawl"}
       \/ pc[w] = "pathsLock" /\ p \in gone[w]

\* The running pass has seen p on disk and may remember something of it.
SeenBy(w, p) ==
  \/ pc[w] \in {"meta", "read", "retryMeta", "retryRead", "apply"} /\ stat0[w][p] # {}
  \/ /\ pc[w] \in {"read", "retryMeta", "retryRead", "apply"}
     /\ p \in cand[w] /\ meta[w][p].content # Gone

\* The running pass is about to forget p.
Forgets(w, p) ==
  pc[w] \in {"filter", "alias", "stat", "meta", "read", "retryMeta", "retryRead", "apply"}
    /\ p \in gone[w]

\* Whatever is remembered, or about to be remembered, of a deleted path is
\* still due to be forgotten.
GoneOwnedAt(p) ==
  /\ p \in Tracked \/ memo[p] # {} => Due(p) \/ \E w \in Thread : Forgets(w, p)
  /\ \A w \in Thread : SeenBy(w, p) => Due(p) \/ Forgets(w, p)

GoneOwned == watcher = "on" => \A p \in Path : ~Exists(p) => GoneOwnedAt(p)

StatInv == /\ TypeOK /\ LockSound /\ BootSound /\ StatsBounded
           /\ ScanSound /\ GoneOwned /\ StatSound

-----------------------------------------------------------------------------
(* The lock and the boot.                                                  *)

LEMMA LockInit == Init => LockSound /\ BootSound
BY DEF Init, LockSound, BootSound, BootPc, Booting, Holding, Thread

\* A thread moves inside or outside the critical section.
LEMMA LockKept ==
  ASSUME TypeOK, LockSound, NEW w \in Thread, NEW l, pc' = [pc EXCEPT ![w] = l],
         l \in Holding <=> pc[w] \in Holding, lock' = lock
  PROVE  LockSound'
BY DEF TypeOK, LockSound

\* A thread enters, or leaves, the critical section.
LEMMA LockMoved ==
  ASSUME TypeOK, LockSound, NEW w \in Thread, NEW l, pc' = [pc EXCEPT ![w] = l],
         \/ lock = NoWorker /\ lock' = w /\ l \in Holding
         \/ lock = w /\ lock' = NoWorker /\ l \notin Holding
  PROVE  LockSound'
BY DEF TypeOK, LockSound

LEMMA BootKept ==
  ASSUME TypeOK, BootSound, NEW w \in Thread, NEW l, pc' = [pc EXCEPT ![w] = l],
         watcher' = watcher, caller' = caller,
         reloadPending' = reloadPending \/ reloadPending' = FALSE,
         watcher = "off" => w = Main /\ l \in BootPc,
         l \in {"boot", "bootCrawl", "watch"} => Booting(w)
  PROVE  BootSound'
BY DEF TypeOK, BootSound, Booting, Thread

\* Before the watcher starts only the main thread runs.
LEMMA OnlyMain ==
  ASSUME TypeOK, BootSound, NEW w \in Thread, watcher = "off", pc[w] # "idle"
  PROVE  w = Main
BY DEF BootSound, Thread

LEMMA LockNext ==
  TypeOK /\ LockSound /\ BootSound /\ [Next]_vars => LockSound' /\ BootSound'
<1> SUFFICES ASSUME TypeOK, LockSound, BootSound, [Next]_vars
             PROVE  LockSound' /\ BootSound'
  OBVIOUS
<1> USE DEF shared, index, scan
<1>1. CASE UserEdit
  BY <1>1 DEF UserEdit, Write, Delete, Recreate, Edit, LockSound, BootSound, Booting
<1>2. CASE Schedule
  BY <1>2 DEF Schedule, AppendPaths, SwapFlag, LockSound, BootSound, Booting
<1> DEFINE Moves(w, l) == /\ pc' = [pc EXCEPT ![w] = l]
                          /\ l \notin {"boot", "bootCrawl", "watch"} /\ pc[w] # "idle"
                          /\ watcher = "off" => l \in BootPc
                          /\ UNCHANGED <<watcher, caller, reloadPending>>
<1>3. ASSUME NEW w \in Thread, NEW l, Moves(w, l) PROVE BootSound'
  BY <1>3, OnlyMain, BootKept
<1>4. ASSUME NEW w \in Thread, NEW l, Moves(w, l), lock' = lock,
             l \in Holding <=> pc[w] \in Holding
      PROVE  LockSound' /\ BootSound'
  BY <1>3, <1>4, LockKept
<1> DEFINE Frees(w) == Moves(w, IF w = Main THEN "done" ELSE "idle")
<1>5. ASSUME NEW w \in Thread, Frees(w), lock' = NoWorker, pc[w] \in Holding
      PROVE  LockSound' /\ BootSound'
  <2>1. (IF w = Main THEN "done" ELSE "idle") \notin Holding
    BY DEF Holding
  <2>2. lock = w
    BY <1>5 DEF LockSound
  <2> QED BY <1>3, <1>5, <2>1, <2>2, LockMoved
<1>6. ASSUME NEW w \in Thread PROVE watcher = "off" => pc[w] \in BootPc \cup {"idle"}
  BY DEF BootSound, Thread
<1>7. ASSUME NEW w \in Thread, Job(w) PROVE LockSound' /\ BootSound'
  <2>1. CASE StartJob(w)
    <3>1. watcher # "off" /\ pc' = [pc EXCEPT ![w] = "drain"]
      BY <2>1 DEF StartJob, BootSound
    <3> QED BY <2>1, <3>1, LockKept, BootKept DEF StartJob, Holding
  <2>2. CASE DrainPaths(w)
    <3>1. /\ Moves(w, IF pending = {} THEN "idle" ELSE "resolve")
          /\ (IF pending = {} THEN "idle" ELSE "resolve") \notin Holding
          /\ pc[w] \notin Holding /\ lock' = lock
      BY <1>6, <2>2 DEF DrainPaths, BootPc, Holding
    <3> QED BY <1>4, <3>1
  <2>3. CASE FallBack(w)
    <3>1. Moves(w, "fullLock") /\ pc[w] \notin Holding /\ "fullLock" \notin Holding
          /\ lock' = lock
      BY <1>6, <2>3 DEF FallBack, BootPc, Holding
    <3> QED BY <1>4, <3>1
  <2>4. CASE ResolvePaths(w)
    <3>1. Moves(w, "pathsLock") /\ pc[w] \notin Holding /\ "pathsLock" \notin Holding
          /\ lock' = lock
      BY <1>6, <2>4 DEF ResolvePaths, BootPc, Holding
    <3> QED BY <1>4, <3>1
  <2> QED BY <1>7, <2>1, <2>2, <2>3, <2>4 DEF Job
<1>8. ASSUME NEW w \in Thread, Reload(w) PROVE LockSound' /\ BootSound'
  <2>1. CASE LockReload(w)
    <3>1. PICK l \in {"bootCrawl", "crawl", "filter"} :
             /\ pc' = [pc EXCEPT ![w] = l]
             /\ l = "bootCrawl" <=> pc[w] = "boot"
      BY <2>1 DEF LockReload
    <3>2. LockSound'
      BY <2>1, <3>1, LockMoved DEF LockReload, Holding
    <3>3. pc[w] # "idle" /\ (watcher = "off" => pc[w] = "boot")
      BY <1>6, <2>1 DEF LockReload, BootPc
    <3>4. pc[w] = "boot" => Booting(w)
      BY DEF BootSound
    <3>5. BootSound'
      BY <2>1, <3>1, <3>3, <3>4, OnlyMain, BootKept DEF LockReload, BootPc
    <3> QED BY <3>2, <3>5
  <2>2. CASE Crawl(w)
    BY <1>4, <1>6, <2>2 DEF Crawl, BootPc, Holding
  <2>3. CASE Filter(w)
    BY <1>4, <1>6, <2>3 DEF Filter, BootPc, Holding
  <2>4. CASE AliasScripts(w)
    <3>1. /\ pc[w] \in Holding /\ pc[w] = "alias" /\ watcher # "off"
          /\ UNCHANGED <<watcher, caller, reloadPending>>
      BY <1>6, <2>4 DEF AliasScripts, BootPc, Holding
    <3>2. CASE Finish(w)
      BY <1>5, <3>1, <3>2 DEF Finish
    <3>3. CASE ~Finish(w)
      <4>1. pc' = [pc EXCEPT ![w] = "stat"] /\ lock' = lock
        BY <2>4, <3>3 DEF AliasScripts
      <4> QED BY <1>4, <3>1, <4>1 DEF Holding
    <3> QED BY <3>2, <3>3
  <2> QED BY <1>8, <2>1, <2>2, <2>3, <2>4 DEF Reload
<1>9. ASSUME NEW w \in Thread, Scan(w) PROVE LockSound' /\ BootSound'
  <2>1. PICK l \in {"meta", "read", "retryMeta", "retryRead", "apply"} :
          pc' = [pc EXCEPT ![w] = l]
    <3>1. CASE ScanRead(w)
      BY <3>1 DEF ScanRead
    <3>2. CASE ~ScanRead(w)
      BY <1>9, <3>2 DEF Scan, ScanStat, ScanMeta, RetryMeta, RetryRead
    <3> QED BY <3>1, <3>2
  <2>2. /\ pc[w] \in Holding \ {"idle"} /\ lock' = lock
        /\ UNCHANGED <<watcher, caller, reloadPending>>
    BY <1>9 DEF Scan, ScanStat, ScanMeta, ScanRead, RetryMeta, RetryRead, Holding
  <2> QED BY <1>4, <2>1, <2>2 DEF Holding, BootPc
<1>10. ASSUME NEW w \in Thread, ApplyIncremental(w) PROVE LockSound' /\ BootSound'
  <2>1. watcher # "off"
    BY <1>10, OnlyMain DEF ApplyIncremental, Booting
  <2> QED BY <1>5, <1>10, <2>1 DEF ApplyIncremental, Finish, Holding
<1>11. ASSUME NEW w \in Thread, Boot(w) PROVE LockSound' /\ BootSound'
  <2>1. CASE BootCrawl(w)
    BY <1>4, <2>1 DEF BootCrawl, Holding, BootPc
  <2>2. CASE BuildSnapshot(w)
    <3>1. lock = w /\ lock' = NoWorker /\ pc' = [pc EXCEPT ![w] = "watch"]
      BY <2>2 DEF BuildSnapshot, LockSound, Holding
    <3>2. LockSound'
      BY <3>1, LockMoved DEF Holding
    <3>3. BootSound'
      BY <2>2, <3>1, BootKept DEF BuildSnapshot, Booting, BootPc
    <3> QED BY <3>2, <3>3
  <2>3. CASE StartWatcher(w)
    <3>1. PICK l \in {"fullLock", "done"} : pc' = [pc EXCEPT ![w] = l]
      BY <2>3 DEF StartWatcher
    <3>2. LockSound'
      BY <2>3, <3>1, LockKept DEF StartWatcher, Holding
    <3>3. w = Main /\ watcher' # "off"
      BY <2>3 DEF StartWatcher, BootSound, Booting
    <3>4. \A v \in Thread : pc'[v] \notin {"boot", "bootCrawl", "watch"}
      BY <3>1, <3>3 DEF TypeOK, BootSound, Booting
    <3>5. BootSound'
      BY <3>3, <3>4 DEF BootSound
    <3> QED BY <3>2, <3>5
  <2> QED BY <1>11, <2>1, <2>2, <2>3 DEF Boot
<1>12. CASE UNCHANGED vars
  BY <1>12 DEF vars, LockSound, BootSound, Booting
<1> QED
  BY <1>1, <1>2, <1>7, <1>8, <1>9, <1>10, <1>11, <1>12 DEF Next, Step

-----------------------------------------------------------------------------
(* Stats never run ahead of the edits.                                     *)

LEMMA StatsInit == Init => StatsBounded
<1> SUFFICES ASSUME Init PROVE StatsBounded
  OBVIOUS
<1>1. \A p \in Path : disk[p].stat = 0
  BY DEF Init, NoFile
<1> QED
  BY <1>1 DEF Init, StatsBounded, NoFile, NoSig

LEMMA StatsNext == TypeOK /\ StatsBounded /\ [Next]_vars => StatsBounded'
<1> SUFFICES ASSUME TypeOK, StatsBounded, [Next]_vars PROVE StatsBounded'
  OBVIOUS
<1> USE DEF shared, index, scan
<1>0. /\ edits \in Nat
      /\ \A p \in Path : /\ disk[p].stat \in Nat /\ sig[p].stat \in Nat
                         /\ memo[p] \subseteq Nat
      /\ \A w \in Thread, p \in Path : /\ meta[w][p].stat \in Nat
                                       /\ stat0[w][p] \subseteq Nat
  BY DEF TypeOK, File, Signature
<1>1. ASSUME NEW p \in Path, NEW c, NEW s \in Nat, s <= edits + 1, Edit(p, c, s)
      PROVE  StatsBounded'
  BY <1>0, <1>1 DEF StatsBounded, Edit, TypeOK
<1>2. CASE UserEdit
  BY <1>0, <1>1, <1>2 DEF UserEdit, Write, Delete, Recreate, StatsBounded
<1>3. CASE Schedule
  BY <1>3 DEF StatsBounded, Schedule, AppendPaths, SwapFlag
<1>4. ASSUME NEW w \in Thread, Job(w) PROVE StatsBounded'
  BY <1>4 DEF StatsBounded, Job, StartJob, DrainPaths, FallBack, ResolvePaths
<1>5. ASSUME NEW w \in Thread, Finish(w), UNCHANGED <<disk, edits>>,
             \A p \in Path : sig'[p].stat <= edits /\ \A s \in memo'[p] : s <= edits
      PROVE  StatsBounded'
  BY <1>0, <1>5 DEF StatsBounded, Finish, NoFile, TypeOK
<1>6. ASSUME NEW w \in Thread, Reload(w) PROVE StatsBounded'
  <2>1. CASE LockReload(w) \/ Filter(w)
    BY <2>1 DEF StatsBounded, LockReload, Filter
  <2>2. CASE Crawl(w)
    BY <2>2 DEF StatsBounded, Crawl
  <2>3. CASE AliasScripts(w)
    BY <1>5, <2>3 DEF StatsBounded, AliasScripts
  <2> QED BY <1>6, <2>1, <2>2, <2>3 DEF Reload
<1>7. ASSUME NEW w \in Thread, Scan(w) PROVE StatsBounded'
  <2>1. CASE ScanStat(w)
    BY <1>0, <2>1 DEF StatsBounded, ScanStat, TypeOK
  <2>2. CASE ScanMeta(w)
    BY <1>0, <2>2 DEF StatsBounded, ScanMeta, NoFile, TypeOK
  <2>3. CASE RetryMeta(w)
    BY <1>0, <2>3 DEF StatsBounded, RetryMeta, TypeOK
  <2>4. CASE ScanRead(w) \/ RetryRead(w)
    BY <2>4 DEF StatsBounded, ScanRead, RetryRead
  <2> QED BY <1>7, <2>1, <2>2, <2>3, <2>4 DEF Scan
<1>8. ASSUME NEW w \in Thread, ApplyIncremental(w) PROVE StatsBounded'
  <2>1. \A p \in Path : sig'[p].stat <= edits
    BY <1>0, <1>8 DEF StatsBounded, ApplyIncremental, NewSig, NoSig
  <2>2. \A p \in Path : \A s \in memo'[p] : s <= edits
    BY <1>8 DEF StatsBounded, ApplyIncremental, NotedMemo
  <2> QED BY <1>5, <1>8, <2>1, <2>2 DEF ApplyIncremental
<1>9. ASSUME NEW w \in Thread, Boot(w) PROVE StatsBounded'
  <2>1. CASE BootCrawl(w) \/ StartWatcher(w)
    BY <2>1 DEF StatsBounded, BootCrawl, StartWatcher
  <2>2. CASE BuildSnapshot(w)
    <3>1. \A p \in Path : sig'[p].stat <= edits
      BY <1>0, <2>2 DEF StatsBounded, BuildSnapshot, NewSig
    <3>2. \A p \in Path : \A s \in memo'[p] : s <= edits
      BY <2>2 DEF StatsBounded, BuildSnapshot, NotedMemo
    <3> QED BY <1>0, <2>2, <3>1, <3>2 DEF StatsBounded, BuildSnapshot, NoFile, TypeOK
  <2> QED BY <1>9, <2>1, <2>2 DEF Boot
<1>10. CASE UNCHANGED vars
  BY <1>10 DEF StatsBounded, vars
<1> QED
  BY <1>2, <1>3, <1>4, <1>6, <1>7, <1>8, <1>9, <1>10 DEF Next, Step

-----------------------------------------------------------------------------
(* What a step of one thread leaves alone.                                 *)

LEMMA FinishFrame ==
  ASSUME TypeOK, NEW u \in Thread, Finish(u), NEW v \in Thread, v # u
  PROVE  /\ pc'[v] = pc[v] /\ todo'[v] = todo[v] /\ gone'[v] = gone[v]
         /\ cand'[v] = cand[v] /\ stat0'[v] = stat0[v] /\ meta'[v] = meta[v]
         /\ got'[v] = got[v] /\ out'[v] = out[v]
BY DEF TypeOK, Finish

LEMMA StepFrame ==
  ASSUME TypeOK, NEW u \in Thread, Step(u), NEW v \in Thread, v # u
  PROVE  /\ pc'[v] = pc[v] /\ todo'[v] = todo[v] /\ gone'[v] = gone[v]
         /\ cand'[v] = cand[v] /\ stat0'[v] = stat0[v] /\ meta'[v] = meta[v]
         /\ got'[v] = got[v] /\ out'[v] = out[v]
<1> USE DEF shared, index, scan
<1>1. CASE Job(u)
  BY <1>1 DEF TypeOK, Job, StartJob, DrainPaths, FallBack, ResolvePaths
<1>2. CASE LockReload(u) \/ Crawl(u) \/ Filter(u)
  BY <1>2 DEF TypeOK, LockReload, Crawl, Filter
<1>3. CASE AliasScripts(u)
  <2>1. CASE Finish(u)
    BY <2>1, FinishFrame
  <2>2. CASE ~Finish(u)
    BY <1>3, <2>2 DEF TypeOK, AliasScripts
  <2> QED BY <2>1, <2>2
<1>4. CASE ScanStat(u) \/ ScanMeta(u) \/ RetryMeta(u)
  BY <1>4 DEF TypeOK, ScanStat, ScanMeta, RetryMeta
<1>5. CASE ScanRead(u)
  BY <1>5 DEF TypeOK, ScanRead
<1>6. CASE RetryRead(u)
  BY <1>6 DEF TypeOK, RetryRead
<1>7. CASE ApplyIncremental(u)
  BY <1>7, FinishFrame DEF ApplyIncremental
<1>8. CASE BootCrawl(u) \/ BuildSnapshot(u) \/ StartWatcher(u)
  BY <1>8 DEF TypeOK, BootCrawl, BuildSnapshot, StartWatcher
<1> QED
  BY <1>1, <1>2, <1>3, <1>4, <1>5, <1>6, <1>7, <1>8 DEF Step, Reload, Scan, Boot

LEMMA StepDisk ==
  ASSUME NEW u \in Thread, Step(u)
  PROVE  disk' = disk /\ edits' = edits /\ events' = events
<1> USE DEF shared, index, scan
<1>1. CASE Job(u)
  BY <1>1 DEF Job, StartJob, DrainPaths, FallBack, ResolvePaths
<1>2. CASE Reload(u)
  BY <1>2 DEF Reload, LockReload, Crawl, Filter, AliasScripts
<1>3. CASE Scan(u)
  BY <1>3 DEF Scan, ScanStat, ScanMeta, ScanRead, RetryMeta, RetryRead
<1>4. CASE ApplyIncremental(u) \/ Boot(u)
  BY <1>4 DEF ApplyIncremental, Boot, BootCrawl, BuildSnapshot, StartWatcher
<1> QED
  BY <1>1, <1>2, <1>3, <1>4 DEF Step

-----------------------------------------------------------------------------
(* What a running pass knows.                                              *)

LEMMA VerdictOk ==
  ASSUME NEW m, NEW c
  PROVE  /\ Verdict(m, c) = "Ok" => m.content # Gone
         /\ Verdict(m, c) = "Refused" => m.content \in Oversized \/ c \in Guarded
BY DEF Verdict, Content

LEMMA ScanInit == Init => ScanSound
BY DEF Init, ScanSound, ScanSoundAt, OutSoundAt

\* An edit of q gives it a new stat, or removes it, or brings it back while
\* nothing is due.
LEMMA EditCases ==
  ASSUME TypeOK, UserEdit
  PROVE  \E q \in Path, c \in Content \cup {Gone}, s \in Nat :
           /\ Edit(q, c, s)
           /\ \/ s = edits + 1
              \/ c = Gone
              \/ ~Exists(q) /\ Idle
<1>1. /\ edits + 1 \in Nat
      /\ \A p \in Path : disk[p].stat \in Nat
  BY DEF TypeOK, File
<1>2. CASE \E p \in Path : Write(p)
  <2>1. PICK p \in Path, c \in Content : Edit(p, c, edits + 1)
    BY <1>2 DEF Write
  <2> QED BY <1>1, <2>1
<1>3. CASE \E p \in Path : Delete(p)
  BY <1>1, <1>3 DEF Delete
<1>4. CASE \E p \in Path : Recreate(p)
  <2>1. PICK p \in Path, c \in Content : ~Exists(p) /\ Idle /\ Edit(p, c, disk[p].stat)
    BY <1>4 DEF Recreate
  <2> QED BY <1>1, <2>1
<1> QED BY <1>2, <1>3, <1>4 DEF UserEdit

\* An edit of q either gives it a stat no pass has taken, or removes it, or
\* happens while no pass is running.
LEMMA ScanEdit ==
  ASSUME TypeOK, StatsBounded, ScanSound, UserEdit
  PROVE  ScanSound'
<1>1. PICK q \in Path, c \in Content \cup {Gone}, s \in Nat :
        /\ Edit(q, c, s)
        /\ \/ s = edits + 1
           \/ c = Gone
           \/ Idle
  BY EditCases
<1>2. /\ disk' = [disk EXCEPT ![q] = [content |-> c, stat |-> s, ver |-> edits + 1]]
      /\ UNCHANGED <<pc, todo, gone, cand, forced, stat0, meta, got, out>>
  BY <1>1 DEF Edit, scan
<1> SUFFICES ASSUME NEW w \in Thread, NEW p \in Path
             PROVE  (ScanSoundAt(w, p) /\ OutSoundAt(w, p))'
  BY DEF ScanSound
<1>3. OutSoundAt(w, p)'
  BY <1>2 DEF ScanSound, OutSoundAt
<1>4. CASE p # q
  <2>1. disk'[p] = disk[p]
    BY <1>2, <1>4 DEF TypeOK
  <2> QED BY <1>2, <1>3, <2>1 DEF ScanSound, ScanSoundAt, Match, Exists
<1>5. CASE p = q /\ Idle
  BY <1>2, <1>3, <1>5 DEF ScanSoundAt, Idle
<1>6. CASE p = q /\ (s = edits + 1 \/ c = Gone)
  <2>1. disk'[p] = [content |-> c, stat |-> s, ver |-> edits + 1]
    BY <1>2, <1>6 DEF TypeOK
  <2>2. /\ edits \in Nat /\ meta[w][p].stat \in Nat /\ stat0[w][p] \subseteq Nat
        /\ meta[w][p].stat <= edits /\ \A t \in stat0[w][p] : t <= edits
    BY DEF TypeOK, StatsBounded, File
  <2>3. ~Match(p, meta[w][p].stat)' /\ \A t \in stat0[w][p] : ~Match(p, t)'
    BY <1>2, <1>6, <2>1, <2>2 DEF Match, Exists
  <2> QED BY <1>2, <1>3, <2>3 DEF ScanSoundAt
<1> QED
  BY <1>1, <1>4, <1>5, <1>6

LEMMA ScanStep ==
  ASSUME TypeOK, ScanSound, NEW w \in Thread, Step(w), NEW p \in Path
  PROVE  (ScanSoundAt(w, p) /\ OutSoundAt(w, p))'
<1> USE DEF shared, index, scan
<1>0. ScanSoundAt(w, p) /\ OutSoundAt(w, p)
  BY DEF ScanSound
<1>1. CASE pc'[w] \notin {"meta", "read", "retryMeta", "retryRead", "apply"}
  BY <1>1 DEF ScanSoundAt, OutSoundAt
<1>2. CASE ScanStat(w)
  <2>1. /\ pc'[w] = "meta" /\ cand' = cand
        /\ p \notin cand[w] => stat0'[w][p] = {}
    BY <1>2 DEF ScanStat, TypeOK
  <2> QED BY <2>1 DEF ScanSoundAt, OutSoundAt
<1>3. CASE ScanMeta(w)
  <2>1. /\ pc[w] = "meta" /\ pc'[w] = "read" /\ cand' = cand /\ stat0' = stat0
        /\ disk' = disk
        /\ p \in cand[w] => meta'[w][p] = disk[p]
    BY <1>3 DEF ScanMeta, TypeOK
  <2> QED BY <1>0, <2>1 DEF ScanSoundAt, OutSoundAt
<1>4. CASE ScanRead(w)
  <2> DEFINE verdict == Verdict(meta[w][p], disk[p].content)
  <2>1. /\ pc[w] = "read" /\ pc'[w] \in {"apply", "retryMeta"}
        /\ UNCHANGED <<disk, cand, stat0, meta>>
        /\ p \in cand[w] => got'[w][p].content = disk[p].content
    BY <1>4 DEF ScanRead, TypeOK, ReadNow
  <2>2. /\ p \notin cand[w] => out'[w][p] = "Unread"
        /\ p \in cand[w] => \/ out'[w][p] = verdict
                            \/ out'[w][p] = "ParseFailed" /\ verdict = "Ok"
    BY <1>4 DEF ScanRead, TypeOK, MayFail
  <2>3. OutSoundAt(w, p)'
    <3>1. verdict # "ParseFailed" /\ (verdict = "Ok" => meta[w][p].content # Gone)
      BY VerdictType, VerdictOk
    <3> HIDE DEF verdict
    <3> QED BY <1>0, <2>1, <2>2, <3>1 DEF OutSoundAt
  <2>4. ASSUME p \in cand[w], out'[w][p] = "Refused", NEW s \in stat0[w][p], Match(p, s)
        PROVE  disk[p].content \in Oversized \cup Guarded
    <3>1. meta[w][p].content = disk[p].content
      BY <1>0, <2>1, <2>4 DEF ScanSoundAt
    <3> QED BY <2>2, <2>4, <3>1, VerdictOk
  <2>5. ScanSoundAt(w, p)'
    BY <2>1, <2>4 DEF ScanSoundAt, Match, Exists
  <2> QED BY <2>3, <2>5
<1>5. CASE RetryMeta(w)
  <2>1. /\ pc[w] = "retryMeta" /\ pc'[w] = "retryRead"
        /\ UNCHANGED <<disk, cand, stat0, got, out>>
        /\ out[w][p] # "ParseFailed" => meta'[w][p] = meta[w][p]
    BY <1>5 DEF RetryMeta, Retried, TypeOK
  <2> QED BY <1>0, <2>1 DEF ScanSoundAt, OutSoundAt, Match, Exists
<1>6. CASE RetryRead(w)
  <2> DEFINE verdict == Verdict(meta[w][p], disk[p].content)
  <2>1. /\ pc[w] = "retryRead" /\ pc'[w] = "apply"
        /\ UNCHANGED <<disk, cand, stat0, meta>>
        /\ p \notin Retried(w) => got'[w][p] = got[w][p]
    BY <1>6 DEF RetryRead, TypeOK
  <2>2. p \in Retried(w) => got'[w][p].content = disk[p].content
    BY <1>6 DEF RetryRead, TypeOK, ReadNow
  <2>3. /\ p \notin Retried(w) => out'[w][p] = out[w][p]
        /\ p \in Retried(w) => \/ out'[w][p] = "ParseFailed" /\ verdict = "Ok"
                               \/ out'[w][p] = "RefusedLate"
                               \/ out'[w][p] = verdict /\ verdict # "Refused"
    <3>1. PICK failed \in SUBSET {q \in Retried(w) : Verdict(meta[w][q], disk[q].content) = "Ok"} :
            out' = [out EXCEPT ![w] =
              [q \in Path |->
                 IF q \notin Retried(w) \/ q \in failed THEN out[w][q]
                 ELSE IF Verdict(meta[w][q], disk[q].content) = "Refused" THEN "RefusedLate"
                 ELSE Verdict(meta[w][q], disk[q].content)]]
      BY <1>6 DEF RetryRead
    <3>2. out'[w][p] = IF p \notin Retried(w) \/ p \in failed THEN out[w][p]
                       ELSE IF verdict = "Refused" THEN "RefusedLate" ELSE verdict
      BY <3>1 DEF TypeOK
    <3> QED BY <3>1, <3>2 DEF Retried
  <2>4. p \in Retried(w) <=> p \in cand[w] /\ out[w][p] = "ParseFailed"
    BY DEF Retried
  <2>5. OutSoundAt(w, p)'
    <3>1. verdict # "ParseFailed" /\ (verdict = "Ok" => meta[w][p].content # Gone)
      BY VerdictType, VerdictOk
    <3> HIDE DEF verdict
    <3> QED BY <1>0, <2>1, <2>3, <2>4, <3>1 DEF OutSoundAt
  <2>6. ScanSoundAt(w, p)'
    BY <1>0, <2>1, <2>2, <2>3, <2>4 DEF ScanSoundAt, Match, Exists
  <2> QED BY <2>5, <2>6
<1>7. pc'[w] \notin {"meta", "read", "retryMeta", "retryRead", "apply"} \/ Scan(w)
  <2>1. CASE Job(w)
    BY <2>1 DEF Job, StartJob, DrainPaths, FallBack, ResolvePaths, TypeOK
  <2>2. CASE Reload(w)
    <3>1. CASE AliasScripts(w)
      BY <3>1 DEF AliasScripts, Finish, TypeOK
    <3> QED BY <2>2, <3>1 DEF Reload, LockReload, Crawl, Filter, TypeOK
  <2>3. CASE ApplyIncremental(w) \/ Boot(w)
    BY <2>3 DEF ApplyIncremental, Finish, Boot, BootCrawl, BuildSnapshot, StartWatcher, TypeOK
  <2> QED BY <2>1, <2>2, <2>3 DEF Step
<1> QED
  BY <1>1, <1>2, <1>3, <1>4, <1>5, <1>6, <1>7 DEF Scan

LEMMA ScanNext == TypeOK /\ StatsBounded /\ ScanSound /\ [Next]_vars => ScanSound'
<1> SUFFICES ASSUME TypeOK, StatsBounded, ScanSound, [Next]_vars PROVE ScanSound'
  OBVIOUS
<1>1. CASE UserEdit
  BY <1>1, ScanEdit
<1>2. CASE Schedule \/ UNCHANGED vars
  BY <1>2 DEF Schedule, AppendPaths, SwapFlag, vars, scan,
              ScanSound, ScanSoundAt, OutSoundAt, Match, Exists
<1>3. ASSUME NEW u \in Thread, Step(u) PROVE ScanSound'
  <2> SUFFICES ASSUME NEW w \in Thread, NEW p \in Path
               PROVE  (ScanSoundAt(w, p) /\ OutSoundAt(w, p))'
    BY DEF ScanSound
  <2>1. CASE w = u
    BY <1>3, <2>1, ScanStep
  <2>2. CASE w # u
    <3>1. /\ pc'[w] = pc[w] /\ cand'[w] = cand[w] /\ stat0'[w] = stat0[w]
          /\ meta'[w] = meta[w] /\ got'[w] = got[w] /\ out'[w] = out[w] /\ disk' = disk
      BY <1>3, <2>2, StepFrame, StepDisk
    <3> QED BY <3>1 DEF ScanSound, ScanSoundAt, OutSoundAt, Match, Exists
  <2> QED BY <2>1, <2>2
<1> QED
  BY <1>1, <1>2, <1>3 DEF Next

-----------------------------------------------------------------------------
(* Who forgets a deleted path.                                             *)

LEMMA GoneInit == Init => GoneOwned
BY DEF Init, GoneOwned

LEMMA GoneEdit ==
  ASSUME TypeOK, GoneOwned, UserEdit
  PROVE  GoneOwned'
<1>1. PICK q \in Path, c \in Content \cup {Gone}, s \in Nat : Edit(q, c, s)
  BY EditCases
<1>2. /\ disk' = [disk EXCEPT ![q] = [content |-> c, stat |-> s, ver |-> edits + 1]]
      /\ UNCHANGED <<pending, sig, memo, watcher, pc, todo, gone, cand, stat0, meta>>
      /\ watcher = "on" => events' = events \cup {q}
  BY <1>1 DEF Edit, Notify, shared, index, scan
<1> SUFFICES ASSUME watcher = "on", NEW p \in Path, ~Exists(p)' PROVE GoneOwnedAt(p)'
  BY <1>2 DEF GoneOwned
<1>3. CASE p = q
  <2>1. Due(p)'
    BY <1>2, <1>3 DEF Due
  <2> QED BY <2>1 DEF GoneOwnedAt
<1>4. CASE p # q
  <2>1. ~Exists(p)
    BY <1>2, <1>4 DEF Exists, TypeOK
  <2>2. GoneOwnedAt(p)
    BY <2>1 DEF GoneOwned
  <2>3. Due(p) => Due(p)'
    BY <1>2 DEF Due
  <2>4. \A w \in Thread : (Forgets(w, p)' <=> Forgets(w, p)) /\ (SeenBy(w, p)' <=> SeenBy(w, p))
    BY <1>2 DEF Forgets, SeenBy
  <2>5. p \in Tracked' <=> p \in Tracked
    BY <1>2 DEF Tracked
  <2> QED BY <1>2, <2>2, <2>3, <2>4, <2>5 DEF GoneOwnedAt
<1> QED BY <1>3, <1>4

LEMMA GoneStep ==
  ASSUME TypeOK, LockSound, BootSound, ScanSound, GoneOwned,
         NEW w \in Thread, Step(w), watcher' = "on", NEW p \in Path, ~Exists(p)
  PROVE  GoneOwnedAt(p)'
<1> USE DEF shared, index, scan
<1>0. \A v \in Thread : v # w =>
        /\ pc'[v] = pc[v] /\ todo'[v] = todo[v] /\ gone'[v] = gone[v]
        /\ cand'[v] = cand[v] /\ stat0'[v] = stat0[v] /\ meta'[v] = meta[v]
  BY StepFrame
<1>1. disk' = disk /\ events' = events
  BY StepDisk
<1>2. \A v \in Thread : v # w =>
        (Forgets(v, p)' <=> Forgets(v, p)) /\ (SeenBy(v, p)' <=> SeenBy(v, p))
  BY <1>0 DEF Forgets, SeenBy
<1>3. ASSUME pending' = pending, pc[w] \notin {"resolve", "fullLock", "crawl", "pathsLock"}
      PROVE  Due(p) => Due(p)'
  BY <1>0, <1>1, <1>3 DEF Due
<1>4. ASSUME Due(p) => Due(p)', Forgets(w, p) => Forgets(w, p)' \/ Due(p)',
             SeenBy(w, p)' => SeenBy(w, p), sig' = sig, memo' = memo, GoneOwnedAt(p)
      PROVE  GoneOwnedAt(p)'
  BY <1>2, <1>4 DEF GoneOwnedAt, Tracked
<1>5. \A v \in Thread : Forgets(v, p) \/ SeenBy(v, p) => pc[v] \in Holding
  BY DEF Forgets, SeenBy, Holding
<1>6. \A v \in Thread : v # w /\ pc[w] \in Holding => ~Forgets(v, p) /\ ~SeenBy(v, p)
  BY <1>5 DEF LockSound
<1>7. CASE StartWatcher(w)
  <2>1. pc'[w] = "fullLock"
    BY <1>7 DEF StartWatcher, TypeOK
  <2>2. Due(p)'
    BY <2>1 DEF Due
  <2> QED BY <2>2 DEF GoneOwnedAt
<1>8. CASE BootCrawl(w) \/ BuildSnapshot(w)
  BY <1>8 DEF BootCrawl, BuildSnapshot, BootSound, Booting
<1> SUFFICES ASSUME ~Boot(w) PROVE GoneOwnedAt(p)'
  BY <1>7, <1>8 DEF Boot
<1>9. watcher = "on"
  BY DEF Step, Job, StartJob, DrainPaths, FallBack, ResolvePaths,
         Reload, LockReload, Crawl, Filter, AliasScripts,
         Scan, ScanStat, ScanMeta, ScanRead, RetryMeta, RetryRead, ApplyIncremental
<1>10. GoneOwnedAt(p)
  BY <1>9 DEF GoneOwned
<1>11. CASE Job(w)
  <2>1. sig' = sig /\ memo' = memo
    BY <1>11 DEF Job, StartJob, DrainPaths, FallBack, ResolvePaths
  <2>2. pc[w] \in {"idle", "drain", "resolve"}
        /\ pc'[w] \in {"idle", "drain", "resolve", "fullLock", "pathsLock"}
    BY <1>11 DEF Job, StartJob, DrainPaths, FallBack, ResolvePaths, TypeOK
  <2>3. ~Forgets(w, p) /\ ~SeenBy(w, p)'
    BY <2>2 DEF Forgets, SeenBy
  <2>4. Due(p) => Due(p)'
    <3>1. CASE StartJob(w)
      BY <1>3, <3>1 DEF StartJob
    <3>2. CASE DrainPaths(w)
      <4>1. /\ p \in pending => pc'[w] = "resolve" /\ p \in todo'[w]
            /\ pc[w] = "drain"
        BY <3>2 DEF DrainPaths, TypeOK
      <4> QED BY <1>0, <1>1, <4>1 DEF Due
    <3>3. CASE FallBack(w)
      <4>1. pc'[w] = "fullLock"
        BY <3>3 DEF FallBack, TypeOK
      <4> QED BY <4>1 DEF Due
    <3>4. CASE ResolvePaths(w)
      <4>1. /\ pc[w] = "resolve" /\ pc'[w] = "pathsLock" /\ pending' = pending
            /\ p \in todo[w] => p \in gone'[w]
        BY <3>4 DEF ResolvePaths, Present, TypeOK
      <4> QED BY <1>0, <1>1, <4>1 DEF Due
    <3> QED BY <1>11, <3>1, <3>2, <3>3, <3>4 DEF Job
  <2> QED BY <1>4, <1>10, <2>1, <2>3, <2>4
<1>12. CASE LockReload(w)
  <2>1. /\ sig' = sig /\ memo' = memo /\ pending' = pending /\ gone' = gone
        /\ lock = NoWorker /\ pc[w] \in {"fullLock", "pathsLock"}
        /\ pc'[w] = IF pc[w] = "fullLock" THEN "crawl" ELSE "filter"
    BY <1>9, <1>12 DEF LockReload, TypeOK, BootSound, Booting
  <2>2. \A v \in Thread : ~SeenBy(v, p)
    BY <1>5, <2>1 DEF LockSound
  <2>3. ~SeenBy(w, p)' /\ ~Forgets(w, p)
    BY <2>1 DEF SeenBy, Forgets
  <2>4. Due(p) => Due(p)' \/ Forgets(w, p)'
    BY <1>0, <1>1, <2>1 DEF Due, Forgets
  <2> QED BY <1>2, <1>10, <2>1, <2>2, <2>3, <2>4 DEF GoneOwnedAt, Tracked
<1>13. CASE Crawl(w)
  <2>1. /\ pc[w] = "crawl" /\ pc'[w] = "filter" /\ sig' = sig /\ memo'[p] = {}
        /\ p \in Tracked => p \in gone'[w]
    BY <1>13 DEF Crawl, TypeOK, Present
  <2>2. /\ \A v \in Thread : ~SeenBy(v, p)'
        /\ p \in Tracked => Forgets(w, p)'
    BY <1>2, <1>6, <2>1 DEF SeenBy, Forgets, Holding
  <2> QED BY <2>1, <2>2 DEF GoneOwnedAt, Tracked
<1>14. CASE Filter(w)
  <2>1. /\ pc[w] = "filter" /\ pc'[w] = "alias" /\ sig' = sig /\ memo' = memo
        /\ pending' = pending
        /\ p \in gone[w] => p \in gone'[w]
    BY <1>14 DEF Filter, TypeOK, Present
  <2>2. ~SeenBy(w, p)' /\ (Forgets(w, p) => Forgets(w, p)')
    BY <2>1 DEF SeenBy, Forgets
  <2> QED BY <1>3, <1>4, <1>10, <2>1, <2>2
<1>15. CASE AliasScripts(w)
  <2>1. /\ pc[w] = "alias" /\ sig' = sig /\ memo' = memo /\ pending' = pending
        /\ p \in gone[w] => gone'[w] = gone[w] /\ pc'[w] = "stat"
        /\ pc'[w] \in {"stat", "idle", "done"}
    BY <1>15 DEF AliasScripts, Finish, TypeOK
  <2>2. ~SeenBy(w, p)' /\ (Forgets(w, p) => Forgets(w, p)')
    BY <2>1 DEF SeenBy, Forgets
  <2> QED BY <1>3, <1>4, <1>10, <2>1, <2>2
<1>16. CASE Scan(w)
  <2>1. /\ pc[w] \in {"stat", "meta", "read", "retryMeta", "retryRead"}
        /\ sig' = sig /\ memo' = memo /\ pending' = pending /\ gone' = gone /\ cand' = cand
    BY <1>16 DEF Scan, ScanStat, ScanMeta, ScanRead, RetryMeta, RetryRead
  <2>2. pc'[w] \in {"meta", "read", "retryMeta", "retryRead", "apply"}
    <3>1. CASE ScanRead(w)
      BY <3>1 DEF ScanRead, TypeOK
    <3> QED BY <1>16, <3>1 DEF Scan, ScanStat, ScanMeta, RetryMeta, RetryRead, TypeOK
  <2>3. Forgets(w, p) => Forgets(w, p)'
    BY <2>1, <2>2 DEF Forgets
  <2>4. SeenBy(w, p)' => SeenBy(w, p)
    <3>1. CASE ScanStat(w)
      BY <3>1 DEF ScanStat, SeenBy, TypeOK
    <3>2. CASE ScanMeta(w)
      BY <3>2 DEF ScanMeta, SeenBy, TypeOK, Exists
    <3>3. CASE ScanRead(w)
      BY <2>1, <3>3 DEF ScanRead, SeenBy
    <3>4. CASE RetryMeta(w)
      <4>1. /\ pc[w] = "retryMeta" /\ pc'[w] = "retryRead" /\ stat0' = stat0
            /\ meta'[w][p] = meta[w][p] \/ meta'[w][p].content = Gone
        BY <3>4 DEF RetryMeta, Exists, TypeOK
      <4> QED BY <2>1, <4>1 DEF SeenBy
    <3>5. CASE RetryRead(w)
      BY <2>1, <3>5 DEF RetryRead, SeenBy
    <3> QED BY <1>16, <3>1, <3>2, <3>3, <3>4, <3>5 DEF Scan
  <2> QED BY <1>3, <1>4, <1>10, <2>1, <2>3, <2>4
<1>17. CASE ApplyIncremental(w)
  <2>1. /\ pc[w] = "apply" /\ pc'[w] \in {"idle", "done"} /\ pending' = pending
        /\ p \in gone[w] => sig'[p] = NoSig /\ memo'[p] = {}
        /\ p \notin gone[w] => /\ p \in Indexed(w) \/ sig'[p] = sig[p]
                              /\ memo'[p] \in {{}, NotedMemo(w, p)}
    BY <1>17 DEF ApplyIncremental, Finish, TypeOK
  <2>2. Due(p) => Due(p)'
    BY <1>3, <2>1
  <2>3. \A v \in Thread : ~SeenBy(v, p)'
    BY <1>2, <1>6, <2>1 DEF SeenBy, Holding
  <2>4. CASE p \in gone[w]
    BY <2>1, <2>3, <2>4 DEF GoneOwnedAt, Tracked, NoSig
  <2>5. CASE p \notin gone[w]
    <3>1. \A v \in Thread : ~Forgets(v, p)
      BY <1>6, <2>1, <2>5 DEF Forgets, Holding
    <3>2. SeenBy(w, p) \/ p \in Tracked \/ memo[p] # {} => Due(p)
      BY <1>10, <3>1 DEF GoneOwnedAt
    <3>3. p \in Indexed(w) => SeenBy(w, p)
      BY <2>1 DEF ScanSound, OutSoundAt, Indexed, SeenBy
    <3>4. NotedMemo(w, p) # {} => SeenBy(w, p) \/ memo[p] # {}
      BY <2>1 DEF NotedMemo, SeenBy
    <3>5. p \in Tracked' => p \in Tracked \/ p \in Indexed(w)
      BY <2>1, <2>5 DEF Tracked
    <3>6. memo'[p] # {} => SeenBy(w, p) \/ memo[p] # {}
      BY <2>1, <2>5, <3>4
    <3> QED BY <2>2, <2>3, <3>2, <3>3, <3>5, <3>6 DEF GoneOwnedAt
  <2> QED BY <2>4, <2>5
<1> QED
  BY <1>11, <1>12, <1>13, <1>14, <1>15, <1>16, <1>17 DEF Step, Reload

LEMMA GoneNext ==
  TypeOK /\ LockSound /\ BootSound /\ ScanSound /\ GoneOwned /\ [Next]_vars => GoneOwned'
<1> SUFFICES ASSUME TypeOK, LockSound, BootSound, ScanSound, GoneOwned, [Next]_vars
             PROVE  GoneOwned'
  OBVIOUS
<1>1. CASE UserEdit
  BY <1>1, GoneEdit
<1>2. CASE Schedule \/ UNCHANGED vars
  <2>1. /\ UNCHANGED <<disk, sig, memo, watcher, pc, todo, gone, cand, stat0, meta>>
        /\ events \cup pending \subseteq events' \cup pending'
    BY <1>2 DEF Schedule, AppendPaths, SwapFlag, vars, shared, index, scan
  <2> QED BY <2>1 DEF GoneOwned, GoneOwnedAt, Due, Forgets, SeenBy, Exists, Tracked
<1>3. ASSUME NEW w \in Thread, Step(w) PROVE GoneOwned'
  BY <1>3, GoneStep, StepDisk DEF GoneOwned, Exists
<1> QED
  BY <1>1, <1>2, <1>3 DEF Next

-----------------------------------------------------------------------------
(* StatSound itself.                                                       *)

LEMMA StatSoundInit == Init => StatSound
BY DEF Init, StatSound, Present, UnchangedFast, RejectionUnchanged, Tracked, NoSig

\* A path that comes back does so when nothing of it is remembered.
LEMMA ForgottenWhenIdle ==
  ASSUME GoneOwned, Idle, NEW p \in Path, ~Exists(p)
  PROVE  p \notin Tracked /\ memo[p] = {}
BY DEF GoneOwned, GoneOwnedAt, Idle, Due, Forgets

LEMMA StatSoundEdit ==
  ASSUME TypeOK, StatsBounded, GoneOwned, StatSound, UserEdit
  PROVE  StatSound'
<1>1. PICK q \in Path, c \in Content \cup {Gone}, s \in Nat :
        /\ Edit(q, c, s)
        /\ \/ s = edits + 1
           \/ c = Gone
           \/ ~Exists(q) /\ Idle
  BY EditCases
<1>2. /\ disk' = [disk EXCEPT ![q] = [content |-> c, stat |-> s, ver |-> edits + 1]]
      /\ UNCHANGED <<sig, memo>>
  BY <1>1 DEF Edit, index
<1> SUFFICES ASSUME NEW p \in Path, Exists(p)'
             PROVE  /\ UnchangedFast(p)' => sig'[p].content = disk'[p].content
                    /\ RejectionUnchanged(p)' => disk'[p].content \in Oversized \cup Guarded
  BY DEF StatSound, Present
<1>3. CASE p # q
  <2>1. disk'[p] = disk[p]
    BY <1>2, <1>3 DEF TypeOK
  <2> QED BY <1>2, <2>1 DEF StatSound, Present, Exists, UnchangedFast, RejectionUnchanged, Tracked
<1>4. CASE p = q
  <2>1. disk'[p] = [content |-> c, stat |-> s, ver |-> edits + 1] /\ c # Gone
    BY <1>2, <1>4 DEF TypeOK, Exists
  <2>2. CASE ~Exists(p) /\ Idle
    <3>1. p \notin Tracked' /\ memo'[p] = {}
      BY <1>2, <2>2, ForgottenWhenIdle DEF Tracked
    <3> QED BY <3>1 DEF UnchangedFast, RejectionUnchanged
  <2>3. CASE s = edits + 1
    <3>1. /\ edits \in Nat /\ sig[p].stat \in Nat /\ sig[p].stat <= edits
          /\ memo[p] \subseteq Nat /\ \A t \in memo[p] : t <= edits
      BY DEF TypeOK, StatsBounded, Signature
    <3>2. s # sig[p].stat /\ s \notin memo[p]
      BY <2>3, <3>1
    <3> QED BY <1>2, <2>1, <3>2 DEF UnchangedFast, RejectionUnchanged
  <2> QED BY <1>1, <1>4, <2>1, <2>2, <2>3
<1> QED BY <1>3, <1>4

\* A pass that finishes stores stats that still tell the truth.
LEMMA NewSigSound ==
  ASSUME ScanSound, NEW w \in Thread, NEW p \in Path, pc[w] = "apply", Exists(p),
         p \in Indexed(w) \cup Failed(w), NewSig(w, p).stat = disk[p].stat
  PROVE  NewSig(w, p).content = disk[p].content
BY DEF ScanSound, ScanSoundAt, Match, NewSig, Indexed, Failed

LEMMA NotedMemoSound ==
  ASSUME ScanSound, StatSound, NEW w \in Thread, NEW p \in Path, pc[w] = "apply", Exists(p),
         disk[p].stat \in NotedMemo(w, p)
  PROVE  disk[p].content \in Oversized \cup Guarded
<1>1. CASE out[w][p] = "Refused" /\ stat0[w][p] # {}
  <2>1. p \in cand[w]
    BY <1>1 DEF ScanSound, OutSoundAt
  <2> QED BY <1>1, <2>1 DEF ScanSound, ScanSoundAt, Match, NotedMemo
<1>2. CASE ~(out[w][p] = "Refused" /\ stat0[w][p] # {})
  BY <1>2 DEF NotedMemo, StatSound, RejectionUnchanged, Present
<1> QED BY <1>1, <1>2

LEMMA StatSoundNext ==
  TypeOK /\ StatsBounded /\ ScanSound /\ GoneOwned /\ StatSound /\ [Next]_vars => StatSound'
<1> SUFFICES ASSUME TypeOK, StatsBounded, ScanSound, GoneOwned, StatSound, [Next]_vars
             PROVE  StatSound'
  OBVIOUS
<1> USE DEF shared, index, scan
<1>1. CASE UserEdit
  BY <1>1, StatSoundEdit
<1>2. ASSUME disk' = disk, sig' = sig, \A p \in Path : memo'[p] \subseteq memo[p]
      PROVE  StatSound'
  BY <1>2 DEF StatSound, Present, Exists, UnchangedFast, RejectionUnchanged, Tracked
<1>3. ASSUME NEW w \in Thread, pc[w] = "apply", disk' = disk,
             \A p \in Path : \/ sig'[p] \in {sig[p], NoSig}
                             \/ p \in Indexed(w) \cup Failed(w) /\ sig'[p] = NewSig(w, p),
             \A p \in Path : memo'[p] \in {{}, NotedMemo(w, p)}
      PROVE  StatSound'
  <2> SUFFICES ASSUME NEW p \in Path, Exists(p)
               PROVE  /\ UnchangedFast(p)' => sig'[p].content = disk[p].content
                      /\ RejectionUnchanged(p)' => disk[p].content \in Oversized \cup Guarded
    BY <1>3 DEF StatSound, Present, Exists
  <2>1. CASE sig'[p] = sig[p]
    BY <1>3, <2>1, NotedMemoSound
       DEF StatSound, Present, UnchangedFast, RejectionUnchanged, Tracked
  <2>2. CASE sig'[p] = NoSig
    BY <1>3, <2>2, NotedMemoSound DEF UnchangedFast, RejectionUnchanged, Tracked, NoSig
  <2>3. CASE p \in Indexed(w) \cup Failed(w) /\ sig'[p] = NewSig(w, p)
    BY <1>3, <2>3, NewSigSound, NotedMemoSound DEF UnchangedFast, RejectionUnchanged
  <2> QED BY <1>3, <2>1, <2>2, <2>3
<1>4. CASE Schedule \/ UNCHANGED vars
  BY <1>2, <1>4 DEF Schedule, AppendPaths, SwapFlag, vars
<1>5. ASSUME NEW w \in Thread, ApplyIncremental(w) PROVE StatSound'
  BY <1>3, <1>5 DEF ApplyIncremental
<1>6. ASSUME NEW w \in Thread, BuildSnapshot(w) PROVE StatSound'
  BY <1>3, <1>6 DEF BuildSnapshot
<1>7. ASSUME NEW w \in Thread, Crawl(w) PROVE StatSound'
  BY <1>2, <1>7 DEF Crawl
<1>8. ASSUME NEW w \in Thread, Step(w),
             ~ApplyIncremental(w), ~BuildSnapshot(w), ~Crawl(w)
      PROVE  sig' = sig /\ memo' = memo
  BY <1>8 DEF Step, Job, StartJob, DrainPaths, FallBack, ResolvePaths,
              Reload, LockReload, Filter, AliasScripts,
              Scan, ScanStat, ScanMeta, ScanRead, RetryMeta, RetryRead,
              Boot, BootCrawl, StartWatcher
<1>9. ASSUME NEW w \in Thread, Step(w) PROVE StatSound'
  BY <1>2, <1>5, <1>6, <1>7, <1>8, <1>9, StepDisk
<1> QED
  BY <1>1, <1>4, <1>9 DEF Next

\* What the VFS concludes from an unchanged (mtime, size) is always true of the
\* file on disk: is_unchanged_fast never hides an edit and is_rejection_unchanged
\* never hides a file that became acceptable, whatever edits land between the
\* stat, the read and the upsert of any number of concurrent reloads.
THEOREM StatSoundAlways == Spec => []StatSound
<1>1. Init => StatInv
  BY TypeInit, LockInit, StatsInit, ScanInit, GoneInit, StatSoundInit DEF StatInv
<1>2. StatInv /\ [Next]_vars => StatInv'
  BY TypeNext, LockNext, StatsNext, ScanNext, GoneNext, StatSoundNext DEF StatInv
<1>3. StatInv => StatSound
  BY DEF StatInv
<1> QED
  BY <1>1, <1>2, <1>3, PTL DEF Spec

-----------------------------------------------------------------------------
(* PendingOwned.                                                           *)

\* A path in pending_reload_paths is never stranded: the flag is set after the
\* paths are appended and cleared before they are drained, so some job, waiting
\* or started, still has its drain ahead of it.
THEOREM PendingAlwaysOwned == Spec => []PendingOwned
<1> DEFINE Inv == TypeOK /\ PendingOwned
                  /\ \A w \in Thread : pc[w] = "drain" => w \in Worker
<1>1. Init => Inv
  BY TypeInit DEF Init, PendingOwned
<1>2. Inv /\ [Next]_vars => Inv'
  <2> SUFFICES ASSUME Inv, [Next]_vars PROVE Inv'
    OBVIOUS
  <2> USE DEF shared, index, scan
  <2>1. TypeOK'
    BY TypeNext
  <2>2. ASSUME UNCHANGED <<pending, reloadPending, caller>>,
               \A v \in Thread : pc'[v] = "drain" <=> pc[v] = "drain"
        PROVE  Inv'
    BY <2>1, <2>2 DEF PendingOwned, Thread
  <2>3. CASE UserEdit \/ UNCHANGED vars
    BY <2>1, <2>3 DEF UserEdit, Write, Delete, Recreate, Edit, vars, PendingOwned
  <2>4. CASE Schedule
    BY <2>1, <2>4 DEF Schedule, AppendPaths, SwapFlag, PendingOwned
  <2>5. ASSUME NEW w \in Thread, StartJob(w) PROVE Inv'
    BY <2>1, <2>5 DEF StartJob, PendingOwned, TypeOK
  <2>6. ASSUME NEW w \in Thread, DrainPaths(w) PROVE Inv'
    BY <2>1, <2>6 DEF DrainPaths, PendingOwned, TypeOK
  <2>7. ASSUME NEW w \in Thread, Step(w), ~StartJob(w), ~DrainPaths(w) PROVE Inv'
    <3>1. UNCHANGED <<pending, reloadPending, caller>> /\ pc[w] # "drain"
      BY <2>7 DEF Step, Job, FallBack, ResolvePaths, Reload, LockReload, Crawl, Filter,
                  AliasScripts, Scan, ScanStat, ScanMeta, ScanRead, RetryMeta, RetryRead,
                  ApplyIncremental, Boot, BootCrawl, BuildSnapshot, StartWatcher
    <3>2. pc'[w] # "drain"
      <4>1. CASE LockReload(w)
        BY <4>1 DEF LockReload, TypeOK
      <4>2. CASE AliasScripts(w) \/ ApplyIncremental(w)
        BY <4>2 DEF AliasScripts, ApplyIncremental, Finish, TypeOK
      <4>3. CASE ScanRead(w)
        BY <4>3 DEF ScanRead, TypeOK
      <4> QED
        BY <2>7, <4>1, <4>2, <4>3
           DEF Step, Job, FallBack, ResolvePaths, Reload, Crawl, Filter, Scan, ScanStat, ScanMeta,
               RetryMeta, RetryRead, Boot, BootCrawl, BuildSnapshot, StartWatcher, TypeOK
    <3> QED BY <2>2, <2>7, <3>1, <3>2, StepFrame
  <2> QED BY <2>3, <2>4, <2>5, <2>6, <2>7 DEF Next
<1>3. Inv => PendingOwned
  OBVIOUS
<1> QED
  BY <1>1, <1>2, <1>3, PTL DEF Spec

-----------------------------------------------------------------------------
(* FactsNeverRegress.  Only the holder of reload_lock installs facts, and   *)
(* it read the file after it took the lock: what it read is at least as new *)
(* as what any earlier holder installed.                                   *)

VerSound ==
  \A p \in Path :
    /\ facts[p].ver <= disk[p].ver /\ disk[p].ver <= edits
    /\ \A w \in Thread :
         pc[w] \in {"retryMeta", "retryRead", "apply"} /\ p \in cand[w] =>
           facts[p].ver <= got[w][p].ver /\ got[w][p].ver <= disk[p].ver
    /\ watcher = "off" /\ pc[Main] # "watch" => facts[p].ver = 0

VerInv == TypeOK /\ LockSound /\ BootSound /\ VerSound

LEMMA VerInit == Init => VerSound
<1> SUFFICES ASSUME Init PROVE VerSound
  OBVIOUS
<1>1. \A p \in Path : disk[p].ver = 0
  BY DEF Init, NoFile
<1> QED BY <1>1 DEF Init, VerSound, NoFact

LEMMA VerTypes ==
  ASSUME TypeOK
  PROVE  /\ edits \in Nat
         /\ \A p \in Path : disk[p].ver \in Nat /\ facts[p].ver \in Nat
         /\ \A w \in Thread, p \in Path : got[w][p].ver \in Nat
BY DEF TypeOK, File, Fact

\* What a step installs is no older than what it replaces.
LEMMA FactsMonotone ==
  ASSUME VerInv, [Next]_vars, NEW p \in Path
  PROVE  facts[p].ver <= facts'[p].ver
<1> USE VerTypes DEF VerInv, shared, index, scan
<1>1. CASE UserEdit \/ Schedule \/ UNCHANGED vars
  BY <1>1 DEF UserEdit, Write, Delete, Recreate, Edit, Schedule, AppendPaths, SwapFlag, vars
<1>2. ASSUME NEW w \in Thread, ApplyIncremental(w) PROVE facts[p].ver <= facts'[p].ver
  <2>1. p \in Changed(w) => facts[p].ver <= got[w][p].ver
    BY <1>2 DEF ApplyIncremental, Changed, Indexed, VerSound
  <2>2. \/ facts'[p] = facts[p]
        \/ p \in Changed(w) /\ facts'[p] = got[w][p]
        \/ facts'[p] = [NoFact EXCEPT !.ver = facts[p].ver]
    BY <1>2 DEF ApplyIncremental
  <2> QED BY <2>1, <2>2 DEF NoFact
<1>3. ASSUME NEW w \in Thread, BuildSnapshot(w) PROVE facts[p].ver <= facts'[p].ver
  <2>1. facts[p].ver = 0
    BY <1>3 DEF BuildSnapshot, Booting, VerSound
  <2>2. facts'[p].ver \in Nat
    BY <1>3 DEF BuildSnapshot, NoFact
  <2> QED BY <2>1, <2>2
<1>4. ASSUME NEW w \in Thread, Step(w), ~ApplyIncremental(w), ~BuildSnapshot(w)
      PROVE  facts' = facts
  BY <1>4 DEF Step, Job, StartJob, DrainPaths, FallBack, ResolvePaths,
              Reload, LockReload, Crawl, Filter, AliasScripts,
              Scan, ScanStat, ScanMeta, ScanRead, RetryMeta, RetryRead,
              Boot, BootCrawl, StartWatcher
<1>5. ASSUME NEW w \in Thread, Step(w) PROVE facts[p].ver <= facts'[p].ver
  BY <1>2, <1>3, <1>4, <1>5
<1> QED
  BY <1>1, <1>5 DEF Next

LEMMA VerNext == VerInv /\ [Next]_vars => VerSound'
<1> SUFFICES ASSUME VerInv, [Next]_vars PROVE VerSound'
  OBVIOUS
<1> USE VerTypes DEF VerInv, shared, index, scan
<1>1. CASE UserEdit
  <2>1. PICK q \in Path, c \in Content \cup {Gone}, s \in Nat : Edit(q, c, s)
    BY <1>1, EditCases
  <2>2. /\ edits' = edits + 1 /\ UNCHANGED <<facts, pc, cand, got, watcher>>
        /\ \A p \in Path : disk'[p].ver = IF p = q THEN edits + 1 ELSE disk[p].ver
    BY <2>1 DEF Edit, TypeOK
  <2> QED BY <2>2 DEF VerSound
<1>2. CASE Schedule \/ UNCHANGED vars
  BY <1>2 DEF Schedule, AppendPaths, SwapFlag, vars, VerSound
<1>3. ASSUME NEW w \in Thread, Step(w) PROVE VerSound'
  <2> DEFINE Late == {"retryMeta", "retryRead", "apply"}
  <2>0. disk' = disk /\ edits' = edits
    BY <1>3, StepDisk
  <2>1. \A v \in Thread : v # w =>
          pc'[v] = pc[v] /\ cand'[v] = cand[v] /\ got'[v] = got[v]
    BY <1>3, StepFrame
  <2>2. ASSUME UNCHANGED facts, NEW p \in Path,
               pc'[w] \in Late /\ p \in cand'[w] =>
                 \/ got'[w][p].ver = disk[p].ver
                 \/ pc[w] \in Late /\ p \in cand[w] /\ got'[w][p] = got[w][p]
        PROVE  \A v \in Thread : pc'[v] \in Late /\ p \in cand'[v] =>
                 facts'[p].ver <= got'[v][p].ver /\ got'[v][p].ver <= disk'[p].ver
    BY <2>0, <2>1, <2>2 DEF VerSound
  <2>3. CASE ApplyIncremental(w) \/ BuildSnapshot(w)
    <3>1. /\ pc[w] = "apply"
          /\ pc'[w] \in {"idle", "done", "watch"} /\ watcher' = watcher
      BY <2>3 DEF ApplyIncremental, Finish, BuildSnapshot, TypeOK
    <3>2. \A v \in Thread : v # w => pc[v] \notin Late
      BY <3>1 DEF LockSound, Holding
    <3>3. \A v \in Thread : pc'[v] \notin Late
      BY <2>1, <3>1, <3>2
    <3>4. \A p \in Path : facts'[p].ver <= disk[p].ver
      <4>1. CASE ApplyIncremental(w)
        BY <3>1, <4>1 DEF ApplyIncremental, Changed, Indexed, NoFact, VerSound
      <4>2. CASE BuildSnapshot(w)
        BY <3>1, <4>2 DEF BuildSnapshot, Indexed, NoFact, VerSound
      <4> QED BY <2>3, <4>1, <4>2
    <3>5. ~(watcher' = "off" /\ pc'[Main] # "watch")
      <4>1. CASE ApplyIncremental(w)
        <5>1. watcher # "off"
          BY <3>1, <4>1, OnlyMain DEF ApplyIncremental, Booting
        <5> QED BY <3>1, <5>1
      <4>2. CASE BuildSnapshot(w)
        BY <4>2 DEF BuildSnapshot, Booting, TypeOK
      <4> QED BY <2>3, <4>1, <4>2
    <3> QED BY <2>0, <3>3, <3>4, <3>5 DEF VerSound
  <2>4. CASE ~ApplyIncremental(w) /\ ~BuildSnapshot(w)
    <3>1. facts' = facts
      BY <1>3, <2>4 DEF Step, Job, StartJob, DrainPaths, FallBack, ResolvePaths,
              Reload, LockReload, Crawl, Filter, AliasScripts,
              Scan, ScanStat, ScanMeta, ScanRead, RetryMeta, RetryRead,
              Boot, BootCrawl, StartWatcher
    <3>2. ASSUME NEW p \in Path, pc'[w] \in Late, p \in cand'[w]
          PROVE  \/ got'[w][p].ver = disk[p].ver
                 \/ pc[w] \in Late /\ p \in cand[w] /\ got'[w][p] = got[w][p]
      <4>1. CASE ScanRead(w)
        BY <3>2, <4>1 DEF ScanRead, ReadNow, TypeOK
      <4>2. CASE RetryMeta(w)
        BY <3>2, <4>2 DEF RetryMeta
      <4>3. CASE RetryRead(w)
        BY <3>2, <4>3 DEF RetryRead, ReadNow, TypeOK
      <4>4. CASE LockReload(w) \/ AliasScripts(w)
        BY <3>2, <4>4 DEF LockReload, AliasScripts, Finish, TypeOK
      <4> QED
        BY <1>3, <2>4, <3>2, <4>1, <4>2, <4>3, <4>4
           DEF Step, Job, StartJob, DrainPaths, FallBack, ResolvePaths, Reload, Crawl, Filter,
               Scan, ScanStat, ScanMeta, Boot, BootCrawl, StartWatcher, TypeOK
    <3>3. watcher' = "off" /\ pc'[Main] # "watch" => watcher = "off" /\ pc[Main] # "watch"
      <4>1. CASE StartWatcher(w)
        BY <4>1 DEF StartWatcher
      <4>2. CASE ~StartWatcher(w)
        <5>1. watcher' = watcher /\ pc[w] # "watch"
          BY <1>3, <2>4, <4>2
             DEF Step, Job, StartJob, DrainPaths, FallBack, ResolvePaths,
                 Reload, LockReload, Crawl, Filter, AliasScripts,
                 Scan, ScanStat, ScanMeta, ScanRead, RetryMeta, RetryRead, Boot, BootCrawl
        <5> QED BY <2>1, <5>1 DEF Thread
      <4> QED BY <4>1, <4>2
    <3>4. \A p \in Path : \A v \in Thread : pc'[v] \in Late /\ p \in cand'[v] =>
            facts'[p].ver <= got'[v][p].ver /\ got'[v][p].ver <= disk'[p].ver
      BY <2>2, <3>1, <3>2
    <3> QED BY <2>0, <3>1, <3>3, <3>4 DEF VerSound
  <2> QED BY <2>3, <2>4
<1> QED
  BY <1>1, <1>2, <1>3 DEF Next

\* reload_lock is held from before the reads to the installation, so no pass
\* ever replaces a file's facts by facts read earlier (invariant I2): for any
\* number of pool threads, paths and edits.
THEOREM FactsNeverRegressAlways == Spec => FactsNeverRegress
<1>1. Init => VerInv
  BY TypeInit, LockInit, VerInit DEF VerInv
<1>2. VerInv /\ [Next]_vars => VerInv'
  BY TypeNext, LockNext, VerNext DEF VerInv
<1>3. VerInv /\ VerInv' /\ [Next]_vars => [\A p \in Path : facts'[p].ver >= facts[p].ver]_facts
  BY FactsMonotone, VerTypes DEF VerInv
<1> QED
  BY <1>1, <1>2, <1>3, PTL DEF Spec, FactsNeverRegress


-----------------------------------------------------------------------------
(* The invariant.  VerInv says how old readings are and ScanSound which     *)
(* files they are of.  What is missing is that a signature stands for facts *)
(* (SigShown: that is why an upsert without a change needs no new facts),   *)
(* that nothing is shown before the boot scan ends (BootBlank), and what    *)
(* the pass of a thread may carry for a file (PassSound).                   *)

LatePc == {"retryMeta", "retryRead", "apply"}
PassPc == {"alias", "stat", "meta", "read"} \cup LatePc

\* A candidate of the pass has been read and, if it is to be indexed, can be;
\* one that the pass also found deleted is a script whose alias config moved.
PassSoundAt(w, p) ==
  p \in cand[w] =>
    /\ pc[w] \in LatePc =>
         /\ out[w][p] # "Unread"
         /\ out[w][p] = "Ok" => got[w][p].content \in Plain \cup Oversized
    /\ pc[w] \in PassPc /\ p \in gone[w] => Governor[p] # NoPath
PassSound == \A w \in Thread, p \in Path : PassSoundAt(w, p)

\* The boot scan deletes nothing, fails on nothing and starts from nothing.
BootBlank ==
  watcher = "off" =>
    /\ gone[Main] = {}
    /\ \A p \in Path : out[Main][p] # "ParseFailed"
    /\ pc[Main] # "watch" =>
         \A p \in Path : /\ sig[p].content = Gone
                         /\ facts[p] = NoFact /\ rejected[p] = "none"

\* A file the VFS tracks is shown with the content that was hashed.
SigShown == \A p \in Path : sig[p].content # Gone => facts[p].content = sig[p].content

RInv == TypeOK /\ LockSound /\ BootSound /\ StatsBounded /\ ScanSound /\ VerSound
        /\ PassSound /\ BootBlank /\ SigShown

-----------------------------------------------------------------------------
(* The invariant is inductive.                                             *)

LEMMA RefInit == Init => PassSound /\ BootBlank /\ SigShown
<1> SUFFICES ASSUME Init PROVE PassSound /\ BootBlank /\ SigShown
  OBVIOUS
<1>1. PassSound
  BY DEF Init, PassSound, PassSoundAt
<1>2. BootBlank
  BY DEF Init, BootBlank, NoSig, Thread
<1>3. SigShown
  BY DEF Init, SigShown, NoSig
<1> QED BY <1>1, <1>2, <1>3

\* Steps of the users and of the watcher thread leave the passes alone.
LEMMA OutsideFrame ==
  ASSUME UserEdit \/ Schedule \/ UNCHANGED vars
  PROVE  UNCHANGED <<pc, watcher, index, scan>>
<1> USE DEF shared, index, scan
<1>1. CASE UserEdit
  BY <1>1 DEF UserEdit, Write, Delete, Recreate, Edit
<1>2. CASE Schedule
  BY <1>2 DEF Schedule, AppendPaths, SwapFlag
<1>3. CASE UNCHANGED vars
  BY <1>3 DEF vars
<1> QED BY <1>1, <1>2, <1>3

\* What process_file accepts can be shown.
LEMMA AcceptedReadable ==
  ASSUME TypeOK, NEW w \in Thread, NEW p \in Path, Verdict(meta[w][p], disk[p].content) = "Ok"
  PROVE  disk[p].content \in Plain \cup Oversized
<1>1. /\ meta[w][p].content \in Content \cup {Gone}
      /\ disk[p].content \in Content \cup {Gone}
  BY DEF TypeOK, File
<1> QED BY <1>1 DEF Verdict, Content

LEMMA PassStep ==
  ASSUME TypeOK, BootSound, PassSound, BootBlank, NEW w \in Thread, Step(w)
  PROVE  PassSound'
<1> USE DEF shared, index, scan
<1>1. SUFFICES ASSUME NEW p \in Path, PassSoundAt(w, p) PROVE PassSoundAt(w, p)'
  BY StepFrame DEF PassSound, PassSoundAt
<1>2. CASE Job(w)
  BY <1>1, <1>2 DEF Job, StartJob, DrainPaths, FallBack, ResolvePaths, TypeOK,
                    PassSoundAt, LatePc, PassPc
<1>3. CASE Reload(w)
  <2>1. CASE LockReload(w)
    BY <2>1 DEF LockReload, TypeOK, PassSoundAt, LatePc, PassPc
  <2>2. CASE Crawl(w)
    BY <2>2 DEF Crawl, TypeOK, PassSoundAt, LatePc, PassPc
  <2>3. CASE Filter(w)
    <3>1. pc'[w] = "alias" /\ cand'[w] \cap gone'[w] = {}
      BY <2>3 DEF Filter, TypeOK
    <3> QED BY <3>1 DEF PassSoundAt, LatePc
  <2>4. CASE AliasScripts(w)
    <3>1. CASE Finish(w)
      BY <3>1 DEF Finish, TypeOK, PassSoundAt
    <3>2. CASE ~Finish(w)
      <4>1. /\ pc[w] = "alias" /\ pc'[w] = "stat" /\ gone'[w] = gone[w]
            /\ cand'[w] = cand[w] \cup ForcedScripts(w)
        BY <2>4, <3>2 DEF AliasScripts, TypeOK
      <4>2. p \in ForcedScripts(w) => Governor[p] # NoPath
        BY DEF ForcedScripts, TouchedConfigs, AliasConfig
      <4> QED BY <1>1, <4>1, <4>2 DEF PassSoundAt, LatePc, PassPc
    <3> QED BY <3>1, <3>2
  <2> QED BY <1>3, <2>1, <2>2, <2>3, <2>4 DEF Reload
<1>4. CASE Scan(w)
  <2>1. CASE ScanStat(w) \/ ScanMeta(w)
    BY <1>1, <2>1 DEF ScanStat, ScanMeta, TypeOK, PassSoundAt, LatePc, PassPc
  <2>2. CASE RetryMeta(w)
    BY <1>1, <2>2 DEF RetryMeta, TypeOK, PassSoundAt, LatePc, PassPc
  <2>3. CASE ScanRead(w)
    <3>1. /\ pc[w] = "read" /\ cand' = cand /\ gone' = gone
          /\ p \in cand[w] => got'[w][p] = ReadNow(p)
      BY <2>3 DEF ScanRead, TypeOK
    <3>2. p \in cand[w] =>
            \/ out'[w][p] = "ParseFailed"
            \/ out'[w][p] = Verdict(meta[w][p], disk[p].content)
      BY <2>3 DEF ScanRead, TypeOK
    <3>3. Verdict(meta[w][p], disk[p].content) \in {"ReadError", "Refused", "Ok"}
      BY VerdictType
    <3>4. p \in cand[w] /\ out'[w][p] = "Ok" => got'[w][p].content \in Plain \cup Oversized
      BY <3>1, <3>2, AcceptedReadable DEF ReadNow
    <3>5. pc'[w] \in PassPc
      BY <2>3 DEF ScanRead, TypeOK, PassPc, LatePc
    <3> QED BY <1>1, <3>1, <3>2, <3>3, <3>4, <3>5 DEF PassSoundAt, PassPc
  <2>4. CASE RetryRead(w)
    <3>1. /\ pc[w] = "retryRead" /\ cand' = cand /\ gone' = gone
          /\ p \in Retried(w) =>
               got'[w][p] = [ReadNow(p) EXCEPT !.alias = got[w][p].alias]
          /\ p \notin Retried(w) => got'[w][p] = got[w][p]
      BY <2>4 DEF RetryRead, TypeOK
    <3>2. /\ p \notin Retried(w) => out'[w][p] = out[w][p]
          /\ p \in Retried(w) =>
               \/ out'[w][p] = out[w][p]
               \/ out'[w][p] = "RefusedLate"
               \/ out'[w][p] = Verdict(meta[w][p], disk[p].content)
      BY <2>4 DEF RetryRead, TypeOK
    <3>3. Verdict(meta[w][p], disk[p].content) \in {"ReadError", "Refused", "Ok"}
      BY VerdictType
    <3>4. p \in Retried(w) => out[w][p] = "ParseFailed"
      BY DEF Retried
    <3>5. p \in Retried(w) /\ out'[w][p] = "Ok" => got'[w][p].content \in Plain \cup Oversized
      BY <3>1, <3>2, <3>4, AcceptedReadable DEF ReadNow
    <3> QED BY <1>1, <3>1, <3>2, <3>3, <3>4, <3>5 DEF PassSoundAt, PassPc, LatePc
  <2> QED BY <1>4, <2>1, <2>2, <2>3, <2>4 DEF Scan
<1>5. CASE ApplyIncremental(w)
  BY <1>5 DEF ApplyIncremental, Finish, TypeOK, PassSoundAt
<1>6. CASE Boot(w)
  <2>1. CASE BootCrawl(w)
    <3>1. gone[w] = {}
      BY <2>1 DEF BootCrawl, BootSound, Booting, BootBlank
    <3> QED BY <2>1, <3>1 DEF BootCrawl, TypeOK, PassSoundAt, LatePc, PassPc
  <2>2. CASE BuildSnapshot(w)
    BY <2>2 DEF BuildSnapshot, TypeOK, PassSoundAt
  <2>3. CASE StartWatcher(w)
    BY <2>3 DEF StartWatcher, TypeOK, PassSoundAt, LatePc, PassPc
  <2> QED BY <1>6, <2>1, <2>2, <2>3 DEF Boot
<1> QED BY <1>2, <1>3, <1>4, <1>5, <1>6 DEF Step

\* Only the installation of a pass moves what is stored of a file.
LEMMA StoreFrame ==
  ASSUME NEW w \in Thread, Step(w), ~ApplyIncremental(w), ~BuildSnapshot(w)
  PROVE  UNCHANGED <<sig, facts, rejected>>
BY DEF Step, Job, StartJob, DrainPaths, FallBack, ResolvePaths,
       Reload, LockReload, Crawl, Filter, AliasScripts,
       Scan, ScanStat, ScanMeta, ScanRead, RetryMeta, RetryRead,
       Boot, BootCrawl, StartWatcher, shared, index, scan

LEMMA BootStep ==
  ASSUME TypeOK, BootSound, BootBlank, "boot" \notin ParseFails, NEW w \in Thread, Step(w)
  PROVE  BootBlank'
<1> USE DEF shared, index, scan
<1>1. CASE watcher' # "off"
  BY <1>1 DEF BootBlank
<1>2. CASE watcher' = "off"
  <2>0. Main \in Thread
    BY DEF Thread
  <2>1. ~StartWatcher(w)
    BY <1>2 DEF StartWatcher
  <2>2. watcher = "off"
    BY <1>2, <2>1 DEF Step, Job, StartJob, DrainPaths, FallBack, ResolvePaths,
       Reload, LockReload, Crawl, Filter, AliasScripts,
       Scan, ScanStat, ScanMeta, ScanRead, RetryMeta, RetryRead, ApplyIncremental,
       Boot, BootCrawl, BuildSnapshot
  <2>3. ~StartJob(w)
    BY <2>2 DEF BootSound, StartJob
  <2>4. pc[w] # "idle" => w = Main
    BY <2>2, OnlyMain
  <2>5. w = Main /\ pc[w] \in BootPc
    BY <2>2, <2>3, <2>4
       DEF Step, Job, DrainPaths, FallBack, ResolvePaths,
           Reload, LockReload, Crawl, Filter, AliasScripts,
           Scan, ScanStat, ScanMeta, ScanRead, RetryMeta, RetryRead, ApplyIncremental,
           Boot, BootCrawl, BuildSnapshot, StartWatcher, BootSound
  <2>6. Booting(w) /\ Pass(w) = "boot"
    BY <2>2, <2>5 DEF Booting, Pass
  <2>7. ~ApplyIncremental(w)
    BY <2>6 DEF ApplyIncremental
  <2>8. ~Job(w) /\ ~Crawl(w) /\ ~Filter(w) /\ ~AliasScripts(w)
    BY <2>3, <2>5 DEF Job, DrainPaths, FallBack, ResolvePaths, Crawl, Filter, AliasScripts, BootPc
  <2>9. gone' = gone
    BY <2>1, <2>7, <2>8 DEF Step, Reload, LockReload,
           Scan, ScanStat, ScanMeta, ScanRead, RetryMeta, RetryRead, Boot, BootCrawl, BuildSnapshot
  <2>10. ASSUME NEW p \in Path PROVE out'[Main][p] # "ParseFailed"
    <3>1. out[Main][p] # "ParseFailed"
      BY <2>2 DEF BootBlank
    <3>2. Verdict(meta[w][p], disk[p].content) # "ParseFailed"
      BY VerdictType
    <3>3. CASE ScanRead(w)
      <4>1. MayFail(w, {q \in cand[w] : Verdict(meta[w][q], disk[q].content) = "Ok"}) = {{}}
        BY <2>6 DEF MayFail
      <4>2. out' = [out EXCEPT ![w] =
               [q \in Path |-> IF q \notin cand[w] THEN "Unread"
                               ELSE Verdict(meta[w][q], disk[q].content)]]
        BY <3>3, <4>1 DEF ScanRead
      <4> QED BY <2>5, <3>2, <4>2 DEF TypeOK
    <3>4. CASE RetryRead(w)
      <4>1. PICK failed : out' = [out EXCEPT ![w] =
              [q \in Path |->
               IF q \notin Retried(w) \/ q \in failed THEN out[w][q]
               ELSE IF Verdict(meta[w][q], disk[q].content) = "Refused" THEN "RefusedLate"
               ELSE Verdict(meta[w][q], disk[q].content)]]
        BY <3>4 DEF RetryRead
      <4> QED BY <2>5, <3>1, <3>2, <4>1 DEF TypeOK
    <3>5. CASE BuildSnapshot(w)
      BY <2>5, <3>5 DEF BuildSnapshot, TypeOK
    <3>6. CASE ~ScanRead(w) /\ ~RetryRead(w) /\ ~BuildSnapshot(w)
      <4>1. out' = out
        BY <2>1, <2>7, <2>8, <3>6 DEF Step, Reload, LockReload,
             Scan, ScanStat, ScanMeta, RetryMeta, Boot, BootCrawl
      <4> QED BY <3>1, <4>1
    <3> QED BY <3>3, <3>4, <3>5, <3>6
  <2>11. ASSUME pc'[Main] # "watch", NEW p \in Path
         PROVE  sig'[p].content = Gone /\ facts'[p] = NoFact /\ rejected'[p] = "none"
    <3>1. ~BuildSnapshot(w)
      BY <2>5, <2>11 DEF BuildSnapshot, TypeOK
    <3>2. pc[Main] # "watch"
      BY <2>1, <2>5, <2>7, <2>8, <3>1 DEF Step, Reload, LockReload, Scan, ScanStat, ScanMeta,
             ScanRead, RetryMeta, RetryRead, Boot, BootCrawl
    <3> QED BY <2>2, <2>7, <3>1, <3>2, StoreFrame DEF BootBlank
  <2> QED BY <2>2, <2>9, <2>10, <2>11 DEF BootBlank
<1> QED BY <1>1, <1>2

\* What an incremental pass stores and shows of one file.
LEMMA ApplyAt ==
  ASSUME TypeOK, NEW w \in Thread, ApplyIncremental(w), NEW p \in Path
  PROVE  /\ sig'[p] = IF p \in gone[w] THEN NoSig
                      ELSE IF p \in Indexed(w) THEN NewSig(w, p) ELSE sig[p]
         /\ facts'[p] = IF p \in Changed(w) THEN got[w][p]
                        ELSE IF p \in gone[w] THEN [NoFact EXCEPT !.ver = facts[p].ver]
                        ELSE facts[p]
         /\ rejected'[p] = IF p \in cand[w] \cup gone[w] THEN PassReason(w, p) ELSE rejected[p]
<1>1. CASE Changed(w) = {} /\ gone[w] = {} /\ Rejections(w) = rejected
  <2>1. facts' = facts /\ rejected' = Rejections(w)
    BY <1>1 DEF ApplyIncremental
  <2> QED BY <1>1, <2>1 DEF ApplyIncremental, Rejections
<1>2. CASE ~(Changed(w) = {} /\ gone[w] = {} /\ Rejections(w) = rejected)
  BY <1>2 DEF ApplyIncremental, Rejections
<1> QED BY <1>1, <1>2

LEMMA SigStep ==
  ASSUME TypeOK, BootBlank, SigShown, NEW w \in Thread, Step(w)
  PROVE  SigShown'
<1>1. SUFFICES ASSUME NEW p \in Path, sig'[p].content # Gone
               PROVE  facts'[p].content = sig'[p].content
  BY DEF SigShown
<1>2. sig[p].content # Gone => facts[p].content = sig[p].content
  BY DEF SigShown
<1>3. CASE ApplyIncremental(w)
  <2>0. sig'[p] = IF p \in gone[w] THEN NoSig
                  ELSE IF p \in Indexed(w) THEN NewSig(w, p) ELSE sig[p]
    BY <1>3, ApplyAt
  <2>1. p \notin gone[w]
    BY <1>1, <2>0 DEF NoSig
  <2>2. CASE p \in Indexed(w)
    <3>1. sig'[p].content = got[w][p].content
      BY <2>0, <2>1, <2>2 DEF NewSig
    <3>2. p \notin Changed(w) => sig[p].content = got[w][p].content
      BY <2>2 DEF Changed
    <3> QED BY <1>1, <1>2, <1>3, <2>1, <3>1, <3>2, ApplyAt
  <2>3. CASE p \notin Indexed(w)
    BY <1>1, <1>2, <1>3, <2>1, <2>3, ApplyAt DEF Changed
  <2> QED BY <2>2, <2>3
<1>4. CASE BuildSnapshot(w)
  <2>1. /\ pc[w] = "apply" /\ w = Main /\ watcher = "off"
    BY <1>4 DEF BuildSnapshot, Booting
  <2>2. sig[p].content = Gone /\ Failed(w) = {}
    BY <2>1 DEF BootBlank, Failed, TypeOK
  <2>3. sig' = [q \in Path |-> IF q \in Indexed(w) THEN NewSig(w, q) ELSE sig[q]]
    BY <1>4, <2>2 DEF BuildSnapshot
  <2> QED BY <1>1, <1>4, <2>2, <2>3 DEF BuildSnapshot, NewSig
<1>5. CASE ~ApplyIncremental(w) /\ ~BuildSnapshot(w)
  BY <1>1, <1>2, <1>5, StoreFrame
<1> QED BY <1>3, <1>4, <1>5

LEMMA RefNext == ASSUME "boot" \notin ParseFails PROVE RInv /\ [Next]_vars => RInv'
<1> SUFFICES ASSUME RInv, [Next]_vars PROVE RInv'
  OBVIOUS
<1>1. TypeOK' /\ LockSound' /\ BootSound' /\ StatsBounded' /\ ScanSound' /\ VerSound'
  BY TypeNext, LockNext, StatsNext, ScanNext, VerNext DEF RInv, VerInv
<1>2. PassSound' /\ BootBlank' /\ SigShown'
  <2>1. CASE UserEdit \/ Schedule \/ UNCHANGED vars
    BY <2>1, OutsideFrame DEF RInv, PassSound, PassSoundAt, BootBlank, SigShown, index, scan
  <2>2. ASSUME NEW w \in Thread, Step(w) PROVE PassSound' /\ BootBlank' /\ SigShown'
    BY <2>2, PassStep, BootStep, SigStep DEF RInv
  <2> QED BY <2>1, <2>2 DEF Next
<1> QED BY <1>1, <1>2 DEF RInv

LEMMA RefInvariant == ASSUME "boot" \notin ParseFails PROVE Spec => []RInv
<1>1. Init => RInv
  BY TypeInit, LockInit, StatsInit, ScanInit, VerInit, RefInit DEF RInv
<1>2. RInv /\ [Next]_vars => RInv'
  BY RefNext
<1> QED BY <1>1, <1>2, PTL DEF Spec

-----------------------------------------------------------------------------
(* The refinement.                                                         *)

Readings == UNION {Seen(w) : w \in Thread}

\* A reading as FollowedIndex records it.
Reading(p, c, v) == [path |-> p, content |-> c, ver |-> IF c = Gone THEN 0 ELSE v]

LEMMA SeenRead ==
  ASSUME NEW w, NEW p \in Path, out[w][p] # "Unread"
  PROVE  Reading(p, got[w][p].content, got[w][p].ver) \in Seen(w)
BY DEF Seen, Reading

LEMMA SeenGone ==
  ASSUME NEW w, HasLooked(w), NEW p \in gone[w]
  PROVE  Reading(p, Gone, 0) \in Seen(w)
BY DEF Seen, Reading

\* What a thread has in hand after a step that installs nothing it had before,
\* or it is on disk now.
LEMMA LookAt ==
  ASSUME TypeOK, BootSound, BootBlank, NEW w \in Thread, Step(w),
         ~ApplyIncremental(w), ~BuildSnapshot(w), NEW p \in Path
  PROVE  /\ out'[w][p] # "Unread" =>
              \/ out[w][p] # "Unread" /\ got'[w][p] = got[w][p]
              \/ got'[w][p].content = disk[p].content /\ got'[w][p].ver = disk[p].ver
         /\ HasLooked(w)' /\ p \in gone'[w] =>
              \/ HasLooked(w) /\ p \in gone[w]
              \/ disk[p].content = Gone
<1> USE DEF shared, index, scan
<1>1. CASE Job(w)
  BY <1>1 DEF Job, StartJob, DrainPaths, FallBack, ResolvePaths, TypeOK, HasLooked
<1>2. CASE LockReload(w) \/ Crawl(w)
  BY <1>2 DEF LockReload, Crawl, TypeOK, HasLooked
<1>3. CASE Filter(w)
  BY <1>3 DEF Filter, Present, Exists, TypeOK
<1>4. CASE AliasScripts(w)
  <2>1. CASE Finish(w)
    BY <2>1 DEF Finish, TypeOK
  <2>2. CASE ~Finish(w)
    BY <1>4, <2>2 DEF AliasScripts, TypeOK, HasLooked
  <2> QED BY <2>1, <2>2
<1>5. CASE ScanStat(w) \/ ScanMeta(w) \/ RetryMeta(w)
  BY <1>5 DEF ScanStat, ScanMeta, RetryMeta, TypeOK, HasLooked
<1>6. CASE ScanRead(w)
  <2>1. out'[w][p] # "Unread" => p \in cand[w]
    BY <1>6 DEF ScanRead, TypeOK
  <2>2. p \in cand[w] => got'[w][p] = ReadNow(p)
    BY <1>6 DEF ScanRead, TypeOK
  <2> QED BY <1>6, <2>1, <2>2 DEF ScanRead, ReadNow, HasLooked
<1>7. CASE RetryRead(w)
  <2>1. p \notin Retried(w) => out'[w][p] = out[w][p] /\ got'[w][p] = got[w][p]
    BY <1>7 DEF RetryRead, TypeOK
  <2>2. p \in Retried(w) => got'[w][p] = [ReadNow(p) EXCEPT !.alias = got[w][p].alias]
    BY <1>7 DEF RetryRead, TypeOK
  <2> QED BY <1>7, <2>1, <2>2 DEF RetryRead, ReadNow, HasLooked
<1>8. CASE BootCrawl(w)
  <2>1. gone[w] = {}
    BY <1>8 DEF BootCrawl, BootSound, Booting, BootBlank
  <2> QED BY <1>8, <2>1 DEF BootCrawl
<1>9. CASE StartWatcher(w)
  BY <1>9 DEF StartWatcher, TypeOK, HasLooked
<1> QED BY <1>1, <1>2, <1>3, <1>4, <1>5, <1>6, <1>7, <1>8, <1>9 DEF Step, Reload, Scan, Boot

LEMMA OthersSeen ==
  ASSUME TypeOK, NEW w \in Thread, Step(w), NEW v \in Thread, v # w
  PROVE  Seen(v)' = Seen(v)
BY StepFrame DEF Seen, HasLooked

LEMMA Looks ==
  ASSUME RInv, NEW w \in Thread, Step(w), ~ApplyIncremental(w), ~BuildSnapshot(w)
  PROVE  Readings' \subseteq Readings \cup {Followed!Now(p) : p \in Path}
<1> USE DEF RInv
<1>1. SUFFICES ASSUME NEW v \in Thread, NEW r \in Seen(v)'
               PROVE  r \in Seen(v) \/ \E p \in Path : r = Followed!Now(p)
  BY DEF Readings
<1>2. CASE v # w
  BY <1>1, <1>2, OthersSeen
<1>3. CASE v = w
  <2>0. \A p \in Path : Followed!Now(p) = Reading(p, disk[p].content, disk[p].ver)
    BY DEF Followed!Now, Reading
  <2>1. \/ \E p \in Path : /\ out'[w][p] # "Unread"
                           /\ r = Reading(p, got'[w][p].content, got'[w][p].ver)
        \/ \E p \in gone'[w] : HasLooked(w)' /\ r = Reading(p, Gone, 0)
    BY <1>1, <1>3 DEF Seen, Reading
  <2>2. CASE \E p \in Path : /\ out'[w][p] # "Unread"
                             /\ r = Reading(p, got'[w][p].content, got'[w][p].ver)
    <3>1. PICK p \in Path : /\ out'[w][p] # "Unread"
                            /\ r = Reading(p, got'[w][p].content, got'[w][p].ver)
      BY <2>2
    <3>2. CASE out[w][p] # "Unread" /\ got'[w][p] = got[w][p]
      BY <1>3, <3>1, <3>2, SeenRead
    <3>3. CASE got'[w][p].content = disk[p].content /\ got'[w][p].ver = disk[p].ver
      BY <2>0, <3>1, <3>3
    <3> QED BY <3>1, <3>2, <3>3, LookAt
  <2>3. CASE \E p \in gone'[w] : HasLooked(w)' /\ r = Reading(p, Gone, 0)
    <3>1. PICK p \in gone'[w] : HasLooked(w)' /\ r = Reading(p, Gone, 0)
      BY <2>3
    <3>2. p \in Path
      BY <3>1, TypeNext DEF TypeOK, Next
    <3>3. CASE HasLooked(w) /\ p \in gone[w]
      BY <1>3, <3>1, <3>3, SeenGone
    <3>4. CASE disk[p].content = Gone
      <4>1. r = Reading(p, disk[p].content, disk[p].ver)
        BY <3>1, <3>4 DEF Reading
      <4> QED BY <2>0, <3>2, <4>1
    <3> QED BY <3>1, <3>2, <3>3, <3>4, LookAt
  <2> QED BY <2>1, <2>2, <2>3
<1> QED BY <1>2, <1>3

\* A thread that has installed its pass has nothing in hand.
LEMMA Forgotten ==
  ASSUME TypeOK, NEW w \in Thread, ApplyIncremental(w) \/ BuildSnapshot(w)
  PROVE  Readings' \subseteq Readings
<1>1. Step(w)
  BY DEF Step, Boot
<1>2. /\ pc'[w] \in {"idle", "done", "watch"}
      /\ \A p \in Path : out'[w][p] = "Unread"
  BY DEF ApplyIncremental, BuildSnapshot, Finish, TypeOK
<1>3. Seen(w)' = {}
  BY <1>2 DEF Seen, HasLooked
<1>4. \A v \in Thread : Seen(v)' \subseteq Seen(v)
  BY <1>1, <1>3, OthersSeen
<1> QED BY <1>4 DEF Readings

\* What the index shows and lists, as FollowedIndex sees it.
Shown == [p \in Path |-> [content |-> facts[p].content, ver |-> facts[p].ver]]

\* A pass shows a file as read, removes it, lists it or leaves it.
LEMMA ApplyInstalls ==
  ASSUME RInv, NEW w \in Thread, ApplyIncremental(w), NEW p \in Path
  PROVE  \/ Followed!Kept(p)
         \/ \E r \in Readings :
              r.path = p /\ (Followed!Taken(p, r) \/ Followed!Removed(p, r) \/ Followed!Rejected(p))
<1> USE DEF RInv
<1>0. pc[w] = "apply" /\ HasLooked(w)
  BY DEF ApplyIncremental, HasLooked
<1>1. /\ facts'[p] = IF p \in Changed(w) THEN got[w][p]
                     ELSE IF p \in gone[w] THEN [NoFact EXCEPT !.ver = facts[p].ver]
                     ELSE facts[p]
      /\ rejected'[p] = IF p \in cand[w] \cup gone[w] THEN PassReason(w, p) ELSE rejected[p]
  BY ApplyAt
<1>2. PassSoundAt(w, p) /\ OutSoundAt(w, p)
  BY DEF PassSound, ScanSound
<1>3. /\ p \in Listed' <=> rejected'[p] # "none"
      /\ p \in Listed <=> rejected[p] # "none"
  BY DEF Listed
<1>4. Seen(w) \subseteq Readings
  BY DEF Readings
<1>5. p \notin cand[w] => out[w][p] = "Unread"
  BY <1>0, <1>2 DEF OutSoundAt
<1>6. CASE p \in Indexed(w) /\ (p \in Changed(w) \/ p \notin gone[w])
  <2>1. p \in cand[w] /\ out[w][p] = "Ok"
    BY <1>6 DEF Indexed
  <2>2. got[w][p].content \in Plain \cup Oversized
    BY <1>0, <1>2, <2>1 DEF PassSoundAt, LatePc
  <2>3. got[w][p].content # Gone
    BY <2>2 DEF Content
  <2>4. facts[p].ver <= got[w][p].ver /\ facts[p].ver \in Nat /\ got[w][p].ver \in Nat
    BY <1>0, <2>1, VerTypes DEF VerSound
  <2>5. p \notin Listed'
    BY <1>1, <1>3, <2>1 DEF PassReason
  <2>6. \/ facts'[p] = got[w][p]
        \/ facts'[p] = facts[p] /\ facts[p].content = got[w][p].content
    <3>1. CASE p \in Changed(w)
      BY <1>1, <3>1
    <3>2. CASE p \notin Changed(w)
      <4>1. sig[p].content = got[w][p].content
        BY <1>6, <3>2 DEF Changed
      <4>2. facts[p].content = got[w][p].content
        BY <2>3, <4>1 DEF SigShown
      <4> QED BY <1>1, <1>6, <3>2, <4>2
    <3> QED BY <3>1, <3>2
  <2>7. Reading(p, got[w][p].content, got[w][p].ver) \in Readings
    BY <1>4, <2>1, SeenRead
  <2>8. PICK r \in Readings :
          r.path = p /\ r.content = got[w][p].content /\ r.ver = got[w][p].ver
    BY <2>3, <2>7 DEF Reading
  <2>9. Followed!Taken(p, r)
    BY <2>2, <2>4, <2>5, <2>6, <2>8 DEF Followed!Taken
  <2> QED BY <2>8, <2>9
<1>7. CASE p \in gone[w] /\ p \notin Changed(w)
  <2>1. p \in Listed' => Governor[p] # NoPath
    <3>1. p \notin cand[w] => p \notin Listed'
      BY <1>1, <1>3, <1>5, <1>7 DEF PassReason
    <3> QED BY <1>0, <1>2, <1>7, <3>1 DEF PassSoundAt, PassPc, LatePc
  <2>2. facts'[p].content = Gone /\ facts'[p].ver = facts[p].ver
    BY <1>1, <1>7 DEF NoFact
  <2>3. Reading(p, Gone, 0) \in Readings
    BY <1>0, <1>4, <1>7, SeenGone
  <2>4. PICK r \in Readings : r.path = p /\ r.content = Gone
    BY <2>3 DEF Reading
  <2>5. Followed!Removed(p, r)
    BY <2>1, <2>2, <2>4 DEF Followed!Removed
  <2> QED BY <2>4, <2>5
<1>8. CASE p \in cand[w] /\ p \notin Indexed(w) /\ p \notin gone[w]
  <2>1. out[w][p] \in {"Refused", "RefusedLate", "ReadError", "ParseFailed"}
    BY <1>0, <1>2, <1>8 DEF PassSoundAt, LatePc, Indexed, TypeOK, Outcome, Reason
  <2>2. p \in Listed'
    BY <1>1, <1>3, <1>8, <2>1 DEF PassReason
  <2>3. facts'[p] = facts[p]
    BY <1>1, <1>8 DEF Changed
  <2>4. Reading(p, got[w][p].content, got[w][p].ver) \in Readings
    BY <1>4, <2>1, SeenRead
  <2>5. PICK r \in Readings : r.path = p
    BY <2>4 DEF Reading
  <2>6. Followed!Rejected(p)
    BY <2>2, <2>3 DEF Followed!Rejected
  <2> QED BY <2>5, <2>6
<1>9. CASE p \notin cand[w] /\ p \notin gone[w]
  <2>1. facts'[p] = facts[p] /\ rejected'[p] = rejected[p]
    BY <1>1, <1>9 DEF Changed, Indexed
  <2> QED BY <1>3, <2>1 DEF Followed!Kept
<1>10. Changed(w) \subseteq Indexed(w) /\ Indexed(w) \subseteq cand[w]
  BY DEF Changed, Indexed
<1> QED BY <1>6, <1>7, <1>8, <1>9, <1>10

\* The boot scan shows a file as read, or lists it.
LEMMA BootInstalls ==
  ASSUME RInv, NEW w \in Thread, BuildSnapshot(w), NEW p \in Path
  PROVE  \/ Followed!Kept(p)
         \/ \E r \in Readings : r.path = p /\ (Followed!Taken(p, r) \/ Followed!Rejected(p))
<1> USE DEF RInv
<1>0. pc[w] = "apply" /\ w = Main /\ watcher = "off"
  BY DEF BuildSnapshot, Booting
<1>1. /\ facts'[p] = IF p \in Indexed(w) THEN got[w][p] ELSE NoFact
      /\ rejected'[p] = PassReason(w, p)
  BY DEF BuildSnapshot
<1>2. PassSoundAt(w, p) /\ OutSoundAt(w, p)
  BY DEF PassSound, ScanSound
<1>3. /\ p \in Listed' <=> rejected'[p] # "none"
      /\ p \in Listed <=> rejected[p] # "none"
  BY DEF Listed
<1>4. Seen(w) \subseteq Readings
  BY DEF Readings
<1>5. facts[p] = NoFact /\ rejected[p] = "none"
  BY <1>0 DEF BootBlank
<1>6. p \in cand[w] /\ out[w][p] # "Unread" =>
        \E r \in Readings : /\ r.path = p /\ r.content = got[w][p].content
                            /\ got[w][p].content # Gone => r.ver = got[w][p].ver
  <2>1. out[w][p] # "Unread" => Reading(p, got[w][p].content, got[w][p].ver) \in Readings
    BY <1>4, SeenRead
  <2> QED BY <2>1 DEF Reading
<1>7. CASE p \in Indexed(w)
  <2>1. p \in cand[w] /\ out[w][p] = "Ok"
    BY <1>7 DEF Indexed
  <2>2. got[w][p].content \in Plain \cup Oversized
    BY <1>0, <1>2, <2>1 DEF PassSoundAt, LatePc
  <2>3. got[w][p].content # Gone
    BY <2>2 DEF Content
  <2>4. PICK r \in Readings :
          r.path = p /\ r.content = got[w][p].content /\ r.ver = got[w][p].ver
    BY <1>6, <2>1, <2>3
  <2>5. facts[p].ver = 0 /\ got[w][p].ver \in Nat
    BY <1>5, VerTypes DEF NoFact
  <2>6. p \notin Listed' /\ facts'[p] = got[w][p]
    BY <1>1, <1>3, <1>7, <2>1 DEF PassReason
  <2>7. Followed!Taken(p, r)
    BY <2>2, <2>4, <2>5, <2>6 DEF Followed!Taken
  <2> QED BY <2>4, <2>7
<1>8. CASE p \in cand[w] /\ p \notin Indexed(w)
  <2>1. out[w][p] \in {"Refused", "RefusedLate", "ReadError", "ParseFailed"}
    BY <1>0, <1>2, <1>8 DEF PassSoundAt, LatePc, Indexed, TypeOK, Outcome, Reason
  <2>2. p \in Listed' /\ facts'[p] = facts[p]
    BY <1>1, <1>3, <1>5, <1>8, <2>1 DEF PassReason
  <2>3. PICK r \in Readings : r.path = p
    BY <1>6, <1>8, <2>1
  <2>4. Followed!Rejected(p)
    BY <2>2 DEF Followed!Rejected
  <2> QED BY <2>3, <2>4
<1>9. CASE p \notin cand[w]
  <2>1. out[w][p] = "Unread"
    BY <1>0, <1>2, <1>9 DEF OutSoundAt
  <2>2. facts'[p] = facts[p] /\ rejected'[p] = rejected[p]
    BY <1>1, <1>5, <1>9, <2>1 DEF PassReason, Indexed
  <2> QED BY <1>3, <2>2 DEF Followed!Kept
<1> QED BY <1>7, <1>8, <1>9

\* An edit of the disk is an edit of the files the index follows.
LEMMA EditFollowed ==
  ASSUME RInv, UserEdit
  PROVE  \E q \in Path : Followed!Edit(q)
<1> USE DEF RInv
<1>1. PICK q \in Path, c \in Content \cup {Gone}, s \in Nat : Edit(q, c, s)
  BY EditCases
<1>2. disk' = [disk EXCEPT ![q] = [content |-> c, stat |-> s, ver |-> edits + 1]]
  BY <1>1 DEF Edit
<1>3. /\ disk'[q].content = c /\ disk'[q].ver = edits + 1
      /\ \A p \in Path : p # q => disk'[p] = disk[p]
  BY <1>2 DEF TypeOK
<1>4. \A p \in Path : edits + 1 > disk[p].ver
  BY VerTypes DEF VerSound
<1>5. UNCHANGED <<Readings, Shown, Listed>>
  BY OutsideFrame DEF Readings, Seen, HasLooked, Shown, Listed, index, scan
<1>6. Followed!Edit(q)
  BY <1>3, <1>4, <1>5 DEF Followed!Edit, Readings, Shown
<1> QED BY <1>6

\* A step that leaves the disk alone and forgets readings installs them, if each
\* file is kept or has its reason.
LEMMA InstallStep ==
  ASSUME disk' = disk, Readings' \subseteq Readings,
         \A p \in Path :
           \/ Followed!Kept(p)
           \/ \E r \in Readings :
                r.path = p /\ (Followed!Taken(p, r) \/ Followed!Removed(p, r) \/ Followed!Rejected(p))
  PROVE  Followed!Install
<1>1. Listed' \subseteq Path
  BY DEF Listed
<1> QED BY <1>1 DEF Followed!Install, Readings

\* The snapshot, the rejected list and every pass of the indexer implement what
\* FollowedIndex promises: the index is made of readings really taken, an
\* update never shows a reading older than what it replaces, and no file of an
\* update is passed over in silence (build_snapshot_from_files, run_scan_pass,
\* apply_incremental).  A parse that fails at boot is the exception: its
\* signature is stored without facts.
THEOREM IndexerFollowsFiles == ASSUME "boot" \notin ParseFails PROVE Spec => FollowsFiles
<1>1. Init => Followed!Init
  <2> SUFFICES ASSUME Init PROVE Followed!Init
    OBVIOUS
  <2>1. \A p \in Path : disk[p].content \in Plain \cup {Gone} /\ disk[p].ver = 0
    BY DEF Init, NoFile
  <2>2. \A w \in Thread : Seen(w) = {}
    BY DEF Init, Seen, HasLooked
  <2>3. \A p \in Path : facts[p].content = Gone /\ facts[p].ver = 0 /\ rejected[p] = "none"
    BY DEF Init, NoFact
  <2> QED BY <2>1, <2>2, <2>3 DEF Followed!Init, Listed
<1>2. RInv /\ [Next]_vars => [Followed!Next]_Followed!vars
  <2> SUFFICES ASSUME RInv, [Next]_vars PROVE [Followed!Next]_Followed!vars
    OBVIOUS
  <2>1. CASE UserEdit
    BY <2>1, EditFollowed DEF Followed!Next
  <2>2. CASE Schedule \/ UNCHANGED vars
    <3>1. disk' = disk
      BY <2>2 DEF Schedule, AppendPaths, SwapFlag, vars
    <3>2. UNCHANGED <<Readings, Shown, Listed>>
      BY <2>2, OutsideFrame DEF Readings, Seen, HasLooked, Shown, Listed, index, scan
    <3> QED BY <3>1, <3>2 DEF Followed!vars, Readings, Shown
  <2>3. ASSUME NEW w \in Thread, Step(w) PROVE Followed!Next
    <3>1. disk' = disk
      BY <2>3, StepDisk
    <3>2. CASE ApplyIncremental(w) \/ BuildSnapshot(w)
      <4>1. Readings' \subseteq Readings
        BY <3>2, Forgotten DEF RInv
      <4>2. ASSUME NEW p \in Path
            PROVE  \/ Followed!Kept(p)
                   \/ \E r \in Readings :
                        /\ r.path = p
                        /\ Followed!Taken(p, r) \/ Followed!Removed(p, r) \/ Followed!Rejected(p)
        BY <3>2, ApplyInstalls, BootInstalls
      <4>3. Followed!Install
        BY <3>1, <4>1, <4>2, InstallStep
      <4> QED BY <4>3 DEF Followed!Next
    <3>3. CASE ~ApplyIncremental(w) /\ ~BuildSnapshot(w)
      <4>1. Readings' \subseteq Readings \cup {Followed!Now(p) : p \in Path}
        BY <2>3, <3>3, Looks
      <4>2. UNCHANGED <<facts, Listed>>
        BY <2>3, <3>3, StoreFrame DEF Listed
      <4> QED BY <3>1, <4>1, <4>2 DEF Followed!Next, Followed!Look, Readings
    <3> QED BY <3>2, <3>3
  <2> QED BY <2>1, <2>2, <2>3 DEF Next
<1> QED BY <1>1, <1>2, RefInvariant, PTL DEF Spec, FollowsFiles, Followed!Spec

-----------------------------------------------------------------------------
(* RestIsHonest, for the files no alias config governs.  Nothing at rest    *)
(* can be derived from one pass: a file is left as it is because an earlier *)
(* pass stored its stat.  MatchSound says what that stat then stands for;   *)
(* FreshSound, what a pass has read of a file whose stored stat still       *)
(* matches; HonestPass and HonestOwned, that every file is as it should be, *)
(* or in the hands of a pass that has it as it is, or still due.            *)

Free == {p \in Path : Governor[p] = NoPath}

\* What RestIsHonest promises of one file.
HonestAt(p) ==
  /\ Current(p) \/ p \in Listed
  /\ p \in Listed => /\ Exists(p) /\ rejected[p] # "ReadError"
                     /\ rejected[p] = "Refused" => disk[p].content \notin Plain

\* A file without an alias config is shown exactly as long as it is tracked.
FreeShown ==
  \A p \in Free :
    /\ facts[p].alias = Gone /\ \A w \in Thread : got[w][p].alias = Gone
    /\ facts[p].content # Gone => sig[p].content # Gone

\* The stored stat still matches: the file, which exists, need not be read.
Stored(p) == Exists(p) /\ (UnchangedFast(p) \/ RejectionUnchanged(p))

\* A signature stands for a file that can be indexed, a remembered refusal for
\* one that is listed.
MatchSound ==
  \A p \in Free : Exists(p) =>
    /\ UnchangedFast(p) => disk[p].content \in Plain /\ rejected[p] \in {"none", "ParseFailed"}
    /\ RejectionUnchanged(p) => rejected[p] = "Refused"

\* Metadata whose stat still matches is what is on disk, and a file that is
\* accepted was not too large; a pass has the truth of a file that it reads
\* although the stored stat matches.
FreshSoundAt(w, p) ==
  p \in cand[w] =>
    /\ pc[w] \in {"read"} \cup LatePc =>
         /\ meta[w][p].content # Gone /\ Match(p, meta[w][p].stat)
              => meta[w][p].content = disk[p].content
         /\ Stored(p) => meta[w][p].content = disk[p].content
    /\ pc[w] \in LatePc =>
         /\ out[w][p] = "Ok" => meta[w][p].content \notin Oversized
         /\ Stored(p) => out[w][p] \in IF disk[p].content \in Plain THEN {"Ok", "ParseFailed"}
                                       ELSE {"Refused"}
FreshSound == \A w \in Thread, p \in Free : FreshSoundAt(w, p)

\* Somebody will look at p as it is now.
Awaited(p) ==
  \/ p \in events \cup pending
  \/ \E w \in Thread :
       \/ pc[w] = "resolve" /\ p \in todo[w]
       \/ pc[w] \in {"fullLock", "crawl"}
       \/ pc[w] = "pathsLock" /\ (p \in gone[w] \/ (p \in todo[w] /\ Exists(p)))

\* What a pass has read of p so far is what is on disk.
Carries(w, p) ==
  \/ p \in gone[w] /\ ~Exists(p)
  \/ /\ p \in cand[w] /\ Exists(p)
     /\ pc[w] = "read" => meta[w][p].content = disk[p].content
     /\ pc[w] = "retryRead" /\ out[w][p] = "ParseFailed" => meta[w][p].content = disk[p].content
     /\ pc[w] \in LatePc =>
          /\ out[w][p] # "ReadError"
          /\ out[w][p] = "Ok" => disk[p].content \in Plain /\ got[w][p].content = disk[p].content
          /\ out[w][p] \in {"Refused", "RefusedLate"} => disk[p].content \notin Plain

HonestPass ==
  watcher = "on" =>
    \A w \in Thread, p \in Free :
      pc[w] \in PassPc /\ p \in cand[w] \cup gone[w] => Awaited(p) \/ Carries(w, p)

\* A pass will settle p: it has it, or its filter will decide.
Settles(w, p) ==
  \/ pc[w] = "filter" /\ (p \in gone[w] \/ (p \in todo[w] /\ Exists(p)))
  \/ pc[w] \in PassPc /\ Carries(w, p)

HonestOwned ==
  watcher = "on" => \A p \in Free : Awaited(p) \/ HonestAt(p) \/ \E w \in Thread : Settles(w, p)

HonestInv == RInv /\ GoneOwned /\ StatSound
             /\ FreeShown /\ MatchSound /\ FreshSound /\ HonestPass /\ HonestOwned

-----------------------------------------------------------------------------
(* What the steps of a pass do to one file.                                *)

LEMMA ScanReadAt ==
  ASSUME TypeOK, NEW w \in Thread, ScanRead(w), NEW p \in cand[w]
  PROVE  /\ got'[w][p] = ReadNow(p)
         /\ \/ out'[w][p] = Verdict(meta[w][p], disk[p].content)
            \/ out'[w][p] = "ParseFailed" /\ Verdict(meta[w][p], disk[p].content) = "Ok"
<1>1. p \in Path
  BY DEF TypeOK
<1>2. got'[w][p] = ReadNow(p)
  BY <1>1 DEF ScanRead, TypeOK
<1>3. PICK failed \in MayFail(w, {q \in cand[w] : Verdict(meta[w][q], disk[q].content) = "Ok"}) :
        out' = [out EXCEPT ![w] =
          [q \in Path |-> IF q \notin cand[w] THEN "Unread"
                          ELSE IF q \in failed THEN "ParseFailed"
                          ELSE Verdict(meta[w][q], disk[q].content)]]
  BY DEF ScanRead
<1>4. out'[w][p] = IF p \in failed THEN "ParseFailed" ELSE Verdict(meta[w][p], disk[p].content)
  BY <1>1, <1>3 DEF TypeOK
<1>5. p \in failed => Verdict(meta[w][p], disk[p].content) = "Ok"
  BY <1>3 DEF MayFail
<1> QED BY <1>2, <1>4, <1>5

LEMMA RetryReadAt ==
  ASSUME TypeOK, NEW w \in Thread, RetryRead(w), NEW p \in Path
  PROVE  /\ p \notin Retried(w) => out'[w][p] = out[w][p] /\ got'[w][p] = got[w][p]
         /\ p \in Retried(w) =>
              /\ got'[w][p] = [ReadNow(p) EXCEPT !.alias = got[w][p].alias]
              /\ \/ out'[w][p] = "ParseFailed" /\ Verdict(meta[w][p], disk[p].content) = "Ok"
                 \/ out'[w][p] = "RefusedLate" /\ Verdict(meta[w][p], disk[p].content) = "Refused"
                 \/ out'[w][p] = Verdict(meta[w][p], disk[p].content) /\ out'[w][p] # "Refused"
<1>1. PICK failed \in SUBSET {q \in Retried(w) : Verdict(meta[w][q], disk[q].content) = "Ok"} :
        out' = [out EXCEPT ![w] =
          [q \in Path |->
             IF q \notin Retried(w) \/ q \in failed THEN out[w][q]
             ELSE IF Verdict(meta[w][q], disk[q].content) = "Refused" THEN "RefusedLate"
             ELSE Verdict(meta[w][q], disk[q].content)]]
  BY DEF RetryRead
<1>2. out'[w][p] = IF p \notin Retried(w) \/ p \in failed THEN out[w][p]
                   ELSE IF Verdict(meta[w][p], disk[p].content) = "Refused" THEN "RefusedLate"
                   ELSE Verdict(meta[w][p], disk[p].content)
  BY <1>1 DEF TypeOK
<1>3. /\ p \in failed => Verdict(meta[w][p], disk[p].content) = "Ok"
      /\ p \in Retried(w) => out[w][p] = "ParseFailed"
  BY <1>1 DEF Retried
<1>4. got'[w][p] = IF p \in Retried(w) THEN [ReadNow(p) EXCEPT !.alias = got[w][p].alias]
                   ELSE got[w][p]
  BY DEF RetryRead, TypeOK
<1> QED BY <1>2, <1>3, <1>4

LEMMA RetryMetaAt ==
  ASSUME TypeOK, NEW w \in Thread, RetryMeta(w), NEW p \in Path
  PROVE  meta'[w][p] = IF p \in Retried(w) THEN disk[p] ELSE meta[w][p]
BY DEF RetryMeta, TypeOK

\* process_file on a file that the metadata and the bytes agree about.
LEMMA VerdictTrue ==
  ASSUME TypeOK, NEW w \in Thread, NEW p \in Path, Exists(p)
  PROVE  /\ Verdict(meta[w][p], disk[p].content) = "Ok" =>
              meta[w][p].content \notin Oversized /\ disk[p].content \notin Guarded
         /\ meta[w][p].content = disk[p].content =>
              Verdict(meta[w][p], disk[p].content) =
                IF disk[p].content \in Plain THEN "Ok" ELSE "Refused"
<1>1. disk[p].content \in Content /\ meta[w][p].content \in Content \cup {Gone}
  BY DEF TypeOK, File, Exists
<1>2. disk[p].content # Gone
  BY DEF Exists
<1> QED BY <1>1, <1>2 DEF Verdict, Content

-----------------------------------------------------------------------------
(* The users and the watcher thread.                                       *)

LEMMA HonestInit == Init => FreeShown /\ MatchSound /\ FreshSound /\ HonestPass /\ HonestOwned
<1> SUFFICES ASSUME Init
             PROVE  FreeShown /\ MatchSound /\ FreshSound /\ HonestPass /\ HonestOwned
  OBVIOUS
<1>1. FreeShown
  BY DEF Init, FreeShown, NoFact, Free
<1>2. MatchSound
  BY DEF Init, MatchSound, UnchangedFast, RejectionUnchanged, Tracked, NoSig, Free
<1>3. FreshSound
  BY DEF Init, FreshSound, FreshSoundAt, Free
<1>4. HonestPass /\ HonestOwned
  BY DEF Init, HonestPass, HonestOwned
<1> QED BY <1>1, <1>2, <1>3, <1>4

\* An edit of one file says nothing of another.
LEMMA OtherFile ==
  ASSUME NEW p \in Free, disk'[p] = disk[p], UNCHANGED <<pc, watcher, index, scan>>
  PROVE  /\ Exists(p)' = Exists(p) /\ UnchangedFast(p)' = UnchangedFast(p)
         /\ RejectionUnchanged(p)' = RejectionUnchanged(p) /\ Stored(p)' = Stored(p)
         /\ HonestAt(p)' = HonestAt(p)
         /\ \A w \in Thread : /\ Carries(w, p)' = Carries(w, p)
                              /\ Settles(w, p)' = Settles(w, p)
                              /\ FreshSoundAt(w, p)' = FreshSoundAt(w, p)
<1> USE DEF index, scan
<1>1. /\ Exists(p)' = Exists(p) /\ UnchangedFast(p)' = UnchangedFast(p)
      /\ RejectionUnchanged(p)' = RejectionUnchanged(p)
  BY DEF Exists, UnchangedFast, RejectionUnchanged, Tracked
<1>2. Stored(p)' = Stored(p)
  BY <1>1 DEF Stored
<1>3. HonestAt(p)' = HonestAt(p)
  <2>1. Current(p)' = Current(p)
    BY DEF Current, Rebuilt, AliasOf, Free
  <2>2. (p \in Listed)' = (p \in Listed)
    BY DEF Listed, Free
  <2> QED BY <1>1, <2>1, <2>2 DEF HonestAt
<1>4. ASSUME NEW w \in Thread
      PROVE  /\ Carries(w, p)' = Carries(w, p) /\ Settles(w, p)' = Settles(w, p)
             /\ FreshSoundAt(w, p)' = FreshSoundAt(w, p)
  <2>1. Carries(w, p)' = Carries(w, p)
    BY <1>1 DEF Carries
  <2>2. Settles(w, p)' = Settles(w, p)
    BY <1>1, <2>1 DEF Settles
  <2>3. FreshSoundAt(w, p)' = FreshSoundAt(w, p)
    BY <1>1, <1>2 DEF FreshSoundAt, Match
  <2> QED BY <2>1, <2>2, <2>3
<1> QED BY <1>1, <1>2, <1>3, <1>4

\* An edit moves the stat, or removes the file, or brings back one of which
\* nothing is remembered; and it is reported.
LEMMA HonestEdit ==
  ASSUME HonestInv, UserEdit
  PROVE  FreeShown' /\ MatchSound' /\ FreshSound' /\ HonestPass' /\ HonestOwned'
<1> USE DEF HonestInv, RInv
<1>1. PICK q \in Path, c \in Content \cup {Gone}, s \in Nat :
        /\ Edit(q, c, s)
        /\ \/ s = edits + 1
           \/ c = Gone
           \/ ~Exists(q) /\ Idle
  BY EditCases
<1>2. /\ disk' = [disk EXCEPT ![q] = [content |-> c, stat |-> s, ver |-> edits + 1]]
      /\ UNCHANGED <<pending, watcher, pc, index, scan>>
      /\ watcher = "on" => events' = events \cup {q}
      /\ events \subseteq events'
  BY <1>1 DEF Edit, Notify, shared
<1>3. FreeShown'
  BY <1>2 DEF FreeShown, index, scan
<1>4. ASSUME NEW p \in Free
      PROVE  /\ (Exists(p) =>
                   /\ UnchangedFast(p) => disk[p].content \in Plain /\ rejected[p] \in {"none", "ParseFailed"}
                   /\ RejectionUnchanged(p) => rejected[p] = "Refused")'
             /\ \A w \in Thread : FreshSoundAt(w, p)'
  <2>0. p \in Path
    BY DEF Free
  <2>1. CASE p # q
    <3>1. disk'[p] = disk[p]
      BY <1>2, <2>0, <2>1 DEF TypeOK
    <3> QED BY <1>2, <3>1, OtherFile DEF MatchSound, FreshSound, index
  <2>2. CASE p = q
    <3>1. disk'[p] = [content |-> c, stat |-> s, ver |-> edits + 1]
      BY <1>2, <2>0, <2>2 DEF TypeOK
    <3>6. ASSUME ~Stored(p)', NEW w \in Thread, ~Match(p, meta[w][p].stat)'
          PROVE  FreshSoundAt(w, p)'
      BY <1>2, <3>6 DEF FreshSound, FreshSoundAt, scan
    <3>2. CASE c = Gone
      BY <3>1, <3>2, <3>6 DEF Exists, Stored, Match
    <3>3. CASE s = edits + 1
      <4>1. /\ edits \in Nat /\ sig[p].stat \in Nat /\ sig[p].stat <= edits
            /\ memo[p] \subseteq Nat /\ \A t \in memo[p] : t <= edits
            /\ \A w \in Thread : meta[w][p].stat \in Nat /\ meta[w][p].stat <= edits
        BY <2>0 DEF TypeOK, StatsBounded, Signature, File
      <4>2. s # sig[p].stat /\ s \notin memo[p] /\ \A w \in Thread : s # meta[w][p].stat
        BY <3>3, <4>1
      <4>3. ~UnchangedFast(p)' /\ ~RejectionUnchanged(p)'
        BY <1>2, <3>1, <4>2 DEF UnchangedFast, RejectionUnchanged, index
      <4>4. \A w \in Thread : ~Match(p, meta[w][p].stat)'
        BY <1>2, <3>1, <4>2 DEF Match, scan
      <4> QED BY <3>6, <4>3, <4>4 DEF Stored
    <3>4. CASE ~Exists(q) /\ Idle
      <4>1. p \notin Tracked' /\ memo'[p] = {}
        BY <1>2, <2>0, <2>2, <3>4, ForgottenWhenIdle DEF Tracked, index
      <4>2. ~UnchangedFast(p)' /\ ~RejectionUnchanged(p)'
        BY <4>1 DEF UnchangedFast, RejectionUnchanged
      <4>3. \A w \in Thread : pc'[w] \in {"idle", "done"}
        BY <1>2, <3>4 DEF Idle
      <4> QED BY <4>2, <4>3 DEF FreshSoundAt, LatePc
    <3> QED BY <1>1, <3>2, <3>3, <3>4
  <2> QED BY <2>1, <2>2
<1>5. ASSUME watcher = "on", NEW p \in Free
      PROVE  \/ Awaited(p)'
             \/ /\ HonestAt(p)' = HonestAt(p) /\ (Awaited(p) => Awaited(p)')
                /\ \A w \in Thread : Carries(w, p)' = Carries(w, p) /\ Settles(w, p)' = Settles(w, p)
  <2>0. p \in Path
    BY DEF Free
  <2>1. CASE p = q
    BY <1>2, <1>5, <2>1 DEF Awaited
  <2>2. CASE p # q
    <3>1. disk'[p] = disk[p]
      BY <1>2, <2>0, <2>2 DEF TypeOK
    <3>2. Exists(p)' = Exists(p)
      BY <3>1 DEF Exists
    <3>3. Awaited(p) => Awaited(p)'
      BY <1>2, <3>2 DEF Awaited, scan
    <3> QED BY <1>2, <3>1, <3>3, OtherFile
  <2> QED BY <2>1, <2>2
<1>6. HonestPass'
  BY <1>2, <1>5 DEF HonestPass, scan
<1>7. HonestOwned'
  BY <1>2, <1>5 DEF HonestOwned
<1>8. MatchSound' /\ FreshSound'
  BY <1>4 DEF MatchSound, FreshSound
<1> QED BY <1>3, <1>6, <1>7, <1>8

\* The watcher thread hands an event on.
LEMMA HonestSchedule ==
  ASSUME HonestInv, Schedule \/ UNCHANGED vars
  PROVE  FreeShown' /\ MatchSound' /\ FreshSound' /\ HonestPass' /\ HonestOwned'
<1> USE DEF HonestInv, RInv
<1>1. /\ disk' = disk /\ UNCHANGED <<pc, watcher, index, scan>>
      /\ events \cup pending \subseteq events' \cup pending'
  BY OutsideFrame DEF Schedule, AppendPaths, SwapFlag, vars, shared
<1>2. FreeShown'
  BY <1>1 DEF FreeShown, index, scan
<1>3. ASSUME NEW p \in Free PROVE Awaited(p) => Awaited(p)'
  <2>1. Exists(p)' = Exists(p)
    BY <1>1 DEF Exists
  <2> QED BY <1>1, <2>1 DEF Awaited, scan
<1>4. MatchSound' /\ FreshSound'
  BY <1>1, OtherFile DEF MatchSound, FreshSound, index
<1>5. HonestPass' /\ HonestOwned'
  BY <1>1, <1>3, OtherFile DEF HonestPass, HonestOwned, scan
<1> QED BY <1>2, <1>4, <1>5

-----------------------------------------------------------------------------
(* What is stored of a file.                                               *)

\* Only a step of the scan takes a thread into the scan's later places.
LEMMA ScanEnters ==
  ASSUME TypeOK, NEW w \in Thread, Step(w), pc'[w] \in {"read"} \cup LatePc
  PROVE  Scan(w)
<1>1. CASE Job(w)
  BY <1>1 DEF Job, StartJob, DrainPaths, FallBack, ResolvePaths, TypeOK, LatePc
<1>2. CASE Reload(w)
  <2>1. CASE AliasScripts(w)
    BY <2>1 DEF AliasScripts, Finish, TypeOK, LatePc
  <2> QED BY <1>2, <2>1 DEF Reload, LockReload, Crawl, Filter, TypeOK, LatePc
<1>3. CASE ApplyIncremental(w) \/ Boot(w)
  BY <1>3 DEF ApplyIncremental, Finish, Boot, BootCrawl, BuildSnapshot, StartWatcher, TypeOK, LatePc
<1> QED BY <1>1, <1>2, <1>3 DEF Step

\* The memo only moves with a crawl, which forgets absent files, or a pass.
LEMMA MemoFrame ==
  ASSUME TypeOK, NEW w \in Thread, Step(w), ~ApplyIncremental(w), ~BuildSnapshot(w), NEW p \in Path
  PROVE  /\ Exists(p) => memo'[p] = memo[p]
         /\ pc[w] \notin Holding \/ Scan(w) => memo' = memo
<1>1. CASE Crawl(w)
  BY <1>1 DEF Crawl, Holding, Scan, ScanStat, ScanMeta, ScanRead, RetryMeta, RetryRead
<1>2. CASE ~Crawl(w)
  BY <1>2 DEF Step, Job, StartJob, DrainPaths, FallBack, ResolvePaths,
              Reload, LockReload, Filter, AliasScripts,
              Scan, ScanStat, ScanMeta, ScanRead, RetryMeta, RetryRead,
              Boot, BootCrawl, StartWatcher, shared, index, scan
<1> QED BY <1>1, <1>2

\* A pass never both deletes and reads a file without an alias config.
LEMMA FreeApart ==
  ASSUME PassSound, NEW w \in Thread, pc[w] \in PassPc, NEW p \in Free
  PROVE  ~(p \in cand[w] /\ p \in gone[w])
BY DEF PassSound, PassSoundAt, Free

LEMMA GotAlias ==
  ASSUME TypeOK, NEW w \in Thread, Step(w), NEW p \in Free, got[w][p].alias = Gone
  PROVE  got'[w][p].alias = Gone
<1> USE DEF shared, index, scan
<1>0. p \in Path /\ AliasOf(p) = Gone
  BY DEF Free, AliasOf
<1>1. CASE ScanRead(w)
  <2>1. ASSUME p \in cand[w] PROVE got'[w][p].alias = Gone
    <3>1. got'[w][p] = ReadNow(p)
      BY <1>1, <2>1, ScanReadAt
    <3> QED BY <1>0, <3>1 DEF ReadNow
  <2>2. p \notin cand[w] => got'[w][p] = NoFact
    BY <1>0, <1>1 DEF ScanRead, TypeOK
  <2> QED BY <2>1, <2>2 DEF NoFact
<1>2. CASE RetryRead(w)
  <2>1. \/ got'[w][p] = got[w][p]
        \/ got'[w][p] = [ReadNow(p) EXCEPT !.alias = got[w][p].alias]
    BY <1>0, <1>2, RetryReadAt
  <2> QED BY <2>1 DEF ReadNow
<1>3. CASE ApplyIncremental(w) \/ BuildSnapshot(w)
  BY <1>0, <1>3 DEF ApplyIncremental, BuildSnapshot, Finish, NoFact, TypeOK
<1>4. CASE AliasScripts(w)
  <2>1. CASE Finish(w)
    BY <1>0, <2>1 DEF Finish, NoFact, TypeOK
  <2>2. CASE ~Finish(w)
    BY <1>4, <2>2 DEF AliasScripts
  <2> QED BY <2>1, <2>2
<1>5. CASE ~(ScanRead(w) \/ RetryRead(w) \/ ApplyIncremental(w) \/ BuildSnapshot(w) \/ AliasScripts(w))
  <2>1. got' = got
    BY <1>5 DEF Step, Job, StartJob, DrainPaths, FallBack, ResolvePaths,
              Reload, LockReload, Crawl, Filter,
              Scan, ScanStat, ScanMeta, RetryMeta, Boot, BootCrawl, StartWatcher
  <2> QED BY <2>1
<1> QED BY <1>1, <1>2, <1>3, <1>4, <1>5

LEMMA FreeShownStep ==
  ASSUME HonestInv, NEW w \in Thread, Step(w)
  PROVE  FreeShown'
<1> USE DEF HonestInv, RInv
<1> SUFFICES ASSUME NEW p \in Free
             PROVE  /\ facts'[p].alias = Gone
                    /\ \A v \in Thread : got'[v][p].alias = Gone
                    /\ facts'[p].content # Gone => sig'[p].content # Gone
  BY DEF FreeShown
<1>0. p \in Path
  BY DEF Free
<1>1. /\ facts[p].alias = Gone /\ \A v \in Thread : got[v][p].alias = Gone
      /\ facts[p].content # Gone => sig[p].content # Gone
  BY DEF FreeShown
<1>2. ASSUME NEW v \in Thread PROVE got'[v][p].alias = Gone
  BY <1>1, GotAlias, StepFrame
<1>3. pc[w] = "apply" /\ p \in Indexed(w) => got[w][p].content # Gone
  <2>1. pc[w] = "apply" /\ p \in Indexed(w) => got[w][p].content \in Plain \cup Oversized
    BY <1>0 DEF PassSound, PassSoundAt, LatePc, Indexed
  <2> QED BY <2>1 DEF Content
<1>4. CASE ApplyIncremental(w)
  <2>1. pc[w] = "apply"
    BY <1>4 DEF ApplyIncremental
  <2>2. /\ sig'[p] = IF p \in gone[w] THEN NoSig
                     ELSE IF p \in Indexed(w) THEN NewSig(w, p) ELSE sig[p]
        /\ facts'[p] = IF p \in Changed(w) THEN got[w][p]
                       ELSE IF p \in gone[w] THEN [NoFact EXCEPT !.ver = facts[p].ver]
                       ELSE facts[p]
    BY <1>0, <1>4, ApplyAt
  <2>3. p \in Changed(w) => p \in Indexed(w) /\ p \notin gone[w]
    BY <2>1, FreeApart DEF Changed, Indexed, PassPc, LatePc
  <2> QED BY <1>1, <1>2, <1>3, <2>1, <2>2, <2>3 DEF NewSig, NoFact
<1>5. CASE BuildSnapshot(w)
  <2>1. /\ pc[w] = "apply"
        /\ facts'[p] = IF p \in Indexed(w) THEN got[w][p] ELSE NoFact
        /\ p \in Indexed(w) => sig'[p] = NewSig(w, p)
    BY <1>0, <1>5 DEF BuildSnapshot
  <2> QED BY <1>1, <1>2, <1>3, <2>1 DEF NewSig, NoFact
<1>6. CASE ~ApplyIncremental(w) /\ ~BuildSnapshot(w)
  BY <1>1, <1>2, <1>6, StoreFrame
<1> QED BY <1>4, <1>5, <1>6

\* A pass stores a stat for a file that it indexed, unedited since, or refused.
LEMMA MatchStep ==
  ASSUME HonestInv, NEW w \in Thread, Step(w), NEW p \in Free, Exists(p)
  PROVE  /\ UnchangedFast(p)' => disk[p].content \in Plain /\ rejected'[p] \in {"none", "ParseFailed"}
         /\ RejectionUnchanged(p)' => rejected'[p] = "Refused"
<1> USE DEF HonestInv, RInv
<1>0. p \in Path /\ disk' = disk
  BY StepDisk DEF Free
<1>1. /\ UnchangedFast(p) => disk[p].content \in Plain /\ rejected[p] \in {"none", "ParseFailed"}
      /\ RejectionUnchanged(p) => rejected[p] = "Refused"
      /\ RejectionUnchanged(p) => disk[p].content \notin Plain
  BY <1>0 DEF MatchSound, StatSound, Present
<1>2. CASE ~ApplyIncremental(w) /\ ~BuildSnapshot(w)
  <2>1. sig' = sig /\ rejected' = rejected /\ memo'[p] = memo[p]
    BY <1>0, <1>2, StoreFrame, MemoFrame
  <2> QED BY <1>0, <1>1, <2>1 DEF UnchangedFast, RejectionUnchanged, Tracked
<1>3. ASSUME pc[w] = "apply", p \in Indexed(w), NewSig(w, p).stat = disk[p].stat
      PROVE  disk[p].content \in Plain
  <2>1. /\ p \in cand[w] /\ out[w][p] = "Ok"
        /\ FreshSoundAt(w, p) /\ PassSoundAt(w, p) /\ OutSoundAt(w, p)
    BY <1>0, <1>3 DEF Indexed, FreshSound, PassSound, ScanSound
  <2>2. Match(p, meta[w][p].stat) /\ meta[w][p].content # Gone
    BY <1>3, <2>1 DEF Match, NewSig, OutSoundAt
  <2>3. meta[w][p].content = disk[p].content /\ meta[w][p].content \notin Oversized
    BY <1>3, <2>1, <2>2 DEF FreshSoundAt, LatePc
  <2>4. disk[p].content = got[w][p].content
    BY <1>0, <1>3, NewSigSound DEF NewSig
  <2> QED BY <1>3, <2>1, <2>3, <2>4 DEF PassSoundAt, LatePc
<1>4. CASE ApplyIncremental(w)
  <2>1. /\ pc[w] = "apply"
        /\ sig'[p] = IF p \in gone[w] THEN NoSig
                     ELSE IF p \in Indexed(w) THEN NewSig(w, p) ELSE sig[p]
        /\ rejected'[p] = IF p \in cand[w] \cup gone[w] THEN PassReason(w, p) ELSE rejected[p]
        /\ memo'[p] = IF p \in gone[w] \cup Indexed(w) THEN {} ELSE NotedMemo(w, p)
    BY <1>0, <1>4, ApplyAt DEF ApplyIncremental
  <2>2. FreshSoundAt(w, p) /\ OutSoundAt(w, p)
    BY <1>0 DEF FreshSound, ScanSound
  <2>3. CASE p \in gone[w]
    BY <2>1, <2>3 DEF UnchangedFast, RejectionUnchanged, Tracked, NoSig
  <2>4. CASE p \notin gone[w] /\ p \in Indexed(w)
    <3>1. rejected'[p] = "none" /\ memo'[p] = {}
      BY <2>1, <2>4 DEF Indexed, PassReason
    <3>2. UnchangedFast(p)' => disk[p].content \in Plain
      BY <1>0, <1>3, <2>1, <2>4 DEF UnchangedFast
    <3> QED BY <3>1, <3>2 DEF RejectionUnchanged
  <2>5. CASE p \notin gone[w] /\ p \in cand[w] /\ p \notin Indexed(w)
    <3>1. sig'[p] = sig[p] /\ rejected'[p] = PassReason(w, p) /\ memo'[p] = NotedMemo(w, p)
      BY <2>1, <2>5
    <3>2. UnchangedFast(p)' => UnchangedFast(p)
      BY <1>0, <3>1 DEF UnchangedFast, Tracked
    <3>3. UnchangedFast(p) => out[w][p] \in {"Ok", "ParseFailed"}
      BY <1>1, <2>1, <2>2, <2>5 DEF FreshSoundAt, LatePc, Stored
    <3>4. RejectionUnchanged(p) => out[w][p] = "Refused"
      BY <1>1, <2>1, <2>2, <2>5 DEF FreshSoundAt, LatePc, Stored
    <3>5. RejectionUnchanged(p)' => out[w][p] = "Refused"
      BY <1>0, <3>1, <3>4 DEF RejectionUnchanged, NotedMemo
    <3> QED BY <1>1, <3>1, <3>2, <3>3, <3>5 DEF PassReason
  <2>6. CASE p \notin gone[w] /\ p \notin cand[w]
    <3>1. out[w][p] = "Unread" /\ p \notin Indexed(w)
      BY <2>1, <2>2, <2>6 DEF OutSoundAt, Indexed
    <3>2. sig'[p] = sig[p] /\ rejected'[p] = rejected[p] /\ memo'[p] = memo[p]
      BY <2>1, <2>6, <3>1 DEF NotedMemo
    <3> QED BY <1>0, <1>1, <3>2 DEF UnchangedFast, RejectionUnchanged, Tracked
  <2> QED BY <2>3, <2>4, <2>5, <2>6
<1>5. CASE BuildSnapshot(w)
  <2>1. pc[w] = "apply" /\ w = Main /\ watcher = "off"
    BY <1>5 DEF BuildSnapshot, Booting
  <2>2. /\ sig[p].content = Gone /\ rejected[p] = "none"
        /\ Failed(w) = {}
    BY <1>0, <2>1 DEF BootBlank, Failed, TypeOK
  <2>3. /\ sig'[p] = IF p \in Indexed(w) THEN NewSig(w, p) ELSE sig[p]
        /\ memo'[p] = IF p \in Indexed(w) THEN {} ELSE NotedMemo(w, p)
        /\ rejected'[p] = PassReason(w, p)
    BY <1>0, <1>5, <2>2 DEF BuildSnapshot
  <2>4. CASE p \in Indexed(w)
    <3>1. rejected'[p] = "none" /\ memo'[p] = {}
      BY <2>3, <2>4 DEF Indexed, PassReason
    <3>2. UnchangedFast(p)' => disk[p].content \in Plain
      BY <1>0, <1>3, <2>1, <2>3, <2>4 DEF UnchangedFast
    <3> QED BY <3>1, <3>2 DEF RejectionUnchanged
  <2>5. CASE p \notin Indexed(w)
    <3>1. ~UnchangedFast(p)'
      BY <2>2, <2>3, <2>5 DEF UnchangedFast, Tracked
    <3>2. ~RejectionUnchanged(p)
      BY <1>1, <2>2
    <3>3. RejectionUnchanged(p)' => out[w][p] = "Refused"
      BY <1>0, <2>3, <2>5, <3>2 DEF RejectionUnchanged, NotedMemo
    <3> QED BY <2>3, <3>1, <3>3 DEF PassReason
  <2> QED BY <2>4, <2>5
<1> QED BY <1>2, <1>4, <1>5

-----------------------------------------------------------------------------
(* What a running pass has of a file.                                      *)

LEMMA FreshStep ==
  ASSUME HonestInv, NEW w \in Thread, Step(w)
  PROVE  FreshSound'
<1> USE DEF HonestInv, RInv
<1> SUFFICES ASSUME NEW v \in Thread, NEW p \in Free PROVE FreshSoundAt(v, p)'
  BY DEF FreshSound
<1>0. p \in Path /\ disk' = disk /\ Exists(p)' = Exists(p)
  BY StepDisk DEF Free, Exists
<1>1. FreshSoundAt(v, p)
  BY DEF FreshSound
<1>2. ASSUME sig' = sig, memo' = memo PROVE Stored(p)' = Stored(p)
  BY <1>0, <1>2 DEF Stored, UnchangedFast, RejectionUnchanged, Tracked
<1>3. CASE pc'[v] \notin {"read"} \cup LatePc
  BY <1>3 DEF FreshSoundAt
<1>4. CASE v # w /\ pc'[v] \in {"read"} \cup LatePc
  <2>1. /\ pc'[v] = pc[v] /\ cand'[v] = cand[v] /\ meta'[v] = meta[v] /\ out'[v] = out[v]
    BY <1>4, StepFrame
  <2>2. pc[w] \notin Holding
    BY <1>4, <2>1 DEF LockSound, Holding, LatePc
  <2>3. ~ApplyIncremental(w) /\ ~BuildSnapshot(w)
    BY <2>2 DEF ApplyIncremental, BuildSnapshot, Holding
  <2>4. sig' = sig /\ memo' = memo
    BY <1>0, <2>2, <2>3, StoreFrame, MemoFrame
  <2> QED BY <1>0, <1>1, <1>2, <2>1, <2>4 DEF FreshSoundAt, Match
<1>5. CASE v = w /\ pc'[v] \in {"read"} \cup LatePc
  <2>1. Scan(w)
    BY <1>5, ScanEnters
  <2>2. /\ pc[w] \in {"stat", "meta", "read", "retryMeta", "retryRead"} /\ cand' = cand
        /\ ~ApplyIncremental(w) /\ ~BuildSnapshot(w)
    BY <2>1 DEF Scan, ScanStat, ScanMeta, ScanRead, RetryMeta, RetryRead,
                ApplyIncremental, BuildSnapshot
  <2>3. Stored(p)' = Stored(p)
    BY <1>0, <1>2, <2>1, <2>2, StoreFrame, MemoFrame
  <2>4. CASE p \notin cand[w]
    BY <1>5, <2>2, <2>4 DEF FreshSoundAt
  <2>5. CASE p \in cand[w] /\ ScanStat(w)
    BY <1>5, <2>5 DEF ScanStat, TypeOK, LatePc
  <2>6. CASE p \in cand[w] /\ ScanMeta(w)
    <3>1. pc'[w] = "read" /\ meta'[w][p] = disk[p]
      BY <1>0, <2>6 DEF ScanMeta, TypeOK
    <3> QED BY <1>0, <1>5, <3>1 DEF FreshSoundAt, LatePc
  <2>7. CASE p \in cand[w] /\ ScanRead(w)
    <3>1. pc[w] = "read" /\ pc'[w] \in LatePc /\ meta' = meta
      BY <2>7 DEF ScanRead, TypeOK, LatePc
    <3>2. \/ out'[w][p] = Verdict(meta[w][p], disk[p].content)
          \/ out'[w][p] = "ParseFailed" /\ Verdict(meta[w][p], disk[p].content) = "Ok"
      BY <2>7, ScanReadAt
    <3>3. out'[w][p] = "Ok" => meta[w][p].content \notin Oversized
      <4>1. meta[w][p].content \in Oversized => Verdict(meta[w][p], disk[p].content) # "Ok"
        BY DEF Verdict, Content
      <4> QED BY <3>2, <4>1
    <3>4. Stored(p) => out'[w][p] \in IF disk[p].content \in Plain THEN {"Ok", "ParseFailed"}
                                      ELSE {"Refused"}
      BY <1>0, <1>1, <1>5, <2>7, <3>1, <3>2, VerdictTrue DEF FreshSoundAt, Stored
    <3> QED BY <1>0, <1>1, <1>5, <2>2, <2>3, <3>1, <3>3, <3>4 DEF FreshSoundAt, Match
  <2>8. CASE p \in cand[w] /\ RetryMeta(w)
    <3>1. pc[w] = "retryMeta" /\ pc'[w] = "retryRead" /\ out' = out
      BY <2>8 DEF RetryMeta, TypeOK
    <3>2. meta'[w][p] = IF p \in Retried(w) THEN disk[p] ELSE meta[w][p]
      BY <1>0, <2>8, RetryMetaAt
    <3>3. p \in Retried(w) => out[w][p] # "Ok"
      BY DEF Retried
    <3> QED BY <1>0, <1>1, <1>5, <2>2, <2>3, <3>1, <3>2, <3>3 DEF FreshSoundAt, Match, LatePc
  <2>9. CASE p \in cand[w] /\ RetryRead(w)
    <3>1. pc[w] = "retryRead" /\ pc'[w] = "apply" /\ meta' = meta
      BY <2>9 DEF RetryRead, TypeOK
    <3>2. CASE p \notin Retried(w)
      <4>1. out'[w][p] = out[w][p]
        BY <1>0, <2>9, <3>2, RetryReadAt
      <4> QED BY <1>0, <1>1, <1>5, <2>2, <2>3, <3>1, <4>1 DEF FreshSoundAt, Match, LatePc
    <3>3. CASE p \in Retried(w)
      <4>1. \/ out'[w][p] = "ParseFailed" /\ Verdict(meta[w][p], disk[p].content) = "Ok"
            \/ out'[w][p] = "RefusedLate" /\ Verdict(meta[w][p], disk[p].content) = "Refused"
            \/ out'[w][p] = Verdict(meta[w][p], disk[p].content) /\ out'[w][p] # "Refused"
        BY <1>0, <2>9, <3>3, RetryReadAt
      <4>2. out'[w][p] = "Ok" => meta[w][p].content \notin Oversized
        <5>1. meta[w][p].content \in Oversized => Verdict(meta[w][p], disk[p].content) # "Ok"
          BY DEF Verdict, Content
        <5> QED BY <4>1, <5>1
      <4>3. Stored(p) => meta[w][p].content = disk[p].content /\ disk[p].content \in Plain
        <5>1. out[w][p] = "ParseFailed"
          BY <3>3 DEF Retried
        <5> QED BY <1>1, <1>5, <2>9, <3>1, <5>1 DEF FreshSoundAt, LatePc
      <4>4. Stored(p) => out'[w][p] \in {"Ok", "ParseFailed"}
        BY <1>0, <4>1, <4>3, VerdictTrue DEF Stored
      <4> QED BY <1>0, <1>1, <1>5, <2>2, <2>3, <3>1, <4>2, <4>3, <4>4 DEF FreshSoundAt, Match, LatePc
    <3> QED BY <3>2, <3>3
  <2> QED BY <2>1, <2>4, <2>5, <2>6, <2>7, <2>8, <2>9 DEF Scan
<1> QED BY <1>3, <1>4, <1>5

\* A pass that has a file as it is keeps it so.
LEMMA CarriesScan ==
  ASSUME HonestInv, NEW w \in Thread, Scan(w), NEW p \in Free, Carries(w, p)
  PROVE  Carries(w, p)' /\ pc'[w] \in PassPc
<1> USE DEF HonestInv, RInv
<1>0. /\ p \in Path /\ disk' = disk /\ cand' = cand /\ gone' = gone
      /\ Exists(p)' = Exists(p)
  BY DEF Free, Exists, Scan, ScanStat, ScanMeta, ScanRead, RetryMeta, RetryRead
<1>1. pc'[w] \in PassPc /\ pc'[w] # "alias"
  <2>1. CASE ScanRead(w)
    BY <2>1 DEF ScanRead, TypeOK, PassPc, LatePc
  <2> QED BY <2>1 DEF Scan, ScanStat, ScanMeta, RetryMeta, RetryRead, TypeOK, PassPc, LatePc
<1>2. CASE p \in gone[w] /\ ~Exists(p)
  BY <1>0, <1>1, <1>2 DEF Carries
<1>3. CASE p \in cand[w] /\ Exists(p)
  <2>1. CASE ScanStat(w)
    <3>1. pc'[w] = "meta"
      BY <2>1 DEF ScanStat, TypeOK
    <3> QED BY <1>0, <1>1, <1>3, <3>1 DEF Carries, LatePc
  <2>2. CASE ScanMeta(w)
    <3>1. pc'[w] = "read" /\ meta'[w][p] = disk[p]
      BY <1>0, <1>3, <2>2 DEF ScanMeta, TypeOK
    <3> QED BY <1>0, <1>1, <1>3, <3>1 DEF Carries, LatePc
  <2>3. CASE ScanRead(w)
    <3>1. pc[w] = "read" /\ pc'[w] \in {"apply", "retryMeta"}
      BY <2>3 DEF ScanRead, TypeOK
    <3>2. meta[w][p].content = disk[p].content
      BY <1>3, <3>1 DEF Carries
    <3>3. /\ \/ out'[w][p] = Verdict(meta[w][p], disk[p].content)
             \/ out'[w][p] = "ParseFailed" /\ Verdict(meta[w][p], disk[p].content) = "Ok"
          /\ got'[w][p] = ReadNow(p)
      BY <1>3, <2>3, ScanReadAt
    <3>4. out'[w][p] \in IF disk[p].content \in Plain THEN {"Ok", "ParseFailed"} ELSE {"Refused"}
      BY <1>0, <1>3, <3>2, <3>3, VerdictTrue
    <3>5. got'[w][p].content = disk[p].content
      BY <3>3 DEF ReadNow
    <3> QED BY <1>0, <1>1, <1>3, <3>1, <3>4, <3>5 DEF Carries, LatePc
  <2>4. CASE RetryMeta(w)
    <3>1. pc[w] = "retryMeta" /\ pc'[w] = "retryRead" /\ out' = out /\ got' = got
      BY <2>4 DEF RetryMeta, TypeOK
    <3>2. out[w][p] = "ParseFailed" => meta'[w][p] = disk[p]
      BY <1>0, <1>3, <2>4, RetryMetaAt DEF Retried
    <3> QED BY <1>0, <1>1, <1>3, <3>1, <3>2 DEF Carries, LatePc
  <2>5. CASE RetryRead(w)
    <3>1. pc[w] = "retryRead" /\ pc'[w] = "apply"
      BY <2>5 DEF RetryRead, TypeOK
    <3>2. CASE p \notin Retried(w)
      <4>1. out'[w][p] = out[w][p] /\ got'[w][p] = got[w][p]
        BY <1>0, <2>5, <3>2, RetryReadAt
      <4> QED BY <1>0, <1>1, <1>3, <3>1, <4>1 DEF Carries, LatePc
    <3>3. CASE p \in Retried(w)
      <4>1. meta[w][p].content = disk[p].content
        BY <1>3, <3>1, <3>3 DEF Carries, Retried
      <4>2. /\ got'[w][p] = [ReadNow(p) EXCEPT !.alias = got[w][p].alias]
            /\ \/ out'[w][p] = "ParseFailed" /\ Verdict(meta[w][p], disk[p].content) = "Ok"
               \/ out'[w][p] = "RefusedLate" /\ Verdict(meta[w][p], disk[p].content) = "Refused"
               \/ out'[w][p] = Verdict(meta[w][p], disk[p].content) /\ out'[w][p] # "Refused"
        BY <1>0, <2>5, <3>3, RetryReadAt
      <4>3. got'[w][p].content = disk[p].content
        BY <4>2 DEF ReadNow
      <4>4. out'[w][p] \in IF disk[p].content \in Plain THEN {"Ok", "ParseFailed"}
                           ELSE {"RefusedLate"}
        BY <1>0, <1>3, <4>1, <4>2, VerdictTrue
      <4> QED BY <1>0, <1>1, <1>3, <3>1, <4>3, <4>4 DEF Carries, LatePc
    <3> QED BY <3>2, <3>3
  <2> QED BY <2>1, <2>2, <2>3, <2>4, <2>5 DEF Scan
<1> QED BY <1>1, <1>2, <1>3 DEF Carries

\* What is due stays due until a thread that holds the lock takes it up.
LEMMA AwaitedStep ==
  ASSUME HonestInv, NEW w \in Thread, Step(w), watcher = "on", NEW p \in Free, Awaited(p)
  PROVE  \/ Awaited(p)'
         \/ LockReload(w) /\ Settles(w, p)'
         \/ Crawl(w)
<1> USE DEF HonestInv, RInv, shared, index, scan
<1>0. /\ p \in Path /\ disk' = disk /\ events' = events /\ Exists(p)' = Exists(p)
      /\ \A v \in Thread : v # w => pc'[v] = pc[v] /\ todo'[v] = todo[v] /\ gone'[v] = gone[v]
  BY StepDisk, StepFrame DEF Free, Exists
<1>1. ASSUME pending' = pending, pc[w] \notin {"resolve", "fullLock", "crawl", "pathsLock"}
      PROVE  Awaited(p)'
  BY <1>0, <1>1 DEF Awaited
<1>2. CASE Job(w)
  <2>1. CASE StartJob(w)
    BY <1>1, <2>1 DEF StartJob
  <2>2. CASE DrainPaths(w)
    <3>1. /\ p \in pending => pc'[w] = "resolve" /\ p \in todo'[w]
          /\ pc[w] = "drain"
      BY <2>2 DEF DrainPaths, TypeOK
    <3> QED BY <1>0, <3>1 DEF Awaited
  <2>3. CASE FallBack(w)
    <3>1. pc'[w] = "fullLock"
      BY <2>3 DEF FallBack, TypeOK
    <3> QED BY <3>1 DEF Awaited
  <2>4. CASE ResolvePaths(w)
    <3>1. /\ pc[w] = "resolve" /\ pc'[w] = "pathsLock" /\ pending' = pending
          /\ p \in todo[w] => p \in gone'[w] \/ (p \in todo'[w] /\ Exists(p))
      BY <1>0, <2>4 DEF ResolvePaths, Present, TypeOK
    <3> QED BY <1>0, <3>1 DEF Awaited
  <2> QED BY <1>2, <2>1, <2>2, <2>3, <2>4 DEF Job
<1>3. CASE LockReload(w)
  <2>1. /\ pending' = pending /\ gone' = gone /\ todo' = todo
        /\ pc[w] \in {"fullLock", "pathsLock"}
        /\ pc'[w] = IF pc[w] = "fullLock" THEN "crawl" ELSE "filter"
    BY <1>3 DEF LockReload, TypeOK, BootSound, Booting
  <2> QED BY <1>0, <1>3, <2>1 DEF Awaited, Settles
<1>4. CASE Filter(w) \/ AliasScripts(w) \/ Scan(w) \/ ApplyIncremental(w)
  BY <1>1, <1>4 DEF Filter, AliasScripts, ApplyIncremental,
                    Scan, ScanStat, ScanMeta, ScanRead, RetryMeta, RetryRead
<1>5. CASE Boot(w)
  <2>1. ~BootCrawl(w) /\ ~BuildSnapshot(w)
    BY <1>5 DEF BootCrawl, BuildSnapshot, BootSound, Booting
  <2>2. pc[w] = "watch" /\ pending' = pending
    BY <1>5, <2>1 DEF Boot, StartWatcher
  <2> QED BY <1>1, <2>2
<1> QED BY <1>2, <1>3, <1>4, <1>5 DEF Step, Reload

\* The same of a thread's hold on a file that another thread's step leaves.
LEMMA OthersCarry ==
  ASSUME HonestInv, NEW w \in Thread, Step(w), NEW v \in Thread, v # w, NEW p \in Free
  PROVE  Carries(v, p)' = Carries(v, p) /\ Settles(v, p)' = Settles(v, p)
<1>1. /\ Exists(p)' = Exists(p) /\ disk' = disk
      /\ pc'[v] = pc[v] /\ todo'[v] = todo[v] /\ gone'[v] = gone[v] /\ cand'[v] = cand[v]
      /\ meta'[v] = meta[v] /\ got'[v] = got[v] /\ out'[v] = out[v]
  BY StepDisk, StepFrame DEF Exists, HonestInv, RInv
<1>2. Carries(v, p)' = Carries(v, p)
  BY <1>1 DEF Carries
<1> QED BY <1>1, <1>2 DEF Settles

\* The first look of a pass under the lock, and the alias configs after it.
LEMMA CarriesFilter ==
  ASSUME HonestInv, NEW w \in Thread, Filter(w), NEW p \in Free
  PROVE  /\ pc'[w] = "alias"
         /\ p \in cand'[w] \cup gone'[w] => Carries(w, p)'
         /\ p \in gone[w] \/ (p \in todo[w] /\ Exists(p)) =>
              p \in cand'[w] \cup gone'[w] \/ Stored(p)
<1>0. p \in Path /\ Exists(p)' = Exists(p)
  BY DEF Free, Exists, Filter
<1>1. /\ pc'[w] = "alias"
      /\ cand'[w] = {q \in todo[w] \cap Present : ~UnchangedFast(q) /\ ~RejectionUnchanged(q)}
                      \cup (gone[w] \cap Present)
      /\ gone'[w] = gone[w] \ Present
  BY DEF Filter, HonestInv, RInv, TypeOK
<1>2. p \in Present <=> Exists(p)
  BY <1>0 DEF Present
<1>3. p \in cand'[w] \cup gone'[w] => Carries(w, p)'
  BY <1>0, <1>1, <1>2 DEF Carries, LatePc
<1> QED BY <1>1, <1>2, <1>3 DEF Stored

LEMMA CarriesAlias ==
  ASSUME HonestInv, NEW w \in Thread, AliasScripts(w), NEW p \in Free
  PROVE  /\ pc[w] = "alias" /\ pc'[w] \in {"stat", "idle", "done"}
         /\ pc'[w] = "stat" => (p \in cand'[w] \cup gone'[w] => p \in cand[w] \cup gone[w])
         /\ Carries(w, p) => pc'[w] = "stat" /\ Carries(w, p)'
<1> USE DEF HonestInv, RInv
<1>0. p \in Path /\ Exists(p)' = Exists(p) /\ disk' = disk
  BY DEF Free, Exists, AliasScripts
<1>1. p \notin ForcedScripts(w)
  BY DEF Free, ForcedScripts, TouchedConfigs, AliasConfig
<1>2. CASE Finish(w)
  <2>1. pc[w] = "alias" /\ pc'[w] \in {"idle", "done"}
    BY <1>2 DEF AliasScripts, Finish, TypeOK
  <2>2. CASE cand[w] \cup gone[w] \cup ForcedScripts(w) = {}
    BY <2>1, <2>2 DEF Carries
  <2>3. CASE cand[w] \cup gone[w] \cup ForcedScripts(w) # {}
    <3>1. pc'[w] = "stat"
      BY <2>3 DEF AliasScripts, TypeOK
    <3> QED BY <2>1, <3>1
  <2> QED BY <2>1, <2>2, <2>3
<1>3. CASE ~Finish(w)
  <2>1. /\ pc[w] = "alias" /\ pc'[w] = "stat" /\ gone'[w] = gone[w]
        /\ cand'[w] = cand[w] \cup ForcedScripts(w)
    BY <1>3 DEF AliasScripts, TypeOK
  <2>2. Carries(w, p) => Carries(w, p)'
    BY <1>0, <2>1 DEF Carries, LatePc
  <2> QED BY <1>1, <2>1, <2>2
<1> QED BY <1>2, <1>3

LEMMA HonestPassStep ==
  ASSUME HonestInv, NEW w \in Thread, Step(w)
  PROVE  HonestPass'
<1> USE DEF HonestInv, RInv
<1> SUFFICES ASSUME watcher' = "on", NEW v \in Thread, NEW p \in Free,
                    pc'[v] \in PassPc, p \in cand'[v] \cup gone'[v]
             PROVE  Awaited(p)' \/ Carries(v, p)'
  BY DEF HonestPass
<1>1. CASE StartWatcher(w)
  <2>1. pc'[w] = "fullLock"
    BY <1>1 DEF StartWatcher, TypeOK
  <2> QED BY <2>1 DEF Awaited
<1>2. CASE ~StartWatcher(w)
  <2>1. watcher = "on" /\ ~BootCrawl(w) /\ ~BuildSnapshot(w)
    <3>1. watcher = "on"
      BY <1>2 DEF Step, Job, StartJob, DrainPaths, FallBack, ResolvePaths,
         Reload, LockReload, Crawl, Filter, AliasScripts, shared,
         Scan, ScanStat, ScanMeta, ScanRead, RetryMeta, RetryRead, ApplyIncremental,
         Boot, BootCrawl, BuildSnapshot
    <3> QED BY <3>1 DEF BootCrawl, BuildSnapshot, BootSound, Booting
  <2>2. pc[v] \in PassPc /\ p \in cand[v] \cup gone[v] => Awaited(p) \/ Carries(v, p)
    BY <2>1 DEF HonestPass
  <2>3. CASE v # w
    <3>1. pc'[v] = pc[v] /\ cand'[v] = cand[v] /\ gone'[v] = gone[v]
      BY <2>3, StepFrame
    <3>2. pc[w] \notin Holding /\ lock = v
      BY <2>3, <3>1 DEF LockSound, Holding, PassPc, LatePc
    <3>3. ~Crawl(w) /\ ~LockReload(w)
      BY <3>2 DEF Crawl, LockReload, Holding
    <3> QED BY <2>1, <2>2, <2>3, <3>1, <3>3, AwaitedStep, OthersCarry
  <2>4. CASE v = w
    <3>1. CASE Filter(w)
      BY <2>4, <3>1, CarriesFilter
    <3>2. CASE AliasScripts(w)
      <4>1. pc[w] = "alias" /\ pc'[w] = "stat" /\ p \in cand[w] \cup gone[w]
        BY <2>4, <3>2, CarriesAlias DEF PassPc, LatePc
      <4>2. ~Crawl(w) /\ ~LockReload(w)
        BY <4>1 DEF Crawl, LockReload
      <4> QED BY <2>1, <2>2, <2>4, <3>2, <4>1, <4>2, AwaitedStep, CarriesAlias DEF PassPc
    <3>3. CASE Scan(w)
      <4>1. /\ pc[w] \in PassPc /\ p \in cand[w] \cup gone[w]
            /\ ~Crawl(w) /\ ~LockReload(w)
        BY <2>4, <3>3 DEF Scan, ScanStat, ScanMeta, ScanRead, RetryMeta, RetryRead,
                          PassPc, LatePc, Crawl, LockReload
      <4> QED BY <2>1, <2>2, <2>4, <3>3, <4>1, AwaitedStep, CarriesScan
    <3>4. CASE Job(w) \/ LockReload(w) \/ Crawl(w) \/ ApplyIncremental(w)
      <4>1. pc'[w] \notin PassPc
        BY <3>4 DEF Job, StartJob, DrainPaths, FallBack, ResolvePaths, LockReload, Crawl,
                    ApplyIncremental, Finish, TypeOK, PassPc, LatePc
      <4> QED BY <2>4, <4>1
    <3> QED BY <1>2, <2>1, <3>1, <3>2, <3>3, <3>4 DEF Step, Reload, Boot
  <2> QED BY <2>3, <2>4
<1> QED BY <1>1, <1>2

-----------------------------------------------------------------------------
(* Every file is honest, in good hands or due.                             *)

\* A file whose stored stat still matches is as it should be.
LEMMA StoredHonest ==
  ASSUME HonestInv, NEW p \in Free, Stored(p)
  PROVE  HonestAt(p)
<1> USE DEF HonestInv, RInv
<1>0. p \in Path /\ Exists(p) /\ AliasOf(p) = Gone
  BY DEF Free, Stored, AliasOf
<1>1. p \in Listed <=> rejected[p] # "none"
  BY <1>0 DEF Listed
<1>2. CASE UnchangedFast(p)
  <2>1. /\ disk[p].content \in Plain /\ rejected[p] \in {"none", "ParseFailed"}
        /\ sig[p].content = disk[p].content
    BY <1>0, <1>2 DEF MatchSound, StatSound, Present
  <2>2. facts[p].content = disk[p].content /\ facts[p].alias = Gone
    BY <1>0, <1>2, <2>1 DEF SigShown, FreeShown, UnchangedFast, Tracked
  <2>3. Current(p)
    BY <1>0, <2>1, <2>2 DEF Current, Rebuilt
  <2> QED BY <1>0, <1>1, <2>1, <2>3 DEF HonestAt
<1>3. CASE RejectionUnchanged(p)
  <2>1. rejected[p] = "Refused" /\ disk[p].content \in Oversized \cup Guarded
    BY <1>0, <1>3 DEF MatchSound, StatSound, Present
  <2>2. disk[p].content \notin Plain
    BY <2>1
  <2> QED BY <1>0, <1>1, <2>1, <2>2 DEF HonestAt
<1> QED BY <1>2, <1>3 DEF Stored

\* So is a file that is absent and neither tracked nor listed.
LEMMA AbsentHonest ==
  ASSUME HonestInv, NEW p \in Free, ~Exists(p), p \notin Tracked \cup Listed
  PROVE  HonestAt(p)
<1>1. p \in Path /\ disk[p].content = Gone /\ sig[p].content = Gone
  BY DEF Free, Exists, Tracked
<1>2. facts[p].content = Gone /\ facts[p].alias = Gone
  BY <1>1 DEF HonestInv, FreeShown
<1>3. Current(p)
  BY <1>1, <1>2 DEF Current, Rebuilt, Content
<1> QED BY <1>3 DEF HonestAt

\* A pass that has a file as it is leaves it as it should be.
LEMMA ApplyHonest ==
  ASSUME HonestInv, NEW w \in Thread, ApplyIncremental(w), NEW p \in Free, Carries(w, p)
  PROVE  HonestAt(p)'
<1> USE DEF HonestInv, RInv
<1>0. /\ p \in Path /\ pc[w] = "apply" /\ disk' = disk /\ Exists(p)' = Exists(p)
      /\ AliasOf(p)' = Gone
  BY DEF ApplyIncremental, Free, Exists, AliasOf
<1>1. /\ sig'[p] = IF p \in gone[w] THEN NoSig
                   ELSE IF p \in Indexed(w) THEN NewSig(w, p) ELSE sig[p]
      /\ facts'[p] = IF p \in Changed(w) THEN got[w][p]
                     ELSE IF p \in gone[w] THEN [NoFact EXCEPT !.ver = facts[p].ver]
                     ELSE facts[p]
      /\ rejected'[p] = IF p \in cand[w] \cup gone[w] THEN PassReason(w, p) ELSE rejected[p]
  BY <1>0, ApplyAt
<1>2. p \in Listed' <=> rejected'[p] # "none"
  BY <1>0 DEF Listed
<1>3. ~(p \in cand[w] /\ p \in gone[w])
  BY <1>0, FreeApart DEF PassPc, LatePc
<1>4. got[w][p].alias = Gone /\ facts[p].alias = Gone
  BY DEF FreeShown
<1>5. CASE p \in gone[w] /\ ~Exists(p)
  <2>1. out[w][p] = "Unread"
    BY <1>0, <1>3, <1>5 DEF ScanSound, OutSoundAt
  <2>2. rejected'[p] = "none" /\ p \notin Changed(w)
    BY <1>1, <1>5, <2>1 DEF PassReason, Changed, Indexed
  <2>3. facts'[p].content = Gone /\ facts'[p].alias = Gone
    BY <1>1, <1>5, <2>2 DEF NoFact
  <2>4. disk'[p].content = Gone
    BY <1>0, <1>5 DEF Exists
  <2>5. Current(p)'
    BY <1>0, <2>3, <2>4 DEF Current, Rebuilt, Content
  <2> QED BY <1>2, <2>2, <2>5 DEF HonestAt
<1>6. CASE p \in cand[w] /\ Exists(p) /\ out[w][p] = "Ok"
  <2>1. disk[p].content \in Plain /\ got[w][p].content = disk[p].content
    BY <1>0, <1>3, <1>6 DEF Carries, LatePc
  <2>2. p \in Indexed(w) /\ rejected'[p] = "none"
    BY <1>1, <1>6 DEF Indexed, PassReason
  <2>3. facts'[p].content = disk[p].content /\ facts'[p].alias = Gone
    <3>1. CASE p \in Changed(w)
      BY <1>1, <1>4, <2>1, <3>1
    <3>2. CASE p \notin Changed(w)
      <4>1. sig[p].content = disk[p].content /\ sig[p].content # Gone
        BY <1>6, <2>1, <2>2, <3>2 DEF Changed, Exists
      <4> QED BY <1>0, <1>1, <1>3, <1>4, <1>6, <3>2, <4>1 DEF SigShown
    <3> QED BY <3>1, <3>2
  <2>4. Current(p)'
    BY <1>0, <2>1, <2>3 DEF Current, Rebuilt
  <2> QED BY <1>2, <2>2, <2>4 DEF HonestAt
<1>7. CASE p \in cand[w] /\ Exists(p) /\ out[w][p] # "Ok"
  <2>1. out[w][p] \in {"Refused", "RefusedLate", "ParseFailed"}
    BY <1>0, <1>3, <1>7 DEF Carries, LatePc, PassSound, PassSoundAt, TypeOK, Outcome, Reason
  <2>2. out[w][p] \in {"Refused", "RefusedLate"} => disk[p].content \notin Plain
    BY <1>0, <1>3, <1>7 DEF Carries, LatePc
  <2>3. rejected'[p] = IF out[w][p] = "ParseFailed" THEN "ParseFailed" ELSE "Refused"
    BY <1>1, <1>7, <2>1 DEF PassReason
  <2> QED BY <1>0, <1>2, <1>7, <2>1, <2>2, <2>3 DEF HonestAt
<1> QED BY <1>5, <1>6, <1>7 DEF Carries

\* What is not installed does not change what the index says of a file.
LEMMA HonestKept ==
  ASSUME NEW p \in Free, disk' = disk, facts'[p] = facts[p], rejected'[p] = rejected[p], HonestAt(p)
  PROVE  HonestAt(p)'
<1>1. Current(p)' = Current(p)
  BY DEF Current, Rebuilt, AliasOf, Free
<1>2. (p \in Listed)' = (p \in Listed)
  BY DEF Listed, Free
<1> QED BY <1>1, <1>2 DEF HonestAt, Exists

LEMMA HonestOwnedStep ==
  ASSUME HonestInv, NEW w \in Thread, Step(w)
  PROVE  HonestOwned'
<1> USE DEF HonestInv, RInv
<1> SUFFICES ASSUME watcher' = "on", NEW p \in Free
             PROVE  Awaited(p)' \/ HonestAt(p)' \/ \E v \in Thread : Settles(v, p)'
  BY DEF HonestOwned
<1>0. p \in Path /\ disk' = disk /\ Exists(p)' = Exists(p)
  BY StepDisk DEF Free, Exists
<1>1. CASE StartWatcher(w)
  <2>1. pc'[w] = "fullLock"
    BY <1>1 DEF StartWatcher, TypeOK
  <2> QED BY <2>1 DEF Awaited
<1>2. CASE ~StartWatcher(w)
  <2>1. watcher = "on" /\ ~BootCrawl(w) /\ ~BuildSnapshot(w)
    <3>1. watcher = "on"
      BY <1>2 DEF Step, Job, StartJob, DrainPaths, FallBack, ResolvePaths,
         Reload, LockReload, Crawl, Filter, AliasScripts, shared,
         Scan, ScanStat, ScanMeta, ScanRead, RetryMeta, RetryRead, ApplyIncremental,
         Boot, BootCrawl, BuildSnapshot
    <3> QED BY <3>1 DEF BootCrawl, BuildSnapshot, BootSound, Booting
  <2>2. Awaited(p) \/ HonestAt(p) \/ \E v \in Thread : Settles(v, p)
    BY <2>1 DEF HonestOwned
  <2>3. CASE Crawl(w)
    <3>1. /\ pc'[w] = "filter" /\ todo'[w] = Present /\ gone'[w] = (Tracked \cup Listed) \ Present
      BY <2>3 DEF Crawl, TypeOK
    <3>2. CASE Exists(p)
      BY <1>0, <3>1, <3>2 DEF Settles, Present
    <3>3. CASE ~Exists(p) /\ p \in Tracked \cup Listed
      BY <1>0, <3>1, <3>3 DEF Settles, Present
    <3>4. CASE ~Exists(p) /\ p \notin Tracked \cup Listed
      <4>1. facts' = facts /\ rejected' = rejected
        BY <2>3 DEF Crawl
      <4> QED BY <1>0, <3>4, <4>1, AbsentHonest, HonestKept
    <3> QED BY <3>2, <3>3, <3>4
  <2>4. CASE ~Crawl(w) /\ Awaited(p)
    BY <2>1, <2>4, AwaitedStep
  <2>5. CASE ~Crawl(w) /\ ~Awaited(p) /\ HonestAt(p)
    <3>1. CASE ApplyIncremental(w) /\ p \in cand[w] \cup gone[w]
      <4>1. pc[w] \in PassPc
        BY <3>1 DEF ApplyIncremental, PassPc, LatePc
      <4>2. Carries(w, p)
        BY <2>1, <2>5, <3>1, <4>1 DEF HonestPass
      <4> QED BY <3>1, <4>2, ApplyHonest
    <3>2. CASE ApplyIncremental(w) /\ p \notin cand[w] \cup gone[w]
      <4>1. facts'[p] = facts[p] /\ rejected'[p] = rejected[p]
        BY <1>0, <3>2, ApplyAt DEF Changed, Indexed
      <4> QED BY <1>0, <2>5, <4>1, HonestKept
    <3>3. CASE ~ApplyIncremental(w)
      BY <1>0, <2>1, <2>5, <3>3, StoreFrame, HonestKept
    <3> QED BY <3>1, <3>2, <3>3
  <2>6. ASSUME ~Crawl(w), NEW v \in Thread, Settles(v, p)
        PROVE  HonestAt(p)' \/ Settles(v, p)'
    <3>1. CASE v # w
      BY <2>6, <3>1, OthersCarry
    <3>2. CASE v = w /\ pc[w] = "filter"
      <4>1. Filter(w)
        BY <2>1, <2>6, <3>2 DEF Step, Job, StartJob, DrainPaths, FallBack, ResolvePaths,
           Reload, LockReload, AliasScripts,
           Scan, ScanStat, ScanMeta, ScanRead, RetryMeta, RetryRead, ApplyIncremental,
           Boot, StartWatcher
      <4>2. p \in gone[w] \/ (p \in todo[w] /\ Exists(p))
        BY <2>6, <3>2 DEF Settles, PassPc, LatePc
      <4>3. CASE p \in cand'[w] \cup gone'[w]
        BY <3>2, <4>1, <4>3, CarriesFilter DEF Settles, PassPc
      <4>4. CASE Stored(p)
        <5>1. facts' = facts /\ rejected' = rejected
          BY <4>1 DEF Filter, index
        <5> QED BY <1>0, <4>4, <5>1, StoredHonest, HonestKept
      <4> QED BY <4>1, <4>2, <4>3, <4>4, CarriesFilter
    <3>3. CASE v = w /\ pc[w] # "filter"
      <4>1. pc[w] \in PassPc /\ Carries(w, p)
        BY <2>6, <3>3 DEF Settles
      <4>2. AliasScripts(w) \/ Scan(w) \/ ApplyIncremental(w)
        BY <2>1, <2>6, <3>3, <4>1 DEF Step, Job, StartJob, DrainPaths, FallBack, ResolvePaths,
           Reload, LockReload, Filter, Boot, StartWatcher, PassPc, LatePc
      <4>3. CASE AliasScripts(w)
        BY <3>3, <4>1, <4>3, CarriesAlias DEF Settles, PassPc
      <4>4. CASE Scan(w)
        BY <3>3, <4>1, <4>4, CarriesScan DEF Settles
      <4>5. CASE ApplyIncremental(w)
        BY <4>1, <4>5, ApplyHonest
      <4> QED BY <4>2, <4>3, <4>4, <4>5
    <3> QED BY <3>1, <3>2, <3>3
  <2> QED BY <2>2, <2>3, <2>4, <2>5, <2>6
<1> QED BY <1>1, <1>2

LEMMA HonestNext == ASSUME "boot" \notin ParseFails PROVE HonestInv /\ [Next]_vars => HonestInv'
<1> SUFFICES ASSUME HonestInv, [Next]_vars PROVE HonestInv'
  OBVIOUS
<1>1. RInv' /\ GoneOwned' /\ StatSound'
  BY RefNext, GoneNext, StatSoundNext DEF HonestInv, RInv
<1>2. CASE UserEdit
  BY <1>1, <1>2, HonestEdit DEF HonestInv
<1>3. CASE Schedule \/ UNCHANGED vars
  BY <1>1, <1>3, HonestSchedule DEF HonestInv
<1>4. ASSUME NEW w \in Thread, Step(w) PROVE HonestInv'
  <2>1. FreeShown' /\ FreshSound' /\ HonestPass' /\ HonestOwned'
    BY <1>4, FreeShownStep, FreshStep, HonestPassStep, HonestOwnedStep
  <2>2. ASSUME NEW p \in Free, Exists(p)'
        PROVE  /\ UnchangedFast(p)' => disk'[p].content \in Plain /\ rejected'[p] \in {"none", "ParseFailed"}
               /\ RejectionUnchanged(p)' => rejected'[p] = "Refused"
    <3>1. disk' = disk /\ Exists(p)
      BY <1>4, <2>2, StepDisk DEF Exists
    <3> QED BY <1>4, <3>1, MatchStep
  <2>3. MatchSound'
    BY <2>2 DEF MatchSound
  <2> QED BY <1>1, <2>1, <2>3 DEF HonestInv
<1> QED BY <1>2, <1>3, <1>4 DEF Next

LEMMA HonestAtRest ==
  ASSUME HonestInv, Idle, NEW p \in Free
  PROVE  HonestAt(p)
<1>1. ~Awaited(p) /\ \A w \in Thread : ~Settles(w, p)
  BY DEF Idle, Awaited, Settles, PassPc, LatePc
<1>2. watcher = "on"
  BY DEF Idle
<1> QED BY <1>1, <1>2 DEF HonestInv, HonestOwned

\* At rest, whatever edits, batches, jobs, fallbacks, late refusals and failed
\* parses led there, a file that no alias config governs has the facts that a
\* rebuild would give it or is listed as rejected, and is listed for a reason
\* that still holds (apply_incremental, IndexHealth).
FreeHonest == Idle => \A p \in Free : HonestAt(p)

\* FreeHonest, whatever alias configs govern the other files, when no parse fails
\* at boot (one that does leaves a signature without facts).
THEOREM FreeAlwaysHonest == ASSUME "boot" \notin ParseFails PROVE Spec => []FreeHonest
<1>1. Init => HonestInv
  BY TypeInit, LockInit, StatsInit, ScanInit, VerInit, RefInit, GoneInit, StatSoundInit, HonestInit
     DEF HonestInv, RInv
<1>2. HonestInv /\ [Next]_vars => HonestInv'
  BY HonestNext
<1>3. HonestInv => FreeHonest
  BY HonestAtRest DEF FreeHonest
<1> QED BY <1>1, <1>2, <1>3, PTL DEF Spec

\* RestIsHonest, for a workspace without alias configs in which no parse fails
\* at boot: with either of them the code can break it.
THEOREM RestAlwaysHonest ==
  ASSUME "boot" \notin ParseFails, \A p \in Path : Governor[p] = NoPath
  PROVE  Spec => []RestIsHonest
<1>1. FreeHonest => RestIsHonest
  <2> SUFFICES ASSUME FreeHonest, Idle, NEW p \in Path PROVE HonestAt(p)
    BY DEF RestIsHonest, QuietVisible, RejectedExact, HonestAt, Listed
  <2> QED BY DEF FreeHonest, Free
<1> QED BY <1>1, FreeAlwaysHonest, PTL
=============================================================================
