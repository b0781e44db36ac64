------------------------ MODULE WorkspaceHost_proofs ------------------------
(* Proofs about WorkspaceHost, for any configs, any number of concurrent     *)
(* requests and of AppStates, and any number of edits.                       *)
EXTENDS WorkspaceHost, TLAPS

USE HostAssumption

-----------------------------------------------------------------------------
(* The inductive invariant                                                  *)

Building == {"index", "watch", "close", "store"}
Holding == Building \cup {"observe", "parse", "book", "cancel", "reject", "publish", "unlock"}

\* The gate is held by the reload that took it.
GateOwned == gate => \E r \in Request : job[r] \in Holding

\* Some of the start's tasks may still touch the first state.
Booting == boot \ {"publish"} # {}

\* The state under construction is nobody else's and is for the bytes read.
Fresh(r) ==
  /\ job[r] \in {"observe", "parse"} => sha[r] \in Config
  /\ job[r] \in Building \cup {"book"} =>
       new[r] \in State /\ sha[r] \in Valid /\ config[new[r]] = sha[r]
  /\ job[r] \in Building => new[r] # current /\ (Booting => new[r] # 1)
  /\ job[r] = "book" => current = new[r] /\ book.watcher # current
  /\ job[r] = "cancel" => retired[r] \in State \ {current}

\* How far its index fits its config.
Fits(r) ==
  /\ job[r] \in {"watch", "close", "store"} => index[new[r]].inputs = Inputs[sha[r]]
  /\ job[r] \in {"watch", "close"} =>
       index[new[r]].patterns = Patterns[sha[r]] \/ Kind(sha[r]) = "partial"
  /\ job[r] = "store" => index[new[r]].patterns = Patterns[sha[r]]

\* Once the gap is closed its watcher knows what its index does not hold.
Caught(r) ==
  job[r] = "store" /\ watching[new[r]] => index[new[r]].tree = tree \/ pending[new[r]]

\* A refusal on record is shown.
RefusalShown == ~book.error => book.rejected = None

HInv ==
  /\ TypeOK /\ OneReload /\ GateOwned
  /\ \A r \in Request : Fresh(r) /\ Fits(r) /\ Caught(r)
  /\ BookDescribesServed /\ ServedUnderOwnConfig /\ NoEditLost
  /\ RefusalShown /\ StatusSettles

\* Every watcher is of the state that serves or of the reload under way.
WatchersOwned ==
  \A s \in State : watching[s] =>
    \/ s = current
    \/ \E r \in Request :
         \/ job[r] \in {"close", "store"} /\ s = new[r]
         \/ job[r] = "book" /\ s = book.watcher
         \/ job[r] = "cancel" /\ s = retired[r]

-----------------------------------------------------------------------------
(* Types                                                                    *)

Book == [serving : Valid, rejected : Config \cup {None}, error : BOOLEAN, watcher : State]
Published == [serving : Valid, rejected : Config \cup {None}, error : BOOLEAN]

LEMMA IndexOfType ==
  ASSUME NEW x \in Valid, NEW has \in {"nothing", "some", "all"}, tree \in 0..MaxTreeEdits
  PROVE  /\ IndexOf(x, has) \in Index /\ IndexOf(x, has).tree = tree
         /\ IndexOf(x, has).inputs = Inputs[x] /\ IndexOf(x, has).patterns = Patterns[x]
BY DEF IndexOf, Index

LEMMA RefreshedType ==
  ASSUME NEW i \in Index, NEW full \in BOOLEAN, tree \in 0..MaxTreeEdits
  PROVE  /\ Refreshed(i, full) \in Index /\ Refreshed(i, full).tree = tree
         /\ Refreshed(i, full).inputs = i.inputs /\ Refreshed(i, full).patterns = i.patterns
<1>1. i.has \in {"nothing", "some", "all"}
  BY DEF Index
<1> DEFINE has == IF full THEN "all" ELSE IF i.has = "nothing" THEN "some" ELSE i.has
<1>2. has \in {"nothing", "some", "all"}
  BY <1>1
<1>3. Refreshed(i, full) = [i EXCEPT !.tree = tree, !.has = has]
  BY DEF Refreshed
<1> HIDE DEF has
<1> QED BY <1>2, <1>3 DEF Index

LEMMA RecrawledType ==
  ASSUME NEW i \in Index, NEW x \in Valid, tree \in 0..MaxTreeEdits
  PROVE  /\ Recrawled(i, x) \in Index /\ Recrawled(i, x).tree = tree
         /\ Recrawled(i, x).inputs = i.inputs
         /\ Recrawled(i, x).patterns = IF Kind(x) = "partial" THEN Patterns[x] ELSE i.patterns
<1> DEFINE now == IF Kind(x) = "partial" THEN Patterns[x] ELSE i.patterns
<1>1. now \in {Patterns[y] : y \in Valid}
  BY DEF Index
<1>2. Recrawled(i, x) = [i EXCEPT !.has = "all", !.tree = tree, !.patterns = now]
  BY DEF Recrawled
<1> HIDE DEF now
<1>3. /\ Recrawled(i, x) \in Index /\ Recrawled(i, x).tree = tree
      /\ Recrawled(i, x).inputs = i.inputs /\ Recrawled(i, x).patterns = now
  BY <1>1, <1>2 DEF Index
<1> QED BY <1>3 DEF now

LEMMA RecordType ==
  ASSUME TypeOK
  PROVE  /\ Record \in Published /\ Record.serving = book.serving
         /\ Record.rejected = book.rejected /\ Record.error = book.error
BY DEF TypeOK, Record, Published

\* What observe leaves in the book.
LEMMA ObserveBook ==
  ASSUME TypeOK, NEW x, Observe(x)
  PROVE  /\ book' \in Book /\ book'.serving = book.serving /\ book'.watcher = book.watcher
         /\ \/ book' = book
            \/ book.serving = x /\ book'.rejected = None /\ book'.error = FALSE
BY DEF TypeOK, Observe, Book

LEMMA InitType == Init => TypeOK
<1> SUFFICES ASSUME Init PROVE TypeOK
  OBVIOUS
<1>1. file \in Valid /\ 1 \in State /\ tree \in 0..MaxTreeEdits
  BY DEF Init, State
<1>2. index \in [State -> Index]
  BY <1>1, IndexOfType DEF Init
<1>3. book \in Book
  BY <1>1 DEF Init, Book
<1>4. watching \in [State -> BOOLEAN] /\ pending \in [State -> BOOLEAN]
      /\ reloading \in BOOLEAN /\ gate \in BOOLEAN
  BY Zenon DEF Init
<1>5. /\ pc \in [Request -> {"idle", "observe", "publish", "swap"}]
      /\ seen \in [Request -> Config \cup {None}]
      /\ job \in [Request -> {"none", "read", "observe", "parse", "index", "watch", "close",
                              "store", "book", "cancel", "reject", "publish", "reread",
                              "unlock", "end"}]
      /\ sha \in [Request -> Config \cup {None}] /\ new \in [Request -> State \cup {None}]
      /\ retired \in [Request -> State \cup {None}]
  BY DEF Init
<1>6. /\ file \in Config \cup {Missing, Unreadable} /\ configEdits \in 0..MaxConfigEdits
      /\ config \in [State -> Valid] /\ current \in State /\ status = None
      /\ boot \subseteq {"ingest", "watch", "close", "publish"}
  BY <1>1 DEF Init, Valid
<1> QED BY <1>1, <1>2, <1>3, <1>4, <1>5, <1>6 DEF TypeOK, Book

LEMMA NextType == ASSUME HInv, [Next]_vars PROVE TypeOK'
<1> USE DEF HInv
<1>0. TypeOK /\ 1 \in State
  BY DEF State
<1>a. file \in Config \cup {Missing, Unreadable} /\ tree \in 0..MaxTreeEdits
  BY DEF TypeOK
<1>b. ASSUME NEW f \in [State -> Index], NEW s \in State, NEW i \in Index
      PROVE  [f EXCEPT ![s] = i] \in [State -> Index]
  OBVIOUS
<1>1. CASE EditTree
  BY <1>0, <1>1 DEF TypeOK, EditTree, states, request, reload
<1>2. ASSUME NEW x \in Config \cup {Missing, Unreadable}, EditConfig(x) PROVE TypeOK'
  BY <1>0, <1>2 DEF TypeOK, EditConfig, states, request, reload
<1>3. ASSUME NEW s \in State, NEW full \in BOOLEAN, WatcherReload(s, full) PROVE TypeOK'
  <2>1. Refreshed(index[s], full) \in Index
    BY <1>0, <1>a, RefreshedType DEF TypeOK
  <2> QED BY <1>0, <1>3, <2>1 DEF TypeOK, WatcherReload, disk, request, reload
<1>4. CASE Ingest \/ CloseBootGap
  <2>1. config[1] \in Valid
    BY <1>0 DEF TypeOK
  <2>2. IndexOf(config[1], "all") \in Index
    BY <1>a, <2>1, IndexOfType
  <2>3. index' \in [State -> Index]
    BY <1>0, <1>4, <2>2 DEF TypeOK, Ingest, CloseBootGap
  <2>4. boot' \subseteq {"ingest", "watch", "close", "publish"}
    BY <1>0, <1>4 DEF TypeOK, Ingest, CloseBootGap
  <2> QED BY <1>0, <1>4, <2>3, <2>4
          DEF TypeOK, Ingest, CloseBootGap, disk, request, reload
<1>5. CASE StartWatcher
  <2>1. Cancelled(1) \in BOOLEAN
    BY DEF Cancelled
  <2>2. watching' \in [State -> BOOLEAN]
    BY <1>0, <1>5, <2>1 DEF TypeOK, StartWatcher
  <2>3. boot' \subseteq {"ingest", "watch", "close", "publish"}
    BY <1>0, <1>5 DEF TypeOK, StartWatcher
  <2> QED BY <1>0, <1>5, <2>2, <2>3 DEF TypeOK, StartWatcher, disk, request, reload
<1>6. CASE PublishFirst
  <2>1. status' \in Published /\ boot' \subseteq boot
    BY <1>0, <1>6, RecordType DEF PublishFirst
  <2> QED BY <1>0, <1>6, <2>1 DEF TypeOK, Published, PublishFirst, disk, states, request, reload
<1>7. ASSUME NEW r \in Request, CheckRead(r) \/ CheckSwap(r) PROVE TypeOK'
  <2>1. CASE CheckRead(r)
    BY <1>0, <2>1 DEF TypeOK, CheckRead, disk, states, reload
  <2>2. CASE CheckSwap(r)
    BY <1>0, <2>2 DEF TypeOK, CheckSwap, disk, states
  <2> QED BY <1>7, <2>1, <2>2
<1>8. ASSUME NEW r \in Request, CheckObserve(r) PROVE TypeOK'
  <2>1. book' \in Book
    BY <1>0, <1>8, ObserveBook DEF CheckObserve
  <2> QED BY <1>0, <1>8, <2>1 DEF TypeOK, Book, CheckObserve, disk, states, reload
<1>9. ASSUME NEW r \in Request, CheckPublish(r) \/ ReloadPublish(r) PROVE TypeOK'
  <2>1. status' \in Published
    BY <1>0, <1>9, RecordType DEF CheckPublish, ReloadPublish
  <2>2. CASE CheckPublish(r)
    BY <1>0, <2>1, <2>2 DEF TypeOK, Published, CheckPublish, disk, states, reload
  <2>3. CASE ReloadPublish(r)
    BY <1>0, <2>1, <2>3 DEF TypeOK, Published, ReloadPublish, Goto, disk, states, request
  <2> QED BY <1>9, <2>2, <2>3
<1>10. ASSUME NEW r \in Request, ReloadRead(r) PROVE TypeOK'
  BY <1>0, <1>10 DEF TypeOK, ReloadRead, Goto, disk, states, request
<1>11. ASSUME NEW r \in Request, ReloadObserve(r) PROVE TypeOK'
  <2>1. book' \in Book
    BY <1>0, <1>11, ObserveBook DEF ReloadObserve
  <2> QED BY <1>0, <1>11, <2>1 DEF TypeOK, Book, ReloadObserve, Goto, disk, states, request
<1>12. ASSUME NEW r \in Request, ReloadParse(r) PROVE TypeOK'
  <2>1. CASE UNCHANGED <<new, config, index>>
    BY <1>0, <1>12, <2>1 DEF TypeOK, ReloadParse, Goto, disk, request
  <2>2. CASE ~UNCHANGED <<new, config, index>>
    <3>1. PICK s \in Unused : /\ new' = [new EXCEPT ![r] = s]
                              /\ config' = [config EXCEPT ![s] = sha[r]]
                              /\ index' = [index EXCEPT ![s] = IndexOf(sha[r], "nothing")]
      BY <1>12, <2>2 DEF ReloadParse
    <3>2. s \in State /\ sha[r] \in Valid
      BY <1>12, <2>2 DEF Unused, Fresh, Valid, ReloadParse
    <3>3. IndexOf(sha[r], "nothing") \in Index
      BY <1>a, <3>2, IndexOfType
    <3>4. index' \in [State -> Index] /\ config' \in [State -> Valid]
          /\ new' \in [Request -> State \cup {None}]
      BY <1>0, <3>1, <3>2, <3>3 DEF TypeOK
    <3> QED BY <1>0, <1>12, <3>4 DEF TypeOK, ReloadParse, Goto, disk, request
  <2> QED BY <2>1, <2>2
<1>13. ASSUME NEW r \in Request, ReloadIndex(r) PROVE TypeOK'
  <2>1. new[r] \in State /\ sha[r] \in Valid
    BY <1>13 DEF Fresh, Building, ReloadIndex
  <2>2. IndexOf(sha[r], "all") \in Index /\ index[current] \in Index
    BY <1>0, <1>a, <2>1, IndexOfType DEF TypeOK
  <2>3. index' \in [State -> Index]
    BY <1>0, <1>13, <2>1, <2>2 DEF TypeOK, ReloadIndex
  <2> QED BY <1>0, <1>13, <2>3 DEF TypeOK, ReloadIndex, Goto, disk, request
<1>14. ASSUME NEW r \in Request, ReloadWatch(r) PROVE TypeOK'
  <2>1. new[r] \in State
    BY <1>14 DEF Fresh, Building, ReloadWatch
  <2>2. PICK ok \in BOOLEAN : watching' = [watching EXCEPT ![new[r]] = ok]
    BY <1>14 DEF ReloadWatch
  <2> QED BY <1>0, <1>14, <2>1, <2>2 DEF TypeOK, ReloadWatch, Goto, disk, request
<1>15. ASSUME NEW r \in Request, ReloadClose(r) PROVE TypeOK'
  <2>1. new[r] \in State /\ sha[r] \in Valid
    BY <1>15 DEF Fresh, Building, ReloadClose
  <2>2. Recrawled(index[new[r]], sha[r]) \in Index
    BY <1>0, <1>a, <2>1, RecrawledType DEF TypeOK
  <2> QED BY <1>0, <1>15, <2>1, <2>2 DEF TypeOK, ReloadClose, Goto, disk, request
<1>16. ASSUME NEW r \in Request, ReloadStore(r) PROVE TypeOK'
  <2>1. new[r] \in State
    BY <1>16 DEF Fresh, Building, ReloadStore
  <2> QED BY <1>0, <1>16, <2>1 DEF TypeOK, ReloadStore, Goto, disk, states, request
<1>17. ASSUME NEW r \in Request, ReloadBook(r) PROVE TypeOK'
  <2>1. new[r] \in State /\ sha[r] \in Valid
    BY <1>17 DEF Fresh, ReloadBook
  <2>2. book' \in Book /\ retired' \in [Request -> State \cup {None}]
    BY <1>0, <1>17, <2>1 DEF ReloadBook, Book, TypeOK
  <2> QED BY <1>0, <1>17, <2>2 DEF TypeOK, Book, ReloadBook, Goto, disk, states, request
<1>18. ASSUME NEW r \in Request, ReloadCancel(r) PROVE TypeOK'
  BY <1>0, <1>18 DEF TypeOK, ReloadCancel, Goto, disk, request
<1>19. ASSUME NEW r \in Request, ReloadReject(r) PROVE TypeOK'
  <2>1. book' \in Book
    BY <1>0, <1>19 DEF ReloadReject, Book, TypeOK
  <2> QED BY <1>0, <1>19, <2>1 DEF TypeOK, Book, ReloadReject, Goto, disk, states, request
<1>20. ASSUME NEW r \in Request, ReloadPanic(r) \/ ReloadUnlock(r) PROVE TypeOK'
  BY <1>0, <1>20 DEF TypeOK, ReloadPanic, ReloadUnlock, Goto, disk, states, request
<1>21. ASSUME NEW r \in Request, ReloadReread(r) \/ ReloadEnd(r) PROVE TypeOK'
  <2>1. CASE ReloadReread(r)
    BY <1>0, <2>1 DEF TypeOK, ReloadReread, Goto, disk, states, request
  <2>2. CASE ReloadEnd(r)
    BY <1>0, <2>2 DEF TypeOK, ReloadEnd, Goto, disk, states, request
  <2> QED BY <1>21, <2>1, <2>2
<1>22. CASE UNCHANGED vars
  BY <1>0, <1>22 DEF TypeOK, vars, disk, states, request, reload
<1> QED BY <1>1, <1>2, <1>3, <1>4, <1>5, <1>6, <1>7, <1>8, <1>9, <1>10, <1>11, <1>12, <1>13,
           <1>14, <1>15, <1>16, <1>17, <1>18, <1>19, <1>20, <1>21, <1>22
    DEF Next, Edits, Boot, Watchers, Check, Reload

-----------------------------------------------------------------------------
(* One reload at a time                                                     *)

\* A reload's step moves that reload alone.
LEMMA ReloadMovesItself ==
  ASSUME TypeOK, NEW r \in Request, Reload(r)
  PROVE  /\ job[r] # "none"
         /\ \A q \in Request : q # r => /\ job'[q] = job[q] /\ new'[q] = new[q]
                                        /\ sha'[q] = sha[q] /\ retired'[q] = retired[q]
         /\ UNCHANGED <<pc, seen>>
<1> USE DEF TypeOK, Goto, request
<1>1. CASE ReloadRead(r) \/ ReloadObserve(r)
  BY <1>1 DEF ReloadRead, ReloadObserve
<1>2. CASE ReloadParse(r)
  BY <1>2 DEF ReloadParse
<1>3. CASE ReloadIndex(r) \/ ReloadWatch(r) \/ ReloadClose(r)
  BY <1>3 DEF ReloadIndex, ReloadWatch, ReloadClose
<1>4. CASE ReloadStore(r) \/ ReloadBook(r) \/ ReloadCancel(r)
  BY <1>4 DEF ReloadStore, ReloadBook, ReloadCancel
<1>5. CASE ReloadReject(r) \/ ReloadPublish(r) \/ ReloadUnlock(r)
  BY <1>5 DEF ReloadReject, ReloadPublish, ReloadUnlock
<1>6. CASE ReloadEnd(r)
  BY <1>6 DEF ReloadEnd
<1>7. CASE ReloadPanic(r) \/ ReloadReread(r)
  BY <1>7 DEF ReloadPanic, ReloadReread
<1> QED BY <1>1, <1>2, <1>3, <1>4, <1>5, <1>6, <1>7 DEF Reload

\* And while it runs there is no other.
LEMMA Alone ==
  ASSUME TypeOK, OneReload, NEW r \in Request, Reload(r), NEW q \in Request, q # r
  PROVE  job[q] = "none" /\ job'[q] = "none"
BY ReloadMovesItself DEF OneReload, Reloading

\* Where a reload's step leads, and what it does to the flag and the gate.
LEMMA ReloadFlags ==
  ASSUME TypeOK, NEW r \in Request, Reload(r)
  PROVE  /\ job'[r] = "none" <=> job[r] = "end"
         /\ job[r] = "end" => ~reloading'
         /\ job[r] # "end" => reloading' = reloading
         /\ job'[r] # "read"
         /\ gate' => \/ gate /\ job'[r] \in Holding
                     \/ gate /\ job[r] \in {"reread", "end", "read"}
                     \/ ~gate /\ job[r] = "read" /\ job'[r] \in Holding
<1> USE DEF TypeOK, Goto, Holding, Building
<1>1. CASE ReloadRead(r)
  BY <1>1 DEF ReloadRead
<1>2. CASE ReloadObserve(r) \/ ReloadParse(r)
  BY <1>2 DEF ReloadParse, ReloadObserve
<1>3. CASE ReloadIndex(r) \/ ReloadWatch(r) \/ ReloadClose(r)
  <2>1. job[r] \in {"index", "watch", "close"} /\ UNCHANGED <<gate, reloading>>
        /\ job'[r] \in {"watch", "close", "store"}
    BY <1>3 DEF ReloadIndex, ReloadWatch, ReloadClose
  <2> QED BY <2>1
<1>4. CASE ReloadStore(r) \/ ReloadBook(r) \/ ReloadCancel(r)
  BY <1>4 DEF ReloadStore, ReloadBook, ReloadCancel
<1>5. CASE ReloadReject(r) \/ ReloadPublish(r) \/ ReloadUnlock(r)
  BY <1>5 DEF ReloadReject, ReloadPublish, ReloadUnlock
<1>6. CASE ReloadEnd(r)
  BY <1>6 DEF ReloadEnd
<1>7. CASE ReloadPanic(r) \/ ReloadReread(r)
  BY <1>7 DEF ReloadPanic, ReloadReread
<1> QED BY <1>1, <1>2, <1>3, <1>4, <1>5, <1>6, <1>7 DEF Reload

\* What happens outside a request leaves the reloads alone.
Outside == Edits \/ Boot \/ Watchers \/ UNCHANGED vars

LEMMA OutsideKeeps ==
  ASSUME Outside
  PROVE  UNCHANGED <<config, current, book, reloading, gate, request, reload>>
<1>1. CASE Edits \/ Watchers
  BY <1>1 DEF Edits, Watchers, EditTree, EditConfig, WatcherReload, states
<1>2. CASE Boot
  BY <1>2 DEF Boot, Ingest, StartWatcher, CloseBootGap, PublishFirst, states
<1>3. CASE UNCHANGED vars
  BY <1>3 DEF vars, states
<1> QED BY <1>1, <1>2, <1>3 DEF Outside

\* And a request's check only ever starts one.
LEMMA CheckKeeps ==
  ASSUME TypeOK, NEW r \in Request, Check(r)
  PROVE  /\ UNCHANGED <<disk, states, boot, current, gate, sha, new, retired>>
         /\ book'.serving = book.serving /\ book'.watcher = book.watcher
         /\ UNCHANGED <<job, reloading>> \/ CheckSwap(r)
         /\ CheckSwap(r) => UNCHANGED <<book, status>>
<1>1. CASE CheckRead(r) \/ CheckPublish(r)
  BY <1>1 DEF CheckRead, CheckPublish, CheckSwap, reload
<1>2. CASE CheckObserve(r)
  BY <1>2, ObserveBook DEF CheckObserve, CheckSwap, reload
<1>3. CASE CheckSwap(r)
  BY <1>3 DEF CheckSwap
<1> QED BY <1>1, <1>2, <1>3 DEF Check

LEMMA StepKinds ==
  ASSUME [Next]_vars
  PROVE  Outside \/ \E r \in Request : Check(r) \/ Reload(r)
BY DEF Next, Outside

LEMMA NextOneReload == ASSUME HInv, [Next]_vars PROVE OneReload' /\ GateOwned'
<1> USE DEF HInv
<1>1. CASE Outside
  <2>1. UNCHANGED <<reloading, gate, job>>
    BY <1>1, OutsideKeeps DEF reload
  <2> QED BY <2>1 DEF OneReload, GateOwned, Reloading
<1>2. ASSUME NEW r \in Request, Check(r) PROVE OneReload' /\ GateOwned'
  <2>1. CASE UNCHANGED <<job, reloading>>
    BY <1>2, <2>1, CheckKeeps DEF OneReload, GateOwned, Reloading
  <2>2. CASE CheckSwap(r) /\ reloading
    <3>1. UNCHANGED <<job, gate>> /\ reloading' = TRUE
      BY <2>2 DEF CheckSwap
    <3> QED BY <2>2, <3>1 DEF OneReload, GateOwned, Reloading
  <2>3. CASE CheckSwap(r) /\ ~reloading
    <3>1. job' = [job EXCEPT ![r] = "read"] /\ reloading' = TRUE /\ UNCHANGED gate
      BY <2>3 DEF CheckSwap
    <3>2. \A q \in Request : job[q] = "none"
      BY <2>3 DEF OneReload, Reloading
    <3>3. ~gate
      BY <3>2 DEF GateOwned, Holding, Building
    <3>4. \A q \in Request : job'[q] = IF q = r THEN "read" ELSE "none"
      BY <3>1, <3>2 DEF TypeOK
    <3> QED BY <3>1, <3>3, <3>4 DEF OneReload, GateOwned, Reloading
  <2> QED BY <1>2, <2>1, <2>2, <2>3, CheckKeeps
<1>3. ASSUME NEW r \in Request, Reload(r) PROVE OneReload' /\ GateOwned'
  <2>1. \A q \in Request : q # r => job'[q] = "none"
    BY <1>3, Alone
  <2>2. job[r] # "none" /\ reloading
    BY <1>3, ReloadMovesItself DEF OneReload, Reloading
  <2>3. /\ job'[r] = "none" <=> job[r] = "end"
        /\ job[r] = "end" => ~reloading'
        /\ job[r] # "end" => reloading' = reloading
        /\ job'[r] # "read"
    BY <1>3, ReloadFlags
  <2>4. OneReload'
    BY <2>1, <2>2, <2>3 DEF OneReload, Reloading
  <2>5. gate => job[r] \in Holding
    BY <1>3, Alone DEF GateOwned, Holding, Building
  <2>6. gate' => job'[r] \in Holding
    BY <1>3, <2>5, ReloadFlags DEF Holding, Building
  <2>7. GateOwned'
    BY <2>6 DEF GateOwned
  <2> QED BY <2>4, <2>7
<1> QED BY <1>1, <1>2, <1>3, StepKinds

-----------------------------------------------------------------------------
(* The state under construction and the book                                *)

\* The start's tasks only ever get fewer.
LEMMA BootEnds == ASSUME Outside, Booting' PROVE Booting
BY DEF Outside, Booting, Edits, EditTree, EditConfig, Watchers, WatcherReload, Boot, Ingest,
       StartWatcher, CloseBootGap, PublishFirst, vars

\* A check that starts a reload finds none, and its locals do not matter yet.
LEMMA CheckStarts ==
  ASSUME TypeOK, OneReload, NEW r \in Request, Check(r), NEW q \in Request
  PROVE  job'[q] = job[q] \/ (job[q] = "none" /\ job'[q] = "read")
<1>1. CASE UNCHANGED job
  BY <1>1
<1>2. CASE ~UNCHANGED job
  <2>1. CheckSwap(r)
    BY <1>2, CheckKeeps
  <2>2. ~reloading /\ job' = [job EXCEPT ![r] = "read"]
    BY <1>2, <2>1 DEF CheckSwap
  <2>3. job[q] = "none"
    BY <2>2 DEF OneReload, Reloading
  <2> QED BY <2>2, <2>3 DEF TypeOK
<1> QED BY <1>1, <1>2

\* A picked state is nobody's.
LEMMA ParsePicks ==
  ASSUME HInv, NEW r \in Request, ReloadParse(r)
  PROVE  \/ job'[r] = "reject" /\ UNCHANGED <<new, config, index>>
         \/ /\ job'[r] = "index" /\ new'[r] \in State /\ sha[r] \in Valid
            /\ new'[r] # current /\ new'[r] # book.watcher /\ ~watching[new'[r]]
            /\ ~pending[new'[r]] /\ (Booting => new'[r] # 1)
            /\ config' = [config EXCEPT ![new'[r]] = sha[r]]
            /\ index' = [index EXCEPT ![new'[r]] = IndexOf(sha[r], "nothing")]
<1>1. TypeOK /\ job[r] = "parse" /\ sha[r] \in Config
  BY DEF HInv, Fresh, ReloadParse
<1>2. CASE sha[r] \in Invalid
  BY <1>1, <1>2 DEF ReloadParse, Goto, TypeOK
<1>3. CASE sha[r] \notin Invalid
  <2>1. PICK s \in Unused : /\ new' = [new EXCEPT ![r] = s]
                            /\ config' = [config EXCEPT ![s] = sha[r]]
                            /\ index' = [index EXCEPT ![s] = IndexOf(sha[r], "nothing")]
    BY <1>3 DEF ReloadParse
  <2>2. /\ s \in State /\ s # current /\ s # book.watcher /\ ~watching[s] /\ ~pending[s]
        /\ (Booting => s # 1)
    BY DEF Unused, Booting
  <2>3. new'[r] = s /\ job'[r] = "index"
    BY <1>1, <1>3, <2>1 DEF TypeOK, ReloadParse, Goto
  <2>4. sha[r] \in Valid
    BY <1>1, <1>3 DEF Valid
  <2> QED BY <2>1, <2>2, <2>3, <2>4
<1> QED BY <1>2, <1>3

LEMMA NextFresh == ASSUME HInv, [Next]_vars, NEW q \in Request PROVE Fresh(q)'
<1> USE DEF HInv
<1>0. TypeOK /\ OneReload /\ Fresh(q)
  OBVIOUS
<1>1. CASE Outside
  <2>1. UNCHANGED <<config, current, book, job, sha, new, retired>>
    BY <1>1, OutsideKeeps DEF reload
  <2>2. Booting' => Booting
    BY <1>1, BootEnds
  <2> QED BY <1>0, <2>1, <2>2 DEF Fresh
<1>2. ASSUME NEW r \in Request, Check(r) PROVE Fresh(q)'
  <2>1. UNCHANGED <<config, boot, current, sha, new, retired>> /\ book'.watcher = book.watcher
    BY <1>0, <1>2, CheckKeeps DEF states
  <2>2. job'[q] = job[q] \/ job'[q] = "read"
    BY <1>0, <1>2, CheckStarts
  <2> QED BY <1>0, <2>1, <2>2 DEF Fresh, Booting, Building
<1>3. ASSUME NEW r \in Request, Reload(r), q # r PROVE Fresh(q)'
  <2>1. job'[q] = "none"
    BY <1>0, <1>3, Alone
  <2> QED BY <2>1 DEF Fresh, Building
<1>4. ASSUME Reload(q) PROVE Fresh(q)'
  <2> USE DEF Goto, Building
  <2>1. CASE ReloadRead(q)
    <3>1. CASE gate
      BY <1>0, <2>1, <3>1 DEF ReloadRead, Fresh, TypeOK
    <3>2. CASE ~gate
      <4>1. /\ job'[q] \in {"unlock", "reject", "observe"}
            /\ job'[q] = "observe" => file \in Config /\ sha'[q] = file
        BY <1>0, <2>1, <3>2 DEF ReloadRead, TypeOK
      <4> QED BY <4>1 DEF Fresh
    <3> QED BY <3>1, <3>2
  <2>2. CASE ReloadObserve(q)
    <3>1. job[q] = "observe" /\ UNCHANGED sha /\ job'[q] \in {"publish", "parse", "unlock"}
      BY <1>0, <2>2 DEF ReloadObserve, TypeOK
    <3> QED BY <1>0, <3>1 DEF Fresh
  <2>3. CASE ReloadParse(q)
    <3>1. UNCHANGED <<sha, current, boot>>
      BY <2>3 DEF ReloadParse
    <3>2. CASE job'[q] = "reject"
      BY <3>2 DEF Fresh
    <3>3. CASE job'[q] # "reject"
      <4>1. /\ job'[q] = "index" /\ new'[q] \in State /\ sha[q] \in Valid
            /\ new'[q] # current /\ (Booting => new'[q] # 1)
            /\ config' = [config EXCEPT ![new'[q]] = sha[q]]
        BY <2>3, <3>3, ParsePicks
      <4>2. config'[new'[q]] = sha[q]
        BY <1>0, <4>1 DEF TypeOK
      <4> QED BY <3>1, <4>1, <4>2 DEF Fresh, Booting
    <3> QED BY <3>2, <3>3
  <2>4. CASE ReloadIndex(q) \/ ReloadWatch(q) \/ ReloadClose(q)
    <3>1. UNCHANGED <<config, current, boot, sha, new>>
      BY <2>4 DEF ReloadIndex, ReloadWatch, ReloadClose
    <3>2. job[q] \in Building /\ job'[q] \in Building
      BY <1>0, <2>4 DEF ReloadIndex, ReloadWatch, ReloadClose, TypeOK
    <3> QED BY <1>0, <3>1, <3>2 DEF Fresh, Booting
  <2>5. CASE ReloadStore(q)
    <3>1. /\ UNCHANGED <<config, book, sha, new>> /\ current' = new[q]
          /\ job[q] = "store" /\ job'[q] = "book"
      BY <1>0, <2>5 DEF ReloadStore, TypeOK, states
    <3>2. book.watcher = current
      <4>1. \A r \in Request : job[r] # "book"
        BY <1>0, <1>4, <3>1, Alone
      <4> QED BY <4>1 DEF BookDescribesServed
    <3> QED BY <1>0, <3>1, <3>2 DEF Fresh
  <2>6. CASE ReloadBook(q)
    <3>1. /\ UNCHANGED current /\ retired'[q] = book.watcher /\ job[q] = "book"
          /\ job'[q] = "cancel" /\ book.watcher \in State
      BY <1>0, <2>6 DEF ReloadBook, TypeOK
    <3> QED BY <1>0, <3>1 DEF Fresh
  <2>7. CASE ReloadCancel(q) \/ ReloadReject(q) \/ ReloadPublish(q) \/ ReloadPanic(q)
             \/ ReloadReread(q) \/ ReloadUnlock(q)
    <3>1. job'[q] \in {"publish", "unlock", "reread", "reject", "end"}
      BY <1>0, <2>7 DEF ReloadCancel, ReloadReject, ReloadPublish, ReloadPanic, ReloadReread,
                        ReloadUnlock, TypeOK
    <3> QED BY <3>1 DEF Fresh
  <2>8. CASE ReloadEnd(q)
    BY <1>0, <2>8 DEF ReloadEnd, Fresh, TypeOK
  <2> QED BY <1>4, <2>1, <2>2, <2>3, <2>4, <2>5, <2>6, <2>7, <2>8 DEF Reload
<1> QED BY <1>1, <1>2, <1>3, <1>4, StepKinds

LEMMA NextBook == ASSUME HInv, [Next]_vars PROVE BookDescribesServed'
<1> USE DEF HInv
<1>0. TypeOK /\ OneReload /\ BookDescribesServed /\ \A r \in Request : Fresh(r)
  OBVIOUS
<1>1. CASE Outside
  <2>1. UNCHANGED <<config, current, book, job>>
    BY <1>1, OutsideKeeps DEF reload
  <2> QED BY <1>0, <2>1 DEF BookDescribesServed
<1>2. ASSUME NEW r \in Request, Check(r) PROVE BookDescribesServed'
  <2>1. /\ UNCHANGED <<config, current>>
        /\ book'.serving = book.serving /\ book'.watcher = book.watcher
    BY <1>0, <1>2, CheckKeeps DEF states
  <2>2. \A q \in Request : job[q] = "book" => job'[q] = "book"
    BY <1>0, <1>2, CheckStarts
  <2> QED BY <1>0, <2>1, <2>2 DEF BookDescribesServed
<1>3. ASSUME NEW r \in Request, Reload(r) PROVE BookDescribesServed'
  <2>0. \A q \in Request : q # r => job[q] = "none"
    BY <1>0, <1>3, Alone
  <2>1. CASE ReloadBook(r)
    <3>1. job[r] = "book" /\ book'.serving = sha[r] /\ book'.watcher = new[r]
          /\ UNCHANGED <<config, current>>
      BY <2>1 DEF ReloadBook, states
    <3> QED BY <1>0, <3>1 DEF BookDescribesServed, Fresh
  <2>2. CASE ReloadStore(r)
    <3>1. job'[r] = "book"
      BY <1>0, <2>2 DEF ReloadStore, Goto, TypeOK
    <3> QED BY <3>1 DEF BookDescribesServed
  <2>3. CASE ~ReloadBook(r) /\ ~ReloadStore(r)
    <3>1. job[r] # "book" /\ UNCHANGED current
          /\ book'.serving = book.serving /\ book'.watcher = book.watcher
      <4>1. CASE ReloadObserve(r)
        BY <1>0, <4>1, ObserveBook DEF ReloadObserve
      <4>2. CASE ReloadReject(r)
        BY <1>0, <4>2 DEF ReloadReject, TypeOK
      <4>3. CASE ReloadRead(r) \/ ReloadParse(r) \/ ReloadIndex(r) \/ ReloadWatch(r)
                 \/ ReloadClose(r)
        BY <4>3 DEF ReloadRead, ReloadParse, ReloadIndex, ReloadWatch, ReloadClose
      <4>4. CASE ReloadCancel(r) \/ ReloadPublish(r) \/ ReloadUnlock(r) \/ ReloadEnd(r)
                 \/ ReloadPanic(r) \/ ReloadReread(r)
        BY <4>4 DEF ReloadCancel, ReloadPublish, ReloadUnlock, ReloadEnd, ReloadPanic,
                    ReloadReread
      <4> QED BY <1>3, <2>3, <4>1, <4>2, <4>3, <4>4 DEF Reload
    <3>2. config'[current] = config[current]
      <4>1. CASE ReloadParse(r)
        BY <1>0, <4>1, ParsePicks DEF TypeOK
      <4>2. CASE ~ReloadParse(r)
        <5>1. UNCHANGED config
          BY <1>3, <2>3, <4>2 DEF Reload, ReloadRead, ReloadObserve, ReloadIndex, ReloadWatch,
             ReloadClose, ReloadCancel, ReloadReject, ReloadPublish, ReloadUnlock, ReloadEnd,
             ReloadPanic, ReloadReread, states
        <5> QED BY <5>1
      <4> QED BY <4>1, <4>2
    <3>3. \A q \in Request : job[q] # "book"
      BY <2>0, <3>1
    <3> QED BY <1>0, <3>1, <3>2, <3>3 DEF BookDescribesServed
  <2> QED BY <2>1, <2>2, <2>3
<1> QED BY <1>1, <1>2, <1>3, StepKinds

-----------------------------------------------------------------------------
(* What is served                                                           *)

\* Outside a request an index is never extracted under other settings than
\* its state's, and its tree only gets newer.
LEMMA OutsideIndexes ==
  ASSUME HInv, Outside, NEW s \in State
  PROVE  \/ /\ index'[s].inputs = index[s].inputs /\ index'[s].patterns = index[s].patterns
         \/ /\ s = 1 /\ Booting
            /\ index'[s].inputs = Inputs[config[s]] /\ index'[s].patterns = Patterns[config[s]]
<1>0. TypeOK /\ tree \in 0..MaxTreeEdits /\ 1 \in State
  BY DEF HInv, TypeOK, State
<1>1. ASSUME NEW t \in State, NEW full \in BOOLEAN, WatcherReload(t, full)
      PROVE  index'[s].inputs = index[s].inputs /\ index'[s].patterns = index[s].patterns
  <2>1. index' = [index EXCEPT ![t] = Refreshed(index[t], full)]
    BY <1>1 DEF WatcherReload
  <2>2. /\ Refreshed(index[t], full).inputs = index[t].inputs
        /\ Refreshed(index[t], full).patterns = index[t].patterns
    BY <1>0, RefreshedType DEF TypeOK
  <2> QED BY <1>0, <2>1, <2>2 DEF TypeOK
<1>2. CASE Ingest \/ CloseBootGap
  <2>1. index' = [index EXCEPT ![1] = IndexOf(config[1], "all")] /\ Booting
    BY <1>2 DEF Ingest, CloseBootGap, Booting
  <2>2. config[1] \in Valid
    BY <1>0 DEF TypeOK
  <2>3. /\ IndexOf(config[1], "all").inputs = Inputs[config[1]]
        /\ IndexOf(config[1], "all").patterns = Patterns[config[1]]
    BY <1>0, <2>2, IndexOfType
  <2> QED BY <1>0, <2>1, <2>3 DEF TypeOK
<1>3. CASE Edits \/ StartWatcher \/ PublishFirst \/ UNCHANGED vars
  <2>1. UNCHANGED index
    BY <1>3 DEF Edits, EditTree, EditConfig, StartWatcher, PublishFirst, vars, states
  <2> QED BY <2>1
<1> QED BY <1>1, <1>2, <1>3 DEF Outside, Boot, Watchers

LEMMA NextFits == ASSUME HInv, [Next]_vars, NEW q \in Request PROVE Fits(q)'
<1> USE DEF HInv
<1>0. TypeOK /\ OneReload /\ Fresh(q) /\ Fits(q) /\ tree \in 0..MaxTreeEdits
  BY DEF TypeOK
<1>1. CASE Outside
  <2>1. UNCHANGED <<config, current, job, sha, new>>
    BY <1>1, OutsideKeeps DEF reload
  <2>2. Kind(sha[q])' = Kind(sha[q])
    BY <2>1 DEF Kind
  <2>3. ASSUME job[q] \in {"watch", "close", "store"}
        PROVE  /\ index'[new[q]].inputs = index[new[q]].inputs
               /\ index'[new[q]].patterns = index[new[q]].patterns
    <3>1. new[q] \in State /\ (Booting => new[q] # 1)
      BY <1>0, <2>3 DEF Fresh, Building
    <3> QED BY <1>1, <3>1, OutsideIndexes
  <2> QED BY <1>0, <2>1, <2>2, <2>3 DEF Fits
<1>2. ASSUME NEW r \in Request, Check(r) PROVE Fits(q)'
  <2>1. UNCHANGED <<config, index, current, sha, new>>
    BY <1>0, <1>2, CheckKeeps DEF states
  <2>2. job'[q] = job[q] \/ job'[q] = "read"
    BY <1>0, <1>2, CheckStarts
  <2>3. Kind(sha[q])' = Kind(sha[q])
    BY <2>1 DEF Kind
  <2> QED BY <1>0, <2>1, <2>2, <2>3 DEF Fits
<1>3. ASSUME NEW r \in Request, Reload(r), q # r PROVE Fits(q)'
  <2>1. job'[q] = "none"
    BY <1>0, <1>3, Alone
  <2> QED BY <2>1 DEF Fits
<1>4. ASSUME Reload(q) PROVE Fits(q)'
  <2> USE DEF Goto
  <2>1. CASE ReloadIndex(q)
    <3>1. /\ job[q] = "index" /\ job'[q] = "watch" /\ UNCHANGED <<config, current, sha, new>>
          /\ index' = [index EXCEPT ![new[q]] =
               IF Kind(sha[q]) = "full" THEN IndexOf(sha[q], "all") ELSE index[current]]
      BY <1>0, <2>1 DEF ReloadIndex, TypeOK
    <3>2. new[q] \in State /\ sha[q] \in Valid
      BY <1>0, <3>1 DEF Fresh, Building
    <3>3. index'[new[q]] = IF Kind(sha[q]) = "full" THEN IndexOf(sha[q], "all")
                           ELSE index[current]
      BY <1>0, <3>1, <3>2 DEF TypeOK
    <3>4. /\ IndexOf(sha[q], "all").inputs = Inputs[sha[q]]
          /\ IndexOf(sha[q], "all").patterns = Patterns[sha[q]]
      BY <1>0, <3>2, IndexOfType
    <3>5. Kind(sha[q])' = Kind(sha[q])
      BY <3>1 DEF Kind
    <3>6. CASE Kind(sha[q]) = "full"
      BY <3>1, <3>3, <3>4, <3>6 DEF Fits
    <3>7. CASE Kind(sha[q]) # "full"
      <4>1. index'[new[q]] = index[current]
        BY <3>3, <3>7
      <4>2. /\ Inputs[config[current]] = Inputs[sha[q]]
            /\ Patterns[config[current]] = Patterns[sha[q]] \/ Kind(sha[q]) = "partial"
        BY <3>7 DEF Kind
      <4> QED BY <3>1, <3>5, <4>1, <4>2 DEF Fits, ServedUnderOwnConfig
    <3> QED BY <3>6, <3>7
  <2>2. CASE ReloadWatch(q)
    <3>1. /\ job[q] = "watch" /\ job'[q] = "close" /\ UNCHANGED <<config, current, sha, new, index>>
      BY <1>0, <2>2 DEF ReloadWatch, TypeOK
    <3>2. Kind(sha[q])' = Kind(sha[q])
      BY <3>1 DEF Kind
    <3> QED BY <1>0, <3>1, <3>2 DEF Fits
  <2>3. CASE ReloadClose(q)
    <3>1. /\ job[q] = "close" /\ job'[q] = "store" /\ UNCHANGED <<sha, new>>
          /\ index' = [index EXCEPT ![new[q]] = Recrawled(index[new[q]], sha[q])]
      BY <1>0, <2>3 DEF ReloadClose, TypeOK
    <3>2. new[q] \in State /\ sha[q] \in Valid
      BY <1>0, <3>1 DEF Fresh, Building
    <3>3. index'[new[q]] = Recrawled(index[new[q]], sha[q]) /\ index[new[q]] \in Index
      BY <1>0, <3>1, <3>2 DEF TypeOK
    <3>4. /\ index'[new[q]].inputs = index[new[q]].inputs
          /\ index'[new[q]].patterns = IF Kind(sha[q]) = "partial" THEN Patterns[sha[q]]
                                       ELSE index[new[q]].patterns
      BY <1>0, <3>2, <3>3, RecrawledType
    <3> QED BY <1>0, <3>1, <3>4 DEF Fits
  <2>4. CASE ~ReloadIndex(q) /\ ~ReloadWatch(q) /\ ~ReloadClose(q)
    <3>1. job'[q] \notin {"watch", "close", "store"}
      <4>1. CASE ReloadRead(q) \/ ReloadObserve(q) \/ ReloadParse(q)
        BY <1>0, <4>1 DEF ReloadRead, ReloadObserve, ReloadParse, TypeOK
      <4>2. CASE ReloadStore(q) \/ ReloadBook(q) \/ ReloadCancel(q) \/ ReloadReject(q)
        BY <1>0, <4>2 DEF ReloadStore, ReloadBook, ReloadCancel, ReloadReject, TypeOK
      <4>3. CASE ReloadPublish(q) \/ ReloadUnlock(q) \/ ReloadEnd(q) \/ ReloadPanic(q)
                 \/ ReloadReread(q)
        BY <1>0, <4>3 DEF ReloadPublish, ReloadUnlock, ReloadEnd, ReloadPanic, ReloadReread,
                          TypeOK
      <4> QED BY <1>4, <2>4, <4>1, <4>2, <4>3 DEF Reload
    <3> QED BY <3>1 DEF Fits
  <2> QED BY <2>1, <2>2, <2>3, <2>4
<1> QED BY <1>1, <1>2, <1>3, <1>4, StepKinds

\* The steps of a reload but the swap leave the state that serves alone.
LEMMA ReloadSparesServed ==
  ASSUME HInv, NEW r \in Request, Reload(r), ~ReloadStore(r)
  PROVE  /\ UNCHANGED <<current, tree, boot>>
         /\ config'[current] = config[current] /\ index'[current] = index[current]
         /\ watching'[current] = watching[current] /\ pending'[current] = pending[current]
<1>0. TypeOK /\ Fresh(r)
  BY DEF HInv
<1>1. CASE ReloadParse(r)
  <2>1. UNCHANGED <<current, tree, boot, watching, pending>>
    BY <1>1 DEF ReloadParse, disk
  <2> QED BY <1>0, <1>1, <2>1, ParsePicks DEF TypeOK
<1>2. CASE ReloadIndex(r) \/ ReloadClose(r)
  <2>1. UNCHANGED <<current, tree, boot, watching, pending, config>>
    BY <1>2 DEF ReloadIndex, ReloadClose, disk
  <2>2. new[r] # current
    BY <1>0, <1>2 DEF Fresh, ReloadIndex, ReloadClose, Building
  <2>3. index'[current] = index[current]
    BY <1>0, <1>2, <2>2 DEF TypeOK, ReloadIndex, ReloadClose
  <2> QED BY <2>1, <2>3
<1>3. CASE ReloadWatch(r)
  <2>1. UNCHANGED <<current, tree, boot, index, pending, config>>
    BY <1>3 DEF ReloadWatch, disk
  <2>2. new[r] # current
    BY <1>0, <1>3 DEF Fresh, ReloadWatch, Building
  <2>3. watching'[current] = watching[current]
    BY <1>0, <1>3, <2>2 DEF TypeOK, ReloadWatch
  <2> QED BY <2>1, <2>3
<1>4. CASE ReloadCancel(r)
  <2>1. UNCHANGED <<current, tree, boot, index, config>>
    BY <1>4 DEF ReloadCancel, disk
  <2>2. retired[r] # current
    BY <1>0, <1>4 DEF Fresh, ReloadCancel
  <2>3. watching'[current] = watching[current] /\ pending'[current] = pending[current]
    BY <1>0, <1>4, <2>2 DEF TypeOK, ReloadCancel
  <2> QED BY <2>1, <2>3
<1>5. CASE ReloadRead(r) \/ ReloadObserve(r) \/ ReloadBook(r) \/ ReloadReject(r)
           \/ ReloadPublish(r)
  BY <1>5 DEF ReloadRead, ReloadObserve, ReloadBook, ReloadReject, ReloadPublish, disk, states
<1>6. CASE ReloadUnlock(r) \/ ReloadEnd(r) \/ ReloadPanic(r) \/ ReloadReread(r)
  BY <1>6 DEF ReloadUnlock, ReloadEnd, ReloadPanic, ReloadReread, disk, states
<1> QED BY <1>1, <1>2, <1>3, <1>4, <1>5, <1>6 DEF Reload

LEMMA NextServed == ASSUME HInv, [Next]_vars PROVE ServedUnderOwnConfig'
<1> USE DEF HInv
<1>0. TypeOK /\ ServedUnderOwnConfig /\ current \in State
  BY DEF TypeOK
<1>1. CASE Outside
  <2>1. UNCHANGED <<config, current>>
    BY <1>1, OutsideKeeps
  <2> QED BY <1>0, <1>1, <2>1, OutsideIndexes DEF ServedUnderOwnConfig
<1>2. ASSUME NEW r \in Request, Check(r) PROVE ServedUnderOwnConfig'
  <2>1. UNCHANGED <<config, index, current>>
    BY <1>0, <1>2, CheckKeeps DEF states
  <2> QED BY <1>0, <2>1 DEF ServedUnderOwnConfig
<1>3. ASSUME NEW r \in Request, Reload(r) PROVE ServedUnderOwnConfig'
  <2>1. CASE ReloadStore(r)
    <3>1. job[r] = "store" /\ current' = new[r] /\ UNCHANGED <<config, index>>
      BY <2>1 DEF ReloadStore, states
    <3>2. /\ index[new[r]].inputs = Inputs[sha[r]] /\ index[new[r]].patterns = Patterns[sha[r]]
          /\ config[new[r]] = sha[r]
      BY <3>1 DEF Fits, Fresh, Building
    <3> QED BY <3>1, <3>2 DEF ServedUnderOwnConfig
  <2>2. CASE ~ReloadStore(r)
    BY <1>0, <1>3, <2>2, ReloadSparesServed DEF ServedUnderOwnConfig
  <2> QED BY <2>1, <2>2
<1> QED BY <1>1, <1>2, <1>3, StepKinds

\* An edit of the tree is in the index of s or its watcher knows of it.
Knows(s) == index[s].tree = tree \/ pending[s]

\* Outside a request, a watcher comes to be only with the gap still to close,
\* and one that knows keeps knowing.
LEMMA OutsideKnows ==
  ASSUME HInv, Outside, NEW s \in State, watching'[s]
  PROVE  /\ \/ watching[s] /\ (Knows(s) => Knows(s)')
            \/ s = 1 /\ Booting /\ "close" \in boot'
         /\ s = 1 /\ "close" \in boot => "close" \in boot' \/ Knows(s)'
<1>0. TypeOK /\ tree \in 0..MaxTreeEdits /\ 1 \in State
  BY DEF HInv, TypeOK, State
<1>1. CASE EditTree
  <2>1. UNCHANGED <<watching, boot>> /\ pending'[s] = (pending[s] \/ watching[s])
    BY <1>1 DEF EditTree
  <2> QED BY <2>1 DEF Knows
<1>2. ASSUME NEW t \in State, NEW full \in BOOLEAN, WatcherReload(t, full)
      PROVE  watching[s] /\ (Knows(s) => Knows(s)') /\ UNCHANGED boot
  <2>1. /\ index' = [index EXCEPT ![t] = Refreshed(index[t], full)]
        /\ pending' = [pending EXCEPT ![t] = FALSE] /\ UNCHANGED <<watching, boot, tree>>
    BY <1>2 DEF WatcherReload, disk
  <2>2. CASE t = s
    <3>1. Refreshed(index[t], full).tree = tree
      BY <1>0, RefreshedType DEF TypeOK
    <3> QED BY <1>0, <2>1, <2>2, <3>1 DEF Knows, TypeOK
  <2>3. CASE t # s
    BY <1>0, <2>1, <2>3 DEF Knows, TypeOK
  <2> QED BY <2>1, <2>2, <2>3
<1>3. CASE Ingest \/ CloseBootGap
  <2>1. /\ index' = [index EXCEPT ![1] = IndexOf(config[1], "all")]
        /\ UNCHANGED <<watching, pending, tree>>
    BY <1>3 DEF Ingest, CloseBootGap, disk
  <2>2. config[1] \in Valid
    BY <1>0 DEF TypeOK
  <2>3. IndexOf(config[1], "all").tree = tree
    BY <1>0, <2>2, IndexOfType
  <2>4. s = 1 => Knows(s)'
    BY <1>0, <2>1, <2>3 DEF Knows, TypeOK
  <2>5. s # 1 => (Knows(s) => Knows(s)')
    BY <1>0, <2>1 DEF Knows, TypeOK
  <2> QED BY <2>1, <2>4, <2>5
<1>4. CASE StartWatcher
  <2>1. UNCHANGED <<index, pending, tree>> /\ Booting
    BY <1>4 DEF StartWatcher, Booting, disk
  <2>2. CASE boot' = (boot \ {"watch"}) \cup {"close"} /\ watching' = [watching EXCEPT ![1] = ~Cancelled(1)]
    <3>1. "close" \in boot'
      BY <2>2
    <3>2. s # 1 => watching[s]
      BY <1>0, <2>2 DEF TypeOK
    <3> QED BY <2>1, <3>1, <3>2 DEF Knows
  <2>3. CASE boot' = boot \ {"watch"} /\ UNCHANGED watching
    <3>1. "close" \in boot => "close" \in boot'
      BY <2>3
    <3> QED BY <2>1, <2>3, <3>1 DEF Knows
  <2> QED BY <1>4, <2>2, <2>3 DEF StartWatcher
<1>5. CASE PublishFirst \/ UNCHANGED vars \/ \E x \in Config \cup {Missing, Unreadable} : EditConfig(x)
  <2>1. UNCHANGED <<index, pending, tree, watching>> /\ ("close" \in boot => "close" \in boot')
    BY <1>5 DEF PublishFirst, EditConfig, vars, states, disk
  <2> QED BY <2>1 DEF Knows
<1> QED BY <1>1, <1>2, <1>3, <1>4, <1>5 DEF Outside, Edits, Boot, Watchers

LEMMA NextNoEditLost == ASSUME HInv, [Next]_vars PROVE NoEditLost'
<1> USE DEF HInv
<1>0. TypeOK /\ NoEditLost /\ current \in State
  BY DEF TypeOK
<1>1. CASE Outside
  <2>1. UNCHANGED current
    BY <1>1, OutsideKeeps
  <2> SUFFICES ASSUME watching'[current], current = 1 => "close" \notin boot'
               PROVE  Knows(current)'
    BY <2>1 DEF NoEditLost, Knows
  <2>2. /\ watching[current] /\ (Knows(current) => Knows(current)')
        /\ current = 1 /\ "close" \in boot => Knows(current)'
    <3> DEFINE s == current
    <3>1. s \in State /\ watching'[s] /\ (s = 1 => "close" \notin boot') /\ s' = s
      BY <1>0, <2>1
    <3> HIDE DEF s
    <3>2. /\ \/ watching[s] /\ (Knows(s) => index'[s].tree = tree' \/ pending'[s])
             \/ s = 1 /\ Booting /\ "close" \in boot'
          /\ s = 1 /\ "close" \in boot => "close" \in boot' \/ index'[s].tree = tree' \/ pending'[s]
      BY <1>1, <3>1, OutsideKnows DEF Knows
    <3> QED BY <3>1, <3>2 DEF s, Knows
  <2>3. current = 1 => "close" \in boot \/ Knows(current)
    BY <2>2 DEF NoEditLost, Knows
  <2> QED BY <2>2, <2>3 DEF NoEditLost, Knows
<1>2. ASSUME NEW r \in Request, Check(r) PROVE NoEditLost'
  <2>1. UNCHANGED <<index, watching, pending, current, tree, boot>>
    BY <1>0, <1>2, CheckKeeps DEF states, disk
  <2> QED BY <1>0, <2>1 DEF NoEditLost
<1>3. ASSUME NEW r \in Request, Reload(r) PROVE NoEditLost'
  <2>1. CASE ReloadStore(r)
    <3>1. job[r] = "store" /\ current' = new[r] /\ UNCHANGED <<index, watching, pending, tree>>
      BY <2>1 DEF ReloadStore, states, disk
    <3> QED BY <3>1 DEF Caught, NoEditLost
  <2>2. CASE ~ReloadStore(r)
    BY <1>0, <1>3, <2>2, ReloadSparesServed DEF NoEditLost
  <2> QED BY <2>1, <2>2
<1> QED BY <1>1, <1>2, <1>3, StepKinds

LEMMA NextCaught == ASSUME HInv, [Next]_vars, NEW q \in Request PROVE Caught(q)'
<1> USE DEF HInv
<1>0. TypeOK /\ OneReload /\ Fresh(q) /\ Caught(q) /\ tree \in 0..MaxTreeEdits
  BY DEF TypeOK
<1>1. CASE Outside
  <2>1. UNCHANGED <<job, new>>
    BY <1>1, OutsideKeeps DEF reload
  <2> SUFFICES ASSUME job[q] = "store", NEW s \in State, s = new[q], watching'[s]
               PROVE  index'[s].tree = tree' \/ pending'[s]
    BY <1>0, <2>1 DEF Caught, Fresh, Building
  <2>2. Booting => s # 1
    BY <1>0 DEF Fresh, Building
  <2>3. watching[s] /\ (Knows(s) => index'[s].tree = tree' \/ pending'[s])
    BY <1>1, <2>2, OutsideKnows DEF Knows
  <2> QED BY <1>0, <2>3 DEF Caught, Knows
<1>2. ASSUME NEW r \in Request, Check(r) PROVE Caught(q)'
  <2>1. UNCHANGED <<index, watching, pending, tree, new>>
    BY <1>0, <1>2, CheckKeeps DEF states, disk
  <2>2. job'[q] = job[q] \/ job'[q] = "read"
    BY <1>0, <1>2, CheckStarts
  <2> QED BY <1>0, <2>1, <2>2 DEF Caught
<1>3. ASSUME NEW r \in Request, Reload(r), q # r PROVE Caught(q)'
  <2>1. job'[q] = "none"
    BY <1>0, <1>3, Alone
  <2> QED BY <2>1 DEF Caught
<1>4. ASSUME Reload(q), ReloadClose(q) PROVE Caught(q)'
  <2>1. /\ index' = [index EXCEPT ![new[q]] = Recrawled(index[new[q]], sha[q])]
        /\ job[q] = "close" /\ UNCHANGED <<new, tree>>
    BY <1>4 DEF ReloadClose, disk
  <2>2. new[q] \in State /\ sha[q] \in Valid
    BY <1>0, <2>1 DEF Fresh, Building
  <2>3. Recrawled(index[new[q]], sha[q]).tree = tree
    BY <1>0, <2>2, RecrawledType DEF TypeOK
  <2> QED BY <1>0, <2>1, <2>2, <2>3 DEF Caught, TypeOK
<1>5. ASSUME Reload(q), ~ReloadClose(q) PROVE Caught(q)'
  <2>1. job'[q] # "store"
    <3> USE DEF Goto
    <3>1. CASE ReloadRead(q) \/ ReloadObserve(q) \/ ReloadParse(q)
      BY <1>0, <3>1 DEF ReloadRead, ReloadObserve, ReloadParse, TypeOK
    <3>4. CASE ReloadIndex(q) \/ ReloadWatch(q)
      BY <1>0, <3>4 DEF ReloadIndex, ReloadWatch, TypeOK
    <3>2. CASE ReloadStore(q) \/ ReloadBook(q) \/ ReloadCancel(q) \/ ReloadReject(q)
      BY <1>0, <3>2 DEF ReloadStore, ReloadBook, ReloadCancel, ReloadReject, TypeOK
    <3>3. CASE ReloadPublish(q) \/ ReloadUnlock(q) \/ ReloadEnd(q) \/ ReloadPanic(q)
               \/ ReloadReread(q)
      BY <1>0, <3>3 DEF ReloadPublish, ReloadUnlock, ReloadEnd, ReloadPanic, ReloadReread, TypeOK
    <3> QED BY <1>5, <3>1, <3>2, <3>3, <3>4 DEF Reload
  <2> QED BY <2>1 DEF Caught
<1> QED BY <1>1, <1>2, <1>3, <1>4, <1>5, StepKinds

-----------------------------------------------------------------------------
(* What doctor is shown                                                     *)

Publishing(r) == pc[r] = "publish" \/ job[r] \in {"publish", "cancel"}

LEMMA RecordKept ==
  ASSUME UNCHANGED book PROVE Record' = Record
BY DEF Record

\* An observation that finds nothing to heal changes nothing.
LEMMA ObserveHeals ==
  ASSUME TypeOK, RefusalShown, NEW x, Observe(x)
  PROVE  /\ ~book'.error => book'.rejected = None
         /\ ~Healed(x) => book' = book
<1>1. CASE book.serving # x
  BY <1>1 DEF Observe, RefusalShown
<1>2. CASE book.serving = x
  <2>1. book' = [book EXCEPT !.rejected = None, !.error = FALSE]
    BY <1>2 DEF Observe
  <2>2. book'.rejected = None
    BY <2>1 DEF TypeOK
  <2>3. ASSUME ~book.error PROVE book' = book
    <3>1. book.rejected = None /\ book.error = FALSE
      BY <2>3 DEF RefusalShown, TypeOK
    <3> QED BY <2>1, <3>1 DEF TypeOK
  <2> QED BY <1>2, <2>2, <2>3 DEF Healed
<1> QED BY <1>1, <1>2

LEMMA NextRefusal == ASSUME HInv, [Next]_vars PROVE RefusalShown'
<1> USE DEF HInv
<1>1. CASE UNCHANGED book
  BY <1>1 DEF RefusalShown
<1>2. ASSUME NEW r \in Request, CheckObserve(r) PROVE RefusalShown'
  BY <1>2, ObserveHeals DEF CheckObserve, RefusalShown
<1>3. ASSUME NEW r \in Request, ReloadObserve(r) PROVE RefusalShown'
  BY <1>3, ObserveHeals DEF ReloadObserve, RefusalShown
<1>4. ASSUME NEW r \in Request, ReloadBook(r) \/ ReloadReject(r) PROVE RefusalShown'
  <2>1. CASE ReloadBook(r)
    BY <2>1 DEF ReloadBook, RefusalShown
  <2>2. CASE ReloadReject(r)
    <3>1. book'.error = TRUE
      BY <2>2 DEF ReloadReject, TypeOK
    <3> QED BY <3>1 DEF RefusalShown
  <2> QED BY <1>4, <2>1, <2>2
<1>5. ASSUME NEW r \in Request, CheckRead(r) \/ CheckPublish(r) \/ CheckSwap(r) PROVE UNCHANGED book
  BY <1>5 DEF CheckRead, CheckPublish, CheckSwap
<1>6. ASSUME NEW r \in Request, Reload(r), ~ReloadObserve(r), ~ReloadBook(r), ~ReloadReject(r)
      PROVE  UNCHANGED book
  BY <1>6 DEF Reload, ReloadRead, ReloadParse, ReloadIndex, ReloadWatch, ReloadClose, ReloadStore,
              ReloadCancel, ReloadPublish, ReloadUnlock, ReloadEnd, ReloadPanic, ReloadReread
<1>7. CASE Outside
  BY <1>1, <1>7, OutsideKeeps
<1> QED BY <1>1, <1>2, <1>3, <1>4, <1>5, <1>6, <1>7, StepKinds DEF Check

LEMMA NextStatus == ASSUME HInv, [Next]_vars PROVE StatusSettles'
<1> USE DEF HInv
<1>0. TypeOK /\ StatusSettles /\ RefusalShown
  OBVIOUS
<1>p. StatusSettles <=> status = None \/ status = Record \/ \E r \in Request : Publishing(r)
  BY DEF StatusSettles, Publishing
<1>q. StatusSettles' <=> status' = None \/ status' = Record' \/ \E r \in Request : Publishing(r)'
  BY DEF StatusSettles, Publishing
<1>1. ASSUME UNCHANGED <<book, status>>, \A q \in Request : Publishing(q) => Publishing(q)'
      PROVE  StatusSettles'
  BY <1>0, <1>1, <1>p, <1>q, RecordKept
<1>2. ASSUME status' = Record, UNCHANGED book PROVE StatusSettles'
  BY <1>2, <1>q, RecordKept
<1>3. CASE Outside
  <2>1. UNCHANGED <<book, pc, job>>
    BY <1>3, OutsideKeeps DEF request, reload
  <2>2. UNCHANGED status \/ status' = Record
    BY <1>3 DEF Outside, Edits, EditTree, EditConfig, Watchers, WatcherReload, Boot, Ingest,
                StartWatcher, CloseBootGap, PublishFirst, vars
  <2> QED BY <1>1, <1>2, <2>1, <2>2 DEF Publishing
<1>4. ASSUME NEW r \in Request, Check(r) PROVE StatusSettles'
  <2>1. \A q \in Request : job'[q] = job[q] \/ (job[q] = "none" /\ job'[q] = "read")
    BY <1>0, <1>4, CheckStarts
  <2>2. CASE CheckRead(r) \/ CheckSwap(r)
    <3>1. /\ UNCHANGED <<book, status>> /\ pc[r] # "publish"
          /\ \A q \in Request : q # r => pc'[q] = pc[q]
      BY <1>0, <2>2 DEF CheckRead, CheckSwap, TypeOK
    <3> QED BY <1>1, <2>1, <3>1 DEF Publishing
  <2>3. CASE CheckPublish(r)
    BY <1>2, <2>3 DEF CheckPublish
  <2>4. CASE CheckObserve(r) /\ Healed(seen[r])
    <3>1. pc'[r] = "publish"
      BY <1>0, <2>4 DEF CheckObserve, TypeOK
    <3> QED BY <1>q, <3>1 DEF Publishing
  <2>5. CASE CheckObserve(r) /\ ~Healed(seen[r])
    <3>1. UNCHANGED book
      BY <1>0, <2>5, ObserveHeals DEF CheckObserve
    <3>2. /\ UNCHANGED status /\ pc[r] # "publish"
          /\ \A q \in Request : q # r => pc'[q] = pc[q]
      BY <1>0, <2>5 DEF CheckObserve, TypeOK
    <3> QED BY <1>1, <2>1, <3>1, <3>2 DEF Publishing
  <2> QED BY <1>4, <2>2, <2>3, <2>4, <2>5 DEF Check
<1>5. ASSUME NEW r \in Request, Reload(r) PROVE StatusSettles'
  <2> USE DEF Goto
  <2>0. /\ \A q \in Request : q # r => job'[q] = job[q]
        /\ UNCHANGED pc
    BY <1>0, <1>5, ReloadMovesItself
  <2>1. ASSUME UNCHANGED <<book, status>>, job[r] \notin {"publish", "cancel"} PROVE StatusSettles'
    BY <1>1, <2>0, <2>1 DEF Publishing
  <2>2. ASSUME job'[r] \in {"publish", "cancel"} PROVE StatusSettles'
    BY <1>q, <2>2 DEF Publishing
  <2>3. CASE ReloadObserve(r) /\ Healed(sha[r])
    BY <1>0, <2>2, <2>3 DEF ReloadObserve, TypeOK
  <2>4. CASE ReloadObserve(r) /\ ~Healed(sha[r])
    <3>1. UNCHANGED book
      BY <1>0, <2>4, ObserveHeals DEF ReloadObserve
    <3> QED BY <2>1, <2>4, <3>1 DEF ReloadObserve
  <2>5. CASE ReloadBook(r) \/ ReloadCancel(r) \/ ReloadReject(r)
    BY <1>0, <2>2, <2>5 DEF ReloadBook, ReloadCancel, ReloadReject, TypeOK
  <2>6. CASE ReloadPublish(r)
    BY <1>2, <2>6 DEF ReloadPublish
  <2>7. CASE ReloadRead(r) \/ ReloadParse(r) \/ ReloadIndex(r) \/ ReloadWatch(r) \/ ReloadClose(r)
             \/ ReloadStore(r)
    BY <2>1, <2>7 DEF ReloadRead, ReloadParse, ReloadIndex, ReloadWatch, ReloadClose, ReloadStore
  <2>8. CASE ReloadUnlock(r) \/ ReloadEnd(r) \/ ReloadPanic(r) \/ ReloadReread(r)
    BY <2>1, <2>8 DEF ReloadUnlock, ReloadEnd, ReloadPanic, ReloadReread
  <2> QED BY <1>5, <2>3, <2>4, <2>5, <2>6, <2>7, <2>8 DEF Reload
<1> QED BY <1>3, <1>4, <1>5, StepKinds

-----------------------------------------------------------------------------
(* Watchers, when no reload panics                                          *)

\* Who may be watched besides the state that serves, by the reload r.
Owned(s, r) ==
  \/ job[r] \in {"close", "store"} /\ s = new[r]
  \/ job[r] = "book" /\ s = book.watcher
  \/ job[r] = "cancel" /\ s = retired[r]

LEMMA NextWatchers ==
  ASSUME ~MayPanic, HInv, WatchersOwned, [Next]_vars
  PROVE  WatchersOwned'
<1> USE DEF HInv
<1>0. TypeOK /\ OneReload /\ BookDescribesServed /\ 1 \in State
  BY DEF State
<1>p. \A s \in State : watching[s] => s = current \/ \E r \in Request : Owned(s, r)
  BY DEF WatchersOwned, Owned
<1>q. ASSUME \A s \in State : watching'[s] => s = current' \/ \E r \in Request : Owned(s, r)'
      PROVE  WatchersOwned'
  BY <1>q DEF WatchersOwned, Owned
<1> SUFFICES ASSUME NEW s \in State, watching'[s]
             PROVE  s = current' \/ \E r \in Request : Owned(s, r)'
  BY <1>q
<1>1. CASE Outside
  <2>1. UNCHANGED <<current, book, job, new, retired>>
    BY <1>1, OutsideKeeps DEF reload
  <2>2. \A r \in Request : Owned(s, r)' <=> Owned(s, r)
    BY <2>1 DEF Owned
  <2>3. CASE watching[s]
    BY <1>p, <2>1, <2>2, <2>3
  <2>4. CASE ~watching[s]
    <3>1. StartWatcher /\ s = 1 /\ ~Cancelled(1)
      BY <1>0, <1>1, <2>4
         DEF Outside, Edits, EditTree, EditConfig, Watchers, WatcherReload, Boot, Ingest,
             StartWatcher, CloseBootGap, PublishFirst, vars, states, TypeOK
    <3>2. CASE book.watcher = 1
      <4>1. CASE \E r \in Request : job[r] = "book"
        BY <2>2, <3>1, <3>2, <4>1 DEF Owned
      <4>2. CASE ~\E r \in Request : job[r] = "book"
        BY <1>0, <2>1, <3>1, <3>2, <4>2 DEF BookDescribesServed
      <4> QED BY <4>1, <4>2
    <3>3. CASE book.watcher # 1
      <4>1. \E r \in Request : job[r] = "cancel" /\ retired[r] = 1
        BY <3>1, <3>3 DEF Cancelled
      <4> QED BY <2>2, <3>1, <4>1 DEF Owned
    <3> QED BY <3>2, <3>3
  <2> QED BY <2>3, <2>4
<1>2. ASSUME NEW r \in Request, Check(r) PROVE s = current' \/ \E q \in Request : Owned(s, q)'
  <2>1. UNCHANGED <<watching, current, new, retired>> /\ book'.watcher = book.watcher
    BY <1>0, <1>2, CheckKeeps DEF states
  <2>2. \A q \in Request : job'[q] = job[q] \/ job[q] = "none"
    BY <1>0, <1>2, CheckStarts
  <2>3. \A q \in Request : Owned(s, q) => Owned(s, q)'
    BY <2>1, <2>2 DEF Owned
  <2> QED BY <1>p, <2>1, <2>3
<1>3. ASSUME NEW r \in Request, Reload(r) PROVE s = current' \/ Owned(s, r)'
  <2> USE DEF Goto
  <2>0. \A q \in Request : q # r => job[q] = "none"
    BY <1>0, <1>3, Alone
  <2>p. watching[s] => s = current \/ Owned(s, r)
    BY <1>p, <2>0 DEF Owned
  <2>1. CASE ReloadRead(r) \/ ReloadObserve(r) \/ ReloadParse(r) \/ ReloadIndex(r)
    <3>1. UNCHANGED <<watching, current>> /\ job[r] \in {"read", "observe", "parse", "index"}
      BY <2>1 DEF ReloadRead, ReloadObserve, ReloadParse, ReloadIndex, states
    <3> QED BY <2>p, <3>1 DEF Owned
  <2>2. CASE ReloadWatch(r)
    <3>1. /\ job[r] = "watch" /\ job'[r] = "close" /\ UNCHANGED <<current, new>>
          /\ s # new[r] => watching[s]
      BY <1>0, <2>2 DEF ReloadWatch, TypeOK
    <3> QED BY <2>p, <3>1 DEF Owned
  <2>3. CASE ReloadClose(r)
    <3>1. /\ job[r] = "close" /\ job'[r] = "store" /\ UNCHANGED <<current, new, watching>>
      BY <1>0, <2>3 DEF ReloadClose, TypeOK
    <3> QED BY <2>p, <3>1 DEF Owned
  <2>4. CASE ReloadStore(r)
    <3>1. /\ job[r] = "store" /\ job'[r] = "book" /\ current' = new[r]
          /\ UNCHANGED <<watching, book>>
      BY <1>0, <2>4 DEF ReloadStore, TypeOK, states
    <3>2. book.watcher = current
      BY <1>0, <2>0, <3>1 DEF BookDescribesServed
    <3> QED BY <2>p, <3>1, <3>2 DEF Owned
  <2>5. CASE ReloadBook(r)
    <3>1. /\ job[r] = "book" /\ job'[r] = "cancel" /\ retired'[r] = book.watcher
          /\ UNCHANGED <<watching, current>>
      BY <1>0, <2>5 DEF ReloadBook, TypeOK, states
    <3> QED BY <2>p, <3>1 DEF Owned
  <2>6. CASE ReloadCancel(r)
    <3>1. job[r] = "cancel" /\ s # retired[r] /\ watching[s] /\ UNCHANGED current
      BY <1>0, <2>6 DEF ReloadCancel, TypeOK
    <3> QED BY <2>p, <3>1 DEF Owned
  <2>7. CASE ReloadReject(r) \/ ReloadPublish(r) \/ ReloadReread(r) \/ ReloadUnlock(r)
             \/ ReloadEnd(r)
    <3>1. /\ UNCHANGED <<watching, current>>
          /\ job[r] \in {"reject", "publish", "reread", "unlock", "end"}
      BY <2>7 DEF ReloadReject, ReloadPublish, ReloadReread, ReloadUnlock, ReloadEnd, states
    <3> QED BY <2>p, <3>1 DEF Owned
  <2>8. ~ReloadPanic(r)
    BY DEF ReloadPanic
  <2> QED BY <1>3, <2>1, <2>2, <2>3, <2>4, <2>5, <2>6, <2>7, <2>8 DEF Reload
<1> QED BY <1>1, <1>2, <1>3, StepKinds

-----------------------------------------------------------------------------
(* The theorems                                                             *)

LEMMA InitHInv == Init => HInv /\ WatchersOwned
<1> SUFFICES ASSUME Init PROVE HInv /\ WatchersOwned
  OBVIOUS
<1>1. TypeOK
  BY InitType
<1>2. /\ \A r \in Request : job[r] = "none" /\ pc[r] = "idle"
      /\ \A s \in State : ~watching[s]
      /\ ~reloading /\ ~gate /\ status = None /\ current = 1 /\ 1 \in State
      /\ config[1] = file /\ index[1] = IndexOf(file, "nothing")
      /\ book.serving = file /\ book.rejected = None /\ book.watcher = 1
  BY DEF Init, State
<1>3. OneReload /\ GateOwned /\ \A r \in Request : Fresh(r) /\ Fits(r) /\ Caught(r)
  BY <1>2 DEF OneReload, Reloading, GateOwned, Fresh, Fits, Caught, Building
<1>4. BookDescribesServed /\ NoEditLost /\ RefusalShown /\ StatusSettles /\ WatchersOwned
  BY <1>2 DEF BookDescribesServed, NoEditLost, RefusalShown, StatusSettles, WatchersOwned
<1>5. ServedUnderOwnConfig
  <2>1. file \in Valid /\ tree \in 0..MaxTreeEdits
    BY <1>1 DEF Init, TypeOK
  <2> QED BY <1>2, <2>1, IndexOfType DEF ServedUnderOwnConfig
<1> QED BY <1>1, <1>3, <1>4, <1>5 DEF HInv

LEMMA NextHInv == HInv /\ [Next]_vars => HInv'
BY NextType, NextOneReload, NextFresh, NextFits, NextCaught, NextBook, NextServed, NextNoEditLost,
   NextRefusal, NextStatus DEF HInv

LEMMA HostInvariant == Spec => []HInv
BY InitHInv, NextHInv, PTL DEF Spec

\* One reload runs at a time, and what the book records is what is served
\* (check_for_change, reload_if_changed and reload_guarded of host.rs): for any
\* number of requests, and whatever panics.
THEOREM BookAlwaysKept == Spec => []BookKept
<1>1. HInv => BookKept
  BY DEF HInv, BookKept
<1> QED BY <1>1, HostInvariant, PTL

\* What is served was extracted under the config it serves, and an edit of the
\* tree is in its index or known to its watcher (adopt_index_of,
\* close_reload_gap): across any sequence of config edits, failed reloads,
\* panics and watchers that do not start.
THEOREM AlwaysServedAsConfigured == Spec => []ServedAsConfigured
<1>1. HInv => ServedAsConfigured
  BY DEF HInv, ServedAsConfigured
<1> QED BY <1>1, HostInvariant, PTL

\* doctor's record is the book's, or someone is about to publish it (observe,
\* reject and publish_status).
THEOREM StatusAlwaysSettles == Spec => []StatusSettles
<1>1. HInv => StatusSettles
  BY DEF HInv
<1> QED BY <1>1, HostInvariant, PTL

\* When no reload panics, nothing but the state that serves is watched between
\* two reloads (old_watcher.cancel of reload_if_changed, and the watcher the
\* start may still be starting).
THEOREM NoStrayWatcherUnlessPanic == ASSUME ~MayPanic PROVE Spec => []NoStrayWatcher
<1>1. HInv /\ WatchersOwned => NoStrayWatcher
  BY DEF HInv, WatchersOwned, NoStrayWatcher, OneReload, Reloading
<1>2. HInv /\ WatchersOwned /\ [Next]_vars => HInv' /\ WatchersOwned'
  BY NextHInv, NextWatchers
<1> QED BY <1>1, <1>2, InitHInv, PTL DEF Spec
=============================================================================
