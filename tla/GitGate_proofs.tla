--------------------------- MODULE GitGate_proofs ---------------------------
(* Proofs about GitGate, for any Git directories, paths and thresholds, and  *)
(* any number of steps of Git and of the users.                              *)
EXTENDS GitGate, TLAPS

USE GateAssumption, HoldAssumption

-----------------------------------------------------------------------------
(* The inductive invariant                                                  *)

\* Between two turns no input is at hand.
TurnClean == pc # "probe" => input = Nothing

\* Versions of HEAD grow: what was probed, noted and handed over is no newer
\* than what is on disk.
HeadsOrdered ==
  \A d \in Dir :
    /\ head[d] <= ops /\ lastHead[d] <= head[d] /\ toldHead[d] <= head[d]
    /\ obs[d].head # None => obs[d].head <= head[d]

\* A lock's time stamp is of the past; a running git holds its lock, and that
\* lock was never declared orphaned.
LocksOrdered ==
  \A d \in Dir :
    /\ lock[d] # None => lock[d] <= ops
    /\ tracker[d].orphan # None => tracker[d].orphan <= ops
    /\ gitRuns[d] => lock[d] # None /\ lock[d] # tracker[d].orphan

GInv ==
  /\ TypeOK /\ TurnClean /\ HeadsOrdered /\ LocksOrdered
  /\ NoPathLost /\ HeadNotForgotten /\ NoRefLost /\ NoteExact

-----------------------------------------------------------------------------
(* Types                                                                    *)

Observation == [live : BOOLEAN \cup {None}, busy : BOOLEAN, head : (0..MaxOps) \cup {None}]

LEMMA LaterType ==
  ASSUME NEW n \in Nat, NEW t \in 0..n PROVE Later(t, n) \in 0..n
BY DEF Later

\* An answer of the lock tracker, whatever pgrep answered.
LEMMA LockIsLiveType ==
  ASSUME TypeOK, NEW d \in Dir, NEW answer
  PROVE  /\ LockIsLive(d, answer)[1] \in BOOLEAN
         /\ LockIsLive(d, answer)[2] \in Tracker
         /\ LockIsLive(d, answer)[2].orphan \in {None, tracker[d].orphan, lock[d]}
         /\ LockIsLive(d, answer)[2].orphan = lock[d] /\ lock[d] # None =>
              tracker[d].orphan = lock[d] \/ answer = FALSE
         /\ ~LockIsLive(d, answer)[1] =>
              lock[d] = None \/ tracker[d].orphan = lock[d] \/ answer = FALSE
<1> DEFINE t == tracker[d]
<1>1. t \in Tracker /\ lock[d] \in (1..MaxOps) \cup {None} /\ 0 \in 0..Recheck
      /\ Recheck \in 0..Recheck
  BY DEF TypeOK
<1>2. NoTracker \in Tracker /\ NoTracker.orphan = None
  BY <1>1 DEF NoTracker, Tracker
<1>3. lock[d] # None => /\ [orphan |-> lock[d], since |-> 0] \in Tracker
                        /\ [t EXCEPT !.since = 0] \in Tracker
                        /\ [t EXCEPT !.since = 0].orphan = t.orphan
  BY <1>1 DEF Tracker
<1>4. CASE lock[d] = None
  BY <1>2, <1>4 DEF LockIsLive
<1>5. CASE lock[d] # None /\ t.orphan = lock[d]
  BY <1>1, <1>5 DEF LockIsLive
<1>6. CASE lock[d] # None /\ t.orphan # lock[d] /\ (lockAge[d] < OrphanAge \/ t.since < Recheck)
  BY <1>1, <1>6 DEF LockIsLive
<1>7. CASE lock[d] # None /\ t.orphan # lock[d] /\ ~(lockAge[d] < OrphanAge \/ t.since < Recheck)
  <2>1. CASE answer = FALSE
    <3>1. LockIsLive(d, answer) = <<FALSE, [orphan |-> lock[d], since |-> 0]>>
      BY <1>7, <2>1 DEF LockIsLive
    <3>2. /\ LockIsLive(d, answer)[1] \in BOOLEAN
          /\ LockIsLive(d, answer)[2] \in Tracker
          /\ LockIsLive(d, answer)[2].orphan \in {None, tracker[d].orphan, lock[d]}
      BY <1>3, <1>7, <3>1
    <3> QED BY <2>1, <3>2, Zenon
  <2>2. CASE answer # FALSE
    <3>1. LockIsLive(d, answer) = <<TRUE, [t EXCEPT !.since = 0]>>
      BY <1>7, <2>2 DEF LockIsLive
    <3> DEFINE u == [t EXCEPT !.since = 0]
    <3>3. u \in Tracker /\ u.orphan = tracker[d].orphan
      BY <1>3, <1>7
    <3>4. LockIsLive(d, answer) = <<TRUE, u>>
      BY <3>1
    <3> HIDE DEF u
    <3>2. /\ LockIsLive(d, answer)[1] = TRUE
          /\ LockIsLive(d, answer)[2] \in Tracker
          /\ LockIsLive(d, answer)[2].orphan = tracker[d].orphan
      BY <3>3, <3>4
    <3> QED BY <1>7, <3>2
  <2> QED BY <2>1, <2>2
<1> QED BY <1>4, <1>5, <1>6, <1>7

LEMMA ExtendedType ==
  ASSUME TypeOK, hold # None
  PROVE  /\ Extended \in Hold /\ Extended # None
         /\ Extended.paths = hold.paths \cup input.paths
         /\ Extended.refs = hold.refs \cup RefDirty
<1>1. hold \in Hold /\ input.paths \subseteq Path /\ input.refs \subseteq Dir
  BY DEF TypeOK, Input
<1>2. RefDirty \subseteq Dir
  BY <1>1 DEF RefDirty, Moved
<1> DEFINE q == IF Activity \/ input.paths # {} THEN 0 ELSE hold.quiet
<1>3. q \in 0..Settle
  BY <1>1 DEF Hold
<1>4. Extended = [hold EXCEPT !.quiet = q, !.paths = hold.paths \cup input.paths,
                              !.refs = hold.refs \cup RefDirty]
  BY DEF Extended
<1> HIDE DEF q
<1>5. /\ Extended \in Hold /\ Extended.paths = hold.paths \cup input.paths
      /\ Extended.refs = hold.refs \cup RefDirty
  BY <1>1, <1>2, <1>3, <1>4 DEF Hold
<1> QED BY <1>5

LEMMA InitGInv == Init => GInv
<1> SUFFICES ASSUME Init PROVE GInv
  OBVIOUS
<1>1. NotSeen \in Observation /\ NoTracker \in Tracker /\ Nothing \in Input
      /\ NotSeen.head = None /\ NoTracker.orphan = None
  BY DEF NotSeen, Observation, NoTracker, Tracker, Nothing, Input
<1>2. head \in [Dir -> 0..MaxOps] /\ lock \in [Dir -> (1..MaxOps) \cup {None}]
      /\ lockAge \in [Dir -> 0..OrphanAge] /\ ops \in 0..MaxOps
      /\ lastHead \in [Dir -> 0..MaxOps] /\ toldHead \in [Dir -> 0..MaxOps]
  BY DEF Init
<1>3. gitRuns \in [Dir -> BOOLEAN] /\ sequence \in [Dir -> BOOLEAN]
      /\ holding \in BOOLEAN /\ due \in BOOLEAN
  BY Zenon DEF Init
<1>4. obs \in [Dir -> Observation] /\ tracker \in [Dir -> Tracker] /\ input \in Input
  BY <1>1 DEF Init
<1>5. TypeOK
  BY <1>2, <1>3, <1>4 DEF Init, TypeOK, Observation
<1>6. TurnClean /\ HeadsOrdered /\ LocksOrdered
  BY <1>1 DEF Init, TurnClean, HeadsOrdered, LocksOrdered
<1>7. NoPathLost /\ HeadNotForgotten /\ NoRefLost /\ NoteExact
  BY DEF Init, NoPathLost, HeadNotForgotten, NoRefLost, NoteExact
<1> QED BY <1>5, <1>6, <1>7 DEF GInv

-----------------------------------------------------------------------------
(* Every step keeps the invariant.                                          *)

\* The loop's own part when only the environment moves.
LEMMA OpKeeps ==
  ASSUME GInv, NEW events \in SUBSET Event, Op(events)
  PROVE  /\ ops' = ops + 1 /\ ops' \in 0..MaxOps /\ ops + 1 \in 1..MaxOps
         /\ queue' = queue \cup events /\ queue' \subseteq Event
         /\ UNCHANGED <<pc, input, obs, lastHead, hold, tracker, holding, due>>
         /\ TurnClean' /\ NoteExact' /\ Held' = Held
<1>1. ops' = ops + 1 /\ ops < MaxOps /\ ops \in 0..MaxOps
  BY DEF GInv, TypeOK, Op
<1>2. UNCHANGED <<pc, input, obs, lastHead, hold, tracker, holding, due>>
  BY DEF Op, turn, gate
<1> QED BY <1>1, <1>2 DEF GInv, TypeOK, Op, TurnClean, NoteExact, Held

LEMMA EventTypes ==
  /\ \A p \in Path : [path |-> p] \in Event
  /\ \A d \in Dir : [activity |-> d] \in Event /\ [ref |-> d] \in Event
BY DEF Event

LEMMA EnvironmentKeeps == ASSUME GInv, Environment PROVE GInv'
<1> USE DEF GInv
<1>0. TypeOK /\ HeadsOrdered /\ LocksOrdered /\ NoPathLost /\ HeadNotForgotten /\ NoRefLost
  OBVIOUS
<1>1. ASSUME NEW p \in Path, Touch(p) PROVE GInv'
  <2>1. {[path |-> p]} \in SUBSET Event /\ Op({[path |-> p]})
    BY <1>1, EventTypes DEF Touch
  <2>2. /\ ops' = ops + 1 /\ ops' \in 0..MaxOps
        /\ queue' = queue \cup {[path |-> p]} /\ queue' \subseteq Event
        /\ UNCHANGED <<pc, input, obs, lastHead, hold, tracker, holding, due>>
        /\ TurnClean' /\ NoteExact' /\ Held' = Held
    BY <2>1, OpKeeps
  <2>3. UNCHANGED <<head, lock, lockAge, gitRuns, sequence, toldHead>> /\ dirty' = dirty \cup {p}
    BY <1>1 DEF Touch
  <2>4. TypeOK'
    BY <1>0, <2>2, <2>3 DEF TypeOK
  <2>5. HeadsOrdered' /\ LocksOrdered'
    BY <1>0, <2>2, <2>3 DEF HeadsOrdered, LocksOrdered, TypeOK, Tracker
  <2>6. NoPathLost' /\ HeadNotForgotten' /\ NoRefLost'
    BY <1>0, <2>2, <2>3 DEF NoPathLost, HeadNotForgotten, NoRefLost
  <2> QED BY <2>2, <2>4, <2>5, <2>6
<1>2. ASSUME NEW d \in Dir, TakeLock(d) \/ ReleaseLock(d) PROVE GInv'
  <2>1. {[activity |-> d]} \in SUBSET Event /\ Op({[activity |-> d]})
    BY <1>2, EventTypes DEF TakeLock, ReleaseLock
  <2>2. /\ ops' = ops + 1 /\ ops' \in 0..MaxOps /\ ops + 1 \in 1..MaxOps
        /\ queue' = queue \cup {[activity |-> d]} /\ queue' \subseteq Event
        /\ UNCHANGED <<pc, input, obs, lastHead, hold, tracker, holding, due>>
        /\ TurnClean' /\ NoteExact' /\ Held' = Held
    BY <2>1, OpKeeps
  <2>3. /\ UNCHANGED <<head, sequence, dirty, toldHead>>
        /\ lockAge' = [lockAge EXCEPT ![d] = 0]
        /\ \/ lock' = [lock EXCEPT ![d] = ops + 1] /\ gitRuns' = [gitRuns EXCEPT ![d] = TRUE]
           \/ lock' = [lock EXCEPT ![d] = None] /\ gitRuns' = [gitRuns EXCEPT ![d] = FALSE]
    BY <1>2 DEF TakeLock, ReleaseLock, told
  <2>4. lock' \in [Dir -> (1..MaxOps) \cup {None}] /\ lockAge' \in [Dir -> 0..OrphanAge]
        /\ gitRuns' \in [Dir -> BOOLEAN]
    <3>1. 0 \in 0..OrphanAge /\ lockAge \in [Dir -> 0..OrphanAge]
      BY <1>0 DEF TypeOK
    <3>2. lockAge' \in [Dir -> 0..OrphanAge]
      BY <2>3, <3>1
    <3>3. gitRuns \in [Dir -> BOOLEAN] /\ lock \in [Dir -> (1..MaxOps) \cup {None}]
      BY <1>0 DEF TypeOK
    <3>4. lock' \in [Dir -> (1..MaxOps) \cup {None}]
      <4> DEFINE L == (1..MaxOps) \cup {None}
      <4>1. None \in L /\ ops + 1 \in L /\ lock \in [Dir -> L]
        BY <2>2, <3>3
      <4> HIDE DEF L
      <4>2. lock' \in [Dir -> L]
        BY <2>3, <4>1
      <4> QED BY <4>2 DEF L
    <3>5. gitRuns' \in [Dir -> BOOLEAN]
      BY <2>3, <3>3
    <3> QED BY <3>2, <3>4, <3>5
  <2>5. TypeOK'
    BY <1>0, <2>2, <2>3, <2>4 DEF TypeOK
  <2>6. HeadsOrdered'
    BY <1>0, <2>2, <2>3 DEF HeadsOrdered, TypeOK
  <2>7. LocksOrdered'
    <3>1. \A e \in Dir : tracker[e].orphan # None => tracker[e].orphan \in Nat
      BY <1>0 DEF TypeOK, Tracker
    <3>2. \A e \in Dir : e # d => lock'[e] = lock[e] /\ gitRuns'[e] = gitRuns[e]
      BY <1>0, <2>3 DEF TypeOK
    <3>3. \/ lock'[d] = ops + 1 /\ gitRuns'[d] = TRUE
          \/ lock'[d] = None /\ gitRuns'[d] = FALSE
      BY <1>0, <2>3 DEF TypeOK
    <3>4. ops \in Nat /\ \A e \in Dir : lock[e] # None => lock[e] \in Nat
      BY <1>0 DEF TypeOK
    <3> QED BY <1>0, <2>2, <3>1, <3>2, <3>3, <3>4 DEF LocksOrdered
  <2>8. NoPathLost' /\ HeadNotForgotten' /\ NoRefLost'
    BY <1>0, <2>2, <2>3 DEF NoPathLost, HeadNotForgotten, NoRefLost
  <2> QED BY <2>2, <2>5, <2>6, <2>7, <2>8
<1>3. ASSUME NEW d \in Dir, KillGit(d) PROVE GInv'
  <2>1. {} \in SUBSET Event /\ Op({})
    BY <1>3 DEF KillGit
  <2>2. /\ ops' = ops + 1 /\ ops' \in 0..MaxOps
        /\ queue' = queue \cup {} /\ queue' \subseteq Event
        /\ UNCHANGED <<pc, input, obs, lastHead, hold, tracker, holding, due>>
        /\ TurnClean' /\ NoteExact' /\ Held' = Held
    BY <2>1, OpKeeps
  <2>3. /\ UNCHANGED <<head, lock, lockAge, sequence, dirty, toldHead>>
        /\ gitRuns' = [gitRuns EXCEPT ![d] = FALSE]
    BY <1>3 DEF KillGit, told
  <2>4. TypeOK'
    BY <1>0, <2>2, <2>3 DEF TypeOK
  <2>5. \A e \in Dir : gitRuns'[e] => gitRuns[e]
    BY <1>0, <2>3 DEF TypeOK
  <2>6. HeadsOrdered' /\ LocksOrdered'
    BY <1>0, <2>2, <2>3, <2>5 DEF HeadsOrdered, LocksOrdered, TypeOK, Tracker
  <2>7. NoPathLost' /\ HeadNotForgotten' /\ NoRefLost'
    BY <1>0, <2>2, <2>3 DEF NoPathLost, HeadNotForgotten, NoRefLost
  <2> QED BY <2>2, <2>4, <2>6, <2>7
<1>4. ASSUME NEW d \in Dir, MoveHead(d) PROVE GInv'
  <2>1. {[ref |-> d]} \in SUBSET Event /\ Op({[ref |-> d]})
    BY <1>4, EventTypes DEF MoveHead
  <2>2. /\ ops' = ops + 1 /\ ops' \in 0..MaxOps
        /\ queue' = queue \cup {[ref |-> d]} /\ queue' \subseteq Event
        /\ UNCHANGED <<pc, input, obs, lastHead, hold, tracker, holding, due>>
        /\ TurnClean' /\ NoteExact' /\ Held' = Held
    BY <2>1, OpKeeps
  <2>3. /\ UNCHANGED <<lock, lockAge, gitRuns, sequence, dirty, toldHead>>
        /\ head' = [head EXCEPT ![d] = ops + 1]
    BY <1>4 DEF MoveHead, told
  <2>4. TypeOK'
    BY <1>0, <2>2, <2>3 DEF TypeOK
  <2>5. /\ \A e \in Dir : e # d => head'[e] = head[e]
        /\ head'[d] = ops + 1 /\ head[d] \in Nat /\ ops \in Nat
    BY <1>0, <2>3 DEF TypeOK
  <2>6. HeadsOrdered'
    <3>1. ASSUME NEW e \in Dir
          PROVE  /\ lastHead[e] \in Nat /\ toldHead[e] \in Nat /\ head[e] \in Nat
                 /\ obs[e].head # None => obs[e].head \in Nat
      BY <1>0 DEF TypeOK
    <3> QED BY <1>0, <2>2, <2>3, <2>5, <3>1 DEF HeadsOrdered
  <2>7. LocksOrdered'
    BY <1>0, <2>2, <2>3 DEF LocksOrdered, TypeOK, Tracker
  <2>8. NoPathLost' /\ HeadNotForgotten' /\ NoRefLost'
    BY <1>0, <2>2, <2>3, <2>5 DEF NoPathLost, HeadNotForgotten, NoRefLost
  <2> QED BY <2>2, <2>4, <2>6, <2>7, <2>8
<1>5. ASSUME NEW d \in Dir, Rebase(d) PROVE GInv'
  <2>1. {[activity |-> d]} \in SUBSET Event /\ Op({[activity |-> d]})
    BY <1>5, EventTypes DEF Rebase
  <2>2. /\ ops' = ops + 1 /\ ops' \in 0..MaxOps
        /\ queue' = queue \cup {[activity |-> d]} /\ queue' \subseteq Event
        /\ UNCHANGED <<pc, input, obs, lastHead, hold, tracker, holding, due>>
        /\ TurnClean' /\ NoteExact' /\ Held' = Held
    BY <2>1, OpKeeps
  <2>3. /\ UNCHANGED <<head, lock, lockAge, gitRuns, dirty, toldHead>>
        /\ sequence' = [sequence EXCEPT ![d] = ~sequence[d]]
    BY <1>5 DEF Rebase, told
  <2>4. TypeOK'
    BY <1>0, <2>2, <2>3 DEF TypeOK
  <2>5. HeadsOrdered' /\ LocksOrdered'
    BY <1>0, <2>2, <2>3 DEF HeadsOrdered, LocksOrdered, TypeOK, Tracker
  <2>6. NoPathLost' /\ HeadNotForgotten' /\ NoRefLost'
    BY <1>0, <2>2, <2>3 DEF NoPathLost, HeadNotForgotten, NoRefLost
  <2> QED BY <2>2, <2>4, <2>5, <2>6
<1> QED BY <1>1, <1>2, <1>3, <1>4, <1>5 DEF Environment

LEMMA TickKeeps == ASSUME GInv, Tick PROVE GInv'
<1>0. TypeOK /\ TurnClean /\ HeadsOrdered /\ LocksOrdered /\ NoPathLost /\ HeadNotForgotten
      /\ NoRefLost /\ NoteExact
  BY DEF GInv
<1>1. /\ UNCHANGED <<head, lock, gitRuns, sequence, ops, queue, pc, input, obs, lastHead,
                     holding, dirty, toldHead>>
      /\ due' = TRUE
  BY DEF Tick, turn, told
<1>2. lockAge' \in [Dir -> 0..OrphanAge]
  <2>1. ASSUME NEW d \in Dir
        PROVE  (IF lock[d] = None THEN 0 ELSE Later(lockAge[d], OrphanAge)) \in 0..OrphanAge
    <3>1. OrphanAge \in Nat /\ lockAge[d] \in 0..OrphanAge /\ 0 \in 0..OrphanAge
      BY <1>0 DEF TypeOK
    <3> QED BY <3>1, LaterType
  <2> QED BY <2>1 DEF Tick
<1>3. /\ tracker' \in [Dir -> Tracker]
      /\ \A d \in Dir : tracker'[d].orphan = tracker[d].orphan
  <2>1. tracker' = [d \in Dir |-> [tracker[d] EXCEPT !.since = Later(tracker[d].since, Recheck)]]
    BY DEF Tick
  <2>2. ASSUME NEW d \in Dir
        PROVE  /\ [tracker[d] EXCEPT !.since = Later(tracker[d].since, Recheck)] \in Tracker
               /\ [tracker[d] EXCEPT !.since = Later(tracker[d].since, Recheck)].orphan
                    = tracker[d].orphan
    <3>1. tracker[d] \in Tracker /\ tracker[d].since \in 0..Recheck /\ Recheck \in Nat
      BY <1>0 DEF TypeOK, Tracker
    <3>2. Later(tracker[d].since, Recheck) \in 0..Recheck
      BY <3>1, LaterType
    <3> QED BY <3>1, <3>2 DEF Tracker
  <2> QED BY <2>1, <2>2
<1>4. /\ hold' \in Hold \cup {None} /\ (hold' = None <=> hold = None)
      /\ Held'.paths = Held.paths /\ Held'.refs = Held.refs
  <2>1. CASE hold = None
    BY <2>1 DEF Tick, Held
  <2>2. CASE hold # None
    <3>1. hold \in Hold /\ hold.age \in 0..MaxHold /\ hold.quiet \in 0..Settle
          /\ MaxHold \in Nat /\ Settle \in Nat
      BY <1>0, <2>2 DEF TypeOK, Hold
    <3> DEFINE a == Later(hold.age, MaxHold)
               q == Later(hold.quiet, Settle)
    <3>2. a \in 0..MaxHold /\ q \in 0..Settle
      BY <3>1, LaterType
    <3>3. hold' = [hold EXCEPT !.age = a, !.quiet = q]
      BY <2>2 DEF Tick
    <3> HIDE DEF a, q
    <3>4. hold' \in Hold /\ hold'.paths = hold.paths /\ hold'.refs = hold.refs
      BY <3>1, <3>2, <3>3 DEF Hold
    <3> QED BY <2>2, <3>4 DEF Held
  <2> QED BY <2>1, <2>2
<1>5. TypeOK'
  <2>1. due' \in BOOLEAN
    BY <1>1, Zenon
  <2> QED BY <1>0, <1>1, <1>2, <1>3, <1>4, <2>1 DEF TypeOK
<1>6. TurnClean' /\ HeadsOrdered' /\ LocksOrdered' /\ NoteExact'
  BY <1>0, <1>1, <1>3, <1>4 DEF TurnClean, HeadsOrdered, LocksOrdered, NoteExact
<1>7. NoPathLost' /\ HeadNotForgotten' /\ NoRefLost'
  BY <1>0, <1>1, <1>4 DEF NoPathLost, HeadNotForgotten, NoRefLost
<1> QED BY <1>5, <1>6, <1>7 DEF GInv

\* A batch leaves the queue and is at hand, sorted into paths and refs.
LEMMA ReceiveKeeps == ASSUME GInv, NEW B \in SUBSET queue, Receive(B) PROVE GInv'
<1>0. TypeOK /\ TurnClean /\ HeadsOrdered /\ LocksOrdered /\ NoPathLost /\ HeadNotForgotten
      /\ NoRefLost /\ NoteExact
  BY DEF GInv
<1>1. /\ UNCHANGED <<head, lock, lockAge, gitRuns, sequence, ops, obs, lastHead, hold, tracker,
                     holding, due, dirty, toldHead>>
      /\ pc = "recv" /\ pc' = "probe" /\ queue' = queue \ B /\ input' = Classify(B)
  BY DEF Receive, git, gate, told
<1>2. /\ Classify(B) \in Input
      /\ Classify(B).paths = {p \in Path : [path |-> p] \in B}
      /\ Classify(B).refs = {d \in Dir : [ref |-> d] \in B}
  BY DEF Classify, Input
<1>3. input = Nothing /\ input.paths = {} /\ input.refs = {}
  BY <1>0, <1>1 DEF TurnClean, Nothing
<1>4. Held' = Held
  BY <1>1 DEF Held
<1>5. TypeOK'
  BY <1>0, <1>1, <1>2 DEF TypeOK
<1>6. TurnClean' /\ HeadsOrdered' /\ LocksOrdered' /\ NoteExact'
  BY <1>0, <1>1 DEF TurnClean, HeadsOrdered, LocksOrdered, NoteExact
<1>7. NoPathLost'
  BY <1>0, <1>1, <1>2, <1>3, <1>4 DEF NoPathLost, TypeOK
<1>8. HeadNotForgotten' /\ NoRefLost'
  BY <1>0, <1>1, <1>2, <1>3, <1>4 DEF HeadNotForgotten, NoRefLost
<1> QED BY <1>5, <1>6, <1>7, <1>8 DEF GInv

LEMMA TimeOutKeeps == ASSUME GInv, TimeOut PROVE GInv'
<1>0. TypeOK /\ TurnClean /\ HeadsOrdered /\ LocksOrdered /\ NoPathLost /\ HeadNotForgotten
      /\ NoRefLost /\ NoteExact
  BY DEF GInv
<1>1. /\ UNCHANGED <<head, lock, lockAge, gitRuns, sequence, ops, queue, input, obs, lastHead,
                     hold, tracker, holding, dirty, toldHead>>
      /\ pc = "recv" /\ pc' \in {"recv", "probe"}
  BY DEF TimeOut, git, gate, told
<1>2. due' \in BOOLEAN
  <2>1. due \in BOOLEAN
    BY <1>0 DEF TypeOK
  <2>2. due' = FALSE \/ due' = due
    BY DEF TimeOut
  <2> QED BY <2>1, <2>2, Zenon
<1>3. TypeOK'
  BY <1>0, <1>1, <1>2 DEF TypeOK
<1>4. Held' = Held
  BY <1>1 DEF Held
<1>5. TurnClean' /\ HeadsOrdered' /\ LocksOrdered' /\ NoteExact'
  BY <1>0, <1>1 DEF TurnClean, HeadsOrdered, LocksOrdered, NoteExact
<1>6. NoPathLost' /\ HeadNotForgotten' /\ NoRefLost'
  BY <1>0, <1>1, <1>4 DEF NoPathLost, HeadNotForgotten, NoRefLost
<1> QED BY <1>3, <1>5, <1>6 DEF GInv

\* pgrep answers "no git runs" only when none does: a lock declared orphaned is
\* not the lock of a running git.
LEMMA ProbeLockKeeps == ASSUME GInv, NEW d \in Dir, ProbeLock(d) PROVE GInv'
<1>0. TypeOK /\ TurnClean /\ HeadsOrdered /\ LocksOrdered /\ NoPathLost /\ HeadNotForgotten
      /\ NoRefLost /\ NoteExact
  BY DEF GInv
<1>1. /\ UNCHANGED <<head, lock, lockAge, gitRuns, sequence, ops, queue, pc, input, lastHead,
                     hold, holding, due, dirty, toldHead>>
      /\ pc = "probe"
  BY DEF ProbeLock, git, told
<1>2. PICK answer \in GitRunning :
       /\ obs' = [obs EXCEPT ![d] = [live |-> LockIsLive(d, answer)[1],
                                     busy |-> LockIsLive(d, answer)[1] \/ sequence[d],
                                     head |-> None]]
       /\ tracker' = [tracker EXCEPT ![d] = LockIsLive(d, answer)[2]]
  BY DEF ProbeLock
<1> DEFINE l == LockIsLive(d, answer)[1]
           t == LockIsLive(d, answer)[2]
           o == [live |-> l, busy |-> l \/ sequence[d], head |-> None]
<1>3. /\ l \in BOOLEAN /\ t \in Tracker
      /\ t.orphan \in {None, tracker[d].orphan, lock[d]}
      /\ t.orphan = lock[d] /\ lock[d] # None => tracker[d].orphan = lock[d] \/ answer = FALSE
  BY <1>0, LockIsLiveType
<1>4. o \in Observation /\ o.head = None
  <2> HIDE DEF l
  <2>1. (l \/ sequence[d]) \in BOOLEAN
    OBVIOUS
  <2> QED BY <1>3, <2>1 DEF Observation
<1>5. answer = FALSE => ~gitRuns[d]
  <2>1. CASE \E e \in Dir : gitRuns[e]
    <3>1. answer \in {TRUE, None}
      BY <1>2, <2>1 DEF GitRunning
    <3>2. None # FALSE
      OBVIOUS
    <3> QED BY <3>1, <3>2, Zenon
  <2> QED BY <2>1
<1>6. obs' = [obs EXCEPT ![d] = o] /\ tracker' = [tracker EXCEPT ![d] = t]
  BY <1>2
<1> HIDE DEF l, t, o
<1>7. obs \in [Dir -> Observation] /\ tracker \in [Dir -> Tracker]
  BY <1>0 DEF TypeOK, Observation
<1>8. obs' \in [Dir -> Observation] /\ tracker' \in [Dir -> Tracker]
  BY <1>3, <1>4, <1>6, <1>7
<1>9. TypeOK'
  BY <1>0, <1>1, <1>8 DEF TypeOK, Observation
<1>10. Held' = Held
  BY <1>1 DEF Held
<1>11. TurnClean' /\ NoteExact'
  BY <1>0, <1>1 DEF TurnClean, NoteExact
<1>12. HeadsOrdered'
  BY <1>0, <1>1, <1>4, <1>6, <1>7 DEF HeadsOrdered
<1>13. LocksOrdered'
  <2>1. \A e \in Dir : tracker'[e] = IF e = d THEN t ELSE tracker[e]
    BY <1>6, <1>7
  <2> QED BY <1>0, <1>1, <1>3, <1>5, <2>1 DEF LocksOrdered
<1>14. NoPathLost' /\ HeadNotForgotten' /\ NoRefLost'
  BY <1>0, <1>1, <1>10 DEF NoPathLost, HeadNotForgotten, NoRefLost
<1> QED BY <1>9, <1>11, <1>12, <1>13, <1>14 DEF GInv

LEMMA ProbeHeadKeeps == ASSUME GInv, NEW d \in Dir, ProbeHead(d) PROVE GInv'
<1>0. TypeOK /\ TurnClean /\ HeadsOrdered /\ LocksOrdered /\ NoPathLost /\ HeadNotForgotten
      /\ NoRefLost /\ NoteExact
  BY DEF GInv
<1>1. /\ UNCHANGED <<head, lock, lockAge, gitRuns, sequence, ops, queue, pc, input, lastHead,
                     hold, tracker, holding, due, dirty, toldHead>>
      /\ obs' = [obs EXCEPT ![d] = [obs[d] EXCEPT !.head = head[d]]]
  BY DEF ProbeHead, git, gate, told
<1>2. obs \in [Dir -> Observation] /\ head[d] \in 0..MaxOps
  BY <1>0 DEF TypeOK, Observation
<1>3. [obs[d] EXCEPT !.head = head[d]] \in Observation
      /\ [obs[d] EXCEPT !.head = head[d]].head = head[d]
  BY <1>2 DEF Observation
<1> DEFINE o == [obs[d] EXCEPT !.head = head[d]]
<1>4. obs' = [obs EXCEPT ![d] = o] /\ o \in Observation /\ o.head = head[d]
  BY <1>1, <1>3
<1> HIDE DEF o
<1>5. obs' \in [Dir -> Observation] /\ \A e \in Dir : obs'[e] = IF e = d THEN o ELSE obs[e]
  BY <1>2, <1>4
<1>6. TypeOK'
  BY <1>0, <1>1, <1>5 DEF TypeOK, Observation
<1>7. Held' = Held
  BY <1>1 DEF Held
<1>8. TurnClean' /\ LocksOrdered' /\ NoteExact'
  BY <1>0, <1>1 DEF TurnClean, LocksOrdered, NoteExact
<1>9. HeadsOrdered'
  BY <1>0, <1>1, <1>2, <1>4, <1>5 DEF HeadsOrdered
<1>10. NoPathLost' /\ HeadNotForgotten' /\ NoRefLost'
  BY <1>0, <1>1, <1>7 DEF NoPathLost, HeadNotForgotten, NoRefLost
<1> QED BY <1>6, <1>8, <1>9, <1>10 DEF GInv

\* What the four outcomes of a turn have in common.
LEMMA StepEffect ==
  ASSUME GInv, Step
  PROVE  /\ UNCHANGED <<head, lock, lockAge, gitRuns, sequence, ops, queue, tracker>>
         /\ pc' = "recv" /\ input' = Nothing /\ input'.paths = {} /\ input'.refs = {}
         /\ obs' \in [Dir -> Observation] /\ \A d \in Dir : obs'[d].head = None
         /\ due' \in BOOLEAN /\ Nothing \in Input
         /\ lastHead' \in [Dir -> 0..MaxOps]
         /\ \A d \in Dir : lastHead'[d] <= head[d]
         /\ \A d \in Dir : d \notin Moved => lastHead'[d] = lastHead[d]
         /\ RefDirty \subseteq Dir /\ Moved \subseteq RefDirty
<1>1. TypeOK /\ HeadsOrdered
  BY DEF GInv
<1>2. /\ UNCHANGED <<head, lock, lockAge, gitRuns, sequence, ops, queue, tracker>>
      /\ pc' = "recv" /\ input' = Nothing /\ obs' = [d \in Dir |-> NotSeen] /\ due' = FALSE
      /\ lastHead' = [d \in Dir |-> obs[d].head] /\ \A d \in Dir : obs[d].head # None
  BY DEF Step, git
<1>3. NotSeen \in Observation /\ NotSeen.head = None /\ Nothing \in Input
      /\ Nothing.paths = {} /\ Nothing.refs = {}
  BY DEF NotSeen, Observation, Nothing, Input
<1>4. due' \in BOOLEAN
  BY <1>2, Zenon
<1>5. \A d \in Dir : obs[d].head \in 0..MaxOps
  BY <1>1, <1>2 DEF TypeOK
<1>6. \A d \in Dir : lastHead'[d] = obs[d].head /\ lastHead'[d] <= head[d]
  BY <1>1, <1>2 DEF HeadsOrdered
<1>7. RefDirty \subseteq Dir /\ Moved \subseteq RefDirty
  BY <1>1 DEF RefDirty, Moved, TypeOK, Input
<1>8. obs' \in [Dir -> Observation] /\ \A d \in Dir : obs'[d].head = None
  BY <1>2, <1>3
<1>9. lastHead' \in [Dir -> 0..MaxOps]
  BY <1>2, <1>5
<1>10. \A d \in Dir : d \notin Moved => lastHead'[d] = lastHead[d]
  BY <1>6 DEF Moved
<1> QED BY <1>2, <1>3, <1>4, <1>6, <1>7, <1>8, <1>9, <1>10

\* The turn's input goes to the scheduler, or joins the hold; the gate notes the
\* HEADs it probed, and every one that moved is among the refs.
LEMMA StepKeeps == ASSUME GInv, Step PROVE GInv'
<1>0. TypeOK /\ TurnClean /\ HeadsOrdered /\ LocksOrdered /\ NoPathLost /\ HeadNotForgotten
      /\ NoRefLost /\ NoteExact
  BY DEF GInv
<1>1. /\ UNCHANGED <<head, lock, lockAge, gitRuns, sequence, ops, queue, tracker>>
      /\ pc' = "recv" /\ input' = Nothing /\ input'.paths = {} /\ input'.refs = {}
      /\ obs' \in [Dir -> Observation] /\ \A d \in Dir : obs'[d].head = None
      /\ due' \in BOOLEAN /\ Nothing \in Input
      /\ lastHead' \in [Dir -> 0..MaxOps]
      /\ \A d \in Dir : lastHead'[d] <= head[d]
      /\ \A d \in Dir : d \notin Moved => lastHead'[d] = lastHead[d]
      /\ RefDirty \subseteq Dir /\ Moved \subseteq RefDirty
  BY StepEffect
<1>2. pc = "probe" /\ holding \in BOOLEAN /\ input.paths \subseteq Path
      /\ input.refs \subseteq RefDirty
  BY <1>0 DEF Step, TypeOK, Input, RefDirty
<1>3. \A d \in Dir : head[d] \in Nat /\ toldHead[d] \in Nat /\ lastHead[d] \in Nat
                     /\ lastHead'[d] \in Nat /\ toldHead[d] <= head[d]
  BY <1>0, <1>1 DEF TypeOK, HeadsOrdered
\* It is enough to look at the hold, its flag and what was handed over.
<1>4. ASSUME hold' \in Hold \cup {None}, holding' \in BOOLEAN, holding' <=> hold' # None,
             dirty' \subseteq Path, toldHead' \in [Dir -> 0..MaxOps],
             \A d \in Dir : toldHead'[d] <= head[d],
             \A p \in dirty' : [path |-> p] \in queue \/ p \in Held'.paths,
             \A d \in Dir : lastHead'[d] <= toldHead'[d] \/ d \in Held'.refs,
             \A d \in Dir : head[d] > toldHead'[d] => [ref |-> d] \in queue \/ d \in Held'.refs
      PROVE  GInv'
  <2>1. TypeOK'
    BY <1>0, <1>1, <1>4 DEF TypeOK, Observation
  <2>2. TurnClean' /\ NoteExact'
    BY <1>1, <1>4 DEF TurnClean, NoteExact
  <2>3. HeadsOrdered' /\ LocksOrdered'
    BY <1>0, <1>1, <1>4 DEF HeadsOrdered, LocksOrdered
  <2>4. NoPathLost' /\ HeadNotForgotten' /\ NoRefLost'
    BY <1>1, <1>4 DEF NoPathLost, HeadNotForgotten, NoRefLost
  <2> QED BY <2>1, <2>2, <2>3, <2>4 DEF GInv
<1>5. CASE Pass
  <2>1. /\ hold = None /\ hold' = None /\ holding' = holding /\ RefDirty = {} /\ Moved = {}
        /\ Held'.paths = {} /\ Held'.refs = {} /\ Held.paths = {} /\ Held.refs = {}
    BY <1>1, <1>5 DEF Pass, Activity, Held
  <2>2. dirty' = dirty \ input.paths /\ toldHead' = toldHead
    BY <1>0, <1>5 DEF Pass, Schedule, TypeOK
  <2>3. holding' <=> hold' # None
    BY <1>0, <1>2, <2>1 DEF NoteExact
  <2>4. holding' \in BOOLEAN
    BY <1>2, <2>1
  <2>5. \A p \in dirty' : [path |-> p] \in queue \/ p \in Held'.paths
    BY <1>0, <2>1, <2>2 DEF NoPathLost
  <2>6. \A d \in Dir : lastHead'[d] <= toldHead'[d] \/ d \in Held'.refs
    BY <1>0, <1>1, <2>1, <2>2 DEF HeadNotForgotten
  <2>7. \A d \in Dir : head[d] > toldHead'[d] => [ref |-> d] \in queue \/ d \in Held'.refs
    BY <1>0, <1>2, <2>1, <2>2 DEF NoRefLost
  <2>8. dirty' \subseteq Path /\ toldHead' \in [Dir -> 0..MaxOps]
        /\ \A d \in Dir : toldHead'[d] <= head[d]
    BY <1>0, <1>3, <2>2 DEF TypeOK
  <2> QED BY <1>4, <2>1, <2>3, <2>4, <2>5, <2>6, <2>7, <2>8
<1>6. CASE OpenHold
  <2> DEFINE h == [age |-> 0, quiet |-> 0, paths |-> input.paths, refs |-> RefDirty]
  <2>1. h \in Hold /\ h.paths = input.paths /\ h.refs = RefDirty
    BY <1>1, <1>2 DEF Hold
  <2>2. /\ hold = None /\ hold' = h /\ holding' = TRUE /\ dirty' = dirty /\ toldHead' = toldHead
        /\ Held.paths = {} /\ Held.refs = {}
    BY <1>6 DEF OpenHold, Held, told
  <2> HIDE DEF h
  <2>3. hold' # None /\ Held'.paths = input.paths /\ Held'.refs = RefDirty
    BY <2>1, <2>2 DEF Held
  <2>4. holding' \in BOOLEAN /\ holding'
    BY <2>2, Zenon
  <2>5. \A p \in dirty' : [path |-> p] \in queue \/ p \in Held'.paths
    BY <1>0, <2>2, <2>3 DEF NoPathLost
  <2>6. \A d \in Dir : lastHead'[d] <= toldHead'[d] \/ d \in Held'.refs
    BY <1>0, <1>1, <2>2, <2>3 DEF HeadNotForgotten
  <2>7. \A d \in Dir : head[d] > toldHead'[d] => [ref |-> d] \in queue \/ d \in Held'.refs
    BY <1>0, <1>2, <2>2, <2>3 DEF NoRefLost
  <2>8. dirty' \subseteq Path /\ toldHead' \in [Dir -> 0..MaxOps]
        /\ \A d \in Dir : toldHead'[d] <= head[d]
    BY <1>0, <1>3, <2>2 DEF TypeOK
  <2> QED BY <1>4, <2>1, <2>2, <2>3, <2>4, <2>5, <2>6, <2>7, <2>8
<1>7. CASE KeepHolding
  <2>1. /\ hold # None /\ hold' = Extended /\ holding' = holding /\ dirty' = dirty
        /\ toldHead' = toldHead
    BY <1>7 DEF KeepHolding, told
  <2>2. /\ hold' \in Hold /\ hold' # None /\ hold'.paths = hold.paths \cup input.paths
        /\ hold'.refs = hold.refs \cup RefDirty
    BY <1>0, <2>1, ExtendedType
  <2>3. /\ Held'.paths = hold.paths \cup input.paths /\ Held'.refs = hold.refs \cup RefDirty
        /\ Held.paths = hold.paths /\ Held.refs = hold.refs
    BY <2>1, <2>2 DEF Held
  <2>4. holding' \in BOOLEAN /\ (holding' <=> hold' # None)
    BY <1>0, <1>2, <2>1, <2>2 DEF NoteExact
  <2>5. \A p \in dirty' : [path |-> p] \in queue \/ p \in Held'.paths
    BY <1>0, <2>1, <2>3 DEF NoPathLost
  <2>6. \A d \in Dir : lastHead'[d] <= toldHead'[d] \/ d \in Held'.refs
    BY <1>0, <1>1, <2>1, <2>3 DEF HeadNotForgotten
  <2>7. \A d \in Dir : head[d] > toldHead'[d] => [ref |-> d] \in queue \/ d \in Held'.refs
    BY <1>0, <1>2, <2>1, <2>3 DEF NoRefLost
  <2>8. dirty' \subseteq Path /\ toldHead' \in [Dir -> 0..MaxOps]
        /\ \A d \in Dir : toldHead'[d] <= head[d]
    BY <1>0, <1>3, <2>1 DEF TypeOK
  <2> QED BY <1>4, <2>2, <2>4, <2>5, <2>6, <2>7, <2>8
<1>8. CASE Flush
  <2> DEFINE R == hold.refs \cup RefDirty
  <2>1. /\ hold # None /\ hold' = None /\ holding' = FALSE
        /\ Schedule(Extended.paths, Extended.refs)
    BY <1>8 DEF Flush
  <2>2. Extended.paths = hold.paths \cup input.paths /\ Extended.refs = R
    BY <1>0, <2>1, ExtendedType
  <2>3. /\ dirty' = dirty \ (hold.paths \cup input.paths)
        /\ toldHead' = [d \in Dir |-> IF d \in R THEN head[d] ELSE toldHead[d]]
    BY <2>1, <2>2 DEF Schedule
  <2>4. Held.paths = hold.paths /\ Held.refs = hold.refs
    BY <2>1 DEF Held
  <2>5. holding' \in BOOLEAN /\ ~holding'
    BY <2>1, Zenon
  <2>6. /\ \A d \in Dir : d \in R => toldHead'[d] = head[d]
        /\ \A d \in Dir : d \notin R => toldHead'[d] = toldHead[d]
    BY <2>3
  <2>7. \A p \in dirty' : [path |-> p] \in queue
    BY <1>0, <2>3, <2>4 DEF NoPathLost
  <2>8. \A d \in Dir : lastHead'[d] <= toldHead'[d]
    BY <1>0, <1>1, <2>4, <2>6 DEF HeadNotForgotten
  <2>9. \A d \in Dir : head[d] > toldHead'[d] => [ref |-> d] \in queue
    BY <1>0, <1>2, <1>3, <2>4, <2>6 DEF NoRefLost
  <2>10. dirty' \subseteq Path /\ toldHead' \in [Dir -> 0..MaxOps]
    BY <1>0, <2>3 DEF TypeOK
  <2>11. \A d \in Dir : toldHead'[d] <= head[d]
    BY <1>3, <2>6
  <2> QED BY <1>4, <2>1, <2>5, <2>7, <2>8, <2>9, <2>10, <2>11
<1> QED BY <1>5, <1>6, <1>7, <1>8 DEF Step

LEMMA StopKeeps == ASSUME GInv, Stop PROVE GInv'
<1>0. TypeOK /\ TurnClean /\ HeadsOrdered /\ LocksOrdered /\ NoPathLost /\ HeadNotForgotten
      /\ NoRefLost /\ NoteExact
  BY DEF GInv
<1>1. /\ UNCHANGED <<head, lock, lockAge, gitRuns, sequence, ops, queue, input, obs, lastHead,
                     hold, tracker, due, dirty, toldHead>>
      /\ pc = "recv" /\ pc' = "stopped" /\ holding' = FALSE
  BY DEF Stop, git, told
<1>2. holding' \in BOOLEAN /\ ~holding'
  BY <1>1, Zenon
<1>3. TypeOK'
  BY <1>0, <1>1, <1>2 DEF TypeOK
<1>4. Held' = Held
  BY <1>1 DEF Held
<1>5. TurnClean' /\ HeadsOrdered' /\ LocksOrdered' /\ NoteExact'
  BY <1>0, <1>1, <1>2 DEF TurnClean, HeadsOrdered, LocksOrdered, NoteExact
<1>6. NoPathLost' /\ HeadNotForgotten' /\ NoRefLost'
  BY <1>0, <1>1, <1>4 DEF NoPathLost, HeadNotForgotten, NoRefLost
<1> QED BY <1>3, <1>5, <1>6 DEF GInv

LEMMA StutterKeeps == ASSUME GInv, UNCHANGED vars PROVE GInv'
<1>1. UNCHANGED <<head, lock, lockAge, gitRuns, sequence, ops, queue, pc, input, obs, lastHead,
                  hold, tracker, holding, due, dirty, toldHead>>
  BY DEF vars, git, turn, gate, told
<1>2. TypeOK' /\ TurnClean' /\ HeadsOrdered' /\ LocksOrdered' /\ NoteExact' /\ Held' = Held
  BY <1>1 DEF GInv, TypeOK, TurnClean, HeadsOrdered, LocksOrdered, NoteExact, Held
<1>3. NoPathLost' /\ HeadNotForgotten' /\ NoRefLost'
  BY <1>1, <1>2 DEF GInv, NoPathLost, HeadNotForgotten, NoRefLost
<1> QED BY <1>2, <1>3 DEF GInv

LEMMA NextGInv == GInv /\ [Next]_vars => GInv'
<1> SUFFICES ASSUME GInv, [Next]_vars PROVE GInv'
  OBVIOUS
<1>1. CASE Environment
  BY <1>1, EnvironmentKeeps
<1>2. CASE Tick
  BY <1>2, TickKeeps
<1>3. CASE Loop
  BY <1>3, TimeOutKeeps, StepKeeps, ProbeLockKeeps, ProbeHeadKeeps DEF Loop
<1>4. CASE Deliver
  BY <1>4, ReceiveKeeps DEF Deliver
<1>5. CASE Stop
  BY <1>5, StopKeeps
<1>6. CASE UNCHANGED vars
  BY <1>6, StutterKeeps
<1> QED BY <1>1, <1>2, <1>3, <1>4, <1>5, <1>6 DEF Next

LEMMA AlwaysGInv == Spec => []GInv
BY InitGInv, NextGInv, PTL DEF Spec

-----------------------------------------------------------------------------
(* The theorems                                                             *)

\* Between the debouncer and the reload scheduler neither a changed path nor a
\* moved HEAD is ever dropped, in whatever order events, probes and Git's own
\* steps come (LoopCtx::apply, GitGate::step).
THEOREM NothingLostEver == Spec => []NothingLost
<1>1. GInv => NothingLost
  BY DEF GInv, NothingLost
<1> QED BY <1>1, AlwaysGInv, PTL

\* git_operation_note is shown exactly while the gate of a running watcher
\* holds: HoldFlagGuard and GIT_HOLDS agree with the gate at every step.
THEOREM NoteAlwaysExact == Spec => []NoteExact
<1>1. GInv => NoteExact
  BY DEF GInv
<1> QED BY <1>1, AlwaysGInv, PTL

\* The lock of a git that runs is never taken for absent or orphaned, whatever
\* locks were declared orphaned before (LockTracker::lock_is_live).
THEOREM LiveGitAlwaysSeen == Spec => LiveGitSeen
<1> DEFINE Seen == \A d \in Dir : obs[d].live = None /\ obs'[d].live = FALSE => ~gitRuns[d]
<1>1. ASSUME GInv, [Next]_vars PROVE [Seen]_vars
  <2> SUFFICES ASSUME NEW d \in Dir, obs[d].live = None, obs'[d].live = FALSE, Next
               PROVE  ~gitRuns[d]
    BY <1>1
  <2>0. TypeOK /\ LocksOrdered /\ obs \in [Dir -> Observation] /\ None # FALSE
    BY <1>1 DEF GInv, TypeOK, Observation
  <2>1. obs'[d] # obs[d]
    BY <2>0
  <2>2. CASE Step
    BY <2>0, <2>2 DEF Step, NotSeen
  <2>3. CASE \E e \in Dir : ProbeHead(e)
    <3>1. PICK e \in Dir : ProbeHead(e)
      BY <2>3
    <3>2. e = d => obs[d].live # None
      BY <3>1 DEF ProbeHead
    <3>3. e # d => obs'[d] = obs[d]
      BY <2>0, <3>1 DEF ProbeHead
    <3> QED BY <2>1, <3>2, <3>3
  <2>4. CASE \E e \in Dir : ProbeLock(e)
    <3>1. PICK e \in Dir : ProbeLock(e)
      BY <2>4
    <3>2. PICK answer \in GitRunning :
            obs' = [obs EXCEPT ![e] = [live |-> LockIsLive(e, answer)[1],
                                       busy |-> LockIsLive(e, answer)[1] \/ sequence[e],
                                       head |-> None]]
      BY <3>1 DEF ProbeLock
    <3>3. e = d
      BY <2>0, <2>1, <3>2
    <3>4. obs'[d].live = LockIsLive(d, answer)[1]
      BY <2>0, <3>2, <3>3
    <3>5. LockIsLive(d, answer)[1] = FALSE
      BY <3>4
    <3>6. ~LockIsLive(d, answer)[1]
      BY <3>5, Zenon
    <3>7. lock[d] = None \/ tracker[d].orphan = lock[d] \/ answer = FALSE
      BY <2>0, <3>6, LockIsLiveType
    <3>8. answer = FALSE => ~gitRuns[d]
      <4>1. CASE gitRuns[d]
        <5>1. answer \in {TRUE, None}
          BY <3>2, <4>1 DEF GitRunning
        <5> QED BY <2>0, <5>1, Zenon
      <4> QED BY <4>1
    <3> QED BY <2>0, <3>7, <3>8 DEF LocksOrdered
  <2>5. CASE obs' = obs
    BY <2>1, <2>5
  <2>6. Environment \/ Tick \/ TimeOut \/ Deliver \/ Stop => obs' = obs
    BY DEF Environment, Touch, TakeLock, ReleaseLock, KillGit, MoveHead, Rebase, Op, turn, Tick,
           TimeOut, Deliver, Receive, Stop
  <2> QED BY <2>2, <2>3, <2>4, <2>5, <2>6 DEF Next, Loop
<1>2. Spec => []GInv
  BY AlwaysGInv
<1>3. Spec => [][Seen]_vars
  BY <1>1, <1>2, PTL DEF Spec
<1> QED BY <1>3 DEF LiveGitSeen
=============================================================================
