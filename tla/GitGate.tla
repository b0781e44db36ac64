------------------------------ MODULE GitGate ------------------------------
(***************************************************************************)
(* The watcher thread of one AppState and its Git gate.  File system       *)
(* events come in debounced batches; while a Git operation runs the paths  *)
(* are held back and handed to the reload scheduler in one go once the     *)
(* operation is over, or once MAX_HOLD has passed.                         *)
(*                                                                         *)
(* Git itself and the users of the work tree are the environment.  Time is *)
(* counted in ticks: the loop runs at least once per tick, and every       *)
(* elapsed time is kept only up to the threshold it is compared with.      *)
(***************************************************************************)
EXTENDS Naturals

CONSTANTS
  Dir,        \* the resolved Git directories
  Path,       \* relevant, non-excluded working-tree paths
  None,
  Settle,     \* GIT_SETTLE
  MaxHold,    \* MAX_HOLD
  OrphanAge,  \* ORPHAN_LOCK_AGE
  Recheck,    \* PROCESS_RECHECK
  MaxOps      \* bound of the model: steps of Git and of the users

ASSUME GateAssumption ==
  /\ None \notin Nat /\ None \notin BOOLEAN
  /\ Settle \in Nat \ {0} /\ Recheck \in Nat \ {0}
  /\ Settle <= Recheck /\ Recheck <= OrphanAge /\ OrphanAge < MaxHold
  /\ OrphanAge \in Nat /\ MaxHold \in Nat
  /\ MaxOps \in Nat

VARIABLES
  \* The disk: HEAD (a version), index.lock (None or its mtime), its age, whether
  \* its git still runs, and whether a rebase directory exists.
  head, lock, lockAge, gitRuns, sequence,
  ops,
  queue,      \* what the debouncer has not delivered yet, see Event
  pc, input, obs,            \* locals of one turn of LoopCtx::run
  lastHead, hold, tracker,   \* GitGate and the LockTrackers
  holding,    \* this state's entry in GIT_HOLDS
  due,        \* time has passed since the loop's last turn
  dirty,      \* paths changed since they were last handed to schedule_reload
  toldHead    \* the HEAD on disk when a head_marker was last handed over

git == <<head, lock, lockAge, gitRuns, sequence, ops>>
turn == <<pc, input, obs>>
gate == <<lastHead, hold, tracker, holding>>
told == <<dirty, toldHead>>
vars == <<git, queue, turn, gate, due, told>>

Event == [path : Path] \cup [activity : Dir] \cup [ref : Dir]
Input == [paths : SUBSET Path, active : SUBSET Dir, refs : SUBSET Dir]
Nothing == [paths |-> {}, active |-> {}, refs |-> {}]
Hold == [age : 0..MaxHold, quiet : 0..Settle, paths : SUBSET Path, refs : SUBSET Dir]
\* A check never made counts as made long ago.
Tracker == [orphan : (1..MaxOps) \cup {None}, since : 0..Recheck]
NoTracker == [orphan |-> None, since |-> Recheck]
NotSeen == [live |-> None, busy |-> FALSE, head |-> None]

ASSUME HoldAssumption == None \notin Hold

Later(t, limit) == IF t < limit THEN t + 1 ELSE t

\* FileWatcherService::spawn reads every HEAD before the loop starts.
Init ==
  /\ head = [d \in Dir |-> 0] /\ lock = [d \in Dir |-> None]
  /\ lockAge = [d \in Dir |-> 0] /\ gitRuns = [d \in Dir |-> FALSE]
  /\ sequence = [d \in Dir |-> FALSE] /\ ops = 0
  /\ queue = {}
  /\ pc = "recv" /\ input = Nothing /\ obs = [d \in Dir |-> NotSeen]
  /\ lastHead = head /\ hold = None /\ tracker = [d \in Dir |-> NoTracker] /\ holding = FALSE
  /\ due = FALSE
  /\ dirty = {} /\ toldHead = head

-----------------------------------------------------------------------------
(* The environment.                                                        *)

Op(events) ==
  /\ ops < MaxOps /\ ops' = ops + 1
  /\ queue' = queue \cup events
  /\ UNCHANGED <<turn, gate, due>>

Touch(p) ==
  /\ Op({[path |-> p]})
  /\ dirty' = dirty \cup {p}
  /\ UNCHANGED <<head, lock, lockAge, gitRuns, sequence, toldHead>>

\* git takes index.lock, and removes it when it is done; a lock whose git died
\* is removed by hand.
TakeLock(d) ==
  /\ lock[d] = None
  /\ Op({[activity |-> d]})
  /\ lock' = [lock EXCEPT ![d] = ops + 1]
  /\ lockAge' = [lockAge EXCEPT ![d] = 0]
  /\ gitRuns' = [gitRuns EXCEPT ![d] = TRUE]
  /\ UNCHANGED <<head, sequence, told>>
ReleaseLock(d) ==
  /\ lock[d] # None
  /\ Op({[activity |-> d]})
  /\ lock' = [lock EXCEPT ![d] = None]
  /\ lockAge' = [lockAge EXCEPT ![d] = 0]
  /\ gitRuns' = [gitRuns EXCEPT ![d] = FALSE]
  /\ UNCHANGED <<head, sequence, told>>
KillGit(d) ==
  /\ gitRuns[d]
  /\ Op({})
  /\ gitRuns' = [gitRuns EXCEPT ![d] = FALSE]
  /\ UNCHANGED <<head, lock, lockAge, sequence, told>>
MoveHead(d) ==
  /\ Op({[ref |-> d]})
  /\ head' = [head EXCEPT ![d] = ops + 1]
  /\ UNCHANGED <<lock, lockAge, gitRuns, sequence, told>>
Rebase(d) ==
  /\ Op({[activity |-> d]})
  /\ sequence' = [sequence EXCEPT ![d] = ~@]
  /\ UNCHANGED <<head, lock, lockAge, gitRuns, told>>

Environment ==
  \/ \E p \in Path : Touch(p)
  \/ \E d \in Dir : TakeLock(d) \/ ReleaseLock(d) \/ KillGit(d) \/ MoveHead(d) \/ Rebase(d)

\* The loop waits for at most GIT_HOLD_TICK while it holds: one turn per tick.
Tick ==
  /\ ~due /\ pc # "stopped"
  /\ due' = TRUE
  /\ lockAge' = [d \in Dir |-> IF lock[d] = None THEN 0 ELSE Later(lockAge[d], OrphanAge)]
  /\ tracker' = [d \in Dir |-> [tracker[d] EXCEPT !.since = Later(@, Recheck)]]
  /\ hold' = IF hold = None THEN None
             ELSE [hold EXCEPT !.age = Later(@, MaxHold), !.quiet = Later(@, Settle)]
  /\ UNCHANGED <<head, lock, gitRuns, sequence, ops, queue, turn, lastHead, holding, told>>

-----------------------------------------------------------------------------
(* LoopCtx::run.                                                           *)

\* LoopCtx::classify: events of a Git directory are no reload paths.
Classify(B) ==
  LET refs == {d \in Dir : [ref |-> d] \in B}
  IN [paths |-> {p \in Path : [path |-> p] \in B},
      active |-> refs \cup {d \in Dir : [activity |-> d] \in B},
      refs |-> refs]

\* A batch of the debouncer, in any composition.
Receive(B) ==
  /\ pc = "recv"
  /\ B \subseteq queue /\ B # {}
  /\ queue' = queue \ B
  /\ input' = Classify(B)
  /\ pc' = "probe"
  /\ UNCHANGED <<git, obs, gate, due, told>>

\* The wait timed out.  With nothing held, apply returns before any probe.
TimeOut ==
  /\ pc = "recv"
  /\ \/ hold # None /\ pc' = "probe" /\ UNCHANGED due
     \/ hold = None /\ due /\ due' = FALSE /\ UNCHANGED pc
  /\ UNCHANGED <<git, queue, input, obs, gate, told>>

\* What user_git_running may answer: the user's git processes elsewhere count
\* too, and pgrep may fail.
GitRunning == {TRUE, None} \cup (IF \E d \in Dir : gitRuns[d] THEN {} ELSE {FALSE})

\* Mutant: a process check that failed counts as "no git runs".
LockIsLiveUnknown(d, answer) ==
  LET t == tracker[d]
  IN IF lock[d] = None THEN <<FALSE, NoTracker>>
     ELSE IF t.orphan = lock[d] THEN <<FALSE, t>>
     ELSE IF lockAge[d] < OrphanAge \/ t.since < Recheck THEN <<TRUE, t>>
     ELSE IF answer # TRUE THEN <<FALSE, [orphan |-> lock[d], since |-> 0]>>
     ELSE <<TRUE, [t EXCEPT !.since = 0]>>

\* LockTracker::lock_is_live, as <<live, tracker>>.
LockIsLive(d, answer) ==
  LET t == tracker[d]
  IN IF lock[d] = None THEN <<FALSE, NoTracker>>
     ELSE IF t.orphan = lock[d] THEN <<FALSE, t>>
     ELSE IF lockAge[d] < OrphanAge \/ t.since < Recheck THEN <<TRUE, t>>
     ELSE IF answer = FALSE THEN <<FALSE, [orphan |-> lock[d], since |-> 0]>>
     ELSE <<TRUE, [t EXCEPT !.since = 0]>>

\* LoopCtx::observe and probe: the lock is looked at first ...
ProbeLock(d) ==
  /\ pc = "probe" /\ obs[d].live = None
  /\ \E answer \in GitRunning :
       /\ obs' = [obs EXCEPT ![d] = [live |-> LockIsLive(d, answer)[1],
                                     busy |-> LockIsLive(d, answer)[1] \/ sequence[d],
                                     head |-> None]]
       /\ tracker' = [tracker EXCEPT ![d] = LockIsLive(d, answer)[2]]
  /\ UNCHANGED <<git, queue, pc, input, lastHead, hold, holding, due, told>>

\* ... and HEAD last.
ProbeHead(d) ==
  /\ pc = "probe" /\ obs[d].live # None /\ obs[d].head = None
  /\ obs' = [obs EXCEPT ![d].head = head[d]]
  /\ UNCHANGED <<git, queue, pc, input, gate, due, told>>

\* FileWatcherService::schedule_reload: from here on the reload of Indexer owns
\* the paths, and a head_marker among them makes it a full one.
Schedule(P, D) ==
  /\ dirty' = dirty \ P
  /\ toldHead' = [d \in Dir |-> IF d \in D THEN head[d] ELSE toldHead[d]]

\* GitGate::step and the part of LoopCtx::apply that acts on its answer.
Moved == {d \in Dir : lastHead[d] # obs[d].head}
RefDirty == input.refs \cup Moved
AnyBusy == \E d \in Dir : obs[d].busy
Activity == input.active # {} \/ AnyBusy \/ RefDirty # {}

Pass ==
  /\ hold = None /\ ~Activity
  /\ Schedule(input.paths, {})
  /\ UNCHANGED <<hold, holding>>

OpenHold ==
  /\ hold = None /\ Activity
  /\ hold' = [age |-> 0, quiet |-> 0, paths |-> input.paths, refs |-> RefDirty]
  /\ holding' = TRUE
  /\ UNCHANGED told

\* The hold with this turn's input added.
Extended ==
  [hold EXCEPT !.quiet = IF Activity \/ input.paths # {} THEN 0 ELSE @,
               !.paths = @ \cup input.paths, !.refs = @ \cup RefDirty]
Settled == ~AnyBusy /\ Extended.quiet >= Settle
NeverTimedOut == FALSE \* Mutant: MAX_HOLD is not enforced.
TimedOut == hold.age >= MaxHold

KeepHolding ==
  /\ hold # None /\ ~Settled /\ ~TimedOut
  /\ hold' = Extended
  /\ UNCHANGED <<holding, told>>

\* Mutant: the refs of the turn that releases the hold are left out.
FlushOldRefs ==
  /\ hold # None /\ (Settled \/ TimedOut)
  /\ hold' = None /\ holding' = FALSE
  /\ Schedule(Extended.paths, hold.refs)

Flush ==
  /\ hold # None /\ (Settled \/ TimedOut)
  /\ hold' = None /\ holding' = FALSE
  /\ Schedule(Extended.paths, Extended.refs)

Step ==
  /\ pc = "probe" /\ \A d \in Dir : obs[d].head # None
  /\ lastHead' = [d \in Dir |-> obs[d].head]
  /\ Pass \/ OpenHold \/ KeepHolding \/ Flush
  /\ pc' = "recv" /\ input' = Nothing /\ obs' = [d \in Dir |-> NotSeen]
  /\ due' = FALSE
  /\ UNCHANGED <<git, queue, tracker>>

\* Mutant: no HoldFlagGuard.
StopUnguarded ==
  /\ pc = "recv"
  /\ pc' = "stopped"
  /\ UNCHANGED <<git, queue, input, obs, gate, due, told>>

\* The token is cancelled, or the channel is closed: the thread ends and
\* HoldFlagGuard is dropped.
Stop ==
  /\ pc = "recv"
  /\ pc' = "stopped"
  /\ holding' = FALSE
  /\ UNCHANGED <<git, queue, input, obs, lastHead, hold, tracker, due, told>>

-----------------------------------------------------------------------------
Loop ==
  \/ TimeOut \/ Step
  \/ \E d \in Dir : ProbeLock(d) \/ ProbeHead(d)
Deliver == \E B \in SUBSET queue : Receive(B)

Next == Environment \/ Tick \/ Loop \/ Deliver \/ Stop
Spec == Init /\ [][Next]_vars

\* The thread runs, time passes, and the debouncer delivers what it holds.
FairSpec == Spec /\ WF_vars(Loop) /\ WF_vars(Tick) /\ SF_vars(Deliver)

-----------------------------------------------------------------------------
(* Properties.                                                             *)

\* Every variable holds a value of its kind (watcher.rs, watcher/git.rs).
TypeOK ==
  /\ head \in [Dir -> 0..MaxOps] /\ lock \in [Dir -> (1..MaxOps) \cup {None}]
  /\ lockAge \in [Dir -> 0..OrphanAge] /\ gitRuns \in [Dir -> BOOLEAN]
  /\ sequence \in [Dir -> BOOLEAN] /\ ops \in 0..MaxOps
  /\ queue \subseteq Event
  /\ pc \in {"recv", "probe", "stopped"} /\ input \in Input
  /\ obs \in [Dir -> [live : BOOLEAN \cup {None}, busy : BOOLEAN, head : (0..MaxOps) \cup {None}]]
  /\ lastHead \in [Dir -> 0..MaxOps] /\ hold \in Hold \cup {None}
  /\ tracker \in [Dir -> Tracker] /\ holding \in BOOLEAN /\ due \in BOOLEAN
  /\ dirty \subseteq Path /\ toldHead \in [Dir -> 0..MaxOps]

Held == IF hold = None THEN [paths |-> {}, refs |-> {}] ELSE hold

\* GitGate::step never drops a path: one that changed is waiting in the
\* debouncer, in the batch at hand, in the hold, or was handed over.
NoPathLost ==
  \A p \in dirty : [path |-> p] \in queue \/ p \in input.paths \/ p \in Held.paths

\* The gate's memory of HEAD never runs ahead of the reloads: a HEAD it has
\* noted as seen was handed over as a head_marker, or is marked in the hold.
HeadNotForgotten ==
  \A d \in Dir : lastHead[d] <= toldHead[d] \/ d \in Held.refs

\* A HEAD on disk that no full reload follows is still on its way to one.
NoRefLost ==
  \A d \in Dir : head[d] > toldHead[d] =>
    [ref |-> d] \in queue \/ d \in input.refs \/ d \in Held.refs

\* LockTracker: the lock of a git that runs is never taken for absent or
\* orphaned, whatever locks were declared orphaned before.
LiveGitSeen ==
  [][\A d \in Dir : obs[d].live = None /\ obs'[d].live = FALSE => ~gitRuns[d]]_vars

\* git_operation_note is shown exactly while the gate of a running watcher holds.
NoteExact == holding <=> hold # None /\ pc # "stopped"

\* A changed path reaches the reload scheduler, whatever git does: a crashed
\* git, an orphaned lock and a rebase left open for ever included.
PathsReleased == \A p \in Path : (p \in dirty) ~> (p \notin dirty \/ pc = "stopped")

\* Whatever order events, probes and git's own steps come in, neither a
\* changed path nor a moved HEAD is dropped between the debouncer and the
\* scheduler (LoopCtx::apply, GitGate::step).
NothingLost == TypeOK /\ NoPathLost /\ HeadNotForgotten /\ NoRefLost
=============================================================================
