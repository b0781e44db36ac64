----------------------- MODULE DaemonLifecycle_proofs -----------------------
(* Proofs about DaemonLifecycle, for any number of daemons, proxies, lines,   *)
(* kills and doctor runs, and any capacity and deadline.                      *)
EXTENDS DaemonLifecycle, FiniteSetTheorems, TLAPS

USE BoundsAssumption

------------------------------------------------------------------------------
(* The inductive invariant *)

Lines == [sent : Nat, eof : BOOLEAN, moved : Nat, put : Nat, out : Nat, done : BOOLEAN,
          shut : BOOLEAN, drained : BOOLEAN, end : {"open", "ClientClosed", "DaemonClosed"}]
Looking == {"guard", "ensure", "spawn", "poll", "connect"}
Place == Looking \union {"bridge", "standalone", "refusing", "exited"}
Watch == [ever : BOOLEAN, idle : 0..IdleTimeout, age : Nat]
Doctor == [pc : {"read", "probe", "kill", "forget"}, pid : Daemons \union {Crashed, NoOne}]

(* Records that are only written, and the numbers in them.                 *)
Shapes ==
    /\ sock \in Daemons \union {Crashed, NoOne}
    /\ meta \in Daemons \union {Crashed, NoOne}
    /\ doctor \in Doctor
    /\ watch \in [Daemons -> Watch]
    /\ cancelled \in [Daemons -> BOOLEAN]
    /\ tries \in [Proxies -> 0..Polls]
    /\ \A p \in Proxies : ppc[p] \in {"guard", "ensure", "spawn", "poll"} => tries[p] # 0
    /\ ppc \in [Proxies -> Place] /\ io \in [Proxies -> Lines]
    /\ closed \in [Proxies -> {"no", "eof", "cut"}]

(* What the lines s of a session tell of its end, the proxy being at `at`  *)
(* and the daemon's side of it ended as cl says.  In process, a reader at  *)
(* its end has read everything and a drained writer has written everything;*)
(* through a daemon, client_done comes before the half-close, and only a   *)
(* half-close makes the handler see the end, with every line answered.     *)
Session(s, at, cl) ==
    /\ s.out <= s.put /\ s.put <= s.moved /\ s.moved <= s.sent
    /\ at \in Looking => s = NoLines /\ cl = "no"
    /\ at \in {"standalone", "refusing"} =>
         /\ cl = "no" /\ s.end = "open"
         /\ s.shut => s.moved = s.sent /\ s.eof
         /\ s.drained => s.shut /\ s.put = s.moved /\ s.out = s.put
    /\ at = "bridge" =>
         /\ s.end = "open"
         /\ s.done => s.moved = s.sent /\ s.eof
         /\ s.shut /\ cl = "no" => s.done
         /\ cl = "eof" => s.done /\ s.put = s.moved
    /\ s.end = "DaemonClosed" => cl = "cut"
    /\ s.end = "ClientClosed" /\ cl # "cut" => s.out = s.sent

Connection == [who : UNION {Daemons, Proxies, Nat}, at : Daemons,
               kind : {"probe", "session"}, st : {"queued", "accepted"}]

(* A session's connection is the only one of its proxy, which bridges, and *)
(* whose other side nobody ended yet.                                      *)
Connected ==
    /\ conns \subseteq Connection /\ IsFiniteSet(conns)
    /\ \A c \in conns : c.kind = "session" =>
         c.who \in Proxies /\ ppc[c.who] = "bridge" /\ closed[c.who] = "no"
    /\ \A c, e \in conns : c.kind = "session" /\ e.kind = "session" /\ c.who = e.who => c = e

HeldAt(d) == {c \in conns : c.at = d /\ c.st = "accepted"}

(* ClientCounter counts at least the connections that handlers hold.       *)
Counted == counter \in [Daemons -> Nat] /\ \A d \in Daemons : Cardinality(HeldAt(d)) <= counter[d]

DInv == Shapes /\ (\A p \in Proxies : Session(io[p], ppc[p], closed[p])) /\ Connected /\ Counted

------------------------------------------------------------------------------
(* Values *)

LEMMA NoLinesIsLines == NoLines \in Lines /\ NoLines.sent = 0 /\ NoLines.moved = 0
                        /\ NoLines.put = 0 /\ NoLines.out = 0 /\ NoLines.end = "open"
                        /\ ~NoLines.eof /\ ~NoLines.done /\ ~NoLines.shut /\ ~NoLines.drained
BY DEF NoLines, Lines

LEMMA UnusedIsWatch == Unused \in Watch
<1>1. 0 \in 0..IdleTimeout /\ 1 \in Nat
  OBVIOUS
<1>2. FALSE \in BOOLEAN
  BY Zenon
<1> QED BY <1>1, <1>2 DEF Unused, Watch

(* A watchdog never counts past its deadline.                              *)
LEMMA WatchAfterType ==
    ASSUME NEW w \in Watch, NEW active \in Nat PROVE WatchAfter(w, active) \in Watch
<1> DEFINE i == CASE active > 0 \/ ~w.ever -> 0
                  [] w.idle < IdleTimeout -> w.idle + 1
                  [] OTHER -> w.idle
           a == IF ~w.ever /\ w.age < StartupGrace THEN w.age + 1 ELSE w.age
           e == w.ever \/ active > 0
<1>1. w.idle \in 0..IdleTimeout /\ w.age \in Nat /\ IdleTimeout \in Nat
  BY DEF Watch
<1>2. i \in 0..IdleTimeout
  <2>1. CASE active > 0 \/ ~w.ever
    BY <1>1, <2>1
  <2>2. CASE ~(active > 0 \/ ~w.ever) /\ w.idle < IdleTimeout
    BY <1>1, <2>2
  <2>3. CASE ~(active > 0 \/ ~w.ever) /\ ~(w.idle < IdleTimeout)
    <3>1. i = w.idle
      BY <2>3
    <3> QED BY <1>1, <3>1
  <2> QED BY <2>1, <2>2, <2>3
<1>3. a \in Nat /\ e \in BOOLEAN
  BY <1>1
<1>4. WatchAfter(w, active) = [ever |-> e, idle |-> i, age |-> a]
  BY DEF WatchAfter
<1> HIDE DEF i, a, e
<1> QED BY <1>2, <1>3, <1>4 DEF Watch

LEMMA InitDInv == Init => DInv
<1> SUFFICES ASSUME Init PROVE DInv
  OBVIOUS
<1>1. cancelled \in [Daemons -> BOOLEAN]
  BY Zenon DEF Init
<1>2. watch \in [Daemons -> Watch] /\ io \in [Proxies -> Lines]
  BY UnusedIsWatch, NoLinesIsLines DEF Init
<1>3. Shapes
  BY <1>1, <1>2 DEF Init, Shapes, Place, Looking, Doctor
<1>4. \A p \in Proxies : Session(io[p], ppc[p], closed[p])
  <2> SUFFICES ASSUME NEW p \in Proxies PROVE Session(io[p], ppc[p], closed[p])
    OBVIOUS
  <2>1. io[p] = NoLines /\ ppc[p] = "guard" /\ closed[p] = "no"
    BY DEF Init
  <2> QED BY <2>1, NoLinesIsLines DEF Session
<1>5. conns = {} /\ IsFiniteSet({}) /\ Cardinality({}) = 0
  BY FS_EmptySet DEF Init
<1>6. Connected
  BY <1>5 DEF Connected
<1>7. Counted
  <2>1. \A d \in Daemons : HeldAt(d) = {}
    BY <1>5 DEF HeldAt
  <2>2. counter \in [Daemons -> Nat] /\ \A d \in Daemons : counter[d] = 0
    BY DEF Init
  <2> QED BY <1>5, <2>1, <2>2 DEF Counted
<1> QED BY <1>3, <1>4, <1>6, <1>7 DEF DInv

------------------------------------------------------------------------------
(* What steps do to connections and sessions *)

SessionsOK == \A p \in Proxies : Session(io[p], ppc[p], closed[p])

LEMMA SessionsKept ==
    ASSUME SessionsOK, UNCHANGED <<io, ppc, closed>> PROVE SessionsOK'
BY DEF SessionsOK

LEMMA ConnectedKept ==
    ASSUME Connected, UNCHANGED <<conns, ppc, closed>> PROVE Connected'
BY DEF Connected

LEMMA CountedKept ==
    ASSUME Counted, UNCHANGED <<conns, counter>> PROVE Counted'
BY DEF Counted, HeldAt

(* Fewer connections are held at most as often.                            *)
LEMMA HeldShrinks ==
    ASSUME Connected, NEW cs, conns' = conns \ cs, NEW d \in Daemons
    PROVE  /\ Cardinality(HeldAt(d)') <= Cardinality(HeldAt(d))
           /\ Cardinality(HeldAt(d)) \in Nat /\ Cardinality(HeldAt(d)') \in Nat
<1>1. IsFiniteSet(HeldAt(d)) /\ HeldAt(d)' \subseteq HeldAt(d)
  <2>1. HeldAt(d) \subseteq conns /\ IsFiniteSet(conns)
    BY DEF HeldAt, Connected
  <2>2. HeldAt(d)' \subseteq HeldAt(d)
    BY DEF HeldAt
  <2> QED BY <2>1, <2>2, FS_Subset
<1> QED BY <1>1, FS_Subset, FS_CardinalityType

(* A cut session ends as "cut", and no other session is touched.           *)
LEMMA CutKeeps ==
    ASSUME Shapes, SessionsOK, Connected, NEW cs \in SUBSET conns, Cut(cs), UNCHANGED <<io, ppc>>
    PROVE  /\ closed' \in [Proxies -> {"no", "eof", "cut"}]
           /\ SessionsOK' /\ Connected' /\ conns' = conns \ cs
<1>1. conns' = conns \ cs
      /\ closed' = [p \in Proxies |-> IF p \in Sessions(cs) THEN "cut" ELSE closed[p]]
  BY DEF Cut
<1>2. closed' \in [Proxies -> {"no", "eof", "cut"}]
  BY <1>1 DEF Shapes
<1>3. \A p \in Sessions(cs) : \E c \in cs : c.kind = "session" /\ c.who = p
  BY DEF Sessions
<1>4. SessionsOK'
  <2> SUFFICES ASSUME NEW p \in Proxies PROVE Session(io[p], ppc[p], closed'[p])
    BY DEF SessionsOK
  <2>1. Session(io[p], ppc[p], closed[p])
    BY DEF SessionsOK
  <2>2. CASE p \in Sessions(cs)
    <3>1. ppc[p] = "bridge" /\ closed[p] = "no" /\ closed'[p] = "cut"
      BY <1>1, <1>3, <2>2 DEF Connected
    <3> QED BY <2>1, <3>1 DEF Session, Looking
  <2>3. CASE p \notin Sessions(cs)
    BY <1>1, <2>1, <2>3
  <2> QED BY <2>2, <2>3
<1>5. Connected'
  <2>1. conns' \subseteq Connection /\ IsFiniteSet(conns')
    BY <1>1, FS_Subset DEF Connected
  <2>2. ASSUME NEW c \in conns', c.kind = "session"
        PROVE  c.who \in Proxies /\ ppc'[c.who] = "bridge" /\ closed'[c.who] = "no"
    <3>1. c \in conns /\ c \notin cs
      BY <1>1, <2>2
    <3>2. c.who \in Proxies /\ ppc[c.who] = "bridge" /\ closed[c.who] = "no"
      BY <2>2, <3>1 DEF Connected
    <3>3. c.who \notin Sessions(cs)
      BY <1>3, <2>2, <3>1 DEF Connected
    <3> QED BY <1>1, <3>2, <3>3
  <2>3. \A c, e \in conns' : c.kind = "session" /\ e.kind = "session" /\ c.who = e.who => c = e
    BY <1>1 DEF Connected
  <2> QED BY <2>1, <2>2, <2>3 DEF Connected
<1> QED BY <1>1, <1>2, <1>4, <1>5

(* A process that ends takes every connection to it along.                 *)
LEMMA EndsKeeps ==
    ASSUME DInv, NEW d \in Daemons, Ends(d), UNCHANGED <<io, ppc, tries>>
    PROVE  /\ SessionsOK' /\ Connected' /\ Counted'
           /\ watch' \in [Daemons -> Watch] /\ cancelled' \in [Daemons -> BOOLEAN]
           /\ closed' \in [Proxies -> {"no", "eof", "cut"}]
<1> DEFINE cs == {c \in conns : c.at = d}
<1>1. Shapes /\ SessionsOK /\ Connected /\ Counted
  BY DEF DInv, SessionsOK
<1>2. /\ cancelled' = [cancelled EXCEPT ![d] = FALSE] /\ counter' = [counter EXCEPT ![d] = 0]
      /\ watch' = [watch EXCEPT ![d] = Unused] /\ Cut(cs) /\ cs \in SUBSET conns
  BY DEF Ends
<1>3. /\ closed' \in [Proxies -> {"no", "eof", "cut"}]
      /\ SessionsOK' /\ Connected' /\ conns' = conns \ cs
  <2> HIDE DEF cs
  <2> QED BY <1>1, <1>2, CutKeeps
<1>4. watch' \in [Daemons -> Watch]
  BY <1>1, <1>2, UnusedIsWatch DEF Shapes
<1>5. cancelled' \in [Daemons -> BOOLEAN]
  BY <1>1, <1>2, Zenon DEF Shapes
<1>6. Counted'
  <2>1. counter' \in [Daemons -> Nat] /\ counter'[d] = 0
        /\ \A e \in Daemons : e # d => counter'[e] = counter[e]
    BY <1>1, <1>2 DEF Counted
  <2>2. HeldAt(d)' = {}
    BY <1>3 DEF HeldAt
  <2>3. Cardinality(HeldAt(d)') <= counter'[d]
    BY <2>1, <2>2, FS_EmptySet
  <2>4. ASSUME NEW e \in Daemons, e # d PROVE Cardinality(HeldAt(e)') <= counter'[e]
    <3> HIDE DEF cs
    <3>1. /\ Cardinality(HeldAt(e)') <= Cardinality(HeldAt(e))
          /\ Cardinality(HeldAt(e)) \in Nat /\ Cardinality(HeldAt(e)') \in Nat
      BY <1>1, <1>3, HeldShrinks
    <3>2. Cardinality(HeldAt(e)) <= counter[e] /\ counter[e] \in Nat
      BY <1>1 DEF Counted
    <3> QED BY <2>1, <2>4, <3>1, <3>2
  <2> QED BY <2>1, <2>3, <2>4 DEF Counted
<1> QED BY <1>3, <1>4, <1>5, <1>6

(* A connection that is queued is held by no handler.                      *)
LEMMA QueuedKeeps ==
    ASSUME Shapes, Connected, Counted, Reachable, NEW who \in UNION {Daemons, Proxies, Nat},
           NEW kind \in {"probe", "session"}, conns' = conns \union {Conn(who, kind)}
    PROVE  /\ conns' \subseteq Connection /\ IsFiniteSet(conns')
           /\ \A d \in Daemons : HeldAt(d)' = HeldAt(d)
<1>1. /\ Conn(who, kind) \in Connection /\ Conn(who, kind).st = "queued"
  BY DEF Conn, Connection, Reachable
<1>2. conns' \subseteq Connection /\ IsFiniteSet(conns')
  BY <1>1, FS_AddElement DEF Connected
<1>3. \A d \in Daemons : HeldAt(d)' = HeldAt(d)
  BY <1>1 DEF HeldAt
<1> QED BY <1>2, <1>3

(* A probe, or none.                                                       *)
LEMMA ProbeKeeps ==
    ASSUME Shapes, Connected, Counted, NEW who \in UNION {Daemons, Proxies, Nat},
           conns' = (IF Reachable THEN Probe(who) ELSE conns),
           UNCHANGED <<closed, counter>>,
           \A p \in Proxies : ppc[p] = "bridge" => ppc'[p] = "bridge"
    PROVE  Connected' /\ Counted'
<1>1. CASE Reachable
  <2>1. conns' = conns \union {Conn(who, "probe")} /\ Conn(who, "probe").kind = "probe"
    BY <1>1 DEF Probe, Conn
  <2>2. /\ conns' \subseteq Connection /\ IsFiniteSet(conns')
        /\ \A d \in Daemons : HeldAt(d)' = HeldAt(d)
    BY <1>1, <2>1, QueuedKeeps
  <2>3. \A c \in conns' : c.kind = "session" => c \in conns
    BY <2>1
  <2>4. Connected'
    BY <2>2, <2>3 DEF Connected
  <2> QED BY <2>2, <2>4 DEF Counted
<1>2. CASE ~Reachable
  <2>1. conns' = conns
    BY <1>2
  <2>2. Connected'
    BY <2>1 DEF Connected
  <2> QED BY <2>1, <2>2, CountedKept
<1> QED BY <1>1, <1>2

------------------------------------------------------------------------------
(* Every step of a daemon keeps the invariant. *)

LEMMA Parts == DInv <=> Shapes /\ SessionsOK /\ Connected /\ Counted
BY DEF DInv, SessionsOK

(* Steps that leave every session alone.                                   *)
LEMMA QuietKeeps ==
    ASSUME DInv, Shapes', UNCHANGED <<conns, counter, io, ppc, closed>> PROVE DInv'
<1>1. SessionsOK' /\ Connected' /\ Counted'
  BY Parts, SessionsKept, ConnectedKept, CountedKept
<1> QED BY <1>1 DEF DInv, SessionsOK

LEMMA StartingKeeps ==
    ASSUME DInv, NEW d \in Daemons,
           UnlinkStale(d) \/ Bind(d) \/ AfterBind(d) \/ WriteDaemonMeta(d) \/ LeaveLoop(d)
    PROVE  DInv'
<1>1. /\ UNCHANGED <<conns, counter, io, ppc, tries, closed, watch, cancelled, doctor>>
      /\ sock' \in {sock, NoOne, d} /\ meta' \in {meta, NoOne, d}
  <2>1. CASE UnlinkStale(d)
    BY <2>1 DEF UnlinkStale, proxyVars
  <2>2. CASE Bind(d)
    BY <2>2 DEF Bind, proxyVars
  <2>3. CASE AfterBind(d)
    BY <2>3 DEF AfterBind, proxyVars
  <2>4. CASE WriteDaemonMeta(d)
    BY <2>4 DEF WriteDaemonMeta, proxyVars
  <2>5. CASE LeaveLoop(d)
    BY <2>5 DEF LeaveLoop, proxyVars
  <2> QED BY <2>1, <2>2, <2>3, <2>4, <2>5
<1>2. Shapes'
  BY <1>1 DEF DInv, Shapes
<1> QED BY <1>1, <1>2, QuietKeeps

LEMMA PollKeeps == ASSUME DInv, NEW d \in Daemons, Poll(d) PROVE DInv'
<1>1. UNCHANGED <<conns, counter, io, ppc, tries, closed, doctor, sock, meta>>
  BY DEF Poll, proxyVars
<1>2. watch \in [Daemons -> Watch] /\ cancelled \in [Daemons -> BOOLEAN] /\ counter[d] \in Nat
  BY DEF DInv, Shapes, Counted
<1>3. \/ cancelled' = [cancelled EXCEPT ![d] = TRUE] /\ watch' = watch
      \/ cancelled' = cancelled /\ watch' = [watch EXCEPT ![d] = WatchAfter(watch[d], counter[d])]
  BY DEF Poll
<1>4. watch' \in [Daemons -> Watch]
  <2>1. WatchAfter(watch[d], counter[d]) \in Watch
    BY <1>2, WatchAfterType
  <2> QED BY <1>2, <1>3, <2>1
<1>5. cancelled' \in [Daemons -> BOOLEAN]
  BY <1>2, <1>3
<1>6. Shapes'
  BY <1>1, <1>4, <1>5 DEF DInv, Shapes
<1> QED BY <1>1, <1>6, QuietKeeps

LEMMA InterruptKeeps == ASSUME DInv, NEW d \in Daemons, Interrupt(d) PROVE DInv'
<1>1. UNCHANGED <<conns, counter, io, ppc, tries, closed, watch, doctor, sock, meta>>
  BY DEF Interrupt, proxyVars
<1>2. cancelled' = [cancelled EXCEPT ![d] = TRUE] /\ cancelled \in [Daemons -> BOOLEAN]
  BY DEF Interrupt, DInv, Shapes
<1>3. cancelled' \in [Daemons -> BOOLEAN]
  BY <1>2
<1>4. Shapes'
  BY <1>1, <1>3 DEF DInv, Shapes
<1> QED BY <1>1, <1>4, QuietKeeps

LEMMA LeavingKeeps ==
    ASSUME DInv, NEW d \in Daemons, Ends(d), UNCHANGED proxyVars,
           sock' \in {sock, NoOne}, meta' = meta,
           doctor' \in Doctor
    PROVE  DInv'
<1>1. UNCHANGED <<io, ppc, tries>>
  BY DEF proxyVars
<1>2. /\ SessionsOK' /\ Connected' /\ Counted'
      /\ watch' \in [Daemons -> Watch] /\ cancelled' \in [Daemons -> BOOLEAN]
      /\ closed' \in [Proxies -> {"no", "eof", "cut"}]
  BY <1>1, EndsKeeps
<1>3. Shapes'
  BY <1>1, <1>2 DEF DInv, Shapes
<1> QED BY <1>2, <1>3 DEF DInv, SessionsOK

LEMMA DyingKeeps ==
    ASSUME DInv, NEW d \in Daemons,
           StartFails(d) \/ BindFails(d) \/ AfterBindRefuses(d) \/ Crash(d) \/ RemoveSocket(d)
    PROVE  DInv'
<1>1. /\ Ends(d) /\ UNCHANGED proxyVars /\ sock' \in {sock, NoOne} /\ meta' = meta
      /\ doctor' = doctor
  <2>1. CASE StartFails(d)
    BY <2>1 DEF StartFails
  <2>2. CASE BindFails(d)
    BY <2>2 DEF BindFails
  <2>3. CASE AfterBindRefuses(d)
    BY <2>3 DEF AfterBindRefuses
  <2>4. CASE Crash(d)
    BY <2>4 DEF Crash
  <2>5. CASE RemoveSocket(d)
    BY <2>5 DEF RemoveSocket
  <2> QED BY <2>1, <2>2, <2>3, <2>4, <2>5
<1>2. doctor' \in Doctor
  BY <1>1 DEF DInv, Shapes
<1> QED BY <1>1, <1>2, LeavingKeeps

LEMMA LookForStaleKeeps == ASSUME DInv, NEW d \in Daemons, LookForStale(d) PROVE DInv'
<1>1. /\ UNCHANGED <<sock, meta, cancelled, counter, watch, io, ppc, tries, closed, doctor>>
      /\ conns' = IF Reachable THEN Probe(d) ELSE conns
  BY DEF LookForStale, proxyVars
<1>2. Shapes /\ SessionsOK /\ Connected /\ Counted /\ d \in UNION {Daemons, Proxies, Nat}
  BY Parts
<1>3. Connected' /\ Counted'
  BY <1>1, <1>2, ProbeKeeps
<1>4. Shapes' /\ SessionsOK'
  BY <1>1, <1>2, SessionsKept DEF Shapes
<1> QED BY <1>3, <1>4 DEF DInv, SessionsOK

(* A handler takes a connection: one more is held, and one more counted.   *)
LEMMA AcceptKeeps == ASSUME DInv, NEW d \in Daemons, Accept(d) PROVE DInv'
<1>0. Shapes /\ SessionsOK /\ Connected /\ Counted
  BY Parts
<1>1. /\ UNCHANGED <<sock, meta, cancelled, watch, io, ppc, tries, closed, doctor>>
      /\ counter' = [counter EXCEPT ![d] = counter[d] + 1]
  BY DEF Accept, proxyVars
<1>2. PICK c \in conns : /\ c.at = d /\ c.st = "queued"
                         /\ conns' = (conns \ {c}) \union {[c EXCEPT !.st = "accepted"]}
  BY DEF Accept
<1> DEFINE a == [c EXCEPT !.st = "accepted"]
<1>3. c \in Connection /\ a \in Connection /\ a.who = c.who /\ a.kind = c.kind /\ a.at = d
      /\ a.st = "accepted"
  BY <1>0, <1>2 DEF Connected, Connection
<1>4. conns' = (conns \ {c}) \union {a}
  BY <1>2
<1> HIDE DEF a
<1>5. Connected'
  <2>1. conns' \subseteq Connection
    BY <1>0, <1>3, <1>4 DEF Connected
  <2>2. IsFiniteSet(conns')
    <3>1. IsFiniteSet(conns \ {c})
      BY <1>0, FS_RemoveElement DEF Connected
    <3> QED BY <1>4, <3>1, FS_AddElement
  <2>3. \A e \in conns' : e.kind = "session" =>
          e.who \in Proxies /\ ppc[e.who] = "bridge" /\ closed[e.who] = "no"
    BY <1>0, <1>3, <1>4 DEF Connected
  <2>4. \A e, f \in conns' : e.kind = "session" /\ f.kind = "session" /\ e.who = f.who => e = f
    BY <1>0, <1>3, <1>4 DEF Connected
  <2> QED BY <1>1, <2>1, <2>2, <2>3, <2>4 DEF Connected
<1>6. Counted'
  <2>1. counter' \in [Daemons -> Nat] /\ counter'[d] = counter[d] + 1 /\ counter[d] \in Nat
        /\ \A e \in Daemons : e # d => counter'[e] = counter[e]
    BY <1>0, <1>1 DEF Counted
  <2>2. HeldAt(d)' = HeldAt(d) \union {a}
    BY <1>2, <1>3, <1>4 DEF HeldAt
  <2>3. IsFiniteSet(HeldAt(d))
    BY <1>0, FS_Subset DEF HeldAt, Connected
  <2>4. /\ Cardinality(HeldAt(d)') <= Cardinality(HeldAt(d)) + 1
        /\ Cardinality(HeldAt(d)) \in Nat /\ Cardinality(HeldAt(d)') \in Nat
    <3>1. IsFiniteSet(HeldAt(d) \union {a})
      BY <2>3, FS_AddElement
    <3>2. Cardinality(HeldAt(d) \union {a}) \in {Cardinality(HeldAt(d)), Cardinality(HeldAt(d)) + 1}
      BY <2>3, FS_AddElement
    <3>3. Cardinality(HeldAt(d)) \in Nat /\ Cardinality(HeldAt(d) \union {a}) \in Nat
      BY <2>3, <3>1, FS_CardinalityType
    <3> QED BY <2>2, <3>2, <3>3
  <2>5. Cardinality(HeldAt(d)') <= counter'[d]
    BY <1>0, <2>1, <2>4 DEF Counted
  <2>6. ASSUME NEW e \in Daemons, e # d PROVE Cardinality(HeldAt(e)') <= counter'[e]
    <3>1. HeldAt(e)' = HeldAt(e)
      BY <1>2, <1>3, <1>4, <2>6 DEF HeldAt
    <3> QED BY <1>0, <2>1, <2>6, <3>1 DEF Counted
  <2> QED BY <2>1, <2>5, <2>6 DEF Counted
<1>7. Shapes' /\ SessionsOK'
  BY <1>0, <1>1, SessionsKept DEF Shapes
<1> QED BY <1>5, <1>6, <1>7 DEF DInv, SessionsOK

(* A handler ends: one connection less is held, and one less counted.      *)
LEMMA ReleaseKeeps ==
    ASSUME Connected, Counted, NEW d \in Daemons, NEW c \in HeldAt(d), conns' = conns \ {c},
           counter' = [counter EXCEPT ![d] = counter[d] - 1]
    PROVE  Counted'
<1>1. IsFiniteSet(HeldAt(d))
  BY FS_Subset DEF HeldAt, Connected
<1>2. HeldAt(d)' = HeldAt(d) \ {c}
  BY DEF HeldAt
<1>3. /\ Cardinality(HeldAt(d)') = Cardinality(HeldAt(d)) - 1
      /\ Cardinality(HeldAt(d)) \in Nat /\ Cardinality(HeldAt(d)') \in Nat
  BY <1>1, <1>2, FS_RemoveElement, FS_CardinalityType
<1>4. counter[d] \in Nat /\ Cardinality(HeldAt(d)) <= counter[d]
  BY DEF Counted
<1>5. counter[d] - 1 \in Nat
  BY <1>3, <1>4
<1>6. counter' \in [Daemons -> Nat] /\ counter'[d] = counter[d] - 1
      /\ \A e \in Daemons : e # d => counter'[e] = counter[e]
  BY <1>5 DEF Counted
<1>7. ASSUME NEW e \in Daemons, e # d PROVE Cardinality(HeldAt(e)') <= counter'[e]
  <2>1. HeldAt(e)' = HeldAt(e)
    BY <1>7 DEF HeldAt
  <2> QED BY <1>6, <1>7, <2>1 DEF Counted
<1> QED BY <1>3, <1>4, <1>6, <1>7 DEF Counted

LEMMA HandledHeld == ASSUME NEW d \in Daemons PROVE Handled(d) \subseteq HeldAt(d)
BY DEF Handled, HeldAt

LEMMA HandlerCancelledKeeps == ASSUME DInv, NEW d \in Daemons, HandlerCancelled(d) PROVE DInv'
<1>0. Shapes /\ SessionsOK /\ Connected /\ Counted
  BY Parts
<1>1. /\ UNCHANGED <<sock, meta, cancelled, watch, io, ppc, tries, doctor>>
      /\ counter' = [counter EXCEPT ![d] = counter[d] - 1]
  BY DEF HandlerCancelled, proxyVars
<1>2. PICK c \in Handled(d) : Cut({c})
  BY DEF HandlerCancelled
<1>3. c \in HeldAt(d) /\ c \in conns
  BY HandledHeld DEF HeldAt
<1>4. /\ closed' \in [Proxies -> {"no", "eof", "cut"}]
      /\ SessionsOK' /\ Connected' /\ conns' = conns \ {c}
  BY <1>0, <1>1, <1>2, <1>3, CutKeeps
<1>5. Counted'
  BY <1>0, <1>1, <1>3, <1>4, ReleaseKeeps
<1>6. Shapes'
  BY <1>0, <1>1, <1>4 DEF Shapes
<1> QED BY <1>4, <1>5, <1>6 DEF DInv, SessionsOK

LEMMA DropListenerKeeps == ASSUME DInv, NEW d \in Daemons, DropListener(d) PROVE DInv'
<1> DEFINE cs == {c \in conns : c.at = d /\ c.st = "queued"}
<1>0. Shapes /\ SessionsOK /\ Connected /\ Counted
  BY Parts
<1>1. /\ UNCHANGED <<sock, meta, cancelled, counter, watch, io, ppc, tries, doctor>>
      /\ Cut(cs) /\ cs \in SUBSET conns
  BY DEF DropListener, proxyVars
<1> HIDE DEF cs
<1>2. /\ closed' \in [Proxies -> {"no", "eof", "cut"}]
      /\ SessionsOK' /\ Connected' /\ conns' = conns \ cs
  BY <1>0, <1>1, CutKeeps
<1>3. Counted'
  <2>1. ASSUME NEW e \in Daemons PROVE Cardinality(HeldAt(e)') <= counter[e]
    <3>1. /\ Cardinality(HeldAt(e)') <= Cardinality(HeldAt(e))
          /\ Cardinality(HeldAt(e)) \in Nat /\ Cardinality(HeldAt(e)') \in Nat
      BY <1>0, <1>2, HeldShrinks
    <3> QED BY <1>0, <3>1 DEF Counted
  <2> QED BY <1>0, <1>1, <2>1 DEF Counted
<1>4. Shapes'
  BY <1>0, <1>1, <1>2 DEF Shapes
<1> QED BY <1>2, <1>3, <1>4 DEF DInv, SessionsOK

(* A handler that sees the end of its session: the client half-closed, so  *)
(* client_done was set, and every line that came was answered.             *)
LEMMA HandlerSeesEofKeeps == ASSUME DInv, NEW d \in Daemons, HandlerSeesEof(d) PROVE DInv'
<1>0. Shapes /\ SessionsOK /\ Connected /\ Counted
  BY Parts
<1>1. PICK c \in Handled(d) :
        /\ c.kind = "session" => io[c.who].shut /\ io[c.who].put = io[c.who].moved
        /\ conns' = conns \ {c}
        /\ closed' = IF c.kind = "session" THEN [closed EXCEPT ![c.who] = "eof"] ELSE closed
        /\ counter' = [counter EXCEPT ![d] = counter[d] - 1]
        /\ UNCHANGED <<sock, meta, cancelled, watch, io, ppc, tries, doctor>>
  BY DEF HandlerSeesEof, proxyVars
<1>2. c \in HeldAt(d) /\ c \in conns
  BY HandledHeld DEF HeldAt
<1>3. Counted'
  BY <1>0, <1>1, <1>2, ReleaseKeeps
<1>4. closed' \in [Proxies -> {"no", "eof", "cut"}]
  BY <1>0, <1>1 DEF Shapes
<1>5. Shapes'
  BY <1>0, <1>1, <1>4 DEF Shapes
<1>6. SessionsOK'
  <2> SUFFICES ASSUME NEW p \in Proxies PROVE Session(io[p], ppc[p], closed'[p])
    BY <1>1 DEF SessionsOK
  <2>1. Session(io[p], ppc[p], closed[p])
    BY <1>0 DEF SessionsOK
  <2>2. CASE c.kind = "session" /\ c.who = p
    <3>1. ppc[p] = "bridge" /\ closed[p] = "no" /\ closed'[p] = "eof"
      BY <1>0, <1>1, <1>2, <2>2 DEF Connected, Shapes
    <3>2. io[p].shut /\ io[p].put = io[p].moved
      BY <1>1, <2>2
    <3> QED BY <2>1, <3>1, <3>2 DEF Session, Looking
  <2>3. CASE ~(c.kind = "session" /\ c.who = p)
    <3>1. closed'[p] = closed[p]
      BY <1>0, <1>1, <2>3 DEF Shapes
    <3> QED BY <2>1, <3>1
  <2> QED BY <2>2, <2>3
<1>7. Connected'
  <2>1. conns' \subseteq Connection /\ IsFiniteSet(conns')
    BY <1>0, <1>1, FS_RemoveElement DEF Connected
  <2>2. ASSUME NEW e \in conns', e.kind = "session"
        PROVE  e.who \in Proxies /\ ppc'[e.who] = "bridge" /\ closed'[e.who] = "no"
    <3>1. e \in conns /\ e # c
      BY <1>1, <2>2
    <3>2. e.who \in Proxies /\ ppc[e.who] = "bridge" /\ closed[e.who] = "no"
      BY <1>0, <2>2, <3>1 DEF Connected
    <3>3. c.kind = "session" => e.who # c.who
      BY <1>0, <1>2, <2>2, <3>1 DEF Connected
    <3> QED BY <1>0, <1>1, <3>2, <3>3 DEF Shapes
  <2>3. \A e, f \in conns' : e.kind = "session" /\ f.kind = "session" /\ e.who = f.who => e = f
    BY <1>0, <1>1 DEF Connected
  <2> QED BY <2>1, <2>2, <2>3 DEF Connected
<1> QED BY <1>3, <1>5, <1>6, <1>7 DEF DInv, SessionsOK

------------------------------------------------------------------------------
(* Every step of a session keeps the invariant. *)

others == <<sock, meta, cancelled, counter, watch, conns, tries, closed, doctor>>

(* The lines of one session move, and the proxy stays where it is.         *)
LEMMA LinesKeep ==
    ASSUME DInv, NEW p \in Proxies, NEW s \in Lines, io' = [io EXCEPT ![p] = s],
           UNCHANGED others, UNCHANGED ppc, Session(s, ppc[p], closed[p])
    PROVE  DInv'
<1>0. Shapes /\ SessionsOK /\ Connected /\ Counted
  BY Parts
<1>1. UNCHANGED <<sock, meta, cancelled, counter, watch, conns, tries, closed, doctor>>
  BY DEF others
<1>2. io' \in [Proxies -> Lines] /\ io'[p] = s /\ \A q \in Proxies : q # p => io'[q] = io[q]
  BY <1>0 DEF Shapes
<1>3. Shapes'
  BY <1>0, <1>1, <1>2 DEF Shapes
<1>4. SessionsOK'
  BY <1>0, <1>1, <1>2 DEF SessionsOK
<1>5. Connected' /\ Counted'
  BY <1>0, <1>1, ConnectedKept, CountedKept
<1> QED BY <1>3, <1>4, <1>5 DEF DInv, SessionsOK

(* The proxy exits: no connection of it is left.                           *)
LEMMA ExitKeeps ==
    ASSUME DInv, NEW p \in Proxies, NEW s \in Lines, io' = [io EXCEPT ![p] = s],
           UNCHANGED others, ppc' = [ppc EXCEPT ![p] = "exited"],
           ppc[p] # "bridge" \/ closed[p] # "no", Session(s, "exited", closed[p])
    PROVE  DInv'
<1>0. Shapes /\ SessionsOK /\ Connected /\ Counted
  BY Parts
<1>1. UNCHANGED <<sock, meta, cancelled, counter, watch, conns, tries, closed, doctor>>
  BY DEF others
<1>2. io' \in [Proxies -> Lines] /\ io'[p] = s /\ \A q \in Proxies : q # p => io'[q] = io[q]
  BY <1>0 DEF Shapes
<1>3. /\ ppc' \in [Proxies -> Place] /\ ppc'[p] = "exited"
      /\ \A q \in Proxies : q # p => ppc'[q] = ppc[q]
  BY <1>0 DEF Shapes, Place
<1>4. Shapes'
  BY <1>0, <1>1, <1>2, <1>3 DEF Shapes
<1>5. SessionsOK'
  BY <1>0, <1>1, <1>2, <1>3 DEF SessionsOK
<1>6. Connected'
  <2>1. \A c \in conns : c.kind = "session" => c.who \in Proxies /\ c.who # p
    BY <1>0 DEF Connected
  <2> QED BY <1>0, <1>1, <1>3, <2>1 DEF Connected
<1>7. Counted'
  BY <1>0, <1>1, CountedKept
<1> QED BY <1>4, <1>5, <1>6, <1>7 DEF DInv, SessionsOK

(* What is known of the lines of a session.                                *)
LEMMA LinesOf ==
    ASSUME DInv, NEW p \in Proxies
    PROVE  /\ io[p] \in Lines /\ Session(io[p], ppc[p], closed[p])
           /\ io[p].sent \in Nat /\ io[p].moved \in Nat /\ io[p].put \in Nat /\ io[p].out \in Nat
BY DEF DInv, Shapes, Lines

LEMMA HandleLineKeeps == ASSUME DInv, NEW d \in Daemons, HandleLine(d) PROVE DInv'
<1>1. PICK c \in Handled(d) :
        /\ c.kind = "session" /\ io[c.who].put < io[c.who].moved
        /\ io' = [io EXCEPT ![c.who] = [io[c.who] EXCEPT !.put = io[c.who].put + 1]]
        /\ UNCHANGED others /\ UNCHANGED ppc
  BY DEF HandleLine, others, daemonVars
<1> DEFINE p == c.who
           s == [io[p] EXCEPT !.put = io[p].put + 1]
<1>2. p \in Proxies /\ ppc[p] = "bridge" /\ closed[p] = "no"
  BY <1>1, HandledHeld DEF HeldAt, DInv, Connected
<1>3. io' = [io EXCEPT ![p] = s] /\ io[p].put < io[p].moved
  BY <1>1
<1> HIDE DEF p
<1>4. /\ io[p] \in Lines /\ Session(io[p], ppc[p], closed[p])
      /\ io[p].sent \in Nat /\ io[p].moved \in Nat /\ io[p].put \in Nat /\ io[p].out \in Nat
  BY <1>2, LinesOf
<1>5. s \in Lines /\ s.sent = io[p].sent /\ s.eof = io[p].eof /\ s.moved = io[p].moved
      /\ s.put = io[p].put + 1 /\ s.out = io[p].out /\ s.done = io[p].done
      /\ s.shut = io[p].shut /\ s.end = io[p].end
  BY <1>4 DEF Lines
<1> HIDE DEF s
<1>6. Session(s, ppc[p], closed[p])
  BY <1>2, <1>3, <1>4, <1>5 DEF Session, Looking
<1> QED BY <1>1, <1>2, <1>3, <1>5, <1>6, LinesKeep

(* The client: a line more, or no more lines.                              *)
LEMMA ClientKeeps ==
    ASSUME DInv, NEW p \in Proxies, ClientSends(p) \/ ClientCloses(p) PROVE DInv'
<1>0. /\ io[p] \in Lines /\ Session(io[p], ppc[p], closed[p])
      /\ io[p].sent \in Nat /\ io[p].moved \in Nat /\ io[p].put \in Nat /\ io[p].out \in Nat
  BY LinesOf
<1>1. /\ UNCHANGED others /\ UNCHANGED ppc /\ ~io[p].eof
      /\ ppc[p] \in {"bridge", "standalone", "refusing"}
  BY DEF ClientSends, ClientCloses, Serving, others, daemonVars
<1>2. CASE ClientSends(p)
  <2> DEFINE s == [io[p] EXCEPT !.sent = io[p].sent + 1]
  <2>1. io' = [io EXCEPT ![p] = s]
    BY <1>2 DEF ClientSends
  <2>2. s \in Lines /\ s.sent = io[p].sent + 1 /\ s.eof = io[p].eof /\ s.moved = io[p].moved
        /\ s.put = io[p].put /\ s.out = io[p].out /\ s.done = io[p].done
        /\ s.shut = io[p].shut /\ s.end = io[p].end /\ s.drained = io[p].drained
    BY <1>0 DEF Lines
  <2> HIDE DEF s
  <2>3. Session(s, ppc[p], closed[p])
    BY <1>0, <1>1, <2>2 DEF Session, Looking
  <2> QED BY <1>1, <2>1, <2>2, <2>3, LinesKeep
<1>3. CASE ClientCloses(p)
  <2> DEFINE s == [io[p] EXCEPT !.eof = TRUE]
  <2>1. io' = [io EXCEPT ![p] = s]
    BY <1>3 DEF ClientCloses
  <2>2. s \in Lines /\ s.sent = io[p].sent /\ s.eof /\ s.moved = io[p].moved
        /\ s.put = io[p].put /\ s.out = io[p].out /\ s.done = io[p].done
        /\ s.shut = io[p].shut /\ s.end = io[p].end /\ s.drained = io[p].drained
    BY <1>0 DEF Lines
  <2> HIDE DEF s
  <2>3. Session(s, ppc[p], closed[p])
    BY <1>0, <1>1, <2>2 DEF Session, Looking
  <2> QED BY <1>1, <2>1, <2>2, <2>3, LinesKeep
<1> QED BY <1>2, <1>3

(* bridge: the two copies.                                                  *)
LEMMA BridgeKeeps ==
    ASSUME DInv, NEW p \in Proxies,
           CopyIn(p) \/ CopyInFails(p) \/ StdinEof(p) \/ ShutdownWrite(p) \/ CopyOut(p)
    PROVE  DInv'
<1>0. /\ io[p] \in Lines /\ Session(io[p], ppc[p], closed[p])
      /\ io[p].sent \in Nat /\ io[p].moved \in Nat /\ io[p].put \in Nat /\ io[p].out \in Nat
  BY LinesOf
<1>1. CASE CopyIn(p)
  <2> DEFINE s == [io[p] EXCEPT !.moved = io[p].moved + 1]
  <2>1. io' = [io EXCEPT ![p] = s] /\ UNCHANGED others /\ UNCHANGED ppc
    BY <1>1 DEF CopyIn, ProxyStep, others, daemonVars
  <2>2. s \in Lines /\ s.sent = io[p].sent /\ s.eof = io[p].eof
          /\ s.moved = io[p].moved + 1 /\ s.put = io[p].put /\ s.out = io[p].out
          /\ s.done = io[p].done /\ s.shut = io[p].shut /\ s.drained = io[p].drained
          /\ s.end = io[p].end
    BY <1>0 DEF Lines
  <2> HIDE DEF s
  <2>3. Session(s, ppc[p], closed[p])
    BY <1>0, <1>1, <2>2 DEF Session, Looking, CopyIn, Bridges
  <2> QED BY <2>1, <2>2, <2>3, LinesKeep
<1>2. CASE CopyInFails(p)
  <2> DEFINE s == [io[p] EXCEPT !.shut = TRUE]
  <2>1. io' = [io EXCEPT ![p] = s] /\ UNCHANGED others /\ UNCHANGED ppc
    BY <1>2 DEF CopyInFails, ProxyStep, others, daemonVars
  <2>2. s \in Lines /\ s.sent = io[p].sent /\ s.eof = io[p].eof
          /\ s.moved = io[p].moved /\ s.put = io[p].put /\ s.out = io[p].out
          /\ s.done = io[p].done /\ s.shut /\ s.drained = io[p].drained
          /\ s.end = io[p].end
    BY <1>0 DEF Lines
  <2> HIDE DEF s
  <2>3. Session(s, ppc[p], closed[p])
    BY <1>0, <1>2, <2>2 DEF Session, Looking, CopyInFails, Bridges
  <2> QED BY <2>1, <2>2, <2>3, LinesKeep
<1>3. CASE StdinEof(p)
  <2> DEFINE s == [io[p] EXCEPT !.done = TRUE]
  <2>1. io' = [io EXCEPT ![p] = s] /\ UNCHANGED others /\ UNCHANGED ppc
    BY <1>3 DEF StdinEof, ProxyStep, others, daemonVars
  <2>2. s \in Lines /\ s.sent = io[p].sent /\ s.eof = io[p].eof
          /\ s.moved = io[p].moved /\ s.put = io[p].put /\ s.out = io[p].out
          /\ s.done /\ s.shut = io[p].shut /\ s.drained = io[p].drained
          /\ s.end = io[p].end
    BY <1>0 DEF Lines
  <2> HIDE DEF s
  <2>3. Session(s, ppc[p], closed[p])
    BY <1>0, <1>3, <2>2 DEF Session, Looking, StdinEof, Bridges
  <2> QED BY <2>1, <2>2, <2>3, LinesKeep
<1>4. CASE ShutdownWrite(p)
  <2> DEFINE s == [io[p] EXCEPT !.shut = TRUE]
  <2>1. io' = [io EXCEPT ![p] = s] /\ UNCHANGED others /\ UNCHANGED ppc
    BY <1>4 DEF ShutdownWrite, ProxyStep, others, daemonVars
  <2>2. s \in Lines /\ s.sent = io[p].sent /\ s.eof = io[p].eof
          /\ s.moved = io[p].moved /\ s.put = io[p].put /\ s.out = io[p].out
          /\ s.done = io[p].done /\ s.shut /\ s.drained = io[p].drained
          /\ s.end = io[p].end
    BY <1>0 DEF Lines
  <2> HIDE DEF s
  <2>3. Session(s, ppc[p], closed[p])
    BY <1>0, <1>4, <2>2 DEF Session, Looking, ShutdownWrite, Bridges
  <2> QED BY <2>1, <2>2, <2>3, LinesKeep
<1>5. CASE CopyOut(p)
  <2> DEFINE s == [io[p] EXCEPT !.out = io[p].out + 1]
  <2>1. io' = [io EXCEPT ![p] = s] /\ UNCHANGED others /\ UNCHANGED ppc
    BY <1>5 DEF CopyOut, ProxyStep, others, daemonVars
  <2>2. s \in Lines /\ s.sent = io[p].sent /\ s.eof = io[p].eof
          /\ s.moved = io[p].moved /\ s.put = io[p].put /\ s.out = io[p].out + 1
          /\ s.done = io[p].done /\ s.shut = io[p].shut /\ s.drained = io[p].drained
          /\ s.end = io[p].end
    BY <1>0 DEF Lines
  <2> HIDE DEF s
  <2>3. Session(s, ppc[p], closed[p])
    BY <1>0, <1>5, <2>2 DEF Session, Looking, CopyOut, Bridges
  <2> QED BY <2>1, <2>2, <2>3, LinesKeep
<1> QED BY <1>1, <1>2, <1>3, <1>4, <1>5

(* run_server between its two stdio tasks.                                  *)
LEMMA InProcessKeeps ==
    ASSUME DInv, NEW p \in Proxies,
           ReaderSends(p) \/ ReaderSeesEof(p) \/ Respond(p) \/ WriterWrites(p) \/ WriterEnds(p)
    PROVE  DInv'
<1>0. /\ io[p] \in Lines /\ Session(io[p], ppc[p], closed[p])
      /\ io[p].sent \in Nat /\ io[p].moved \in Nat /\ io[p].put \in Nat /\ io[p].out \in Nat
  BY LinesOf
<1>1. CASE ReaderSends(p)
  <2> DEFINE s == [io[p] EXCEPT !.moved = io[p].moved + 1]
  <2>1. io' = [io EXCEPT ![p] = s] /\ UNCHANGED others /\ UNCHANGED ppc
    BY <1>1 DEF ReaderSends, ProxyStep, others, daemonVars
  <2>2. s \in Lines /\ s.sent = io[p].sent /\ s.eof = io[p].eof
          /\ s.moved = io[p].moved + 1 /\ s.put = io[p].put /\ s.out = io[p].out
          /\ s.done = io[p].done /\ s.shut = io[p].shut /\ s.drained = io[p].drained
          /\ s.end = io[p].end
    BY <1>0 DEF Lines
  <2> HIDE DEF s
  <2>3. Session(s, ppc[p], closed[p])
    BY <1>0, <1>1, <2>2 DEF Session, Looking, ReaderSends, InProcess
  <2> QED BY <2>1, <2>2, <2>3, LinesKeep
<1>2. CASE ReaderSeesEof(p)
  <2> DEFINE s == [io[p] EXCEPT !.shut = TRUE]
  <2>1. io' = [io EXCEPT ![p] = s] /\ UNCHANGED others /\ UNCHANGED ppc
    BY <1>2 DEF ReaderSeesEof, ProxyStep, others, daemonVars
  <2>2. s \in Lines /\ s.sent = io[p].sent /\ s.eof = io[p].eof
          /\ s.moved = io[p].moved /\ s.put = io[p].put /\ s.out = io[p].out
          /\ s.done = io[p].done /\ s.shut /\ s.drained = io[p].drained
          /\ s.end = io[p].end
    BY <1>0 DEF Lines
  <2> HIDE DEF s
  <2>3. Session(s, ppc[p], closed[p])
    BY <1>0, <1>2, <2>2 DEF Session, Looking, ReaderSeesEof, InProcess
  <2> QED BY <2>1, <2>2, <2>3, LinesKeep
<1>3. CASE Respond(p)
  <2> DEFINE s == [io[p] EXCEPT !.put = io[p].put + 1]
  <2>1. io' = [io EXCEPT ![p] = s] /\ UNCHANGED others /\ UNCHANGED ppc
    BY <1>3 DEF Respond, ProxyStep, others, daemonVars
  <2>2. s \in Lines /\ s.sent = io[p].sent /\ s.eof = io[p].eof
          /\ s.moved = io[p].moved /\ s.put = io[p].put + 1 /\ s.out = io[p].out
          /\ s.done = io[p].done /\ s.shut = io[p].shut /\ s.drained = io[p].drained
          /\ s.end = io[p].end
    BY <1>0 DEF Lines
  <2> HIDE DEF s
  <2>3. Session(s, ppc[p], closed[p])
    BY <1>0, <1>3, <2>2 DEF Session, Looking, Respond, InProcess
  <2> QED BY <2>1, <2>2, <2>3, LinesKeep
<1>4. CASE WriterWrites(p)
  <2> DEFINE s == [io[p] EXCEPT !.out = io[p].out + 1]
  <2>1. io' = [io EXCEPT ![p] = s] /\ UNCHANGED others /\ UNCHANGED ppc
    BY <1>4 DEF WriterWrites, ProxyStep, others, daemonVars
  <2>2. s \in Lines /\ s.sent = io[p].sent /\ s.eof = io[p].eof
          /\ s.moved = io[p].moved /\ s.put = io[p].put /\ s.out = io[p].out + 1
          /\ s.done = io[p].done /\ s.shut = io[p].shut /\ s.drained = io[p].drained
          /\ s.end = io[p].end
    BY <1>0 DEF Lines
  <2> HIDE DEF s
  <2>3. Session(s, ppc[p], closed[p])
    BY <1>0, <1>4, <2>2 DEF Session, Looking, WriterWrites, InProcess
  <2> QED BY <2>1, <2>2, <2>3, LinesKeep
<1>5. CASE WriterEnds(p)
  <2> DEFINE s == [io[p] EXCEPT !.drained = TRUE]
  <2>1. io' = [io EXCEPT ![p] = s] /\ UNCHANGED others /\ UNCHANGED ppc
    BY <1>5 DEF WriterEnds, ProxyStep, others, daemonVars
  <2>2. s \in Lines /\ s.sent = io[p].sent /\ s.eof = io[p].eof
          /\ s.moved = io[p].moved /\ s.put = io[p].put /\ s.out = io[p].out
          /\ s.done = io[p].done /\ s.shut = io[p].shut /\ s.drained
          /\ s.end = io[p].end
    BY <1>0 DEF Lines
  <2> HIDE DEF s
  <2>3. Session(s, ppc[p], closed[p])
    BY <1>0, <1>5, <2>2 DEF Session, Looking, WriterEnds, InProcess
  <2> QED BY <2>1, <2>2, <2>3, LinesKeep
<1> QED BY <1>1, <1>2, <1>3, <1>4, <1>5

(* The two ways a session ends.  The proxy reports a lost daemon only if   *)
(* client_done is not set, and then nobody but the daemon ended it.        *)
LEMMA EndKeeps ==
    ASSUME DInv, NEW p \in Proxies, BridgeEnds(p) \/ ServerReturns(p) PROVE DInv'
<1>0. /\ io[p] \in Lines /\ Session(io[p], ppc[p], closed[p])
      /\ io[p].sent \in Nat /\ io[p].moved \in Nat /\ io[p].put \in Nat /\ io[p].out \in Nat
      /\ closed[p] \in {"no", "eof", "cut"}
  BY LinesOf DEF DInv, Shapes
<1>1. CASE BridgeEnds(p)
  <2> DEFINE e == IF io[p].done THEN "ClientClosed" ELSE "DaemonClosed"
             s == [io[p] EXCEPT !.end = e]
  <2>1. /\ io' = [io EXCEPT ![p] = s] /\ UNCHANGED others
        /\ ppc' = [ppc EXCEPT ![p] = "exited"]
        /\ ppc[p] = "bridge" /\ closed[p] # "no" /\ io[p].out = io[p].put
    BY <1>1 DEF BridgeEnds, ProxyStep, ProxyTo, Bridges, others, daemonVars
  <2>2. e \in {"ClientClosed", "DaemonClosed"} /\ (e = "ClientClosed" <=> io[p].done)
    OBVIOUS
  <2> HIDE DEF e
  <2>3. s \in Lines /\ s.sent = io[p].sent /\ s.eof = io[p].eof
          /\ s.moved = io[p].moved /\ s.put = io[p].put /\ s.out = io[p].out
          /\ s.done = io[p].done /\ s.shut = io[p].shut /\ s.drained = io[p].drained
          /\ s.end = e
    BY <1>0, <2>2 DEF Lines
  <2> HIDE DEF s
  <2>4. Session(s, "exited", closed[p])
    BY <1>0, <2>1, <2>2, <2>3 DEF Session, Looking
  <2> QED BY <2>1, <2>3, <2>4, ExitKeeps
<1>2. CASE ServerReturns(p)
  <2> DEFINE s == [io[p] EXCEPT !.end = "ClientClosed"]
  <2>1. /\ io' = [io EXCEPT ![p] = s] /\ UNCHANGED others
        /\ ppc' = [ppc EXCEPT ![p] = "exited"]
        /\ ppc[p] \in {"standalone", "refusing"} /\ io[p].shut /\ io[p].drained
    BY <1>2 DEF ServerReturns, ProxyStep, ProxyTo, InProcess, WriterAwaited, others, daemonVars
  <2>2. s \in Lines /\ s.sent = io[p].sent /\ s.eof = io[p].eof
          /\ s.moved = io[p].moved /\ s.put = io[p].put /\ s.out = io[p].out
          /\ s.done = io[p].done /\ s.shut = io[p].shut /\ s.drained = io[p].drained
          /\ s.end = "ClientClosed"
    BY <1>0 DEF Lines
  <2> HIDE DEF s
  <2>3. Session(s, "exited", closed[p])
    BY <1>0, <2>1, <2>2 DEF Session, Looking
  <2> QED BY <2>1, <2>2, <2>3, ExitKeeps
<1> QED BY <1>1, <1>2

------------------------------------------------------------------------------
(* Finding a daemon, and the doctor *)

(* A proxy that looks goes on looking, or starts to serve in process.      *)
LEMMA LookingKeeps ==
    ASSUME DInv, NEW p \in Proxies, ppc[p] \in Looking,
           NEW to \in (Looking \ {"guard"}) \union {"standalone", "refusing"},
           ppc' = [ppc EXCEPT ![p] = to], UNCHANGED <<io, closed>>
    PROVE  /\ ppc' \in [Proxies -> Place] /\ SessionsOK'
           /\ \A q \in Proxies : ppc[q] = "bridge" => ppc'[q] = "bridge"
<1>0. Shapes /\ SessionsOK
  BY Parts
<1>1. /\ ppc' \in [Proxies -> Place] /\ ppc'[p] = to
      /\ \A q \in Proxies : q # p => ppc'[q] = ppc[q]
  BY <1>0 DEF Shapes, Place, Looking
<1>2. io[p] = NoLines /\ closed[p] = "no"
  BY <1>0 DEF SessionsOK, Session
<1>3. Session(io[p], to, closed[p])
  BY <1>2, NoLinesIsLines DEF Session, Looking
<1>4. SessionsOK'
  BY <1>0, <1>1, <1>3 DEF SessionsOK
<1> QED BY <1>1, <1>4 DEF Looking

LEMMA FindingKeeps ==
    ASSUME DInv, NEW p \in Proxies,
           GuardWorkspace(p) \/ EnsureProbe(p) \/ Spawn(p) \/ CannotSpawn(p)
    PROVE  DInv'
<1>0. Shapes /\ SessionsOK /\ Connected /\ Counted /\ p \in UNION {Daemons, Proxies, Nat}
  BY Parts
<1>1. /\ UNCHANGED <<sock, meta, cancelled, counter, watch, io, tries, closed, doctor>>
      /\ ppc[p] \in {"guard", "ensure", "spawn"}
      /\ \E to \in (Looking \ {"guard"}) \union {"standalone", "refusing"} :
           ppc' = [ppc EXCEPT ![p] = to]
      /\ conns' \in {conns, IF Reachable THEN Probe(p) ELSE conns}
  <2>1. CASE GuardWorkspace(p)
    BY <2>1 DEF GuardWorkspace, ProxyTo, Looking, daemonVars
  <2>2. CASE EnsureProbe(p)
    BY <2>2 DEF EnsureProbe, ProxyTo, Looking, daemonVars
  <2>3. CASE Spawn(p)
    BY <2>3 DEF Spawn, ProxyTo, Looking
  <2>4. CASE CannotSpawn(p)
    BY <2>4 DEF CannotSpawn, ProxyTo, Looking, daemonVars
  <2> QED BY <2>1, <2>2, <2>3, <2>4
<1>2. PICK to \in (Looking \ {"guard"}) \union {"standalone", "refusing"} :
        ppc' = [ppc EXCEPT ![p] = to]
  BY <1>1
<1>3. /\ ppc' \in [Proxies -> Place] /\ SessionsOK'
      /\ \A q \in Proxies : ppc[q] = "bridge" => ppc'[q] = "bridge"
  <2>1. ppc[p] \in Looking
    BY <1>1 DEF Looking
  <2> QED BY <1>1, <1>2, <2>1, LookingKeeps
<1>4. Connected' /\ Counted'
  <2>1. CASE conns' = conns
    <3>1. Connected'
      BY <1>0, <1>1, <1>3, <2>1 DEF Connected
    <3> QED BY <1>0, <1>1, <2>1, <3>1, CountedKept
  <2>2. CASE conns' = (IF Reachable THEN Probe(p) ELSE conns)
    BY <1>0, <1>1, <1>3, <2>2, ProbeKeeps
  <2> QED BY <1>1, <2>1, <2>2
<1>5. \A q \in Proxies : ppc'[q] \in {"guard", "ensure", "spawn", "poll"} => tries[q] # 0
  BY <1>0, <1>1, <1>2 DEF Shapes
<1>6. Shapes'
  BY <1>0, <1>1, <1>3, <1>5 DEF Shapes
<1> QED BY <1>3, <1>4, <1>6 DEF DInv, SessionsOK

LEMMA EnsurePollKeeps == ASSUME DInv, NEW p \in Proxies, EnsurePoll(p) PROVE DInv'
<1>0. Shapes /\ SessionsOK /\ Connected /\ Counted /\ p \in UNION {Daemons, Proxies, Nat}
  BY Parts
<1> DEFINE to == IF Reachable THEN "connect" ELSE IF tries[p] = 1 THEN "standalone" ELSE "poll"
<1>1. /\ UNCHANGED <<sock, meta, cancelled, counter, watch, io, closed, doctor>>
      /\ ppc[p] = "poll" /\ ppc' = [ppc EXCEPT ![p] = to]
      /\ tries' = [tries EXCEPT ![p] = tries[p] - 1]
      /\ conns' = IF Reachable THEN Probe(p) ELSE conns
  BY DEF EnsurePoll, ProxyTo, daemonVars
<1>2. /\ to \in (Looking \ {"guard"}) \union {"standalone", "refusing"}
      /\ to \in {"guard", "ensure", "spawn", "poll"} => tries[p] # 1
  BY DEF Looking
<1> HIDE DEF to
<1>3. ppc[p] \in Looking
  BY <1>1 DEF Looking
<1>4. /\ ppc' \in [Proxies -> Place] /\ SessionsOK'
      /\ \A q \in Proxies : ppc[q] = "bridge" => ppc'[q] = "bridge"
  BY <1>1, <1>2, <1>3, LookingKeeps
<1>5. Connected' /\ Counted'
  BY <1>0, <1>1, <1>4, ProbeKeeps
<1>6. tries[p] \in 0..Polls /\ tries[p] # 0 /\ Polls \in Nat
  BY <1>0, <1>1 DEF Shapes
<1>7. tries[p] - 1 \in 0..Polls
  BY <1>6
<1>8. /\ tries' \in [Proxies -> 0..Polls] /\ tries'[p] = tries[p] - 1
      /\ \A q \in Proxies : q # p => tries'[q] = tries[q] /\ ppc'[q] = ppc[q]
      /\ ppc'[p] = to
  BY <1>0, <1>1, <1>7 DEF Shapes
<1>9. \A q \in Proxies : ppc'[q] \in {"guard", "ensure", "spawn", "poll"} => tries'[q] # 0
  BY <1>0, <1>2, <1>6, <1>8 DEF Shapes
<1>10. Shapes'
  BY <1>0, <1>1, <1>4, <1>8, <1>9 DEF Shapes
<1> QED BY <1>4, <1>5, <1>10 DEF DInv, SessionsOK

(* The session's own connection is the first and only one of its proxy.    *)
LEMMA ConnectKeeps == ASSUME DInv, NEW p \in Proxies, Connect(p) PROVE DInv'
<1>0. Shapes /\ SessionsOK /\ Connected /\ Counted /\ p \in UNION {Daemons, Proxies, Nat}
  BY Parts
<1> DEFINE to == IF Reachable THEN "bridge" ELSE "standalone"
<1>1. /\ UNCHANGED <<sock, meta, cancelled, counter, watch, io, tries, closed, doctor>>
      /\ ppc[p] = "connect" /\ ppc' = [ppc EXCEPT ![p] = to]
      /\ conns' = IF Reachable THEN conns \union {Conn(p, "session")} ELSE conns
  BY DEF Connect, ProxyTo, daemonVars
<1>2. to \in {"bridge", "standalone"} /\ (to = "bridge" <=> Reachable)
  OBVIOUS
<1> HIDE DEF to
<1>3. /\ ppc' \in [Proxies -> Place] /\ ppc'[p] = to
      /\ \A q \in Proxies : q # p => ppc'[q] = ppc[q]
  BY <1>0, <1>1, <1>2 DEF Shapes, Place
<1>4. io[p] = NoLines /\ closed[p] = "no"
  BY <1>0, <1>1 DEF SessionsOK, Session, Looking
<1>5. Session(io[p], to, closed[p])
  BY <1>2, <1>4, NoLinesIsLines DEF Session, Looking
<1>6. SessionsOK'
  BY <1>0, <1>1, <1>3, <1>5 DEF SessionsOK
<1>7. Shapes'
  BY <1>0, <1>1, <1>2, <1>3 DEF Shapes
<1>8. \A c \in conns : c.kind = "session" => c.who # p
  BY <1>0, <1>1 DEF Connected
<1>9. Connected' /\ Counted'
  <2>1. CASE Reachable
    <3>1. conns' = conns \union {Conn(p, "session")} /\ Conn(p, "session").who = p
      BY <1>1, <2>1 DEF Conn
    <3>2. /\ conns' \subseteq Connection /\ IsFiniteSet(conns')
          /\ \A d \in Daemons : HeldAt(d)' = HeldAt(d)
      BY <1>0, <2>1, <3>1, QueuedKeeps
    <3>3. \A c \in conns' : c.kind = "session" =>
            c.who \in Proxies /\ ppc'[c.who] = "bridge" /\ closed'[c.who] = "no"
      BY <1>0, <1>1, <1>2, <1>3, <1>4, <2>1, <3>1 DEF Connected
    <3>4. \A c, e \in conns' : c.kind = "session" /\ e.kind = "session" /\ c.who = e.who => c = e
      BY <1>0, <1>8, <3>1 DEF Connected
    <3> QED BY <1>0, <1>1, <3>2, <3>3, <3>4 DEF Connected, Counted
  <2>2. CASE ~Reachable
    <3>1. conns' = conns
      BY <1>1, <2>2
    <3>2. Connected'
      BY <1>0, <1>1, <1>3, <1>8, <3>1 DEF Connected
    <3> QED BY <1>0, <1>1, <3>1, <3>2, CountedKept
  <2> QED BY <2>1, <2>2
<1> QED BY <1>6, <1>7, <1>9 DEF DInv, SessionsOK

LEMMA DoctorKeeps ==
    ASSUME DInv, kills \in Nat,
           DoctorReads \/ DoctorProbes \/ DoctorKills \/ DoctorMisses \/ DoctorForgets
    PROVE  DInv'
<1>0. Shapes /\ SessionsOK /\ Connected /\ Counted /\ doctor \in Doctor
  BY Parts DEF Shapes
<1>1. Forget \in Doctor /\ Done \in Doctor
  BY DEF Forget, Done, Doctor
<1>2. CASE DoctorReads
  <2>1. UNCHANGED <<sock, meta, watch, cancelled, tries, conns, counter, io, ppc, closed>>
    BY <1>2 DEF DoctorReads, daemonVars, proxyVars
  <2>2. doctor' \in Doctor
    BY <1>0, <1>2 DEF DoctorReads, Doctor, Shapes
  <2>3. Shapes'
    BY <1>0, <2>1, <2>2 DEF Shapes
  <2> QED BY <2>1, <2>3, QuietKeeps
<1>3. CASE DoctorProbes
  <2>1. /\ UNCHANGED <<sock, meta, watch, cancelled, tries, counter, io, ppc, closed>>
        /\ conns' = IF Reachable THEN Probe(kills) ELSE conns
    BY <1>3 DEF DoctorProbes, daemonVars, proxyVars
  <2>2. doctor' \in Doctor
    BY <1>0, <1>1, <1>3 DEF DoctorProbes, Doctor
  <2>3. Shapes' /\ SessionsOK'
    BY <1>0, <2>1, <2>2, SessionsKept DEF Shapes
  <2>4. Connected' /\ Counted'
    BY <1>0, <2>1, ProbeKeeps
  <2> QED BY <2>3, <2>4 DEF DInv, SessionsOK
<1>4. CASE DoctorKills
  <2>1. /\ doctor.pid \in Daemons /\ Ends(doctor.pid) /\ UNCHANGED proxyVars
        /\ sock' = sock /\ meta' = meta /\ doctor' = Forget
    BY <1>4 DEF DoctorKills
  <2> QED BY <1>1, <2>1, LeavingKeeps
<1>5. CASE DoctorMisses \/ DoctorForgets
  <2>1. /\ UNCHANGED <<sock, watch, cancelled, tries, conns, counter, io, ppc, closed>>
        /\ meta' \in {meta, NoOne} /\ doctor' = Done
    BY <1>5 DEF DoctorMisses, DoctorForgets, daemonVars, proxyVars
  <2>2. Shapes'
    BY <1>0, <1>1, <2>1 DEF Shapes
  <2> QED BY <2>1, <2>2, QuietKeeps
<1> QED BY <1>2, <1>3, <1>4, <1>5

------------------------------------------------------------------------------
(* The whole system *)

(* An action of the daemon d, by what it does to cancellation and kills:   *)
(* only Poll and a kill ever cancel.                                       *)
LEMMA WhoCancels ==
    ASSUME Next, kills \in Nat, cancelled \in [Daemons -> BOOLEAN]
    PROVE  /\ kills' \in Nat
           /\ \/ \E d \in Daemons : Poll(d)
              \/ kills' # kills
              \/ kills' = kills /\ \A d \in Daemons : cancelled'[d] => cancelled[d]
<1>1. ASSUME NEW d \in Daemons, Ends(d)
      PROVE  \A e \in Daemons : cancelled'[e] => cancelled[e]
  <2>1. cancelled' = [cancelled EXCEPT ![d] = FALSE]
    BY <1>1 DEF Ends
  <2>2. \A e \in Daemons : e # d => cancelled'[e] = cancelled[e]
    BY <2>1
  <2>3. cancelled'[d] = FALSE
    BY <2>1
  <2> QED BY <2>2, <2>3
<1>2. ASSUME NEW d \in Daemons,
             \/ LookForStale(d) \/ UnlinkStale(d) \/ Bind(d) \/ WriteDaemonMeta(d)
             \/ Accept(d) \/ HandleLine(d) \/ HandlerSeesEof(d) \/ HandlerCancelled(d)
             \/ LeaveLoop(d) \/ DropListener(d) \/ AfterBind(d)
      PROVE  kills' = kills /\ cancelled' = cancelled
  BY <1>2 DEF LookForStale, UnlinkStale, Bind, WriteDaemonMeta, Accept, HandleLine,
              HandlerSeesEof, HandlerCancelled, LeaveLoop, DropListener, AfterBind, daemonVars
<1>3. ASSUME NEW d \in Daemons,
             BindFails(d) \/ RemoveSocket(d) \/ StartFails(d) \/ AfterBindRefuses(d)
      PROVE  kills' = kills /\ Ends(d)
  BY <1>3 DEF BindFails, RemoveSocket, StartFails, AfterBindRefuses
<1>4. ASSUME NEW d \in Daemons, Poll(d) PROVE kills' = kills
  BY <1>4 DEF Poll
<1>5. ASSUME NEW d \in Daemons, Interrupt(d) \/ Crash(d) PROVE kills' = kills + 1
  BY <1>5 DEF Interrupt, Crash, Kill
<1>6. ASSUME NEW p \in Proxies,
             \/ GuardWorkspace(p) \/ EnsureProbe(p) \/ EnsurePoll(p) \/ Connect(p)
             \/ Spawn(p) \/ CannotSpawn(p) \/ ClientSends(p) \/ ClientCloses(p)
      PROVE  kills' = kills /\ cancelled' = cancelled
  BY <1>6 DEF GuardWorkspace, EnsureProbe, EnsurePoll, Connect, Spawn, CannotSpawn, ClientSends,
              ClientCloses, daemonVars
<1>7. ASSUME NEW p \in Proxies, NEW s, ProxyStep(p, s)
      PROVE  kills' = kills /\ cancelled' = cancelled
  BY <1>7 DEF ProxyStep, daemonVars
<1>8. ASSUME NEW p \in Proxies,
             \/ CopyIn(p) \/ CopyInFails(p) \/ StdinEof(p) \/ ShutdownWrite(p)
             \/ CopyOut(p) \/ BridgeEnds(p) \/ ReaderSends(p) \/ ReaderSeesEof(p) \/ Respond(p)
             \/ WriterWrites(p) \/ WriterEnds(p) \/ ServerReturns(p)
      PROVE  kills' = kills /\ cancelled' = cancelled
  BY <1>7, <1>8 DEF CopyIn, CopyInFails, StdinEof, ShutdownWrite, CopyOut, BridgeEnds,
              ReaderSends, ReaderSeesEof, Respond, WriterWrites, WriterEnds, ServerReturns
<1>9. ASSUME DoctorProbes \/ DoctorMisses \/ DoctorForgets
      PROVE  kills' = kills /\ cancelled' = cancelled
  BY <1>9 DEF DoctorProbes, DoctorMisses, DoctorForgets, daemonVars
<1>10. ASSUME DoctorReads PROVE kills' = kills + 1
  BY <1>10 DEF DoctorReads, Kill
<1>11. ASSUME DoctorKills PROVE kills' = kills /\ \E d \in Daemons : Ends(d)
  BY <1>11 DEF DoctorKills
<1>12. kills' = kills \/ kills' = kills + 1
  BY <1>2, <1>3, <1>4, <1>5, <1>6, <1>8, <1>9, <1>10, <1>11, Zenon
     DEF Next, DaemonRuns, ProxyRuns
<1>13. ASSUME kills' = kills
       PROVE  \/ \E d \in Daemons : Poll(d)
              \/ cancelled' = cancelled
              \/ \E d \in Daemons : Ends(d)
              \/ \E d \in Daemons : Interrupt(d) \/ Crash(d)
              \/ DoctorReads
  BY <1>2, <1>3, <1>4, <1>6, <1>8, <1>9, <1>11, Zenon DEF Next, DaemonRuns, ProxyRuns
<1>14. kills # kills + 1 /\ kills + 1 \in Nat
  OBVIOUS
<1> QED BY <1>1, <1>5, <1>10, <1>12, <1>13, <1>14

LEMMA NextDInv ==
    ASSUME DInv, kills \in Nat, [Next]_vars PROVE DInv' /\ kills' \in Nat
<1>1. ASSUME NEW d \in Daemons,
             DaemonRuns(d) \/ Poll(d) \/ StartFails(d) \/ AfterBind(d) \/ AfterBindRefuses(d)
             \/ Interrupt(d) \/ Crash(d)
      PROVE  DInv'
  BY <1>1, LookForStaleKeeps, StartingKeeps, PollKeeps, InterruptKeeps, DyingKeeps, AcceptKeeps,
     HandleLineKeeps, HandlerSeesEofKeeps, HandlerCancelledKeeps, DropListenerKeeps
     DEF DaemonRuns
<1>2. ASSUME NEW p \in Proxies,
             ProxyRuns(p) \/ Spawn(p) \/ CannotSpawn(p) \/ ClientSends(p) \/ ClientCloses(p)
      PROVE  DInv'
  BY <1>2, FindingKeeps, EnsurePollKeeps, ConnectKeeps, ClientKeeps, BridgeKeeps, InProcessKeeps,
     EndKeeps DEF ProxyRuns
<1>3. CASE Next
  <2>1. DInv'
    BY <1>1, <1>2, <1>3, DoctorKeeps DEF Next
  <2>2. kills' \in Nat
    BY <1>3, WhoCancels DEF DInv, Shapes
  <2> QED BY <2>1, <2>2
<1>4. CASE UNCHANGED vars
  <2>1. UNCHANGED <<sock, meta, doctor, watch, cancelled, tries, conns, counter, io, ppc, closed,
                    kills>>
    BY <1>4 DEF vars, daemonVars, proxyVars
  <2>2. Shapes'
    BY <2>1 DEF DInv, Shapes
  <2> QED BY <2>1, <2>2, QuietKeeps
<1> QED BY <1>3, <1>4

LEMMA AlwaysDInv == Spec => [](DInv /\ kills \in Nat)
<1>1. Init => DInv /\ kills \in Nat
  BY InitDInv DEF Init
<1>2. (DInv /\ kills \in Nat) /\ [Next]_vars => (DInv /\ kills \in Nat)'
  BY NextDInv
<1> QED BY <1>1, <1>2, PTL DEF Spec

(* However a session ends, its client is told the truth: no answer is lost *)
(* at an orderly end, and no orderly end is reported as a lost daemon      *)
(* (bridge of main.rs, framing.rs, handle_client of server.rs).             *)
THEOREM SessionsAlwaysEndClean == Spec => []SessionsEndClean
<1>1. ASSUME DInv PROVE SessionsEndClean
  <2>0. Shapes /\ SessionsOK /\ Connected /\ Counted
    BY <1>1, Parts
  <2>1. \A d \in Daemons : watch[d].idle <= IdleTimeout
    BY <2>0 DEF Shapes, Watch
  <2>2. \A c \in conns : c.at \in Daemons /\ c.st \in {"queued", "accepted"}
    BY <2>0 DEF Connected, Connection
  <2>3. doctor.pid \in Daemons \union {Crashed, NoOne}
    BY <2>0 DEF Shapes, Doctor
  <2>4. TypeOK
    BY <2>0, <2>1, <2>2, <2>3 DEF TypeOK, Shapes, Counted, SessionsOK, Session
  <2>5. NoFalseLoss /\ Drained
    BY <2>0 DEF NoFalseLoss, Drained, SessionsOK, Session
  <2> QED BY <2>4, <2>5 DEF SessionsEndClean
<1> QED BY <1>1, AlwaysDInv, PTL

(* The watchdog, which sees only a counter that other tasks move, never    *)
(* stops a daemon that holds a session (spawn_idle_watchdog, idle.rs).      *)
THEOREM IdleAlwaysSparesSessions == Spec => IdleSparesSessions
<1> DEFINE Spares == \A d \in Daemons : ~cancelled[d] /\ cancelled'[d] /\ kills' = kills
                                          => Sessions(Handled(d)) = {}
<1>1. ASSUME DInv, kills \in Nat, [Next]_vars PROVE [Spares]_vars
  <2>0. Connected /\ Counted /\ cancelled \in [Daemons -> BOOLEAN]
    BY <1>1 DEF DInv, Shapes
  <2> SUFFICES ASSUME Next, NEW d \in Daemons, ~cancelled[d], cancelled'[d], kills' = kills
               PROVE  Sessions(Handled(d)) = {}
    BY <1>1
  <2>1. PICK e \in Daemons : Poll(e)
    BY <1>1, <2>0, WhoCancels
  <2>2. e = d
    <3>1. CASE e # d
      <4>1. cancelled' = cancelled \/ cancelled' = [cancelled EXCEPT ![e] = TRUE]
        BY <2>1 DEF Poll
      <4>2. cancelled'[d] = cancelled[d]
        BY <2>0, <3>1, <4>1
      <4> QED BY <4>2
    <3> QED BY <3>1
  <2>3. GivesUp(watch[d], counter[d])
    <3>1. CASE ~GivesUp(watch[d], counter[d])
      <4>1. cancelled' = cancelled
        BY <2>1, <2>2, <3>1 DEF Poll
      <4> QED BY <4>1
    <3> QED BY <3>1
  <2>4. counter[d] = 0
    BY <2>3 DEF GivesUp
  <2>5. IsFiniteSet(HeldAt(d)) /\ Cardinality(HeldAt(d)) = 0
    <3>1. IsFiniteSet(HeldAt(d))
      BY <2>0, FS_Subset DEF HeldAt, Connected
    <3>2. Cardinality(HeldAt(d)) \in Nat /\ Cardinality(HeldAt(d)) <= 0
      BY <2>0, <2>4, <3>1, FS_CardinalityType DEF Counted
    <3> QED BY <3>1, <3>2
  <2>6. HeldAt(d) = {}
    BY <2>5, FS_EmptySet
  <2> QED BY <2>6, HandledHeld DEF Sessions
<1>2. Spec => [][Spares]_vars
  BY <1>1, AlwaysDInv, PTL DEF Spec
<1> QED BY <1>2 DEF IdleSparesSessions
==============================================================================
