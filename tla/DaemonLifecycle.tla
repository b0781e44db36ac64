-------------------------- MODULE DaemonLifecycle --------------------------
(***************************************************************************)
(* The processes of one workspace on Unix: `mesh-mcp run` (a proxy that    *)
(* finds or spawns meshd and bridges the MCP client to it, or serves the   *)
(* session in process), meshd from its start to its exit with its idle     *)
(* watchdog, and `mesh-mcp doctor --fix`, which stops a stale meshd.       *)
(*                                                                         *)
(* They share a socket file and a record of the daemon's pid, and nothing  *)
(* else.  The file is the pid whose bind created it: a daemon whose file   *)
(* was unlinked or replaced keeps listening, but nobody finds it.          *)
(*                                                                         *)
(* A session is counted, not spelled out: every hop is first in first out, *)
(* so the i-th line of a hop is the i-th request or its answer.            *)
(***************************************************************************)
EXTENDS Naturals, FiniteSets

CONSTANTS
    Daemons,        \* the pids meshd can be given
    ByHand,         \* the ones a user or a supervisor starts
    Proxies,        \* the `mesh-mcp run` processes
    Crashed,        \* the pid of a daemon that crashed before all this
    NoOne,          \* no socket file, no record
    IdleTimeout,    \* --idle-timeout-minutes, in polls of the watchdog; 0: never
    StartupGrace,   \* --startup-grace-secs, in polls; 0: never
    Polls,          \* how often ensure_daemon_running looks for the socket
    Capacity,       \* MPSC_BUFFER_CAPACITY
    MaxLines,       \* bound: requests a client sends
    MaxKills        \* bound: interrupts, crashes and doctor runs

ASSUME BoundsAssumption ==
    /\ {IdleTimeout, StartupGrace, MaxLines, MaxKills} \subseteq Nat
    /\ {Polls, Capacity} \subseteq Nat \ {0}
    /\ ByHand \subseteq Daemons
    /\ Crashed \notin Daemons /\ NoOne \notin Daemons \union {Crashed}

VARIABLES
    sock,       \* whose bind made the file at the socket path
    meta,       \* the pid in <workspace_id>.meta
    dpc,        \* where each daemon is
    cancelled,  \* its CancellationToken
    counter,    \* its ClientCounter
    watch,      \* its watchdog: ever had a client, polls idle, polls since the start
    conns,      \* connections: queued by the kernel or held by a handler
    ppc,        \* where each proxy is
    tries,      \* polls ensure_daemon_running has left
    io,         \* the lines of each session, hop by hop
    closed,     \* who ended the daemon's side of a session
    doctor,     \* `doctor --fix`: where it is, and the pid it read
    kills       \* interrupts, crashes and doctor runs so far

daemonVars == <<dpc, cancelled, counter, watch>>
proxyVars == <<ppc, tries, io>>
vars == <<sock, meta, daemonVars, conns, proxyVars, closed, doctor, kills>>

Listens(d) == dpc[d] \in {"bound", "record", "serve", "closing"}
Lives(d) == dpc[d] \notin {"unborn", "dead"}

(* connect(2) on the socket path: it succeeds while the process that bound *)
(* the file listens, accepting or not.                                     *)
Reachable == sock \in Daemons /\ Listens(sock)

Conn(who, kind) == [who |-> who, at |-> sock, kind |-> kind, st |-> "queued"]

(* A probe connects and hangs up at once, but the daemon still accepts it. *)
(* A doctor run is told apart by the kills it found, its own included.     *)
Probe(who) == conns \union {Conn(who, "probe")}

Sessions(cs) == {c.who : c \in {c \in cs : c.kind = "session"}}

(* The daemon's ends of these connections are gone before their clients'.  *)
Cut(cs) ==
    /\ conns' = conns \ cs
    /\ closed' = [p \in Proxies |-> IF p \in Sessions(cs) THEN "cut" ELSE closed[p]]

Unused == [ever |-> FALSE, idle |-> 0, age |-> 1]

NoLines == [sent |-> 0, eof |-> FALSE, moved |-> 0, put |-> 0, out |-> 0,
            done |-> FALSE, shut |-> FALSE, drained |-> FALSE, end |-> "open"]

Init ==
    /\ sock \in {NoOne, Crashed} /\ meta \in {NoOne, sock}
    /\ dpc = [d \in Daemons |-> IF d \in ByHand THEN "clean" ELSE "unborn"]
    /\ cancelled = [d \in Daemons |-> FALSE]
    /\ counter = [d \in Daemons |-> 0]
    /\ watch = [d \in Daemons |-> Unused]
    /\ conns = {}
    /\ ppc = [p \in Proxies |-> "guard"]
    /\ tries = [p \in Proxies |-> Polls]
    /\ io = [p \in Proxies |-> NoLines]
    /\ closed = [p \in Proxies |-> "no"]
    /\ doctor = [pc |-> "read", pid |-> NoOne]   \* or not running
    /\ kills = 0

------------------------------------------------------------------------------
(* meshd: starting *)

DaemonTo(d, pc) == dpc' = [dpc EXCEPT ![d] = pc]

(* A process ends, and its memory with it.                                 *)
Ends(d) ==
    /\ DaemonTo(d, "dead")
    /\ cancelled' = [cancelled EXCEPT ![d] = FALSE]
    /\ counter' = [counter EXCEPT ![d] = 0]
    /\ watch' = [watch EXCEPT ![d] = Unused]
    /\ Cut({c \in conns : c.at = d})

(* cleanup_stale_socket looks: nothing there, or somebody answers, or a    *)
(* file nobody listens behind, which the next step removes.                *)
LookForStale(d) ==
    /\ dpc[d] = "clean"
    /\ DaemonTo(d, IF sock = NoOne \/ Reachable THEN "bind" ELSE "unlink")
    /\ conns' = IF Reachable THEN Probe(d) ELSE conns
    /\ UNCHANGED <<sock, meta, cancelled, counter, watch, proxyVars, closed, doctor, kills>>

(* remove_file takes whatever is at the path by now.                       *)
UnlinkStale(d) ==
    /\ dpc[d] = "unlink"
    /\ sock' = NoOne
    /\ DaemonTo(d, "bind")
    /\ UNCHANGED <<meta, cancelled, counter, watch, conns, proxyVars, closed, doctor, kills>>

(* A config that does not load, a refused workspace, no audit database.    *)
StartFails(d) ==
    /\ dpc[d] \in {"clean", "bind"}
    /\ Ends(d)
    /\ UNCHANGED <<sock, meta, proxyVars, doctor, kills>>

(* bind fails on an existing file, and then the daemon exits and touches   *)
(* neither the file nor the record.                                        *)
Bind(d) ==
    /\ dpc[d] = "bind" /\ sock = NoOne
    /\ DaemonTo(d, "bound")
    /\ sock' = d
    /\ UNCHANGED <<meta, cancelled, counter, watch, conns, proxyVars, closed, doctor, kills>>

BindFails(d) ==
    /\ dpc[d] = "bind" /\ sock # NoOne
    /\ Ends(d)
    /\ UNCHANGED <<sock, meta, proxyVars, doctor, kills>>

(* sandbox::apply_after_bind: confined, or allowed to go on without.       *)
AfterBind(d) ==
    /\ dpc[d] = "bound"
    /\ DaemonTo(d, "record")
    /\ UNCHANGED <<sock, meta, cancelled, counter, watch, conns, proxyVars, closed, doctor, kills>>

(* MESH_DAEMON_SANDBOX=required and the kernel refuses: close and leave.   *)
AfterBindRefuses(d) ==
    /\ dpc[d] = "bound"
    /\ Ends(d)
    /\ sock' = NoOne
    /\ UNCHANGED <<meta, proxyVars, doctor, kills>>

WriteDaemonMeta(d) ==
    /\ dpc[d] = "record"
    /\ meta' = d
    /\ DaemonTo(d, "serve")
    /\ UNCHANGED <<sock, cancelled, counter, watch, conns, proxyVars, closed, doctor, kills>>

------------------------------------------------------------------------------
(* meshd: serving *)

Accept(d) ==
    /\ dpc[d] = "serve"
    /\ \E c \in conns :
         /\ c.at = d /\ c.st = "queued"
         /\ conns' = (conns \ {c}) \union {[c EXCEPT !.st = "accepted"]}
    /\ counter' = [counter EXCEPT ![d] = @ + 1]
    /\ UNCHANGED <<sock, meta, dpc, cancelled, watch, proxyVars, closed, doctor, kills>>

Handled(d) == {c \in conns : c.at = d /\ c.st = "accepted" /\ dpc[d] # "dead"}

(* A handler reads one line, dispatches it and writes the answer.          *)
HandleLine(d) ==
    \E c \in Handled(d) :
        /\ c.kind = "session"
        /\ io[c.who].put < io[c.who].moved
        /\ io' = [io EXCEPT ![c.who].put = @ + 1]
        /\ UNCHANGED <<sock, meta, daemonVars, conns, ppc, tries, closed, doctor, kills>>

HandlerSeesEof(d) ==
    \E c \in Handled(d) :
        /\ c.kind = "session" => io[c.who].shut /\ io[c.who].put = io[c.who].moved
        /\ conns' = conns \ {c}
        /\ closed' = IF c.kind = "session" THEN [closed EXCEPT ![c.who] = "eof"] ELSE closed
        /\ counter' = [counter EXCEPT ![d] = @ - 1]
        /\ UNCHANGED <<sock, meta, dpc, cancelled, watch, proxyVars, doctor, kills>>

(* select takes the cancellation, whatever is still unread.                *)
HandlerCancelled(d) ==
    /\ cancelled[d]
    /\ \E c \in Handled(d) : Cut({c})
    /\ counter' = [counter EXCEPT ![d] = @ - 1]
    /\ UNCHANGED <<sock, meta, dpc, cancelled, watch, proxyVars, doctor, kills>>

Expired(polls, limit) == limit > 0 /\ polls >= limit

(* One turn of the watchdog.  idle and age are what the next poll finds    *)
(* elapsed since idle_since, which the first idle poll sets, and since the *)
(* start; neither is counted past its deadline.  The first poll comes 10 s *)
(* after the watchdog was spawned: the socket is taken to be bound by then.*)
WatchAfter(w, active) ==
    [ever |-> w.ever \/ active > 0,
     idle |-> CASE active > 0 \/ ~w.ever -> 0
                [] w.idle < IdleTimeout -> w.idle + 1
                [] OTHER -> w.idle,
     age |-> IF ~w.ever /\ w.age < StartupGrace THEN w.age + 1 ELSE w.age]

(* Mutant: the deadlines are looked at while clients are connected.        *)
GivesUpAnyway(w, active) ==
    IF w.ever THEN Expired(w.idle + 1, IdleTimeout) ELSE Expired(w.age, StartupGrace)

(* Mutant: only a daemon that had a client ever gives up.                  *)
GivesUpAfterUse(w, active) ==
    active = 0 /\ w.ever /\ Expired(w.idle, IdleTimeout)

GivesUp(w, active) ==
    /\ active = 0
    /\ IF w.ever THEN Expired(w.idle, IdleTimeout)
       ELSE Expired(w.age, StartupGrace)

Poll(d) ==
    /\ dpc[d] = "serve" /\ ~cancelled[d]
    /\ IF GivesUp(watch[d], counter[d])
       THEN cancelled' = [cancelled EXCEPT ![d] = TRUE] /\ UNCHANGED watch
       ELSE watch' = [watch EXCEPT ![d] = WatchAfter(@, counter[d])] /\ UNCHANGED cancelled
    /\ UNCHANGED <<sock, meta, dpc, counter, conns, proxyVars, closed, doctor, kills>>

------------------------------------------------------------------------------
(* meshd: leaving *)

Kill == kills < MaxKills /\ kills' = kills + 1

(* SIGINT *)
Interrupt(d) ==
    /\ Kill /\ Lives(d) /\ ~cancelled[d]
    /\ cancelled' = [cancelled EXCEPT ![d] = TRUE]
    /\ UNCHANGED <<sock, meta, dpc, counter, watch, conns, proxyVars, closed, doctor>>

(* A crash, and any signal but SIGINT: nothing is cleaned up.              *)
Crash(d) ==
    /\ Kill /\ Lives(d)
    /\ Ends(d)
    /\ UNCHANGED <<sock, meta, proxyVars, doctor>>

(* The accept loop breaks and removes the record, whoever it names.        *)
LeaveLoop(d) ==
    /\ dpc[d] = "serve" /\ cancelled[d]
    /\ DaemonTo(d, "closing")
    /\ meta' = NoOne
    /\ UNCHANGED <<sock, cancelled, counter, watch, conns, proxyVars, closed, doctor, kills>>

DropListener(d) ==
    /\ dpc[d] = "closing"
    /\ DaemonTo(d, "dropped")
    /\ Cut({c \in conns : c.at = d /\ c.st = "queued"})
    /\ UNCHANGED <<sock, meta, cancelled, counter, watch, proxyVars, doctor, kills>>

(* main removes the file at the path, whoever made it, and returns.        *)
RemoveSocket(d) ==
    /\ dpc[d] = "dropped"
    /\ sock' = NoOne
    /\ Ends(d)
    /\ UNCHANGED <<meta, proxyVars, doctor, kills>>

------------------------------------------------------------------------------
(* mesh-mcp run: finding a daemon *)

ProxyTo(p, pc) == ppc' = [ppc EXCEPT ![p] = pc]

(* A degenerate workspace root is answered by run_refusing_server.         *)
GuardWorkspace(p) ==
    /\ ppc[p] = "guard"
    /\ \E pc \in {"ensure", "standalone", "refusing"} : ProxyTo(p, pc)
    /\ UNCHANGED <<sock, meta, daemonVars, conns, tries, io, closed, doctor, kills>>

EnsureProbe(p) ==
    /\ ppc[p] = "ensure"
    /\ ProxyTo(p, IF Reachable THEN "connect" ELSE "spawn")
    /\ conns' = IF Reachable THEN Probe(p) ELSE conns
    /\ UNCHANGED <<sock, meta, daemonVars, tries, io, closed, doctor, kills>>

Spawn(p) ==
    /\ ppc[p] = "spawn"
    /\ \E d \in Daemons : dpc[d] = "unborn" /\ DaemonTo(d, "clean")
    /\ ProxyTo(p, "poll")
    /\ UNCHANGED <<sock, meta, cancelled, counter, watch, conns, tries, io, closed, doctor, kills>>

(* No meshd beside this binary, one of another release, or fork fails.     *)
CannotSpawn(p) ==
    /\ ppc[p] = "spawn"
    /\ ProxyTo(p, "standalone")
    /\ UNCHANGED <<sock, meta, daemonVars, conns, tries, io, closed, doctor, kills>>

EnsurePoll(p) ==
    /\ ppc[p] = "poll"
    /\ tries' = [tries EXCEPT ![p] = @ - 1]
    /\ ProxyTo(p, IF Reachable THEN "connect" ELSE IF tries[p] = 1 THEN "standalone" ELSE "poll")
    /\ conns' = IF Reachable THEN Probe(p) ELSE conns
    /\ UNCHANGED <<sock, meta, daemonVars, io, closed, doctor, kills>>

(* The proxy's own connection, after the one that showed the daemon alive. *)
Connect(p) ==
    /\ ppc[p] = "connect"
    /\ ProxyTo(p, IF Reachable THEN "bridge" ELSE "standalone")
    /\ conns' = IF Reachable THEN conns \union {Conn(p, "session")} ELSE conns
    /\ UNCHANGED <<sock, meta, daemonVars, tries, io, closed, doctor, kills>>

------------------------------------------------------------------------------
(* The MCP client: it may stop writing and never close.  What it writes    *)
(* before anybody reads stdin waits there.                                 *)

Serving(p) == ppc[p] \in {"bridge", "standalone", "refusing"}

ClientSends(p) ==
    /\ Serving(p) /\ ~io[p].eof /\ io[p].sent < MaxLines
    /\ io' = [io EXCEPT ![p].sent = @ + 1]
    /\ UNCHANGED <<sock, meta, daemonVars, conns, ppc, tries, closed, doctor, kills>>

ClientCloses(p) ==
    /\ Serving(p) /\ ~io[p].eof
    /\ io' = [io EXCEPT ![p].eof = TRUE]
    /\ UNCHANGED <<sock, meta, daemonVars, conns, ppc, tries, closed, doctor, kills>>

------------------------------------------------------------------------------
(* bridge *)

Bridges(p) == ppc[p] = "bridge"

ProxyStep(p, s) ==
    /\ io' = [io EXCEPT ![p] = s]
    /\ UNCHANGED <<sock, meta, daemonVars, conns, tries, closed, doctor, kills>>

CopyIn(p) ==
    /\ Bridges(p) /\ io[p].moved < io[p].sent /\ closed[p] = "no" /\ ~io[p].shut
    /\ ProxyStep(p, [io[p] EXCEPT !.moved = @ + 1])
    /\ UNCHANGED ppc

(* A write to a daemon that is gone ends the copy without client_done.     *)
CopyInFails(p) ==
    /\ Bridges(p) /\ io[p].moved < io[p].sent /\ closed[p] # "no" /\ ~io[p].shut
    /\ ProxyStep(p, [io[p] EXCEPT !.shut = TRUE])
    /\ UNCHANGED ppc

(* stdin ended: client_done first, ...                                     *)
StdinEof(p) ==
    /\ Bridges(p) /\ io[p].eof /\ io[p].moved = io[p].sent /\ ~io[p].done /\ ~io[p].shut
    /\ ProxyStep(p, [io[p] EXCEPT !.done = TRUE])
    /\ UNCHANGED ppc

(* Mutant: the daemon is never told.                                       *)
ShutdownWriteNever(p) == FALSE

(* ... then the daemon is told.                                            *)
ShutdownWrite(p) ==
    /\ Bridges(p) /\ io[p].done /\ ~io[p].shut
    /\ ProxyStep(p, [io[p] EXCEPT !.shut = TRUE])
    /\ UNCHANGED ppc

CopyOut(p) ==
    /\ Bridges(p) /\ io[p].out < io[p].put
    /\ ProxyStep(p, [io[p] EXCEPT !.out = @ + 1])
    /\ UNCHANGED ppc

(* The daemon's side ended: the flag says whose end it is, and a daemon    *)
(* that left first makes the process exit with status 1.                   *)
BridgeEnds(p) ==
    /\ Bridges(p) /\ closed[p] # "no" /\ io[p].out = io[p].put
    /\ ProxyStep(p, [io[p] EXCEPT !.end = IF io[p].done THEN "ClientClosed" ELSE "DaemonClosed"])
    /\ ProxyTo(p, "exited")

------------------------------------------------------------------------------
(* run_server and run_refusing_server between the two stdio tasks *)

InProcess(p) == ppc[p] \in {"standalone", "refusing"}

ReaderSends(p) ==
    /\ InProcess(p) /\ ~io[p].shut
    /\ io[p].moved < io[p].sent /\ io[p].moved - io[p].put < Capacity
    /\ ProxyStep(p, [io[p] EXCEPT !.moved = @ + 1])
    /\ UNCHANGED ppc

ReaderSeesEof(p) ==
    /\ InProcess(p) /\ ~io[p].shut /\ io[p].eof /\ io[p].moved = io[p].sent
    /\ ProxyStep(p, [io[p] EXCEPT !.shut = TRUE])
    /\ UNCHANGED ppc

Respond(p) ==
    /\ InProcess(p) /\ io[p].put < io[p].moved /\ io[p].put - io[p].out < Capacity
    /\ ProxyStep(p, [io[p] EXCEPT !.put = @ + 1])
    /\ UNCHANGED ppc

WriterWrites(p) ==
    /\ InProcess(p) /\ io[p].out < io[p].put
    /\ ProxyStep(p, [io[p] EXCEPT !.out = @ + 1])
    /\ UNCHANGED ppc

(* The loop ended and dropped tx_out; the writer empties the channel.      *)
WriterEnds(p) ==
    /\ InProcess(p) /\ ~io[p].drained
    /\ io[p].shut /\ io[p].put = io[p].moved /\ io[p].out = io[p].put
    /\ ProxyStep(p, [io[p] EXCEPT !.drained = TRUE])
    /\ UNCHANGED ppc

(* Mutant: the JoinHandle of the writer is dropped.                        *)
WriterDetached(p) == TRUE

(* writer_done is awaited before main returns.                             *)
WriterAwaited(p) == io[p].drained

ServerReturns(p) ==
    /\ InProcess(p) /\ io[p].shut /\ io[p].put = io[p].moved /\ WriterAwaited(p)
    /\ ProxyStep(p, [io[p] EXCEPT !.end = "ClientClosed"])
    /\ ProxyTo(p, "exited")

------------------------------------------------------------------------------
(* mesh-mcp doctor --fix on a daemon that serves another version or config *)

Forget == [pc |-> "forget", pid |-> NoOne]
Done == [pc |-> "read", pid |-> NoOne]

DoctorReads ==
    /\ doctor.pc = "read" /\ meta # NoOne /\ Kill
    /\ doctor' = [pc |-> "probe", pid |-> meta]
    /\ UNCHANGED <<sock, meta, daemonVars, conns, proxyVars, closed>>

(* Nobody listens: removing the stale record is the whole fix.             *)
DoctorProbes ==
    /\ doctor.pc = "probe"
    /\ doctor' = IF Reachable THEN [doctor EXCEPT !.pc = "kill"] ELSE Forget
    /\ conns' = IF Reachable THEN Probe(kills) ELSE conns
    /\ UNCHANGED <<sock, meta, daemonVars, proxyVars, closed, kills>>

(* SIGTERM, which meshd does not handle.                                   *)
DoctorKills ==
    /\ doctor.pc = "kill" /\ doctor.pid \in Daemons /\ Lives(doctor.pid)
    /\ Ends(doctor.pid)
    /\ doctor' = Forget
    /\ UNCHANGED <<sock, meta, proxyVars, kills>>

(* No such process: nothing is fixed and the record stays.                 *)
DoctorMisses ==
    /\ doctor.pc = "kill" /\ ~(doctor.pid \in Daemons /\ Lives(doctor.pid))
    /\ doctor' = Done
    /\ UNCHANGED <<sock, meta, daemonVars, conns, proxyVars, closed, kills>>

DoctorForgets ==
    /\ doctor = Forget
    /\ meta' = NoOne
    /\ doctor' = Done
    /\ UNCHANGED <<sock, daemonVars, conns, proxyVars, closed, kills>>

------------------------------------------------------------------------------
DaemonRuns(d) ==
    \/ LookForStale(d) \/ UnlinkStale(d) \/ Bind(d) \/ BindFails(d) \/ WriteDaemonMeta(d)
    \/ Accept(d) \/ HandleLine(d) \/ HandlerSeesEof(d) \/ HandlerCancelled(d)
    \/ LeaveLoop(d) \/ DropListener(d) \/ RemoveSocket(d)

ProxyRuns(p) ==
    \/ GuardWorkspace(p) \/ EnsureProbe(p) \/ EnsurePoll(p) \/ Connect(p)
    \/ CopyIn(p) \/ CopyInFails(p) \/ StdinEof(p) \/ ShutdownWrite(p)
    \/ CopyOut(p) \/ BridgeEnds(p)
    \/ ReaderSends(p) \/ ReaderSeesEof(p) \/ Respond(p) \/ WriterWrites(p)
    \/ WriterEnds(p) \/ ServerReturns(p)

Next ==
    \/ \E d \in Daemons :
        \/ DaemonRuns(d) \/ Poll(d) \/ StartFails(d) \/ AfterBind(d)
        \/ AfterBindRefuses(d) \/ Interrupt(d) \/ Crash(d)
    \/ \E p \in Proxies :
        \/ ProxyRuns(p) \/ Spawn(p) \/ CannotSpawn(p)
        \/ ClientSends(p) \/ ClientCloses(p)
    \/ DoctorReads \/ DoctorProbes \/ DoctorKills \/ DoctorMisses \/ DoctorForgets

(* The async runtime and the operating system run what can run; an action  *)
(* with two outcomes (spawn or not, confined or not) takes one of them.    *)
(* Nothing is assumed of clients, interrupts, crashes and the doctor.      *)
Fairness ==
    /\ \A d \in Daemons :
        WF_vars(DaemonRuns(d)) /\ WF_vars(Poll(d)) /\ WF_vars(AfterBind(d) \/ AfterBindRefuses(d))
    /\ \A p \in Proxies : WF_vars(ProxyRuns(p)) /\ WF_vars(Spawn(p) \/ CannotSpawn(p))

Spec == Init /\ [][Next]_vars /\ Fairness

------------------------------------------------------------------------------
(* Properties *)

TypeOK ==
    /\ {sock, meta, doctor.pid} \subseteq Daemons \union {Crashed, NoOne}
    /\ counter \in [Daemons -> Nat]
    /\ \A d \in Daemons : watch[d].idle <= IdleTimeout
    /\ \A c \in conns : c.at \in Daemons /\ c.st \in {"queued", "accepted"}
    /\ \A p \in Proxies :
        /\ tries[p] \in 0..Polls
        /\ io[p].out <= io[p].put /\ io[p].put <= io[p].moved /\ io[p].moved <= io[p].sent

(* A session is never reported as lost (exit status 1, "meshd closed the   *)
(* connection mid-session") unless the daemon really left first: when the  *)
(* daemon closes in answer to the client's end of input, client_done is    *)
(* already set, whichever copy the proxy sees end first.                   *)
NoFalseLoss ==
    \A p \in Proxies : io[p].end = "DaemonClosed" => closed[p] = "cut"

(* A session that ended because its client closed stdin, and was not cut   *)
(* by the daemon, has written the answer to every request to stdout, with  *)
(* every channel at its capacity on the way: the daemon drains before it   *)
(* closes, and an in-process server waits for its writer.                  *)
Drained ==
    \A p \in Proxies :
        io[p].end = "ClientClosed" /\ closed[p] # "cut" => io[p].out = io[p].sent

(* The watchdog, which sees only a counter that other tasks move, never    *)
(* stops a daemon that holds a client's session.                           *)
IdleSparesSessions ==
    [][\A d \in Daemons :
        ~cancelled[d] /\ cancelled'[d] /\ kills' = kills
            => Sessions(Handled(d)) = {}]_vars

(* No zombie: a daemon does not stay for ever without a client, found or   *)
(* not by whoever spawned it, whoever removed its socket file.             *)
NoZombie ==
    \A d \in Daemons : []<>(~Lives(d) \/ Sessions(Handled(d)) # {})

(* Every `mesh-mcp run` comes to serve its client, through a daemon or in  *)
(* process, whatever daemons do between the liveness check and the         *)
(* connection.                                                             *)
EverySessionServed ==
    \A p \in Proxies :
        ppc[p] = "guard" ~> Serving(p)

(* Closing stdin ends the process: no copy, channel or await is left       *)
(* waiting for another.                                                    *)
SessionEnds ==
    \A p \in Proxies : io[p].eof ~> ppc[p] = "exited"

(* "Find (and, on --fix, stop) this daemon specifically": the record, once *)
(* the daemon behind the socket wrote it, names no other live process.     *)
RecordNamesListener ==
    Reachable /\ dpc[sock] = "serve" => meta \in {sock, NoOne, Crashed}

(* However a session ends, its client is told the truth: no answer is lost *)
(* at an orderly end, and no orderly end is reported as a lost daemon.     *)
SessionsEndClean == TypeOK /\ NoFalseLoss /\ Drained

(* Every session begins and, once its client is done, ends.                *)
SessionsServed == EverySessionServed /\ SessionEnds
=============================================================================
