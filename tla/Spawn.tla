-------------------------------- MODULE Spawn --------------------------------
(***************************************************************************)
(* How clients find or start the daemon of one target (daemon_client.py),  *)
(* the socket they meet at (ipc.py), and when a daemon stands down         *)
(* (daemon.py).  The spawn lock is a flock; the socket is a path that      *)
(* names the last daemon bound to it.  Daemons are numbered in the order   *)
(* they are spawned.                                                       *)
(***************************************************************************)
EXTENDS Naturals, FiniteSets

CONSTANTS
    Dialers,        \* acpc processes that want to run a turn, or stop the daemon
    Daemons,        \* 1..n, bound: how many daemons are spawned at all
    Builds          \* which acpc version each dialer may be: a set of functions

ASSUME SpawnAssumption == IsFiniteSet(Daemons) /\ Daemons = 1..Cardinality(Daemons)

VARIABLES
    socket,     \* the daemon bound at the path, 0: there is none
    holder,     \* who has the spawn lock: a set of at most one dialer
    host,       \* each daemon
    dialer      \* each client

svars == <<socket, holder, host, dialer>>

NoHost == [phase |-> "unborn", build |-> "", turns |-> {}, starter |-> {}]
NoDialer == [pc |-> "idle", daemon |-> 0, build |-> ""]

\* Where a connection to the path goes: a daemon that accepts answers the
\* hello; one that is shutting down no longer accepts, and the dialer waits in
\* its backlog until the socket is closed; else nobody listens.
Listens(d) == d # 0 /\ host[d].phase \in {"serving", "ending"}
Greets(c) == socket # 0 /\ host[socket].phase = "serving" /\ host[socket].build = dialer[c].build
Skewed(c) == socket # 0 /\ host[socket].phase = "serving" /\ host[socket].build # dialer[c].build
Nobody == ~Listens(socket)

StandsDown(d) == [host EXCEPT ![d].phase = "ending"]
Goes(c, pc) == dialer' = [dialer EXCEPT ![c].pc = pc]

\* connect: a daemon of this build, or none; one of another build stands down.
Connect(c, found, none) ==
    \/ /\ Greets(c)
       /\ dialer' = [dialer EXCEPT ![c].pc = found, ![c].daemon = socket]
       /\ UNCHANGED host
    \/ /\ Skewed(c)
       /\ host' = StandsDown(socket)
       /\ Goes(c, none)
    \/ /\ Nobody
       /\ Goes(c, none)
       /\ UNCHANGED host

----------------------------------------------------------------------------
\* ensure_daemon: a first connect, then the lock.
Dial(c) ==
    /\ dialer[c].pc = "idle"
    /\ Connect(c, "connected", "trying")
    /\ UNCHANGED <<socket, holder>>
TakeLock(c) ==
    /\ dialer[c].pc = "trying" /\ holder = {}
    /\ holder' = {c} /\ Goes(c, "checking")
    /\ UNCHANGED <<socket, host>>
\* Somebody else starts the daemon: connect again.
Retry(c) ==
    /\ dialer[c].pc = "trying" /\ holder # {}
    /\ Connect(c, "connected", "trying")
    /\ UNCHANGED <<socket, holder>>
\* The re-check under the lock.
RecheckNever(c) == Goes(c, "spawning") /\ UNCHANGED <<host, holder>>    \* mutant
Recheck(c) ==
    \/ ~Greets(c) /\ Connect(c, "connected", "spawning") /\ UNCHANGED holder
    \/ Greets(c) /\ Connect(c, "connected", "spawning") /\ holder' = {}
CheckAgain(c) ==
    /\ dialer[c].pc = "checking"
    /\ Recheck(c)
    /\ UNCHANGED socket
Spawned == {d \in Daemons : host[d].phase # "unborn"}
Launch(c) ==
    /\ dialer[c].pc = "spawning" /\ Spawned # Daemons
    /\ LET d == Cardinality(Spawned) + 1 IN
        /\ host' = [host EXCEPT ![d].phase = "starting", ![d].build = dialer[c].build,
                                ![d].starter = {c}]
        /\ dialer' = [dialer EXCEPT ![c].pc = "waiting", ![c].daemon = d]
    /\ UNCHANGED <<socket, holder>>
\* _await_socket: whichever daemon answers at the path.
Await1(c) ==
    /\ dialer[c].pc = "waiting"
    /\ Connect(c, "connected", "waiting")
    /\ holder' = IF Greets(c) THEN {} ELSE holder
    /\ UNCHANGED socket
\* START_TIMEOUT: the direct path is used instead; a daemon that was spawned is
\* left to itself.
GiveUp(c) ==
    /\ dialer[c].pc \in {"trying", "waiting"} \cup
                        (IF Spawned = Daemons THEN {"spawning"} ELSE {})
    /\ Goes(c, "unavailable")
    /\ holder' = holder \ {c}
    /\ UNCHANGED <<socket, host>>

\* The turn of a client that is connected; an open connection is served until
\* the daemon has ended its sessions and closes.
StartTurn(c) ==
    LET d == dialer[c].daemon IN
    /\ dialer[c].pc = "connected"
    /\ \/ /\ Listens(d)
          /\ host' = [host EXCEPT ![d].turns = @ \cup {c}]
          /\ Goes(c, "turn")
       \/ ~Listens(d) /\ Goes(c, "lost") /\ UNCHANGED host
    /\ UNCHANGED <<socket, holder>>
EndTurnOf(c) ==
    LET d == dialer[c].daemon IN
    /\ dialer[c].pc = "turn" /\ c \in host[d].turns
    /\ host' = [host EXCEPT ![d].turns = @ \ {c}]
    /\ Goes(c, "done")
    /\ UNCHANGED <<socket, holder>>

\* `daemon stop` without --force: refused over active sessions, which are read
\* from their files; the stop itself comes later, on a connection of its own.
Active1 == \E d \in Daemons : host[d].turns # {}
CheckStop(c) ==
    /\ dialer[c].pc = "idle"
    /\ Goes(c, IF Active1 THEN "done" ELSE "stopping")
    /\ UNCHANGED <<socket, holder, host>>
StopDaemon(c) ==
    /\ dialer[c].pc = "stopping"
    /\ \/ /\ Greets(c) \/ Skewed(c)
          /\ host' = StandsDown(socket)
       \/ Nobody /\ UNCHANGED host
    /\ Goes(c, "done")
    /\ UNCHANGED <<socket, holder>>

----------------------------------------------------------------------------
\* serve: bind unlinks whatever is at the path.
Bind(d) ==
    /\ host[d].phase = "starting"
    /\ socket' = d
    /\ host' = [host EXCEPT ![d].phase = "serving"]
    /\ UNCHANGED <<holder, dialer>>
\* _expire_when_idle: the endpoint is looked at first, then the table, and only
\* then the time since it was last seen busy.
OwnsPath(d) == socket = d
EndpointGone(d) ==
    /\ host[d].phase = "serving" /\ ~OwnsPath(d)
    /\ host' = StandsDown(d)
    /\ UNCHANGED <<socket, holder, dialer>>
Idle(d) == host[d].turns = {}
Expire(d) ==
    /\ host[d].phase = "serving" /\ OwnsPath(d) /\ Idle(d)
    /\ host' = StandsDown(d)
    /\ UNCHANGED <<socket, holder, dialer>>
\* _shut_down_sessions has ended every turn; then cleanup closes the server and
\* its connections ...
Close(d) ==
    /\ host[d].phase = "ending"
    /\ host' = [host EXCEPT ![d].phase = "closed"]
    /\ dialer' = [c \in Dialers |->
                    IF dialer[c].daemon = d /\ dialer[c].pc \in {"connected", "turn"}
                    THEN [dialer[c] EXCEPT !.pc = "lost"] ELSE dialer[c]]
    /\ UNCHANGED <<socket, holder>>
\* ... and unlinks the path, whoever is bound at it by then; a cleanup that
\* timed out leaves it.
Unlink(d) ==
    /\ host[d].phase = "closed"
    /\ socket' \in {0, socket}
    /\ host' = [host EXCEPT ![d].phase = "dead"]
    /\ UNCHANGED <<holder, dialer>>
\* Killed, or failed to bind: the path stays.
Dies(d) ==
    /\ host[d].phase \in {"starting", "serving"}
    /\ host' = [host EXCEPT ![d].phase = "dead"]
    /\ dialer' = [c \in Dialers |->
                    IF dialer[c].daemon = d /\ dialer[c].pc \in {"connected", "turn"}
                    THEN [dialer[c] EXCEPT !.pc = "lost"] ELSE dialer[c]]
    /\ UNCHANGED <<socket, holder>>

----------------------------------------------------------------------------
SpawnInit ==
    /\ socket = 0 /\ holder = {}
    /\ host = [d \in Daemons |-> NoHost]
    /\ \E version \in Builds : dialer = [c \in Dialers |-> [NoDialer EXCEPT !.build = version[c]]]
SpawnNext ==
    \/ \E c \in Dialers :
        \/ Dial(c) \/ TakeLock(c) \/ Retry(c) \/ CheckAgain(c) \/ Launch(c) \/ Await1(c)
        \/ GiveUp(c) \/ StartTurn(c) \/ EndTurnOf(c) \/ CheckStop(c) \/ StopDaemon(c)
    \/ \E d \in Daemons :
        Bind(d) \/ EndpointGone(d) \/ Expire(d) \/ Close(d) \/ Unlink(d) \/ Dies(d)
SpawnSpec == SpawnInit /\ [][SpawnNext]_svars

----------------------------------------------------------------------------
\* Clients that find no daemon at the same time start one: a second daemon of
\* the build is launched beside one that serves at the path only when the
\* client that started that one no longer waits for it: it gave up after
\* START_TIMEOUT, or another daemon answered it.  (The second happens with
\* three clients: the daemon of one that gave up still binds, and answers the
\* next one while its own is on the way.)
OneLaunch ==
    [][\A c \in Dialers : dialer[c].pc = "spawning" /\ dialer'[c].pc = "waiting" /\ Greets(c)
        => \E s \in host[socket].starter :
            dialer[s].pc = "unavailable" \/ dialer[s].daemon # socket]_svars
=============================================================================
