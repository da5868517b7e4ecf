------------------------------- MODULE Daemon -------------------------------
(***************************************************************************)
(* One daemon of one target: the table of turns it holds (daemon.py's      *)
(* Daemon.turns), the start of a turn up to its prompt, the slots turns    *)
(* queue for, the waiters and cancellations that reach a turn through      *)
(* other connections, and the shutdown; with the clients that dispatch,    *)
(* watch and cancel turns (runner.py's _execute_via_daemon and             *)
(* _await_session, cli.py's _cancel_session).                              *)
(*                                                                         *)
(* The daemon runs one coroutine at a time, so a step of it is what it     *)
(* does between two awaits; clients are processes of their own, and their  *)
(* steps on meta.json fall anywhere in between.  A turn is named by the    *)
(* client that dispatches it, which dispatches only one.                   *)
(***************************************************************************)
EXTENDS Naturals, FiniteSets, Sequences

CONSTANTS
    Sessions,       \* session ids
    Clients,        \* acpc processes; each runs one command
    Plans,          \* bound: which command on which session each of them runs
    None,           \* no turn
    Signaled,       \* bound: the clients a signal or a timeout may reach
    Slots           \* max_concurrent

ASSUME DaemonAssumption ==
    /\ Slots \in Nat \ {0}
    /\ IsFiniteSet(Clients)
    /\ None \notin Clients
    /\ Plans \subseteq [Clients -> {"run", "continue", "wait", "cancel"} \X Sessions]

VARIABLES
    disk,       \* meta.json of each session: turns and state
    table,      \* Daemon.turns: the turn in flight of each session
    turn,       \* _Turn of each client's turn, and how far its coroutine is
    client,     \* the command of each client and how far it is
    adapter,    \* AdapterHost: "none" until an adapter is started
    starting,   \* who holds AdapterHost._starting
    queue,      \* turns waiting for a slot, in order
    daemon,     \* "serving", "ending" (_shut_down_sessions), "exiting", "down"
    ending,     \* turns _shut_down_sessions still has to end
    known       \* turns in the table when the shutdown listed them

dvars == <<disk, table, turn, client, adapter, starting, queue, daemon, ending, known>>

Active(s) == disk[s].state \in {"starting", "running"}
Finished(s) == disk[s].state \in {"succeeded", "canceled", "failed"}
Session(c) == client[c].session
\* A `continue` defers its rotation to the daemon (defer_rotation), so its
\* preparation can be canceled and undone (preparation_cancelable).
Deferred(c) == client[c].command = "continue"
Preparing(c) == turn[c].stage \in {"ensuring", "accepted", "restoring", "queued", "opening"}
Prompting == {c \in Clients : turn[c].stage \in {"opening", "driving"}}
Live(c) == turn[c].stage \notin {"none", "refused", "leaked", "ended"}

----------------------------------------------------------------------------
(* What several handlers share.                                            *)

\* runner._finalize: a finished session stays, and so does one that is past
\* the turn the call names (0: it names none).
FinalizedNamed(d, state, token) ==              \* mutant: no turn named, no end
    IF d.state \in {"starting", "running"} /\ token = d.turns
    THEN [d EXCEPT !.state = state] ELSE d
Finalized(d, state, token) ==
    IF d.state \in {"starting", "running"} /\ token \in {0, d.turns}
    THEN [d EXCEPT !.state = state] ELSE d

\* What a client does with the outcome of the turn it waited on: the one that
\* dispatched a turn raises a RunnerError when the outcome carries an error.
AfterOutcome(w, error) ==
    IF error /\ client[w].command \in {"run", "continue"} THEN "failing" ELSE "done"

\* _resolve_waiters of turn x.
ToldNobody(x, error) == client                  \* mutant: nobody is woken
Told(x, error) ==
    [w \in Clients |-> IF x # None /\ w \in turn[x].waiters
                       THEN [client[w] EXCEPT !.pc = AfterOutcome(w, error)]
                       ELSE client[w]]
\* The reply to c's `start`; nobody reads it once the client has gone.
Replied(clients, c, pc) ==
    IF clients[c].pc \in {"sending", "starting"}
    THEN [clients EXCEPT ![c].pc = pc] ELSE clients

\* _finish(c's session): drops whatever turn the table has under the id and
\* answers its waiters.  c's own coroutine ends at `stage`.
Leaves(c, stage) ==
    [x \in Clients |->
        LET popped == IF x = table[Session(c)] THEN [turn[x] EXCEPT !.waiters = {}]
                      ELSE turn[x]
        IN  IF x = c THEN [popped EXCEPT !.stage = stage, !.kill = FALSE] ELSE popped]
StaysQueued(c) == queue                         \* mutant: the place is kept
LeavesQueue(c) ==
    LET place == CHOOSE i \in DOMAIN queue : queue[i] = c
    IN  IF \E i \in DOMAIN queue : queue[i] = c
        THEN SubSeq(queue, 1, place - 1) \o SubSeq(queue, place + 1, Len(queue))
        ELSE queue
Popped(c) == [table EXCEPT ![Session(c)] = None]
Finish(c, error) ==
    /\ table' = Popped(c)
    /\ turn' = Leaves(c, "ended")
    /\ client' = Replied(Told(table[Session(c)], error), c, "failing")
    /\ queue' = LeavesQueue(c)

\* A start that fails undoes what it claimed or finalizes what the client
\* created, and drops the turn WITHOUT answering the waiters that joined it.
RolledBack(c) == IF turn[c].backup # <<>> THEN turn[c].backup[1] ELSE disk[Session(c)]
UnclaimedNever(c) == disk[Session(c)]           \* mutant: the claim stays
Unclaimed(c) ==
    IF Deferred(c) THEN RolledBack(c) ELSE Finalized(disk[Session(c)], "failed", 0)
AfterRefusal(c) == IF Deferred(c) THEN "done" ELSE "failing"
StartFails(c) ==
    /\ disk' = [disk EXCEPT ![Session(c)] = Unclaimed(c)]
    /\ table' = Popped(c)
    /\ turn' = [turn EXCEPT ![c].stage = "refused", ![c].kill = FALSE]
    /\ client' = Replied(client, c, AfterRefusal(c))
    /\ UNCHANGED queue

\* The claim that ends a start: mark_running for a new session, which raises
\* when the session was canceled meanwhile; a continuation has rotated already.
Claims(c) ==
    LET s == Session(c) IN
    \/ /\ Deferred(c) \/ disk[s].state = "starting"
       /\ disk' = [disk EXCEPT ![s].state = IF Deferred(c) THEN @ ELSE "running"]
       /\ turn' = [turn EXCEPT ![c].stage = "accepted", ![c].claimed = TRUE,
                               ![c].token = disk[s].turns]
       /\ client' = Replied(client, c, "replied")
       /\ UNCHANGED <<table, queue>>
    \/ /\ ~Deferred(c) /\ disk[s].state # "starting"
       /\ StartFails(c)

----------------------------------------------------------------------------
(* Clients.                                                                *)

Begins(c, command, pc) ==
    /\ client[c].command = command /\ client[c].pc = "idle" /\ daemon = "serving"
    /\ client' = [client EXCEPT ![c].pc = pc, ![c].pinned = disk'[Session(c)].turns]

\* `run` creates the session and then dispatches its first turn.
Run(c) ==
    /\ disk[Session(c)].state = "none"
    /\ disk' = [disk EXCEPT ![Session(c)] = [turns |-> 1, state |-> "starting"]]
    /\ Begins(c, "run", "sending")
    /\ UNCHANGED <<table, turn, adapter, starting, queue, daemon, ending, known>>

\* `continue` checks that the session is finished and dispatches.
Continue(c) ==
    /\ Finished(Session(c))
    /\ UNCHANGED disk
    /\ Begins(c, "continue", "sending")
    /\ UNCHANGED <<table, turn, adapter, starting, queue, daemon, ending, known>>

\* `wait` and `cancel` select the turn that is active when they start.
Observe(c) ==
    /\ Active(Session(c))
    /\ UNCHANGED disk
    /\ \E command \in {"wait", "cancel"} : Begins(c, command, "asking")
    /\ UNCHANGED <<table, turn, adapter, starting, queue, daemon, ending, known>>

\* SIGTERM, Ctrl-C before the daemon answered, or a timeout: the client goes
\* and the turn stays.  Its future stays among the waiters and is harmless.
Detach(c) ==
    /\ c \in Signaled /\ client[c].pc \in {"starting", "waiting"}
    /\ client' = [client EXCEPT ![c].pc = "left"]
    /\ turn' = [x \in Clients |-> [turn[x] EXCEPT !.waiters = @ \ {c}]]
    /\ UNCHANGED <<disk, table, adapter, starting, queue, daemon, ending, known>>

\* execute_turn after a RunnerError or a lost connection: finalizes the
\* session as failed and names no turn.
FinalizeFailed(c) ==
    /\ client[c].pc = "failing"
    /\ disk' = [disk EXCEPT ![Session(c)] = Finalized(@, "failed", 0)]
    /\ client' = [client EXCEPT ![c].pc = "done"]
    /\ UNCHANGED <<table, turn, adapter, starting, queue, daemon, ending, known>>

\* The connections close with the daemon.
ConnectionLost(c) ==
    /\ daemon = "down"
    /\ client[c].pc \in {"sending", "starting", "replied", "asking", "waiting"}
    /\ client' = [client EXCEPT ![c].pc = AfterOutcome(c, TRUE)]
    /\ turn' = [x \in Clients |-> [turn[x] EXCEPT !.waiters = @ \ {c}]]
    /\ UNCHANGED <<disk, table, adapter, starting, queue, daemon, ending, known>>

----------------------------------------------------------------------------
(* Frames.  An open connection is served until the daemon has exited.      *)

Serves == daemon \in {"serving", "ending", "exiting"}

\* The turn enters the table before the first await; a continuation is
\* snapshotted and rotated in the same step, under the session's lock.
Registered(c) ==
    [turn EXCEPT ![c].stage = "ensuring",
                 ![c].backup = IF Deferred(c) THEN <<disk[Session(c)]>> ELSE <<>>]
Rotated(d) == [turns |-> d.turns + 1, state |-> "running"]

Start(c) ==
    LET s == Session(c) IN
    /\ Serves /\ client[c].pc = "sending"
    /\ \/ /\ table[s] # None            \* the reply does not say preserve_session
          /\ client' = Replied(client, c, "failing")
          /\ UNCHANGED <<disk, table, turn>>
       \/ /\ table[s] = None /\ Deferred(c) /\ ~Finished(s)
          /\ client' = Replied(client, c, "done")       \* SessionBusy
          /\ UNCHANGED <<disk, table, turn>>
       \/ /\ table[s] = None /\ Deferred(c) /\ Finished(s)
          /\ disk' = [disk EXCEPT ![s] = Rotated(@)]
          /\ table' = [table EXCEPT ![s] = c]
          /\ turn' = Registered(c)
          /\ client' = [client EXCEPT ![c].pc = "starting"]
       \/ /\ table[s] = None /\ Deferred(c) /\ Finished(s)
          /\ \E d \in {disk[s], [Rotated(disk[s]) EXCEPT !.state = "failed"]} :
                disk' = [disk EXCEPT ![s] = d]          \* ResumeRotationError
          /\ client' = Replied(client, c, "done")
          /\ UNCHANGED <<table, turn>>
       \/ /\ table[s] = None /\ ~Deferred(c)
          /\ table' = [table EXCEPT ![s] = c]
          /\ turn' = Registered(c)
          /\ client' = [client EXCEPT ![c].pc = "starting"]
          /\ UNCHANGED disk
    /\ UNCHANGED <<adapter, starting, queue, daemon, ending, known>>

\* AdapterHost.ensure: the first caller starts the adapter under a lock, the
\* others find it started.
Ensure(c) ==
    /\ turn[c].stage = "ensuring" /\ ~turn[c].kill
    /\ starting = None /\ adapter = "none"
    /\ starting' = c
    /\ UNCHANGED <<disk, table, turn, client, adapter, queue, daemon, ending, known>>
Ensured(c) ==
    /\ turn[c].stage = "ensuring" /\ ~turn[c].kill
    /\ \/ starting = c
       \/ adapter = "up"
    /\ adapter' = "up"
    /\ starting' = IF starting = c THEN None ELSE starting
    /\ Claims(c)
    /\ UNCHANGED <<daemon, ending, known>>
EnsureFails(c) ==
    /\ turn[c].stage = "ensuring" /\ ~turn[c].kill /\ starting = c
    /\ starting' = None
    /\ StartFails(c)
    /\ UNCHANGED <<adapter, daemon, ending, known>>
AdapterDies ==
    /\ adapter = "up" /\ starting = None
    /\ adapter' = "none"
    /\ UNCHANGED <<disk, table, turn, client, starting, queue, daemon, ending, known>>

\* `await`: a pinned caller is told at once when the turn is another one; the
\* one that dispatched the turn pins none.
CurrentTurn(x) == IF turn[x].token # 0 THEN turn[x].token ELSE disk[Session(x)].turns
Await(w) ==
    LET s == Session(w)
        x == table[s]
        pinned == client[w].command = "wait"
    IN  /\ Serves
        /\ \/ client[w].command = "wait" /\ client[w].pc = "asking"
           \/ client[w].pc = "replied"
        /\ IF x # None /\ (pinned => CurrentTurn(x) = client[w].pinned)
           THEN /\ turn' = [turn EXCEPT ![x].waiters = @ \cup {w}]
                /\ client' = [client EXCEPT ![w].pc = "waiting"]
           ELSE /\ client' = [client EXCEPT ![w].pc = "done"]
                /\ UNCHANGED turn
        /\ UNCHANGED <<disk, table, adapter, starting, queue, daemon, ending, known>>

\* `cancel` naming turn `pin` (0: none) for session s: what it makes of the
\* session's turn x.
OtherTurnNever(x, pin) == FALSE                 \* mutant: any turn will do
OtherTurn(x, pin) == pin # 0 /\ turn[x].token # 0 /\ turn[x].token # pin
CancelOf(x, pin) ==
    IF OtherTurn(x, pin) THEN turn[x]
    ELSE [turn[x] EXCEPT
            !.cancel = IF @ = "none" THEN "canceled" ELSE @,
            !.asked = IF turn[x].cancel = "none" THEN <<pin, turn[x].token>> ELSE @,
            !.kill = @ \/ (Preparing(x) /\ (~turn[x].claimed \/ Deferred(x)))]
\* The daemon holds no turn of the session: the caller cancels a session no
\* host has recorded itself in, and reports any other as unconfirmed.
CanceledLocally(s) ==
    [disk EXCEPT ![s].state = IF @ = "starting" THEN "canceled" ELSE @]
Cancel(w) ==
    LET s == Session(w) IN
    /\ Serves
    /\ client[w].command = "cancel" /\ client[w].pc = "asking"
    /\ IF table[s] # None
       THEN /\ turn' = [turn EXCEPT ![table[s]] = CancelOf(table[s], client[w].pinned)]
            /\ UNCHANGED disk
       ELSE /\ disk' = CanceledLocally(s)
            /\ UNCHANGED turn
    /\ client' = [client EXCEPT ![w].pc = "done"]
    /\ UNCHANGED <<table, adapter, starting, queue, daemon, ending, known>>
\* Ctrl-C at the client that dispatched: the same request without a token.
Interrupt(w) ==
    LET s == Session(w) IN
    /\ Serves /\ w \in Signaled
    /\ client[w].command \in {"run", "continue"} /\ client[w].pc \in {"starting", "waiting"}
    /\ ~client[w].interrupted
    /\ client' = [client EXCEPT ![w].interrupted = TRUE,
                                ![w].pc = IF @ = "starting" THEN "left" ELSE @]
    /\ turn' = IF table[s] = None THEN turn
               ELSE [turn EXCEPT ![table[s]] = CancelOf(table[s], 0)]
    /\ UNCHANGED <<disk, table, adapter, starting, queue, daemon, ending, known>>

----------------------------------------------------------------------------
(* The turn's own task.                                                    *)

FreeOfQueue ==                                  \* mutant: the queue counts
    Cardinality({c \in Clients : turn[c].stage \in {"queued", "opening", "driving"}}) < Slots
Free == Cardinality(Prompting) < Slots
\* `async with self._slots`: at once when there is a free slot and no queue.
EntersSlot(c) ==
    IF Free /\ queue = <<>> THEN "opening" ELSE "queued"
Queued(c) == IF EntersSlot(c) = "queued" THEN Append(queue, c) ELSE queue

TaskBegins(c) ==
    /\ turn[c].stage = "accepted" /\ ~turn[c].kill
    /\ IF Deferred(c)
       THEN turn' = [turn EXCEPT ![c].stage = "restoring"] /\ UNCHANGED queue
       ELSE turn' = [turn EXCEPT ![c].stage = EntersSlot(c)] /\ queue' = Queued(c)
    /\ UNCHANGED <<disk, table, client, adapter, starting, daemon, ending, known>>

\* _prepare_turn: the adapter has the session warm, or has restored it.
Restored(c) ==
    /\ turn[c].stage = "restoring" /\ ~turn[c].kill
    /\ turn' = [turn EXCEPT ![c].stage = EntersSlot(c), ![c].backup = <<>>]
    /\ queue' = Queued(c)
    /\ UNCHANGED <<disk, table, client, adapter, starting, daemon, ending, known>>
\* ... or could not: the claim is undone (ResumePreparationError), or stays as
\* a failed turn when the entry needs another adapter (SpawnArgvMismatch).
RestoreFails(c) ==
    /\ turn[c].stage = "restoring" /\ ~turn[c].kill
    /\ \E d \in {RolledBack(c), Finalized(disk[Session(c)], "failed", disk[Session(c)].turns)} :
            disk' = [disk EXCEPT ![Session(c)] = d]
    /\ Finish(c, TRUE)
    /\ UNCHANGED <<adapter, starting, daemon, ending, known>>

TakesSlot(c) ==
    /\ turn[c].stage = "queued" /\ ~turn[c].kill
    /\ Free /\ Head(queue) = c
    /\ turn' = [turn EXCEPT ![c].stage = "opening"]
    /\ queue' = Tail(queue)
    /\ UNCHANGED <<disk, table, client, adapter, starting, daemon, ending, known>>
Prompts(c) ==
    /\ turn[c].stage = "opening" /\ ~turn[c].kill /\ starting = None
    /\ turn' = [turn EXCEPT ![c].stage = "driving"]
    /\ adapter' = "up"                  \* ensure again: it may have died
    /\ UNCHANGED <<disk, table, client, starting, queue, daemon, ending, known>>

\* The request of a continuation names its turn, that of a new session none.
RequestTokenBefore(c) ==                        \* mutant: the token of before
    IF Deferred(c) THEN turn[c].token - 1 ELSE 0
RequestToken(c) == IF Deferred(c) THEN turn[c].token ELSE 0
\* _run_turn records the outcome and then tells the waiters.  The stop that
\* reached the turn first names it; an error travels with the outcome.
RunEnds(c, state, error) ==
    /\ disk' = [disk EXCEPT ![Session(c)] =
                    Finalized(@, IF turn[c].cancel = "none" THEN state ELSE turn[c].cancel,
                              RequestToken(c))]
    /\ Finish(c, error)
    /\ UNCHANGED <<adapter, starting, daemon, ending, known>>
Answers(c) ==
    /\ turn[c].stage = "driving" /\ ~turn[c].kill /\ adapter = "up"
    /\ RunEnds(c, "succeeded", FALSE)
Fails(c) ==
    /\ turn[c].stage \in {"opening", "driving"} /\ ~turn[c].kill
    /\ \E error \in BOOLEAN : RunEnds(c, "failed", error)

----------------------------------------------------------------------------
(* task.cancel() reached the coroutine at its await.                       *)

\* Inside _start.  A canceled start answers its waiters, any other does not.
KilledStarting(c) ==
    /\ turn[c].stage = "ensuring" /\ turn[c].kill
    /\ starting' = IF starting = c THEN None ELSE starting
    /\ IF turn[c].cancel = "canceled"
       THEN /\ disk' = [disk EXCEPT ![Session(c)] = Finalized(@, "canceled", 0)]
            /\ table' = Popped(c)
            /\ turn' = Leaves(c, "ended")
            /\ client' = Replied(Told(table[Session(c)], FALSE), c, AfterRefusal(c))
            /\ UNCHANGED queue
       ELSE StartFails(c)
    /\ UNCHANGED <<adapter, daemon, ending, known>>

\* The task had not taken its first step: none of its handlers is entered, so
\* nobody finalizes the session or takes the turn out of the table.
KilledUnstarted(c) ==
    /\ turn[c].stage = "accepted" /\ turn[c].kill
    /\ turn' = [turn EXCEPT ![c].stage = "leaked", ![c].kill = FALSE]
    /\ UNCHANGED <<disk, table, client, adapter, starting, queue, daemon, ending, known>>

\* In preparation or in the queue: a canceled continuation is finalized, any
\* other is left to _shut_down_sessions.
KilledPreparing(c) ==
    /\ turn[c].stage \in {"restoring", "queued"} /\ turn[c].kill
    /\ IF turn[c].cancel = "canceled" /\ Deferred(c)
       THEN /\ disk' = [disk EXCEPT ![Session(c)] = Finalized(@, "canceled", turn[c].token)]
            /\ Finish(c, FALSE)
       ELSE /\ turn' = [turn EXCEPT ![c].stage = "ended", ![c].kill = FALSE]
            /\ queue' = LeavesQueue(c)
            /\ UNCHANGED <<disk, table, client>>
    /\ UNCHANGED <<adapter, starting, daemon, ending, known>>
\* In its slot: _run_turn's own handler.
KilledRunning(c) ==
    /\ turn[c].stage \in {"opening", "driving"} /\ turn[c].kill
    /\ RunEnds(c, "failed", ~(turn[c].stage = "opening" /\ turn[c].cancel = "canceled"
                              /\ Deferred(c)))

----------------------------------------------------------------------------
(* Shutdown: `stop`, another build's hello, the idle TTL, or the socket    *)
(* that another daemon took over.                                          *)

InTable == {c \in Clients : \E s \in Sessions : table[s] = c}
\* The idle TTL counts only while the table is empty; the socket is checked
\* first, and `stop` and `hello` never look at the table.
Shutdown ==
    /\ daemon = "serving"
    /\ daemon' = "ending" /\ known' = InTable
    /\ ending' \in {q \in [1..Cardinality(InTable) -> InTable] :
                      \A c \in InTable : \E i \in DOMAIN q : q[i] = c}
    /\ UNCHANGED <<disk, table, turn, client, adapter, starting, queue>>

\* _shut_down_sessions, one turn: stop its task and await it ...
Strike(c) ==
    /\ daemon = "ending" /\ ending # <<>> /\ Head(ending) = c
    /\ Live(c) /\ ~turn[c].kill
    /\ turn' = [turn EXCEPT ![c].cancel = IF @ = "none" THEN "failed" ELSE @,
                            ![c].kill = TRUE]
    /\ UNCHANGED <<disk, table, client, adapter, starting, queue, daemon, ending, known>>
\* ... then finalize what it left active and tell its waiters.
CloseTurn(c) ==
    /\ daemon = "ending" /\ ending # <<>> /\ Head(ending) = c /\ ~Live(c)
    /\ disk' = [disk EXCEPT ![Session(c)] = Finalized(@, "failed", 0)]
    /\ client' = Told(c, FALSE)
    /\ turn' = [turn EXCEPT ![c].waiters = {}, ![c].stage = "ended"]
    /\ ending' = Tail(ending)
    /\ UNCHANGED <<table, adapter, starting, queue, daemon, known>>
\* turns.clear(), the adapter is closed and the event loop cancels what is left:
\* turns of starts that came while the listed ones were ended.
Clear ==
    /\ daemon = "ending" /\ ending = <<>>
    /\ daemon' = "exiting"
    /\ table' = [s \in Sessions |-> None]
    /\ UNCHANGED <<disk, turn, client, adapter, starting, queue, ending, known>>
Abandon(c) ==
    /\ daemon = "exiting" /\ Live(c) /\ ~turn[c].kill
    /\ turn' = [turn EXCEPT ![c].kill = TRUE]
    /\ UNCHANGED <<disk, table, client, adapter, starting, queue, daemon, ending, known>>
Exit ==
    /\ daemon = "exiting" /\ \A c \in Clients : ~Live(c)
    /\ daemon' = "down" /\ adapter' = "none" /\ starting' = None
    /\ UNCHANGED <<disk, table, turn, client, queue, ending, known>>

----------------------------------------------------------------------------
NoTurn == [stage |-> "none", claimed |-> FALSE, token |-> 0, cancel |-> "none",
           asked |-> <<0, 0>>, kill |-> FALSE, backup |-> <<>>, waiters |-> {}]
\* A session is there, finished, unless one of the commands is to create it.
DaemonInit ==
    /\ \E plan \in Plans :
        /\ client = [c \in Clients |-> [command |-> plan[c][1], session |-> plan[c][2],
                                        pc |-> "idle", pinned |-> 0, interrupted |-> FALSE]]
        /\ disk = [s \in Sessions |->
                    IF \E c \in Clients : plan[c] = <<"run", s>>
                    THEN [turns |-> 0, state |-> "none"]
                    ELSE [turns |-> 1, state |-> "succeeded"]]
    /\ table = [s \in Sessions |-> None]
    /\ turn = [c \in Clients |-> NoTurn]
    /\ adapter = "none" /\ starting = None /\ queue = <<>>
    /\ daemon = "serving" /\ ending = <<>> /\ known = {}

\* What the daemon and a client do without anybody asking for it.
Runs(c) ==
    \/ Start(c) \/ Ensure(c) \/ Ensured(c) \/ EnsureFails(c) \/ Await(c) \/ Cancel(c)
    \/ TaskBegins(c) \/ Restored(c) \/ RestoreFails(c) \/ TakesSlot(c)
    \/ Prompts(c) \/ Answers(c) \/ Fails(c)
    \/ KilledStarting(c) \/ KilledUnstarted(c) \/ KilledPreparing(c) \/ KilledRunning(c)
    \/ Strike(c) \/ CloseTurn(c) \/ Abandon(c)
    \/ FinalizeFailed(c) \/ ConnectionLost(c)

DaemonNext ==
    \/ \E c \in Clients :
            Run(c) \/ Continue(c) \/ Observe(c) \/ Runs(c) \/ Detach(c) \/ Interrupt(c)
    \/ AdapterDies \/ Shutdown \/ Clear \/ Exit

\* The event loop runs a coroutine that is ready, an adapter answers or fails
\* within its timeouts, and a client that was started goes on.  Commands,
\* Ctrl-C, the death of the adapter and the shutdown need never come.
DaemonFairness == WF_dvars(\/ \E c \in Clients : Runs(c)
                           \/ Clear \/ Exit)
DaemonSpec == DaemonInit /\ [][DaemonNext]_dvars /\ DaemonFairness

----------------------------------------------------------------------------
(* Properties.                                                             *)

\* Every variable keeps its shape: an entry of the table is a turn of that
\* session that is in flight, refused turns are out of it, and a turn waits in
\* the queue exactly while it is queued.
TypeOK ==
    /\ disk \in [Sessions -> [turns : Nat,
                 state : {"none", "starting", "running", "succeeded", "canceled", "failed"}]]
    /\ adapter \in {"none", "up"} /\ starting \in Clients \cup {None}
    /\ daemon \in {"serving", "ending", "exiting", "down"}
    /\ \A s \in Sessions : table[s] # None =>
            Session(table[s]) = s /\ turn[table[s]].stage \notin {"none", "refused"}
    /\ \A c \in Clients : turn[c].stage = "queued" <=> \E i \in DOMAIN queue : queue[i] = c
    /\ Cardinality(Prompting) <= Slots

\* A continuation that was canceled in the moment its task had not begun.
Leaked(s) == \E c \in Clients : Session(c) = s /\ turn[c].stage = "leaked"
\* A turn that entered the table after the shutdown had listed it.
Unlisted(s) == \E c \in Clients \ known :
    Session(c) = s /\ turn[c].stage \notin {"none", "refused"}

\* Nothing active is left without somebody who will end it: whatever way a
\* start, a preparation, a queued turn or a run ends, the session it claimed is
\* finished or undone.  The two ways out are a turn whose task was canceled
\* before its first step, and a start that came while the daemon shut down.
ActiveHasOwner ==
    \A s \in Sessions : Active(s) =>
        \/ \E c \in Clients : Session(c) = s /\
                \/ Live(c) \/ \E i \in DOMAIN ending : ending[i] = c
                \/ client[c].command = "run" /\ client[c].pc \in {"sending", "failing"}
        \/ Leaked(s)
        \/ daemon \in {"exiting", "down"} /\ Unlisted(s)

\* A client that waits is among the waiters of a turn that is still in the
\* table and will answer it; the waiters of a start that failed are not, and
\* are left to the end of the daemon.
Stranded(w) == \E c \in Clients :
    w \in turn[c].waiters /\ turn[c].stage \in {"refused", "leaked"}
WaitersHaveTurn ==
    \A w \in Clients : client[w].pc = "waiting" =>
        \/ \E c \in Clients : w \in turn[c].waiters /\ table[Session(c)] = c
        \/ Stranded(w) \/ daemon \in {"exiting", "down"}

\* Until the shutdown has cleared the table, a client is told that a turn ended
\* only after the end is on disk, so what it reads next (the answer, the state)
\* is the ended turn's.
ToldAfterRecorded ==
    [][\A w \in Clients :
        (client[w].pc = "waiting" /\ client'[w].pc \in {"done", "failing"}
            /\ daemon \in {"serving", "ending"})
            => disk'[Session(w)].state \in {"succeeded", "canceled", "failed"}]_dvars

\* `daemon stop` and every other shutdown end the turns the daemon holds: no
\* session of a listed turn is active once the daemon is gone, unless a later
\* start opened it again.
ListedTurnsEnd ==
    daemon = "down" => \A c \in known : ~Active(Session(c)) \/ Unlisted(Session(c))

\* A session is recorded canceled only when somebody asked for that turn: a
\* `cancel` that selected it, Ctrl-C at its client, or a `cancel` that selected
\* the turn before it and came while this one had no token to compare yet.
CanceledWasAsked ==
    \A s \in Sessions : disk[s].state = "canceled" =>
        \E c \in Clients : Session(c) = s /\
            \/ client[c].command = "cancel" /\ client[c].pinned = disk[s].turns
            \/ client[c].interrupted
            \/ turn[c].cancel = "canceled" /\ turn[c].asked[2] = 0

\* The daemon always comes to rest: every turn that entered the table ends,
\* whoever fails, is canceled or leaves the queue before it; every client that
\* waits is answered, except for the stranded ones; and a shutdown ends whatever
\* is in flight and whatever still arrives on the open connections.
AtRest ==
    /\ \A c \in Clients : ~Live(c)
    /\ \A w \in Clients : client[w].pc = "waiting" => Stranded(w)
    /\ daemon \in {"serving", "down"}
ComesToRest == []<>AtRest

\* execute_turn's promise (runner.py:2036): a competing continuation has no
\* turn token, so it must not finalize the winner's active turn.
LoserLeavesWinner ==
    \A c \in Clients : turn[c].stage = "driving" => Active(Session(c))

=============================================================================
