# acpc in TLA+

acpc runs coding agents that speak ACP from the command line: `acpc run` opens a
*session* with one turn, `acpc continue` adds turns to it, and other commands watch
(`status`, `wait`, `log`), stop (`cancel`, `steer`) or remove (`delete`, `prune`) it.
Several of these commands, and one daemon for each target, work on the same session
directory at the same time, without a server in between: the files and a few locks
are all they share. That is where this program is hard to get right, and where these
specifications start.

Paths below are relative to `src/acpc/` of the repository.

## The system

| Part | State it keeps | What it does | Hard about it |
| --- | --- | --- | --- |
| Session store (`sessions.py`, states in `vocab.py`) | one directory per session: `meta.json`, `prompt.md`, `answer.md`, the parked `meta.<n>.json`, `prompt.<n>.md`, `answer.<n>.md`, `transcript.ndjson`, `lock`, `.tombstone` | create, transition, finalize, rotate, deliver, delete, prune; verdicts about lost hosts | lock-free readers, multi-file updates, crashes between files, decisions on stale reads |
| Runner (`runner.py`, `direct_worker.py`) | one turn: its cancel signal, prompt task, limit record | routes a turn (direct or daemon), drives the prompt, waits through usage limits, ends the turn once | signals before routing is known, cancel against completion, cancel against resumption |
| Daemon (`daemon.py`) | turn table, slots, waiters, warm adapter sessions, restore tasks, preparation backups | start, await, cancel, steer, stop; idle expiry | asyncio interleavings, waiters of failed starts, rollback, shutdown during starts |
| Daemon client (`daemon_client.py`, `ipc.py`, `targets.py`) | socket and spawn lock of each target | find, spawn and address the daemon | spawn races, stale sockets, version hand-over |
| ACP client (`client.py`) | answer text, replay tracker, usage, permission outcomes | applies the adapter's updates | order of updates, replay against live |
| Permissions (`permissions.py`, `interaction.py`) | none | decide on a request under a policy | precedence |
| Transcript (`transcript.py`) | the event file | append, read, follow | torn tails, concurrent appends |
| Usage (`usage.py`) and limits (`limits.py`) | usage record of a session | deltas, drift; classify limits | resets, unknown turns |
| Process identity (`proc.py`, `spawn.py`) | none | probe and signal a pid with its start time | pid reuse |
| CLI (`cli.py`) | none | the verbs; local cancel, delivery of one-shot answers | acts on what it loaded earlier |
| Registry, environment, config | entries | resolve a call | precedence |
| Cache, render, output, schema, skills, probe, paths, errors | - | support | - |

How they interact: the CLI creates a session and hands its turn to a *host*, itself
(direct) or the daemon (over the socket). The host drives the adapter and writes the
store. Every other command reads the store, without a lock, and asks the daemon when
there is one. Mutations of `meta.json` are read-modify-writes under `session_lock`
(`flock` on `lock`). A host is known to others by the pid in `meta.json`: whoever finds
that pid gone (or no pid after a grace of 30 s) publishes the turn as `unknown`.

What makes each part correct: the store must give every turn exactly one outcome,
keep the files of different turns apart through interrupted rotations, never let two
hosts drive one session, reduce one-shot sessions before they show as finished, deliver
their answer, and keep a deleted session deleted. The runner must end each turn once,
with the first reason given. The daemon must answer every waiter, cancel only the turn
meant, leave no turn running when it goes, and undo a failed continuation without a
trace. The client side must end up with one reachable daemon per target.

## Modules

| Module | What it is |
| --- | --- |
| `TurnLedger` | the abstract specification: what a session promises its readers |
| `SessionStore` | one session directory, and any number of processes working on it |
| `MCSessionStore` | the same for TLC, with symmetric processes |
| `SessionStoreProofs` | proofs: types, inductive invariant, refinement, one-shot sessions, deletion |
| `SessionStoreTimely` | proofs: whose turn and whose answer, in a timely environment |
| `PromptLoop` | the turns of one session on a warm adapter: the prompt loop inside the daemon, and all that can stop or disturb it |
| `MCPromptLoop` | the same for TLC, with its resets and prompt bounds |
| `PromptLoopProofs` | proofs: its inductive invariant, its properties, and that it implements `TurnLedger` |
| `Daemon` | the daemon's table of turns: starts, slots, waiters, cancellations, shutdown, and the clients on the other side |
| `MCDaemon` | the same for TLC, with the plans of its three clients |
| `DaemonSteps` | proofs: the invariant of `Daemon` stated, and what each of its actions does to each variable |
| `DaemonProofs` | proofs: each part of that invariant is preserved by each kind of step; the properties |
| `Prune` | several sessions: names, the retention sweep, delete, and a direct turn that holds a lock |
| `Spawn` | how clients find or start the one daemon of a target, and when a daemon stands down |
| `Continuation` | preparation of a continued turn, its checks, and the rollback file by file |
| `Transcript` | `transcript.ndjson`: appends, torn and failed writes, repair, `log --follow` |
| `Replay` | several sessions on one adapter connection, and the history replayed into it |
| `Answer` | how the updates of a turn become the answer and the transcript |
| `Permissions` | policies, vendor modes, requests, and the ceiling handed to calls made from inside a turn |
| `Usage` | the cumulative token usage of a session |
| `Steer` | corrections, in place or by cancel-then-start, and what the caller is told |
| `Route` | one foreground call: which process drives its turn, signals and timeouts at each point |
| `Settings` | what the turns of a session go out with: kept settings, the live entry, targets, warm processes |
| `MCComponents` | the eleven modules from `Prune` to `Settings`, for TLC |
| `CallProofs` | proofs about one call: `Route`, `Continuation`, `Settings`, `Permissions` |
| `PeerProofs` | proofs about processes that meet each other: `Prune`, `Spawn`, `Steer` |
| `RecordProofs` | proofs about what is kept of an adapter's reports: `Replay`, `Usage`, `Transcript`, `Answer` |

How they fit together. `SessionStore` implements `TurnLedger`, and so does `PromptLoop`,
each from its side: the files, and the process that drives the turn. `Daemon` composes
the daemon with its clients around `meta.json`, reduced to what `SessionStore` has
shown of it (a finalization is atomic and first-come). The last eleven take one mechanism
each, at a grain at which they share no state with each other; `MCComponents` extends
all of them, and its variable `part` says which of them a behaviour belongs to, so that one
run checks them side by side and not in their product. Each has its own `...Init` and
`...Next`, and its variables listed in `...vars`.

### TurnLedger

Turns open one after the other; the active turn is worked on and closed with one of
four outcomes; the outcome stays on `record`, also when later turns open, until the
session is removed, which is final. `record[n]` stands for what `wait` reports about
turn n (`runner._await_session`): the state in `meta.json` if n is the current turn,
the one in `meta.<n>.json` if the session has moved past it.

### SessionStore

A process is a pid: a client (between commands) or a host (`phase`, `owns`). Each
operation is cut where another process can see the difference: a lock-free read is a
step of its own (`LoadRead`, `CancelRead`, `FinalizeRead`, `DeliverOpen`), and inside a
critical section every file, or group of files no property tells apart, is one step.
`pc` says which step comes next, `lock` who holds `session_lock`, and `Crash` can
come between any two steps: the kernel frees the locks, the files stay.

| Code | Actions |
| --- | --- |
| `create_session` | `CreateBegin`, `CreatePublish` (the owner, client or daemon, starts to set up) |
| `mark_running`, `transition` | `MarkRunning`, `HoldForLimit`, `ResumeAfterLimit` |
| `runner._finalize`, `finalize_turn`, `_drop_consumed_files` | `FinalizeRead` (unlocked look), `FinalizeAnswer`, `FinalizeEvent`, `FinalizeDrop`, `FinalizeMeta` |
| `load`, `_verify_liveness`, `_persist_unknown` | `LoadRead` (unlocked verdict), `PersistUnknown`, then the `Finalize...` steps it shares |
| `cli._cancel_local_session` without a pid | `CancelRead`, `CancelLocal` |
| `session_reservation`, `rotate_turn` | `Reserve`, `AbandonReservation`, `RotateParkMeta`, `RotateParkPrompt`, `RotateParkAnswer`, `RotateWritePrompt`, `RotatePublish` (a direct client keeps the lock until its turn ends, the daemon does not) |
| `pending_delivery`, `cli._deliver_turn_result` | `DeliverOpen`, `DeliverLock` (on the inode), `DeliverEmit`, `DeliverDrop` |
| `delete_session`, `_clear_directory` | `DeleteBegin`, `DeleteFiles`, `DeleteMeta`, `DeleteRest`, `WriteTombstone` |
| `Transcript.append` and its constructor, without the session lock: the events of a host | `AppendEvent` |
| `daemon._steer`, `_steering_reply`, `_record_steer` | `SendSteer`, `DropSteer`, `RecordSteer` (the correction is recorded whatever became of the session meanwhile) |
| `cli._follow_up_request`, before a `continue` reserves anything | `FollowUpRead` (`meta.json`), `FollowUpOpen` (the transcript) |
| the startup grace | `GraceLapses`, at any time while no host is recorded |

File contents are reduced to whose they are: `answer.md` is the turn whose owner wrote
it, and whether it is the owner's text or the placeholder; `prompt.md` is its turn's
number; a parked file likewise; the transcript is its terminal `state` events
(`endings`) and whether the file is there (`events`).

Who appends to the transcript does not take the session lock, and opens the file with
`O_CREAT` in a directory it makes if need be (`transcript.py:262`, `345`). A host that was
called `unknown` while it works, a daemon that still has a correction to record, and a
`continue` that read `meta.json` before the delete, may so put a transcript back beside
the tombstone, although SPEC.md:140 has the files of a session removed together.
`DeletedForGood` states exactly that: metadata, answers, prompts, parked files and
terminal events never come back, a transcript comes back only from a process that was at
it when the session was deleted (`LateWriter`), and no process becomes one afterwards, so
that the directory stays as it is once the last of them is gone. Other readers open the
transcript under the lock, after a look at whether the session is there (`cli.py:3282`,
`3771`, `4047`).

Two constants of the environment are chosen in `Init` and then stay. `oneShot` is the
session's stored policy. `timely` is an assumption some properties need: no process
stalls between a lock-free read and the locked step that acts on it, a living host
records its pid within the grace, and no session is continued while a host that came
too late for an earlier turn is still there. Steps against it are disabled when
`timely` holds and possible when it does not; `Implements`, `NoWholeOneShot`,
`DeliveredOnce` and `DeletedForGood` are required of both, and the runs
`answer_of_another_turn` and `unknown_while_hosted` show what breaks without it.

The preparation of a continuation by the daemon can fail after the rotation; the
daemon then rewrites the directory from a snapshot (`daemon._rollback_preparation`),
bypassing `sessions.py`. That is not part of this module: `Implements` is about the
operations of `sessions.py`. The module `Continuation` has it.

### PromptLoop

One session, one daemon, one adapter process. Between two `await`s the event loop runs
one task, so an action is what happens between two of them; `phase` says which `await`
the turn's task is in:

| `phase` | Waits for | Left by |
| --- | --- | --- |
| `accept` | the adapter, a slot (a `run` before its host is recorded) | `MarkRunning`, `SetupFails` |
| `setup` | `session/new`, the call's options | `FinishSetup`, `SetupFails` |
| `send` | nothing: the top of the loop in `run_prompt_with_limits` | `SendPrompt` |
| `framing` | the prompt task exists, its frame is not out | `Frame` |
| `prompting` | the answer, a stop, or `cancel_after` (`_await_prompt`) | `Collect`, `DispatchCancel` |
| `acking` | the answer after `session/cancel`, for `CANCEL_ACK_TIMEOUT` | `Collect`, `AbandonPrompt` |
| `holding` | the reset of a limit, or a stop (`_sleep_through_limit`) | `WakeUp`, `DropHold` |
| `waking` | its helper tasks; a stop that comes here does not undo the resumption | `Resume` |

`CancelTurn` (`Daemon._cancel`), `StopDaemon` (`_shut_down_sessions`), `DenySwitch` (a
refused `switch_mode` in `client.request_permission`) and the deadline compete through
`Request` (`_CancelSignal`). A continuation whose prompt was not seen leaving is stopped
by canceling its task (`KillOnCancel`); if its prompt task exists by then, the frame
goes out all the same. `Steer`, `SteerTimesOut` and `CancelForeign` are the in-place
corrections that share the adapter session.

The adapter is external. It has the prompts `inflight`, may answer any of them in any
order, write text for any of them, start a turn of its own for a correction (`Foreign`),
ignore everything, or die. What an answer says is reduced to what the loop tells apart:
a stop reason, an error, or an error recognized as a usage limit, with the ticks to the
reset it names or with none. Text is reduced to the earlier turns it came from (`strays`).
Delivery: `marker` is the current `PromptDelivery`, `recorded` whether the turn has a
delivery record, `incomplete` whether the record was marked incomplete in this turn.

`Tick` advances the one timer of the current wait; time passes only while the loop
waits for it, and an event that is due at the same time may come first.

The preparation of a continuation (verification, rotation, rollback) is in
`Continuation`, other sessions are in `Daemon`; `Current`, `InTurn` and `Requested` are its
abbreviations for the code's locals.

Properties. `NothingLeftRunning`: no prompt of a turn goes on untold after the turn, or
beside another prompt of it. `AnswerOfOwnTurn`: an earlier
turn's text gets into an answer only after that turn's prompt was given up, on the
acknowledgement timeout or by killing its task; the code does let it in then, because
updates are routed by session only. `WaitingIsQuiet`, `WaitWithinCap`: what `waiting`
means to readers, and the budget; a reset that has already passed is waited for whatever
is left of the budget (`stale`), since only the time to the reset is compared with it. `DeliveryRecorded`: a prompt that left is on record or
flagged. `CanceledOnRequest` and `FirstStopNamesOutcome`: where an outcome comes from. An
adapter may answer `cancelled` at any time, told to or not, and the code takes it as it is
(`runner.py:658`; "whichever side canceled it", SPEC.md:509); `conceded` says that the
prompt the turn waits for was answered so. A turn is canceled only by request or by such
an answer, and an answer nobody asked for leads to `canceled` and to nothing else.
`Implements`: readers see the turns of `TurnLedger`. `TurnEnds`: every turn ends.

### Daemon

The daemon runs one coroutine at a time, so an action is what it does between two
`await`s; the clients are processes of their own. A turn is named by the client that
dispatches it. `turn[c].stage` is how far the turn's coroutine is:

| `stage` | Where the code is |
| --- | --- |
| `ensuring` | in `_start`, the turn in the table, waiting for `AdapterHost.ensure` |
| `accepted` | the task of the turn is created, its first step has not run |
| `restoring` | in `_run_accepted_turn`, the claimed session is being restored |
| `queued` | waits for a slot |
| `opening`, `driving` | has a slot; opens the adapter session, then prompts |
| `ended`, `refused`, `leaked` | out of the table: `_finish`, a failed start, a task canceled before its first step |

`disk` is `meta.json` (turn number and state), which clients read and finalize without
the daemon (`Run`, `Observe`, `FinalizeFailed`, `ConnectionLost`). A client is among
`turn[x].waiters` while it awaits turn `x`. `Cancel` is the daemon's handler and the
local cancel that replaces it, `Interrupt` a Ctrl-C, `Detach` a SIGTERM or a timeout.
`Shutdown`, `Strike`, `CloseTurn`, `Clear` are `_shut_down_sessions` with its list of
turns taken first; `Exit` is the end of `serve`, and `Abandon` what asyncio does with
tasks that are left.

Properties. `ActiveHasOwner`: every active session has somebody who will end it,
whichever of the many failing paths a start or a preparation takes. `WaitersHaveTurn`,
`ToldAfterRecorded`: a waiter is on a turn that will answer it, and is told after the
record. `ListedTurnsEnd`: a shutdown ends what it listed. `CanceledWasAsked`: a turn is
canceled only when that turn was meant. `ComesToRest`: everything in flight ends.

What the code does that these properties have to name, each reached in the run:
a start that fails drops the waiters that joined it (`Stranded`); a continuation
canceled before its task's first step leaves its claim behind (`Leaked`); a start on an
open connection during the shutdown is not on the list (`Unlisted`); a cancel for the
turn before reaches a turn whose token is not known yet (last disjunct of
`CanceledWasAsked`). A continuation that lost a race finalizes the winner's turn: that
contradicts a comment in the code and is the run `continue_race`.

### The other components

| Module | State | Code and actions | Property |
| --- | --- | --- | --- |
| `Prune` | `store`, `lock`, `time`, `sweep` (each command's place) | `prune_sessions`: `Select`, `Confirm`, `LockNext`, `Verify`, `Clear1`, `Bury`, `Release`; `delete`: `ChooseVictim`, `Delete`; `run --name`: `ClaimAlias`, `Allocate`, `Publish`; a direct `continue`: `ReserveTurn`, `Rotate`, `FinishTurn` | `NoCircularWait`: no set of commands, of whatever size, waits in a circle for each other's locks. `SweepSparesNewTurns`: nothing is cleared that ran a turn since the sweep was confirmed |
| `Spawn` | `socket` (who is bound at the path), `holder` of the spawn lock, `host`, `dialer` | `ensure_daemon`: `Dial`, `TakeLock`, `Retry`, `CheckAgain`, `Launch`, `Await1`, `GiveUp`; `serve`: `Bind`, `EndpointGone`, `Expire`, `Close`, `Unlink` | `OneLaunch`: a daemon is launched beside one of its build that serves at the path only if the client that started that one went on without it |
| `Continuation` | `files` of the directory, `snapshot`, `prep`, `checks` | `_prepare_turn`: `Claim`; `verify_adapter_resume`: `Verify2`; `_rollback_preparation`: `Undo`, `UnlinkOne`, `RewriteOne`; direct: `ReserveDirect`, `RotateVerified` | `NothingClaimed`: a preparation that is over leaves everything as it was, or an ended turn |
| `Transcript` | `file`, `writer` (`_PathState`), `turnState`, `follower` | `_ensure_header`, constructor, `append`, `read`, `_persist_unknown`'s append; the loop of `log --follow`: `ShowPage`, `LookAtState`, `SeeState`, `EndFollow` | `StaysReadable` through kills in the middle of writes; `FollowComplete`: a follow shows each event once, in order, to the end |
| `Replay` | `flow` of each session, `queue` of frames, `tracker`, `recorded` | `bind`, `replaying`, `tag_message`, `session_update`, `ReplayTracker.close` and eviction | `HistoryStaysOut`: no replayed frame becomes part of a turn, however late its callback |
| `Answer` | `answer`, `pending`, `told`, `boundary`, `tool` | `AcpcClient`'s update handlers | `TranscriptTellsAnswer`: the transcript, read back, is the answer |
| `Permissions` | `stored`, `turn`, `warm` adapters | `run`/`continue` settling a policy, `select_mode`, `request_permission`, a person's answer, a mode switch, expiry | `NoMoreThanParent`: nothing unasked beyond one's own policy or the caller's |
| `Usage` | `usage`, `prompted`, `spent` (what was really used) | `begin_prompt_send`, `session_update` (`Work`), `_record_usage` (`ReportUsage`), `record_limit_rejection`, `finish_usage`, `accumulate_turn`, `mark_unknown` | `ExactIsAll`: usage that calls itself exact is all that was used, and no usage at all means that nothing was, but in rejected `codex` sends |
| `Steer` | `current` turn, `reached`, each `call`, `overtaken` | `steer_command`, `Daemon._steer`, `_steer_cancel_then_start` | `MessageStateTrue`: what is reported of an instruction is so, about the turn it names, and it is given at most once |
| `Route` | `request`, `client`, `signal1`, `start`, `session1` | `_execute_routed`, `_CancelSignal`, `_execute_via_daemon` with its lost connection (`ConnectionLost`) and error replies (`ErrorReplied`), what `execute_turn` then finalizes, the direct worker | `LeavesNoOrphan`: SIGTERM ends no turn of a daemon; a client that returns leaves a session driven, or finished with the ending it answers |
| `Settings` | `live` entry, `kept` settings, `built` requests, `drive`, `hosts` per target, the `vendor`'s store | `run` and `continue` building a request (`BuildRun`, `BuildContinue`) and opening it later (`Open`), `_check_command` and `ensure` (`Prepare`), the prompt (`SendDaemon`, `SendDirect`), edits of the entry, other sessions of the target, dying processes | `PinnedEffort`: a prompt goes out with the effort its session keeps; `ContextKept` (violated) |

What stands for what. In `Transcript` an event is its index; the end of the file is
clean, a piece of an event, or an event without its line end. In `Answer` a piece of
text is a number, 0 a paragraph separator. In `Permissions` a category is named by the
least policy that allows it; what a turn may do without a question (`Unasked`) follows from
its mode and policy, a call's `within` is what its caller might. A continue either opens
its turn at once or is kept in `calls` while others go on. In `Settings` the command line
of an adapter is the effort it carries, and what a vendor's process knows of a session is
the set of turns it served or loaded.
In `Usage` a turn's tokens are small numbers and a model's counters one total. In
`Continuation` a file's content is the turn it belongs to.

Exceptions. Some of these properties except something the code does, by a variable that
marks it: `disturbed` (a write that failed under a host that went on, or a reader that
truncated an event its writer had not finished, `transcript.py:294`), `consulted.spoken`
(text that arrives while a person is asked for a permission is told on the wrong side
of it, `client.py:1025`), `hurried` (a redirect whose caller's deadline passed before
its turn was opened says `not_delivered`, `cli.py:6163`, and a turn number reused after
a rollback misleads the same comparison) and `early` (a client that leaves before the
daemon accepted the turn may leave a `starting` session nobody owns, `runner.py:1822`), and in `Permissions` and `Settings`
`overtaken` (a continue that another one overtook opens with the settings stored by then,
in the adapter process its request was built for, `runner._prepare_resumed_turn`).
Three more are about what a caller is told:
- `overtaken` in `Steer`: a correction in place names a session and no turn
  (`daemon.py:813`), so one that was selected for a turn and came after the next had begun
  is input of the next, and is reported as accepted with the number of the first. SPEC.md:291
  says that an instruction "never silently becomes input to a later turn". The property
  says which turn gets it in that case, and that in every other the turn named was given it.
- `client.lost` in `Route`: a client whose connection breaks while it waits answers failed
  (`runner.py:2053`). If the daemon had recorded the ending before, the finalization that
  goes with it has no effect and the session keeps, say, `succeeded`.
- `spent.limited` in `Usage`: a message or a tool counts as activity of a send
  (`client.py:926`), but only a usage update gives a reading (`_record_usage`). A `codex` send
  that was active, reported nothing and was rejected on a limit leaves no usage at all,
  though tokens were used.

`HistoryStaysOut` excepts generations the tracker evicted, of which it keeps 64
(`Retained` is 1 in the instance, so that eviction happens).

## Runs

| Run | Instance | What it shows |
| --- | --- | --- |
| `store_safety` | 3 processes, 2 turns | types; `Implements` (TurnLedger); `TimelyAnswerOfItsTurn`, `SucceededAnswerKept`, `OneDriver`, `NoWholeOneShot`, `DeliveredOnce`, `TimelyUnknown`, `DeletedForGood` |
| `store_liveness` | 2 processes, 2 turns, fair | `LostTurnEnds`: a turn whose host died does not stay active |
| `finished_without_answer` | 3 processes, 2 turns | violation: SPEC.md promises `answer.md` for every finished state, a local cancel writes none |
| `ending_of_another_turn` | same | violation: `cli._turn_terminal_state` counts terminal events, but not every ending appends one |
| `answer_of_another_turn` | same | violation: turn 1 has no token, so its late owner writes into turn 2 |
| `unknown_while_hosted` | same | violation: a stale verdict is published although the host is alive |
| `prompt_loop` | 2 turns of 1 and 3 prompts | the ten properties of `PromptLoop`, with `TurnEnds` under `FairSpec` |
| `work_beyond_deadline` | same | violation: every resend gets the whole of `--cancel-after` again |
| `daemon_turns` | 3 clients, 2 sessions, 1 slot, 5 plans | the seven properties of `Daemon`, with `ComesToRest` under its fairness |
| `continue_race` | same | violation: the loser of two continuations finalizes the winner's turn |
| `components` | see below | the thirteen passing properties of the eleven modules, `Prune` to `Settings` |
| `context_lost` | one session, two policies, `Settings` alone | violation: a warm adapter session is prompted though a turn was served elsewhere since (from `continue --permissions` and back, or an `ask` turn); that a process knows only the turns it served or loaded is an assumption about the vendor |

**Bounds of SessionStore.** `Proc`: three processes are a host, a second host of the next turn, and a
reader, canceler, consumer or deleter that interferes with both; every pair of
operations, and a third process that is in the middle of one, occurs. `MaxTurn = 2` has
a first turn (no token), a continued one (token), a rotation, a rotation after an
interrupted rotation, and a past turn to report on. Each process may crash, except the
last one. The liveness run has two processes, since symmetry cannot be used with it.
`CHECK_DEADLOCK FALSE`: a session that is deleted, or finished at `MaxTurn` with its
answer delivered, has nothing left to do.

**Bounds of PromptLoop.** Two turns: everything a turn leaves behind (a prompt given up,
one told to stop, a turn of the adapter's own, a dead adapter) meets a next one. The
continuation sends up to three prompts (`MCSends`), so that two holds add up against
`limit_wait_max`, and the third answer is never a limit; the first turn sends one, and
differs from a continuation only before its prompt is seen leaving. `MCResets` has a
reset that has passed, one within the cap of 1 tick and one beyond it; the deadline,
the acknowledgement time and the cushion after a reset are one tick each. At most one
correction is on its way. `worked` is not counted beyond `CancelAfter + 1`, which is
all `WorkBounded` asks. `CHECK_DEADLOCK FALSE`: after the last turn nothing needs to
happen.

**Bounds of Daemon.** Each client runs one command, and a plan says which: a new turn
with a waiter and a cancel; two continuations of one session with a waiter or a cancel;
one continuation with both; two sessions that compete for the only slot, one of them
canceled. Three clients are a turn, its rival and an observer of either. One client
(`Signaled`) may get a signal or time out, which keeps the graph small; it is the
dispatching client in two plans and the observer in the others. The adapter may die and
the shutdown come at any time. `CHECK_DEADLOCK FALSE`: all commands end.

**Bounds of MCComponents.** `Prune`: two sessions to sweep and one to create; a command
that prunes, one that prunes or deletes and one that continues or runs, so two sweeps,
or a sweep and a delete, meet a direct turn. `OlderThan = 0` with two ticks: an age check
that used a later clock would take a session whose turn ended in between. `Spawn`: two
clients of one build and one of another, or three of one build, and three daemons, so that
take-over, hand-over and the lock all occur, and a third launch after two that were given up. `Continuation`: two turns behind the session, all small
conversations, list results and routes. `Transcript`: two hosts after another, one
reader, three events: a torn end meets an append, a repair and a read. `Replay`: two
sessions, three frames, two restores. `Answer`: three texts, four events, one tool.
`Permissions`: two calls (parent and child, then continued in either role), the policies
`read`, `all` and `ask`, three modes and an undeclared one; one
built continuation waits while others overtake it (`MaxCalls`). `Usage`: two turns, three sends.
`Steer`: two corrections, two turns. `Route`: one call of each kind. `Settings`: one policy, an effort and none, three turns,
two requests that wait (`Waiting`), so that one overtakes the other; the violated run has
two policies instead, since two targets, or one and a direct turn, are what it needs.
`CHECK_DEADLOCK FALSE`: each of these is a few calls that end. No liveness is claimed of
them.

**Fairness of SessionStore** (`FairSpec`, liveness run only). Weak fairness of `Proceed(p)`: a process
that began an operation and is not killed is scheduled by the operating system until it
ends; `flock` waits are not starved in the instance. Weak fairness of `LoadRead(p)`:
some command keeps reading the session, which is what `wait` does in its poll loop
(`runner._await_session`). Weak fairness of `GraceLapses`: clocks advance. Nothing is
assumed of a host: it may work forever, and a process that is a host itself is not
required to look at the session, hence the last disjunct of `LostTurnEnds`.

**Fairness of PromptLoop.** `WF(Loop)`: the event loop runs a task that is ready.
`WF(Tick)`: time passes while a timer runs. `WF(SetupFails /\ ~adapterUp)`: setting up
on a connection that is closed fails. Nothing is assumed of what the adapter does with prompts, so `TurnEnds`
rests on the deadline alone; hence the model has a `cancel_after`, without which the
code waits for as long as the adapter lives. A setup that an adapter leaves unanswered
is not waited out by these assumptions either: `TurnEnds` needs `FinishSetup`, which is
part of `Loop`, so it says that a turn whose adapter answers the setup ends.

**Fairness of Daemon.** One weak fairness condition for all that runs by itself: the
event loop runs a coroutine that is ready, an adapter answers or fails within the
timeouts of the code, a client that was started goes on. Commands, Ctrl-C, SIGTERM,
timeouts, the death of the adapter and the shutdown are not required to come. A prompt
is required to end, which an adapter alone need not do: that it does, by deadline or
cancel, is `TurnEnds` of `PromptLoop`.

Every property was seen to fail on a plausible mistake in the code: the definitions
marked as mutants in the modules are those mistakes (for example: `rotate_turn`
renames onto an existing parked answer; `finalize_turn` does not look at the state; the
cancel is local although a host is recorded).

## Proofs

Every invariant and action property of the passing runs is also a theorem, for all values
of the constants that the named assumptions admit; the three liveness properties are not.
The run shows that the property can be broken (its mutant is found), the theorem that the
bounds of the run hide nothing.

The assumptions are on constants only and state what the code's own types give: finite
sets of processes, clients, sessions and daemons, bounds and durations that are natural
numbers, ids that are ordered (`Prune`: session ids are sorted strings; `Spawn`: daemons
are numbered as they are launched), `MaxSends >= 1`, `Slots >= 1`, a catalogue of modes
with the grants 0 to 4. TLC evaluates them in every run. `LastTurn`, `MaxTurn`, `MaxEvents`
and the like bound the model and not the proof: they are any natural number.

All proofs have one shape. `XInv` is a conjunction of named parts; `XBegins` shows it of the
initial states; `XStep` has a step for each action, and in it first what the action does to
each record, field by field, and then a step for each part that the action can disturb.
The theorem puts them together with PTL. Each `XInv` was checked by TLC as an invariant of
the instance of the run before it was proved, and is written so that a part follows from
the whole of it in the unprimed state. What the types alone do not give, and why the other
parts are there:

### SessionStoreProofs, SessionStoreTimely

| Theorem | Property |
| --- | --- |
| `Invariant`, `TypeCorrect` | `TypeOK` |
| `Refinement` | `Implements` (`TurnLedger`) |
| `OneShotReduced`, `AnswerDeliveredOnce` | `NoWholeOneShot`, `DeliveredOnce` |
| `DeletionIsFinal` | `DeletedForGood` |
| `TimelyInvariant`, then `OneDriverAtATime`, `AnswersOfTheirTurns`, `SucceededAnswersKept`, `UnknownIsTrue` | `OneDriver`, `TimelyAnswerOfItsTurn`, `SucceededAnswerKept`, `TimelyUnknown` |

`TypeOK` is not inductive: `parkedMeta[turns]` must be in the function's domain when a
rotation writes it, and the state published by `FinalizeMeta` must be a finished one. `IInv`
adds `LockHeld` (who is in a critical section holds the lock), `SectionState` (what a
section checked when it began still holds), `TurnCount` (no turn without a session; one
turn in a one-shot session) and `ParkedOutcomes` (`meta.<n>.json` is there for every past
turn and for no later one). The refinement then needs nothing more: six kinds of step
change what a reader sees (publishing, moving between working states, `EndsTurn`, the
rotation, whose `meta.<n>.json` is the outcome reported before, and unlinking `meta.json`),
all others are stutters of the ledger.

Neither `IInv` nor what follows from it speaks of `events`: the unlocked writers change
nothing else. `SInv` adds what a one-shot session keeps (`Reduced`: it parks nothing, and what it consumes
is gone when `meta.json` says finished), how far a deletion is (`Cleared`: nobody is in the
lock once the tombstone is written), and that the lock of a consumed file's inode orders
those who read it (`Consumed`). That a deleted session stays deleted is an action property, in
two parts: after the tombstone every step leaves the disk but for the transcript alone
(`TombstoneStep`), and a transcript that comes back is written by one of the late writers,
of whom no step makes another (`WriterStep`). `TInv` adds, under `timely` only, that a verdict
reached without the lock still holds under it (`Verdicts`), that only hosts finalize
(`HostsOnly`: a host does nothing else meanwhile), that at most one lives and `meta.json` says
what it does (`OneHost`), and what the parked and current answers hold (`ParkedAnswers`,
`Succeeded`).

### PromptLoopProofs

`LoopInv` says for each phase what the turn may have left in the adapter (`InFlight`: its
current prompt, and prompts of the past that were told to stop or whose task was killed),
what the delivery marker knows (`Markers`), how much of the budget a hold may take (`Waits`)
and who asked for a stop (`Cancels`). Text of an earlier turn (`Strays`) is bounded by
`InFlight`: an adapter writes only for prompts it has. Theorems: `LoopInvariant`,
`LoopTypes`, `AnswersAreOwn`, `NothingLeft`, `WaitingIsQuietAlways`, `WaitsCapped`,
`DeliveriesRecorded`, `CanceledWhenAsked`, `FirstStopWins` (an action property) and
`LoopRefinement` (`TurnLedger`).

### DaemonSteps, DaemonProofs

`Daemon` has many kinds of step and an invariant of many parts. Proving each part against
each action would unfold every action once for every part. So
`DaemonSteps` first says what a step does as a relation between old and new values of each
variable (`IsAccepted`, `Joins`, `IsRestored`, `IsClosed`, ...), and the lemma `Effects` that every
step of `DaemonNext` is one of them; `DaemonProofs` then shows of each part of `DaemonInv`
that each kind preserves it. The parts: the table and the queue agree with the turns
(`Entries`, `Queueing`, `SlotsKept`); what a client has done and may have seen (`Fresh`,
`Dispatching`, `Created`, `OneRun`); how far a turn is and what it claimed (`Claimed`,
`RunsAlone`); what a continuation that may be undone knows of its session (`Backups`); who
asked for an end (`Cancels`, `Reasons`); the waiters (`Waiting`); and the list of the
shutdown (`Listed`). Theorems: `DaemonInvariant`, `DaemonTypes`, `OwnersRemain`,
`WaitersKeepTurn`, `ListedTurnsAreEnded`, `CancelsWereAsked`, `RecordedBeforeTold`.

### CallProofs

- `NoOrphanIsLeft` (`Route`). What a first signal means is settled with the route
  (`MeaningSettled`); the session agrees with the request (`StartTaken`) and the request with
  the client (`Places`), so that a client that returned left a request somebody has. A client
  that lost its connection is the one case in which a finished session need not agree with
  the answer; one that got an error finalizes the turn itself if the daemon did not.
- `NothingStaysClaimed` (`Continuation`). The rollback takes the files in any order; what is
  there in between does not matter, since it ends only when every file is the snapshot's.
- `EffortIsPinned` (`Settings`). A request that changes nothing was built with what is
  kept unless overtaken (`UpToDate`), also after a claim is undone (`Undoable`), and the
  process of a direct turn was started for it (`OwnProcess`).
- `AuthorityOnlyShrinks` (`Permissions`). The ceiling is in the environment of a process
  that outlives the call it was started for; it is the one of its target
  (`WarmForTarget`), and every stored, waiting or running call is within it.

### PeerProofs

- `NobodyWaitsInACircle` (`Prune`). A lock has one holder, who knows of it, and a sweep takes
  its locks in order (`InOrder`). In a set of commands that wait for each other, the one that
  holds the greatest lock waits for a lesser one, which the order excludes; commands that
  hold a lock for a turn wait for none.
- `SweepsSpareNewTurns` (`Prune`). A target that had a turn since the sweep read the clock
  is younger than that reading (`NewTurnsAreYounger`).
- `OneIsLaunched` (`Spawn`). A client about to launch has seen nobody under the lock, and a
  daemon that came up since was left to itself by its starter (`Beside`).
- `CorrectionsTellTheTruth` (`Steer`). `CallOk` relates what each call says to the turns that
  were given its instruction; a correction in place is given to the turn it was selected
  for as long as none was opened since, and every opening marks the ones on their way
  (`OvertakenInv`). A rollback takes the number of a turn back, but only of one
  that was not prompted, so the session's number is below a redirect's target by at most
  one (`Floor`).

### RecordProofs

- `RestoresStayOut` (`Replay`). While a tagged frame waits in the queue, its generation still
  waits for it or was evicted (`Awaited`): a callback may be as late as it likes.
- `ExactTellsAll` (`Usage`). What the earlier turns used is what the usage says as far as it
  says that it knows (`EarlierTurns`), and the tally of a response covers the whole turn
  unless a gap was counted (`ThisTurn`). The total of a `codex` session is a sum over its
  readings and is not spelled out: no usage of one is ever exact, since what it says by
  models and by parts is never both complete (`EarlierTurns`).
- `TranscriptsStayReadable`, `FollowsAreComplete` (`Transcript`). What a writer remembers of
  the file is true of it until something disturbs it (`WriterOk`), there is one writer
  (`OneWriter`), and an undamaged file is the events 1 to n, so a follower has shown a run
  from its start to its cursor (`FollowerOk`).
- `TranscriptsTellAnswers` (`Answer`). `Tells`: the transcript read back gives the answer, and
  a boundary behind the last text is told once, by an event that breaks the text or by the
  separator the next text will bring. `Retold` is a recursive function over the events; that
  there is one such function for every sequence, and how it goes on with one more event, is
  shown from the least number at which it would fail (`LeastNumber`, `WellFoundedInduction`),
  since the library's induction theorems cannot be instantiated.

### What the proofs found

- `OneLaunch` was true of two daemons and false of three: the daemon of a client that gave up
  still binds, and answers the next client while that one's own daemon is on its way. The
  property now speaks of the client that started the daemon which serves; the run has three.
- `ToldAfterRecorded` holds until the shutdown clears its table; afterwards a reply on an
  open connection may say that a turn is over whose task is being ended. The property now
  says so.
- `NoCircularWait` was stated for two commands; it is now about circles of any length.
- A follower that ends rereads the file, which fails on a damaged one (`_finish_follow_log`
  calls `_read_transcript_page`): `EndFollow` lacked that guard.

- `CanceledOnRequest`, `LeavesNoOrphan`, `MessageStateTrue`, `ExactIsAll` and `DeletedForGood`
  were once proved of models that lacked a step the code has: an adapter that cancels
  unasked, a lost connection, a correction that outlives its turn, activity without a
  reading, an append without the lock. With these steps each fails as it was stated. They
  are restated above, with the case named where the code departs from its document.

### Model-checked only

`LostTurnEnds`, `TurnEnds` and `ComesToRest`: liveness under fairness is beyond the prover.
The seven violated properties have nothing to prove.

## Not modelled, and why

- Rendering, JSON schemas, the budget of an output, help texts: formatting, no state.
- `limits.py`: it matches vendors' texts. What is decided on its result is in
  `PromptLoop`.
- `proc.py`, `spawn.py`: signals and `/proc`. A process is alive or gone in the models.
- `registry.py`, `config.py`: entries are read once per call and merged by precedence,
  without state that two processes share; what a session keeps of a resolution while its
  entry is edited is in `Settings`; of `environment.py` only the ceiling and what is in an
  adapter's environment, in `Permissions`.
- `cache.py`: files replaced as a whole, whose loss costs a probe.
- `probe.py`, `skills.py`, `schema.py`, `paths.py`, `errors.py`: no state of their own.
- Socket framing in `ipc.py`: a message arrives whole and in order, or the connection is
  lost.
- Notes a session is given for its next turn (`meta.extra`), the text of delivery
  records, the status report of the daemon, the client's file and terminal methods
  beyond their authorization.

Seen in a model and not stated as a violated property, since no document promises
otherwise: an alias checked without a lock can name two sessions (`Prune`,
`ClaimAlias`); a daemon that ends unlinks the socket of its successor, which then stands
down with its turns (`Spawn`, `Unlink`, `EndpointGone`); a rollback that is killed leaves
the files of two turns mixed (`Continuation`, `KillPreparation`); a sweep that is killed
between `meta.json` and the tombstone leaves a directory no command lists (`Prune`,
`Killed`); with `--timeout` the direct path does not look at signals (`Route`,
`WatchTimesOut`); a turn that was asked to stop and is answered `end_turn` is recorded
`canceled` with the stop reason `end_turn` (`daemon.py:1699`), while SPEC.md:509 pairs
`canceled` with `canceled`.

Seen in a model, against a document, and named in a property that holds instead of having
a run of its own: a correction given to a later turn (SPEC.md:291, `overtaken`), a
transcript in the directory of a deleted session (SPEC.md:140, `LateWriter`).

## What is left

- The notes of a session (`meta.extra`): read before the lock and written back under it
  (`daemon.py:1372`), so that one may be shown twice. A module of its own would have to
  follow `_claim_notes` and the rollback together.
- The shutdown of a daemon whose socket was taken over while it is busy
  (`daemon.py:617`): `Spawn` has the step, and no document says what should hold.
- The liveness of `Spawn` under a fair scheduler: a client always reaches a daemon or the
  direct path.
- `cli.py` beyond the verbs above, and `registry.py`: little state, much precedence; a
  model would be a table of options.
