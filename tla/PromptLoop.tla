----------------------------- MODULE PromptLoop -----------------------------
(***************************************************************************)
(* The turns of one session on a warm adapter: runner.py's                 *)
(* run_prompt_with_limits and _await_prompt inside the daemon's _drive,    *)
(* with the stop signal of the turn (_CancelSignal), the delivery record   *)
(* (PromptDelivery), the routing of updates (_MultiplexClient) and the     *)
(* in-place corrections that share the connection (_steer).                *)
(*                                                                         *)
(* Between two awaits the event loop runs one task at a time, so a step is *)
(* what happens between two awaits.  The adapter is a process of its own:  *)
(* it works on the prompts it was sent, answers in its own time or never,  *)
(* and may die.  Time passes in ticks that count against the timer of the  *)
(* wait the loop is in.                                                    *)
(***************************************************************************)
EXTENDS Integers, FiniteSets

CONSTANTS
    MaxTurn,        \* bound: turns of the session
    MaxSends,       \* bound: prompts of each turn
    Resets,         \* what a limit reports as its reset, in ticks from now;
                    \* negative when the reported time has passed already
    CancelAfter,    \* --cancel-after
    LimitWaitMax,   \* limit_wait_max
    ResumeDelay,    \* LIMIT_RESUME_FIXED_DELAY_SECONDS
    AckTimeout      \* CANCEL_ACK_TIMEOUT

ASSUME BoundsAssumption ==
    MaxTurn \in Nat \ {0} /\ MaxSends \in [1..MaxTurn -> Nat \ {0}]
ASSUME ResetsAssumption == Resets \subseteq Int
ASSUME TimersAssumption ==
    /\ CancelAfter \in Nat \ {0} /\ AckTimeout \in Nat \ {0}
    /\ LimitWaitMax \in Nat /\ ResumeDelay \in Nat

Turn == 1..MaxTurn
\* A prompt is named by its turn and its place in it.  Foreign is a turn the
\* adapter started on its own for a correction it was told not to.
Foreign == <<0, 0>>
Prompt == (UNION {{t} \X (1..MaxSends[t]) : t \in Turn}) \cup {Foreign}

VARIABLES
    turn,       \* the current turn, 0 before the first
    phase,      \* where the daemon's task is in it
    status,     \* the state meta.json records
    outcome,    \* of each turn: its state and how it ended
    reason,     \* stop_reason of the current turn
    cancel,     \* _CancelSignal of the current turn: state and stop_reason
    sends,      \* prompts the turn has sent
    reply,      \* result of the current prompt task
    need,       \* ticks to the reset a limit reply named
    timer,      \* ticks spent in the current wait
    delay,      \* length of the current wait for a limit
    waited,     \* limit_waited_seconds
    worked,     \* ticks the turn's prompts have run; bound: CancelAfter + 1
    autoContinue, \* the turn's `limit` record says that it goes on by itself
    stale,      \* a limit of this turn named a reset that had passed
    marker,     \* the current PromptDelivery
    recorded,   \* meta.extra has the turn's delivery record ...
    incomplete, \*   or was marked incomplete in this turn
    strays,     \* earlier turns whose text is in the turn's answer
    adapterUp,  \* the adapter process is alive
    inflight,   \* prompts the adapter works on
    told,       \* those it was sent session/cancel for
    steering,   \* a correction: on its way, or answered startedNewTurn
    conceded    \* history: the adapter answered a prompt of the turn's that the
                \* loop waited for with `cancelled`

place == <<turn, phase, status, outcome, reason>>
clock == <<timer, delay, waited, worked>>
locals == <<sends, reply, need, clock, stale>>
delivery == <<marker, recorded, incomplete>>
adapter == <<adapterUp, inflight, told, steering, conceded>>
vars == <<place, cancel, locals, autoContinue, delivery, strays, adapter>>

Phase == {"idle", "accept", "setup", "send", "framing", "prompting", "acking",
          "holding", "waking"}
Ended == {"succeeded", "failed", "canceled"}
Reply == {"none", "end_turn", "refusal", "cancelled", "error", "limit",
          "limitUnknown", "broken"}
Outcome == [state : Ended \cup {"none"},
            how : {"none", "settled", "abandoned", "killed"}]
NotEnded == [state |-> "none", how |-> "none"]
NoCancel == [state |-> "none", reason |-> "none"]

TypeOK ==
    /\ turn \in 0..MaxTurn /\ phase \in Phase
    /\ status \in Ended \cup {"none", "starting", "running", "waiting"}
    /\ outcome \in [Turn -> Outcome]
    /\ reason \in Reply \cup {"canceled", "cancel_after", "permission_denied", "stopped",
                             "rate_limit", "preparation"}
    /\ cancel \in [state : {"none", "canceled", "failed"},
                   reason : {"none", "cancel_after", "permission_denied", "stopped"}]
    /\ sends \in Nat /\ reply \in Reply /\ need \in Resets \cup {0}
    /\ timer \in Nat /\ delay \in Nat /\ waited \in Nat /\ worked \in Nat
    /\ autoContinue \in BOOLEAN /\ stale \in BOOLEAN
    /\ marker \in {"unseen", "persisted", "failed", "flagged"}
    /\ recorded \in BOOLEAN /\ incomplete \in BOOLEAN
    /\ strays \subseteq Turn
    /\ adapterUp \in BOOLEAN /\ inflight \subseteq Prompt /\ told \subseteq inflight
    /\ steering \in {"none", "sent", "foreign"} /\ conceded \in BOOLEAN

InTurn == phase \notin {"idle", "accept"}
Requested == cancel.state # "none"
Current == <<turn, sends>>
\* A continuation.
ResumePrepared == turn > 1
\* Its phase until a prompt of its was seen leaving.
Preparing == sends = 0 \/ (sends = 1 /\ marker = "unseen")

Init ==
    /\ turn = 0 /\ phase = "idle" /\ status = "none"
    /\ outcome = [t \in Turn |-> NotEnded] /\ reason = "none"
    /\ cancel = NoCancel /\ sends = 0 /\ reply = "none" /\ need = 0
    /\ timer = 0 /\ delay = 0 /\ waited = 0 /\ worked = 0
    /\ autoContinue = FALSE /\ stale = FALSE
    /\ marker = "unseen" /\ recorded = FALSE /\ incomplete = FALSE
    /\ strays = {}
    /\ adapterUp = TRUE /\ inflight = {} /\ told = {} /\ steering = "none"
    /\ conceded = FALSE

-----------------------------------------------------------------------------
(* How a turn ends. *)

\* Mutant: the last stop wins.
RequestLast(state, why) == cancel' = [state |-> state, reason |-> why]

\* _CancelSignal.request
Request(state, why) ==
    cancel' = IF Requested THEN cancel ELSE [state |-> state, reason |-> why]

\* Mutant: the record of a limit is left open.
KeepLimit == UNCHANGED autoContinue

\* _close_limit
CloseLimit == autoContinue' = FALSE

\* What the loop knew is gone with it.
DropLocals ==
    /\ sends' = 0 /\ reply' = "none" /\ need' = 0
    /\ timer' = 0 /\ delay' = 0 /\ waited' = 0 /\ worked' = 0 /\ stale' = FALSE

\* The end of _drive, and finalization.
End(state, why, how, flagged) ==
    /\ outcome' = [outcome EXCEPT ![turn] = [state |-> state, how |-> how]]
    /\ reason' = why
    /\ status' = state /\ phase' = "idle"
    /\ CloseLimit
    /\ incomplete' = (incomplete \/ flagged)
    /\ DropLocals
    /\ UNCHANGED turn

\* Mutant: the stop reason is passed on as the state.
StateForVerbatim(why) == IF why = "end_turn" THEN "succeeded" ELSE why
\* Mutant: a refusal counts as a cancellation.
StateForLenient(why) ==
    CASE why = "end_turn" -> "succeeded"
      [] why \in {"refusal", "cancelled", "canceled"} -> "canceled"
      [] OTHER -> "failed"
\* Mutant: a turn given up on for a limit is left waiting.
StateForOpen(why) ==
    CASE why = "end_turn" -> "succeeded"
      [] why \in {"cancelled", "canceled"} -> "canceled"
      [] why = "rate_limit" -> "waiting"
      [] OTHER -> "failed"

\* _state_for
StateFor(why) ==
    CASE why = "end_turn" -> "succeeded"
      [] why \in {"cancelled", "canceled"} -> "canceled"
      [] OTHER -> "failed"
Normalized(why) == IF why = "cancelled" THEN "canceled" ELSE why

\* What run_prompt_with_limits returned, under the stop that came meanwhile.
EndLoop(result, how) ==
    End(IF cancel'.state # "none" THEN cancel'.state ELSE StateFor(result),
        IF cancel'.reason # "none" THEN cancel'.reason ELSE Normalized(result),
        how, marker' = "flagged")

\* The turn task failed or was canceled (_failed_turn_outcome): the loop gets
\* no say.
EndKilled(how) ==
    End(IF cancel'.state # "none" THEN cancel'.state ELSE "failed",
        IF cancel'.reason # "none" THEN cancel'.reason ELSE "error", how, FALSE)

EndPreparation(how) == End("canceled", "preparation", how, FALSE)

\* The turn task met a CancelledError (_run_turn, _run_accepted_turn).
EndInterrupted(how) ==
    IF cancel'.state = "canceled" /\ ResumePrepared /\ Preparing
    THEN EndPreparation(how) ELSE EndKilled(how)

-----------------------------------------------------------------------------
(* Up to the first prompt. *)

\* A turn gets a fresh client and stop signal; host.ensure revives the adapter.
OpenTurn ==
    /\ phase = "idle" /\ turn < MaxTurn
    /\ turn' = turn + 1
    /\ phase' = IF turn = 0 THEN "accept" ELSE "setup"
    /\ status' = IF turn = 0 THEN "starting" ELSE "running"
    /\ reason' = "none" /\ cancel' = NoCancel
    /\ autoContinue' = FALSE
    /\ marker' = "unseen" /\ recorded' = FALSE /\ incomplete' = FALSE
    /\ strays' = {}
    /\ adapterUp' = TRUE /\ conceded' = FALSE
    /\ UNCHANGED <<outcome, locals, inflight, told, steering>>

MarkRunning ==
    /\ phase = "accept"
    /\ phase' = "setup" /\ status' = "running"
    /\ UNCHANGED <<turn, outcome, reason, cancel, locals, autoContinue, delivery, strays,
                   adapter>>

\* new_session and the call's options are through.  A first turn goes on to
\* its prompt even when it has been told to stop.
FinishSetup ==
    /\ phase = "setup" /\ adapterUp
    /\ IF Requested /\ ResumePrepared
       THEN EndPreparation("settled")
       ELSE /\ phase' = "send"
            /\ UNCHANGED <<turn, status, outcome, reason, locals, autoContinue, incomplete>>
    /\ UNCHANGED <<cancel, marker, recorded, strays, adapter>>

\* The adapter cannot be started, or refuses the session or an option.
SetupFails ==
    /\ phase \in {"accept", "setup"}
    /\ UNCHANGED cancel
    /\ EndKilled("settled")
    /\ UNCHANGED <<marker, recorded, strays, adapter>>

-----------------------------------------------------------------------------
(* The loop. *)

\* begin_prompt_send, register_prompt_delivery, create_task(conn.prompt)
SendPrompt ==
    /\ phase = "send"
    /\ sends < MaxSends[turn]
    /\ sends' = sends + 1
    /\ reply' = "none" /\ marker' = "unseen" /\ timer' = 0
    /\ phase' = "framing"
    /\ UNCHANGED <<turn, status, outcome, reason, cancel, need, delay, waited, worked,
                   stale, autoContinue, recorded, incomplete, strays, adapter>>

\* PromptDelivery.observe, when the frame goes out.  The observers of earlier
\* prompts are still on the connection and see it too.
Observe ==
    \/ marker' = "persisted" /\ recorded' = TRUE
    \/ marker' = "failed" /\ UNCHANGED recorded
    \/ marker' = "failed" /\ Current # <<1, 1>> /\ recorded' = TRUE

\* The prompt task's first step: the frame crosses, or the connection is dead.
Frame ==
    /\ phase = "framing"
    /\ phase' = "prompting"
    /\ IF adapterUp
       THEN /\ inflight' = inflight \cup {Current}
            /\ Observe
            /\ UNCHANGED reply
       ELSE /\ reply' = "broken"
            /\ UNCHANGED <<inflight, marker, recorded>>
    /\ UNCHANGED <<turn, status, outcome, reason, cancel, sends, need, clock, stale,
                   autoContinue, incomplete, strays, adapterUp, told, steering, conceded>>

\* Mutant: a marker that failed is retried, then forgotten.
SettleSilently ==
    \/ UNCHANGED <<marker, recorded>>
    \/ marker = "failed" /\ marker' = "persisted" /\ recorded' = TRUE

\* PromptDelivery.ensure_persisted: a marker that failed is retried, and what
\* cannot be recorded is flagged.
Settle ==
    \/ marker # "failed" /\ UNCHANGED <<marker, recorded>>
    \/ marker = "failed" /\ marker' = "persisted" /\ recorded' = TRUE
    \/ marker = "failed" /\ marker' = "flagged" /\ UNCHANGED recorded

\* Mutant: waiting spent so far is not counted.
AffordableFresh(n) == LimitWaitMax > 0 /\ n <= LimitWaitMax

\* _limit_action for a reset n ticks away
Affordable(n) == LimitWaitMax > 0 /\ n <= LimitWaitMax - waited

Hold ==
    /\ reply = "limit" /\ Affordable(need)
    /\ phase' = "holding" /\ status' = "waiting" /\ autoContinue' = TRUE
    /\ stale' = (stale \/ need < 0)
    /\ delay' = (IF need > 0 THEN need ELSE 0) + ResumeDelay
    /\ timer' = 0 /\ reply' = "none" /\ need' = 0
    /\ UNCHANGED <<turn, outcome, reason, cancel, sends, waited, worked, incomplete>>

GiveUpOnLimit ==
    /\ reply = "limitUnknown" \/ ~Affordable(need)
    /\ UNCHANGED cancel
    /\ EndLoop("rate_limit", "settled")

\* Mutant: a stop is enough to go on.
PromptDoneOrStopped == reply # "none" \/ Requested

\* asyncio.wait returned the prompt task.
PromptDone == reply # "none"

\* The prompt task is done, before a stop or within the acknowledgement time.
\* An answer is never read as a limit, nor is anything once the turn stops.
Collect ==
    /\ phase \in {"prompting", "acking"} /\ PromptDone
    /\ Settle
    /\ IF Requested \/ reply \notin {"limit", "limitUnknown"}
       THEN /\ UNCHANGED cancel
            /\ EndLoop(IF reply \in {"limit", "limitUnknown", "broken"}
                       THEN "error" ELSE reply, "settled")
       ELSE Hold \/ GiveUpOnLimit
    /\ UNCHANGED <<strays, adapter>>

\* Mutant: the deadline stops the turn but nobody tells the adapter.
TellNobody == UNCHANGED told

\* session/cancel names the session: all that runs in it is told.
TellAdapter == told' = inflight

DispatchCancel ==
    /\ phase = "prompting" /\ reply = "none"
    /\ Requested \/ timer = CancelAfter
    /\ Request("canceled", "cancel_after")
    /\ TellAdapter
    /\ phase' = "acking" /\ timer' = 0
    /\ UNCHANGED <<turn, status, outcome, reason, sends, reply, need, delay, waited,
                   worked, stale, autoContinue, delivery, strays, adapterUp, inflight,
                   steering, conceded>>

\* The adapter does not wind down: the prompt task is dropped, the prompt runs on.
AbandonPrompt ==
    /\ phase = "acking" /\ reply = "none" /\ timer = AckTimeout
    /\ UNCHANGED cancel
    /\ Settle
    /\ EndLoop("canceled", "abandoned")
    /\ UNCHANGED <<strays, adapter>>

\* _sleep_through_limit was interrupted: nothing is sent to the adapter.
DropHold ==
    /\ phase = "holding" /\ Requested
    /\ UNCHANGED <<cancel, marker>>
    /\ EndLoop("canceled", "settled")
    /\ UNCHANGED <<recorded, strays, adapter>>

\* The sleeper is done; its result stands while the tasks are collected.
WakeUp ==
    /\ phase = "holding" /\ ~Requested /\ timer = delay
    /\ phase' = "waking"
    /\ waited' = waited + timer
    /\ timer' = 0 /\ delay' = 0
    /\ UNCHANGED <<turn, status, outcome, reason, cancel, sends, reply, need, worked,
                   stale, autoContinue, delivery, strays, adapter>>

Resume ==
    /\ phase = "waking"
    /\ phase' = "send" /\ status' = "running"
    /\ UNCHANGED <<turn, outcome, reason, cancel, locals, autoContinue, delivery, strays,
                   adapter>>

\* Mutant: the hold is not timed.
WaitingOnClockNever == phase = "prompting" /\ reply = "none" /\ timer < CancelAfter

\* A timer of the loop is running and not due.
WaitingOnClock ==
    \/ phase = "prompting" /\ reply = "none" /\ ~Requested /\ timer < CancelAfter
    \/ phase = "acking" /\ reply = "none" /\ timer < AckTimeout
    \/ phase = "holding" /\ ~Requested /\ timer < delay

Tick ==
    /\ WaitingOnClock
    /\ timer' = timer + 1
    /\ worked' = IF phase = "prompting" /\ worked <= CancelAfter THEN worked + 1 ELSE worked
    /\ UNCHANGED <<place, cancel, sends, reply, need, delay, waited, stale, autoContinue, delivery,
                   strays, adapter>>

-----------------------------------------------------------------------------
(* What others do to the turn. *)

\* The daemon's _cancel.  A continuation whose prompt was not seen leaving is
\* ended by cancelling its task; the prompt task, once created, goes on.
KillOnCancel ==
    \/ /\ phase = "accept"
       /\ End("canceled", "canceled", "settled", FALSE)
       /\ UNCHANGED <<inflight, recorded>>
    \/ /\ InTurn /\ ResumePrepared /\ Preparing /\ phase # "framing"
       /\ EndInterrupted("settled")
       /\ UNCHANGED <<inflight, recorded>>
    \/ /\ phase = "framing" /\ ResumePrepared /\ Preparing
       /\ EndInterrupted("killed") \/ EndKilled("killed")
       /\ inflight' = IF adapterUp THEN inflight \cup {Current} ELSE inflight
       /\ recorded' \in (IF adapterUp THEN BOOLEAN ELSE {FALSE})

CancelTurn ==
    /\ phase # "idle"
    /\ Request("canceled", "none")
    /\ \/ KillOnCancel
       \/ /\ InTurn /\ ~(ResumePrepared /\ Preparing)
          /\ UNCHANGED <<place, locals, autoContinue, recorded, incomplete, inflight>>
    /\ UNCHANGED <<marker, strays, adapterUp, told, steering, conceded>>

\* The daemon shuts down: the turn's task is canceled and the adapter closed.
StopDaemon ==
    /\ phase # "idle"
    /\ Request("failed", "stopped")
    /\ EndInterrupted("killed")
    /\ adapterUp' = FALSE /\ inflight' = {} /\ told' = {} /\ steering' = "none"
    /\ UNCHANGED <<marker, recorded, strays, conceded>>

\* request_permission refuses a change of mode and ends the turn, the one the
\* connection is bound to, whichever prompt asked.
DenySwitch ==
    /\ InTurn /\ inflight # {}
    /\ Request("failed", "permission_denied")
    /\ UNCHANGED <<place, locals, autoContinue, delivery, strays, adapter>>

\* _steer: a request of its own down the connection of a running turn.  Bound:
\* one at a time.
Steer ==
    /\ InTurn /\ ~Preparing /\ adapterUp /\ steering = "none"
    /\ steering' = "sent"
    /\ UNCHANGED <<place, cancel, locals, autoContinue, delivery, strays,
                   adapterUp, inflight, told, conceded>>

\* _apply_steering: startedNewTurn is answered with session/cancel, though the
\* session may have a prompt of acpc's own by now.
CancelForeign ==
    /\ steering = "foreign" /\ adapterUp
    /\ steering' = "none"
    /\ told' = inflight
    /\ UNCHANGED <<place, cancel, locals, autoContinue, delivery, strays,
                   adapterUp, inflight, conceded>>

\* _steering_reply: the answer comes too late, and nobody cancels that turn.
SteerTimesOut ==
    /\ steering = "foreign"
    /\ steering' = "none"
    /\ UNCHANGED <<place, cancel, locals, autoContinue, delivery, strays,
                   adapterUp, inflight, told, conceded>>

-----------------------------------------------------------------------------
(* The adapter. *)

\* session_update reaches the client the session is bound to; without one it
\* is dropped.  The text goes to the answer, whoever wrote it; what belongs
\* there is not kept track of, nor what a turn of the adapter's own says.
Chunk(p) ==
    /\ p \in inflight
    /\ InTurn /\ p[1] \notin {0, turn}
    /\ strays' = strays \cup {p[1]}
    /\ UNCHANGED <<place, cancel, locals, autoContinue, delivery, adapter>>

\* The answer belongs to the request the loop waits for.
Awaited(p) == p = Current /\ phase \in {"prompting", "acking"} /\ reply = "none"

\* The adapter answers session/prompt; it may say `cancelled` of its own accord.
\* Bound: the last prompt of a turn is not refused for a limit.
Answers(p) ==
    /\ p \in inflight
    /\ inflight' = inflight \ {p} /\ told' = told \ {p}
    /\ IF Awaited(p)
       THEN /\ reply' \in {"end_turn", "refusal", "error", "cancelled"}
                          \cup (IF sends < MaxSends[turn] THEN {"limit", "limitUnknown"} ELSE {})
            /\ IF reply' = "limit" THEN need' \in Resets ELSE need' = need
            /\ conceded' = (reply' = "cancelled")
       ELSE UNCHANGED <<reply, need, conceded>>
    /\ UNCHANGED <<place, cancel, sends, clock, stale, autoContinue, delivery, strays,
                   adapterUp, steering>>

\* The correction arrives: added to a prompt in flight, refused without one,
\* or against its instruction the start of a turn.
SteerArrives ==
    /\ steering = "sent"
    /\ \/ steering' = "none" /\ UNCHANGED inflight
       \/ inflight = {} /\ steering' = "foreign" /\ inflight' = {Foreign}
    /\ UNCHANGED <<place, cancel, locals, autoContinue, delivery, strays,
                   adapterUp, told, conceded>>

AdapterDies ==
    /\ adapterUp
    /\ adapterUp' = FALSE /\ inflight' = {} /\ told' = {} /\ steering' = "none"
    /\ reply' = IF phase \in {"prompting", "acking"} /\ reply = "none"
                THEN "broken" ELSE reply
    /\ UNCHANGED <<place, cancel, sends, need, clock, stale, autoContinue, delivery, strays, conceded>>

-----------------------------------------------------------------------------
Loop ==
    \/ MarkRunning \/ FinishSetup \/ SendPrompt \/ Frame \/ Collect \/ DispatchCancel
    \/ AbandonPrompt \/ DropHold \/ WakeUp \/ Resume
Others == CancelTurn \/ StopDaemon \/ DenySwitch \/ Steer \/ CancelForeign \/ SteerTimesOut
Adapter ==
    \/ SteerArrives \/ AdapterDies
    \/ \E p \in Prompt : Chunk(p) \/ Answers(p)

Next == OpenTurn \/ SetupFails \/ Loop \/ Tick \/ Others \/ Adapter

Spec == Init /\ [][Next]_vars
\* The event loop runs what is ready, time passes, and the setup is answered
\* (a dead adapter fails it).  Nothing is assumed of what the adapter does with
\* prompts, nor of clients.
FairSpec ==
    /\ Spec
    /\ WF_vars(Loop) /\ WF_vars(Tick) /\ WF_vars(SetupFails /\ ~adapterUp)

-----------------------------------------------------------------------------
(* Properties. *)

\* Text of an earlier turn's prompt reaches the answer of a turn only if that
\* prompt was given up: not acknowledged in time, or its task canceled
\* (_await_prompt, _MultiplexClient.bind).
AnswerOfOwnTurn ==
    \A t \in strays :
        outcome[t].how \in {"abandoned", "killed"}

\* However a turn ends, no prompt of its goes on in the adapter that was not
\* told to stop, but for a continuation whose task is canceled between the
\* creation of its prompt and the frame (_cancel); and the prompts of a turn
\* never overlap: one is resent only when the one before was answered
\* (run_prompt_with_limits).
NothingLeftRunning ==
    /\ \A p \in inflight \ told :
        \/ p = Foreign
        \/ p[1] = turn /\ InTurn
        \/ outcome[p[1]].how = "killed"
    /\ Cardinality({p \in inflight : p[1] = turn}) <= 1

\* While a session reads `waiting` the adapter works on nothing of the turn,
\* and the limit record says that the turn goes on by itself; once the turn
\* ended it no longer says so (transition, _close_limit).
WaitingIsQuiet ==
    /\ status = "waiting" => /\ autoContinue
                             /\ \A p \in inflight : p[1] # turn
    /\ phase = "idle" => ~autoContinue

\* The time a turn waits for limits stays within limit_wait_max, give or take
\* the cushion of its last wait, as long as no reset reported had passed.
WaitWithinCap == ~stale => waited <= LimitWaitMax + ResumeDelay

\* A turn that ended in good order with its last prompt seen leaving has its
\* delivery on record, or the record is marked incomplete (PromptDelivery).
DeliveryRecorded ==
    (phase = "idle" /\ marker # "unseen")
        => recorded \/ incomplete \/ outcome[turn].how = "killed"

\* A turn is recorded as canceled only if its stop was asked for, or the adapter
\* answered its last prompt with `cancelled`: because a correction's cancellation
\* hit it (_apply_steering), or of its own accord.  And what the adapter canceled
\* unasked is recorded so, "whichever side canceled it" (SPEC.md:509), whatever
\* prompts given up in earlier turns are answered meanwhile.
CanceledOnRequest ==
    phase = "idle" /\ turn > 0 =>
        /\ outcome[turn].state = "canceled" => Requested \/ conceded
        /\ conceded /\ ~Requested => outcome[turn].state = "canceled" /\ reason = "canceled"

\* The first stop of a turn names its outcome whatever stops come later and
\* whatever the adapter answers (_CancelSignal.request); only a continuation
\* that sent nothing is canceled whoever stopped it.
FirstStopNamesOutcome ==
    [][(Requested /\ phase # "idle" /\ phase' = "idle") =>
          \/ outcome'[turn].state = cancel.state
          \/ reason' = "preparation"]_vars

\* Seen by the readers of the session, its turns follow the ledger: holds for
\* a limit, then one outcome each, for good.
Ledger == INSTANCE TurnLedger WITH record <- [t \in Turn |-> outcome[t].state]
Implements == Ledger!LedgerSpec

\* A turn ends, whatever the adapter does with its prompts: its deadline and the bounded wait
\* for the acknowledgement see to it.
TurnEnds == phase # "idle" ~> phase = "idle"

-----------------------------------------------------------------------------
(* What the documents say and the code does not do. *)

\* SPEC.md, `run`: "`--cancel-after` bounds the work itself."
WorkBounded == worked <= CancelAfter

=============================================================================
