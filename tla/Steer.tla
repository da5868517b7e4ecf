-------------------------------- MODULE Steer --------------------------------
(***************************************************************************)
(* `steer`: a correction for the turn that runs, delivered in place through *)
(* the daemon and the adapter's steering extension, or by cancelling the    *)
(* turn and starting the next one with it (cli.py, daemon.py).  Every turn  *)
(* of the session may end, and other calls may open a newer one, between    *)
(* any two of its steps; what it reports at the end is `message_state`.     *)
(***************************************************************************)
EXTENDS Naturals, FiniteSets

CONSTANTS
    Corrections,    \* steer calls, each with one instruction
    LastTurn        \* bound on the turns of the session

ASSUME SteerAssumption == LastTurn \in Nat \ {0}

VARIABLES
    current,    \* the session: its turn, state, and who opened the turn
    serving,    \* the daemon that holds the session is up
    reached,    \* instructions that each turn was given; 0: a turn of the
                \* adapter's own
    call,       \* each steer
    overtaken   \* history: corrections in place that were on their way when a
                \* newer turn was opened

stvars == <<current, serving, reached, call, overtaken>>

NoCall == [pc |-> "idle", mode |-> "", target |-> 0, adapter |-> "none", reply |-> "none",
           said |-> "", hurried |-> FALSE]
InFlight == current.state = "running"
Ongoing == current.state # "finished"
\* Corrections in place that the adapter has not answered.
OnTheirWay == {c \in Corrections : call[c].mode = "in-place" /\ call[c].adapter # "answered"}
\* A failure or a result: the message_state the caller is told.
Says(c, message) == call' = [call EXCEPT ![c].pc = "over", ![c].said = message]

----------------------------------------------------------------------------
\* _load_steerable_session, _select_steer_mode: a session with nothing to
\* interrupt is refused, and so is an in-place correction of one that waits for
\* a limit or has not prompted yet; nothing was sent.
LoadTarget(c) ==
    /\ call[c].pc = "idle"
    /\ \E mode \in {"in-place", "cancel-then-start"} :
        IF Ongoing /\ (mode = "in-place" => InFlight)
        THEN call' = [call EXCEPT ![c].pc = IF mode = "in-place" THEN "correcting" ELSE "canceling",
                                  ![c].mode = mode, ![c].target = current.turn]
        ELSE Says(c, "not_delivered")
    /\ UNCHANGED <<current, serving, reached, overtaken>>

\* _steer_with_daemon: the request names the session, not its turn.
SendCorrection(c) ==
    /\ call[c].pc = "correcting"
    /\ IF serving THEN call' = [call EXCEPT ![c].pc = "sent"] ELSE Says(c, "not_delivered")
    /\ UNCHANGED <<current, serving, reached, overtaken>>
\* Daemon._steer: no turn in flight, no extension, or the adapter is asked, also
\* while the turn holds for a limit.
Steered(c) ==
    /\ serving /\ call[c].pc \in {"sent", "over"} /\ call[c].mode = "in-place"
    /\ call[c].reply = "none" /\ call[c].adapter = "none"
    /\ call' = IF current.state \in {"running", "waiting"}
               THEN [call EXCEPT ![c].adapter = "asked"]
               ELSE [call EXCEPT ![c].reply = "conflict"]
    /\ UNCHANGED <<current, serving, reached, overtaken>>
\* The adapter gives it to the prompt it is at, says that there is none, starts
\* a turn of its own nevertheless, or denies the extension; it may do so after
\* STEER_REQUEST_TIMEOUT, and nobody compares the turn it was selected for.
AdapterCorrects(c) ==
    /\ serving /\ call[c].adapter = "asked"
    /\ \E outcome \in {"injected", "promptRequired", "startedNewTurn", "denied"} :
        /\ (outcome = "injected") => InFlight
        /\ reached' = CASE outcome = "injected" -> [reached EXCEPT ![current.turn] = @ \cup {c}]
                        [] outcome = "startedNewTurn" -> [reached EXCEPT ![0] = @ \cup {c}]
                        [] OTHER -> reached
        /\ call' = [call EXCEPT ![c].adapter = "answered",
                                ![c].reply = IF @ = "none" THEN outcome ELSE @]
    /\ UNCHANGED <<current, serving, overtaken>>
SteeringTimesOut(c) ==
    /\ call[c].adapter = "asked" /\ call[c].reply = "none"
    /\ call' = [call EXCEPT ![c].reply = "unanswered"]
    /\ UNCHANGED <<current, serving, reached, overtaken>>
\* _in_place_delivery, and the client's own deadline.
DeliveryHopeful(reply) ==                       \* mutant: no answer, no delivery
    CASE reply = "injected" -> "accepted"
      [] reply \in {"conflict", "promptRequired", "denied", "none", "unanswered"} -> "not_delivered"
      [] OTHER -> "unknown"
Delivery(reply) ==
    CASE reply = "injected" -> "accepted"
      [] reply \in {"conflict", "promptRequired", "denied"} -> "not_delivered"
      [] OTHER -> "unknown"
ReadReply(c) ==
    /\ call[c].pc = "sent" /\ call[c].reply # "none"
    /\ Says(c, Delivery(call[c].reply))
    /\ UNCHANGED <<current, serving, reached, overtaken>>
StopListening(c) ==
    /\ call[c].pc = "sent" /\ call[c].reply = "none"
    /\ Says(c, Delivery("none"))
    /\ UNCHANGED <<current, serving, reached, overtaken>>

----------------------------------------------------------------------------
\* _cancel_session with the target's number: canceled, finished on its own, or
\* found finished; a newer turn is `stale`; the deadline may pass first.  With
\* no daemon there the process of whatever turn runs by then is canceled.
CancelTarget(c) ==
    /\ call[c].pc = "canceling"
    /\ \/ /\ Ongoing /\ (serving => current.turn = call[c].target)
          /\ current' = [current EXCEPT !.state = "finished"]
          /\ call' = [call EXCEPT ![c].pc = "redirecting"]
       \/ /\ ~Ongoing
          /\ call' = [call EXCEPT ![c].pc = "redirecting"]
          /\ UNCHANGED current
       \/ /\ Ongoing
          /\ Says(c, "not_delivered")
          /\ UNCHANGED current
    /\ UNCHANGED <<serving, reached, overtaken>>
\* _dispatch_follow_up: a session that another call continued is a conflict.
Redirect(c) ==
    /\ call[c].pc = "redirecting"
    /\ IF Ongoing THEN Says(c, "not_delivered")
       ELSE call' = [call EXCEPT ![c].pc = "dispatched", ![c].adapter = "claiming"]
    /\ UNCHANGED <<current, serving, reached, overtaken>>
\* The daemon or the direct path opens the turn, whether or not the caller is
\* still there, or finds that it can not.
Opens(c) ==
    /\ call[c].adapter = "claiming" /\ current.turn < LastTurn
    /\ ~Ongoing
    /\ current' = [turn |-> current.turn + 1, state |-> "preparing", by |-> {c}]
    /\ call' = [call EXCEPT ![c].adapter = "opened"]
    /\ overtaken' = overtaken \cup OnTheirWay
    /\ UNCHANGED <<serving, reached>>
RefusesClaim(c) ==
    /\ call[c].adapter = "claiming"
    /\ call' = [call EXCEPT ![c].adapter = "refused",
                            ![c].reply = IF Ongoing THEN "conflict" ELSE "unavailable"]
    /\ UNCHANGED <<current, serving, reached, overtaken>>
\* A preparation that fails is rolled back, or ends as the turn it opened.
PreparationFails(c) ==
    /\ call[c].adapter = "opened" /\ current.state = "preparing" /\ current.by = {c}
    /\ \/ current' = [current EXCEPT !.turn = @ - 1, !.state = "finished", !.by = {}]
       \/ current' = [current EXCEPT !.state = "finished"]
    /\ call' = [call EXCEPT ![c].adapter = "refused", ![c].reply = "unavailable"]
    /\ UNCHANGED <<serving, reached, overtaken>>
\* _redirect_failure reads whether the session has moved on.
Redirected(c, kind) == IF current.turn # call[c].target /\ kind # "conflict" THEN "accepted" ELSE "not_delivered"
TellRedirect(c) ==
    /\ call[c].pc = "dispatched"
    /\ \/ /\ call[c].adapter = "refused"
          /\ call' = [call EXCEPT ![c].pc = "over", ![c].said = Redirected(c, call[c].reply)]
       \/ /\ call[c].adapter = "opened" /\ ~Ongoing
          /\ Says(c, "accepted")
       \/ /\ call[c].adapter \in {"claiming", "opened"}       \* --timeout
          /\ call' = [call EXCEPT ![c].pc = "over", ![c].said = Redirected(c, "timeout"),
                                  ![c].hurried = call[c].adapter = "claiming"]
    /\ UNCHANGED <<current, serving, reached, overtaken>>

----------------------------------------------------------------------------
\* The turn itself, and the turns of other calls.
OtherTurnBegins ==
    /\ ~Ongoing /\ current.turn < LastTurn
    /\ current' = [turn |-> current.turn + 1, state |-> "preparing", by |-> {}]
    /\ overtaken' = overtaken \cup OnTheirWay
    /\ UNCHANGED <<serving, reached, call>>
PromptGoesOut ==
    /\ current.state \in {"preparing", "waiting"}
    /\ current' = [current EXCEPT !.state = "running"]
    /\ reached' = [reached EXCEPT ![current.turn] = @ \cup current.by]
    /\ UNCHANGED <<serving, call, overtaken>>
LimitHolds ==
    /\ InFlight /\ current' = [current EXCEPT !.state = "waiting"]
    /\ UNCHANGED <<serving, reached, call, overtaken>>
TurnEnds4 ==
    /\ current.state \in {"running", "waiting"}
    /\ current' = [current EXCEPT !.state = "finished"]
    /\ UNCHANGED <<serving, reached, call, overtaken>>
\* The daemon is gone with everything it held; a reader finds the turn unknown.
DaemonGone ==
    /\ serving /\ serving' = FALSE
    /\ current' = [current EXCEPT !.state = "finished"]
    /\ UNCHANGED <<reached, call, overtaken>>

----------------------------------------------------------------------------
SteerInit ==
    /\ current = [turn |-> 1, state |-> "running", by |-> {}]
    /\ serving = TRUE
    /\ reached = [t \in 0..LastTurn |-> {}]
    /\ call = [c \in Corrections |-> NoCall]
    /\ overtaken = {}
SteerNext ==
    \/ \E c \in Corrections :
        \/ LoadTarget(c) \/ SendCorrection(c) \/ Steered(c) \/ AdapterCorrects(c)
        \/ SteeringTimesOut(c) \/ ReadReply(c) \/ StopListening(c) \/ CancelTarget(c)
        \/ Redirect(c) \/ Opens(c) \/ RefusesClaim(c) \/ PreparationFails(c) \/ TellRedirect(c)
    \/ OtherTurnBegins \/ PromptGoesOut \/ LimitHolds \/ TurnEnds4 \/ DaemonGone
SteerSpec == SteerInit /\ [][SteerNext]_stvars

----------------------------------------------------------------------------
\* "`accepted` when the adapter acknowledged the instruction ... `not_delivered`
\* when the instruction is known not to have reached the selected turn": what a
\* correction reports is so, whatever ended, was opened by others, answered late
\* or was lost meanwhile, and no instruction is given twice.  A redirect that
\* failed only compares turn numbers, and is wrong about a turn that is opened
\* after the caller's own deadline, and about one that was given the number of
\* the turn it selected, which had been rolled back.  And a correction in place
\* reaches the turn it was selected for and reports, but for one that a newer
\* turn overtook on its way: that one the code gives to the newer turn, and
\* reports as accepted by the selected one, against "an instruction never
\* silently becomes input to a later turn" (SPEC.md:291).
MessageStateTrue ==
    \A c \in Corrections :
        LET turns == {t \in 0..LastTurn : c \in reached[t]} IN
        /\ Cardinality(turns) <= 1
        /\ call[c].said = "not_delivered" /\ ~call[c].hurried =>
              turns \subseteq (IF call[c].mode = "in-place" THEN {} ELSE {call[c].target})
        /\ call[c].said = "accepted" /\ call[c].mode = "in-place" =>
              IF c \in overtaken
              THEN turns # {} /\ turns \subseteq (call[c].target + 1)..LastTurn
              ELSE turns = {call[c].target}
=============================================================================
