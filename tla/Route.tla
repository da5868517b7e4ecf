-------------------------------- MODULE Route --------------------------------
(***************************************************************************)
(* One foreground call (`run`, `continue`): which process drives its turn, *)
(* what SIGINT, SIGTERM and --timeout do at each point of it, and what the *)
(* client leaves behind when it returns (runner.py, direct_worker.py).     *)
(***************************************************************************)
EXTENDS Naturals

VARIABLES
    request,    \* the call: kind, needs a terminal, has a --timeout
    client,     \* how far it is, what it answers, and two things to tell it by:
                \* it left early, before anybody had accepted the turn, or it
                \* lost the connection to the daemon
    signal1,    \* _CancelSignal: first signal, route, the state it means
    start,      \* the `start` request, or the direct worker: where it is
    session1    \* the session: state, and who drives it

rtvars == <<request, client, signal1, start, session1>>

Calls1 == [kind : {"run", "continue"}, terminal : BOOLEAN, timeout : BOOLEAN]
\* A `run` has created its session already; a `continue` finds one that is
\* finished, and opens its turn only when somebody claims it.
Untouched == [state |-> "finished", driver |-> "nobody", opened |-> FALSE, ending |-> "earlier"]
Created == [state |-> "active", driver |-> "nobody", opened |-> TRUE, ending |-> "none"]
Driven(who) == [state |-> "active", driver |-> who, opened |-> TRUE, ending |-> "none"]
Ended(how) == [state |-> "finished", driver |-> "nobody", opened |-> TRUE, ending |-> how]
\* _finalize by a client without a token: of no effect on a finished session.
FinalizedBy(how) == IF session1.state = "active" THEN Ended(how) ELSE session1

Answers1(pc, outcome) == client' = [client EXCEPT !.pc = pc, !.outcome = outcome]
Returns(outcome) == client' = [client EXCEPT !.pc = "returned", !.outcome = outcome]
Stopped == signal1.requested

----------------------------------------------------------------------------
\* request_signal: the first signal counts; what SIGTERM means waits for the
\* route.
MeaningAtOnce(first, route) == IF first = "INT" THEN "canceled" ELSE "terminated"   \* mutant
Meaning(first, route) ==
    CASE first = "INT" -> "canceled"
      [] first = "TERM" /\ route # "unknown" ->
            IF route = "daemon" THEN "detached" ELSE "terminated"
      [] OTHER -> "none"
ReceiveSignal ==
    /\ client.pc \notin {"idle", "returned", "killed"} /\ signal1.first = "none"
    /\ \E first \in {"INT", "TERM"} :
        signal1' = [signal1 EXCEPT !.first = first, !.requested = TRUE,
                                   !.means = Meaning(first, signal1.route)]
    /\ UNCHANGED <<request, client, start, session1>>
Resolved(route) ==
    [signal1 EXCEPT !.route = route,
                    !.means = IF @ = "none" THEN Meaning(signal1.first, route) ELSE @]

\* _execute_routed: handlers first, then the route.
BeginCall ==
    /\ client.pc = "idle"
    /\ \E r \in Calls1 :
        /\ request' = r
        /\ session1' = IF r.kind = "run" THEN Created ELSE Untouched
    /\ Answers1("routing", "none")
    /\ UNCHANGED <<signal1, start>>
\* A signal before there is a route ends the turn here, or, when the session is
\* held by someone else, the call.
CancelBeforeRoute ==
    /\ client.pc = "routing" /\ Stopped
    /\ signal1' = Resolved("direct")
    /\ \/ session1' = Ended(signal1'.means) /\ Returns(signal1'.means)
       \/ request.kind = "continue" /\ Returns("error") /\ UNCHANGED session1
    /\ UNCHANGED <<request, start>>
\* routes_direct and ensure_daemon; the signal may have come just then.
RouteFound ==
    /\ client.pc = "routing"
    /\ \E daemon \in (IF request.terminal THEN {FALSE} ELSE BOOLEAN) :
        /\ signal1' = Resolved(IF daemon THEN "daemon" ELSE "direct")
        /\ Answers1(IF daemon THEN "starting"
                    ELSE IF request.timeout THEN "watching" ELSE "direct", "none")
        /\ start' = IF daemon \/ request.timeout THEN "sent" ELSE "none"
    /\ UNCHANGED <<request, session1>>

----------------------------------------------------------------------------
\* The daemon, or the direct worker, takes the turn or refuses it: a session
\* that was created for it and is finished by now cannot be marked running.
Accepted ==
    /\ start = "sent"
    /\ session1.state = "active" \/ request.kind = "continue"
    /\ start' = "accepted"
    /\ session1' = Driven(IF signal1.route = "daemon" THEN "daemon" ELSE "worker")
    /\ UNCHANGED <<request, client, signal1>>
\* The worker finalizes its own refusal; a daemon's is the client's to record.
Refused1 ==
    /\ start = "sent"
    /\ start' = "refused"
    /\ session1' = IF signal1.route = "direct" /\ request.kind = "run"
                   THEN FinalizedBy("failed") ELSE session1
    /\ UNCHANGED <<request, client, signal1>>
\* The driver ends the turn: on its own, or because it was asked to.
DriverEnds ==
    /\ session1.state = "active" /\ session1.driver \in {"daemon", "worker"}
    /\ \E how \in {"succeeded", "failed"} \cup (IF start = "canceled" THEN {"canceled"} ELSE {}) :
        session1' = Ended(how)
    /\ start' = "over"
    /\ UNCHANGED <<request, client, signal1>>

\* _execute_via_daemon while it starts: the reply ...
StartReplied ==
    /\ client.pc = "starting" /\ start \in {"accepted", "refused", "over"}
    /\ IF start = "refused"
       THEN session1' = FinalizedBy("failed") /\ Returns("error")
       ELSE Answers1("awaiting", "none") /\ UNCHANGED session1
    /\ UNCHANGED <<request, signal1, start>>
\* ... the signal: SIGTERM waits for the daemon to have the turn and lets it
\* go, SIGINT cancels it there; a request that had not gone out yet never does.
DetachStarting ==
    /\ client.pc = "starting" /\ Stopped /\ signal1.means = "detached"
    /\ \/ start # "sent" /\ UNCHANGED start
       \/ start = "sent" /\ start' \in {"sent", "unsent"}           \* the 10 s are over
    /\ client' = [client EXCEPT !.pc = "returned", !.outcome = "detached",
                                !.early = start' \in {"sent", "unsent", "refused"}]
    /\ UNCHANGED <<request, signal1, session1>>
CancelStarting ==
    /\ client.pc = "starting" /\ Stopped /\ signal1.means # "detached"
    /\ start' \in (CASE start = "accepted" -> {"canceled"} [] start = "sent" -> {"sent", "unsent"}
                     [] OTHER -> {start})
    /\ client' = [client EXCEPT !.pc = "returned", !.outcome = "canceled",
                                !.early = start' \in {"sent", "unsent", "refused"}]
    /\ UNCHANGED <<request, signal1, session1>>
\* ... and --timeout, which leaves the request to itself.
StartTimesOut ==
    /\ client.pc = "starting" /\ request.timeout /\ ~Stopped
    /\ client' = [client EXCEPT !.pc = "returned", !.outcome = "timeout",
                                !.early = start \in {"sent", "refused"}]
    /\ UNCHANGED <<request, signal1, start, session1>>

\* And while it waits for the outcome.  The reply carries the ending, ...
OutcomeArrives ==
    /\ client.pc \in {"awaiting", "canceling"} /\ session1.state = "finished"
    /\ Returns(session1.ending)
    /\ UNCHANGED <<request, signal1, start, session1>>
\* ... or an error, which execute_turn records as a failure of the turn in case
\* the daemon did not.
ErrorReplied ==
    /\ client.pc \in {"awaiting", "canceling"}
    /\ session1' = FinalizedBy("failed") /\ start' = "over"
    /\ Returns("error")
    /\ UNCHANGED <<request, signal1>>
\* The connection breaks, as when the daemon dies: whatever became of the turn,
\* execute_turn finalizes it as failed, to no effect if it is finished, and
\* answers failed.  A request that was under way may still arrive.
ConnectionLost ==
    /\ client.pc \in {"starting", "awaiting", "canceling"}
    /\ session1' = FinalizedBy("failed")
    /\ start' \in CASE start \in {"accepted", "canceled"} -> {"over"}
                    [] start = "sent" -> {"sent", "unsent"}
                    [] OTHER -> {start}
    /\ client' = [client EXCEPT !.pc = "returned", !.outcome = "failed", !.lost = TRUE,
                                !.early = start' \in {"sent", "unsent", "refused"}]
    /\ UNCHANGED <<request, signal1>>
StopWaiting ==
    /\ client.pc = "awaiting"
    /\ \/ /\ Stopped /\ signal1.means = "detached"
          /\ Returns("detached") /\ UNCHANGED start
       \/ /\ Stopped /\ signal1.means # "detached"
          /\ Answers1("canceling", "none")
          /\ start' = IF start = "accepted" THEN "canceled" ELSE start
       \/ /\ request.timeout /\ ~Stopped
          /\ Returns("timeout") /\ UNCHANGED start
    /\ UNCHANGED <<request, signal1, session1>>

----------------------------------------------------------------------------
\* The direct path: the reservation of a continue may be refused; the turn is
\* this process's, which cancels and finalizes it.
TakeDirect ==
    /\ client.pc = "direct" /\ session1.driver = "nobody"
    /\ \/ session1' = Driven("client") /\ UNCHANGED client
       \/ request.kind = "continue" /\ Returns("error") /\ UNCHANGED session1
    /\ UNCHANGED <<request, signal1, start>>
EndDirect ==
    /\ client.pc = "direct" /\ session1.driver = "client"
    /\ \E how \in {"succeeded", "failed"} \cup (IF Stopped THEN {signal1.means} ELSE {}) :
        session1' = Ended(how) /\ Returns(how)
    /\ UNCHANGED <<request, signal1, start>>
\* With --timeout a detached worker drives it and the client only looks; it
\* does not look at signals.
SeeFinished ==
    /\ client.pc = "watching" /\ session1.opened /\ session1.state = "finished"
    /\ Returns(session1.ending)
    /\ UNCHANGED <<request, signal1, start, session1>>
WatchTimesOut ==
    /\ client.pc = "watching"
    /\ client' = [client EXCEPT !.pc = "returned", !.outcome = "timeout",
                                !.early = start \in {"sent", "refused"}]
    /\ UNCHANGED <<request, signal1, start, session1>>
\* Killed, it takes a turn of its own with it; a reader finds that unknown.
ClientKilled ==
    /\ client.pc \notin {"idle", "returned", "killed"}
    /\ Answers1("killed", "none")
    /\ UNCHANGED <<request, signal1, start, session1>>

----------------------------------------------------------------------------
RouteInit ==
    /\ request = [kind |-> "run", terminal |-> FALSE, timeout |-> FALSE]
    /\ client = [pc |-> "idle", outcome |-> "none", early |-> FALSE, lost |-> FALSE]
    /\ signal1 = [first |-> "none", route |-> "unknown", means |-> "none", requested |-> FALSE]
    /\ start = "none" /\ session1 = Untouched
RouteNext ==
    \/ BeginCall \/ ReceiveSignal \/ CancelBeforeRoute \/ RouteFound \/ Accepted \/ Refused1
    \/ DriverEnds \/ StartReplied \/ DetachStarting \/ CancelStarting \/ StartTimesOut
    \/ OutcomeArrives \/ ErrorReplied \/ ConnectionLost \/ StopWaiting
    \/ TakeDirect \/ EndDirect \/ SeeFinished \/ WatchTimesOut \/ ClientKilled
RouteSpec == RouteInit /\ [][RouteNext]_rtvars

----------------------------------------------------------------------------
\* "A SIGTERM detaches - the client stops watching and the turn carries on": it
\* never ends a turn that a daemon has, whenever it comes.  And a client that
\* returns leaves the session finished, with the ending it answers, or with
\* somebody who drives it, unless it left before anybody had accepted the turn.
\* A client whose connection broke answers failed: it leaves the session finished
\* too, but perhaps with another ending, which the daemon had recorded before.
LeavesNoOrphan ==
    /\ signal1.first = "TERM" /\ signal1.route = "daemon" => start # "canceled"
    /\ client.pc = "returned" /\ ~client.early =>
        /\ session1.state = "active" => session1.driver \in {"daemon", "worker"}
        /\ client.outcome \in {"succeeded", "terminated"} =>
              session1.state = "finished" /\ session1.ending = client.outcome
        /\ client.outcome = "failed" =>
              session1.state = "finished" /\ (client.lost \/ session1.ending = "failed")
=============================================================================
