-------------------------- MODULE PromptLoopProofs --------------------------
(***************************************************************************)
(* PromptLoop for any number of turns and prompts and any timers: its      *)
(* types, the inductive invariant behind its safety properties, and that   *)
(* it implements TurnLedger.                                               *)
(***************************************************************************)
EXTENDS PromptLoop, FiniteSetTheorems, TLAPS

\* What the daemon's task is at, and what it may hold there.
Stage ==
    /\ phase # "idle" => turn > 0
    /\ phase = "idle" => /\ ~autoContinue
                         /\ status \in Ended \cup {"none"}
                         /\ status = "none" <=> turn = 0
    /\ phase \in {"idle", "accept", "setup"} => sends = 0
    /\ phase = "accept" => status = "starting" /\ ~Requested
    /\ phase \in {"setup", "send", "framing", "prompting", "acking"} => status = "running"
    /\ phase \in {"holding", "waking"} => status = "waiting" /\ autoContinue
    /\ InTurn => sends <= MaxSends[turn]
    /\ phase \in {"framing", "prompting", "acking"} => sends > 0
    /\ phase \notin {"prompting", "acking"} => reply = "none"
    /\ phase = "acking" => Requested

\* Every turn that ended has its outcome, no other turn has one.
Outcomes ==
    \A t \in Turn :
        /\ t < turn \/ (t = turn /\ phase = "idle") => outcome[t].state \in Ended
        /\ t = turn /\ phase = "idle" => outcome[t].state = status
        /\ t > turn \/ (t = turn /\ phase # "idle") => outcome[t] = NotEnded

\* A prompt that outlives its turn: told to stop, or its task canceled.
GivenUp(p) ==
    \/ outcome[p[1]].how = "killed"
    \/ outcome[p[1]].how = "abandoned" /\ p \in told

\* What the adapter works on: of the turn at most the prompt waited for.
InFlight ==
    /\ \A p \in inflight :
        /\ p[1] <= turn
        /\ p = Foreign \/ (p[1] = turn /\ phase # "idle") \/ GivenUp(p)
    /\ phase # "idle" => \A p \in inflight : p[1] = turn =>
          /\ p = Current /\ phase \in {"prompting", "acking"} /\ reply = "none"
          /\ marker # "unseen"
          /\ phase = "acking" => p \in told
    /\ \A p, q \in inflight : p[1] = turn /\ q[1] = turn => p = q

Strays == \A t \in strays : t < turn /\ outcome[t].how \in {"abandoned", "killed"}

\* A hold is granted only for what is left of the cap.
Waits ==
    ~stale => /\ waited <= LimitWaitMax + ResumeDelay
              /\ phase = "holding" => waited + delay <= LimitWaitMax + ResumeDelay

\* A failed marker is settled before the loop goes on.
Markers ==
    /\ phase \in {"accept", "setup", "framing"} => marker = "unseen"
    /\ InTurn /\ sends = 0 => marker = "unseen"
    /\ marker = "failed" => phase \in {"prompting", "acking", "idle"}
    /\ marker = "persisted" => recorded
    /\ DeliveryRecorded

\* The adapter canceled a turn that goes on just when its reply says so.
Cancels ==
    /\ phase # "idle" => (conceded <=> reply = "cancelled")
    /\ ~Requested => cancel.reason = "none"
    /\ CanceledOnRequest

\* The inductive invariant.
LoopInv ==
    TypeOK /\ Stage /\ Outcomes /\ InFlight /\ Strays /\ Waits /\ Markers /\ Cancels

\* What every end of a turn does.
Reasons == Reply \cup {"canceled", "cancel_after", "permission_denied", "stopped",
                       "rate_limit", "preparation"}
Ends(state, how) ==
    /\ outcome' = [outcome EXCEPT ![turn] = [state |-> state, how |-> how]]
    /\ reason' \in Reasons
    /\ status' = state /\ phase' = "idle"
    /\ CloseLimit /\ DropLocals
    /\ UNCHANGED turn

\* The first stop keeps its word: what FirstStopNamesOutcome asks of a step.
StopNamesOutcome ==
    Requested /\ phase # "idle" /\ phase' = "idle" =>
        outcome'[turn].state = cancel.state \/ reason' = "preparation"

\* TypeOK in parts, as its proof takes it.
PlaceOK ==
    /\ turn \in 0..MaxTurn /\ phase \in Phase
    /\ status \in Ended \cup {"none", "starting", "running", "waiting"}
    /\ outcome \in [Turn -> Outcome]
    /\ reason \in Reasons
CancelOK ==
    cancel \in [state : {"none", "canceled", "failed"},
                reason : {"none", "cancel_after", "permission_denied", "stopped"}]
LocalsOK ==
    /\ sends \in Nat /\ reply \in Reply /\ need \in Resets \cup {0}
    /\ timer \in Nat /\ delay \in Nat /\ waited \in Nat /\ worked \in Nat
    /\ autoContinue \in BOOLEAN /\ stale \in BOOLEAN
DeliveryOK ==
    /\ marker \in {"unseen", "persisted", "failed", "flagged"}
    /\ recorded \in BOOLEAN /\ incomplete \in BOOLEAN
AdapterOK ==
    /\ strays \subseteq Turn
    /\ adapterUp \in BOOLEAN /\ inflight \subseteq Prompt /\ told \subseteq inflight
    /\ steering \in {"none", "sent", "foreign"} /\ conceded \in BOOLEAN

-----------------------------------------------------------------------------
(* PROOFS                                                                  *)

LEMMA PromptFacts ==
  /\ Foreign \in Prompt
  /\ \A p \in Prompt : p = Foreign \/ p[1] \in Turn
  /\ Foreign[1] = 0 /\ 0 \notin Turn
  /\ Current[1] = turn
<1>1. Foreign \in Prompt
  BY DEF Prompt
<1>2. ASSUME NEW p \in Prompt, p # Foreign PROVE p[1] \in Turn
  <2>1. PICK t \in Turn : p \in {t} \X (1..MaxSends[t])
    BY <1>2 DEF Prompt
  <2> QED
    BY <2>1
<1>3. Foreign[1] = 0 /\ 0 \notin Turn
  BY DEF Foreign, Turn
<1>4. Current[1] = turn
  BY DEF Current
<1> QED
  BY <1>1, <1>2, <1>3, <1>4

LEMMA CurrentFacts ==
  ASSUME turn \in Turn, sends \in Nat, sends > 0, sends <= MaxSends[turn]
  PROVE  Current \in Prompt
<1>1. sends \in 1..MaxSends[turn]
  BY BoundsAssumption DEF Turn
<1>2. Current \in {turn} \X (1..MaxSends[turn])
  BY <1>1 DEF Current
<1> QED
  BY <1>2 DEF Prompt

LEMMA EndsTypes ==
  ASSUME PlaceOK, turn \in Turn, NEW state \in Ended,
         NEW how \in {"settled", "abandoned", "killed"}, Ends(state, how)
  PROVE  PlaceOK' /\ LocalsOK'
<1>1. [state |-> state, how |-> how] \in Outcome
  BY DEF Outcome
<1>2. PlaceOK'
  BY <1>1 DEF Ends, PlaceOK, Phase, Ended
<1>3. LocalsOK'
  BY DEF Ends, LocalsOK, CloseLimit, DropLocals, Reply
<1> QED
  BY <1>2, <1>3

\* What Collect comes to: the turn ends, or holds for a limit.
LEMMA CollectCases ==
  ASSUME TypeOK, Collect
  PROVE  /\ phase \in {"prompting", "acking"} /\ reply # "none"
         /\ Settle /\ UNCHANGED <<cancel, strays, adapter>>
         /\ \/ Hold
            \/ \E state \in Ended :
                  /\ Ends(state, "settled")
                  /\ incomplete' \in BOOLEAN /\ (marker' = "flagged" => incomplete')
                  /\ Requested => state = cancel.state
                  /\ state = "canceled" => Requested \/ reply = "cancelled"
                  /\ reply = "cancelled" /\ cancel = NoCancel =>
                        state = "canceled" /\ reason' = "canceled"
<1>1. /\ phase \in {"prompting", "acking"} /\ reply # "none"
      /\ Settle /\ UNCHANGED <<cancel, strays, adapter>>
  BY DEF Collect, PromptDone, GiveUpOnLimit, Hold
<1>2. CASE Hold
  BY <1>1, <1>2
<1>3. CASE ~Hold
  <2>1. PICK result \in Reply \cup {"rate_limit"} :
          /\ EndLoop(result, "settled")
          /\ result = "cancelled" <=> reply = "cancelled"
          /\ result # "canceled"
    BY <1>3 DEF Collect, GiveUpOnLimit, TypeOK, Reply
  <2> DEFINE state == IF cancel'.state # "none" THEN cancel'.state ELSE StateFor(result)
  <2>2. state \in Ended /\ (Requested => state = cancel.state)
    BY <1>1 DEF TypeOK, StateFor, Ended, Requested
  <2>3. state = "canceled" => Requested \/ reply = "cancelled"
    BY <1>1, <2>1 DEF StateFor, Requested
  <2>4. /\ outcome' = [outcome EXCEPT ![turn] = [state |-> state, how |-> "settled"]]
        /\ reason' = IF cancel'.reason # "none" THEN cancel'.reason ELSE Normalized(result)
        /\ incomplete' = (incomplete \/ marker' = "flagged")
        /\ status' = state /\ phase' = "idle" /\ CloseLimit /\ DropLocals /\ UNCHANGED turn
    BY <2>1 DEF EndLoop, End
  <2>5. reason' \in Reasons
    BY <1>1, <2>4 DEF TypeOK, Normalized, Reasons, Reply
  <2>6. incomplete' \in BOOLEAN /\ (marker' = "flagged" => incomplete')
    BY <2>4
  <2>7. Ends(state, "settled")
    BY <2>4, <2>5 DEF Ends
  <2>8. reply = "cancelled" /\ cancel = NoCancel => state = "canceled" /\ reason' = "canceled"
    BY <1>1, <2>1, <2>4 DEF StateFor, Normalized, NoCancel
  <2> QED
    BY <1>1, <2>2, <2>3, <2>6, <2>7, <2>8
<1> QED
  BY <1>2, <1>3

\* What a cancel comes to: the stop of a turn that has begun to work, the end of
\* one that has not, and in between a prompt task that is on its own.
LEMMA CancelCases ==
  ASSUME TypeOK, CancelTurn
  PROVE  /\ phase # "idle" /\ Request("canceled", "none")
         /\ UNCHANGED <<marker, strays, adapterUp, told, steering, conceded>>
         /\ \/ UNCHANGED <<place, locals, autoContinue, recorded, incomplete, inflight>> /\ InTurn
            \/ \E state \in Ended, how \in {"settled", "killed"} :
                  /\ Ends(state, how) /\ incomplete' \in BOOLEAN
                  /\ Requested => state = cancel.state \/ reason' = "preparation"
                                  \/ phase = "accept"
                  /\ phase = "accept" \/ Preparing
                  /\ \/ how = "settled" /\ phase # "framing" /\ UNCHANGED <<inflight, recorded>>
                     \/ how = "killed" /\ phase = "framing"
                        /\ inflight' \in {inflight, inflight \cup {Current}}
                        /\ recorded' \in BOOLEAN
<1>1. phase # "idle" /\ Request("canceled", "none")
      /\ UNCHANGED <<marker, strays, adapterUp, told, steering, conceded>>
  BY DEF CancelTurn
<1>2. cancel'.state \in Ended /\ (Requested => cancel'.state = cancel.state)
  BY <1>1 DEF Request, Requested, TypeOK, Ended
<1>5. cancel'.reason \in Reasons
  BY <1>1 DEF Request, TypeOK, Reasons, Reply
<1>3. CASE UNCHANGED <<place, locals, autoContinue, recorded, incomplete, inflight>> /\ InTurn
  BY <1>1, <1>3
<1>4. CASE KillOnCancel
  <2>1. CASE phase = "accept" /\ End("canceled", "canceled", "settled", FALSE)
             /\ UNCHANGED <<inflight, recorded>>
    <3>1. Ends("canceled", "settled") /\ incomplete' = (incomplete \/ FALSE)
      BY <2>1 DEF End, Ends, Reasons
    <3> QED
      BY <1>1, <2>1, <3>1 DEF Ended, TypeOK
  <2>2. ASSUME NEW how \in {"settled", "killed"}, EndInterrupted(how) \/ EndKilled(how)
        PROVE  \E state \in Ended :
                  /\ Ends(state, how) /\ incomplete' \in BOOLEAN
                  /\ Requested => state = cancel.state \/ reason' = "preparation"
    <3>1. CASE EndPreparation(how)
      <4>1. Ends("canceled", how) /\ reason' = "preparation"
            /\ incomplete' = (incomplete \/ FALSE)
        BY <3>1 DEF EndPreparation, End, Ends, Reasons
      <4> QED
        BY <4>1 DEF Ended, TypeOK
    <3>2. CASE EndKilled(how)
      <4>1. /\ outcome' = [outcome EXCEPT ![turn] = [state |-> cancel'.state, how |-> how]]
            /\ reason' = IF cancel'.reason # "none" THEN cancel'.reason ELSE "error"
            /\ incomplete' = (incomplete \/ FALSE)
            /\ status' = cancel'.state /\ phase' = "idle"
            /\ CloseLimit /\ DropLocals /\ UNCHANGED turn
        BY <1>2, <3>2 DEF EndKilled, End, Ended
      <4>2. Ends(cancel'.state, how)
        BY <1>5, <4>1 DEF Ends, Reasons, Reply
      <4> QED
        BY <1>2, <4>1, <4>2 DEF TypeOK
    <3> QED
      BY <2>2, <3>1, <3>2 DEF EndInterrupted
  <2>3. CASE InTurn /\ ResumePrepared /\ Preparing /\ phase # "framing"
             /\ EndInterrupted("settled") /\ UNCHANGED <<inflight, recorded>>
    <3>1. PICK state \in Ended :
            /\ Ends(state, "settled") /\ incomplete' \in BOOLEAN
            /\ Requested => state = cancel.state \/ reason' = "preparation"
      BY <2>2, <2>3
    <3> QED
      BY <1>1, <2>3, <3>1
  <2>4. CASE /\ phase = "framing" /\ ResumePrepared /\ Preparing
             /\ EndInterrupted("killed") \/ EndKilled("killed")
             /\ inflight' = IF adapterUp THEN inflight \cup {Current} ELSE inflight
             /\ recorded' \in (IF adapterUp THEN BOOLEAN ELSE {FALSE})
    <3>1. PICK state \in Ended :
            /\ Ends(state, "killed") /\ incomplete' \in BOOLEAN
            /\ Requested => state = cancel.state \/ reason' = "preparation"
      BY <2>2, <2>4
    <3> QED
      BY <1>1, <2>4, <3>1
  <2> QED
    BY <1>4, <2>1, <2>3, <2>4 DEF KillOnCancel
<1> QED
  BY <1>3, <1>4 DEF CancelTurn

LEMMA StageStep ==
  ASSUME TypeOK, Stage, Next PROVE Stage'
<1> USE BoundsAssumption, ResetsAssumption, TimersAssumption DEF TypeOK, InTurn,
      place, clock, locals, delivery, adapter, vars, Turn, Stage, Requested, Ended,
      Phase
<1>1. ASSUME OpenTurn PROVE Stage'
  BY <1>1 DEF OpenTurn, NoCancel, NotEnded
<1>2. ASSUME SetupFails PROVE Stage'
  BY <1>2 DEF SetupFails, EndKilled, End, CloseLimit, DropLocals, NotEnded
<1>3. ASSUME MarkRunning PROVE Stage'
  BY <1>3 DEF MarkRunning
<1>4. ASSUME FinishSetup PROVE Stage'
  BY SMTT(30), <1>4 DEF FinishSetup, EndPreparation, End, CloseLimit, DropLocals, NotEnded
<1>5. ASSUME SendPrompt PROVE Stage'
  BY <1>5 DEF SendPrompt
<1>6. ASSUME Frame PROVE Stage'
  BY <1>6 DEF Frame, Observe
<1>7. ASSUME Collect PROVE Stage'
  <2>1. /\ phase \in {"prompting", "acking"} /\ reply # "none"
        /\ Settle /\ UNCHANGED <<cancel, strays, adapter>>
    BY <1>7, CollectCases
  <2>2. CASE Hold
    BY <2>1, <2>2 DEF Hold, Affordable, Settle
  <2>3. ASSUME NEW state \in Ended, Ends(state, "settled"),
               incomplete' \in BOOLEAN /\ (marker' = "flagged" => incomplete'),
               state = "canceled" => Requested \/ reply = "cancelled"
        PROVE  Stage'
    <3>1. /\ phase' = "idle" /\ status' = state /\ turn' = turn /\ autoContinue' = FALSE
          /\ outcome' = [outcome EXCEPT ![turn] = [state |-> state, how |-> "settled"]]
          /\ sends' = 0 /\ reply' = "none" /\ waited' = 0 /\ stale' = FALSE
      BY <2>3 DEF Ends, CloseLimit, DropLocals
    <3> QED
      BY <2>1, <2>3, <3>1 DEF Settle, NotEnded
  <2> QED
    BY <1>7, <2>2, <2>3, CollectCases
<1>8. ASSUME DispatchCancel PROVE Stage'
  BY <1>8 DEF DispatchCancel, Request, TellAdapter
<1>9. ASSUME AbandonPrompt PROVE Stage'
  BY <1>9 DEF AbandonPrompt, Settle, EndLoop, StateFor, Normalized, End, CloseLimit,
    DropLocals, NotEnded
<1>10. ASSUME DropHold PROVE Stage'
  BY <1>10 DEF DropHold, EndLoop, StateFor, Normalized, End, CloseLimit, DropLocals,
    NotEnded
<1>11. ASSUME WakeUp PROVE Stage'
  BY <1>11 DEF WakeUp
<1>12. ASSUME Resume PROVE Stage'
  BY <1>12 DEF Resume
<1>13. ASSUME Tick PROVE Stage'
  BY <1>13 DEF Tick, WaitingOnClock
<1>14. ASSUME CancelTurn PROVE Stage'
  <2>1. /\ phase # "idle" /\ Request("canceled", "none")
        /\ UNCHANGED <<marker, strays, adapterUp, told, steering, conceded>>
    BY <1>14, CancelCases
  <2>2. CASE UNCHANGED <<place, locals, autoContinue, recorded, incomplete, inflight>> /\ InTurn
    BY <2>1, <2>2 DEF Request
  <2>3. ASSUME NEW state \in Ended, NEW how \in {"settled", "killed"},
               Ends(state, how), incomplete' \in BOOLEAN, phase = "accept" \/ Preparing,
               \/ how = "settled" /\ phase # "framing" /\ UNCHANGED <<inflight, recorded>>
               \/ how = "killed" /\ phase = "framing"
                  /\ inflight' \in {inflight, inflight \cup {Current}}
                  /\ recorded' \in BOOLEAN
        PROVE  Stage'
    <3>1. /\ phase' = "idle" /\ status' = state /\ turn' = turn /\ autoContinue' = FALSE
          /\ outcome' = [outcome EXCEPT ![turn] = [state |-> state, how |-> how]]
          /\ sends' = 0 /\ reply' = "none" /\ waited' = 0 /\ stale' = FALSE
      BY <2>3 DEF Ends, CloseLimit, DropLocals
    <3> QED
      BY <2>1, <2>3, <3>1 DEF Preparing, Request, NotEnded
  <2> QED
    <3> HIDE DEF TypeOK, InTurn, place, clock, locals, delivery, adapter, vars, Turn, Stage, Requested, Ended, Phase
    <3> QED
      BY <1>14, <2>2, <2>3, CancelCases
<1>15. ASSUME StopDaemon PROVE Stage'
  BY <1>15 DEF StopDaemon, Request, ResumePrepared, Preparing, EndInterrupted,
    EndPreparation, EndKilled, End, CloseLimit, DropLocals, NotEnded
<1>16. ASSUME DenySwitch PROVE Stage'
  BY <1>16 DEF DenySwitch, Request
<1>17. ASSUME Steer PROVE Stage'
  BY <1>17 DEF Steer
<1>18. ASSUME CancelForeign PROVE Stage'
  BY <1>18 DEF CancelForeign
<1>19. ASSUME SteerTimesOut PROVE Stage'
  BY <1>19 DEF SteerTimesOut
<1>20. ASSUME SteerArrives PROVE Stage'
  BY <1>20 DEF SteerArrives
<1>21. ASSUME AdapterDies PROVE Stage'
  BY <1>21 DEF AdapterDies
<1>22. ASSUME NEW p \in Prompt, Chunk(p) PROVE Stage'
  BY <1>22 DEF Chunk
<1>23. ASSUME NEW p \in Prompt, Answers(p) PROVE Stage'
  BY <1>23 DEF Answers, Awaited
<1> QED
  BY <1>1, <1>2, <1>3, <1>4, <1>5, <1>6, <1>7, <1>8, <1>9, <1>10, <1>11, <1>12, <1>13,
    <1>14, <1>15, <1>16, <1>17, <1>18, <1>19, <1>20, <1>21, <1>22, <1>23 DEF Next,
    Loop, Others, Adapter

LEMMA OutcomesStep ==
  ASSUME TypeOK, Stage, Outcomes, Next PROVE Outcomes'
<1> USE BoundsAssumption, ResetsAssumption, TimersAssumption DEF TypeOK, InTurn,
      place, clock, locals, delivery, adapter, vars, Turn, Stage, Outcomes, Ended,
      Outcome
<1>1. ASSUME OpenTurn PROVE Outcomes'
  BY <1>1 DEF OpenTurn, NoCancel, NotEnded
<1>2. ASSUME SetupFails PROVE Outcomes'
  BY <1>2 DEF SetupFails, EndKilled, End, CloseLimit, DropLocals, NotEnded
<1>3. ASSUME MarkRunning PROVE Outcomes'
  BY <1>3 DEF MarkRunning
<1>4. ASSUME FinishSetup PROVE Outcomes'
  BY <1>4 DEF FinishSetup, EndPreparation, End, CloseLimit, DropLocals, NotEnded
<1>5. ASSUME SendPrompt PROVE Outcomes'
  BY <1>5 DEF SendPrompt
<1>6. ASSUME Frame PROVE Outcomes'
  BY <1>6 DEF Frame, Observe
<1>7. ASSUME Collect PROVE Outcomes'
  <2>1. /\ phase \in {"prompting", "acking"} /\ reply # "none"
        /\ Settle /\ UNCHANGED <<cancel, strays, adapter>>
    BY <1>7, CollectCases
  <2>2. CASE Hold
    BY <2>1, <2>2 DEF Hold, Affordable, Settle
  <2>3. ASSUME NEW state \in Ended, Ends(state, "settled"),
               incomplete' \in BOOLEAN /\ (marker' = "flagged" => incomplete'),
               state = "canceled" => Requested \/ reply = "cancelled"
        PROVE  Outcomes'
    <3>1. /\ phase' = "idle" /\ status' = state /\ turn' = turn /\ autoContinue' = FALSE
          /\ outcome' = [outcome EXCEPT ![turn] = [state |-> state, how |-> "settled"]]
          /\ sends' = 0 /\ reply' = "none" /\ waited' = 0 /\ stale' = FALSE
      BY <2>3 DEF Ends, CloseLimit, DropLocals
    <3> QED
      BY <2>1, <2>3, <3>1 DEF Settle, NotEnded
  <2> QED
    BY <1>7, <2>2, <2>3, CollectCases
<1>8. ASSUME DispatchCancel PROVE Outcomes'
  BY <1>8 DEF DispatchCancel, Request, TellAdapter
<1>9. ASSUME AbandonPrompt PROVE Outcomes'
  BY <1>9 DEF AbandonPrompt, Settle, EndLoop, StateFor, Normalized, End, CloseLimit,
    DropLocals, NotEnded
<1>10. ASSUME DropHold PROVE Outcomes'
  BY <1>10 DEF DropHold, EndLoop, StateFor, Normalized, End, CloseLimit, DropLocals,
    NotEnded
<1>11. ASSUME WakeUp PROVE Outcomes'
  BY <1>11 DEF WakeUp
<1>12. ASSUME Resume PROVE Outcomes'
  BY <1>12 DEF Resume
<1>13. ASSUME Tick PROVE Outcomes'
  BY <1>13 DEF Tick, WaitingOnClock
<1>14. ASSUME CancelTurn PROVE Outcomes'
  <2>1. /\ phase # "idle" /\ Request("canceled", "none")
        /\ UNCHANGED <<marker, strays, adapterUp, told, steering, conceded>>
    BY <1>14, CancelCases
  <2>2. CASE UNCHANGED <<place, locals, autoContinue, recorded, incomplete, inflight>> /\ InTurn
    BY <2>1, <2>2 DEF Request
  <2>3. ASSUME NEW state \in Ended, NEW how \in {"settled", "killed"},
               Ends(state, how), incomplete' \in BOOLEAN, phase = "accept" \/ Preparing,
               \/ how = "settled" /\ phase # "framing" /\ UNCHANGED <<inflight, recorded>>
               \/ how = "killed" /\ phase = "framing"
                  /\ inflight' \in {inflight, inflight \cup {Current}}
                  /\ recorded' \in BOOLEAN
        PROVE  Outcomes'
    <3>1. /\ phase' = "idle" /\ status' = state /\ turn' = turn /\ autoContinue' = FALSE
          /\ outcome' = [outcome EXCEPT ![turn] = [state |-> state, how |-> how]]
          /\ sends' = 0 /\ reply' = "none" /\ waited' = 0 /\ stale' = FALSE
      BY <2>3 DEF Ends, CloseLimit, DropLocals
    <3> QED
      BY <2>1, <2>3, <3>1 DEF Preparing, Request, NotEnded
  <2> QED
    <3> HIDE DEF TypeOK, InTurn, place, clock, locals, delivery, adapter, vars, Turn, Stage, Outcomes, Ended, Outcome
    <3> QED
      BY <1>14, <2>2, <2>3, CancelCases
<1>15. ASSUME StopDaemon PROVE Outcomes'
  BY <1>15 DEF StopDaemon, Request, ResumePrepared, Preparing, EndInterrupted,
    EndPreparation, EndKilled, End, CloseLimit, DropLocals, NotEnded
<1>16. ASSUME DenySwitch PROVE Outcomes'
  BY <1>16 DEF DenySwitch, Request
<1>17. ASSUME Steer PROVE Outcomes'
  BY <1>17 DEF Steer
<1>18. ASSUME CancelForeign PROVE Outcomes'
  BY <1>18 DEF CancelForeign
<1>19. ASSUME SteerTimesOut PROVE Outcomes'
  BY <1>19 DEF SteerTimesOut
<1>20. ASSUME SteerArrives PROVE Outcomes'
  BY <1>20 DEF SteerArrives
<1>21. ASSUME AdapterDies PROVE Outcomes'
  BY <1>21 DEF AdapterDies
<1>22. ASSUME NEW p \in Prompt, Chunk(p) PROVE Outcomes'
  BY <1>22 DEF Chunk
<1>23. ASSUME NEW p \in Prompt, Answers(p) PROVE Outcomes'
  BY <1>23 DEF Answers, Awaited
<1> QED
  BY <1>1, <1>2, <1>3, <1>4, <1>5, <1>6, <1>7, <1>8, <1>9, <1>10, <1>11, <1>12, <1>13,
    <1>14, <1>15, <1>16, <1>17, <1>18, <1>19, <1>20, <1>21, <1>22, <1>23 DEF Next,
    Loop, Others, Adapter

LEMMA WaitsStep ==
  ASSUME TypeOK, Stage, Waits, Next PROVE Waits'
<1> USE BoundsAssumption, ResetsAssumption, TimersAssumption DEF TypeOK, InTurn,
      place, clock, locals, delivery, adapter, vars, Stage, Waits
<1>1. ASSUME OpenTurn PROVE Waits'
  BY <1>1 DEF OpenTurn, NoCancel, NotEnded
<1>2. ASSUME SetupFails PROVE Waits'
  BY <1>2 DEF SetupFails, EndKilled, End, CloseLimit, DropLocals, NotEnded
<1>3. ASSUME MarkRunning PROVE Waits'
  BY <1>3 DEF MarkRunning
<1>4. ASSUME FinishSetup PROVE Waits'
  BY <1>4 DEF FinishSetup, EndPreparation, End, CloseLimit, DropLocals, NotEnded
<1>5. ASSUME SendPrompt PROVE Waits'
  BY <1>5 DEF SendPrompt
<1>6. ASSUME Frame PROVE Waits'
  BY <1>6 DEF Frame, Observe
<1>7. ASSUME Collect PROVE Waits'
  <2>1. /\ phase \in {"prompting", "acking"} /\ reply # "none"
        /\ Settle /\ UNCHANGED <<cancel, strays, adapter>>
    BY <1>7, CollectCases
  <2>2. CASE Hold
    <3>1. need \in Int
      BY ResetsAssumption
    <3>2. CASE need < 0
      BY <2>2, <3>2 DEF Hold
    <3>3. CASE need >= 0
      <4>1. /\ delay' = need + ResumeDelay /\ UNCHANGED waited /\ phase' = "holding"
            /\ need <= LimitWaitMax - waited /\ stale' = (stale \/ need < 0)
        BY <2>2, <3>1, <3>3 DEF Hold, Affordable
      <4>2. waited + delay' <= LimitWaitMax + ResumeDelay
        BY <3>1, <3>3, <4>1
      <4> QED
        BY <3>3, <4>1, <4>2
    <3> QED
      BY <3>1, <3>2, <3>3
  <2>3. ASSUME NEW state \in Ended, Ends(state, "settled"),
               incomplete' \in BOOLEAN /\ (marker' = "flagged" => incomplete'),
               state = "canceled" => Requested \/ reply = "cancelled"
        PROVE  Waits'
    <3>1. /\ phase' = "idle" /\ status' = state /\ turn' = turn /\ autoContinue' = FALSE
          /\ outcome' = [outcome EXCEPT ![turn] = [state |-> state, how |-> "settled"]]
          /\ sends' = 0 /\ reply' = "none" /\ waited' = 0 /\ stale' = FALSE
      BY <2>3 DEF Ends, CloseLimit, DropLocals
    <3> QED
      BY <2>1, <2>3, <3>1 DEF Settle, NotEnded
  <2> QED
    BY <1>7, <2>2, <2>3, CollectCases
<1>8. ASSUME DispatchCancel PROVE Waits'
  BY <1>8 DEF DispatchCancel, Request, TellAdapter
<1>9. ASSUME AbandonPrompt PROVE Waits'
  BY <1>9 DEF AbandonPrompt, Settle, EndLoop, StateFor, Normalized, End, CloseLimit,
    DropLocals, NotEnded
<1>10. ASSUME DropHold PROVE Waits'
  BY <1>10 DEF DropHold, EndLoop, StateFor, Normalized, End, CloseLimit, DropLocals,
    NotEnded
<1>11. ASSUME WakeUp PROVE Waits'
  BY <1>11 DEF WakeUp
<1>12. ASSUME Resume PROVE Waits'
  BY <1>12 DEF Resume
<1>13. ASSUME Tick PROVE Waits'
  BY <1>13 DEF Tick, WaitingOnClock
<1>14. ASSUME CancelTurn PROVE Waits'
  <2>1. /\ phase # "idle" /\ Request("canceled", "none")
        /\ UNCHANGED <<marker, strays, adapterUp, told, steering, conceded>>
    BY <1>14, CancelCases
  <2>2. CASE UNCHANGED <<place, locals, autoContinue, recorded, incomplete, inflight>> /\ InTurn
    BY <2>1, <2>2 DEF Request
  <2>3. ASSUME NEW state \in Ended, NEW how \in {"settled", "killed"},
               Ends(state, how), incomplete' \in BOOLEAN, phase = "accept" \/ Preparing,
               \/ how = "settled" /\ phase # "framing" /\ UNCHANGED <<inflight, recorded>>
               \/ how = "killed" /\ phase = "framing"
                  /\ inflight' \in {inflight, inflight \cup {Current}}
                  /\ recorded' \in BOOLEAN
        PROVE  Waits'
    <3>1. /\ phase' = "idle" /\ status' = state /\ turn' = turn /\ autoContinue' = FALSE
          /\ outcome' = [outcome EXCEPT ![turn] = [state |-> state, how |-> how]]
          /\ sends' = 0 /\ reply' = "none" /\ waited' = 0 /\ stale' = FALSE
      BY <2>3 DEF Ends, CloseLimit, DropLocals
    <3> QED
      BY <2>1, <2>3, <3>1 DEF Preparing, Request, NotEnded
  <2> QED
    <3> HIDE DEF TypeOK, InTurn, place, clock, locals, delivery, adapter, vars, Stage, Waits
    <3> QED
      BY <1>14, <2>2, <2>3, CancelCases
<1>15. ASSUME StopDaemon PROVE Waits'
  BY <1>15 DEF StopDaemon, Request, ResumePrepared, Preparing, EndInterrupted,
    EndPreparation, EndKilled, End, CloseLimit, DropLocals, NotEnded
<1>16. ASSUME DenySwitch PROVE Waits'
  BY <1>16 DEF DenySwitch, Request
<1>17. ASSUME Steer PROVE Waits'
  BY <1>17 DEF Steer
<1>18. ASSUME CancelForeign PROVE Waits'
  BY <1>18 DEF CancelForeign
<1>19. ASSUME SteerTimesOut PROVE Waits'
  BY <1>19 DEF SteerTimesOut
<1>20. ASSUME SteerArrives PROVE Waits'
  BY <1>20 DEF SteerArrives
<1>21. ASSUME AdapterDies PROVE Waits'
  BY <1>21 DEF AdapterDies
<1>22. ASSUME NEW p \in Prompt, Chunk(p) PROVE Waits'
  BY <1>22 DEF Chunk
<1>23. ASSUME NEW p \in Prompt, Answers(p) PROVE Waits'
  BY <1>23 DEF Answers, Awaited
<1> QED
  BY <1>1, <1>2, <1>3, <1>4, <1>5, <1>6, <1>7, <1>8, <1>9, <1>10, <1>11, <1>12, <1>13,
    <1>14, <1>15, <1>16, <1>17, <1>18, <1>19, <1>20, <1>21, <1>22, <1>23 DEF Next,
    Loop, Others, Adapter

LEMMA MarkersStep ==
  ASSUME TypeOK, Stage, Markers, Next PROVE Markers'
<1> USE BoundsAssumption, ResetsAssumption, TimersAssumption DEF TypeOK, InTurn,
      place, clock, locals, delivery, adapter, vars, Turn, Outcome, Stage, Markers,
      DeliveryRecorded
<1>1. ASSUME OpenTurn PROVE Markers'
  BY <1>1 DEF OpenTurn, NoCancel, NotEnded
<1>2. ASSUME SetupFails PROVE Markers'
  BY <1>2 DEF SetupFails, EndKilled, End, CloseLimit, DropLocals, NotEnded
<1>3. ASSUME MarkRunning PROVE Markers'
  BY <1>3 DEF MarkRunning
<1>4. ASSUME FinishSetup PROVE Markers'
  BY <1>4 DEF FinishSetup, EndPreparation, End, CloseLimit, DropLocals, NotEnded
<1>5. ASSUME SendPrompt PROVE Markers'
  BY <1>5 DEF SendPrompt
<1>6. ASSUME Frame PROVE Markers'
  BY <1>6 DEF Frame, Observe
<1>7. ASSUME Collect PROVE Markers'
  <2>1. /\ phase \in {"prompting", "acking"} /\ reply # "none"
        /\ Settle /\ UNCHANGED <<cancel, strays, adapter>>
    BY <1>7, CollectCases
  <2>2. CASE Hold
    BY <2>1, <2>2 DEF Hold, Affordable, Settle
  <2>3. ASSUME NEW state \in Ended, Ends(state, "settled"),
               incomplete' \in BOOLEAN /\ (marker' = "flagged" => incomplete'),
               state = "canceled" => Requested \/ reply = "cancelled"
        PROVE  Markers'
    <3>1. /\ phase' = "idle" /\ status' = state /\ turn' = turn /\ autoContinue' = FALSE
          /\ outcome' = [outcome EXCEPT ![turn] = [state |-> state, how |-> "settled"]]
          /\ sends' = 0 /\ reply' = "none" /\ waited' = 0 /\ stale' = FALSE
      BY <2>3 DEF Ends, CloseLimit, DropLocals
    <3> QED
      BY <2>1, <2>3, <3>1 DEF Settle, NotEnded
  <2> QED
    BY <1>7, <2>2, <2>3, CollectCases
<1>8. ASSUME DispatchCancel PROVE Markers'
  BY <1>8 DEF DispatchCancel, Request, TellAdapter
<1>9. ASSUME AbandonPrompt PROVE Markers'
  BY <1>9 DEF AbandonPrompt, Settle, EndLoop, StateFor, Normalized, End, CloseLimit,
    DropLocals, NotEnded
<1>10. ASSUME DropHold PROVE Markers'
  BY <1>10 DEF DropHold, EndLoop, StateFor, Normalized, End, CloseLimit, DropLocals,
    NotEnded
<1>11. ASSUME WakeUp PROVE Markers'
  BY <1>11 DEF WakeUp
<1>12. ASSUME Resume PROVE Markers'
  BY <1>12 DEF Resume
<1>13. ASSUME Tick PROVE Markers'
  BY <1>13 DEF Tick, WaitingOnClock
<1>14. ASSUME CancelTurn PROVE Markers'
  <2>1. /\ phase # "idle" /\ Request("canceled", "none")
        /\ UNCHANGED <<marker, strays, adapterUp, told, steering, conceded>>
    BY <1>14, CancelCases
  <2>2. CASE UNCHANGED <<place, locals, autoContinue, recorded, incomplete, inflight>> /\ InTurn
    BY <2>1, <2>2 DEF Request
  <2>3. ASSUME NEW state \in Ended, NEW how \in {"settled", "killed"},
               Ends(state, how), incomplete' \in BOOLEAN, phase = "accept" \/ Preparing,
               \/ how = "settled" /\ phase # "framing" /\ UNCHANGED <<inflight, recorded>>
               \/ how = "killed" /\ phase = "framing"
                  /\ inflight' \in {inflight, inflight \cup {Current}}
                  /\ recorded' \in BOOLEAN
        PROVE  Markers'
    <3>1. /\ phase' = "idle" /\ status' = state /\ turn' = turn /\ autoContinue' = FALSE
          /\ outcome' = [outcome EXCEPT ![turn] = [state |-> state, how |-> how]]
          /\ sends' = 0 /\ reply' = "none" /\ waited' = 0 /\ stale' = FALSE
      BY <2>3 DEF Ends, CloseLimit, DropLocals
    <3> QED
      BY <2>1, <2>3, <3>1 DEF Preparing, Request, NotEnded
  <2> QED
    <3> HIDE DEF TypeOK, InTurn, place, clock, locals, delivery, adapter, vars, Turn, Outcome, Stage, Markers, DeliveryRecorded
    <3> QED
      BY <1>14, <2>2, <2>3, CancelCases
<1>15. ASSUME StopDaemon PROVE Markers'
  BY <1>15 DEF StopDaemon, Request, ResumePrepared, Preparing, EndInterrupted,
    EndPreparation, EndKilled, End, CloseLimit, DropLocals, NotEnded
<1>16. ASSUME DenySwitch PROVE Markers'
  BY <1>16 DEF DenySwitch, Request
<1>17. ASSUME Steer PROVE Markers'
  BY <1>17 DEF Steer
<1>18. ASSUME CancelForeign PROVE Markers'
  BY <1>18 DEF CancelForeign
<1>19. ASSUME SteerTimesOut PROVE Markers'
  BY <1>19 DEF SteerTimesOut
<1>20. ASSUME SteerArrives PROVE Markers'
  BY <1>20 DEF SteerArrives
<1>21. ASSUME AdapterDies PROVE Markers'
  BY <1>21 DEF AdapterDies
<1>22. ASSUME NEW p \in Prompt, Chunk(p) PROVE Markers'
  BY <1>22 DEF Chunk
<1>23. ASSUME NEW p \in Prompt, Answers(p) PROVE Markers'
  BY <1>23 DEF Answers, Awaited
<1> QED
  BY <1>1, <1>2, <1>3, <1>4, <1>5, <1>6, <1>7, <1>8, <1>9, <1>10, <1>11, <1>12, <1>13,
    <1>14, <1>15, <1>16, <1>17, <1>18, <1>19, <1>20, <1>21, <1>22, <1>23 DEF Next,
    Loop, Others, Adapter

LEMMA CancelsStep ==
  ASSUME TypeOK, Stage, InFlight, Cancels, Next PROVE Cancels'
<1> USE BoundsAssumption, ResetsAssumption, TimersAssumption DEF TypeOK, InTurn,
      place, clock, locals, delivery, adapter, vars, Turn, Outcome, Stage, InFlight,
      Current, Cancels, CanceledOnRequest, Requested
<1>1. ASSUME OpenTurn PROVE Cancels'
  BY <1>1 DEF OpenTurn, NoCancel, NotEnded
<1>2. ASSUME SetupFails PROVE Cancels'
  BY <1>2 DEF SetupFails, EndKilled, End, CloseLimit, DropLocals, NotEnded
<1>3. ASSUME MarkRunning PROVE Cancels'
  BY <1>3 DEF MarkRunning
<1>4. ASSUME FinishSetup PROVE Cancels'
  BY <1>4 DEF FinishSetup, EndPreparation, End, CloseLimit, DropLocals, NotEnded
<1>5. ASSUME SendPrompt PROVE Cancels'
  BY <1>5 DEF SendPrompt
<1>6. ASSUME Frame PROVE Cancels'
  BY <1>6 DEF Frame, Observe
<1>7. ASSUME Collect PROVE Cancels'
  <2>1. /\ phase \in {"prompting", "acking"} /\ reply # "none"
        /\ Settle /\ UNCHANGED <<cancel, strays, adapter>>
    BY <1>7, CollectCases
  <2>2. CASE Hold
    BY <2>1, <2>2 DEF Hold, Affordable, Settle
  <2>3. ASSUME NEW state \in Ended, Ends(state, "settled"),
               incomplete' \in BOOLEAN /\ (marker' = "flagged" => incomplete'),
               state = "canceled" => Requested \/ reply = "cancelled",
               reply = "cancelled" /\ cancel = NoCancel =>
                    state = "canceled" /\ reason' = "canceled"
        PROVE  Cancels'
    <3>1. /\ phase' = "idle" /\ status' = state /\ turn' = turn /\ autoContinue' = FALSE
          /\ outcome' = [outcome EXCEPT ![turn] = [state |-> state, how |-> "settled"]]
          /\ sends' = 0 /\ reply' = "none" /\ waited' = 0 /\ stale' = FALSE
      BY <2>3 DEF Ends, CloseLimit, DropLocals
    <3>2. ~Requested => cancel = NoCancel
      BY DEF NoCancel
    <3> QED
      BY <2>1, <2>3, <3>1, <3>2 DEF Settle, NotEnded
  <2> QED
    BY <1>7, <2>2, <2>3, CollectCases
<1>8. ASSUME DispatchCancel PROVE Cancels'
  BY <1>8 DEF DispatchCancel, Request, TellAdapter
<1>9. ASSUME AbandonPrompt PROVE Cancels'
  BY <1>9 DEF AbandonPrompt, Settle, EndLoop, StateFor, Normalized, End, CloseLimit,
    DropLocals, NotEnded
<1>10. ASSUME DropHold PROVE Cancels'
  BY <1>10 DEF DropHold, EndLoop, StateFor, Normalized, End, CloseLimit, DropLocals,
    NotEnded
<1>11. ASSUME WakeUp PROVE Cancels'
  BY <1>11 DEF WakeUp
<1>12. ASSUME Resume PROVE Cancels'
  BY <1>12 DEF Resume
<1>13. ASSUME Tick PROVE Cancels'
  BY <1>13 DEF Tick, WaitingOnClock
<1>14. ASSUME CancelTurn PROVE Cancels'
  <2>1. /\ phase # "idle" /\ Request("canceled", "none")
        /\ UNCHANGED <<marker, strays, adapterUp, told, steering, conceded>>
    BY <1>14, CancelCases
  <2>2. CASE UNCHANGED <<place, locals, autoContinue, recorded, incomplete, inflight>> /\ InTurn
    BY <2>1, <2>2 DEF Request
  <2>3. ASSUME NEW state \in Ended, NEW how \in {"settled", "killed"},
               Ends(state, how), incomplete' \in BOOLEAN, phase = "accept" \/ Preparing,
               \/ how = "settled" /\ phase # "framing" /\ UNCHANGED <<inflight, recorded>>
               \/ how = "killed" /\ phase = "framing"
                  /\ inflight' \in {inflight, inflight \cup {Current}}
                  /\ recorded' \in BOOLEAN
        PROVE  Cancels'
    <3>1. /\ phase' = "idle" /\ status' = state /\ turn' = turn /\ autoContinue' = FALSE
          /\ outcome' = [outcome EXCEPT ![turn] = [state |-> state, how |-> how]]
          /\ sends' = 0 /\ reply' = "none" /\ waited' = 0 /\ stale' = FALSE
      BY <2>3 DEF Ends, CloseLimit, DropLocals
    <3> QED
      BY <2>1, <2>3, <3>1 DEF Preparing, Request, NotEnded
  <2> QED
    <3> HIDE DEF TypeOK, InTurn, place, clock, locals, delivery, adapter, vars, Turn, Outcome, Stage, InFlight, Current, Cancels, CanceledOnRequest, Requested
    <3> QED
      BY <1>14, <2>2, <2>3, CancelCases
<1>15. ASSUME StopDaemon PROVE Cancels'
  BY <1>15 DEF StopDaemon, Request, ResumePrepared, Preparing, EndInterrupted,
    EndPreparation, EndKilled, End, CloseLimit, DropLocals, NotEnded
<1>16. ASSUME DenySwitch PROVE Cancels'
  BY <1>16 DEF DenySwitch, Request
<1>17. ASSUME Steer PROVE Cancels'
  BY <1>17 DEF Steer
<1>18. ASSUME CancelForeign PROVE Cancels'
  BY <1>18 DEF CancelForeign
<1>19. ASSUME SteerTimesOut PROVE Cancels'
  BY <1>19 DEF SteerTimesOut
<1>20. ASSUME SteerArrives PROVE Cancels'
  BY <1>20 DEF SteerArrives
<1>21. ASSUME AdapterDies PROVE Cancels'
  BY <1>21 DEF AdapterDies
<1>22. ASSUME NEW p \in Prompt, Chunk(p) PROVE Cancels'
  BY <1>22 DEF Chunk
<1>23. ASSUME NEW p \in Prompt, Answers(p) PROVE Cancels'
  BY <1>23 DEF Answers, Awaited
<1> QED
  BY <1>1, <1>2, <1>3, <1>4, <1>5, <1>6, <1>7, <1>8, <1>9, <1>10, <1>11, <1>12, <1>13,
    <1>14, <1>15, <1>16, <1>17, <1>18, <1>19, <1>20, <1>21, <1>22, <1>23 DEF Next,
    Loop, Others, Adapter

LEMMA StraysStep ==
  ASSUME TypeOK, Stage, InFlight, Strays, Next PROVE Strays'
<1> USE BoundsAssumption, ResetsAssumption, TimersAssumption, PromptFacts DEF TypeOK,
      InTurn, place, clock, locals, delivery, adapter, vars, Turn, Outcome, Stage,
      InFlight, Strays, GivenUp
<1>1. ASSUME OpenTurn PROVE Strays'
  BY <1>1 DEF OpenTurn, NoCancel, NotEnded
<1>2. ASSUME SetupFails PROVE Strays'
  BY <1>2 DEF SetupFails, EndKilled, End, CloseLimit, DropLocals, NotEnded
<1>3. ASSUME MarkRunning PROVE Strays'
  BY <1>3 DEF MarkRunning
<1>4. ASSUME FinishSetup PROVE Strays'
  BY <1>4 DEF FinishSetup, EndPreparation, End, CloseLimit, DropLocals, NotEnded
<1>5. ASSUME SendPrompt PROVE Strays'
  BY <1>5 DEF SendPrompt
<1>6. ASSUME Frame PROVE Strays'
  BY <1>6 DEF Frame, Observe
<1>7. ASSUME Collect PROVE Strays'
  <2>1. /\ phase \in {"prompting", "acking"} /\ reply # "none"
        /\ Settle /\ UNCHANGED <<cancel, strays, adapter>>
    BY <1>7, CollectCases
  <2>2. CASE Hold
    BY <2>1, <2>2 DEF Hold, Affordable, Settle
  <2>3. ASSUME NEW state \in Ended, Ends(state, "settled"),
               incomplete' \in BOOLEAN /\ (marker' = "flagged" => incomplete'),
               state = "canceled" => Requested \/ reply = "cancelled"
        PROVE  Strays'
    <3>1. /\ phase' = "idle" /\ status' = state /\ turn' = turn /\ autoContinue' = FALSE
          /\ outcome' = [outcome EXCEPT ![turn] = [state |-> state, how |-> "settled"]]
          /\ sends' = 0 /\ reply' = "none" /\ waited' = 0 /\ stale' = FALSE
      BY <2>3 DEF Ends, CloseLimit, DropLocals
    <3> QED
      BY <2>1, <2>3, <3>1 DEF Settle, NotEnded
  <2> QED
    BY <1>7, <2>2, <2>3, CollectCases
<1>8. ASSUME DispatchCancel PROVE Strays'
  BY <1>8 DEF DispatchCancel, Request, TellAdapter
<1>9. ASSUME AbandonPrompt PROVE Strays'
  BY <1>9 DEF AbandonPrompt, Settle, EndLoop, StateFor, Normalized, End, CloseLimit,
    DropLocals, NotEnded
<1>10. ASSUME DropHold PROVE Strays'
  BY <1>10 DEF DropHold, EndLoop, StateFor, Normalized, End, CloseLimit, DropLocals,
    NotEnded
<1>11. ASSUME WakeUp PROVE Strays'
  BY <1>11 DEF WakeUp
<1>12. ASSUME Resume PROVE Strays'
  BY <1>12 DEF Resume
<1>13. ASSUME Tick PROVE Strays'
  BY <1>13 DEF Tick, WaitingOnClock
<1>14. ASSUME CancelTurn PROVE Strays'
  <2>1. /\ phase # "idle" /\ Request("canceled", "none")
        /\ UNCHANGED <<marker, strays, adapterUp, told, steering, conceded>>
    BY <1>14, CancelCases
  <2>2. CASE UNCHANGED <<place, locals, autoContinue, recorded, incomplete, inflight>> /\ InTurn
    BY <2>1, <2>2 DEF Request
  <2>3. ASSUME NEW state \in Ended, NEW how \in {"settled", "killed"},
               Ends(state, how), incomplete' \in BOOLEAN, phase = "accept" \/ Preparing,
               \/ how = "settled" /\ phase # "framing" /\ UNCHANGED <<inflight, recorded>>
               \/ how = "killed" /\ phase = "framing"
                  /\ inflight' \in {inflight, inflight \cup {Current}}
                  /\ recorded' \in BOOLEAN
        PROVE  Strays'
    <3>1. /\ phase' = "idle" /\ status' = state /\ turn' = turn /\ autoContinue' = FALSE
          /\ outcome' = [outcome EXCEPT ![turn] = [state |-> state, how |-> how]]
          /\ sends' = 0 /\ reply' = "none" /\ waited' = 0 /\ stale' = FALSE
      BY <2>3 DEF Ends, CloseLimit, DropLocals
    <3> QED
      BY <2>1, <2>3, <3>1 DEF Preparing, Request, NotEnded
  <2> QED
    <3> HIDE DEF TypeOK, InTurn, place, clock, locals, delivery, adapter, vars, Turn, Outcome, Stage, InFlight, Strays, GivenUp
    <3> QED
      BY <1>14, <2>2, <2>3, CancelCases
<1>15. ASSUME StopDaemon PROVE Strays'
  BY <1>15 DEF StopDaemon, Request, ResumePrepared, Preparing, EndInterrupted,
    EndPreparation, EndKilled, End, CloseLimit, DropLocals, NotEnded
<1>16. ASSUME DenySwitch PROVE Strays'
  BY <1>16 DEF DenySwitch, Request
<1>17. ASSUME Steer PROVE Strays'
  BY <1>17 DEF Steer
<1>18. ASSUME CancelForeign PROVE Strays'
  BY <1>18 DEF CancelForeign
<1>19. ASSUME SteerTimesOut PROVE Strays'
  BY <1>19 DEF SteerTimesOut
<1>20. ASSUME SteerArrives PROVE Strays'
  BY <1>20 DEF SteerArrives
<1>21. ASSUME AdapterDies PROVE Strays'
  BY <1>21 DEF AdapterDies
<1>22. ASSUME NEW p \in Prompt, Chunk(p) PROVE Strays'
  <2>1. /\ p \in inflight /\ InTurn /\ p[1] \notin {0, turn}
        /\ strays' = strays \cup {p[1]} /\ UNCHANGED <<place, inflight>>
    BY <1>22 DEF Chunk
  <2>2. p # Foreign /\ GivenUp(p) /\ p[1] < turn
    BY <2>1, PromptFacts
  <2> QED
    BY <2>1, <2>2
<1>23. ASSUME NEW p \in Prompt, Answers(p) PROVE Strays'
  BY <1>23 DEF Answers, Awaited
<1> QED
  BY <1>1, <1>2, <1>3, <1>4, <1>5, <1>6, <1>7, <1>8, <1>9, <1>10, <1>11, <1>12, <1>13,
    <1>14, <1>15, <1>16, <1>17, <1>18, <1>19, <1>20, <1>21, <1>22, <1>23 DEF Next,
    Loop, Others, Adapter

LEMMA InFlightStep ==
  ASSUME TypeOK, Stage, Outcomes, InFlight, Markers, Next PROVE InFlight'
<1> USE BoundsAssumption, ResetsAssumption, TimersAssumption, PromptFacts DEF TypeOK,
      InTurn, place, clock, locals, delivery, adapter, vars, Turn, Outcome, Outcomes,
      Stage, InFlight, Current, GivenUp, Markers
<1>1. ASSUME OpenTurn PROVE InFlight'
  BY <1>1 DEF OpenTurn, NoCancel, NotEnded
<1>2. ASSUME SetupFails PROVE InFlight'
  BY <1>2 DEF SetupFails, EndKilled, End, CloseLimit, DropLocals, NotEnded
<1>3. ASSUME MarkRunning PROVE InFlight'
  BY <1>3 DEF MarkRunning
<1>4. ASSUME FinishSetup PROVE InFlight'
  BY SMTT(30), <1>4 DEF FinishSetup, EndPreparation, End, CloseLimit, DropLocals, NotEnded
<1>5. ASSUME SendPrompt PROVE InFlight'
  BY <1>5 DEF SendPrompt
<1>6. ASSUME Frame PROVE InFlight'
  <2>1. turn \in Turn /\ Current[1] = turn /\ \A p \in inflight : p[1] # turn
    BY <1>6 DEF Frame
  <2>2. CASE adapterUp
    <3>1. /\ inflight' = inflight \cup {Current} /\ phase' = "prompting"
          /\ reply' = "none" /\ marker' # "unseen"
          /\ UNCHANGED <<turn, outcome, told>> /\ Current' = Current
      BY <1>6, <2>2 DEF Frame, Observe
    <3> HIDE DEF Current, GivenUp
    <3>2. \A p \in inflight' : p = Current \/ p \in inflight
      BY <3>1
    <3>3. \A p \in inflight : GivenUp(p)' <=> GivenUp(p)
      BY <3>1 DEF GivenUp
    <3>4. \A p \in inflight' :
            /\ p[1] <= turn
            /\ p = Foreign \/ p[1] = turn \/ GivenUp(p)'
            /\ p[1] = turn => p = Current
      BY <2>1, <3>2, <3>3
    <3> QED
      BY <3>1, <3>4
  <2>3. CASE ~adapterUp
    BY <1>6, <2>1, <2>3 DEF Frame
  <2> QED
    BY <2>2, <2>3
<1>7. ASSUME Collect PROVE InFlight'
  <2>1. /\ phase \in {"prompting", "acking"} /\ reply # "none"
        /\ Settle /\ UNCHANGED <<cancel, strays, adapter>>
    BY <1>7, CollectCases
  <2>2. CASE Hold
    BY <2>1, <2>2 DEF Hold, Affordable, Settle
  <2>3. ASSUME NEW state \in Ended, Ends(state, "settled"),
               incomplete' \in BOOLEAN /\ (marker' = "flagged" => incomplete'),
               state = "canceled" => Requested \/ reply = "cancelled"
        PROVE  InFlight'
    <3>1. /\ phase' = "idle" /\ status' = state /\ turn' = turn /\ autoContinue' = FALSE
          /\ outcome' = [outcome EXCEPT ![turn] = [state |-> state, how |-> "settled"]]
          /\ sends' = 0 /\ reply' = "none" /\ waited' = 0 /\ stale' = FALSE
      BY <2>3 DEF Ends, CloseLimit, DropLocals
    <3> QED
      BY <2>1, <2>3, <3>1 DEF Settle, NotEnded
  <2> QED
    BY <1>7, <2>2, <2>3, CollectCases
<1>8. ASSUME DispatchCancel PROVE InFlight'
  BY <1>8 DEF DispatchCancel, Request, TellAdapter
<1>9. ASSUME AbandonPrompt PROVE InFlight'
  BY <1>9 DEF AbandonPrompt, Settle, EndLoop, StateFor, Normalized, End, CloseLimit,
    DropLocals, NotEnded
<1>10. ASSUME DropHold PROVE InFlight'
  BY <1>10 DEF DropHold, EndLoop, StateFor, Normalized, End, CloseLimit, DropLocals,
    NotEnded
<1>11. ASSUME WakeUp PROVE InFlight'
  BY <1>11 DEF WakeUp
<1>12. ASSUME Resume PROVE InFlight'
  BY <1>12 DEF Resume
<1>13. ASSUME Tick PROVE InFlight'
  BY <1>13 DEF Tick, WaitingOnClock
<1>14. ASSUME CancelTurn PROVE InFlight'
  <2>1. /\ phase # "idle" /\ Request("canceled", "none")
        /\ UNCHANGED <<marker, strays, adapterUp, told, steering, conceded>>
    BY <1>14, CancelCases
  <2>2. CASE UNCHANGED <<place, locals, autoContinue, recorded, incomplete, inflight>> /\ InTurn
    BY <2>1, <2>2 DEF Request
  <2>3. ASSUME NEW state \in Ended, NEW how \in {"settled", "killed"},
               Ends(state, how), incomplete' \in BOOLEAN, phase = "accept" \/ Preparing,
               \/ how = "settled" /\ phase # "framing" /\ UNCHANGED <<inflight, recorded>>
               \/ how = "killed" /\ phase = "framing"
                  /\ inflight' \in {inflight, inflight \cup {Current}}
                  /\ recorded' \in BOOLEAN
        PROVE  InFlight'
    <3>1. /\ phase' = "idle" /\ status' = state /\ turn' = turn /\ autoContinue' = FALSE
          /\ outcome' = [outcome EXCEPT ![turn] = [state |-> state, how |-> how]]
          /\ sends' = 0 /\ reply' = "none" /\ waited' = 0 /\ stale' = FALSE
      BY <2>3 DEF Ends, CloseLimit, DropLocals
    <3>2. turn \in Turn /\ \A p \in inflight : p[1] # turn
      BY <2>1, <2>3 DEF Preparing
    <3>3. /\ outcome'[turn].how = how /\ Current[1] = turn
          /\ \A t \in Turn \ {turn} : outcome'[t] = outcome[t]
      BY <3>1, <3>2
    <3>4. \A p \in inflight : p = Foreign \/ (GivenUp(p) /\ p[1] \in Turn)
      BY <3>2, PromptFacts
    <3>5. \A p \in inflight : p = Foreign \/ GivenUp(p)'
      BY ZenonT(30), <2>1, <3>2, <3>3, <3>4
    <3>6. Current \in inflight' \ inflight => outcome'[turn].how = "killed"
      BY <2>3, <3>1, <3>3
    <3> HIDE DEF Current, GivenUp
    <3>7. inflight' \subseteq inflight \cup {Current}
      BY <2>3
    <3>8. \A p \in inflight' : p[1] <= turn /\ (p = Foreign \/ GivenUp(p)')
      <4> SUFFICES ASSUME NEW p \in inflight'
                   PROVE  p[1] <= turn /\ (p = Foreign \/ GivenUp(p)')
        OBVIOUS
      <4>1. CASE p \in inflight
        BY <3>5, <4>1
      <4>2. CASE p \notin inflight
        <5>1. p = Current
          BY <3>7, <4>2
        <5>2. p[1] = turn /\ outcome'[turn].how = "killed"
          BY <3>3, <3>6, <4>2, <5>1
        <5> QED
          BY <3>2, <5>2 DEF GivenUp
      <4> QED
        BY <4>1, <4>2
    <3>9. \A p, q \in inflight' : p[1] = turn /\ q[1] = turn => p = q
      BY <3>2, <3>7
    <3> QED
      BY <3>1, <3>8, <3>9
  <2> QED
    <3> HIDE DEF TypeOK, InTurn, place, clock, locals, delivery, adapter, vars, Turn, Outcome, Outcomes, Stage, InFlight, Current, GivenUp, Markers
    <3> QED
      BY <1>14, <2>2, <2>3, CancelCases
<1>15. ASSUME StopDaemon PROVE InFlight'
  BY <1>15 DEF StopDaemon, Request, ResumePrepared, Preparing, EndInterrupted,
    EndPreparation, EndKilled, End, CloseLimit, DropLocals, NotEnded
<1>16. ASSUME DenySwitch PROVE InFlight'
  BY <1>16 DEF DenySwitch, Request
<1>17. ASSUME Steer PROVE InFlight'
  BY <1>17 DEF Steer
<1>18. ASSUME CancelForeign PROVE InFlight'
  BY <1>18 DEF CancelForeign
<1>19. ASSUME SteerTimesOut PROVE InFlight'
  BY <1>19 DEF SteerTimesOut
<1>20. ASSUME SteerArrives PROVE InFlight'
  BY <1>20 DEF SteerArrives
<1>21. ASSUME AdapterDies PROVE InFlight'
  BY <1>21 DEF AdapterDies
<1>22. ASSUME NEW p \in Prompt, Chunk(p) PROVE InFlight'
  BY <1>22 DEF Chunk
<1>23. ASSUME NEW p \in Prompt, Answers(p) PROVE InFlight'
  BY <1>23 DEF Answers, Awaited
<1> QED
  BY <1>1, <1>2, <1>3, <1>4, <1>5, <1>6, <1>7, <1>8, <1>9, <1>10, <1>11, <1>12, <1>13,
    <1>14, <1>15, <1>16, <1>17, <1>18, <1>19, <1>20, <1>21, <1>22, <1>23 DEF Next,
    Loop, Others, Adapter

LEMMA TypeParts ==
  TypeOK <=> PlaceOK /\ CancelOK /\ LocalsOK /\ DeliveryOK /\ AdapterOK
BY DEF TypeOK, Reasons, PlaceOK, CancelOK, LocalsOK, DeliveryOK, AdapterOK

LEMMA PlaceTypeStep ==
  ASSUME PlaceOK, CancelOK, LocalsOK, DeliveryOK, AdapterOK, Stage, Next PROVE
         PlaceOK'
<1> USE BoundsAssumption, ResetsAssumption, TimersAssumption DEF InTurn, place, clock,
      locals, delivery, adapter, vars, PlaceOK, CancelOK, Stage, Phase, Reasons,
      Ended, Reply, Outcome, NotEnded, NoCancel, Requested, Turn
<1>1. ASSUME OpenTurn PROVE PlaceOK'
  BY <1>1 DEF OpenTurn, NoCancel, NotEnded
<1>2. ASSUME SetupFails PROVE PlaceOK'
  BY <1>2 DEF SetupFails, EndKilled, End, CloseLimit, DropLocals, NotEnded
<1>3. ASSUME MarkRunning PROVE PlaceOK'
  BY <1>3 DEF MarkRunning
<1>4. ASSUME FinishSetup PROVE PlaceOK'
  <2>1. CASE EndPreparation("settled")
    <3>1. Ends("canceled", "settled")
      BY <2>1 DEF EndPreparation, End, Ends, Reasons
    <3>2. turn \in Turn /\ "canceled" \in Ended
      BY <1>4 DEF FinishSetup
    <3> HIDE DEF InTurn, place, clock, locals, delivery, adapter, vars, PlaceOK, CancelOK, Stage, Phase, Reasons, Ended, Reply, Outcome, NotEnded, NoCancel, Requested, Turn
    <3> QED
      BY <3>1, <3>2, EndsTypes
  <2>2. CASE /\ phase' = "send"
             /\ UNCHANGED <<turn, status, outcome, reason, locals, autoContinue>>
    BY <2>2
  <2> QED
    BY <1>4, <2>1, <2>2 DEF FinishSetup
<1>5. ASSUME SendPrompt PROVE PlaceOK'
  BY <1>5 DEF SendPrompt
<1>6. ASSUME Frame PROVE PlaceOK'
  BY <1>6 DEF Frame, Observe
<1>7. ASSUME Collect PROVE PlaceOK'
  <2>1. /\ phase \in {"prompting", "acking"} /\ reply # "none"
        /\ Settle /\ UNCHANGED <<cancel, strays, adapter>>
    BY <1>7, CollectCases, TypeParts
  <2>2. CASE Hold
    BY <2>1, <2>2 DEF Hold, Affordable, Settle
  <2>3. ASSUME NEW state \in Ended, Ends(state, "settled"),
               incomplete' \in BOOLEAN /\ (marker' = "flagged" => incomplete'),
               state = "canceled" => Requested \/ reply = "cancelled"
        PROVE  PlaceOK'
    <3>1. turn \in Turn
      BY <2>1
    <3> HIDE DEF InTurn, place, clock, locals, delivery, adapter, vars, PlaceOK, CancelOK, Stage, Phase, Reasons, Ended, Reply, Outcome, NotEnded, NoCancel, Requested, Turn
    <3> QED
      BY <2>3, <3>1, EndsTypes
  <2> QED
    BY <1>7, <2>2, <2>3, CollectCases, TypeParts
<1>8. ASSUME DispatchCancel PROVE PlaceOK'
  BY <1>8 DEF DispatchCancel, Request, TellAdapter
<1>9. ASSUME AbandonPrompt PROVE PlaceOK'
  BY <1>9 DEF AbandonPrompt, Settle, EndLoop, StateFor, Normalized, End, CloseLimit,
    DropLocals, NotEnded
<1>10. ASSUME DropHold PROVE PlaceOK'
  BY <1>10 DEF DropHold, EndLoop, StateFor, Normalized, End, CloseLimit, DropLocals,
    NotEnded
<1>11. ASSUME WakeUp PROVE PlaceOK'
  BY <1>11 DEF WakeUp
<1>12. ASSUME Resume PROVE PlaceOK'
  BY <1>12 DEF Resume
<1>13. ASSUME Tick PROVE PlaceOK'
  BY <1>13 DEF Tick, WaitingOnClock
<1>14. ASSUME CancelTurn PROVE PlaceOK'
  <2>1. /\ phase # "idle" /\ Request("canceled", "none")
        /\ UNCHANGED <<marker, strays, adapterUp, told, steering, conceded>>
    BY <1>14, CancelCases, TypeParts
  <2>2. CASE UNCHANGED <<place, locals, autoContinue, recorded, incomplete, inflight>> /\ InTurn
    BY <2>1, <2>2 DEF Request
  <2>3. ASSUME NEW state \in Ended, NEW how \in {"settled", "killed"},
               Ends(state, how), incomplete' \in BOOLEAN, phase = "accept" \/ Preparing,
               \/ how = "settled" /\ phase # "framing" /\ UNCHANGED <<inflight, recorded>>
               \/ how = "killed" /\ phase = "framing"
                  /\ inflight' \in {inflight, inflight \cup {Current}}
                  /\ recorded' \in BOOLEAN
        PROVE  PlaceOK'
    <3>1. turn \in Turn
      BY <2>1
    <3> HIDE DEF InTurn, place, clock, locals, delivery, adapter, vars, PlaceOK, CancelOK, Stage, Phase, Reasons, Ended, Reply, Outcome, NotEnded, NoCancel, Requested, Turn
    <3> QED
      BY <2>3, <3>1, EndsTypes
  <2> QED
    <3> HIDE DEF InTurn, place, clock, locals, delivery, adapter, vars, PlaceOK, CancelOK, Stage, Phase, Reasons, Ended, Reply, Outcome, NotEnded, NoCancel, Requested, Turn
    <3> QED
      BY <1>14, <2>2, <2>3, CancelCases, TypeParts
<1>15. ASSUME StopDaemon PROVE PlaceOK'
  <2>1. phase # "idle" /\ Request("failed", "stopped") /\ EndInterrupted("killed")
    BY <1>15 DEF StopDaemon
  <2>2. cancel'.state \in {"canceled", "failed"} /\ cancel'.reason \in Reasons
    BY <2>1 DEF Request, CancelOK, Reasons
  <2>3. CASE EndPreparation("killed")
    <3>1. Ends("canceled", "killed")
      BY <2>3 DEF EndPreparation, End, Ends, Reasons
    <3>2. turn \in Turn /\ "canceled" \in Ended
      BY <2>1
    <3> HIDE DEF InTurn, place, clock, locals, delivery, adapter, vars, PlaceOK, CancelOK, Stage, Phase, Reasons, Ended, Reply, Outcome, NotEnded, NoCancel, Requested, Turn
    <3> QED
      BY <3>1, <3>2, EndsTypes
  <2>4. CASE EndKilled("killed")
    <3>1. Ends(cancel'.state, "killed")
      BY <2>2, <2>4 DEF EndKilled, End, Ends, Reasons
    <3>2. turn \in Turn /\ cancel'.state \in Ended
      BY <2>1, <2>2
    <3> HIDE DEF InTurn, place, clock, locals, delivery, adapter, vars, PlaceOK, CancelOK, Stage, Phase, Reasons, Ended, Reply, Outcome, NotEnded, NoCancel, Requested, Turn
    <3> QED
      BY <3>1, <3>2, EndsTypes
  <2> QED
    BY <2>1, <2>3, <2>4 DEF EndInterrupted
<1>16. ASSUME DenySwitch PROVE PlaceOK'
  BY <1>16 DEF DenySwitch, Request
<1>17. ASSUME Steer PROVE PlaceOK'
  BY <1>17 DEF Steer
<1>18. ASSUME CancelForeign PROVE PlaceOK'
  BY <1>18 DEF CancelForeign
<1>19. ASSUME SteerTimesOut PROVE PlaceOK'
  BY <1>19 DEF SteerTimesOut
<1>20. ASSUME SteerArrives PROVE PlaceOK'
  BY <1>20 DEF SteerArrives
<1>21. ASSUME AdapterDies PROVE PlaceOK'
  BY <1>21 DEF AdapterDies
<1>22. ASSUME NEW p \in Prompt, Chunk(p) PROVE PlaceOK'
  BY <1>22 DEF Chunk
<1>23. ASSUME NEW p \in Prompt, Answers(p) PROVE PlaceOK'
  BY <1>23 DEF Answers, Awaited
<1> QED
  BY <1>1, <1>2, <1>3, <1>4, <1>5, <1>6, <1>7, <1>8, <1>9, <1>10, <1>11, <1>12, <1>13,
    <1>14, <1>15, <1>16, <1>17, <1>18, <1>19, <1>20, <1>21, <1>22, <1>23 DEF Next,
    Loop, Others, Adapter

LEMMA CancelTypeStep ==
  ASSUME PlaceOK, CancelOK, LocalsOK, DeliveryOK, AdapterOK, Next PROVE CancelOK'
<1> USE BoundsAssumption, ResetsAssumption, TimersAssumption DEF InTurn, place, clock,
      locals, delivery, adapter, vars, CancelOK, Phase, Reasons, Ended, Reply,
      Outcome, NotEnded, NoCancel, Requested, Turn
<1>1. ASSUME OpenTurn PROVE CancelOK'
  BY <1>1 DEF OpenTurn, NoCancel, NotEnded
<1>2. ASSUME SetupFails PROVE CancelOK'
  BY <1>2 DEF SetupFails, EndKilled, End, CloseLimit, DropLocals, NotEnded
<1>3. ASSUME MarkRunning PROVE CancelOK'
  BY <1>3 DEF MarkRunning
<1>4. ASSUME FinishSetup PROVE CancelOK'
  BY <1>4 DEF FinishSetup, EndPreparation, End, CloseLimit, DropLocals, NotEnded
<1>5. ASSUME SendPrompt PROVE CancelOK'
  BY <1>5 DEF SendPrompt
<1>6. ASSUME Frame PROVE CancelOK'
  BY <1>6 DEF Frame, Observe
<1>7. ASSUME Collect PROVE CancelOK'
  BY <1>7 DEF Collect, PromptDone, Settle, Hold, GiveUpOnLimit, Affordable, EndLoop,
    StateFor, Normalized, End, CloseLimit, DropLocals, NotEnded
<1>8. ASSUME DispatchCancel PROVE CancelOK'
  BY <1>8 DEF DispatchCancel, Request, TellAdapter
<1>9. ASSUME AbandonPrompt PROVE CancelOK'
  BY <1>9 DEF AbandonPrompt, Settle, EndLoop, StateFor, Normalized, End, CloseLimit,
    DropLocals, NotEnded
<1>10. ASSUME DropHold PROVE CancelOK'
  BY <1>10 DEF DropHold, EndLoop, StateFor, Normalized, End, CloseLimit, DropLocals,
    NotEnded
<1>11. ASSUME WakeUp PROVE CancelOK'
  BY <1>11 DEF WakeUp
<1>12. ASSUME Resume PROVE CancelOK'
  BY <1>12 DEF Resume
<1>13. ASSUME Tick PROVE CancelOK'
  BY <1>13 DEF Tick, WaitingOnClock
<1>14. ASSUME CancelTurn PROVE CancelOK'
  BY <1>14 DEF CancelTurn, KillOnCancel, Request, ResumePrepared, Preparing,
    EndInterrupted, EndPreparation, EndKilled, End, CloseLimit, DropLocals, NotEnded
<1>15. ASSUME StopDaemon PROVE CancelOK'
  BY <1>15 DEF StopDaemon, Request, ResumePrepared, Preparing, EndInterrupted,
    EndPreparation, EndKilled, End, CloseLimit, DropLocals, NotEnded
<1>16. ASSUME DenySwitch PROVE CancelOK'
  BY <1>16 DEF DenySwitch, Request
<1>17. ASSUME Steer PROVE CancelOK'
  BY <1>17 DEF Steer
<1>18. ASSUME CancelForeign PROVE CancelOK'
  BY <1>18 DEF CancelForeign
<1>19. ASSUME SteerTimesOut PROVE CancelOK'
  BY <1>19 DEF SteerTimesOut
<1>20. ASSUME SteerArrives PROVE CancelOK'
  BY <1>20 DEF SteerArrives
<1>21. ASSUME AdapterDies PROVE CancelOK'
  BY <1>21 DEF AdapterDies
<1>22. ASSUME NEW p \in Prompt, Chunk(p) PROVE CancelOK'
  BY <1>22 DEF Chunk
<1>23. ASSUME NEW p \in Prompt, Answers(p) PROVE CancelOK'
  BY <1>23 DEF Answers, Awaited
<1> QED
  BY <1>1, <1>2, <1>3, <1>4, <1>5, <1>6, <1>7, <1>8, <1>9, <1>10, <1>11, <1>12, <1>13,
    <1>14, <1>15, <1>16, <1>17, <1>18, <1>19, <1>20, <1>21, <1>22, <1>23 DEF Next,
    Loop, Others, Adapter

LEMMA LocalsTypeStep ==
  ASSUME PlaceOK, CancelOK, LocalsOK, DeliveryOK, AdapterOK, Stage, Next PROVE
         LocalsOK'
<1> USE BoundsAssumption, ResetsAssumption, TimersAssumption DEF InTurn, place, clock,
      locals, delivery, adapter, vars, LocalsOK, PlaceOK, Stage, Phase, Reasons,
      Ended, Reply, Outcome, NotEnded, NoCancel, Requested, Turn
<1>1. ASSUME OpenTurn PROVE LocalsOK'
  BY <1>1 DEF OpenTurn, NoCancel, NotEnded
<1>2. ASSUME SetupFails PROVE LocalsOK'
  BY <1>2 DEF SetupFails, EndKilled, End, CloseLimit, DropLocals, NotEnded
<1>3. ASSUME MarkRunning PROVE LocalsOK'
  BY <1>3 DEF MarkRunning
<1>4. ASSUME FinishSetup PROVE LocalsOK'
  <2>1. CASE EndPreparation("settled")
    <3>1. Ends("canceled", "settled")
      BY <2>1 DEF EndPreparation, End, Ends, Reasons
    <3>2. turn \in Turn /\ "canceled" \in Ended
      BY <1>4 DEF FinishSetup
    <3> HIDE DEF InTurn, place, clock, locals, delivery, adapter, vars, LocalsOK, PlaceOK, Stage, Phase, Reasons, Ended, Reply, Outcome, NotEnded, NoCancel, Requested, Turn
    <3> QED
      BY <3>1, <3>2, EndsTypes
  <2>2. CASE /\ phase' = "send"
             /\ UNCHANGED <<turn, status, outcome, reason, locals, autoContinue>>
    BY <2>2
  <2> QED
    BY <1>4, <2>1, <2>2 DEF FinishSetup
<1>5. ASSUME SendPrompt PROVE LocalsOK'
  BY <1>5 DEF SendPrompt
<1>6. ASSUME Frame PROVE LocalsOK'
  BY <1>6 DEF Frame, Observe
<1>7. ASSUME Collect PROVE LocalsOK'
  <2>1. /\ phase \in {"prompting", "acking"} /\ reply # "none"
        /\ Settle /\ UNCHANGED <<cancel, strays, adapter>>
    BY <1>7, CollectCases, TypeParts
  <2>2. CASE Hold
    BY <2>1, <2>2 DEF Hold, Affordable, Settle
  <2>3. ASSUME NEW state \in Ended, Ends(state, "settled"),
               incomplete' \in BOOLEAN /\ (marker' = "flagged" => incomplete'),
               state = "canceled" => Requested \/ reply = "cancelled"
        PROVE  LocalsOK'
    <3>1. turn \in Turn
      BY <2>1
    <3> HIDE DEF InTurn, place, clock, locals, delivery, adapter, vars, LocalsOK, PlaceOK, Stage, Phase, Reasons, Ended, Reply, Outcome, NotEnded, NoCancel, Requested, Turn
    <3> QED
      BY <2>3, <3>1, EndsTypes
  <2> QED
    BY <1>7, <2>2, <2>3, CollectCases, TypeParts
<1>8. ASSUME DispatchCancel PROVE LocalsOK'
  BY <1>8 DEF DispatchCancel, Request, TellAdapter
<1>9. ASSUME AbandonPrompt PROVE LocalsOK'
  BY <1>9 DEF AbandonPrompt, Settle, EndLoop, StateFor, Normalized, End, CloseLimit,
    DropLocals, NotEnded
<1>10. ASSUME DropHold PROVE LocalsOK'
  BY <1>10 DEF DropHold, EndLoop, StateFor, Normalized, End, CloseLimit, DropLocals,
    NotEnded
<1>11. ASSUME WakeUp PROVE LocalsOK'
  BY <1>11 DEF WakeUp
<1>12. ASSUME Resume PROVE LocalsOK'
  BY <1>12 DEF Resume
<1>13. ASSUME Tick PROVE LocalsOK'
  BY <1>13 DEF Tick, WaitingOnClock
<1>14. ASSUME CancelTurn PROVE LocalsOK'
  <2>1. /\ phase # "idle" /\ Request("canceled", "none")
        /\ UNCHANGED <<marker, strays, adapterUp, told, steering, conceded>>
    BY <1>14, CancelCases, TypeParts
  <2>2. CASE UNCHANGED <<place, locals, autoContinue, recorded, incomplete, inflight>> /\ InTurn
    BY <2>1, <2>2 DEF Request
  <2>3. ASSUME NEW state \in Ended, NEW how \in {"settled", "killed"},
               Ends(state, how), incomplete' \in BOOLEAN, phase = "accept" \/ Preparing,
               \/ how = "settled" /\ phase # "framing" /\ UNCHANGED <<inflight, recorded>>
               \/ how = "killed" /\ phase = "framing"
                  /\ inflight' \in {inflight, inflight \cup {Current}}
                  /\ recorded' \in BOOLEAN
        PROVE  LocalsOK'
    <3>1. turn \in Turn
      BY <2>1
    <3> HIDE DEF InTurn, place, clock, locals, delivery, adapter, vars, LocalsOK, PlaceOK, Stage, Phase, Reasons, Ended, Reply, Outcome, NotEnded, NoCancel, Requested, Turn
    <3> QED
      BY <2>3, <3>1, EndsTypes
  <2> QED
    <3> HIDE DEF InTurn, place, clock, locals, delivery, adapter, vars, LocalsOK, PlaceOK, Stage, Phase, Reasons, Ended, Reply, Outcome, NotEnded, NoCancel, Requested, Turn
    <3> QED
      BY <1>14, <2>2, <2>3, CancelCases, TypeParts
<1>15. ASSUME StopDaemon PROVE LocalsOK'
  <2>1. phase # "idle" /\ Request("failed", "stopped") /\ EndInterrupted("killed")
    BY <1>15 DEF StopDaemon
  <2>2. cancel'.state \in {"canceled", "failed"} /\ cancel'.reason \in Reasons
    BY <2>1 DEF Request, CancelOK, Reasons
  <2>3. CASE EndPreparation("killed")
    <3>1. Ends("canceled", "killed")
      BY <2>3 DEF EndPreparation, End, Ends, Reasons
    <3>2. turn \in Turn /\ "canceled" \in Ended
      BY <2>1
    <3> HIDE DEF InTurn, place, clock, locals, delivery, adapter, vars, LocalsOK, PlaceOK, Stage, Phase, Reasons, Ended, Reply, Outcome, NotEnded, NoCancel, Requested, Turn
    <3> QED
      BY <3>1, <3>2, EndsTypes
  <2>4. CASE EndKilled("killed")
    <3>1. Ends(cancel'.state, "killed")
      BY <2>2, <2>4 DEF EndKilled, End, Ends, Reasons
    <3>2. turn \in Turn /\ cancel'.state \in Ended
      BY <2>1, <2>2
    <3> HIDE DEF InTurn, place, clock, locals, delivery, adapter, vars, LocalsOK, PlaceOK, Stage, Phase, Reasons, Ended, Reply, Outcome, NotEnded, NoCancel, Requested, Turn
    <3> QED
      BY <3>1, <3>2, EndsTypes
  <2> QED
    BY <2>1, <2>3, <2>4 DEF EndInterrupted
<1>16. ASSUME DenySwitch PROVE LocalsOK'
  BY <1>16 DEF DenySwitch, Request
<1>17. ASSUME Steer PROVE LocalsOK'
  BY <1>17 DEF Steer
<1>18. ASSUME CancelForeign PROVE LocalsOK'
  BY <1>18 DEF CancelForeign
<1>19. ASSUME SteerTimesOut PROVE LocalsOK'
  BY <1>19 DEF SteerTimesOut
<1>20. ASSUME SteerArrives PROVE LocalsOK'
  BY <1>20 DEF SteerArrives
<1>21. ASSUME AdapterDies PROVE LocalsOK'
  BY <1>21 DEF AdapterDies
<1>22. ASSUME NEW p \in Prompt, Chunk(p) PROVE LocalsOK'
  BY <1>22 DEF Chunk
<1>23. ASSUME NEW p \in Prompt, Answers(p) PROVE LocalsOK'
  BY <1>23 DEF Answers, Awaited
<1> QED
  BY <1>1, <1>2, <1>3, <1>4, <1>5, <1>6, <1>7, <1>8, <1>9, <1>10, <1>11, <1>12, <1>13,
    <1>14, <1>15, <1>16, <1>17, <1>18, <1>19, <1>20, <1>21, <1>22, <1>23 DEF Next,
    Loop, Others, Adapter

LEMMA DeliveryTypeStep ==
  ASSUME PlaceOK, CancelOK, LocalsOK, DeliveryOK, AdapterOK, Next PROVE DeliveryOK'
<1> USE BoundsAssumption, ResetsAssumption, TimersAssumption DEF InTurn, place, clock,
      locals, delivery, adapter, vars, DeliveryOK, Phase, Reasons, Ended, Reply,
      Outcome, NotEnded, NoCancel, Requested, Turn
<1>1. ASSUME OpenTurn PROVE DeliveryOK'
  BY <1>1 DEF OpenTurn, NoCancel, NotEnded
<1>2. ASSUME SetupFails PROVE DeliveryOK'
  BY <1>2 DEF SetupFails, EndKilled, End, CloseLimit, DropLocals, NotEnded
<1>3. ASSUME MarkRunning PROVE DeliveryOK'
  BY <1>3 DEF MarkRunning
<1>4. ASSUME FinishSetup PROVE DeliveryOK'
  BY <1>4 DEF FinishSetup, EndPreparation, End, CloseLimit, DropLocals, NotEnded
<1>5. ASSUME SendPrompt PROVE DeliveryOK'
  BY <1>5 DEF SendPrompt
<1>6. ASSUME Frame PROVE DeliveryOK'
  BY <1>6 DEF Frame, Observe
<1>7. ASSUME Collect PROVE DeliveryOK'
  BY <1>7 DEF Collect, PromptDone, Settle, Hold, GiveUpOnLimit, Affordable, EndLoop,
    StateFor, Normalized, End, CloseLimit, DropLocals, NotEnded
<1>8. ASSUME DispatchCancel PROVE DeliveryOK'
  BY <1>8 DEF DispatchCancel, Request, TellAdapter
<1>9. ASSUME AbandonPrompt PROVE DeliveryOK'
  BY <1>9 DEF AbandonPrompt, Settle, EndLoop, StateFor, Normalized, End, CloseLimit,
    DropLocals, NotEnded
<1>10. ASSUME DropHold PROVE DeliveryOK'
  BY <1>10 DEF DropHold, EndLoop, StateFor, Normalized, End, CloseLimit, DropLocals,
    NotEnded
<1>11. ASSUME WakeUp PROVE DeliveryOK'
  BY <1>11 DEF WakeUp
<1>12. ASSUME Resume PROVE DeliveryOK'
  BY <1>12 DEF Resume
<1>13. ASSUME Tick PROVE DeliveryOK'
  BY <1>13 DEF Tick, WaitingOnClock
<1>14. ASSUME CancelTurn PROVE DeliveryOK'
  BY <1>14 DEF CancelTurn, KillOnCancel, Request, ResumePrepared, Preparing,
    EndInterrupted, EndPreparation, EndKilled, End, CloseLimit, DropLocals, NotEnded
<1>15. ASSUME StopDaemon PROVE DeliveryOK'
  BY <1>15 DEF StopDaemon, Request, ResumePrepared, Preparing, EndInterrupted,
    EndPreparation, EndKilled, End, CloseLimit, DropLocals, NotEnded
<1>16. ASSUME DenySwitch PROVE DeliveryOK'
  BY <1>16 DEF DenySwitch, Request
<1>17. ASSUME Steer PROVE DeliveryOK'
  BY <1>17 DEF Steer
<1>18. ASSUME CancelForeign PROVE DeliveryOK'
  BY <1>18 DEF CancelForeign
<1>19. ASSUME SteerTimesOut PROVE DeliveryOK'
  BY <1>19 DEF SteerTimesOut
<1>20. ASSUME SteerArrives PROVE DeliveryOK'
  BY <1>20 DEF SteerArrives
<1>21. ASSUME AdapterDies PROVE DeliveryOK'
  BY <1>21 DEF AdapterDies
<1>22. ASSUME NEW p \in Prompt, Chunk(p) PROVE DeliveryOK'
  BY <1>22 DEF Chunk
<1>23. ASSUME NEW p \in Prompt, Answers(p) PROVE DeliveryOK'
  BY <1>23 DEF Answers, Awaited
<1> QED
  BY <1>1, <1>2, <1>3, <1>4, <1>5, <1>6, <1>7, <1>8, <1>9, <1>10, <1>11, <1>12, <1>13,
    <1>14, <1>15, <1>16, <1>17, <1>18, <1>19, <1>20, <1>21, <1>22, <1>23 DEF Next,
    Loop, Others, Adapter

LEMMA AdapterTypeStep ==
  ASSUME PlaceOK, CancelOK, LocalsOK, DeliveryOK, AdapterOK, Stage, Next PROVE
         AdapterOK'
<1> USE BoundsAssumption, ResetsAssumption, TimersAssumption DEF InTurn, place, clock,
      locals, delivery, adapter, vars, AdapterOK, PlaceOK, LocalsOK, Stage, Phase,
      Reasons, Ended, Reply, Outcome, NotEnded, NoCancel, Requested, Turn
<1>1. ASSUME OpenTurn PROVE AdapterOK'
  BY <1>1 DEF OpenTurn, NoCancel, NotEnded
<1>2. ASSUME SetupFails PROVE AdapterOK'
  BY <1>2 DEF SetupFails, EndKilled, End, CloseLimit, DropLocals, NotEnded
<1>3. ASSUME MarkRunning PROVE AdapterOK'
  BY <1>3 DEF MarkRunning
<1>4. ASSUME FinishSetup PROVE AdapterOK'
  BY <1>4 DEF FinishSetup, EndPreparation, End, CloseLimit, DropLocals, NotEnded
<1>5. ASSUME SendPrompt PROVE AdapterOK'
  BY <1>5 DEF SendPrompt
<1>6. ASSUME Frame PROVE AdapterOK'
  BY <1>6, CurrentFacts DEF Frame, Observe
<1>7. ASSUME Collect PROVE AdapterOK'
  BY <1>7 DEF Collect, PromptDone, Settle, Hold, GiveUpOnLimit, Affordable, EndLoop,
    StateFor, Normalized, End, CloseLimit, DropLocals, NotEnded
<1>8. ASSUME DispatchCancel PROVE AdapterOK'
  BY <1>8 DEF DispatchCancel, Request, TellAdapter
<1>9. ASSUME AbandonPrompt PROVE AdapterOK'
  BY <1>9 DEF AbandonPrompt, Settle, EndLoop, StateFor, Normalized, End, CloseLimit,
    DropLocals, NotEnded
<1>10. ASSUME DropHold PROVE AdapterOK'
  BY <1>10 DEF DropHold, EndLoop, StateFor, Normalized, End, CloseLimit, DropLocals,
    NotEnded
<1>11. ASSUME WakeUp PROVE AdapterOK'
  BY <1>11 DEF WakeUp
<1>12. ASSUME Resume PROVE AdapterOK'
  BY <1>12 DEF Resume
<1>13. ASSUME Tick PROVE AdapterOK'
  BY <1>13 DEF Tick, WaitingOnClock
<1>14. ASSUME CancelTurn PROVE AdapterOK'
  <2>1. /\ phase # "idle" /\ Request("canceled", "none")
        /\ UNCHANGED <<marker, strays, adapterUp, told, steering, conceded>>
    BY <1>14, CancelCases, TypeParts
  <2>2. CASE UNCHANGED <<place, locals, autoContinue, recorded, incomplete, inflight>> /\ InTurn
    BY <2>1, <2>2, CurrentFacts DEF Request
  <2>3. ASSUME NEW state \in Ended, NEW how \in {"settled", "killed"},
               Ends(state, how), incomplete' \in BOOLEAN, phase = "accept" \/ Preparing,
               \/ how = "settled" /\ phase # "framing" /\ UNCHANGED <<inflight, recorded>>
               \/ how = "killed" /\ phase = "framing"
                  /\ inflight' \in {inflight, inflight \cup {Current}}
                  /\ recorded' \in BOOLEAN
        PROVE  AdapterOK'
    <3>1. /\ phase' = "idle" /\ status' = state /\ turn' = turn /\ autoContinue' = FALSE
          /\ outcome' = [outcome EXCEPT ![turn] = [state |-> state, how |-> how]]
          /\ sends' = 0 /\ reply' = "none" /\ waited' = 0 /\ stale' = FALSE
      BY <2>3 DEF Ends, CloseLimit, DropLocals
    <3> QED
      BY <2>1, <2>3, <3>1, CurrentFacts DEF Preparing, Request, NotEnded
  <2> QED
    <3> HIDE DEF InTurn, place, clock, locals, delivery, adapter, vars, AdapterOK, PlaceOK, LocalsOK, Stage, Phase, Reasons, Ended, Reply, Outcome, NotEnded, NoCancel, Requested, Turn
    <3> QED
      BY <1>14, <2>2, <2>3, CancelCases, TypeParts
<1>15. ASSUME StopDaemon PROVE AdapterOK'
  BY <1>15 DEF StopDaemon, Request, ResumePrepared, Preparing, EndInterrupted,
    EndPreparation, EndKilled, End, CloseLimit, DropLocals, NotEnded
<1>16. ASSUME DenySwitch PROVE AdapterOK'
  BY <1>16 DEF DenySwitch, Request
<1>17. ASSUME Steer PROVE AdapterOK'
  BY <1>17 DEF Steer
<1>18. ASSUME CancelForeign PROVE AdapterOK'
  BY <1>18 DEF CancelForeign
<1>19. ASSUME SteerTimesOut PROVE AdapterOK'
  BY <1>19 DEF SteerTimesOut
<1>20. ASSUME SteerArrives PROVE AdapterOK'
  BY <1>20, PromptFacts DEF SteerArrives
<1>21. ASSUME AdapterDies PROVE AdapterOK'
  BY <1>21 DEF AdapterDies
<1>22. ASSUME NEW p \in Prompt, Chunk(p) PROVE AdapterOK'
  BY <1>22, PromptFacts DEF Chunk
<1>23. ASSUME NEW p \in Prompt, Answers(p) PROVE AdapterOK'
  BY <1>23 DEF Answers, Awaited
<1> QED
  BY <1>1, <1>2, <1>3, <1>4, <1>5, <1>6, <1>7, <1>8, <1>9, <1>10, <1>11, <1>12, <1>13,
    <1>14, <1>15, <1>16, <1>17, <1>18, <1>19, <1>20, <1>21, <1>22, <1>23 DEF Next,
    Loop, Others, Adapter

\* A stop that came first is what the turn ends as, whichever way it ends.
LEMMA FirstStopStep ==
  ASSUME TypeOK, Stage, Next PROVE StopNamesOutcome
<1> USE BoundsAssumption, ResetsAssumption, TimersAssumption DEF TypeOK, InTurn,
      place, clock, locals, delivery, adapter, vars, Turn, Stage, Phase, Outcome,
      StopNamesOutcome, Requested
<1>1. ASSUME OpenTurn PROVE StopNamesOutcome
  BY <1>1 DEF OpenTurn, NoCancel, NotEnded
<1>2. ASSUME SetupFails PROVE StopNamesOutcome
  BY <1>2 DEF SetupFails, EndKilled, End, CloseLimit, DropLocals, NotEnded
<1>3. ASSUME MarkRunning PROVE StopNamesOutcome
  BY <1>3 DEF MarkRunning
<1>4. ASSUME FinishSetup PROVE StopNamesOutcome
  BY <1>4 DEF FinishSetup, EndPreparation, End, CloseLimit, DropLocals, NotEnded
<1>5. ASSUME SendPrompt PROVE StopNamesOutcome
  BY <1>5 DEF SendPrompt
<1>6. ASSUME Frame PROVE StopNamesOutcome
  BY <1>6 DEF Frame, Observe
<1>7. ASSUME Collect PROVE StopNamesOutcome
  <2>1. PICK state \in Ended :
          phase' = "idle" => Ends(state, "settled") /\ (Requested => state = cancel.state)
    BY <1>7, CollectCases DEF Hold, Ended
  <2> QED
    BY <2>1 DEF Ends
<1>8. ASSUME DispatchCancel PROVE StopNamesOutcome
  BY <1>8 DEF DispatchCancel, Request, TellAdapter
<1>9. ASSUME AbandonPrompt PROVE StopNamesOutcome
  BY <1>9 DEF AbandonPrompt, Settle, EndLoop, StateFor, Normalized, End, CloseLimit,
    DropLocals, NotEnded
<1>10. ASSUME DropHold PROVE StopNamesOutcome
  BY <1>10 DEF DropHold, EndLoop, StateFor, Normalized, End, CloseLimit, DropLocals,
    NotEnded
<1>11. ASSUME WakeUp PROVE StopNamesOutcome
  BY <1>11 DEF WakeUp
<1>12. ASSUME Resume PROVE StopNamesOutcome
  BY <1>12 DEF Resume
<1>13. ASSUME Tick PROVE StopNamesOutcome
  BY <1>13 DEF Tick, WaitingOnClock
<1>14. ASSUME CancelTurn PROVE StopNamesOutcome
  <2>1. PICK state \in Ended, how \in {"settled", "killed"} :
          phase' = "idle" => /\ Ends(state, how)
                             /\ Requested => state = cancel.state \/ reason' = "preparation"
                                             \/ phase = "accept"
    BY <1>14, CancelCases DEF Ended
  <2> QED
    BY <2>1 DEF Ends
<1>15. ASSUME StopDaemon PROVE StopNamesOutcome
  BY <1>15 DEF StopDaemon, Request, ResumePrepared, Preparing, EndInterrupted,
    EndPreparation, EndKilled, End, CloseLimit, DropLocals, NotEnded
<1>16. ASSUME DenySwitch PROVE StopNamesOutcome
  BY <1>16 DEF DenySwitch, Request
<1>17. ASSUME Steer PROVE StopNamesOutcome
  BY <1>17 DEF Steer
<1>18. ASSUME CancelForeign PROVE StopNamesOutcome
  BY <1>18 DEF CancelForeign
<1>19. ASSUME SteerTimesOut PROVE StopNamesOutcome
  BY <1>19 DEF SteerTimesOut
<1>20. ASSUME SteerArrives PROVE StopNamesOutcome
  BY <1>20 DEF SteerArrives
<1>21. ASSUME AdapterDies PROVE StopNamesOutcome
  BY <1>21 DEF AdapterDies
<1>22. ASSUME NEW p \in Prompt, Chunk(p) PROVE StopNamesOutcome
  BY <1>22 DEF Chunk
<1>23. ASSUME NEW p \in Prompt, Answers(p) PROVE StopNamesOutcome
  BY <1>23 DEF Answers, Awaited
<1> QED
  BY <1>1, <1>2, <1>3, <1>4, <1>5, <1>6, <1>7, <1>8, <1>9, <1>10, <1>11, <1>12, <1>13,
    <1>14, <1>15, <1>16, <1>17, <1>18, <1>19, <1>20, <1>21, <1>22, <1>23 DEF Next,
    Loop, Others, Adapter

\* Ending the turn is the ledger's Close.
LEMMA EndCloses ==
  ASSUME TypeOK, Stage, phase # "idle", NEW state \in Ended,
         NEW how \in {"settled", "abandoned", "killed"},
         outcome' = [outcome EXCEPT ![turn] = [state |-> state, how |-> how]],
         status' = state, UNCHANGED turn
  PROVE  Ledger!Close
<1> DEFINE R == [t \in Turn |-> outcome[t].state]
<1>1. turn \in Turn
  BY BoundsAssumption DEF TypeOK, Stage, Turn
<1>2. status \in Ledger!Working /\ status' \in Ledger!Outcome
  BY DEF TypeOK, Stage, Phase, InTurn, Ended, Ledger!Working, Ledger!Outcome
<1>3. R' = [R EXCEPT ![turn] = status']
  BY <1>1 DEF TypeOK
<1> QED
  BY <1>2, <1>3 DEF Ledger!Close

\* Each step is a step of the ledger or leaves it alone.
LEMMA LedgerStep ==
  ASSUME TypeOK, Stage, Outcomes, Next PROVE [Ledger!LedgerNext]_(Ledger!ledger)
<1> USE BoundsAssumption, ResetsAssumption, TimersAssumption DEF TypeOK, InTurn,
      place, clock, locals, delivery, adapter, vars, Turn, Stage, Outcomes, Ended,
      Outcome, NotEnded, Ledger!LedgerNext, Ledger!ledger, Ledger!Open, Ledger!Work,
      Ledger!Reopen, Ledger!Outcome, Ledger!Working
<1>1. ASSUME OpenTurn PROVE [Ledger!LedgerNext]_(Ledger!ledger)
  BY <1>1 DEF OpenTurn, NoCancel, NotEnded
<1>2. ASSUME SetupFails PROVE [Ledger!LedgerNext]_(Ledger!ledger)
  <2>1. /\ phase # "idle"
        /\ \E state \in Ended, how \in {"settled", "abandoned", "killed"} :
             /\ outcome' = [outcome EXCEPT ![turn] = [state |-> state, how |-> how]]
             /\ status' = state /\ UNCHANGED turn
    BY <1>2 DEF SetupFails, EndKilled, End
  <2> HIDE DEF TypeOK, InTurn, place, clock, locals, delivery, adapter, vars, Turn, Stage, Outcomes, Ended, Outcome, NotEnded, Ledger!LedgerNext, Ledger!ledger, Ledger!Open, Ledger!Work, Ledger!Reopen, Ledger!Outcome, Ledger!Working
  <2> QED
    BY <2>1, EndCloses DEF Ledger!LedgerNext
<1>3. ASSUME MarkRunning PROVE [Ledger!LedgerNext]_(Ledger!ledger)
  BY <1>3 DEF MarkRunning
<1>4. ASSUME FinishSetup PROVE [Ledger!LedgerNext]_(Ledger!ledger)
  <2>1. CASE EndPreparation("settled")
    <3>1. /\ phase # "idle" /\ "canceled" \in Ended /\ status' = "canceled" /\ UNCHANGED turn
          /\ outcome' = [outcome EXCEPT ![turn] = [state |-> "canceled", how |-> "settled"]]
      BY <1>4, <2>1 DEF FinishSetup, EndPreparation, End
    <3> HIDE DEF TypeOK, InTurn, place, clock, locals, delivery, adapter, vars, Turn, Stage, Outcomes, Ended, Outcome, NotEnded, Ledger!LedgerNext, Ledger!ledger, Ledger!Open, Ledger!Work, Ledger!Reopen, Ledger!Outcome, Ledger!Working
    <3> QED
      BY <3>1, EndCloses DEF Ledger!LedgerNext
  <2>2. CASE UNCHANGED <<turn, status, outcome>>
    BY <2>2
  <2> QED
    BY <1>4, <2>1, <2>2 DEF FinishSetup
<1>5. ASSUME SendPrompt PROVE [Ledger!LedgerNext]_(Ledger!ledger)
  BY <1>5 DEF SendPrompt
<1>6. ASSUME Frame PROVE [Ledger!LedgerNext]_(Ledger!ledger)
  BY <1>6 DEF Frame, Observe
<1>7. ASSUME Collect PROVE [Ledger!LedgerNext]_(Ledger!ledger)
  <2>1. CASE Hold
    BY <1>7, <2>1, CollectCases DEF Hold
  <2>2. ASSUME NEW state \in Ended, Ends(state, "settled")
        PROVE  [Ledger!LedgerNext]_(Ledger!ledger)
    <3>1. phase # "idle"
      BY <1>7, CollectCases
    <3> HIDE DEF TypeOK, InTurn, place, clock, locals, delivery, adapter, vars, Turn, Stage, Outcomes, Ended, Outcome, NotEnded, Ledger!LedgerNext, Ledger!ledger, Ledger!Open, Ledger!Work, Ledger!Reopen, Ledger!Outcome, Ledger!Working
    <3> QED
      BY <2>2, <3>1, EndCloses DEF Ends, Ledger!LedgerNext
  <2> HIDE DEF TypeOK, InTurn, place, clock, locals, delivery, adapter, vars, Turn, Stage, Outcomes, Ended, Outcome, NotEnded, Ledger!LedgerNext, Ledger!ledger, Ledger!Open, Ledger!Work, Ledger!Reopen, Ledger!Outcome, Ledger!Working
  <2> QED
    BY <1>7, <2>1, <2>2, CollectCases
<1>8. ASSUME DispatchCancel PROVE [Ledger!LedgerNext]_(Ledger!ledger)
  BY <1>8 DEF DispatchCancel, Request, TellAdapter
<1>9. ASSUME AbandonPrompt PROVE [Ledger!LedgerNext]_(Ledger!ledger)
  <2>1. /\ phase # "idle"
        /\ \E state \in Ended, how \in {"settled", "abandoned", "killed"} :
             /\ outcome' = [outcome EXCEPT ![turn] = [state |-> state, how |-> how]]
             /\ status' = state /\ UNCHANGED turn
    BY <1>9 DEF AbandonPrompt, EndLoop, StateFor, End
  <2> HIDE DEF TypeOK, InTurn, place, clock, locals, delivery, adapter, vars, Turn, Stage, Outcomes, Ended, Outcome, NotEnded, Ledger!LedgerNext, Ledger!ledger, Ledger!Open, Ledger!Work, Ledger!Reopen, Ledger!Outcome, Ledger!Working
  <2> QED
    BY <2>1, EndCloses DEF Ledger!LedgerNext
<1>10. ASSUME DropHold PROVE [Ledger!LedgerNext]_(Ledger!ledger)
  <2>1. /\ phase # "idle"
        /\ \E state \in Ended, how \in {"settled", "abandoned", "killed"} :
             /\ outcome' = [outcome EXCEPT ![turn] = [state |-> state, how |-> how]]
             /\ status' = state /\ UNCHANGED turn
    BY <1>10 DEF DropHold, EndLoop, StateFor, End
  <2> HIDE DEF TypeOK, InTurn, place, clock, locals, delivery, adapter, vars, Turn, Stage, Outcomes, Ended, Outcome, NotEnded, Ledger!LedgerNext, Ledger!ledger, Ledger!Open, Ledger!Work, Ledger!Reopen, Ledger!Outcome, Ledger!Working
  <2> QED
    BY <2>1, EndCloses DEF Ledger!LedgerNext
<1>11. ASSUME WakeUp PROVE [Ledger!LedgerNext]_(Ledger!ledger)
  BY <1>11 DEF WakeUp
<1>12. ASSUME Resume PROVE [Ledger!LedgerNext]_(Ledger!ledger)
  BY <1>12 DEF Resume
<1>13. ASSUME Tick PROVE [Ledger!LedgerNext]_(Ledger!ledger)
  BY <1>13 DEF Tick, WaitingOnClock
<1>14. ASSUME CancelTurn PROVE [Ledger!LedgerNext]_(Ledger!ledger)
  <2>1. CASE UNCHANGED place
    BY <2>1
  <2>2. ASSUME NEW state \in Ended, NEW how \in {"settled", "killed"}, Ends(state, how)
        PROVE  [Ledger!LedgerNext]_(Ledger!ledger)
    <3>1. phase # "idle"
      BY <1>14, CancelCases
    <3> HIDE DEF TypeOK, InTurn, place, clock, locals, delivery, adapter, vars, Turn, Stage, Outcomes, Ended, Outcome, NotEnded, Ledger!LedgerNext, Ledger!ledger, Ledger!Open, Ledger!Work, Ledger!Reopen, Ledger!Outcome, Ledger!Working
    <3> QED
      BY <2>2, <3>1, EndCloses DEF Ends, Ledger!LedgerNext
  <2> HIDE DEF TypeOK, InTurn, place, clock, locals, delivery, adapter, vars, Turn, Stage, Outcomes, Ended, Outcome, NotEnded, Ledger!LedgerNext, Ledger!ledger, Ledger!Open, Ledger!Work, Ledger!Reopen, Ledger!Outcome, Ledger!Working
  <2> QED
    BY <1>14, <2>1, <2>2, CancelCases
<1>15. ASSUME StopDaemon PROVE [Ledger!LedgerNext]_(Ledger!ledger)
  <2>1. /\ phase # "idle"
        /\ \E state \in Ended, how \in {"settled", "abandoned", "killed"} :
             /\ outcome' = [outcome EXCEPT ![turn] = [state |-> state, how |-> how]]
             /\ status' = state /\ UNCHANGED turn
    BY <1>15 DEF StopDaemon, EndInterrupted, EndPreparation, EndKilled, Request, End
  <2> HIDE DEF TypeOK, InTurn, place, clock, locals, delivery, adapter, vars, Turn, Stage, Outcomes, Ended, Outcome, NotEnded, Ledger!LedgerNext, Ledger!ledger, Ledger!Open, Ledger!Work, Ledger!Reopen, Ledger!Outcome, Ledger!Working
  <2> QED
    BY <2>1, EndCloses DEF Ledger!LedgerNext
<1>16. ASSUME DenySwitch PROVE [Ledger!LedgerNext]_(Ledger!ledger)
  BY <1>16 DEF DenySwitch, Request
<1>17. ASSUME Steer PROVE [Ledger!LedgerNext]_(Ledger!ledger)
  BY <1>17 DEF Steer
<1>18. ASSUME CancelForeign PROVE [Ledger!LedgerNext]_(Ledger!ledger)
  BY <1>18 DEF CancelForeign
<1>19. ASSUME SteerTimesOut PROVE [Ledger!LedgerNext]_(Ledger!ledger)
  BY <1>19 DEF SteerTimesOut
<1>20. ASSUME SteerArrives PROVE [Ledger!LedgerNext]_(Ledger!ledger)
  BY <1>20 DEF SteerArrives
<1>21. ASSUME AdapterDies PROVE [Ledger!LedgerNext]_(Ledger!ledger)
  BY <1>21 DEF AdapterDies
<1>22. ASSUME NEW p \in Prompt, Chunk(p) PROVE [Ledger!LedgerNext]_(Ledger!ledger)
  BY <1>22 DEF Chunk
<1>23. ASSUME NEW p \in Prompt, Answers(p) PROVE [Ledger!LedgerNext]_(Ledger!ledger)
  BY <1>23 DEF Answers, Awaited
<1> HIDE DEF TypeOK, InTurn, place, clock, locals, delivery, adapter, vars, Turn,
      Stage, Outcomes, Ended, Outcome, NotEnded, Ledger!LedgerNext, Ledger!ledger,
      Ledger!Open, Ledger!Work, Ledger!Reopen, Ledger!Outcome, Ledger!Working
<1> QED
  BY <1>1, <1>2, <1>3, <1>4, <1>5, <1>6, <1>7, <1>8, <1>9, <1>10, <1>11, <1>12, <1>13,
    <1>14, <1>15, <1>16, <1>17, <1>18, <1>19, <1>20, <1>21, <1>22, <1>23 DEF Next,
    Loop, Others, Adapter

LEMMA LoopInit == Init => LoopInv
<1> SUFFICES ASSUME Init PROVE LoopInv
  OBVIOUS
<1>1. NotEnded \in Outcome
  BY DEF NotEnded, Outcome
<1>2. TypeOK
  <2>1. PlaceOK
    BY <1>1, BoundsAssumption DEF Init, PlaceOK, Phase, Reasons, Reply
  <2>2. CancelOK /\ LocalsOK
    BY DEF Init, CancelOK, LocalsOK, NoCancel, Reply
  <2>3. DeliveryOK /\ AdapterOK
    BY DEF Init, DeliveryOK, AdapterOK
  <2> QED
    BY <2>1, <2>2, <2>3, TypeParts
<1>3. Stage
  BY BoundsAssumption DEF Init, Stage, InTurn, Requested, NoCancel
<1>4. Outcomes
  BY BoundsAssumption DEF Init, Outcomes, Turn
<1>5. InFlight /\ Strays
  BY DEF Init, InFlight, Strays
<1>6. Waits
  BY TimersAssumption DEF Init, Waits
<1>7. Markers /\ Cancels
  BY DEF Init, Markers, DeliveryRecorded, Cancels, CanceledOnRequest, InTurn, NoCancel
<1> QED
  BY <1>2, <1>3, <1>4, <1>5, <1>6, <1>7 DEF LoopInv

LEMMA LoopStep == LoopInv /\ [Next]_vars => LoopInv'
<1> SUFFICES ASSUME LoopInv, [Next]_vars PROVE LoopInv'
  OBVIOUS
<1> USE DEF LoopInv
<1>1. CASE Next
  <2>1. TypeOK'
    <3>1. PlaceOK /\ CancelOK /\ LocalsOK /\ DeliveryOK /\ AdapterOK
      BY TypeParts
    <3>2. PlaceOK' /\ CancelOK' /\ LocalsOK' /\ DeliveryOK' /\ AdapterOK'
      BY <1>1, <3>1, PlaceTypeStep, CancelTypeStep, LocalsTypeStep, DeliveryTypeStep,
        AdapterTypeStep
    <3> QED
      BY <3>2 DEF TypeOK, Reasons, PlaceOK, CancelOK, LocalsOK, DeliveryOK, AdapterOK
  <2> QED
    BY <1>1, <2>1, StageStep, OutcomesStep, InFlightStep, StraysStep, WaitsStep,
      MarkersStep, CancelsStep
<1>2. CASE UNCHANGED vars
  <2> USE <1>2 DEF vars, place, locals, clock, delivery, adapter
  <2>1. TypeOK'
    BY DEF TypeOK
  <2>2. Stage' /\ Outcomes'
    BY DEF Stage, Outcomes, InTurn, Requested
  <2>3. InFlight' /\ Strays'
    BY DEF InFlight, GivenUp, Strays, Current
  <2>4. Waits' /\ Markers' /\ Cancels'
    BY DEF Waits, Markers, Cancels, DeliveryRecorded, CanceledOnRequest, InTurn, Requested
  <2> QED
    BY <2>1, <2>2, <2>3, <2>4
<1> QED
  BY <1>1, <1>2

\* The types, and all that the properties below rest on, in every reachable state.
THEOREM LoopInvariant == Spec => []LoopInv
<1>1. Init => LoopInv
  BY LoopInit
<1>2. LoopInv /\ [Next]_vars => LoopInv'
  BY LoopStep
<1> QED
  BY <1>1, <1>2, PTL DEF Spec

\* Every variable of the loop keeps its type.
THEOREM LoopTypes == Spec => []TypeOK
<1>1. LoopInv => TypeOK
  BY DEF LoopInv
<1> QED
  BY <1>1, LoopInvariant, PTL

\* No text of an earlier turn reaches an answer but of a prompt that was given up
\* (_await_prompt, _MultiplexClient.bind).
THEOREM AnswersAreOwn == Spec => []AnswerOfOwnTurn
<1>1. LoopInv => AnswerOfOwnTurn
  BY DEF LoopInv, Strays, AnswerOfOwnTurn
<1> QED
  BY <1>1, LoopInvariant, PTL

\* However turns end, the adapter is left with no prompt that was not told to
\* stop, save those of killed tasks, and works on one prompt of the turn at most.
THEOREM NothingLeft == Spec => []NothingLeftRunning
<1>1. ASSUME LoopInv PROVE NothingLeftRunning
  <2>1. ASSUME NEW p \in inflight \ told
        PROVE  p = Foreign \/ (p[1] = turn /\ InTurn) \/ outcome[p[1]].how = "killed"
    BY <1>1, <2>1 DEF LoopInv, InFlight, GivenUp, InTurn
  <2>2. Cardinality({p \in inflight : p[1] = turn}) <= 1
    <3> DEFINE S == {p \in inflight : p[1] = turn}
    <3>1. CASE S = {}
      BY <3>1, FS_EmptySet
    <3>2. CASE S # {}
      <4>1. PICK p \in S : S = {p}
        BY <1>1, <3>2 DEF LoopInv, InFlight
      <4> QED
        BY <4>1, FS_Singleton
    <3> QED
      BY <3>1, <3>2
  <2> QED
    BY <2>1, <2>2 DEF NothingLeftRunning
<1> QED
  BY <1>1, LoopInvariant, PTL

\* A session that reads `waiting` has no prompt of its turn in the adapter and
\* says that it goes on by itself; an ended turn says so no longer.
THEOREM WaitingIsQuietAlways == Spec => []WaitingIsQuiet
<1>1. LoopInv => WaitingIsQuiet
  BY DEF LoopInv, TypeOK, Phase, Stage, Ended, InFlight, WaitingIsQuiet, InTurn
<1> QED
  BY <1>1, LoopInvariant, PTL

\* The holds of a turn add up to limit_wait_max and one cushion at most, unless a
\* limit named a reset that had passed (_limit_action).
THEOREM WaitsCapped == Spec => []WaitWithinCap
<1>1. LoopInv => WaitWithinCap
  BY DEF LoopInv, Waits, WaitWithinCap
<1> QED
  BY <1>1, LoopInvariant, PTL

\* A turn whose last prompt was seen leaving has its delivery on record, or is
\* marked incomplete, or was killed (PromptDelivery).
THEOREM DeliveriesRecorded == Spec => []DeliveryRecorded
<1>1. LoopInv => DeliveryRecorded
  BY DEF LoopInv, Markers
<1> QED
  BY <1>1, LoopInvariant, PTL

\* No turn is recorded as canceled unasked but for one whose last prompt the
\* adapter answered with `cancelled`, and that one always is
\* (_state_for_stop_reason, normalize_stop_reason).
THEOREM CanceledWhenAsked == Spec => []CanceledOnRequest
<1>1. LoopInv => CanceledOnRequest
  BY DEF LoopInv, Cancels
<1> QED
  BY <1>1, LoopInvariant, PTL

\* The stop that came first names the outcome, whatever stops come later and
\* whatever the adapter answers (_CancelSignal.request).
THEOREM FirstStopWins == Spec => FirstStopNamesOutcome
<1>1. LoopInv /\ [Next]_vars =>
        [(Requested /\ phase # "idle" /\ phase' = "idle") =>
            outcome'[turn].state = cancel.state \/ reason' = "preparation"]_vars
  BY FirstStopStep DEF LoopInv, StopNamesOutcome
<1> QED
  BY <1>1, LoopInvariant, PTL DEF Spec, FirstStopNamesOutcome

\* Read from outside, the turns of the loop follow TurnLedger: holds for a limit,
\* then one outcome each, for good.
THEOREM LoopRefinement == Spec => Implements
<1>1. Init => Ledger!LedgerInit
  BY DEF Init, NotEnded, Turn, Ledger!LedgerInit, Ledger!Blank
<1>2. LoopInv /\ [Next]_vars => [Ledger!LedgerNext]_(Ledger!ledger)
  <2> SUFFICES ASSUME LoopInv, [Next]_vars PROVE [Ledger!LedgerNext]_(Ledger!ledger)
    OBVIOUS
  <2>1. CASE Next
    BY <2>1, LedgerStep DEF LoopInv
  <2>2. CASE UNCHANGED vars
    BY <2>2 DEF vars, place, Ledger!ledger
  <2> QED
    BY <2>1, <2>2
<1> QED
  BY <1>1, <1>2, LoopInvariant, PTL DEF Spec, Implements, Ledger!LedgerSpec

=============================================================================
