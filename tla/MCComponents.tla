----------------------------- MODULE MCComponents -----------------------------
(***************************************************************************)
(* The components that share no state at the level they are modelled on,   *)
(* checked in one run: `part` names the component whose steps a behaviour   *)
(* consists of, all the others stay as they began.                         *)
(***************************************************************************)
EXTENDS Prune, Spawn, Continuation, Transcript, Replay, Answer, Permissions, Usage, Steer,
        Route, Settings

VARIABLE part

Parts == {"prune", "spawn", "continuation", "transcript", "replay", "answer", "permissions",
          "usage", "steer", "route", "settings"}
Whole == <<pvars, svars, cvars, tvars, rvars, avars, permvars, uvars, stvars, rtvars, setvars>>

CommandKinds == <<{"prune"}, {"prune", "delete"}, {"continue", "run"}>>
BuildsOf == {<<"a", "a", "b">>, <<"a", "a", "a">>}
\* A read-only mode with a judge, a plain one for `execute`, one that is not
\* for selection.
Modes3 == <<[grants |-> 1, delegates |-> TRUE, selectable |-> TRUE],
            [grants |-> 3, delegates |-> FALSE, selectable |-> TRUE],
            [grants |-> 4, delegates |-> TRUE, selectable |-> FALSE]>>

Init ==
    /\ part \in Parts
    /\ PruneInit /\ SpawnInit /\ ContinuationInit /\ TranscriptInit /\ ReplayInit
    /\ AnswerInit /\ PermissionsInit /\ UsageInit /\ SteerInit /\ RouteInit
    /\ SettingsInit
    \* which builds the dialers are matters to their own component only
    /\ part = "spawn" \/ \A c, d \in Dialers : dialer[c].build = dialer[d].build
Next ==
    /\ UNCHANGED part
    /\ \/ part = "prune" /\ PruneNext
          /\ UNCHANGED <<svars, cvars, tvars, rvars, avars, permvars, uvars, stvars, rtvars, setvars>>
       \/ part = "spawn" /\ SpawnNext
          /\ UNCHANGED <<pvars, cvars, tvars, rvars, avars, permvars, uvars, stvars, rtvars, setvars>>
       \/ part = "continuation" /\ ContinuationNext
          /\ UNCHANGED <<pvars, svars, tvars, rvars, avars, permvars, uvars, stvars, rtvars, setvars>>
       \/ part = "transcript" /\ TranscriptNext
          /\ UNCHANGED <<pvars, svars, cvars, rvars, avars, permvars, uvars, stvars, rtvars, setvars>>
       \/ part = "replay" /\ ReplayNext
          /\ UNCHANGED <<pvars, svars, cvars, tvars, avars, permvars, uvars, stvars, rtvars, setvars>>
       \/ part = "answer" /\ AnswerNext
          /\ UNCHANGED <<pvars, svars, cvars, tvars, rvars, permvars, uvars, stvars, rtvars, setvars>>
       \/ part = "permissions" /\ PermissionsNext
          /\ UNCHANGED <<pvars, svars, cvars, tvars, rvars, avars, uvars, stvars, rtvars, setvars>>
       \/ part = "usage" /\ UsageNext
          /\ UNCHANGED <<pvars, svars, cvars, tvars, rvars, avars, permvars, stvars, rtvars, setvars>>
       \/ part = "steer" /\ SteerNext
          /\ UNCHANGED <<pvars, svars, cvars, tvars, rvars, avars, permvars, uvars, rtvars, setvars>>
       \/ part = "route" /\ RouteNext
          /\ UNCHANGED <<pvars, svars, cvars, tvars, rvars, avars, permvars, uvars, stvars, setvars>>
       \/ part = "settings" /\ SettingsNext
          /\ UNCHANGED <<pvars, svars, cvars, tvars, rvars, avars, permvars, uvars, stvars, rtvars>>
Spec == Init /\ [][Next]_<<part, Whole>>
=============================================================================
