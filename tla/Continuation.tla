----------------------------- MODULE Continuation -----------------------------
(***************************************************************************)
(* The preparation of a continued turn, by a daemon or by the direct path: *)
(* the claim of the session (rotation), the check that the adapter still   *)
(* has the conversation it is resumed with, and what a failure before the  *)
(* prompt leaves on disk.  The daemon rotates first and undoes the claim   *)
(* from a snapshot of the directory, file by file; the direct path holds   *)
(* the session's lock and rotates after the checks.  The session has two   *)
(* turns behind it; only the files of the second and third are told apart. *)
(***************************************************************************)
EXTENDS Naturals, Sequences, FiniteSets

VARIABLES
    route,      \* "none", then "daemon", "warm" (the daemon has it) or "direct"
    asked,      \* what the adapter offers and what it kept of the conversation
    files,      \* the directory: content of each file, 0: absent
    snapshot,   \* _PreparationBackup
    prep,       \* how far the preparation is
    checks      \* outcome of list and replay: "unchecked", "passed", "failed"

cvars == <<route, asked, files, snapshot, prep, checks>>

Files == {"meta", "answer", "prompt", "metaParked", "answerParked", "promptParked"}
\* meta.json holds its turn and state: 2 finished, 3 active, 4: 3 finished.
Finished2 == 2
Active3 == 3
Finished3 == 4
Before == [f \in Files |-> CASE f = "meta" -> Finished2 [] f \in {"answer", "prompt"} -> 2
                             [] OTHER -> 0]
RotatedFiles ==
    [f \in Files |-> CASE f = "meta" -> Active3 [] f = "prompt" -> 3 [] f = "answer" -> 0
                       [] f = "metaParked" -> Finished2 [] OTHER -> 2]

\* The prompts that were delivered are looked for in the replay, in order.
FoundInOrder(expected, replayed) ==
    \E at \in [1..Len(expected) -> 1..Len(replayed)] :
        /\ \A i \in 1..Len(expected) : replayed[at[i]] = expected[i]
        /\ \A i, j \in 1..Len(expected) : i < j => at[i] < at[j]
\* What was recorded as delivered, and what the adapter makes of it: nothing
\* is recorded when the record could not be written.
Conversations == {<<>>, <<1>>, <<2>>, <<1, 2>>, <<2, 1>>, <<1, 1, 2>>}
Offers == [delivered : {<<>>, <<2>>, <<1, 2>>}, kept : Conversations,
           list : {"absent", "listed", "missing", "other cwd"}, replay : BOOLEAN]

\* verify_listed_adapter_session.
ListCheck == CASE asked.list = "absent" -> "unchecked"
               [] asked.list = "listed" -> "passed"
               [] OTHER -> "failed"
\* verify_replayed_prompts; a replay without user messages is no evidence.
ReplayCheck ==
    IF ~asked.replay \/ asked.delivered = <<>> \/ asked.kept = <<>> THEN "unchecked"
    ELSE IF FoundInOrder(asked.delivered, asked.kept) THEN "passed" ELSE "failed"
\* Both checks are made before either's error is raised.
Passes(c) == c.list # "failed" /\ c.replay # "failed"

----------------------------------------------------------------------------
\* A cold adapter, with any history, and the route.
AskContinue ==
    /\ prep = "idle"
    /\ route' \in {"daemon", "warm", "direct"}
    /\ asked' \in Offers
    /\ prep' = "asked"
    /\ UNCHANGED <<files, snapshot, checks>>

\* The daemon's claim: the snapshot, then the rotation, in one lock.
TakenAfter == RotatedFiles                      \* mutant: in the wrong order
Taken == files
Claim ==
    /\ prep = "asked" /\ route # "direct"
    /\ snapshot' = Taken
    /\ files' = RotatedFiles
    /\ prep' = IF route = "warm" THEN "ready" ELSE "restoring"
    /\ UNCHANGED <<route, asked, checks>>
\* The direct path checks first, under the reservation.
ReserveDirect ==
    /\ prep = "asked" /\ route = "direct"
    /\ prep' = "restoring"
    /\ UNCHANGED <<route, asked, files, snapshot, checks>>

\* verify_adapter_resume; the restore itself may fail as well.
Verify2 ==
    /\ prep = "restoring"
    /\ checks' = [list |-> ListCheck, replay |-> ReplayCheck]
    /\ \/ prep' = IF ~Passes(checks') THEN "refused"
                  ELSE IF route = "direct" THEN "verified" ELSE "ready"
       \/ prep' = "refused"
    /\ UNCHANGED <<route, asked, files, snapshot>>
\* _prepare_resumed_turn, and its failure after the claim.
RotateVerified ==
    /\ prep = "verified"
    /\ \/ files' = RotatedFiles /\ prep' = "ready"
       \/ files' = [RotatedFiles EXCEPT !["meta"] = Finished3] /\ prep' = "over"
    /\ UNCHANGED <<route, asked, snapshot, checks>>

\* _rollback_preparation: files the snapshot has not are unlinked, then every
\* file it has is written again.
Undo ==
    /\ prep = "refused"
    /\ prep' = IF route = "direct" THEN "over" ELSE "unlinking"
    /\ UNCHANGED <<route, asked, files, snapshot, checks>>
Extra == {f \in Files : files[f] # 0 /\ snapshot[f] = 0}
UnlinkOne ==
    /\ prep = "unlinking"
    /\ IF Extra = {} THEN prep' = "rewriting" /\ UNCHANGED files
       ELSE \E f \in Extra : files' = [files EXCEPT ![f] = 0] /\ UNCHANGED prep
    /\ UNCHANGED <<route, asked, snapshot, checks>>
RewriteOne ==
    /\ prep = "rewriting"
    /\ IF files = snapshot THEN prep' = "over" /\ UNCHANGED files
       ELSE \E f \in {g \in Files : files[g] # snapshot[g]} :
                files' = [files EXCEPT ![f] = snapshot[f]] /\ UNCHANGED prep
    /\ UNCHANGED <<route, asked, snapshot, checks>>

\* Call options are set and the prompt goes out, or setup fails, or the turn
\* is canceled while it is prepared: turn 3 then has an outcome of its own.
PromptIt ==
    /\ prep = "ready"
    /\ prep' = "prompted"
    /\ UNCHANGED <<route, asked, files, snapshot, checks>>
EndsAsTurn3 ==
    /\ \/ prep = "ready"
       \/ prep = "restoring" /\ route = "daemon"        \* canceled: not undone
    /\ files' = [files EXCEPT !["meta"] = Finished3, !["answer"] = 3]
    /\ prep' = "over"
    /\ UNCHANGED <<route, asked, snapshot, checks>>
\* The process is killed.
KillPreparation ==
    /\ prep \notin {"idle", "over", "killed"}
    /\ prep' = "killed"
    /\ UNCHANGED <<route, asked, files, snapshot, checks>>

----------------------------------------------------------------------------
ContinuationInit ==
    /\ route = "none" /\ files = Before /\ snapshot = Before /\ prep = "idle"
    /\ asked = [delivered |-> <<>>, kept |-> <<>>, list |-> "absent", replay |-> FALSE]
    /\ checks = [list |-> "unchecked", replay |-> "unchecked"]
ContinuationNext ==
    \/ AskContinue \/ Claim \/ ReserveDirect \/ Verify2 \/ RotateVerified \/ Undo
    \/ UnlinkOne \/ RewriteOne \/ PromptIt \/ EndsAsTurn3 \/ KillPreparation
ContinuationSpec == ContinuationInit /\ [][ContinuationNext]_cvars

----------------------------------------------------------------------------
\* A preparation that is over leaves no claim behind: the session is finished,
\* with everything as it was before or with an outcome of the new turn.
NothingClaimed ==
    prep = "over" => files = Before \/ files["meta"] = Finished3
=============================================================================
