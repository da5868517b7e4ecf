----------------------------- MODULE TurnLedger -----------------------------
(***************************************************************************)
(* What a session promises those who only read it: `status`, `wait` and    *)
(* the other clients.  A session opens one turn after the other; a turn is *)
(* active until it gets its one outcome; the outcome is on record as long  *)
(* as the session is, whatever turn came since; and a removed session      *)
(* never comes back.  SessionStore implements this with its files.         *)
(***************************************************************************)
EXTENDS Integers

CONSTANT MaxTurn    \* bound: turns the session is continued to

VARIABLES
    turn,       \* the turn the session is at, 0 before the first
    status,     \* its status
    record      \* what a reader learns about each turn

ledger == <<turn, status, record>>
Outcome == {"succeeded", "failed", "canceled", "unknown"}
Working == {"starting", "running", "waiting"}
Blank == [n \in 1..MaxTurn |-> "none"]

LedgerInit == turn = 0 /\ status = "none" /\ record = Blank

Open ==
    /\ status = "none"
    /\ turn' = 1 /\ status' = "starting"
    /\ UNCHANGED record

\* The host records itself; a turn holds for a limit and resumes.
Work ==
    /\ \/ status \in {"starting", "waiting"} /\ status' = "running"
       \/ status = "running" /\ status' = "waiting"
    /\ UNCHANGED <<turn, record>>

Close ==
    /\ status \in Working
    /\ status' \in Outcome
    /\ record' = [record EXCEPT ![turn] = status']
    /\ UNCHANGED turn

Reopen ==
    /\ status \in Outcome /\ turn < MaxTurn
    /\ turn' = turn + 1 /\ status' = "running"
    /\ UNCHANGED record

Remove ==
    /\ status \in Outcome
    /\ status' = "gone" /\ record' = Blank
    /\ UNCHANGED turn

LedgerNext == Open \/ Work \/ Close \/ Reopen \/ Remove
LedgerSpec == LedgerInit /\ [][LedgerNext]_ledger

=============================================================================
