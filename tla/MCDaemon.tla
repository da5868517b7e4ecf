------------------------------ MODULE MCDaemon ------------------------------
(***************************************************************************)
(* A small instance of Daemon: three commands on two sessions.  Each plan  *)
(* is a meeting the code has to survive: a new turn with its observers,    *)
(* two continuations of one session, two sessions at the only slot.        *)
(***************************************************************************)
EXTENDS Daemon, TLC

CONSTANTS s1, s2, c1, c2, c3

Plan(x, y, z) == c1 :> x @@ c2 :> y @@ c3 :> z
MCPlans == {
    Plan(<<"wait", s1>>, <<"cancel", s1>>, <<"run", s1>>),
    Plan(<<"continue", s1>>, <<"continue", s1>>, <<"wait", s1>>),
    Plan(<<"wait", s1>>, <<"cancel", s1>>, <<"continue", s1>>),
    Plan(<<"continue", s1>>, <<"continue", s1>>, <<"cancel", s1>>),
    Plan(<<"run", s1>>, <<"continue", s2>>, <<"cancel", s2>>)}
=============================================================================
