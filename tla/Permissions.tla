----------------------------- MODULE Permissions -----------------------------
(***************************************************************************)
(* Permission policies: how a call settles one (cli.py), the vendor mode it *)
(* selects (permissions.py), what the running turn answers to the requests *)
(* of its adapter (client.py), and the ceiling that reaches the calls made *)
(* from inside a turn.  The ceiling travels in the environment of the      *)
(* adapter process, which is fixed when the process is spawned: a daemon   *)
(* serves a call with a warm adapter only if their target is the same.     *)
(***************************************************************************)
EXTENDS Naturals, FiniteSets, Sequences

CONSTANTS
    Calls,          \* sessions, each dispatched or continued with any policy
    Policies,       \* the policies that occur
    MaxCalls,       \* bound on the continuations that wait
    Catalog         \* the adapter's [modes] in order: grants, delegates, selectable

ASSUME PermissionsAssumption ==
    /\ Policies \subseteq 0..5
    /\ Catalog \in Seq([grants : 0..4, delegates : BOOLEAN, selectable : BOOLEAN])

VARIABLES
    stored,     \* what a session keeps between its turns: policy and mode
    turn,       \* the running turn of each session
    warm,       \* adapters that are up: the target's policy and their ceiling
    calls       \* continuations that were built and did not open their turn yet

permvars == <<stored, turn, warm, calls>>

\* The scale none < read < edit < execute < all, and ask beside it.
None0 == 0
Read1 == 1
All4 == 4
Ask == 5
\* Categories are named by the policy that allows them; 4: unknown.
Categories == Read1..All4
CeilingOf(policy) == IF policy = Ask THEN Read1 ELSE policy

\* should_allow, for what needs no question.
Allows(policy, category) == category <= CeilingOf(policy)
Asks(policy, category) == policy = Ask /\ category > Read1

\* select_mode.  A mode that is not in the table is one more than its length.
Undeclared == Len(Catalog) + 1
Grants(mode) == IF mode = Undeclared THEN All4 ELSE Catalog[mode].grants
Admits(policy, mode) ==
    IF mode = Undeclared THEN policy = All4 ELSE Catalog[mode].grants <= CeilingOf(policy)
Survivors(policy) ==
    {m \in DOMAIN Catalog : Catalog[m].selectable /\ Admits(policy, m)}
Better(m, n) ==
    \/ Catalog[m].delegates /\ ~Catalog[n].delegates
    \/ /\ Catalog[m].delegates = Catalog[n].delegates
       /\ \/ Catalog[m].grants > Catalog[n].grants
          \/ Catalog[m].grants = Catalog[n].grants /\ m < n
Selected(policy) ==
    {m \in Survivors(policy) : \A n \in Survivors(policy) \ {m} : Better(m, n)}
Modes(policy, explicit) ==
    IF explicit = 0 THEN Selected(policy) ELSE {m \in {explicit} : Admits(policy, m)}

\* _clamp_inherited_ceiling: no policy, or the one that is in effect.
Clamped(policy, ceiling) ==
    IF policy = Ask THEN (IF ceiling = All4 THEN {Ask} ELSE {})
    ELSE {IF policy > ceiling THEN ceiling ELSE policy}

----------------------------------------------------------------------------
\* The adapter of a turn: the warm one of its target, or a new process, whose
\* environment is built for this call.  A direct turn has one of its own.
TargetForgets(policy) == 0                      \* mutant: not part of the key
Target(policy) == policy
Environment(policy) == [target |-> Target(policy), ceiling |-> CeilingOf(policy)]
Adapters(policy) ==
    LET same == {a \in warm : a.target = Target(policy)} IN
    IF same # {} THEN same ELSE {Environment(policy)}
NoTurn == [phase |-> "none"]
Runs1(s) == turn[s].phase # "none"
\* A caller is a person, or the running turn of another session, with the
\* ceiling in its adapter's environment; `within` is what that turn itself may,
\* or what its adapter was started for when it opened under another policy.
Callers(s) ==
    {[ceiling |-> All4, within |-> All4, person |-> TRUE]} \cup
    {[ceiling |-> turn[p].adapter.ceiling, person |-> FALSE,
      within |-> IF turn[p].overtaken THEN turn[p].adapter.ceiling
                 ELSE CeilingOf(turn[p].policy)] : p \in {q \in Calls \ {s} : Runs1(q)}}

\* A call settles policy and mode and asks for the adapter of that policy; its
\* turn opens in a later step.
Begin(s, call, policy, mode) ==
    /\ \E adapter \in Adapters(call.policy) :
        /\ turn' = [turn EXCEPT ![s] = [phase |-> "running", policy |-> policy, mode |-> mode,
                                        adapter |-> adapter, within |-> call.within,
                                        overtaken |-> call.policy # policy]]
        /\ warm' = warm \cup {adapter}
    /\ stored' = [stored EXCEPT ![s] = [policy |-> policy, mode |-> mode, known |-> TRUE]]

\* run: the flag, the entry's policy or the default; ask needs someone there.
\* Nobody else knows the session before its turn has opened.
RunCall(s) ==
    /\ ~Runs1(s) /\ ~stored[s].known
    /\ \E caller \in Callers(s), wanted \in Policies, explicit \in 0..Undeclared :
        \E policy \in Clamped(wanted, caller.ceiling) :
            /\ policy = Ask => caller.person
            /\ \E mode \in Modes(policy, explicit) :
                Begin(s, [policy |-> policy, within |-> caller.within], policy, mode)
    /\ UNCHANGED calls
\* _prepare_resumed_turn: the turn opens with the call's selection, or with what
\* is stored by then; the adapter is the one the call asked for.
Resume(call) ==
    LET s == call.session IN
    /\ ~Runs1(s)
    /\ IF call.changes THEN Begin(s, call, call.policy, call.mode)
       ELSE Begin(s, call, stored[s].policy, stored[s].mode)
\* continue: the stored policy or --permissions; the mode is selected again only
\* for a changed or a clamped policy, keeping one that was asked for by name.
\* Such a selection replaces what is stored when the turn opens (_follow_up_request),
\* which may be at once or after the steps of others.
ContinueCall(s) ==
    /\ ~Runs1(s) /\ stored[s].known
    /\ \E caller \in Callers(s), flag \in {"none", "given"} :
       \E wanted \in (IF flag = "given" THEN Policies ELSE {stored[s].policy}) :
       \E policy \in Clamped(wanted, caller.ceiling) :
            /\ policy = Ask => caller.person
            /\ \E explicit \in {0, stored[s].mode} :
                LET again == flag = "given" \/ policy # wanted IN
                \E mode \in (IF again THEN Modes(policy, explicit) ELSE {stored[s].mode}) :
                    LET call == [session |-> s, policy |-> policy, mode |-> mode,
                                 changes |-> again, within |-> caller.within] IN
                    \/ Resume(call) /\ UNCHANGED calls
                    \/ /\ Cardinality(calls) < MaxCalls /\ calls' = calls \cup {call}
                       /\ UNCHANGED <<stored, turn, warm>>
OpenCall(call) == Resume(call) /\ calls' = calls \ {call}
\* The session is held by another turn, or cannot be resumed.
RefuseCall(call) ==
    /\ calls' = calls \ {call}
    /\ UNCHANGED <<stored, turn, warm>>

\* What a running turn does and no person is asked for: the vendor what its mode
\* grants, and acpc answers the requests for the rest by itself.  The options of
\* a request are the adapter's; one that find_option takes nothing from is denied.
Unasked(s) ==
    {c \in Categories : c <= Grants(turn[s].mode) \/ Allows(turn[s].policy, c)}
AskPerson(s) ==
    /\ turn[s].phase = "running" /\ \E c \in Categories : Asks(turn[s].policy, c)
    /\ turn' = [turn EXCEPT ![s].phase = "asking"]
    /\ UNCHANGED <<stored, warm, calls>>
\* Silence, a no, and a terminal that cannot be opened all deny.
Answers(s) ==
    /\ turn[s].phase = "asking"
    /\ turn' = [turn EXCEPT ![s].phase = "running"]
    /\ UNCHANGED <<stored, warm, calls>>
\* A change of mode in the running turn is held to the stored policy, and one
\* that is refused ends the turn.
SwitchAdmitted(s, mode) == Admits(turn[s].policy, mode)
SwitchMode(s) ==
    /\ turn[s].phase = "running"
    /\ \E mode \in 1..Undeclared :
        turn' = [turn EXCEPT ![s] = IF SwitchAdmitted(s, mode) THEN [@ EXCEPT !.mode = mode] ELSE NoTurn]
    /\ UNCHANGED <<stored, warm, calls>>
TurnOver(s) ==
    /\ Runs1(s) /\ turn' = [turn EXCEPT ![s] = NoTurn]
    /\ UNCHANGED <<stored, warm, calls>>
\* The daemon of a target expires with no turn in it.
CoolDown ==
    /\ \E a \in warm :
        /\ \A s \in Calls : Runs1(s) => turn[s].adapter # a
        /\ warm' = warm \ {a}
    /\ UNCHANGED <<stored, turn, calls>>

----------------------------------------------------------------------------
PermissionsInit ==
    /\ stored = [s \in Calls |-> [policy |-> None0, mode |-> 0, known |-> FALSE]]
    /\ turn = [s \in Calls |-> NoTurn]
    /\ warm = {} /\ calls = {}
PermissionsNext ==
    \/ \E s \in Calls :
        \/ RunCall(s) \/ ContinueCall(s) \/ AskPerson(s) \/ Answers(s)
        \/ SwitchMode(s) \/ TurnOver(s)
    \/ \E call \in calls : OpenCall(call) \/ RefuseCall(call)
    \/ CoolDown
PermissionsSpec == PermissionsInit /\ [][PermissionsNext]_permvars

----------------------------------------------------------------------------
\* "A child cannot request more authority than its parent": whatever chain of
\* runs, continuations, modes and warm adapters led to it, a turn does nothing
\* unasked that the turn it was called from could not, nor anything above its
\* own policy.  The way out is a continue that another one overtook: its turn
\* opens under the policy stored by then, in the adapter it asked for before.
NoMoreThanParent ==
    \A s \in Calls : Runs1(s) =>
        \A c \in Unasked(s) :
            Allows(turn[s].policy, c) /\ (c <= turn[s].within \/ turn[s].overtaken)
=============================================================================
