------------------------------ MODULE Settings ------------------------------
(***************************************************************************)
(* What the turns of one session go out with.  The session keeps the       *)
(* settings it was started with (runner.session_resolution) while its      *)
(* registry entry is edited, and one of its turns is served by the warm    *)
(* adapter of the daemon its target names, or by a process of its own.  A  *)
(* target is computed from the kept policy and effort and the live entry's *)
(* way to deliver the effort (runner.daemon_target); the process in it was *)
(* started for whichever turn, of any session, found none.                 *)
(***************************************************************************)
EXTENDS Naturals, FiniteSets

CONSTANTS
    Grades,         \* the permission policies that occur
    Efforts,        \* effort levels; 0 is none, the vendor's default
    LastOpened,     \* bound on the turns of the session
    Waiting         \* bound on the requests that are built and not dispatched

ASSUME SettingsAssumption == 0 \in Efforts /\ 0 \notin Grades /\ LastOpened \in Nat

VARIABLES
    live,       \* the entry: effort_via, "cli" or "option"
    kept,       \* meta.json: the settings of the session
    opened,     \* meta.json: its turns
    built,      \* requests that clients built and did not dispatch yet
    drive,      \* the turn that is under way
    hosts,      \* per target: its adapter process
    vendor      \* the turns in the vendor's own store of the session

setvars == <<live, kept, opened, built, drive, hosts, vendor>>

Vias == {"cli", "option"}
\* The effort on the command line that starts an adapter, 0 for none.
Argv(effort, via) == IF via = "cli" THEN effort ELSE 0
Keys == [grade : Grades, argv : Efforts]
\* The session may keep one way and the entry have another by now: the key has
\* the live one, the command line the kept one.
KeyOf(grade, effort) == [grade |-> grade, argv |-> Argv(effort, live)]
\* A process that has the session warm knows the turns in `known`.
Down == [up |-> FALSE, argv |-> 0, warm |-> FALSE, known |-> {}]
Up(argv) == [Down EXCEPT !.up = TRUE, !.argv = argv]
AtRest == [phase |-> "none"]

----------------------------------------------------------------------------
(* Clients.  A request is built from meta.json and sent in a later step.    *)

EditEntry ==
    /\ live' \in Vias \ {live}
    /\ UNCHANGED <<kept, opened, built, drive, hosts, vendor>>

Request(grade, via, changes) ==
    \E own \in BOOLEAN :
        built' = built \cup {[after |-> opened, grade |-> grade, via |-> via, changes |-> changes,
                              own |-> own, key |-> KeyOf(grade, kept'.effort)]}

\* run: the session is created with what the entry and the flags resolve to.
BuildRun ==
    /\ kept.grade = 0
    /\ \E grade \in Grades, effort \in Efforts :
        /\ kept' = [grade |-> grade, effort |-> effort, via |-> live]
        /\ Request(grade, live, FALSE)
    /\ UNCHANGED <<live, opened, drive, hosts, vendor>>
\* continue: the kept settings, or --permissions, which takes the live entry's
\* adapter facts with it.  There is something to resume once a prompt went out.
BuildContinue ==
    /\ vendor # {} /\ drive = AtRest /\ Cardinality(built) < Waiting
    /\ UNCHANGED <<live, kept, opened, drive, hosts, vendor>>
    /\ \/ Request(kept.grade, kept.via, FALSE)
       \/ \E grade \in Grades : Request(grade, live, TRUE)

\* The turn is opened under the lock, with the settings meta.json has by then
\* or with those of the request.  A daemon resolves the entry of a first turn
\* anew, and starts its adapter when there is none.
Opened(r) == IF r.changes THEN [kept EXCEPT !.grade = r.grade, !.via = r.via] ELSE kept
ViaOf(r) == IF r.after = 0 /\ ~r.own THEN live ELSE Opened(r).via
Open(r) ==
    /\ drive = AtRest /\ opened < LastOpened
    /\ built' = built \ {r}
    /\ kept' = Opened(r)
    /\ opened' = opened + 1
    /\ hosts' = IF r.own \/ hosts[r.key].up THEN hosts
                ELSE [hosts EXCEPT ![r.key] = Up(Argv(kept.effort, ViaOf(r)))]
    /\ drive' = [phase |-> IF r.after = 0 \/ r.own THEN "ready" ELSE "claimed",
                 first |-> r.after = 0, own |-> r.own, key |-> r.key, via |-> ViaOf(r),
                 argv |-> Argv(kept.effort, r.via), before |-> kept,
                 overtaken |-> opened # r.after,
                 history |-> IF r.own THEN vendor ELSE {}, effort |-> 0]
    /\ UNCHANGED <<live, vendor>>
\* Another turn is under way; or a continuation finds its adapter not to start,
\* or fails the restore a direct one begins with, and is undone.
Refuse(r) ==
    /\ drive # AtRest \/ r.after > 0
    /\ built' = built \ {r}
    /\ UNCHANGED <<live, kept, opened, drive, hosts, vendor>>

----------------------------------------------------------------------------
(* The daemon of a target.                                                  *)

\* ensure: the process that is up, or a new one for this turn; _check_command
\* holds what runs against what this turn would start.
Required == Argv(kept.effort, drive.via)
Process == IF hosts[drive.key].up THEN hosts[drive.key] ELSE Up(Required)
AnyCommand(argv) == TRUE                        \* mutant: _check_command left out
SameCommand(argv) == argv = Required

\* _prepare_turn: a warm session is left as it is; any other is loaded from the
\* vendor's store, and a load that fails undoes the claim.
Prepare ==
    /\ drive.phase = "claimed" /\ SameCommand(Process.argv)
    /\ hosts' = [hosts EXCEPT ![drive.key] = Process]
    /\ \/ /\ drive' = [drive EXCEPT !.phase = "ready",
                            !.history = IF Process.warm THEN Process.known ELSE vendor]
          /\ UNCHANGED <<kept, opened>>
       \/ /\ ~Process.warm
          /\ drive' = AtRest /\ kept' = drive.before /\ opened' = opened - 1
    /\ UNCHANGED <<live, built, vendor>>

\* apply_call_options and the prompt: the effort is an option of the adapter
\* session, or whatever the process was started with.
Sent(argv) ==
    /\ drive' = [drive EXCEPT !.phase = "prompted",
                    !.effort = IF drive.via = "option" /\ kept.effort # 0 THEN kept.effort ELSE argv]
    /\ vendor' = vendor \cup {opened}
    /\ UNCHANGED <<live, kept, opened, built>>
SendDaemon ==
    /\ drive.phase = "ready" /\ ~drive.own /\ SameCommand(Process.argv)
    /\ Sent(Process.argv)
    /\ hosts' = [hosts EXCEPT ![drive.key] =
                    [Process EXCEPT !.warm = TRUE, !.known = drive.history \cup {opened}]]
SendDirect ==
    /\ drive.phase = "ready" /\ drive.own
    /\ Sent(drive.argv)
    /\ UNCHANGED hosts

\* A turn ends, prompted or canceled or failed before: where the commands
\* differ, or the adapter does not know the session, it can only fail.  What
\* was opened with it stays.
Finish ==
    /\ drive # AtRest /\ drive' = AtRest
    /\ UNCHANGED <<live, kept, opened, built, hosts, vendor>>
\* A turn of another session finds its daemon without a process; it keeps
\* either way, whatever the entry's is when its target is computed.
OtherStarts(key) ==
    /\ ~hosts[key].up
    /\ \E effort \in Efforts, via \in Vias :
        /\ key.argv = Argv(effort, live)
        /\ hosts' = [hosts EXCEPT ![key] = Up(Argv(effort, via))]
    /\ UNCHANGED <<live, kept, opened, built, drive, vendor>>
\* The adapter process dies, or its daemon expires or is stopped.  A turn that
\* was prepared in it goes on to a new process that never saw the session.
HostGone(key) ==
    /\ hosts[key].up
    /\ hosts' = [hosts EXCEPT ![key] = Down]
    /\ drive' =
        IF drive = AtRest THEN drive
        ELSE IF drive.own \/ drive.key # key THEN drive
        ELSE IF drive.phase = "prompted" THEN AtRest
        ELSE IF drive.phase = "ready" /\ ~drive.first THEN [drive EXCEPT !.phase = "lost"]
        ELSE drive
    /\ UNCHANGED <<live, kept, opened, built, vendor>>

----------------------------------------------------------------------------
SettingsInit ==
    /\ live = "option"
    /\ kept = [grade |-> 0, effort |-> 0, via |-> "option"]
    /\ opened = 0 /\ built = {} /\ drive = AtRest
    /\ hosts = [key \in Keys |-> Down]
    /\ vendor = {}
SettingsNext ==
    \/ EditEntry \/ BuildRun \/ BuildContinue
    \/ \E r \in built : Open(r) \/ Refuse(r)
    \/ Prepare \/ SendDaemon \/ SendDirect \/ Finish
    \/ \E key \in Keys : OtherStarts(key) \/ HostGone(key)
SettingsSpec == SettingsInit /\ [][SettingsNext]_setvars

----------------------------------------------------------------------------
\* "Editing an entry never changes a session mid-conversation": whatever edits,
\* sessions of the same daemon, changed policies and undone turns came before,
\* a prompt goes out with the effort the session keeps.  The way out is a direct
\* turn whose process was started from a request that another turn of the
\* session overtook (_drive_turn spawns before it opens the turn).
PinnedEffort ==
    (drive.phase = "prompted" /\ ~(drive.own /\ drive.overtaken)) => drive.effort = kept.effort

\* SPEC.md, `continue`: it "preserves the adapter context"; daemon.py,
\* _prepare_drive: a warm session's "own history is intact".  A prompt is sent
\* to a process that knows every turn before it.
ContextKept ==
    drive.phase = "prompted" => drive.history \cup {opened} = vendor
=============================================================================
