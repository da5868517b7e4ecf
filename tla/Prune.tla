-------------------------------- MODULE Prune --------------------------------
(***************************************************************************)
(* Many sessions in one store: their names, the retention sweep (`prune`,  *)
(* and the one `run` makes before it creates a session), `delete`, and the *)
(* turn of a direct `continue`, which holds its session's lock throughout. *)
(* What happens inside one session is SessionStore's; here a session is    *)
(* its name, its turn number, whether it is active and when it finished.   *)
(***************************************************************************)
EXTENDS Naturals, FiniteSets

CONSTANTS
    Ids,            \* session ids; their order is the order of allocation
    Commands,       \* processes, each with one command to run
    MayRun,         \* bound: which of "prune", "delete", "continue", "run"
    Name,           \* the name every `run` asks for
    OlderThan,      \* --older-than
    MaxTime         \* bound: the clock stops here

ASSUME PruneAssumption ==
    /\ IsFiniteSet(Ids) /\ Ids = 1..Cardinality(Ids) /\ OlderThan \in Nat /\ MaxTime \in Nat
    /\ MayRun \in [Commands -> SUBSET {"prune", "delete", "continue", "run"}]

VARIABLES
    store,      \* directory of each id
    lock,       \* who holds its flock: a set of at most one command
    time,
    sweep       \* each command: how far it is, its targets, those of them it has
                \* locked, its `now`; and the turns it began over, for the property

pvars == <<store, lock, time, sweep>>

Readable(i) == store[i].kind \in {"active", "finished"}     \* has a meta.json
NoTurns == [i \in Ids |-> 0]
NoSweep == [pc |-> "idle", targets |-> {}, held |-> {}, now |-> 0, turns |-> NoTurns, for |-> 0]

\* list_sessions skips tombstones and directories without a meta.json.
Listed == {i \in Ids : Readable(i)}
\* Newest first, ids break the tie; ids are allocated in order here.
Newest(set) == CHOOSE i \in set : \A j \in set : j <= i
Holders == {i \in Listed : store[i].name = Name}
\* resolve_selector of a name.
Resolves(i) == Holders # {} /\ i = Newest(Holders)

\* prune_candidates and the check that repeats it under the locks.
Prunable(i, now) ==
    /\ store[i].kind = "finished"
    /\ store[i].finished_at + OlderThan <= now
\* The time the second check measures ages at: taken before the locks.
CheckTimeLate(c) == time                        \* mutant: taken under them
CheckTime(c) == sweep[c].now
\* The lock taken next: the targets are sorted by their ids.
Missing(c) == sweep[c].targets \ sweep[c].held
WantedListed(c) ==                              \* mutant: as the directory lists them
    IF c = (CHOOSE d \in Commands : "prune" \in MayRun[d])
    THEN {i \in Missing(c) : \A j \in Missing(c) : j <= i}
    ELSE {i \in Missing(c) : \A j \in Missing(c) : i <= j}
Wanted(c) == {i \in Missing(c) : \A j \in Missing(c) : i <= j}

----------------------------------------------------------------------------
\* `run --name`: claim_name reads the list without a lock.  A name of a session
\* that is active is refused, any other is rebound.
ClaimAlias(c) ==
    /\ "run" \in MayRun[c] /\ sweep[c].pc = "idle"
    /\ IF \E i \in Ids : Resolves(i) /\ store[i].kind = "active"
       THEN sweep' = [sweep EXCEPT ![c].pc = "refused"]
       ELSE sweep' = [sweep EXCEPT ![c].pc = "claimed"]
    /\ UNCHANGED <<store, lock, time>>
\* allocate_session_id: the mkdir is the claim; a tombstone still has its.
Allocate(c) ==
    /\ sweep[c].pc = "claimed"
    /\ \E i \in Ids :
        /\ store[i].kind = "absent" /\ \A j \in Ids : j < i => store[j].kind # "absent"
        /\ store' = [store EXCEPT ![i].kind = "made"]
        /\ sweep' = [sweep EXCEPT ![c].pc = "allocated", ![c].for = i]
    /\ UNCHANGED <<lock, time>>
\* create_session publishes meta.json under the lock.
Publish(c) ==
    LET i == sweep[c].for IN
    /\ sweep[c].pc = "allocated" /\ lock[i] = {}
    /\ store' = [store EXCEPT ![i].kind = "active", ![i].name = Name, ![i].turns = 1]
    /\ sweep' = [sweep EXCEPT ![c].pc = "done"]
    /\ UNCHANGED <<lock, time>>

----------------------------------------------------------------------------
\* prune_candidates, and the confirmation after which prune_sessions begins
\* with the clock it then reads.
Select(c) ==
    LET found == {i \in Ids : Prunable(i, time)} IN
    /\ "prune" \in MayRun[c] /\ sweep[c].pc = "idle"
    /\ sweep' = IF found = {} THEN [sweep EXCEPT ![c].pc = "done"]
                ELSE [sweep EXCEPT ![c].pc = "selected", ![c].targets = found]
    /\ UNCHANGED <<store, lock, time>>
Confirm(c) ==
    /\ sweep[c].pc = "selected"
    /\ sweep' = [sweep EXCEPT ![c].pc = "locking", ![c].now = time,
                              ![c].turns = [i \in Ids |-> store[i].turns]]
    /\ UNCHANGED <<store, lock, time>>
Unlocked(c) == [i \in Ids |-> lock[i] \ {c}]
\* flock waits for whoever holds it.
LockNext(c) ==
    /\ sweep[c].pc = "locking"
    /\ \E i \in Wanted(c) :
        /\ lock[i] = {}
        /\ lock' = [lock EXCEPT ![i] = {c}]
        /\ sweep' = [sweep EXCEPT ![c].held = @ \cup {i}]
    /\ UNCHANGED <<store, time>>
\* Every target is read back before the first one is touched; one that
\* changed aborts the whole sweep.
Verify(c) ==
    /\ sweep[c].pc = "locking" /\ Missing(c) = {}
    /\ IF \A i \in sweep[c].held : Prunable(i, CheckTime(c))
       THEN sweep' = [sweep EXCEPT ![c].pc = "clearing"] /\ UNCHANGED lock
       ELSE sweep' = [sweep EXCEPT ![c].pc = "refused"] /\ lock' = Unlocked(c)
    /\ UNCHANGED <<store, time>>
\* _clear_directory and _write_tombstone, one session at a time; killed in
\* between, a directory is left with neither meta.json nor tombstone.
Clear1(c) ==
    /\ sweep[c].pc = "clearing"
    /\ \E i \in sweep[c].held :
        /\ store[i].kind = "finished"
        /\ ~\E j \in sweep[c].held : store[j].kind = "cleared"
        /\ store' = [store EXCEPT ![i].kind = "cleared", ![i].name = ""]
    /\ UNCHANGED <<lock, time, sweep>>
Bury(c) ==
    /\ sweep[c].pc = "clearing"
    /\ \E i \in sweep[c].held :
        /\ store[i].kind = "cleared"
        /\ store' = [store EXCEPT ![i].kind = "tombstone"]
    /\ UNCHANGED <<lock, time, sweep>>
Release(c) ==
    /\ sweep[c].pc = "clearing"
    /\ \A i \in sweep[c].held : store[i].kind = "tombstone"
    /\ lock' = Unlocked(c)
    /\ sweep' = [sweep EXCEPT ![c].pc = "done"]
    /\ UNCHANGED <<store, time>>

\* `delete` of a session it resolved: refused while active, before the
\* confirmation and again under the lock.
ChooseVictim(c) ==
    /\ "delete" \in MayRun[c] /\ sweep[c].pc = "idle"
    /\ \E i \in Listed : store[i].kind = "finished"
        /\ sweep' = [sweep EXCEPT ![c].pc = "deleting", ![c].targets = {i}]
    /\ UNCHANGED <<store, lock, time>>
Delete(c) ==
    /\ sweep[c].pc = "deleting"
    /\ \E i \in sweep[c].targets :
        /\ lock[i] = {}
        /\ IF store[i].kind = "finished"
           THEN /\ lock' = [lock EXCEPT ![i] = {c}]
                /\ sweep' = [sweep EXCEPT ![c].pc = "clearing", ![c].held = {i}]
           ELSE sweep' = [sweep EXCEPT ![c].pc = "refused"] /\ UNCHANGED lock
    /\ UNCHANGED <<store, time>>

----------------------------------------------------------------------------
\* The clock is finer than any two events of a turn: a turn ends after
\* whatever read the clock before.
Later == time < MaxTime /\ time' = time + 1

\* A direct `continue`: session_reservation never waits, is held from the
\* preparation to the end of the turn, and its turn rotates in between.
ReserveTurn(c) ==
    /\ "continue" \in MayRun[c] /\ sweep[c].pc = "idle"
    /\ \E i \in Listed : store[i].kind = "finished" /\
        IF lock[i] = {}
        THEN /\ lock' = [lock EXCEPT ![i] = {c}]
             /\ sweep' = [sweep EXCEPT ![c].pc = "reserved", ![c].for = i]
        ELSE /\ sweep' = [sweep EXCEPT ![c].pc = "refused"]
             /\ UNCHANGED lock
    /\ UNCHANGED <<store, time>>
Rotate(c) ==
    /\ sweep[c].pc = "reserved"
    /\ store' = [store EXCEPT ![sweep[c].for].kind = "active", ![sweep[c].for].turns = @ + 1]
    /\ sweep' = [sweep EXCEPT ![c].pc = "driving"]
    /\ UNCHANGED <<lock, time>>
FinishTurn(c) ==
    /\ sweep[c].pc = "driving" /\ Later
    /\ store' = [store EXCEPT ![sweep[c].for].kind = "finished",
                              ![sweep[c].for].finished_at = time']
    /\ lock' = Unlocked(c)
    /\ sweep' = [sweep EXCEPT ![c].pc = "done"]
\* The first turn of a session that `run` created ends, or list_sessions finds
\* its process dead and records `unknown`: finished now.
FirstTurnEnds ==
    /\ Later
    /\ \E i \in Ids :
        /\ store[i].kind = "active" /\ store[i].turns = 1 /\ lock[i] = {}
        /\ store' = [store EXCEPT ![i].kind = "finished", ![i].finished_at = time']
    /\ UNCHANGED <<lock, sweep>>

\* The process is killed; the system drops its locks.
Killed(c) ==
    /\ sweep[c].pc \in {"locking", "clearing", "allocated"}
    /\ sweep' = [sweep EXCEPT ![c].pc = "killed"]
    /\ lock' = Unlocked(c)
    /\ UNCHANGED <<store, time>>
PassTime ==
    /\ Later
    /\ UNCHANGED <<store, lock, sweep>>

----------------------------------------------------------------------------
\* Two sessions that finished at time 0, the older one under the name.
PruneInit ==
    /\ store = [i \in Ids |->
                 [kind |-> IF i <= 2 THEN "finished" ELSE "absent",
                  name |-> IF i = 1 THEN Name ELSE "", finished_at |-> 0,
                  turns |-> IF i <= 2 THEN 1 ELSE 0]]
    /\ lock = [i \in Ids |-> {}] /\ time = 0
    /\ sweep = [c \in Commands |-> NoSweep]

PruneNext ==
    \/ \E c \in Commands :
        \/ ClaimAlias(c) \/ Allocate(c) \/ Publish(c)
        \/ Select(c) \/ Confirm(c) \/ LockNext(c) \/ Verify(c)
        \/ Clear1(c) \/ Bury(c) \/ Release(c) \/ ChooseVictim(c) \/ Delete(c)
        \/ ReserveTurn(c) \/ Rotate(c) \/ FinishTurn(c) \/ Killed(c)
    \/ FirstTurnEnds \/ PassTime
PruneSpec == PruneInit /\ [][PruneNext]_pvars

----------------------------------------------------------------------------
\* "Running sessions are never touched", and neither is one that was continued
\* after the sweep had begun, however young a session it may take: what is
\* cleared is finished, under the sweep's lock, and in the turn it was then in.
SweepSparesNewTurns ==
    [][\A i \in Ids : store'[i].kind = "cleared" /\ store[i].kind # "cleared" =>
        /\ store[i].kind = "finished"
        /\ \E c \in Commands : /\ lock[i] = {c}
                               /\ sweep[c].turns # NoTurns
                                  => sweep[c].turns[i] = store[i].turns]_pvars

\* Commands that run at once, and the turns that hold a lock for long, do not
\* wait for each other in a circle: in any set of commands, one waits for
\* nobody of the set.
WantsLock(c) ==
    {i \in Ids : \/ sweep[c].pc = "locking" /\ i \in Wanted(c)
                 \/ sweep[c].pc = "deleting" /\ i \in sweep[c].targets
                 \/ sweep[c].pc = "allocated" /\ i = sweep[c].for}
WaitsFor(c, d) == \E i \in Ids : lock[i] = {d} /\ i \in WantsLock(c)
NoCircularWait ==
    \A circle \in SUBSET Commands :
        (\A c \in circle : \E d \in circle : WaitsFor(c, d)) => circle = {}
=============================================================================
